--------------------------- MODULE RecoverySteps ---------------------------
(***************************************************************************)
(* The inductive invariant of Recovery, and that the steps of the          *)
(* collector keep it: marking, the links of the sweep and what the sweep   *)
(* concludes of a superblock.                                              *)
(***************************************************************************)
EXTENDS Recovery, TLAPS

-----------------------------------------------------------------------------
(* The inductive invariant *)

Starts(bs) == {b.start : b \in bs}
KeptStarts == Starts(kept)

\* Descriptors of a region: the superblocks a large block covers besides its
\* first have never been used by themselves.
LayoutOK(ds) ==
  /\ ds = [s \in Sbs |-> ds[s]]
  /\ \A s \in Sbs :
       \/ ds[s] = Descriptor
       \/ \E c \in Classes : ds[s] = SmallDesc(s, c)
       \/ \E n \in LargeSbs : /\ ds[s] = LargeDesc(s, n) /\ s + n <= EndSb
                              /\ \A r \in (s + 1)..(s + n - 1) : ds[r] = Descriptor

DescInv == LayoutOK(desc) /\ pdesc = IF phase = "running" THEN SmallOnly(desc) ELSE desc

\* Where a pointer leads that has lost its large block: the first word of a
\* superblock whose descriptor is empty and that is in no block.
Dangling(ds) == {s * SBSIZE : s \in {r \in Sbs : ds[r] = Descriptor}} \ AllWords(Blocks(ds))

\* While the application runs.
Pointed == Starts(Blocks(desc)) \cup {null}
RunOK ==
  /\ roots \in [RootIdx -> Pointed] /\ mem \in [Words -> Pointed]
  /\ pmem = mem
  /\ Cardinality({w \in Words : mem[w] # null}) <= MaxPtrs

\* Of the blocks bs, S holds what the roots rs and the blocks that start in S
\* point to.
ClosedUnder(S, bs, m, rs) ==
  /\ \A i \in RootIdx : rs[i] \in Starts(bs) => rs[i] \in S
  /\ \A b \in bs : b.start \in S =>
       \A w \in WordsOf(b) : m[w] \in Starts(bs) => m[w] \in S

\* What was reachable after the crash, and only that, is still reachable.
Reads == KeptStarts \cup Dangling(desc) \cup {null}
KeptOK ==
  /\ kept \subseteq Blocks(desc)
  /\ kept_words = {<<w, mem[w]>> : w \in AllWords(kept)}
  /\ \A w \in AllWords(kept) : pmem[w] = mem[w]
  /\ \A i \in RootIdx : roots[i] \in Reads
  /\ \A w \in AllWords(kept) : mem[w] \in Reads
  /\ \A S \in SUBSET KeptStarts : ClosedUnder(S, kept, mem, roots) => S = KeptStarts

\* Marking: a marked block waits to be filtered, or what it points to is
\* marked, except by the words that are still to be read.
MarkOK ==
  /\ marked_blk \subseteq KeptStarts \cup Dangling(desc)
  /\ to_filter \in Seq(marked_blk)
  /\ next_root \in 1..(MaxRoots + 1)
  /\ \A i \in RootIdx : i < next_root => roots[i] \in marked_blk \cup {null}
  /\ scan \in Nat /\ scan_end \in Nat /\ scan <= scan_end
  /\ scan..(scan_end - 1) \subseteq AllWords(kept)
  /\ \A b \in kept : b.start \in marked_blk /\ b.start \notin Range(to_filter) =>
       \A w \in WordsOf(b) : w \in scan..(scan_end - 1) \/ mem[w] \in marked_blk \cup {null}

MarksOK == KeptStarts \subseteq marked_blk /\ marked_blk \subseteq KeptStarts \cup Dangling(desc)
Unmarked ==
  marked_blk = {} /\ to_filter = << >> /\ next_root = 1 /\ scan = 0 /\ scan_end = 0

SbWords(s) == (s * SBSIZE)..((s + 1) * SBSIZE - 1)
Used(s) == \E b \in kept : WordsOf(b) \cap SbWords(s) # {}
IsSmall(s) == desc[s].heap \in Classes
\* Free blocks of superblock s below p.
FreeBelow(s, p) ==
  {q \in Starts(Blocks(desc)) \ KeptStarts : s * SBSIZE <= q /\ q < p}
Others(s) == FreeBelow(s, (s + 1) * SBSIZE)

\* The n addresses linked from p on are the ones of S, each once.
Linked(m, p, n, S) ==
  \E q \in [1..n -> S] :
    /\ n > 0 => q[1] = p
    /\ \A i \in 2..n : q[i] = Load(m, q[i - 1])
    /\ Lists(q, S)

\* The superblock being swept: no mark passed; one large block; small ones.
AtEmpty ==
  /\ state = "EMPTY" /\ free_block = curr_sb * SBSIZE /\ count = 0
  /\ \/ rest = {p \in marked_blk : p >= free_block}
     \/ /\ curr_sb < EndSb /\ desc[curr_sb] = Descriptor
        /\ rest = {p \in marked_blk : p > free_block}
AtFull ==
  /\ state = "FULL" /\ curr_sb < EndSb /\ desc[curr_sb].heap = LargeHeap
  /\ free_block = curr_sb * SBSIZE /\ count = 0 /\ free_block \in KeptStarts
  /\ rest = {p \in marked_blk : p > free_block}
AtPartial ==
  /\ state = "PARTIAL" /\ curr_sb < EndSb /\ IsSmall(curr_sb)
  /\ \E i \in Nat : /\ count <= i /\ i <= desc[curr_sb].maxcount
                    /\ free_block = curr_sb * SBSIZE + i * desc[curr_sb].block_size
  /\ \E p \in KeptStarts : desc_lookup(p) = curr_sb
  /\ rest = {p \in marked_blk : p >= free_block}
CurrOK ==
  /\ curr_sb \in 1..EndSb /\ count \in Nat /\ (count = 0 => free_head = null)
  /\ AtEmpty \/ AtFull \/ AtPartial
  /\ Linked(mem, free_head, count, FreeBelow(curr_sb, free_block))

\* The superblocks that were swept.
Done == 1..(curr_sb - 1)
DoneSmall == {s \in Done : Used(s) /\ IsSmall(s)}
DoneOK ==
  /\ new_avail \in Seq(Sbs) /\ partial_list \in [Classes -> Seq(Sbs)]
  /\ \A b \in kept : b.start < curr_sb * SBSIZE => b.start + b.words <= curr_sb * SBSIZE
  /\ Lists(new_avail, {s \in Done : ~Used(s)})
  /\ \A s \in DoneSmall :
       Linked(mem, s * SBSIZE + anchor[s].avail * desc[s].block_size, anchor[s].count, Others(s))
  /\ \A s \in Done : Used(s) /\ desc[s].heap = LargeHeap => anchor[s].count = 0
  /\ \A c \in Classes :
       Lists(partial_list[c], {s \in DoneSmall : desc[s].heap = c /\ Others(s) # {}})

IInv ==
  /\ TypeOK /\ phase # "aborted" /\ DescInv
  /\ phase = "running" => RunOK
  /\ phase # "running" => KeptOK
  /\ phase = "crashed" => Unmarked
  /\ phase = "mark" => scan = 0 /\ scan_end = 0
  /\ phase = "filter" => next_root = MaxRoots + 1
  /\ phase \in {"mark", "filter"} => MarkOK /\ partial_list = [c \in Classes |-> << >>]
  /\ phase \in {"sweep", "recovered"} => MarksOK /\ CurrOK /\ DoneOK
  /\ phase \notin {"sweep", "recovered"} => rest = {} /\ curr_sb = 1
  /\ phase = "recovered" => avail_sb = new_avail /\ curr_sb = EndSb

\* What the sweep needs to know of addresses, proved in RecoveryProofs.
WellOrdered == \A S \in SUBSET Nat : S # {} => \E n \in S : \A m \in S : n <= m

-----------------------------------------------------------------------------
(* Arithmetic *)

\* What the constants are.
LEMMA Constants ==
  /\ SBSIZE \in Nat \ {0} /\ EndSb \in Nat /\ EndSb >= 2
  /\ MaxRoots \in Nat /\ MaxPtrs \in Nat /\ MaxCrashes \in Nat
  /\ Sbs \subseteq Nat \ {0} /\ Words \subseteq Nat \ {0}
  /\ LargeSbs \subseteq Nat \ {0}
  /\ \A c \in Classes : c \in Nat \ {0} /\ BlockSize[c] \in 1..SBSIZE
<1>1. SBSIZE \in Nat \ {0} /\ EndSb \in Nat /\ EndSb >= 2
      /\ MaxRoots \in Nat /\ MaxPtrs \in Nat /\ MaxCrashes \in Nat
      /\ LargeSbs \subseteq Nat \ {0} /\ BlockSize \in Seq(1..SBSIZE)
  BY RecoveryAssumption, Zenon
<1>2. \A c \in Classes : c \in Nat \ {0} /\ BlockSize[c] \in 1..SBSIZE
  BY <1>1 DEF Classes
<1>3. Sbs \subseteq Nat \ {0} /\ Words \subseteq Nat \ {0}
  BY <1>1 DEF Sbs, Words
<1> QED BY <1>1, <1>2, <1>3, Zenon

\* Products are monotone, and addresses of different superblocks different.
LEMMA Product ==
  ASSUME NEW a \in Nat, NEW b \in Nat, NEW k \in Nat, a <= b
  PROVE  /\ a * k \in Nat /\ b * k \in Nat /\ a * k <= b * k
         /\ (a + b) * k = a * k + b * k /\ (b - a) * k = b * k - a * k
         /\ a < b => a * k + k <= b * k
OBVIOUS

\* Multiples of k, and what lies between two of them.
LEMMA Division ==
  ASSUME NEW a \in Nat, NEW k \in Nat \ {0}
  PROVE  /\ (a * k) \div k = a /\ (a * k) % k = 0
         /\ a \div k \in Nat /\ (a \div k) * k <= a /\ a < (a \div k) * k + k
OBVIOUS

\* desc_lookup finds the superblock of an address.
LEMMA Lookup ==
  ASSUME NEW s \in Nat, NEW p \in Nat
  PROVE  /\ desc_lookup(p) \in Nat
         /\ desc_lookup(p) = s <=> s * SBSIZE <= p /\ p < (s + 1) * SBSIZE
<1>1. desc_lookup(p) \in Nat /\ desc_lookup(p) * SBSIZE <= p
      /\ p < desc_lookup(p) * SBSIZE + SBSIZE
  BY Constants, Division, Zenon DEF desc_lookup
<1> DEFINE r == desc_lookup(p)
<1>2. r \in Nat /\ r * SBSIZE <= p /\ p < r * SBSIZE + SBSIZE
  BY <1>1, Zenon
<1> HIDE DEF r
<1>3. r < s => r * SBSIZE + SBSIZE <= s * SBSIZE
  BY <1>2, Constants, Product
<1>4. s < r => s * SBSIZE + SBSIZE <= r * SBSIZE
  BY <1>2, Constants, Product
<1>5. s * SBSIZE \in Nat /\ r * SBSIZE \in Nat /\ (s + 1) * SBSIZE = s * SBSIZE + SBSIZE
  BY <1>2, Constants
<1>6. r = s <=> s * SBSIZE <= p /\ p < s * SBSIZE + SBSIZE
  BY <1>2, <1>3, <1>4, <1>5, Constants
<1> QED BY <1>2, <1>5, <1>6, Zenon DEF r

-----------------------------------------------------------------------------
(* Descriptors and blocks *)

\* A superblock of a size class: its blocks fit into it.
LEMMA SmallShape ==
  ASSUME NEW s \in Sbs, NEW c \in Classes
  PROVE  LET d == SmallDesc(s, c) IN
         /\ d.heap = c /\ d.superblock = s * SBSIZE /\ d.block_size = BlockSize[c]
         /\ d.block_size \in 1..SBSIZE /\ d.maxcount \in 1..SBSIZE
         /\ d.maxcount * d.block_size \in Nat /\ d.maxcount * d.block_size <= SBSIZE
<1> DEFINE w == BlockSize[c]
           m == SBSIZE \div w
<1>1. w \in 1..SBSIZE /\ w \in Nat \ {0} /\ SBSIZE \in Nat
  BY Constants
<1> HIDE DEF w
<1>2. m \in Nat /\ m * w <= SBSIZE /\ SBSIZE < m * w + w
  BY <1>1, Division, Zenon
<1> HIDE DEF m
<1>3. m # 0
  BY <1>1, <1>2
<1>4. m <= m * w /\ m * w \in Nat
  BY <1>1, <1>2
<1> QED BY <1>1, <1>2, <1>3, <1>4 DEF SmallDesc, m, w

\* What a superblock's descriptor says, and that its blocks end before the
\* next superblock in use.
Shape(ds, s) ==
  /\ ds[s].heap = NoHeap \/ ds[s].heap = LargeHeap \/ ds[s].heap \in Classes
  /\ ds[s].maxcount \in Nat /\ ds[s].maxcount <= SBSIZE /\ ds[s].block_size \in Nat
  /\ ds[s].maxcount * ds[s].block_size \in Nat
  /\ ds[s].heap = NoHeap <=> ds[s].maxcount = 0
  /\ ds[s].heap = NoHeap => ds[s] = Descriptor
  /\ ds[s].heap # NoHeap => ds[s].superblock = s * SBSIZE /\ ds[s].block_size > 0
  /\ ds[s].heap \in Classes => ds[s].maxcount * ds[s].block_size <= SBSIZE
  /\ ds[s].heap = LargeHeap =>
       /\ ds[s].maxcount = 1
       /\ \E n \in LargeSbs : /\ ds[s].block_size = n * SBSIZE /\ s + n <= EndSb
                              /\ \A r \in (s + 1)..(s + n - 1) : ds[r] = Descriptor

\* Every descriptor of a layout describes blocks in this way.
LEMMA Shapes ==
  ASSUME NEW ds, LayoutOK(ds), NEW s \in Sbs
  PROVE  Shape(ds, s)
<1>0. NoHeap = -1 /\ LargeHeap = 0 /\ \A c \in Classes : c \in Nat \ {0}
  BY Constants, Zenon DEF NoHeap, LargeHeap
<1>1. CASE ds[s] = Descriptor
  BY <1>0, <1>1, Constants DEF Descriptor, Shape
<1>2. ASSUME NEW c \in Classes, ds[s] = SmallDesc(s, c) PROVE Shape(ds, s)
  <2>1. /\ ds[s].heap = c /\ ds[s].superblock = s * SBSIZE
        /\ ds[s].block_size \in 1..SBSIZE /\ ds[s].maxcount \in 1..SBSIZE
        /\ ds[s].maxcount * ds[s].block_size \in Nat
        /\ ds[s].maxcount * ds[s].block_size <= SBSIZE
    BY <1>2, SmallShape
  <2> QED BY <1>0, <1>2, <2>1, Constants DEF Shape
<1>3. ASSUME NEW n \in LargeSbs, ds[s] = LargeDesc(s, n), s + n <= EndSb,
             \A r \in (s + 1)..(s + n - 1) : ds[r] = Descriptor
      PROVE  Shape(ds, s)
  <2>1. /\ ds[s].heap = 0 /\ ds[s].superblock = s * SBSIZE
        /\ ds[s].block_size = n * SBSIZE /\ ds[s].maxcount = 1
    BY <1>3 DEF LargeDesc, LargeHeap
  <2>2. n * SBSIZE \in Nat /\ n * SBSIZE > 0
    BY Constants
  <2>3. 1 * (n * SBSIZE) \in Nat
    BY <2>2
  <2> QED BY <1>0, <1>3, <2>1, <2>2, <2>3, Constants DEF Shape
<1> QED BY <1>1, <1>2, <1>3, Zenon DEF LayoutOK

SbEnd(ds, s) == s * SBSIZE + ds[s].maxcount * ds[s].block_size

\* What two descriptors describe does not overlap.
LEMMA SbsApart ==
  ASSUME NEW ds, LayoutOK(ds), NEW s \in Sbs
  PROVE  /\ SbEnd(ds, s) \in Nat /\ SbEnd(ds, s) <= EndSb * SBSIZE
         /\ \A r \in Sbs : s < r /\ ds[r].maxcount > 0 => SbEnd(ds, s) <= r * SBSIZE
<1>1. Shape(ds, s)
  BY Shapes, Zenon
<1>2. s \in Nat /\ s + 1 \in Nat /\ s + 1 <= EndSb /\ EndSb \in Nat /\ SBSIZE \in Nat
  BY Constants DEF Sbs
<1>3. s * SBSIZE \in Nat /\ EndSb * SBSIZE \in Nat /\ s * SBSIZE + SBSIZE <= EndSb * SBSIZE
  BY <1>2, Product
<1>4. \A r \in Sbs : r \in Nat /\ r * SBSIZE \in Nat
                      /\ (s < r => s * SBSIZE + SBSIZE <= r * SBSIZE)
  BY <1>2, Product, Constants
<1>5. CASE ds[s].heap # LargeHeap
  <2>1. ds[s].maxcount * ds[s].block_size \in 0..SBSIZE
    <3>1. CASE ds[s].heap = NoHeap
      BY <1>1, <1>2, <3>1 DEF Shape, Descriptor
    <3>2. CASE ds[s].heap \in Classes
      BY <1>1, <1>2, <3>2 DEF Shape
    <3> QED BY <1>1, <1>5, <3>1, <3>2, Zenon DEF Shape
  <2> QED BY <1>2, <1>3, <1>4, <2>1 DEF SbEnd
<1>6. CASE ds[s].heap = LargeHeap
  <2>1. PICK n \in LargeSbs : /\ ds[s].block_size = n * SBSIZE /\ s + n <= EndSb
                              /\ \A r \in (s + 1)..(s + n - 1) : ds[r] = Descriptor
    BY <1>1, <1>6, Zenon DEF Shape
  <2>2. n \in Nat /\ n * SBSIZE \in Nat
    BY <1>2, Constants
  <2>3. SbEnd(ds, s) = s * SBSIZE + n * SBSIZE
    BY <1>1, <1>6, <2>1, <2>2 DEF SbEnd, Shape
  <2>4. s * SBSIZE + n * SBSIZE = (s + n) * SBSIZE /\ s + n \in Nat
    BY <1>2, <2>2
  <2>5. SbEnd(ds, s) <= EndSb * SBSIZE
    BY <1>2, <2>1, <2>3, <2>4, Product
  <2>6. ASSUME NEW r \in Sbs, s < r, ds[r].maxcount > 0 PROVE SbEnd(ds, s) <= r * SBSIZE
    <3>1. ds[r] # Descriptor
      BY <2>6 DEF Descriptor
    <3>2. r \in Nat /\ s + n <= r
      BY <1>2, <1>4, <2>1, <2>2, <2>6, <3>1
    <3> QED BY <1>2, <2>2, <2>3, <2>4, <3>2, Product
  <2> QED BY <1>3, <2>2, <2>3, <2>5, <2>6
<1> QED BY <1>5, <1>6, Zenon

Block(ds, s, i) == [start |-> s * SBSIZE + i * ds[s].block_size, words |-> ds[s].block_size]

\* A block b is block i of superblock s.
BlockIn(ds, b, s, i) ==
  /\ s \in Sbs /\ i \in Nat /\ i < ds[s].maxcount /\ b = Block(ds, s, i)
  /\ b.words = ds[s].block_size /\ b.words \in Nat \ {0}
  /\ b.start \in Nat /\ b.start = s * SBSIZE + i * ds[s].block_size
  /\ s * SBSIZE <= b.start /\ b.start < (s + 1) * SBSIZE /\ desc_lookup(b.start) = s
  /\ b.start + b.words <= SbEnd(ds, s)

\* Block i of superblock s, and where it lies.
LEMMA BlockAt ==
  ASSUME NEW ds, LayoutOK(ds), NEW s \in Sbs, NEW i \in Nat, i < ds[s].maxcount
  PROVE  Block(ds, s, i) \in Blocks(ds) /\ BlockIn(ds, Block(ds, s, i), s, i)
<1> DEFINE k == ds[s].block_size
           m == ds[s].maxcount
<1>1. Shape(ds, s)
  BY Shapes, Zenon
<1>2. k \in Nat \ {0} /\ m \in Nat /\ m * k \in Nat
  BY <1>1 DEF Shape
<1>3. s \in Nat /\ SBSIZE \in Nat \ {0} /\ s * SBSIZE \in Nat /\ (s + 1) * SBSIZE = s * SBSIZE + SBSIZE
  BY Constants
<1>4. Block(ds, s, i).start = s * SBSIZE + i * k /\ Block(ds, s, i).words = k
  BY Zenon DEF Block
<1>5. i * k \in Nat /\ i * k + k <= m * k
  <2> HIDE DEF k, m
  <2> QED BY <1>2, Product DEF m
<1>6. i * k < SBSIZE
  <2>1. CASE ds[s].heap \in Classes
    <3>1. m * k <= SBSIZE
      BY <1>1, <2>1, Zenon DEF Shape
    <3> HIDE DEF k, m
    <3> QED BY <1>2, <1>3, <1>5, <3>1
  <2>2. CASE ds[s].heap = LargeHeap
    <3>1. i = 0
      BY <1>1, <2>2 DEF Shape
    <3> QED BY <1>2, <1>3, <3>1
  <2> QED BY <1>1, <2>1, <2>2 DEF Shape
<1> DEFINE p == Block(ds, s, i).start
<1>7. p \in Nat /\ s * SBSIZE <= p /\ p < (s + 1) * SBSIZE /\ p + k <= s * SBSIZE + m * k
  <2> HIDE DEF k, m
  <2> QED BY <1>2, <1>3, <1>4, <1>5, <1>6
<1>8. desc_lookup(p) = s
  <2> HIDE DEF p
  <2> QED BY <1>3, <1>7, Lookup, Zenon
<1>9. Block(ds, s, i) \in Blocks(ds)
  <2>1. i \in 0..(ds[s].maxcount - 1)
    BY <1>2
  <2> QED BY <2>1 DEF Blocks, Block
<1> QED BY <1>2, <1>4, <1>7, <1>8, <1>9, Zenon DEF BlockIn, SbEnd

\* Every block is block i of some superblock s.
LEMMA BlockShape ==
  ASSUME NEW ds, LayoutOK(ds), NEW b \in Blocks(ds)
  PROVE  \E s \in Sbs, i \in Nat : BlockIn(ds, b, s, i)
<1>1. PICK s \in Sbs : \E i \in 0..(ds[s].maxcount - 1) : b = Block(ds, s, i)
  BY Zenon DEF Blocks, Block
<1>2. PICK i \in 0..(ds[s].maxcount - 1) : b = Block(ds, s, i)
  BY <1>1, Zenon
<1>3. i \in Nat /\ i < ds[s].maxcount
  BY Shapes DEF Shape
<1> QED BY <1>2, <1>3, BlockAt, Zenon

\* Different blocks have no word in common.
LEMMA BlocksApart ==
  ASSUME NEW ds, LayoutOK(ds), NEW a \in Blocks(ds), NEW b \in Blocks(ds), a # b
  PROVE  a.start + a.words <= b.start \/ b.start + b.words <= a.start
<1>1. PICK s \in Sbs, i \in Nat : BlockIn(ds, a, s, i)
  BY BlockShape, Zenon
<1>2. PICK r \in Sbs, j \in Nat : BlockIn(ds, b, r, j)
  BY BlockShape, Zenon
<1>3. /\ a.start \in Nat /\ a.words \in Nat /\ b.start \in Nat /\ b.words \in Nat
      /\ s \in Nat /\ r \in Nat
  BY <1>1, <1>2, Constants, Zenon DEF BlockIn
<1>4. ASSUME s < r PROVE a.start + a.words <= b.start
  <2>1. SbEnd(ds, s) \in Nat /\ SbEnd(ds, s) <= r * SBSIZE
    BY <1>2, <1>4, SbsApart, Shapes DEF BlockIn, Shape
  <2>2. r * SBSIZE \in Nat /\ a.start + a.words <= SbEnd(ds, s) /\ r * SBSIZE <= b.start
    BY <1>1, <1>2, <1>3, Constants DEF BlockIn
  <2> QED BY <1>3, <2>1, <2>2
<1>5. ASSUME r < s PROVE b.start + b.words <= a.start
  <2>1. SbEnd(ds, r) \in Nat /\ SbEnd(ds, r) <= s * SBSIZE
    BY <1>1, <1>5, SbsApart, Shapes DEF BlockIn, Shape
  <2>2. s * SBSIZE \in Nat /\ b.start + b.words <= SbEnd(ds, r) /\ s * SBSIZE <= a.start
    BY <1>1, <1>2, <1>3, Constants DEF BlockIn
  <2> QED BY <1>3, <2>1, <2>2
<1>6. CASE s = r
  <2> DEFINE k == ds[s].block_size
             o == s * SBSIZE
  <2>1. /\ a.start = o + i * k /\ b.start = o + j * k /\ a.words = k /\ b.words = k
        /\ k \in Nat /\ o \in Nat
    BY <1>1, <1>2, <1>3, <1>6, Constants DEF BlockIn
  <2>2. i # j
    BY <1>1, <1>2, <1>6, Zenon DEF BlockIn
  <2> HIDE DEF k, o
  <2>3. i < j => i * k + k <= j * k
    BY <2>1, Product
  <2>4. j < i => j * k + k <= i * k
    BY <2>1, Product
  <2>5. i * k \in Nat /\ j * k \in Nat
    BY <2>1
  <2> QED BY <2>1, <2>2, <2>3, <2>4, <2>5
<1> QED BY <1>3, <1>4, <1>5, <1>6

\* What the collector uses of a block: it lies in the region, and its start
\* leads to its descriptor.
LEMMA BlockFacts ==
  ASSUME NEW ds, LayoutOK(ds), NEW b \in Blocks(ds)
  PROVE  /\ b.start \in Words /\ b.words \in Nat \ {0} /\ b.start \in WordsOf(b)
         /\ WordsOf(b) \subseteq Words /\ b.start + b.words <= EndSb * SBSIZE
         /\ desc_lookup(b.start) \in Sbs
         /\ ds[desc_lookup(b.start)].block_size = b.words
         /\ ds[desc_lookup(b.start)].maxcount > 0
<1>1. PICK s \in Sbs, i \in Nat : BlockIn(ds, b, s, i)
  BY BlockShape, Zenon
<1>2. /\ b.start \in Nat /\ b.words \in Nat \ {0} /\ desc_lookup(b.start) = s
      /\ ds[s].block_size = b.words /\ i < ds[s].maxcount
      /\ s * SBSIZE <= b.start /\ b.start + b.words <= SbEnd(ds, s)
  BY <1>1, Zenon DEF BlockIn
<1>3. SbEnd(ds, s) \in Nat /\ SbEnd(ds, s) <= EndSb * SBSIZE
  BY SbsApart, Zenon
<1>4. s * SBSIZE \in Nat /\ SBSIZE <= s * SBSIZE
  <2>1. s \in Nat /\ 1 <= s /\ SBSIZE \in Nat
    BY Constants DEF Sbs
  <2>2. 1 * SBSIZE = SBSIZE
    BY <2>1
  <2> QED BY <2>1, <2>2, Product
<1>5. EndSb * SBSIZE \in Nat /\ SBSIZE \in Nat
  BY Constants
<1>6. b.start >= SBSIZE /\ b.start + b.words <= EndSb * SBSIZE
  BY <1>2, <1>3, <1>4, <1>5
<1> DEFINE e == EndSb * SBSIZE
<1>7. e \in Nat /\ b.start + b.words <= e /\ Words = SBSIZE..(e - 1)
  BY <1>5, <1>6, Zenon DEF Words
<1> HIDE DEF e
<1>8. b.start \in Words /\ b.start \in WordsOf(b) /\ WordsOf(b) \subseteq Words
  BY <1>2, <1>5, <1>6, <1>7 DEF WordsOf
<1>9. ds[s].maxcount > 0
  BY <1>2, Shapes DEF Shape
<1> QED BY <1>2, <1>6, <1>8, <1>9, Zenon

\* The block that holds an address is unique.
LEMMA OneBlock ==
  ASSUME NEW ds, LayoutOK(ds), NEW a \in Blocks(ds), NEW b \in Blocks(ds),
         NEW w, w \in WordsOf(a), w \in WordsOf(b)
  PROVE  a = b
<1>1. /\ a.start \in Nat /\ a.words \in Nat /\ b.start \in Nat /\ b.words \in Nat
  BY BlockFacts, Constants, Zenon
<1>2. w \in Nat /\ a.start <= w /\ w < a.start + a.words /\ b.start <= w /\ w < b.start + b.words
  BY <1>1 DEF WordsOf
<1> QED BY <1>1, <1>2, BlocksApart

\* The starts of blocks, as words.
LEMMA StartsOf ==
  ASSUME NEW ds, LayoutOK(ds), NEW bs \in SUBSET Blocks(ds)
  PROVE  /\ Starts(bs) \subseteq Words
         /\ \A b \in Blocks(ds) : b.start \in Starts(bs) <=> b \in bs
         /\ \A b \in Blocks(ds), p \in Starts(bs) : p \in WordsOf(b) => p = b.start /\ b \in bs
<1>1. Starts(bs) \subseteq Words
  BY BlockFacts, Zenon DEF Starts
<1>2. ASSUME NEW b \in Blocks(ds), NEW p \in Starts(bs), p \in WordsOf(b)
      PROVE  p = b.start /\ b \in bs
  <2>1. PICK a \in bs : p = a.start
    BY Zenon DEF Starts
  <2>2. p \in WordsOf(a)
    BY <2>1, BlockFacts, Zenon
  <2> QED BY <1>2, <2>1, <2>2, OneBlock
<1>3. \A b \in Blocks(ds) : b.start \in WordsOf(b)
  BY BlockFacts, Zenon
<1>4. \A b \in bs : b.start \in Starts(bs)
  BY Zenon DEF Starts
<1> QED BY <1>1, <1>2, <1>3, <1>4, Zenon

\* Of a superblock's blocks, those below an address.
LEMMA StartIn ==
  ASSUME NEW ds, LayoutOK(ds), NEW p \in Starts(Blocks(ds))
  PROVE  \E s \in Sbs, i \in Nat :
           /\ i < ds[s].maxcount /\ p = s * SBSIZE + i * ds[s].block_size
           /\ BlockIn(ds, Block(ds, s, i), s, i) /\ Block(ds, s, i) \in Blocks(ds)
           /\ desc_lookup(p) = s
<1>1. PICK b \in Blocks(ds) : p = b.start
  BY Zenon DEF Starts
<1>2. PICK s \in Sbs, i \in Nat : BlockIn(ds, b, s, i)
  BY BlockShape, Zenon
<1> QED BY <1>1, <1>2, Zenon DEF BlockIn

\* Superblocks that become unused take their blocks with them.
LEMMA DropSbs ==
  ASSUME NEW ds, LayoutOK(ds), NEW dd, dd = [r \in Sbs |-> dd[r]],
         \A r \in Sbs : dd[r] = ds[r] \/ dd[r] = Descriptor
  PROVE  /\ LayoutOK(dd)
         /\ \A b : b \in Blocks(dd) <=> b \in Blocks(ds) /\ dd[desc_lookup(b.start)] # Descriptor
<1>1. LayoutOK(dd)
  <2> SUFFICES ASSUME NEW r \in Sbs
               PROVE  \/ dd[r] = Descriptor
                      \/ \E c \in Classes : dd[r] = SmallDesc(r, c)
                      \/ \E n \in LargeSbs : /\ dd[r] = LargeDesc(r, n) /\ r + n <= EndSb
                                             /\ \A t \in (r + 1)..(r + n - 1) : dd[t] = Descriptor
    BY Zenon DEF LayoutOK
  <2>1. CASE dd[r] = Descriptor
    BY <2>1, Zenon
  <2>2. CASE dd[r] = ds[r]
    <3>1. ASSUME NEW n \in LargeSbs, ds[r] = LargeDesc(r, n), r + n <= EndSb,
                 \A t \in (r + 1)..(r + n - 1) : ds[t] = Descriptor
          PROVE  \A t \in (r + 1)..(r + n - 1) : dd[t] = Descriptor
      <4>1. (r + 1)..(r + n - 1) \subseteq Sbs
        <5>1. r \in Nat /\ r >= 1 /\ n \in Nat /\ EndSb \in Nat
          BY Constants DEF Sbs
        <5> QED BY <3>1, <5>1 DEF Sbs
      <4> QED BY <3>1, <4>1, Zenon
    <3> QED BY <2>2, <3>1, Zenon DEF LayoutOK
  <2> QED BY <2>1, <2>2, Zenon
<1>2. ASSUME NEW b \in Blocks(dd)
      PROVE  b \in Blocks(ds) /\ dd[desc_lookup(b.start)] # Descriptor
  <2>1. PICK r \in Sbs, i \in Nat : BlockIn(dd, b, r, i)
    BY <1>1, BlockShape, Zenon
  <2>2. dd[r] # Descriptor
    BY <2>1 DEF BlockIn, Descriptor
  <2>3. dd[r] = ds[r]
    BY <2>2, Zenon
  <2>4. i < ds[r].maxcount /\ b = Block(ds, r, i) /\ desc_lookup(b.start) = r
    BY <2>1, <2>3, Zenon DEF BlockIn, Block
  <2> QED BY <2>2, <2>4, BlockAt, Zenon
<1>3. ASSUME NEW b \in Blocks(ds), dd[desc_lookup(b.start)] # Descriptor PROVE b \in Blocks(dd)
  <2>1. PICK r \in Sbs, i \in Nat : BlockIn(ds, b, r, i)
    BY BlockShape, Zenon
  <2>2. dd[r] = ds[r]
    BY <1>3, <2>1, Zenon DEF BlockIn
  <2>3. i < dd[r].maxcount /\ b = Block(dd, r, i)
    BY <2>1, <2>2, Zenon DEF BlockIn, Block
  <2> QED BY <1>1, <2>3, BlockAt, Zenon
<1> QED BY <1>1, <1>2, <1>3, Zenon

\* A dangling pointer leads to the start of an unused superblock.
LEMMA DanglingFacts ==
  ASSUME NEW ds, NEW p \in Dangling(ds)
  PROVE  /\ p \in Words /\ p \in Nat /\ desc_lookup(p) \in Sbs /\ p = desc_lookup(p) * SBSIZE
         /\ ds[desc_lookup(p)] = Descriptor
         /\ \A b \in Blocks(ds) : p \notin WordsOf(b)
<1>1. PICK s \in Sbs : p = s * SBSIZE /\ ds[s] = Descriptor /\ p \notin AllWords(Blocks(ds))
  BY Zenon DEF Dangling
<1>2. s \in Nat /\ 1 <= s /\ s + 1 <= EndSb /\ SBSIZE \in Nat \ {0} /\ EndSb \in Nat
  BY Constants DEF Sbs
<1>3. /\ 1 * SBSIZE <= s * SBSIZE /\ (s + 1) * SBSIZE <= EndSb * SBSIZE
      /\ s * SBSIZE \in Nat /\ (s + 1) * SBSIZE = s * SBSIZE + SBSIZE
      /\ 1 * SBSIZE = SBSIZE /\ EndSb * SBSIZE \in Nat
  BY <1>2, Product
<1> DEFINE e == EndSb * SBSIZE
           o == s * SBSIZE
<1>4. Words = SBSIZE..(e - 1) /\ e \in Nat /\ o \in Nat /\ SBSIZE <= o /\ o + SBSIZE <= e /\ p = o
  BY <1>1, <1>3, Zenon DEF Words
<1> HIDE DEF e, o
<1>5. p \in Words /\ p \in Nat
  BY <1>2, <1>4
<1>6. desc_lookup(p) = s
  <2>1. s * SBSIZE <= p /\ p < (s + 1) * SBSIZE
    BY <1>1, <1>2, <1>3
  <2> QED BY <1>2, <1>5, <2>1, Lookup, Zenon
<1> QED BY <1>1, <1>5, <1>6, Zenon DEF AllWords

\* It still does when more superblocks become unused.
LEMMA DanglingGrows ==
  ASSUME NEW ds, LayoutOK(ds), NEW dd, dd = [r \in Sbs |-> dd[r]],
         \A r \in Sbs : dd[r] = ds[r] \/ dd[r] = Descriptor
  PROVE  Dangling(ds) \subseteq Dangling(dd)
<1>1. Blocks(dd) \subseteq Blocks(ds)
  BY DropSbs, Zenon
<1> QED BY <1>1, Zenon DEF Dangling, AllWords

-----------------------------------------------------------------------------
(* Linked lists *)

\* The empty list.
LEMMA LinkedEmpty ==
  ASSUME NEW m, NEW p
  PROVE  Linked(m, p, 0, {})
<1> DEFINE q == [i \in 1..0 |-> p]
<1>1. 1..0 = {} /\ 2..0 = {}
  OBVIOUS
<1>2. q \in [1..0 -> {}] /\ DOMAIN q = {}
  BY <1>1, Zenon
<1>3. Lists(q, {})
  BY <1>2, Zenon DEF Lists, Range, IsInjective
<1> HIDE DEF q
<1>4. ~(0 > 0)
  OBVIOUS
<1> QED BY <1>1, <1>2, <1>3, <1>4, Zenon DEF Linked

\* A list that is not empty begins with one of its blocks.
LEMMA LinkedHead ==
  ASSUME NEW m, NEW p, NEW n \in Nat, NEW S, Linked(m, p, n, S)
  PROVE  (n = 0 => S = {}) /\ (n > 0 => p \in S)
<1>1. PICK q \in [1..n -> S] : (n > 0 => q[1] = p) /\ Lists(q, S)
  BY Zenon DEF Linked
<1>2. ASSUME n = 0 PROVE S = {}
  <2>1. DOMAIN q = {}
    BY <1>2
  <2> QED BY <1>1, <2>1, Zenon DEF Lists, Range
<1>3. ASSUME n > 0 PROVE p \in S
  BY <1>1, <1>3
<1> QED BY <1>2, <1>3, Zenon

\* Writes elsewhere leave a list as it is.
LEMMA LinkedFrame ==
  ASSUME NEW m, NEW mm, NEW p, NEW n \in Nat, NEW S, Linked(m, p, n, S),
         \A a \in S : mm[a] = m[a]
  PROVE  Linked(mm, p, n, S)
<1>1. PICK q \in [1..n -> S] : /\ n > 0 => q[1] = p
                               /\ \A i \in 2..n : q[i] = Load(m, q[i - 1])
                               /\ Lists(q, S)
  BY Zenon DEF Linked
<1>2. \A i \in 2..n : q[i - 1] \in S
  OBVIOUS
<1>3. \A i \in 2..n : Load(mm, q[i - 1]) = Load(m, q[i - 1])
  BY <1>2, Zenon DEF Load
<1> QED BY <1>1, <1>3, Zenon DEF Linked

\* A new head is linked to the rest.
LEMMA LinkedCons ==
  ASSUME NEW m, DOMAIN m = Words, NEW p, NEW n \in Nat, NEW S, Linked(m, p, n, S),
         NEW a \in Words, a \notin S
  PROVE  Linked([m EXCEPT ![a] = p], a, n + 1, S \cup {a})
<1> DEFINE mm == [m EXCEPT ![a] = p]
           T == S \cup {a}
<1>1. PICK q \in [1..n -> S] : /\ n > 0 => q[1] = p
                               /\ \A i \in 2..n : q[i] = Load(m, q[i - 1])
                               /\ Lists(q, S)
  BY Zenon DEF Linked
<1> DEFINE r == [i \in 1..(n + 1) |-> IF i = 1 THEN a ELSE q[i - 1]]
<1>2. \A i \in 2..(n + 1) : i - 1 \in 1..n /\ r[i] = q[i - 1] /\ q[i - 1] \in S
  OBVIOUS
<1>3. r \in [1..(n + 1) -> T] /\ r[1] = a
  BY <1>2
<1>4. ASSUME NEW i \in 2..(n + 1) PROVE r[i] = Load(mm, r[i - 1])
  <2>1. CASE i = 2
    <3>1. r[1] = a /\ r[2] = q[1] /\ n > 0
      BY <1>2, <1>3, <2>1
    <3>2. Load(mm, a) = p
      BY Zenon DEF Load
    <3> QED BY <1>1, <2>1, <3>1, <3>2
  <2>2. CASE i # 2
    <3>1. i - 1 \in 2..n /\ i - 1 \in 2..(n + 1) /\ i - 2 \in 1..n /\ (i - 1) - 1 = i - 2
      BY <2>2
    <3>2. r[i] = q[i - 1] /\ r[i - 1] = q[i - 2] /\ q[i - 2] \in S
      BY <1>2, <3>1, Zenon
    <3>3. q[i - 1] = Load(m, q[i - 2])
      BY <1>1, <3>1, Zenon
    <3>4. Load(mm, q[i - 2]) = Load(m, q[i - 2])
      BY <3>2, Zenon DEF Load
    <3> QED BY <3>2, <3>3, <3>4, Zenon
  <2> QED BY <2>1, <2>2, Zenon
<1>5. IsInjective(r)
  <2> SUFFICES ASSUME NEW i \in 1..(n + 1), NEW j \in 1..(n + 1), r[i] = r[j] PROVE i = j
    BY Zenon DEF IsInjective
  <2>1. \A k \in 1..(n + 1) : k # 1 => k \in 2..(n + 1)
    OBVIOUS
  <2>2. CASE i = 1 \/ j = 1
    BY <1>2, <1>3, <2>1, <2>2, Zenon
  <2>3. CASE i # 1 /\ j # 1
    <3>1. q[i - 1] = q[j - 1] /\ i - 1 \in 1..n /\ j - 1 \in 1..n
      BY <1>2, <2>1, <2>3, Zenon
    <3>2. i - 1 = j - 1
      BY <1>1, <3>1, Zenon DEF Lists, IsInjective
    <3> QED BY <3>2
  <2> QED BY <2>2, <2>3, Zenon
<1>6. Range(r) = T
  <2>1. ASSUME NEW t \in S PROVE t \in Range(r)
    <3>1. PICK i \in 1..n : q[i] = t
      BY <1>1, <2>1, Zenon DEF Lists, Range
    <3>2. i + 1 \in 2..(n + 1) /\ (i + 1) - 1 = i
      OBVIOUS
    <3>3. r[i + 1] = t /\ i + 1 \in DOMAIN r
      BY <1>2, <3>1, <3>2
    <3> QED BY <3>3, Zenon DEF Range
  <2>2. a \in Range(r)
    <3>1. 1 \in DOMAIN r
      OBVIOUS
    <3> QED BY <1>3, <3>1, Zenon DEF Range
  <2>3. Range(r) \subseteq T
    BY <1>3, Zenon DEF Range
  <2> QED BY <2>1, <2>2, <2>3, Zenon
<1> HIDE DEF mm, r, T
<1>7. Linked(mm, a, n + 1, T)
  BY <1>3, <1>4, <1>5, <1>6, Zenon DEF Linked, Lists
<1> QED BY <1>7, Zenon DEF mm, T

\* A descriptor that is in no list is pushed to one.
LEMMA ListsPush ==
  ASSUME NEW T, NEW q \in Seq(T), NEW S, Lists(q, S), NEW x \in T, x \notin S
  PROVE  <<x>> \o q \in Seq(T) /\ Lists(<<x>> \o q, S \cup {x})
<1> DEFINE r == <<x>> \o q
           n == Len(q)
<1>1. r \in Seq(T) /\ Len(r) = n + 1 /\ n \in Nat /\ r[1] = x
      /\ \A i \in 2..(n + 1) : r[i] = q[i - 1] /\ i - 1 \in 1..n
  OBVIOUS
<1>2. DOMAIN r = 1..(n + 1) /\ DOMAIN q = 1..n
  BY <1>1
<1> HIDE DEF r, n
<1>3. \A i \in 1..n : q[i] \in S
  BY <1>2, Zenon DEF Lists, Range
<1>4. \A i \in 1..(n + 1) : i # 1 => i \in 2..(n + 1)
  BY <1>1
<1>5. IsInjective(r)
  <2> SUFFICES ASSUME NEW i \in 1..(n + 1), NEW j \in 1..(n + 1), r[i] = r[j] PROVE i = j
    BY <1>2, Zenon DEF IsInjective
  <2>1. CASE i = 1 \/ j = 1
    BY <1>1, <1>3, <1>4, <2>1, Zenon
  <2>2. CASE i # 1 /\ j # 1
    <3>1. q[i - 1] = q[j - 1] /\ i - 1 \in 1..n /\ j - 1 \in 1..n
      BY <1>1, <1>4, <2>2, Zenon
    <3>2. i - 1 = j - 1
      BY <1>2, <3>1, Zenon DEF Lists, IsInjective
    <3> QED BY <1>1, <3>2
  <2> QED BY <2>1, <2>2, Zenon
<1>6. Range(r) = S \cup {x}
  <2>1. ASSUME NEW t \in S PROVE t \in Range(r)
    <3>1. PICK i \in 1..n : q[i] = t
      BY <1>2, <2>1, Zenon DEF Lists, Range
    <3>2. i + 1 \in 2..(n + 1) /\ (i + 1) - 1 = i /\ i + 1 \in 1..(n + 1)
      BY <1>1
    <3>3. r[i + 1] = t /\ i + 1 \in DOMAIN r
      BY <1>1, <1>2, <3>1, <3>2, Zenon
    <3> QED BY <3>3, Zenon DEF Range
  <2>2. x \in Range(r)
    <3>1. 1 \in DOMAIN r
      BY <1>1, <1>2
    <3> QED BY <1>1, <3>1, Zenon DEF Range
  <2>3. ASSUME NEW i \in 1..(n + 1) PROVE r[i] \in S \cup {x}
    BY <1>1, <1>3, <1>4, Zenon
  <2> QED BY <1>2, <2>1, <2>2, <2>3, Zenon DEF Range
<1> QED BY <1>1, <1>5, <1>6, Zenon DEF Lists, r

\* The list without elements.
LEMMA ListsEmpty == Lists(<< >>, {})
BY DEF Lists, Range, IsInjective

\* Words of the region and null are pointers.
LEMMA PointersIn ==
  /\ Words \subseteq Pointer /\ null \in Pointer /\ null \notin Words
  /\ Pointer \subseteq Nat
<1>1. SBSIZE \in Nat \ {0} /\ EndSb \in Nat /\ EndSb * SBSIZE \in Nat /\ EndSb * SBSIZE > 0
  BY Constants
<1> QED BY <1>1 DEF Words, Pointer, null

\* What was reachable is still reachable when only other words change.
LEMMA KeptFrame ==
  ASSUME KeptOK, kept' = kept, kept_words' = kept_words, roots' = roots,
         kept \subseteq Blocks(desc'), Dangling(desc) \subseteq Dangling(desc'),
         \A w \in AllWords(kept) : mem'[w] = mem[w] /\ pmem'[w] = mem[w]
  PROVE  KeptOK'
<1>1. kept_words' = {<<w, mem'[w]>> : w \in AllWords(kept')}
  BY DEF KeptOK
<1>2. \A b \in kept : \A w \in WordsOf(b) : mem'[w] = mem[w]
  BY Zenon DEF AllWords
<1>3. \A S : ClosedUnder(S, kept', mem', roots') <=> ClosedUnder(S, kept, mem, roots)
  BY <1>2, Zenon DEF ClosedUnder
<1>4. KeptStarts' = KeptStarts
  BY Zenon DEF KeptStarts
<1>5. Reads \subseteq Reads'
  BY <1>4, Zenon DEF Reads
<1> QED BY <1>1, <1>3, <1>4, <1>5, Zenon DEF KeptOK

\* Reachable blocks point to reachable blocks, or nowhere.
LEMMA KeptPointers ==
  ASSUME LayoutOK(desc), KeptOK
  PROVE  /\ KeptStarts \subseteq Words /\ AllWords(kept) \subseteq Words
         /\ Dangling(desc) \subseteq Words /\ Reads \subseteq Words \cup {null}
<1>1. KeptStarts \subseteq Words
  BY StartsOf, Zenon DEF KeptOK, KeptStarts
<1>2. AllWords(kept) \subseteq Words
  BY BlockFacts DEF KeptOK, AllWords
<1>3. Dangling(desc) \subseteq Words
  BY DanglingFacts, Zenon
<1> QED BY <1>1, <1>2, <1>3, Zenon DEF Reads

-----------------------------------------------------------------------------
(* Marking *)

\* The collector starts from empty lists and no marks.
LEMMA BeginInv ==
  ASSUME IInv, Begin
  PROVE  IInv'
<1>1. /\ phase = "crashed" /\ phase' = "mark"
      /\ partial_list' = [c \in Classes |-> << >>]
      /\ UNCHANGED <<desc, pdesc, mem, pmem, roots, anchor, marked_blk, to_filter, next_root,
                     scan, scan_end, rest, curr_sb, kept, kept_words>>
  BY Zenon DEF Begin, heap, marking, sweeping, curr, history
<1>2. TypeOK /\ DescInv /\ KeptOK /\ Unmarked /\ rest = {} /\ curr_sb = 1
  BY <1>1, Zenon DEF IInv
<1>3. TypeOK'
  BY <1>1, <1>2, Zenon DEF TypeOK
<1>4. KeptOK'
  BY <1>1, <1>2, Zenon DEF KeptOK, KeptStarts, Reads
<1>5. MarkOK'
  <2>1. MarkOK
    <3>1. 1 \in 1..(MaxRoots + 1) /\ 0..(0 - 1) = {} /\ 0 \in Nat /\ 0 <= 0
      BY Constants
    <3>2. \A i \in RootIdx : ~(i < 1)
      BY Constants DEF RootIdx
    <3>3. << >> \in Seq(marked_blk)
      OBVIOUS
    <3>4. scan..(scan_end - 1) = {}
      BY <1>2, <3>1, Zenon DEF Unmarked
    <3> QED BY <1>2, <3>1, <3>2, <3>3, <3>4, Zenon DEF MarkOK, Unmarked
  <2> QED BY <1>1, <2>1, Zenon DEF MarkOK, KeptStarts
<1>6. DescInv'
  BY <1>1, <1>2, Zenon DEF DescInv
<1> QED BY <1>1, <1>2, <1>3, <1>4, <1>5, <1>6, Zenon DEF IInv, Unmarked

\* What Mark does with a pointer to a block or null.
LEMMA MarkDoes ==
  ASSUME to_filter \in Seq(marked_blk), NEW p \in Words \cup {null}, Mark(p)
  PROVE  /\ marked_blk' = marked_blk \cup ({p} \ {null})
         /\ to_filter' \in Seq(marked_blk')
         /\ \A q : q \in marked_blk' /\ q \notin Range(to_filter') =>
                     q \in marked_blk /\ q \notin Range(to_filter)
<1>1. CASE p = null \/ p \in marked_blk
  <2>1. UNCHANGED <<marked_blk, to_filter>>
    BY <1>1, Zenon DEF Mark, mark_func
  <2> QED BY <1>1, <2>1, Zenon
<1>2. CASE p # null /\ p \notin marked_blk
  <2>1. in_range(p)
    BY <1>2, PointersIn, Constants DEF in_range, Pointer
  <2>2. marked_blk' = marked_blk \cup {p} /\ to_filter' = <<p>> \o to_filter
    BY <1>2, <2>1, Zenon DEF Mark, mark_func
  <2>3. to_filter \in Seq(marked_blk')
    BY <2>2
  <2>4. p \in marked_blk'
    BY <2>2, Zenon
  <2> DEFINE t == <<p>> \o to_filter
             n == Len(to_filter)
  <2>5. t \in Seq(marked_blk')
    BY <2>3, <2>4
  <2>6. n \in Nat /\ DOMAIN to_filter = 1..n /\ DOMAIN t = 1..(n + 1) /\ t[1] = p
        /\ \A i \in 1..n : t[i + 1] = to_filter[i]
    OBVIOUS
  <2> HIDE DEF t, n
  <2>7. 1 \in DOMAIN t /\ \A i \in 1..n : i + 1 \in DOMAIN t
    BY <2>6
  <2>8. p \in Range(t)
    BY <2>6, <2>7, Zenon DEF Range
  <2>9. Range(to_filter) \subseteq Range(t)
    <3> SUFFICES ASSUME NEW i \in 1..n PROVE to_filter[i] \in Range(t)
      BY <2>6 DEF Range
    <3>1. t[i + 1] = to_filter[i] /\ i + 1 \in DOMAIN t
      BY <2>6, <2>7, Zenon
    <3> QED BY <3>1, Zenon DEF Range
  <2> QED BY <1>2, <2>2, <2>5, <2>8, <2>9, Zenon DEF t
<1> QED BY <1>1, <1>2, Zenon

\* What a root points to is marked and was reachable.
LEMMA MarkRootInv ==
  ASSUME IInv, MarkRoot
  PROVE  IInv'
<1>1. /\ phase = "mark" /\ phase' = "mark" /\ next_root <= MaxRoots
      /\ Mark(roots[next_root]) /\ next_root' = next_root + 1
      /\ UNCHANGED <<desc, pdesc, mem, pmem, roots, avail_sb, partial_list, anchor,
                     scan, scan_end, rest, curr_sb, kept, kept_words>>
  BY Zenon DEF MarkRoot, heap, lists, sweeping, curr, history
<1>2. /\ TypeOK /\ DescInv /\ KeptOK /\ MarkOK /\ rest = {} /\ curr_sb = 1
      /\ scan = 0 /\ scan_end = 0 /\ partial_list = [c \in Classes |-> << >>]
  BY <1>1, Zenon DEF IInv
<1> DEFINE p == roots[next_root]
<1>3. next_root \in RootIdx /\ next_root \in Nat
  BY <1>1, <1>2, Constants DEF MarkOK, RootIdx
<1>4. p \in Reads /\ p \in Words \cup {null}
  BY <1>2, <1>3, KeptPointers, Zenon DEF DescInv, KeptOK
<1>5. /\ marked_blk' = marked_blk \cup ({p} \ {null})
      /\ to_filter' \in Seq(marked_blk')
      /\ \A q : q \in marked_blk' /\ q \notin Range(to_filter') =>
                  q \in marked_blk /\ q \notin Range(to_filter)
  BY <1>1, <1>2, <1>4, MarkDoes, Zenon DEF MarkOK
<1>6. MarkOK'
  <2>1. KeptStarts' = KeptStarts /\ marked_blk' \subseteq KeptStarts \cup Dangling(desc)
    BY <1>1, <1>2, <1>4, <1>5, Zenon DEF KeptStarts, MarkOK, Reads
  <2>2. next_root' \in 1..(MaxRoots + 1)
    BY <1>1, <1>3, Constants
  <2>3. \A i \in RootIdx : i < next_root' => roots'[i] \in marked_blk' \cup {null}
    <3>1. \A i \in RootIdx : i < next_root' => i < next_root \/ i = next_root
      BY <1>1, <1>3, Constants DEF RootIdx
    <3> QED BY <1>1, <1>2, <1>5, <3>1, Zenon DEF MarkOK
  <2>4. /\ scan' \in Nat /\ scan_end' \in Nat /\ scan' <= scan_end'
        /\ scan'..(scan_end' - 1) \subseteq AllWords(kept')
    BY <1>1, <1>2, Zenon DEF MarkOK
  <2>5. \A b \in kept : b.start \in marked_blk' /\ b.start \notin Range(to_filter') =>
          \A w \in WordsOf(b) : w \in scan..(scan_end - 1) \/ mem[w] \in marked_blk' \cup {null}
    BY <1>2, <1>5, Zenon DEF MarkOK
  <2> QED BY <1>1, <1>5, <2>1, <2>2, <2>3, <2>4, <2>5, Zenon DEF MarkOK
<1>7. KeptOK'
  BY <1>1, <1>2, Zenon DEF KeptOK, KeptStarts, Reads
<1>8. TypeOK'
  <2>1. marked_blk' \subseteq Pointer
    BY <1>2, <1>4, <1>5, PointersIn, Zenon DEF TypeOK
  <2> QED BY <1>1, <1>2, <2>1, Zenon DEF TypeOK
<1>9. DescInv'
  BY <1>1, <1>2, Zenon DEF DescInv
<1> QED BY <1>1, <1>2, <1>6, <1>7, <1>8, <1>9, Zenon DEF IInv

\* All roots are marked.
LEMMA RootsMarkedInv ==
  ASSUME IInv, RootsMarked
  PROVE  IInv'
<1>1. /\ phase = "mark" /\ phase' = "filter" /\ next_root > MaxRoots
      /\ UNCHANGED <<desc, pdesc, mem, pmem, roots, avail_sb, partial_list, anchor, marked_blk,
                     to_filter, next_root, scan, scan_end, rest, curr_sb, kept, kept_words>>
  BY Zenon DEF RootsMarked, heap, lists, marking, sweeping, curr, history
<1>2. /\ TypeOK /\ DescInv /\ KeptOK /\ MarkOK /\ rest = {} /\ curr_sb = 1
      /\ partial_list = [c \in Classes |-> << >>]
  BY <1>1, Zenon DEF IInv
<1>3. next_root = MaxRoots + 1
  BY <1>1, <1>2, Constants DEF MarkOK
<1>4. MarkOK' /\ KeptOK'
  BY <1>1, <1>2, Zenon DEF MarkOK, KeptOK, KeptStarts, Reads
<1>5. TypeOK' /\ DescInv'
  BY <1>1, <1>2, Zenon DEF TypeOK, DescInv
<1> QED BY <1>1, <1>2, <1>3, <1>4, <1>5, Zenon DEF IInv

\* The next block to filter: its words are read one by one.
LEMMA FilterNodeInv ==
  ASSUME IInv, FilterNode
  PROVE  IInv'
<1> DEFINE h == Head(to_filter)
<1>1. /\ phase = "filter" /\ phase' = "filter" /\ scan = scan_end /\ to_filter # << >>
      /\ to_filter' = Tail(to_filter) /\ scan' = h
      /\ scan_end' = h + desc[desc_lookup(h)].block_size
      /\ UNCHANGED <<desc, pdesc, mem, pmem, roots, avail_sb, partial_list, anchor, marked_blk,
                     next_root, rest, curr_sb, kept, kept_words>>
  BY Zenon DEF FilterNode, heap, lists, sweeping, curr, history
<1>2. /\ TypeOK /\ DescInv /\ KeptOK /\ MarkOK /\ rest = {} /\ curr_sb = 1
      /\ partial_list = [c \in Classes |-> << >>] /\ next_root = MaxRoots + 1
  BY <1>1, Zenon DEF IInv
<1>3. to_filter \in Seq(marked_blk) /\ marked_blk \subseteq KeptStarts \cup Dangling(desc)
  BY <1>2, Zenon DEF MarkOK
<1>4. /\ h \in marked_blk /\ Tail(to_filter) \in Seq(marked_blk)
      /\ \A q \in Range(to_filter) : q = h \/ q \in Range(Tail(to_filter))
  <2> DEFINE t == Tail(to_filter)
             n == Len(to_filter)
  <2>1. /\ n \in Nat \ {0} /\ h = to_filter[1] /\ h \in marked_blk /\ t \in Seq(marked_blk)
        /\ DOMAIN to_filter = 1..n /\ DOMAIN t = 1..(n - 1)
        /\ \A i \in 2..n : to_filter[i] = t[i - 1] /\ i - 1 \in 1..(n - 1)
    BY <1>1, <1>3
  <2> HIDE DEF t, n, h
  <2>2. ASSUME NEW i \in 1..n, to_filter[i] # h PROVE to_filter[i] \in Range(t)
    <3>1. i \in 2..n
      BY <2>1, <2>2
    <3>2. to_filter[i] = t[i - 1] /\ i - 1 \in DOMAIN t
      BY <2>1, <3>1, Zenon
    <3> QED BY <3>2, Zenon DEF Range
  <2> QED BY <2>1, <2>2 DEF Range, t
<1> HIDE DEF h
\* A dangling pointer's node has no words.
<1>5. /\ scan' \in Nat /\ scan_end' \in Nat /\ scan' <= scan_end'
      /\ scan'..(scan_end' - 1) \subseteq AllWords(kept)
      /\ \A a \in kept : a.start = h => WordsOf(a) \subseteq scan'..(scan_end' - 1)
  <2>1. CASE h \in KeptStarts
    <3>1. PICK b \in kept : h = b.start
      BY <2>1, Zenon DEF KeptStarts, Starts
    <3>2. /\ b \in Blocks(desc) /\ b.start \in Nat /\ b.words \in Nat \ {0}
          /\ desc[desc_lookup(h)].block_size = b.words
      BY <1>2, <3>1, BlockFacts, Constants, Zenon DEF KeptOK, DescInv
    <3>3. /\ scan' \in Nat /\ scan_end' \in Nat /\ scan' <= scan_end'
          /\ scan'..(scan_end' - 1) = WordsOf(b)
      BY <1>1, <3>1, <3>2 DEF WordsOf
    <3>4. ASSUME NEW a \in kept, a.start = h PROVE a = b
      <4>1. a \in Blocks(desc) /\ LayoutOK(desc)
        BY <1>2, Zenon DEF KeptOK, DescInv
      <4>2. a.start \in WordsOf(a) /\ b.start \in WordsOf(b)
        BY <3>2, <4>1, BlockFacts, Zenon
      <4> QED BY <3>1, <3>2, <3>4, <4>1, <4>2, OneBlock, Zenon
    <3> QED BY <3>1, <3>3, <3>4, Zenon DEF AllWords
  <2>2. CASE h \in Dangling(desc)
    <3>1. h \in Nat /\ desc[desc_lookup(h)] = Descriptor /\ \A b \in Blocks(desc) : h \notin WordsOf(b)
      BY <2>2, DanglingFacts, Zenon
    <3>2. desc[desc_lookup(h)].block_size = 0
      BY <3>1 DEF Descriptor
    <3>3. /\ scan' \in Nat /\ scan_end' \in Nat /\ scan' <= scan_end'
          /\ scan'..(scan_end' - 1) = {}
      BY <1>1, <3>1, <3>2
    <3>4. ASSUME NEW a \in kept PROVE a.start # h
      <4>1. a \in Blocks(desc) /\ LayoutOK(desc)
        BY <1>2, Zenon DEF KeptOK, DescInv
      <4>2. a.start \in WordsOf(a)
        BY <4>1, BlockFacts, Zenon
      <4> QED BY <3>1, <4>1, <4>2, Zenon
    <3> QED BY <3>3, <3>4, Zenon
  <2> QED BY <1>3, <1>4, <2>1, <2>2, Zenon
<1>6. MarkOK'
  <2>1. KeptStarts' = KeptStarts
    BY <1>1, Zenon DEF KeptStarts
  <2>2. ASSUME NEW a \in kept, a.start \in marked_blk, a.start \notin Range(to_filter'),
               NEW w \in WordsOf(a), w \notin scan'..(scan_end' - 1)
        PROVE  mem[w] \in marked_blk \cup {null}
    <3>1. a.start # h
      BY <1>5, <2>2, Zenon
    <3>2. a.start \notin Range(to_filter)
      BY <1>1, <1>4, <2>2, <3>1, Zenon
    <3>3. scan..(scan_end - 1) = {}
      BY <1>1, <1>2 DEF MarkOK
    <3> QED BY <1>2, <2>2, <3>2, <3>3, Zenon DEF MarkOK
  <2> QED BY <1>1, <1>2, <1>4, <1>5, <2>1, <2>2, Zenon DEF MarkOK
<1>7. KeptOK'
  BY <1>1, <1>2, Zenon DEF KeptOK, KeptStarts, Reads
<1>8. TypeOK' /\ DescInv'
  BY <1>1, <1>2, Zenon DEF TypeOK, DescInv
<1> QED BY <1>1, <1>2, <1>6, <1>7, <1>8, Zenon DEF IInv

\* filter_func marks what one word points to.
LEMMA FilterFuncInv ==
  ASSUME IInv, filter_func
  PROVE  IInv'
<1> DEFINE p == Load(mem, scan)
<1>1. /\ phase = "filter" /\ phase' = "filter" /\ scan < scan_end
      /\ Mark(p) /\ scan' = scan + 1
      /\ UNCHANGED <<desc, pdesc, mem, pmem, roots, avail_sb, partial_list, anchor,
                     next_root, scan_end, rest, curr_sb, kept, kept_words>>
  BY Zenon DEF filter_func, heap, lists, sweeping, curr, history
<1>2. /\ TypeOK /\ DescInv /\ KeptOK /\ MarkOK /\ rest = {} /\ curr_sb = 1
      /\ partial_list = [c \in Classes |-> << >>] /\ next_root = MaxRoots + 1
  BY <1>1, Zenon DEF IInv
<1>3. /\ scan \in Nat /\ scan_end \in Nat /\ scan \in AllWords(kept)
      /\ scan..(scan_end - 1) \subseteq AllWords(kept)
  BY <1>1, <1>2 DEF MarkOK
<1>4. p = mem[scan] /\ p \in Reads /\ p \in Words \cup {null}
  BY <1>2, <1>3, KeptPointers, Zenon DEF DescInv, Load, KeptOK
<1> HIDE DEF p
<1>5. /\ marked_blk' = marked_blk \cup ({p} \ {null})
      /\ to_filter' \in Seq(marked_blk')
      /\ \A q : q \in marked_blk' /\ q \notin Range(to_filter') =>
                  q \in marked_blk /\ q \notin Range(to_filter)
  BY <1>1, <1>2, <1>4, MarkDoes, Zenon DEF MarkOK
<1>6. MarkOK'
  <2>1. KeptStarts' = KeptStarts /\ marked_blk' \subseteq KeptStarts \cup Dangling(desc)
    BY <1>1, <1>2, <1>4, <1>5, Zenon DEF KeptStarts, MarkOK, Reads
  <2>2. \A i \in RootIdx : i < next_root' => roots'[i] \in marked_blk' \cup {null}
    BY <1>1, <1>2, <1>5, Zenon DEF MarkOK
  <2>3. /\ scan' \in Nat /\ scan_end' \in Nat /\ scan' <= scan_end'
        /\ scan'..(scan_end' - 1) \subseteq scan..(scan_end - 1)
        /\ \A w \in scan..(scan_end - 1) : w = scan \/ w \in scan'..(scan_end' - 1)
    BY <1>1, <1>3
  <2>4. ASSUME NEW b \in kept, b.start \in marked_blk', b.start \notin Range(to_filter'),
               NEW w \in WordsOf(b)
        PROVE  w \in scan'..(scan_end' - 1) \/ mem[w] \in marked_blk' \cup {null}
    <3>1. w \in scan..(scan_end - 1) \/ mem[w] \in marked_blk \cup {null}
      BY <1>2, <1>5, <2>4, Zenon DEF MarkOK
    <3> QED BY <1>4, <1>5, <2>3, <3>1, Zenon
  <2>5. next_root' \in 1..(MaxRoots + 1)
    BY <1>1, <1>2, Zenon DEF MarkOK
  <2>6. scan'..(scan_end' - 1) \subseteq AllWords(kept')
    BY <1>1, <1>3, <2>3, Zenon
  <2> QED BY <1>1, <1>5, <2>1, <2>2, <2>3, <2>4, <2>5, <2>6, Zenon DEF MarkOK
<1>7. KeptOK'
  BY <1>1, <1>2, Zenon DEF KeptOK, KeptStarts, Reads
<1>8. TypeOK'
  <2>1. marked_blk' \subseteq Pointer
    BY <1>2, <1>4, <1>5, PointersIn, Zenon DEF TypeOK
  <2> QED BY <1>1, <1>2, <2>1, Zenon DEF TypeOK
<1>9. DescInv'
  BY <1>1, <1>2, Zenon DEF DescInv
<1> QED BY <1>1, <1>2, <1>6, <1>7, <1>8, <1>9, Zenon DEF IInv

\* When nothing waits any more, the reachable blocks are marked and, besides
\* them, only where dangling pointers lead.
LEMMA AllMarked ==
  ASSUME IInv, phase = "filter", scan = scan_end, to_filter = << >>
  PROVE  MarksOK
<1>1. KeptOK /\ MarkOK /\ next_root = MaxRoots + 1
  BY Zenon DEF IInv
<1>2. Range(to_filter) = {} /\ scan..(scan_end - 1) = {}
  BY <1>1 DEF Range, MarkOK
<1>3. \A i \in RootIdx : i < next_root
  BY <1>1, Constants DEF RootIdx
<1> DEFINE S == marked_blk \cap KeptStarts
<1>4. null \notin KeptStarts
  BY KeptPointers, PointersIn, Zenon DEF IInv, DescInv
<1>5. ClosedUnder(S, kept, mem, roots)
  BY <1>1, <1>2, <1>3, <1>4, Zenon DEF MarkOK, ClosedUnder, KeptStarts
<1>6. S = KeptStarts
  <2>1. S \in SUBSET KeptStarts
    BY Zenon
  <2> HIDE DEF S
  <2> QED BY <1>1, <1>5, <2>1, Zenon DEF KeptOK
<1> QED BY <1>1, <1>6, Zenon DEF MarksOK, MarkOK

\* The stack is empty: what was reachable is marked.
LEMMA BeginSweepInv ==
  ASSUME IInv, BeginSweep
  PROVE  IInv'
<1>1. /\ phase = "filter" /\ phase' = "sweep" /\ scan = scan_end /\ to_filter = << >>
      /\ rest' = marked_blk /\ new_avail' = << >>
      /\ curr_sb' = 1 /\ state' = "EMPTY" /\ count' = 0 /\ free_block' = 1 * SBSIZE
      /\ free_head' = null
      /\ UNCHANGED <<desc, pdesc, mem, pmem, roots, avail_sb, partial_list, anchor, marked_blk,
                     kept, kept_words>>
  BY Zenon DEF BeginSweep, StartSb, heap, lists, marking, history
<1>2. /\ TypeOK /\ DescInv /\ KeptOK /\ partial_list = [c \in Classes |-> << >>]
      /\ MarksOK
  BY <1>1, AllMarked, Zenon DEF IInv
<1>3. MarksOK' /\ KeptOK'
  BY <1>1, <1>2, Zenon DEF KeptOK, KeptStarts, Reads, MarksOK
<1>4. marked_blk \subseteq Words /\ Words = SBSIZE..(EndSb * SBSIZE - 1)
  BY <1>2, KeptPointers, Zenon DEF DescInv, Words, MarksOK
<1>5. SBSIZE \in Nat /\ 1 * SBSIZE = SBSIZE /\ 1..(1 - 1) = {} /\ 1 \in 1..EndSb
  BY Constants
<1>6. AtEmpty'
  <2>1. \A p \in marked_blk : p >= 1 * SBSIZE
    <3>1. EndSb * SBSIZE \in Nat
      BY Constants
    <3> QED BY <1>4, <1>5, <3>1
  <2>2. rest' = {p \in marked_blk' : p >= free_block'}
    BY <1>1, <2>1, Zenon
  <2> QED BY <1>1, <2>2, Zenon DEF AtEmpty
<1>7. FreeBelow(curr_sb, free_block)' = {}
  <2>1. \A q \in Starts(Blocks(desc)) : ~(q < 1 * SBSIZE)
    BY <1>2, <1>5, StartsOf, Constants DEF DescInv, Words
  <2> QED BY <1>1, <2>1, Zenon DEF FreeBelow
<1>8. CurrOK'
  BY <1>1, <1>5, <1>6, <1>7, LinkedEmpty, Zenon DEF CurrOK
<1>9. DoneOK'
  <2>1. Done' = {} /\ DoneSmall' = {}
    BY <1>1, <1>5, Zenon DEF Done, DoneSmall
  <2>2. \A b \in kept : ~(b.start < 1 * SBSIZE)
    BY <1>2, <1>5, BlockFacts DEF Words, DescInv, KeptOK
  <2>3. \A c \in Classes : partial_list'[c] = << >>
    BY <1>1, <1>2, Zenon
  <2>4. partial_list' \in [Classes -> Seq(Sbs)] /\ new_avail' \in Seq(Sbs)
    BY <1>1, <1>2
  <2> QED BY <1>1, <2>1, <2>2, <2>3, <2>4, ListsEmpty, Zenon DEF DoneOK
<1>10. TypeOK'
  BY <1>1, <1>2, <1>5, Zenon DEF TypeOK
<1>11. DescInv'
  BY <1>1, <1>2, Zenon DEF DescInv
<1> QED BY <1>1, <1>2, <1>3, <1>8, <1>9, <1>10, <1>11, Zenon DEF IInv

-----------------------------------------------------------------------------
(* The sweep *)

\* What the invariant says while superblocks are swept.
LEMMA SweepFacts ==
  ASSUME IInv, phase \in {"sweep", "recovered"}
  PROVE  /\ TypeOK /\ DescInv /\ LayoutOK(desc) /\ KeptOK /\ CurrOK /\ DoneOK
         /\ MarksOK /\ KeptStarts \subseteq Words /\ marked_blk \subseteq Words
         /\ rest \subseteq marked_blk
         /\ curr_sb \in Nat /\ curr_sb * SBSIZE \in Nat /\ free_block \in Nat
         /\ (curr_sb + 1) * SBSIZE = curr_sb * SBSIZE + SBSIZE
         /\ curr_sb * SBSIZE <= free_block /\ \A p \in rest : p >= free_block
         /\ curr_sb < EndSb => curr_sb \in Sbs
<1>1. TypeOK /\ DescInv /\ LayoutOK(desc) /\ KeptOK /\ CurrOK /\ DoneOK /\ MarksOK
  BY Zenon DEF IInv, DescInv
<1>2. KeptStarts \subseteq Words /\ marked_blk \subseteq Words
  BY <1>1, KeptPointers, Zenon DEF MarksOK
<1>3. curr_sb \in Nat /\ (curr_sb < EndSb => curr_sb \in Sbs)
  BY <1>1, Constants DEF CurrOK, Sbs
<1>4. curr_sb * SBSIZE \in Nat /\ (curr_sb + 1) * SBSIZE = curr_sb * SBSIZE + SBSIZE
  BY <1>3, Constants
<1>5. /\ free_block \in Nat /\ curr_sb * SBSIZE <= free_block
      /\ rest \subseteq marked_blk /\ \A p \in rest : p >= free_block
  <2>1. CASE AtEmpty \/ AtFull
    <3>1. free_block = curr_sb * SBSIZE
      BY <2>1, Zenon DEF AtEmpty, AtFull
    <3>2. rest \subseteq marked_blk /\ \A p \in rest : p >= free_block \/ p > free_block
      BY <2>1, Zenon DEF AtEmpty, AtFull
    <3>3. \A p \in rest : p \in Nat
      BY <1>2, <3>2, Constants, Zenon
    <3> QED BY <1>4, <3>1, <3>2, <3>3
  <2>2. CASE AtPartial
    <3>1. PICK i \in Nat : free_block = curr_sb * SBSIZE + i * desc[curr_sb].block_size
      BY <2>2, Zenon DEF AtPartial
    <3>2. curr_sb \in Sbs
      BY <1>3, <2>2, Zenon DEF AtPartial
    <3>3. desc[curr_sb].block_size \in Nat
      BY <1>1, <3>2, Shapes, Zenon DEF Shape
    <3>4. i * desc[curr_sb].block_size \in Nat
      BY <3>3
    <3>5. free_block \in Nat /\ curr_sb * SBSIZE <= free_block
      BY <1>4, <3>1, <3>4
    <3> QED BY <2>2, <3>5, Zenon DEF AtPartial
  <2> QED BY <1>1, <2>1, <2>2, Zenon DEF CurrOK
<1> QED BY <1>1, <1>2, <1>3, <1>4, <1>5, Zenon

\* curr_marked_blk is the least mark that is left.
LEMMA NextMark ==
  ASSUME WellOrdered, IInv, phase \in {"sweep", "recovered"}, rest # {}
  PROVE  curr_marked_blk \in rest /\ curr_marked_blk \in Nat /\ \A p \in rest : curr_marked_blk <= p
<1>1. rest \in SUBSET Nat
  BY SweepFacts, Constants, Zenon
<1>2. \E x \in rest : \A y \in rest : x <= y
  BY <1>1, Zenon DEF WellOrdered
<1> QED BY <1>1, <1>2, Zenon DEF curr_marked_blk, Min

\* Without a mark in this superblock all marks lie behind it.
LEMMA NotHere ==
  ASSUME WellOrdered, IInv, phase \in {"sweep", "recovered"}, ~MarkHere
  PROVE  \A p \in rest : p \in Nat /\ p >= (curr_sb + 1) * SBSIZE
<1> SUFFICES ASSUME NEW p \in rest PROVE p \in Nat /\ p >= (curr_sb + 1) * SBSIZE
  BY Zenon
<1> DEFINE q == curr_marked_blk
<1>1. q \in rest /\ q <= p
  BY NextMark, Zenon
<1> HIDE DEF q
<1>2. p \in Nat /\ q \in Nat /\ curr_sb \in Nat /\ curr_sb * SBSIZE \in Nat /\ free_block \in Nat
      /\ curr_sb * SBSIZE <= free_block /\ free_block <= q /\ q <= p
      /\ (curr_sb + 1) * SBSIZE = curr_sb * SBSIZE + SBSIZE
  BY <1>1, SweepFacts, Constants, Zenon
<1>3. desc_lookup(q) # curr_sb
  BY <1>1, Zenon DEF MarkHere, q
<1>4. ~(q < (curr_sb + 1) * SBSIZE)
  BY <1>2, <1>3, Lookup
<1> QED BY <1>2, <1>4, Constants

\* A kept block in this superblock.
LEMMA KeptHere ==
  ASSUME IInv, phase \in {"sweep", "recovered"}, curr_sb < EndSb,
         NEW p \in KeptStarts, desc_lookup(p) = curr_sb
  PROVE  /\ InUse
         /\ \E i \in Nat : /\ i < curr_desc.maxcount
                           /\ p = curr_sb * SBSIZE + i * curr_desc.block_size
                           /\ Block(desc, curr_sb, i) \in kept
                           /\ BlockIn(desc, Block(desc, curr_sb, i), curr_sb, i)
<1>1. LayoutOK(desc) /\ KeptOK /\ curr_sb \in Sbs
  BY SweepFacts, Zenon
<1>2. PICK b \in kept : p = b.start
  BY Zenon DEF KeptStarts, Starts
<1>3. PICK s \in Sbs, i \in Nat : BlockIn(desc, b, s, i)
  BY <1>1, BlockShape, Zenon DEF KeptOK
<1>4. s = curr_sb /\ i < desc[curr_sb].maxcount /\ b = Block(desc, curr_sb, i)
      /\ p = curr_sb * SBSIZE + i * desc[curr_sb].block_size
  BY <1>2, <1>3, Zenon DEF BlockIn
<1>5. Shape(desc, curr_sb)
  BY <1>1, Shapes, Zenon
<1>6. desc[curr_sb].heap # NoHeap
  BY <1>4, <1>5 DEF Shape
<1>7. InUse
  BY <1>5, <1>6, Zenon DEF Shape, InUse, curr_desc
<1> QED BY <1>3, <1>4, <1>7, Zenon DEF curr_desc

\* With a mark in it, the superblock has a reachable block that starts there,
\* or it is unused and a dangling pointer leads there.
LEMMA MarkedHere ==
  ASSUME WellOrdered, IInv, phase \in {"sweep", "recovered"}, curr_sb < EndSb, MarkHere
  PROVE  /\ curr_marked_blk \in rest /\ curr_marked_blk \in Nat
         /\ \A p \in rest : curr_marked_blk <= p
         /\ InUse => curr_marked_blk \in KeptStarts
         /\ InUse => \E i \in Nat : /\ i < curr_desc.maxcount
                                    /\ curr_marked_blk = curr_sb * SBSIZE + i * curr_desc.block_size
                                    /\ Block(desc, curr_sb, i) \in kept
                                    /\ BlockIn(desc, Block(desc, curr_sb, i), curr_sb, i)
         /\ ~InUse => curr_desc = Descriptor /\ curr_marked_blk = curr_sb * SBSIZE
<1> DEFINE q == curr_marked_blk
<1>1. q \in rest /\ q \in Nat /\ (\A p \in rest : q <= p) /\ desc_lookup(q) = curr_sb
  BY NextMark, Zenon DEF MarkHere
<1> HIDE DEF q
<1>2. CASE q \in KeptStarts
  BY <1>1, <1>2, KeptHere, Zenon DEF q
<1>3. CASE q \in Dangling(desc)
  <2>1. desc[curr_sb] = Descriptor /\ q = curr_sb * SBSIZE
    BY <1>1, <1>3, DanglingFacts, Zenon
  <2>2. ~InUse
    BY <2>1 DEF InUse, curr_desc, Descriptor
  <2> QED BY <1>1, <2>1, <2>2, Zenon DEF q, curr_desc
<1> QED BY <1>1, <1>2, <1>3, SweepFacts, Zenon DEF MarksOK

\* Where a block starts or a dangling pointer leads is behind another block,
\* or before it.
LEMMA StartBefore ==
  ASSUME NEW ds, LayoutOK(ds), NEW b \in Blocks(ds), NEW q \in Starts(Blocks(ds)) \cup Dangling(ds)
  PROVE  q < b.start + b.words <=> q < b.start \/ q = b.start
<1>0. b.start \in Nat /\ b.words \in Nat \ {0}
  BY BlockFacts, Constants, Zenon
<1>1. CASE q \in Starts(Blocks(ds))
  <2>1. PICK a \in Blocks(ds) : q = a.start
    BY <1>1, Zenon DEF Starts
  <2>2. a.start \in Nat /\ a.words \in Nat \ {0}
    BY BlockFacts, Constants, Zenon
  <2>3. a # b => a.start + a.words <= b.start \/ b.start + b.words <= a.start
    BY BlocksApart, Zenon
  <2> QED BY <1>0, <2>1, <2>2, <2>3
<1>2. CASE q \in Dangling(ds)
  <2>1. q \in Nat /\ q \notin WordsOf(b)
    BY <1>2, DanglingFacts, Zenon
  <2> QED BY <1>0, <2>1 DEF WordsOf
<1> QED BY <1>1, <1>2, Zenon

\* Marks are such addresses.
LEMMA MarksAre ==
  ASSUME KeptOK, MarksOK
  PROVE  marked_blk \subseteq Starts(Blocks(desc)) \cup Dangling(desc)
BY Zenon DEF KeptOK, MarksOK, KeptStarts, Starts

\* The index of an address in a superblock.
LEMMA IndexOrder ==
  ASSUME NEW o \in Nat, NEW k \in Nat \ {0}, NEW i \in Nat, NEW j \in Nat
  PROVE  /\ i * k \in Nat /\ j * k \in Nat
         /\ o + i * k < o + j * k <=> i < j
         /\ o + i * k + k = o + (i + 1) * k
<1>1. i * k \in Nat /\ j * k \in Nat /\ (i + 1) * k = i * k + k
  OBVIOUS
<1>2. i < j => i * k + k <= j * k
  BY Product
<1>3. j <= i => j * k <= i * k
  BY Product, Zenon
<1>4. i < j \/ j <= i
  OBVIOUS
<1> QED BY <1>1, <1>2, <1>3, <1>4

\* What the sweep links is a block, and not one that is kept.
LEMMA LinksFree ==
  ASSUME WellOrdered, IInv, LinkFree
  PROVE  \E i \in Nat :
           /\ i < curr_desc.maxcount /\ count <= i
           /\ free_block = curr_sb * SBSIZE + i * curr_desc.block_size
           /\ Block(desc, curr_sb, i) \in Blocks(desc) \ kept
           /\ BlockIn(desc, Block(desc, curr_sb, i), curr_sb, i)
           /\ free_block \in Words \ KeptStarts
           /\ \E p \in KeptStarts : desc_lookup(p) = curr_sb
           /\ rest = {p \in marked_blk : p >= free_block}
           /\ \A p \in rest : p # free_block
<1> DEFINE o == curr_sb * SBSIZE
           k == curr_desc.block_size
           m == curr_desc.maxcount
<1>1. /\ phase = "sweep" /\ curr_sb < EndSb /\ Small /\ (IF MarkHere THEN InUse ELSE state # "EMPTY")
      /\ free_block < Limit
  BY Zenon DEF LinkFree
<1>2. /\ LayoutOK(desc) /\ KeptOK /\ CurrOK /\ curr_sb \in Sbs /\ o \in Nat /\ free_block \in Nat
      /\ MarksOK /\ marked_blk \subseteq Words /\ rest \subseteq marked_blk
  BY <1>1, SweepFacts, Zenon
<1>3. Shape(desc, curr_sb)
  BY <1>2, Shapes, Zenon
<1>4. /\ k \in Nat \ {0} /\ m \in Nat /\ ~AtFull /\ curr_desc.superblock = o /\ m * k \in Nat
      /\ m # 0
  <2>1. curr_desc.heap # NoHeap /\ curr_desc.heap # LargeHeap
    BY <1>1, Constants DEF Small, NoHeap, LargeHeap
  <2> QED BY <1>3, <2>1 DEF Shape, AtFull, curr_desc
<1>5. AtEmpty \/ AtPartial
  BY <1>2, <1>4, Zenon DEF CurrOK
<1>6. rest = {p \in marked_blk : p >= free_block}
  <2>1. desc[curr_sb] # Descriptor
    BY <1>1, Constants DEF Small, curr_desc, Descriptor, NoHeap
  <2> QED BY <1>5, <2>1, Zenon DEF AtEmpty, AtPartial
<1>7. PICK i \in Nat : count <= i /\ i <= m /\ free_block = o + i * k
  <2>1. CASE AtEmpty
    <3>1. 0 * k = 0 /\ o + 0 = o /\ 0 <= m
      BY <1>2, <1>4
    <3>2. count <= 0 /\ 0 <= m /\ free_block = o + 0 * k
      BY <2>1, <3>1 DEF AtEmpty
    <3> QED BY <3>2, Zenon
  <2>2. CASE AtPartial
    BY <2>2, Zenon DEF AtPartial, curr_desc
  <2> QED BY <1>5, <2>1, <2>2, Zenon
<1>8. i < m
  <2>1. CASE MarkHere
    <3>1. PICK j \in Nat : j < m /\ curr_marked_blk = o + j * k
      BY <1>1, <2>1, MarkedHere, Zenon
    <3>2. free_block < o + j * k
      BY <1>1, <2>1, <3>1, Zenon DEF Limit
    <3> HIDE DEF o, k, m
    <3>3. i < j
      BY <1>2, <1>4, <1>7, <3>2, IndexOrder, Zenon
    <3> QED BY <1>4, <3>1, <3>3
  <2>2. CASE ~MarkHere
    <3>1. free_block < o + m * k
      BY <1>1, <1>4, <2>2, Zenon DEF Limit
    <3> HIDE DEF o, k, m
    <3> QED BY <1>2, <1>4, <1>7, <3>1, IndexOrder, Zenon
  <2> QED BY <2>1, <2>2, Zenon
<1> DEFINE b == Block(desc, curr_sb, i)
<1>9. b \in Blocks(desc) /\ BlockIn(desc, b, curr_sb, i) /\ free_block = b.start
      /\ desc_lookup(free_block) = curr_sb /\ free_block \in Words
      /\ free_block < (curr_sb + 1) * SBSIZE
  <2>1. b \in Blocks(desc) /\ BlockIn(desc, b, curr_sb, i)
    BY <1>2, <1>8, BlockAt, Zenon DEF curr_desc
  <2>2. free_block = b.start /\ desc_lookup(free_block) = curr_sb
        /\ free_block < (curr_sb + 1) * SBSIZE
    BY <1>7, <2>1, Zenon DEF BlockIn, curr_desc
  <2> QED BY <1>2, <2>1, <2>2, BlockFacts, Zenon
<1> HIDE DEF b
<1>10. \A p \in rest : p # free_block
  <2>1. CASE MarkHere
    <3>1. \A p \in rest : curr_marked_blk <= p
      BY <1>1, <2>1, MarkedHere, Zenon
    <3>2. free_block < curr_marked_blk /\ curr_marked_blk \in Nat
      BY <1>1, <2>1, MarkedHere, Zenon DEF Limit
    <3>3. \A p \in rest : p \in Nat
      BY <1>2, Constants, Zenon
    <3> QED BY <1>2, <3>1, <3>2, <3>3
  <2>2. CASE ~MarkHere
    <3>1. \A p \in rest : p >= (curr_sb + 1) * SBSIZE
      BY <1>1, <2>2, NotHere, Zenon
    <3>2. (curr_sb + 1) * SBSIZE \in Nat
      BY <1>2, Constants
    <3> QED BY <1>2, <1>9, <3>1, <3>2
  <2> QED BY <2>1, <2>2, Zenon
<1>11. free_block \notin KeptStarts
  BY <1>2, <1>6, <1>10 DEF MarksOK
<1>12. b \notin kept
  BY <1>9, <1>11, Zenon DEF KeptStarts, Starts
<1>13. \E p \in KeptStarts : desc_lookup(p) = curr_sb
  <2>1. CASE AtEmpty
    <3>1. MarkHere
      BY <1>1, <2>1, Zenon DEF AtEmpty
    <3>2. curr_marked_blk \in KeptStarts
      BY <1>1, <3>1, MarkedHere, Zenon
    <3> QED BY <3>1, <3>2, Zenon DEF MarkHere
  <2>2. CASE AtPartial
    BY <2>2, Zenon DEF AtPartial
  <2> QED BY <1>5, <2>1, <2>2, Zenon
<1> QED BY <1>6, <1>7, <1>8, <1>9, <1>10, <1>11, <1>12, <1>13, Zenon DEF b

\* The invariant of a step of the sweep that stays in its phase.
LEMMA SweepStep ==
  ASSUME IInv, phase = "sweep", phase' = "sweep",
         TypeOK', DescInv', KeptOK', CurrOK', DoneOK', MarksOK'
  PROVE  IInv'
BY Zenon DEF IInv

\* The free lists of the superblocks that were swept are not written to.
LEMMA DoneFrame ==
  ASSUME IInv, phase = "sweep", NEW a \in Nat, a >= curr_sb * SBSIZE,
         NEW m, \A w \in Words : w # a => m[w] = mem[w],
         NEW s \in Done
  PROVE  \A p : Linked(mem, p, anchor[s].count, Others(s)) => Linked(m, p, anchor[s].count, Others(s))
<1>1. /\ curr_sb \in Nat /\ s \in Nat /\ s + 1 <= curr_sb /\ curr_sb * SBSIZE \in Nat
      /\ LayoutOK(desc) /\ TypeOK
  BY SweepFacts DEF Done
<1>2. s \in Sbs /\ anchor[s].count \in Nat
  <2>1. curr_sb \in 1..EndSb
    BY <1>1, Zenon DEF TypeOK
  <2>2. s \in Sbs
    BY <1>1, <2>1, Constants DEF Done, Sbs
  <2> QED BY <1>1, <2>2, Constants DEF TypeOK
<1>3. (s + 1) * SBSIZE \in Nat /\ (s + 1) * SBSIZE <= curr_sb * SBSIZE
  BY <1>1, Constants, Product
<1>4. \A q \in Others(s) : q \in Words /\ q # a
  <2>1. \A q \in Others(s) : q \in Words /\ q < (s + 1) * SBSIZE
    BY <1>1, StartsOf, Zenon DEF Others, FreeBelow
  <2> QED BY <1>1, <1>3, <2>1, Constants
<1> QED BY <1>2, <1>4, LinkedFrame, Zenon

\* A block before the next mark is linked into the free list.
LEMMA LinkFreeInv ==
  ASSUME WellOrdered, IInv, LinkFree
  PROVE  IInv'
<1> DEFINE o == curr_sb * SBSIZE
           k == curr_desc.block_size
           m == curr_desc.maxcount
<1>1. /\ phase = "sweep" /\ phase' = "sweep" /\ curr_sb < EndSb /\ Small
      /\ mem' = [mem EXCEPT ![free_block] = free_head]
      /\ free_head' = free_block /\ count' = count + 1 /\ state' = "PARTIAL"
      /\ free_block' = free_block + k
      /\ UNCHANGED <<desc, pdesc, pmem, roots, avail_sb, partial_list, anchor, marked_blk, rest,
                     curr_sb, new_avail, kept, kept_words>>
  BY Zenon DEF LinkFree, lists, marking, history
<1>2. /\ LayoutOK(desc) /\ DescInv /\ TypeOK /\ KeptOK /\ CurrOK /\ DoneOK /\ curr_sb \in Sbs
      /\ o \in Nat /\ free_block \in Nat /\ MarksOK /\ marked_blk \subseteq Words
  BY <1>1, SweepFacts, Zenon
<1>3. PICK i \in Nat :
        /\ i < m /\ count <= i /\ free_block = o + i * k
        /\ Block(desc, curr_sb, i) \in Blocks(desc) \ kept
        /\ BlockIn(desc, Block(desc, curr_sb, i), curr_sb, i)
        /\ free_block \in Words \ KeptStarts
        /\ \E p \in KeptStarts : desc_lookup(p) = curr_sb
        /\ rest = {p \in marked_blk : p >= free_block}
        /\ \A p \in rest : p # free_block
  BY LinksFree, Zenon
<1> DEFINE b == Block(desc, curr_sb, i)
<1>4. b \in Blocks(desc) /\ b \notin kept /\ b.start = free_block /\ b.words = k
      /\ k \in Nat \ {0} /\ free_block \in WordsOf(b)
  <2>1. b \in Blocks(desc) /\ b \notin kept
    BY <1>3, Zenon
  <2>2. b.start = free_block /\ b.words = k /\ k \in Nat \ {0}
    BY <1>3, Zenon DEF BlockIn, curr_desc
  <2> QED BY <1>2, <2>1, <2>2, BlockFacts, Zenon
<1> HIDE DEF b
<1>5. count \in Nat /\ m \in Nat /\ Linked(mem, free_head, count, FreeBelow(curr_sb, free_block))
  <2>1. m \in Nat
    BY <1>2, Shapes, Zenon DEF Shape, curr_desc
  <2> QED BY <1>2, <2>1, Zenon DEF CurrOK
<1>6. \A w \in AllWords(kept) : w # free_block
  <2> SUFFICES ASSUME NEW a \in kept, free_block \in WordsOf(a) PROVE FALSE
    BY Zenon DEF AllWords
  <2>1. a \in Blocks(desc)
    BY <1>2, Zenon DEF KeptOK
  <2>2. a = b
    BY <1>2, <1>4, <2>1, OneBlock, Zenon
  <2> QED BY <1>4, <2>2, Zenon
<1>7. mem \in [Words -> Pointer] /\ AllWords(kept) \subseteq Words
  BY <1>2, KeptPointers, Zenon DEF TypeOK
<1>8. \A w \in Words : w # free_block => mem'[w] = mem[w]
  BY <1>1, <1>7, Zenon
<1>9. KeptOK'
  <2>1. \A w \in AllWords(kept) : mem'[w] = mem[w] /\ pmem'[w] = mem[w]
    BY <1>1, <1>2, <1>6, <1>7, <1>8, Zenon DEF KeptOK
  <2>2. Dangling(desc) \subseteq Dangling(desc')
    BY <1>1, Zenon
  <2> QED BY <1>1, <1>2, <2>1, <2>2, KeptFrame, Zenon DEF KeptOK
<1>10. KeptStarts' = KeptStarts /\ MarksOK'
  BY <1>1, <1>2, Zenon DEF KeptStarts, MarksOK
<1>11. FreeBelow(curr_sb, free_block)' = FreeBelow(curr_sb, free_block) \cup {free_block}
  <2>1. \A q \in Starts(Blocks(desc)) :
          q < free_block + k <=> q < free_block \/ q = free_block
    BY <1>2, <1>4, StartBefore
  <2>2. free_block \in Starts(Blocks(desc)) \ KeptStarts /\ o <= free_block
    <3>1. free_block \in Starts(Blocks(desc))
      BY <1>4, Zenon DEF Starts
    <3> QED BY <1>1, <1>3, <3>1, SweepFacts, Zenon
  <2> QED BY <1>1, <1>10, <2>1, <2>2, Zenon DEF FreeBelow
<1>12. Linked(mem, free_head, count, FreeBelow(curr_sb, free_block))'
  <2>1. free_block \notin FreeBelow(curr_sb, free_block)
    BY <1>2 DEF FreeBelow
  <2>2. DOMAIN mem = Words /\ free_block \in Words
    BY <1>3, <1>7, Zenon
  <2>3. Linked([mem EXCEPT ![free_block] = free_head], free_block, count + 1,
               FreeBelow(curr_sb, free_block) \cup {free_block})
    BY <1>5, <2>1, <2>2, LinkedCons, Zenon
  <2> QED BY <1>1, <1>11, <2>3, Zenon
<1>13. AtPartial'
  <2>1. /\ i + 1 \in Nat /\ count + 1 <= i + 1 /\ i + 1 <= m
        /\ free_block + k = o + (i + 1) * k
    <3>1. o + i * k + k = o + (i + 1) * k
      <4> HIDE DEF o, k
      <4> QED BY <1>2, <1>4, IndexOrder
    <3>2. i + 1 \in Nat /\ count + 1 <= i + 1 /\ i + 1 <= m
      <4> HIDE DEF m
      <4> QED BY <1>3, <1>5
    <3> HIDE DEF o, k, m
    <3> QED BY <1>3, <3>1, <3>2, Zenon
  <2>2. \E j \in Nat : /\ count' <= j /\ j <= desc'[curr_sb'].maxcount
                       /\ free_block' = curr_sb' * SBSIZE + j * desc'[curr_sb'].block_size
    BY <1>1, <2>1, Zenon DEF curr_desc
  <2>3. \A p \in marked_blk : p >= free_block <=> p >= free_block + k
    <3>1. \A p \in marked_blk : p < free_block + k <=> p < free_block \/ p = free_block
      BY <1>2, <1>4, MarksAre, StartBefore
    <3>2. \A p \in marked_blk : p \in Nat /\ (p >= free_block => p # free_block)
      BY <1>2, <1>3, Constants, Zenon
    <3>3. \A p \in marked_blk : p # free_block
      BY <1>2, <3>2
    <3> QED BY <1>2, <1>4, <3>1, <3>2, <3>3
  <2>4. rest' = {p \in marked_blk' : p >= free_block'}
    BY <1>1, <1>3, <2>3, Zenon
  <2>5. IsSmall(curr_sb)'
    BY <1>1, Zenon DEF IsSmall, Small, curr_desc
  <2> QED BY <1>1, <1>3, <1>10, <2>2, <2>4, <2>5, Zenon DEF AtPartial
<1>14. CurrOK'
  <2>1. count' \in Nat /\ count' # 0 /\ curr_sb' \in 1..EndSb
    BY <1>1, <1>2, <1>5 DEF CurrOK
  <2> QED BY <1>12, <1>13, <2>1, Zenon DEF CurrOK
<1>15. DoneOK'
  <2>1. /\ Done' = Done /\ DoneSmall' = DoneSmall /\ DoneSmall \subseteq Done
        /\ \A s : Used(s)' = Used(s) /\ Others(s)' = Others(s)
    BY <1>1, <1>10, Zenon DEF Done, DoneSmall, Used, IsSmall, Others, FreeBelow
  <2>2. ASSUME NEW s \in DoneSmall
        PROVE  Linked(mem', s * SBSIZE + anchor[s].avail * desc[s].block_size, anchor[s].count,
                      Others(s))
    <3>1. Linked(mem, s * SBSIZE + anchor[s].avail * desc[s].block_size, anchor[s].count, Others(s))
      BY <1>2, Zenon DEF DoneOK
    <3>2. o <= free_block
      BY <1>1, SweepFacts, Zenon
    <3> QED BY <1>1, <1>2, <1>8, <2>1, <3>1, <3>2, DoneFrame, Zenon
  <2>3. \A s \in DoneSmall' : Linked(mem', s * SBSIZE + anchor'[s].avail * desc'[s].block_size,
                                     anchor'[s].count, Others(s)')
    BY <1>1, <2>1, <2>2, Zenon
  <2> QED BY <1>1, <1>2, <2>1, <2>3, Zenon DEF DoneOK
<1>16. TypeOK'
  <2>1. free_head \in Pointer
    <3>1. CASE count = 0
      BY <1>2, <3>1, PointersIn, Zenon DEF CurrOK
    <3>2. CASE count # 0
      <4>1. free_head \in FreeBelow(curr_sb, free_block)
        BY <1>5, <3>2, LinkedHead
      <4>2. free_head \in Words
        BY <1>2, <4>1, StartsOf, Zenon DEF FreeBelow
      <4> QED BY <4>2, PointersIn, Zenon
    <3> QED BY <3>1, <3>2, Zenon
  <2>2. mem' \in [Words -> Pointer]
    BY <1>1, <1>7, <2>1, Zenon
  <2> QED BY <1>1, <1>2, <2>2, Zenon DEF TypeOK
<1>17. DescInv'
  BY <1>1, <1>2, Zenon DEF DescInv
<1> QED BY <1>1, <1>2, <1>9, <1>10, <1>14, <1>15, <1>16, <1>17, SweepStep, Zenon

\* What a step past a mark leaves alone.
LEMMA PassMarkFrame ==
  ASSUME IInv, PassMark
  PROVE  /\ phase = "sweep" /\ phase' = "sweep" /\ curr_sb < EndSb /\ MarkHere
         /\ rest' = rest \ {curr_marked_blk}
         /\ UNCHANGED <<desc, pdesc, mem, pmem, roots, avail_sb, partial_list, anchor, marked_blk,
                        curr_sb, new_avail, count, free_head, kept, kept_words>>
         /\ KeptStarts' = KeptStarts
         /\ \A q \in marked_blk : q \in Nat
<1>1. /\ phase = "sweep" /\ phase' = "sweep" /\ curr_sb < EndSb /\ MarkHere
      /\ rest' = rest \ {curr_marked_blk}
      /\ UNCHANGED <<desc, pdesc, mem, pmem, roots, avail_sb, partial_list, anchor, marked_blk,
                     curr_sb, new_avail, count, free_head, kept, kept_words>>
  BY Zenon DEF PassMark, heap, lists, marking, history
<1>2. marked_blk \subseteq Words
  BY <1>1, SweepFacts, Zenon
<1> QED BY <1>1, <1>2, Constants, Zenon DEF KeptStarts

\* A mark in an unused superblock is a false positive.
LEMMA PassFalse ==
  ASSUME WellOrdered, IInv, PassMark, ~InUse
  PROVE  CurrOK'
<1> DEFINE p == curr_marked_blk
<1>1. /\ CurrOK /\ curr_desc = Descriptor /\ p = curr_sb * SBSIZE /\ p \in rest /\ p \in Nat
  BY PassMarkFrame, SweepFacts, MarkedHere, Zenon
<1> HIDE DEF p
<1>2. state' = state /\ free_block' = free_block /\ ~Small /\ curr_desc.heap # LargeHeap
  <2>1. ~Small /\ curr_desc.heap # LargeHeap
    BY <1>1, Constants DEF Small, Descriptor, NoHeap, LargeHeap
  <2> QED BY <2>1, Zenon DEF PassMark
<1>3. AtEmpty
  BY <1>1, <1>2, Zenon DEF CurrOK, AtFull, AtPartial, IsSmall, Small, curr_desc
<1>4. free_block = p
  BY <1>1, <1>3, Zenon DEF AtEmpty
<1>5. rest = {q \in marked_blk : q >= free_block}
  <2>1. ~(p > free_block)
    BY <1>1, <1>4
  <2> QED BY <1>1, <1>3, <2>1, Zenon DEF AtEmpty
<1>6. rest' = {q \in marked_blk : q > free_block}
  <2>1. \A q \in marked_blk : q > p <=> q >= p /\ q # p
    BY <1>1, PassMarkFrame
  <2> QED BY <1>4, <1>5, <2>1, PassMarkFrame, Zenon DEF p
<1>7. AtEmpty'
  BY <1>1, <1>2, <1>3, <1>6, PassMarkFrame, Zenon DEF AtEmpty, curr_desc
<1>8. FreeBelow(curr_sb, free_block)' = FreeBelow(curr_sb, free_block)
  BY <1>2, PassMarkFrame, Zenon DEF FreeBelow
<1> QED BY <1>1, <1>7, <1>8, PassMarkFrame, Zenon DEF CurrOK

\* A marked block is passed and its superblock is not free.
LEMMA PassBlock ==
  ASSUME WellOrdered, IInv, PassMark, InUse
  PROVE  CurrOK'
<1> DEFINE o == curr_sb * SBSIZE
           k == curr_desc.block_size
           m == curr_desc.maxcount
           p == curr_marked_blk
<1>1. /\ phase = "sweep" /\ curr_sb < EndSb /\ MarkHere /\ rest' = rest \ {p}
      /\ UNCHANGED <<desc, mem, marked_blk, curr_sb, count, free_head>>
      /\ KeptStarts' = KeptStarts /\ \A q \in marked_blk : q \in Nat
  BY PassMarkFrame, Zenon
<1>2. /\ LayoutOK(desc) /\ KeptOK /\ CurrOK /\ curr_sb \in Sbs /\ MarksOK
      /\ o \in Nat /\ free_block \in Nat /\ \A q \in rest : q >= free_block
  BY <1>1, SweepFacts, Zenon
<1>3. p \in rest /\ p \in KeptStarts /\ p \in Nat
  BY <1>1, MarkedHere, Zenon
<1>4. PICK i \in Nat : /\ i < m /\ p = o + i * k /\ Block(desc, curr_sb, i) \in kept
                       /\ BlockIn(desc, Block(desc, curr_sb, i), curr_sb, i)
  BY <1>1, MarkedHere, Zenon
<1> HIDE DEF p
<1> DEFINE b == Block(desc, curr_sb, i)
<1>5. b \in kept /\ b \in Blocks(desc) /\ b.start = p /\ b.words = k /\ k \in Nat \ {0}
  BY <1>2, <1>4, Zenon DEF BlockIn, curr_desc, KeptOK
<1> HIDE DEF b
<1>6. curr_desc # Descriptor
  BY DEF InUse, Descriptor
<1>7. \A q \in marked_blk \cup Starts(Blocks(desc)) : q < p + k <=> q < p \/ q = p
  BY <1>2, <1>5, MarksAre, StartBefore
<1>8. CASE Small
  <2>1. state' = "PARTIAL" /\ free_block' = p + k /\ free_block >= p
    BY <1>8, Zenon DEF PassMark, p
  <2>2. free_block = p
    BY <1>2, <1>3, <2>1
  <2>3. ~AtFull
    BY <1>8, Constants, Zenon DEF AtFull, Small, curr_desc, LargeHeap
  <2>4. rest = {q \in marked_blk : q >= free_block}
    BY <1>2, <1>6, <2>3, Zenon DEF CurrOK, AtEmpty, AtPartial, curr_desc
  <2>5. rest' = {q \in marked_blk : q >= p + k}
    <3>1. \A q \in marked_blk : q >= p + k <=> q >= p /\ q # p
      BY <1>1, <1>3, <1>5, <1>7
    <3> QED BY <1>1, <2>2, <2>4, <3>1, Zenon
  <2>6. FreeBelow(curr_sb, free_block)' = FreeBelow(curr_sb, free_block)
    BY <1>1, <1>3, <1>7, <2>1, <2>2, Zenon DEF FreeBelow
  <2>7. PICK j \in Nat : count <= j /\ free_block = o + j * k
    <3>1. CASE AtEmpty
      <4>1. o = o + 0 * k
        BY <1>2, <1>5
      <4>2. count <= 0 /\ free_block = o + 0 * k
        BY <3>1, <4>1 DEF AtEmpty
      <4> QED BY <4>2, Zenon
    <3>2. CASE AtPartial
      BY <3>2, Zenon DEF AtPartial, curr_desc
    <3> QED BY <1>2, <2>3, <3>1, <3>2, Zenon DEF CurrOK
  <2>8. i = j
    <3> HIDE DEF o, k
    <3>1. o + i * k < o + j * k <=> i < j
      BY <1>2, <1>5, IndexOrder, Zenon
    <3>2. o + j * k < o + i * k <=> j < i
      BY <1>2, <1>5, IndexOrder, Zenon
    <3>3. o + i * k = o + j * k /\ o + i * k \in Nat
      BY <1>3, <1>4, <2>2, <2>7, Zenon
    <3>4. ~(i < j) /\ ~(j < i)
      BY <3>1, <3>2, <3>3
    <3> QED BY <3>4
  <2>9. AtPartial'
    <3>1. o + i * k + k = o + (i + 1) * k
      <4> HIDE DEF o, k
      <4> QED BY <1>2, <1>5, IndexOrder
    <3>2. m \in Nat /\ count \in Nat
      BY <1>2, Shapes, Zenon DEF Shape, curr_desc, CurrOK
    <3>3. i + 1 \in Nat /\ count <= i + 1 /\ i + 1 <= m /\ p + k = o + (i + 1) * k
      <4> HIDE DEF o, k, m
      <4> QED BY <1>4, <2>7, <2>8, <3>1, <3>2
    <3>4. \E n \in Nat : /\ count' <= n /\ n <= desc'[curr_sb'].maxcount
                         /\ free_block' = curr_sb' * SBSIZE + n * desc'[curr_sb'].block_size
      BY <1>1, <2>1, <3>3, Zenon DEF curr_desc
    <3>5. desc_lookup(p) = curr_sb
      BY <1>1, Zenon DEF MarkHere, p
    <3>6. IsSmall(curr_sb)'
      BY <1>1, <1>8, Zenon DEF IsSmall, Small, curr_desc
    <3> QED BY <1>1, <1>3, <2>1, <2>5, <3>4, <3>5, <3>6, Zenon DEF AtPartial
  <2> QED BY <1>1, <1>2, <2>6, <2>9, Zenon DEF CurrOK
<1>9. CASE ~Small
  <2>1. state' = "FULL" /\ free_block' = free_block
    BY <1>9, Zenon DEF PassMark
  <2>2. Shape(desc, curr_sb)
    BY <1>2, Shapes, Zenon
  <2>3. curr_desc.heap = LargeHeap /\ m = 1
    BY <1>9, <2>2, Zenon DEF InUse, Shape, Small, curr_desc
  <2>4. p = o
    <3>1. i = 0
      BY <1>4, <2>3
    <3> QED BY <1>2, <1>4, <1>5, <3>1
  <2>5. AtEmpty
    <3>1. ~AtPartial
      BY <1>9, Zenon DEF AtPartial, IsSmall, Small, curr_desc
    <3>2. ~AtFull
      BY <1>2, <1>3, <2>4 DEF AtFull
    <3> QED BY <1>2, <3>1, <3>2, Zenon DEF CurrOK
  <2>6. free_block = p /\ rest = {q \in marked_blk : q >= free_block}
    BY <1>6, <2>4, <2>5, Zenon DEF AtEmpty, curr_desc
  <2>7. rest' = {q \in marked_blk : q > free_block}
    <3>1. \A q \in marked_blk : q > p <=> q >= p /\ q # p
      BY <1>1, <1>3
    <3> QED BY <1>1, <2>6, <3>1, Zenon
  <2>8. AtFull'
    BY <1>1, <1>3, <2>1, <2>3, <2>4, <2>5, <2>6, <2>7, Zenon
       DEF AtFull, AtEmpty, curr_desc
  <2>9. FreeBelow(curr_sb, free_block)' = FreeBelow(curr_sb, free_block)
    BY <1>1, <2>1, Zenon DEF FreeBelow
  <2> QED BY <1>1, <1>2, <2>8, <2>9, Zenon DEF CurrOK
<1> QED BY <1>8, <1>9, Zenon

\* The sweep passes a mark.
LEMMA PassMarkInv ==
  ASSUME WellOrdered, IInv, PassMark
  PROVE  IInv'
<1>1. /\ phase = "sweep" /\ phase' = "sweep" /\ rest' = rest \ {curr_marked_blk}
      /\ UNCHANGED <<desc, pdesc, mem, pmem, roots, avail_sb, partial_list, anchor, marked_blk,
                     curr_sb, new_avail, count, free_head, kept, kept_words>>
      /\ KeptStarts' = KeptStarts
  BY PassMarkFrame, Zenon
<1>2. TypeOK /\ DescInv /\ KeptOK /\ DoneOK /\ MarksOK
  BY <1>1, SweepFacts, Zenon
<1>3. TypeOK' /\ DescInv' /\ KeptOK' /\ MarksOK'
  <2>1. TypeOK' /\ DescInv'
    BY <1>1, <1>2, Zenon DEF TypeOK, DescInv
  <2>2. Dangling(desc)' = Dangling(desc)
    BY <1>1, Zenon
  <2>3. MarksOK'
    BY <1>1, <1>2, <2>2, Zenon DEF MarksOK
  <2>4. Reads' = Reads
    BY <1>1, <2>2, Zenon DEF Reads
  <2>5. KeptOK'
    <3>1. kept \subseteq Blocks(desc') /\ Dangling(desc) \subseteq Dangling(desc')
      BY <1>1, <1>2, <2>2, Zenon DEF KeptOK
    <3>2. \A w \in AllWords(kept) : mem'[w] = mem[w] /\ pmem'[w] = mem[w]
      BY <1>1, <1>2, Zenon DEF KeptOK
    <3> QED BY <1>1, <1>2, <3>1, <3>2, KeptFrame, Zenon
  <2> QED BY <2>1, <2>3, <2>5, Zenon
<1>4. DoneOK'
  BY <1>1, <1>2, Zenon DEF DoneOK, Done, DoneSmall, Used, IsSmall, Others, FreeBelow
<1>5. CurrOK'
  BY PassFalse, PassBlock, Zenon
<1> QED BY <1>1, <1>3, <1>4, <1>5, SweepStep, Zenon

\* The sweep goes on with superblock s.
LEMMA MoveOn ==
  ASSUME NEW s \in 1..EndSb, StartSb(s), rest' = {p \in marked_blk' : p >= s * SBSIZE},
         LayoutOK(desc')
  PROVE  CurrOK'
<1>1. /\ curr_sb' = s /\ state' = "EMPTY" /\ count' = 0 /\ free_block' = s * SBSIZE
      /\ free_head' = null
  BY Zenon DEF StartSb
<1>2. FreeBelow(curr_sb, free_block)' = {}
  <2>1. s * SBSIZE \in Nat
    BY Constants
  <2>2. \A q \in Starts(Blocks(desc')) : q \in Nat
    BY StartsOf, Constants, Zenon
  <2>3. \A q \in Starts(Blocks(desc')) : ~(s * SBSIZE <= q /\ q < s * SBSIZE)
    BY <2>1, <2>2
  <2> QED BY <1>1, <2>3, Zenon DEF FreeBelow
<1>3. AtEmpty'
  BY <1>1, Zenon DEF AtEmpty
<1> QED BY <1>1, <1>2, <1>3, LinkedEmpty, Zenon DEF CurrOK

\* A superblock in which no mark was passed holds no part of a kept block.
LEMMA EmptyUnused ==
  ASSUME WellOrdered, IInv, phase = "sweep", curr_sb < EndSb, ~MarkHere, state = "EMPTY"
  PROVE  ~Used(curr_sb)
<1>1. /\ LayoutOK(desc) /\ KeptOK /\ DoneOK /\ CurrOK /\ curr_sb * SBSIZE \in Nat
      /\ (curr_sb + 1) * SBSIZE = curr_sb * SBSIZE + SBSIZE
  BY SweepFacts, Zenon
<1>2. AtEmpty
  BY <1>1, Zenon DEF CurrOK, AtFull, AtPartial
<1> SUFFICES ASSUME NEW b \in kept, NEW w \in WordsOf(b), w \in SbWords(curr_sb) PROVE FALSE
  BY Zenon DEF Used
<1>3. b.start \in Nat /\ b.words \in Nat
  BY <1>1, BlockFacts, Constants, Zenon DEF KeptOK
<1>4. /\ w \in Nat /\ b.start <= w /\ w < b.start + b.words
      /\ curr_sb * SBSIZE <= w /\ w < (curr_sb + 1) * SBSIZE
  BY <1>1, <1>3, Constants DEF WordsOf, SbWords
<1>5. CASE b.start < curr_sb * SBSIZE
  <2>1. b.start + b.words <= curr_sb * SBSIZE
    BY <1>1, <1>5, Zenon DEF DoneOK
  <2> QED BY <1>1, <1>3, <1>4, <2>1
<1>6. CASE b.start >= curr_sb * SBSIZE
  <2>1. b.start \in KeptStarts
    BY Zenon DEF KeptStarts, Starts
  <2>2. b.start \in rest
    <3>1. b.start \in marked_blk
      BY <2>1, SweepFacts, Zenon DEF MarksOK
    <3>2. desc[curr_sb] = Descriptor => b.start # curr_sb * SBSIZE
      <4>1. desc[curr_sb] = Descriptor => desc_lookup(b.start) # curr_sb
        BY <1>1, BlockFacts DEF KeptOK, Descriptor
      <4>2. desc_lookup(curr_sb * SBSIZE) = curr_sb
        <5>1. curr_sb \in Nat /\ curr_sb * SBSIZE < (curr_sb + 1) * SBSIZE
          BY <1>1, SweepFacts, Constants
        <5> QED BY <1>1, <5>1, Lookup
      <4> QED BY <4>1, <4>2, Zenon
    <3>3. b.start # curr_sb * SBSIZE => b.start > curr_sb * SBSIZE
      BY <1>1, <1>3, <1>6
    <3> QED BY <1>2, <1>6, <3>1, <3>2, <3>3, Zenon DEF AtEmpty
  <2>3. b.start >= (curr_sb + 1) * SBSIZE
    BY <2>2, NotHere, Zenon
  <2> QED BY <1>1, <1>3, <1>4, <2>3, Constants
<1> QED BY <1>1, <1>3, <1>5, <1>6

\* A superblock without a mark goes to avail_sb.
LEMMA SweepEmptyInv ==
  ASSUME WellOrdered, IInv, SweepEmpty
  PROVE  IInv'
<1> DEFINE o == curr_sb * SBSIZE
<1>1. /\ phase = "sweep" /\ phase' = "sweep" /\ curr_sb < EndSb /\ ~MarkHere /\ state = "EMPTY"
      /\ desc' = [desc EXCEPT ![curr_sb] = Descriptor]
      /\ pdesc' = [pdesc EXCEPT ![curr_sb] = Descriptor]
      /\ anchor' = [anchor EXCEPT ![curr_sb] = NoAnchor]
      /\ new_avail' = <<curr_sb>> \o new_avail /\ StartSb(curr_sb + 1) /\ curr_sb' = curr_sb + 1
      /\ UNCHANGED <<mem, pmem, roots, avail_sb, partial_list, marked_blk, rest, kept, kept_words>>
  BY Zenon DEF SweepEmpty, StartSb, marking, history
<1>2. /\ LayoutOK(desc) /\ DescInv /\ TypeOK /\ KeptOK /\ CurrOK /\ DoneOK /\ curr_sb \in Sbs
      /\ o \in Nat /\ MarksOK /\ marked_blk \subseteq Words
      /\ rest \subseteq marked_blk /\ (curr_sb + 1) * SBSIZE = o + SBSIZE /\ curr_sb \in Nat
  BY <1>1, SweepFacts, Zenon
<1>3. ~Used(curr_sb)
  BY <1>1, EmptyUnused, Zenon
<1>4. \A b \in kept : desc_lookup(b.start) # curr_sb /\ b \in Blocks(desc) /\ b.start \in Nat
  <2> SUFFICES ASSUME NEW b \in kept PROVE desc_lookup(b.start) # curr_sb /\ b \in Blocks(desc)
                                           /\ b.start \in Nat
    BY Zenon
  <2>1. b \in Blocks(desc) /\ b.start \in WordsOf(b) /\ b.start \in Nat
    BY <1>2, BlockFacts, Constants, Zenon DEF KeptOK
  <2>2. b.start \notin SbWords(curr_sb)
    BY <1>3, <2>1, Zenon DEF Used
  <2>3. ~(o <= b.start /\ b.start < (curr_sb + 1) * SBSIZE)
    BY <1>2, <2>1, <2>2, Constants DEF SbWords
  <2> QED BY <1>2, <2>1, <2>3, Lookup, Zenon
<1>5. /\ LayoutOK(desc') /\ \A r \in Sbs : r # curr_sb => desc'[r] = desc[r]
      /\ Dangling(desc) \subseteq Dangling(desc')
      /\ \A b : b \in Blocks(desc') <=> b \in Blocks(desc) /\ desc_lookup(b.start) # curr_sb
  <2>1. DOMAIN desc = Sbs
    BY <1>2, Zenon DEF LayoutOK
  <2>2. /\ desc' = [r \in Sbs |-> desc'[r]] /\ desc'[curr_sb] = Descriptor
        /\ \A r \in Sbs : r # curr_sb => desc'[r] = desc[r]
    BY <1>1, <1>2, <2>1, Zenon
  <2>3. \A r \in Sbs : desc'[r] = desc[r] \/ desc'[r] = Descriptor
    BY <2>2, Zenon
  <2>4. /\ LayoutOK(desc') /\ Dangling(desc) \subseteq Dangling(desc')
        /\ \A b : b \in Blocks(desc') <=> b \in Blocks(desc) /\ desc'[desc_lookup(b.start)] # Descriptor
    BY <1>2, <2>2, <2>3, DropSbs, DanglingGrows, Zenon
  <2>5. \A b \in Blocks(desc) : desc_lookup(b.start) \in Sbs /\ desc[desc_lookup(b.start)] # Descriptor
    BY <1>2, BlockFacts DEF Descriptor
  <2> QED BY <2>2, <2>4, <2>5, Zenon
<1>6. KeptStarts' = KeptStarts /\ KeptOK' /\ MarksOK'
  <2>1. kept \subseteq Blocks(desc')
    BY <1>4, <1>5, Zenon
  <2>2. \A w \in AllWords(kept) : mem'[w] = mem[w] /\ pmem'[w] = mem[w]
    BY <1>1, <1>2, Zenon DEF KeptOK
  <2>3. KeptOK'
    BY <1>1, <1>2, <1>5, <2>1, <2>2, KeptFrame, Zenon
  <2> QED BY <1>1, <1>2, <1>5, <2>3, Zenon DEF KeptStarts, MarksOK
<1>7. AtEmpty
  BY <1>1, <1>2, Zenon DEF CurrOK, AtFull, AtPartial
<1>8. CurrOK'
  <2>1. \A p \in rest : p >= (curr_sb + 1) * SBSIZE
    BY <1>1, NotHere, Zenon
  <2>2. \A p \in marked_blk : p >= (curr_sb + 1) * SBSIZE => p >= o /\ p > o
    BY <1>2, Constants
  <2>3. \A p \in marked_blk : p >= (curr_sb + 1) * SBSIZE => p \in rest
    BY <1>7, <2>2, Zenon DEF AtEmpty
  <2>4. rest' = {p \in marked_blk' : p >= (curr_sb + 1) * SBSIZE}
    BY <1>1, <1>2, <2>1, <2>3, Zenon
  <2>5. curr_sb + 1 \in 1..EndSb
    BY <1>1, <1>2, Constants
  <2> QED BY <1>1, <1>5, <2>4, <2>5, MoveOn, Zenon
<1>9. DoneOK'
  <2>1. Done' = Done \cup {curr_sb} /\ curr_sb \notin Done /\ Done \subseteq Sbs
    BY <1>1, <1>2, Constants DEF Done, Sbs
  <2>2. \A s : Used(s)' = Used(s)
    BY <1>1, Zenon DEF Used
  <2>3. \A s \in Done : desc'[s] = desc[s] /\ anchor'[s] = anchor[s]
    BY <1>1, <1>2, <1>5, <2>1, Zenon DEF TypeOK
  <2>4. DoneSmall' = DoneSmall /\ DoneSmall \subseteq Done
    BY <1>3, <2>1, <2>2, <2>3, Zenon DEF DoneSmall, IsSmall
  <2>5. ASSUME NEW s \in Done PROVE Others(s)' = Others(s)
    <3>1. \A q \in Starts(Blocks(desc)) : s * SBSIZE <= q /\ q < (s + 1) * SBSIZE =>
                                            desc_lookup(q) # curr_sb
      <4>1. \A q \in Starts(Blocks(desc)) : q \in Nat
        BY <1>2, StartsOf, Constants, Zenon
      <4>2. s \in Nat /\ s # curr_sb
        BY <2>1, Constants, Zenon
      <4> QED BY <4>1, <4>2, Lookup, Zenon
    <3>2. \A q : q \in Starts(Blocks(desc')) <=>
                   q \in Starts(Blocks(desc)) /\ desc_lookup(q) # curr_sb
      BY <1>5, Zenon DEF Starts
    <3> QED BY <1>6, <3>1, <3>2, Zenon DEF Others, FreeBelow
  <2>6. new_avail' \in Seq(Sbs) /\ Lists(new_avail', {s \in Done' : ~Used(s)'})
    <3> DEFINE U == {s \in Done : ~Used(s)}
    <3>1. {s \in Done' : ~Used(s)'} = U \cup {curr_sb}
      BY <1>3, <2>1, <2>2, Zenon
    <3>2. new_avail \in Seq(Sbs) /\ Lists(new_avail, U)
      BY <1>2, Zenon DEF DoneOK
    <3>3. curr_sb \notin U
      BY <2>1, Zenon
    <3>4. <<curr_sb>> \o new_avail \in Seq(Sbs) /\ Lists(<<curr_sb>> \o new_avail, U \cup {curr_sb})
      <4> HIDE DEF U
      <4> QED BY <1>2, <3>2, <3>3, ListsPush, Zenon
    <3> QED BY <1>1, <3>1, <3>4, Zenon
  <2>7. \A b \in kept : b.start < (curr_sb + 1) * SBSIZE => b.start + b.words <= (curr_sb + 1) * SBSIZE
    <3> SUFFICES ASSUME NEW b \in kept, b.start < (curr_sb + 1) * SBSIZE
                 PROVE  b.start + b.words <= (curr_sb + 1) * SBSIZE
      BY Zenon
    <3>1. b.start < o
      BY <1>2, <1>4, Lookup
    <3>2. b.start + b.words <= o
      BY <1>2, <3>1, Zenon DEF DoneOK
    <3>3. b.words \in Nat
      BY <1>2, <1>4, BlockFacts, Zenon
    <3> QED BY <1>2, <1>4, <3>2, <3>3, Constants
  <2>8. \A s \in DoneSmall' : Linked(mem', s * SBSIZE + anchor'[s].avail * desc'[s].block_size,
                                     anchor'[s].count, Others(s)')
    BY <1>1, <1>2, <2>3, <2>4, <2>5, Zenon DEF DoneOK
  <2>9. \A s \in Done' : Used(s)' /\ desc'[s].heap = LargeHeap => anchor'[s].count = 0
    BY <1>2, <1>3, <2>1, <2>2, <2>3, Zenon DEF DoneOK
  <2>10. ASSUME NEW c \in Classes
         PROVE  Lists(partial_list'[c], {s \in DoneSmall' : desc'[s].heap = c /\ Others(s)' # {}})
    <3>1. {s \in DoneSmall' : desc'[s].heap = c /\ Others(s)' # {}}
            = {s \in DoneSmall : desc[s].heap = c /\ Others(s) # {}}
      BY <2>3, <2>4, <2>5, Zenon
    <3> QED BY <1>1, <1>2, <3>1, Zenon DEF DoneOK
  <2>11. partial_list' \in [Classes -> Seq(Sbs)]
    BY <1>1, <1>2, Zenon DEF DoneOK
  <2>12. \A b \in kept' : b.start < curr_sb' * SBSIZE => b.start + b.words <= curr_sb' * SBSIZE
    BY <1>1, <2>7, Zenon
  <2> QED BY <2>6, <2>8, <2>9, <2>10, <2>11, <2>12, Zenon DEF DoneOK
<1>10. TypeOK'
  <2>1. curr_sb' \in 1..EndSb
    BY <1>1, <1>2, Constants
  <2>2. NoAnchor \in [avail : 0..SBSIZE, count : 0..SBSIZE, state : {"ERROR", "FULL", "PARTIAL"}]
    BY Constants DEF NoAnchor, Anchor
  <2> QED BY <1>1, <1>2, <2>1, <2>2, Zenon DEF TypeOK
<1>11. DescInv'
  BY <1>1, <1>2, <1>5, Zenon DEF DescInv
<1> QED BY <1>1, <1>2, <1>6, <1>8, <1>9, <1>10, <1>11, SweepStep, Zenon

\* A large block's superblocks are passed together.
LEMMA SweepLargeInv ==
  ASSUME IInv, SweepLarge
  PROVE  IInv'
<1> DEFINE o == curr_sb * SBSIZE
           n == curr_desc.block_size \div SBSIZE
<1>1. /\ phase = "sweep" /\ phase' = "sweep" /\ curr_sb < EndSb /\ state # "EMPTY" /\ ~Small
      /\ anchor' = [anchor EXCEPT ![curr_sb] = Anchor(0, 0, "FULL")]
      /\ StartSb(curr_sb + n) /\ curr_sb' = curr_sb + n
      /\ UNCHANGED <<desc, pdesc, mem, pmem, roots, avail_sb, partial_list, marked_blk, rest,
                     new_avail, kept, kept_words>>
  BY Zenon DEF SweepLarge, StartSb, heap, marking, history
<1>2. /\ LayoutOK(desc) /\ DescInv /\ TypeOK /\ KeptOK /\ CurrOK /\ DoneOK /\ curr_sb \in Sbs
      /\ o \in Nat /\ MarksOK /\ marked_blk \subseteq Words
      /\ rest \subseteq marked_blk /\ (curr_sb + 1) * SBSIZE = o + SBSIZE /\ curr_sb \in Nat
  BY <1>1, SweepFacts, Zenon
<1>3. AtFull
  BY <1>1, <1>2, Zenon DEF CurrOK, AtEmpty, AtPartial, IsSmall, Small, curr_desc
<1>4. Shape(desc, curr_sb)
  BY <1>2, Shapes, Zenon
<1>5. PICK z \in LargeSbs : /\ desc[curr_sb].block_size = z * SBSIZE /\ curr_sb + z <= EndSb
                            /\ \A r \in (curr_sb + 1)..(curr_sb + z - 1) : desc[r] = Descriptor
  BY <1>3, <1>4, Zenon DEF Shape, AtFull
<1>6. z \in Nat \ {0} /\ n = z
  BY <1>5, Constants, Division, Zenon DEF curr_desc
<1> HIDE DEF n
<1> DEFINE e == (curr_sb + z) * SBSIZE
<1>7. e \in Nat /\ e = o + z * SBSIZE /\ z * SBSIZE \in Nat \ {0}
  BY <1>2, <1>6, Constants
<1>8. PICK b \in kept : b.start = o
  BY <1>3, Zenon DEF AtFull, KeptStarts, Starts
<1>9. b \in Blocks(desc) /\ b.words = z * SBSIZE /\ b.start + b.words = e
  <2>1. b \in Blocks(desc)
    BY <1>2, <1>8, Zenon DEF KeptOK
  <2>2. desc_lookup(o) = curr_sb
    <3>1. o < (curr_sb + 1) * SBSIZE
      BY <1>2, Constants
    <3> QED BY <1>2, <3>1, Lookup
  <2>3. b.words = desc[curr_sb].block_size
    BY <1>2, <1>8, <2>1, <2>2, BlockFacts, Zenon
  <2> QED BY <1>5, <1>7, <1>8, <2>1, <2>3, Zenon
<1> HIDE DEF e
<1>10. KeptStarts' = KeptStarts /\ KeptOK' /\ MarksOK'
  BY <1>1, <1>2, Zenon DEF KeptOK, KeptStarts, Reads, MarksOK
<1>11. \A q \in marked_blk : q \in Nat /\ (q < e <=> q < o \/ q = o)
  BY <1>2, <1>8, <1>9, MarksAre, StartBefore, Constants, Zenon
<1>12. CurrOK'
  <2>1. \A q \in marked_blk : q > o <=> q >= e
    BY <1>2, <1>7, <1>11
  <2>2. rest' = {p \in marked_blk' : p >= (curr_sb + n) * SBSIZE}
    BY <1>1, <1>3, <1>6, <1>10, <2>1, Zenon DEF AtFull, e
  <2>3. curr_sb + n \in 1..EndSb
    BY <1>2, <1>5, <1>6, Constants
  <2>4. LayoutOK(desc')
    BY <1>1, <1>2, Zenon
  <2> QED BY <1>1, <2>2, <2>3, <2>4, MoveOn, Zenon
<1> DEFINE N == curr_sb..(curr_sb + z - 1)
<1>13. /\ Done' = Done \cup N /\ Done \cap N = {} /\ Done \subseteq Sbs /\ N \subseteq Sbs
       /\ curr_sb \notin Done /\ \A r \in N : r = curr_sb \/ r \in (curr_sb + 1)..(curr_sb + z - 1)
  BY <1>1, <1>2, <1>5, <1>6, Constants DEF Done, Sbs
<1>14. ASSUME NEW r \in N PROVE Used(r) /\ ~IsSmall(r)
  <2>1. r \in Nat /\ r + 1 \in Nat /\ curr_sb <= r /\ r + 1 <= curr_sb + z
    BY <1>2, <1>6
  <2>2. r * SBSIZE \in Nat /\ o <= r * SBSIZE
    BY <1>2, <2>1, Constants, Product, Zenon
  <2>3. (r + 1) * SBSIZE \in Nat /\ (r + 1) * SBSIZE <= e /\ (r + 1) * SBSIZE = r * SBSIZE + SBSIZE
    BY <1>2, <1>6, <2>1, Constants, Product DEF e
  <2>4. r * SBSIZE \in WordsOf(b)
    BY <1>2, <1>7, <1>8, <1>9, <2>2, <2>3, Constants DEF WordsOf
  <2>5. r * SBSIZE \in SbWords(r)
    BY <2>2, <2>3, Constants DEF SbWords
  <2>6. Used(r)
    BY <1>8, <2>4, <2>5, Zenon DEF Used
  <2>7. CASE r = curr_sb
    BY <1>1, <2>6, <2>7, Zenon DEF Small, IsSmall, curr_desc
  <2>8. CASE r # curr_sb
    <3>1. desc[r] = Descriptor
      BY <1>5, <1>13, <2>8, Zenon
    <3>2. desc[r].heap = -1 /\ -1 \notin Classes
      BY <3>1, Constants DEF Descriptor, NoHeap
    <3> QED BY <2>6, <3>2, Zenon DEF IsSmall
  <2> QED BY <2>7, <2>8, Zenon
<1> HIDE DEF N
<1>15. DoneOK'
  <2>1. \A s : Used(s)' = Used(s) /\ IsSmall(s)' = IsSmall(s) /\ Others(s)' = Others(s)
    BY <1>1, <1>10, Zenon DEF Used, IsSmall, Others, FreeBelow
  <2>2. DoneSmall' = DoneSmall /\ DoneSmall \subseteq Done
    BY <1>13, <1>14, <2>1, Zenon DEF DoneSmall
  <2>3. \A s \in Done : anchor'[s] = anchor[s]
    BY <1>1, <1>2, <1>13, Zenon DEF TypeOK
  <2>4. {s \in Done' : ~Used(s)'} = {s \in Done : ~Used(s)}
    BY <1>13, <1>14, <2>1, Zenon
  <2>5. \A s \in DoneSmall' : Linked(mem', s * SBSIZE + anchor'[s].avail * desc'[s].block_size,
                                     anchor'[s].count, Others(s)')
    BY <1>1, <1>2, <2>1, <2>2, <2>3, Zenon DEF DoneOK
  <2>6. ASSUME NEW s \in Done', Used(s)', desc'[s].heap = LargeHeap PROVE anchor'[s].count = 0
    <3>1. CASE s \in Done
      BY <1>1, <1>2, <2>1, <2>3, <2>6, <3>1, Zenon DEF DoneOK
    <3>2. CASE s = curr_sb
      BY <1>1, <1>2, <3>2, Zenon DEF TypeOK, Anchor
    <3>3. CASE s \in (curr_sb + 1)..(curr_sb + z - 1)
      <4>1. desc'[s] = Descriptor
        BY <1>1, <1>5, <3>3, Zenon
      <4> QED BY <2>6, <4>1 DEF Descriptor, NoHeap, LargeHeap
    <3> QED BY <1>13, <3>1, <3>2, <3>3, Zenon
  <2>7. ASSUME NEW a \in kept, a.start < e PROVE a.start + a.words <= e
    <3>1. a.start \in KeptStarts /\ a \in Blocks(desc)
      BY <1>2, Zenon DEF KeptStarts, Starts, KeptOK
    <3>2. a.start < o \/ a.start = o
      BY <1>2, <1>11, <2>7, <3>1, Zenon DEF MarksOK
    <3>3. a.words \in Nat /\ a.start \in Nat
      BY <1>2, <3>1, BlockFacts, Constants, Zenon
    <3>4. CASE a.start < o
      <4>1. a.start + a.words <= o
        BY <1>2, <3>4, Zenon DEF DoneOK
      <4> QED BY <1>2, <1>7, <3>3, <4>1
    <3>5. CASE a.start = o
      <4>1. a.start \in WordsOf(a) /\ b.start \in WordsOf(b)
        BY <1>2, <1>9, <3>1, BlockFacts, Zenon
      <4>2. a = b
        BY <1>2, <1>8, <1>9, <3>1, <3>5, <4>1, OneBlock, Zenon
      <4> QED BY <1>7, <1>9, <4>2
    <3> QED BY <3>2, <3>4, <3>5, Zenon
  <2>8. \A a \in kept' : a.start < curr_sb' * SBSIZE => a.start + a.words <= curr_sb' * SBSIZE
    BY <1>1, <1>6, <2>7, Zenon DEF e
  <2>9. ASSUME NEW c \in Classes
        PROVE  Lists(partial_list'[c], {s \in DoneSmall' : desc'[s].heap = c /\ Others(s)' # {}})
    BY <1>1, <1>2, <2>1, <2>2, Zenon DEF DoneOK
  <2>10. /\ partial_list' \in [Classes -> Seq(Sbs)] /\ new_avail' \in Seq(Sbs)
         /\ Lists(new_avail', {s \in Done' : ~Used(s)'})
    BY <1>1, <1>2, <2>4, Zenon DEF DoneOK
  <2> QED BY <2>5, <2>6, <2>8, <2>9, <2>10, Zenon DEF DoneOK
<1>16. TypeOK'
  <2>1. curr_sb' \in 1..EndSb
    BY <1>1, <1>2, <1>5, <1>6, Constants
  <2>2. Anchor(0, 0, "FULL") \in [avail : 0..SBSIZE, count : 0..SBSIZE,
                                  state : {"ERROR", "FULL", "PARTIAL"}]
    BY Constants DEF Anchor
  <2> QED BY <1>1, <1>2, <2>1, <2>2, Zenon DEF TypeOK
<1>17. DescInv'
  BY <1>1, <1>2, Zenon DEF DescInv
<1> QED BY <1>1, <1>2, <1>10, <1>12, <1>15, <1>16, <1>17, SweepStep, Zenon

\* A superblock with marks gets an anchor and, with free blocks, is listed.
LEMMA SweepSmallInv ==
  ASSUME WellOrdered, IInv, SweepSmall
  PROVE  IInv'
<1> DEFINE o == curr_sb * SBSIZE
           k == curr_desc.block_size
           m == curr_desc.maxcount
           c == curr_desc.heap
           v == (free_head - o) \div k
           free == FreeBelow(curr_sb, free_block)
<1>1. /\ phase = "sweep" /\ curr_sb < EndSb /\ ~MarkHere /\ state # "EMPTY" /\ Small
      /\ free_block >= Limit
      /\ StartSb(curr_sb + 1) /\ curr_sb' = curr_sb + 1
      /\ UNCHANGED <<desc, pdesc, mem, pmem, roots, avail_sb, marked_blk, rest, new_avail,
                     kept, kept_words>>
  BY Zenon DEF SweepSmall, StartSb, heap, marking, history
<1>2. /\ LayoutOK(desc) /\ DescInv /\ TypeOK /\ KeptOK /\ CurrOK /\ DoneOK /\ curr_sb \in Sbs
      /\ o \in Nat /\ MarksOK /\ marked_blk \subseteq Words /\ free_block \in Nat
      /\ rest \subseteq marked_blk /\ (curr_sb + 1) * SBSIZE = o + SBSIZE /\ curr_sb \in Nat
      /\ o <= free_block
  BY <1>1, SweepFacts, Zenon
<1>3. AtPartial /\ c \in Classes
  <2>1. ~AtFull
    BY <1>1, Constants, Zenon DEF AtFull, Small, curr_desc, LargeHeap
  <2> QED BY <1>1, <1>2, <2>1, Zenon DEF CurrOK, AtEmpty, Small
<1>4. /\ k \in Nat \ {0} /\ m \in Nat /\ m <= SBSIZE /\ m * k \in Nat /\ m * k <= SBSIZE
      /\ curr_desc.superblock = o
  <2>1. c # NoHeap
    BY <1>3, Constants DEF NoHeap
  <2>2. Shape(desc, curr_sb)
    BY <1>2, Shapes, Zenon
  <2> QED BY <1>3, <2>1, <2>2 DEF Shape, curr_desc
<1>5. PICK i \in Nat : count <= i /\ i <= m
  BY <1>3, Zenon DEF AtPartial, curr_desc
<1>6. count \in Nat /\ count <= SBSIZE /\ Linked(mem, free_head, count, free)
  <2>1. count \in Nat /\ Linked(mem, free_head, count, free)
    BY <1>2, Zenon DEF CurrOK
  <2> QED BY <1>4, <1>5, <2>1, Constants
<1>7. free_block >= o + m * k
  BY <1>1, <1>4, Zenon DEF Limit
\* Every start in this superblock is one of its m blocks.
<1>8. ASSUME NEW q \in Starts(Blocks(desc)), o <= q, q < (curr_sb + 1) * SBSIZE
      PROVE  \E j \in Nat : j < m /\ q = o + j * k /\ q < o + m * k
  <2>1. q \in Nat
    BY <1>2, StartsOf, Constants, Zenon
  <2>2. desc_lookup(q) = curr_sb
    BY <1>2, <1>8, <2>1, Lookup, Zenon
  <2>3. PICK j \in Nat : j < m /\ q = o + j * k
    BY <1>2, <2>2, StartIn, Zenon DEF curr_desc
  <2>4. o + j * k < o + m * k
    <3> HIDE DEF o, k, m
    <3> QED BY <1>2, <1>4, <2>3, IndexOrder, Zenon
  <2> QED BY <2>3, <2>4, Zenon
<1>9. Others(curr_sb) = free
  <2>1. \A q \in Starts(Blocks(desc)) : q \in Nat
    BY <1>2, StartsOf, Constants, Zenon
  <2>2. ASSUME NEW q \in Starts(Blocks(desc)), o <= q, q < (curr_sb + 1) * SBSIZE
        PROVE  q < free_block
    BY <1>2, <1>4, <1>7, <1>8, <2>1, <2>2
  <2>3. ASSUME NEW q \in Starts(Blocks(desc)), o <= q, q < free_block
        PROVE  q < (curr_sb + 1) * SBSIZE
    <3>1. PICK j \in Nat : j <= m /\ free_block = o + j * k
      BY <1>3, Zenon DEF AtPartial, curr_desc
    <3>2. j * k <= m * k /\ j * k \in Nat
      <4> HIDE DEF k, m
      <4> QED BY <1>4, <3>1, Product, Zenon
    <3>3. free_block <= o + m * k
      <4> HIDE DEF k, m
      <4> QED BY <1>2, <1>4, <3>1, <3>2
    <3> QED BY <1>2, <1>4, <2>1, <2>3, <3>3, Constants
  <2> QED BY <2>2, <2>3, Zenon DEF Others, FreeBelow
<1>10. Used(curr_sb)
  <2>1. PICK p \in KeptStarts : desc_lookup(p) = curr_sb
    BY <1>3, Zenon DEF AtPartial
  <2>2. PICK b \in kept : p = b.start
    BY Zenon DEF KeptStarts, Starts
  <2>3. p \in Nat /\ p \in WordsOf(b)
    BY <1>2, <2>2, BlockFacts, Constants, Zenon DEF KeptOK
  <2>4. o <= p /\ p < (curr_sb + 1) * SBSIZE
    BY <1>2, <2>1, <2>3, Lookup, Zenon
  <2>5. p \in SbWords(curr_sb)
    BY <1>2, <2>3, <2>4, Constants DEF SbWords
  <2> QED BY <2>2, <2>3, <2>5, Zenon DEF Used
\* The head of the list is block v.
<1>11. ASSUME count # 0
       PROVE  /\ free # {} /\ v \in Nat /\ v < m /\ free_head = o + v * k
              /\ (free_head - o) % k = 0
  <2>1. free_head \in free
    BY <1>6, <1>11, LinkedHead
  <2>2. free_head \in Starts(Blocks(desc)) /\ o <= free_head /\ free_head < (curr_sb + 1) * SBSIZE
    BY <1>9, <2>1, Zenon DEF Others, FreeBelow
  <2>3. PICK j \in Nat : j < m /\ free_head = o + j * k
    BY <1>8, <2>2, Zenon
  <2>4. j * k \in Nat /\ (j * k) \div k = j /\ (j * k) % k = 0
    <3> HIDE DEF k
    <3> QED BY <1>4, Division
  <2>5. free_head - o = j * k
    <3> HIDE DEF o, k
    <3> QED BY <1>2, <2>3, <2>4
  <2> QED BY <2>1, <2>3, <2>4, <2>5, Zenon
<1>12. /\ phase' = "sweep"
       /\ count = 0 => /\ anchor' = [anchor EXCEPT ![curr_sb] = Anchor(m, 0, "FULL")]
                       /\ partial_list' = partial_list
       /\ count # 0 => /\ anchor' = [anchor EXCEPT ![curr_sb] = Anchor(v, count, "PARTIAL")]
                       /\ partial_list' = [partial_list EXCEPT ![c] = <<curr_sb>> \o @]
  <2>1. CASE count = 0
    BY <1>1, <2>1, Zenon DEF SweepSmall
  <2>2. CASE count # 0
    BY <1>1, <1>11, <2>2, Zenon DEF SweepSmall
  <2> QED BY <2>1, <2>2, Zenon
<1> HIDE DEF v
<1>13. KeptStarts' = KeptStarts /\ KeptOK' /\ MarksOK'
  BY <1>1, <1>2, Zenon DEF KeptOK, KeptStarts, Reads, MarksOK
<1>14. CurrOK'
  <2>1. \A p \in marked_blk : p \in Nat /\ (p >= free_block <=> p >= (curr_sb + 1) * SBSIZE)
    <3> SUFFICES ASSUME NEW p \in marked_blk
                 PROVE  p \in Nat /\ (p >= free_block <=> p >= (curr_sb + 1) * SBSIZE)
      BY Zenon
    <3>1. p \in Nat
      BY <1>2, Constants, Zenon
    <3>2. ASSUME p >= free_block PROVE p >= (curr_sb + 1) * SBSIZE
      <4>1. p \in rest
        BY <1>3, <3>2, Zenon DEF AtPartial
      <4> QED BY <1>1, <4>1, NotHere, Zenon
    <3>3. ASSUME p >= (curr_sb + 1) * SBSIZE PROVE p >= free_block
      <4>1. PICK j \in Nat : j <= m /\ free_block = o + j * k
        BY <1>3, Zenon DEF AtPartial, curr_desc
      <4>2. j * k <= m * k /\ j * k \in Nat
        <5> HIDE DEF k, m
        <5> QED BY <1>4, <4>1, Product, Zenon
      <4>3. free_block <= o + SBSIZE
        <5> HIDE DEF k, m, o
        <5> QED BY <1>2, <1>4, <4>1, <4>2, Constants
      <4> QED BY <1>2, <3>1, <3>3, <4>3, Constants
    <3> QED BY <3>1, <3>2, <3>3, Zenon
  <2>2. rest' = {p \in marked_blk' : p >= (curr_sb + 1) * SBSIZE}
    BY <1>1, <1>3, <2>1, Zenon DEF AtPartial
  <2>3. curr_sb + 1 \in 1..EndSb
    BY <1>1, <1>2, Constants
  <2>4. LayoutOK(desc')
    BY <1>1, <1>2, Zenon
  <2> QED BY <1>1, <2>2, <2>3, <2>4, MoveOn, Zenon
<1>15. DoneOK'
  <2>1. Done' = Done \cup {curr_sb} /\ curr_sb \notin Done /\ Done \subseteq Sbs
    BY <1>1, <1>2, Constants DEF Done, Sbs
  <2>2. \A s : Used(s)' = Used(s) /\ IsSmall(s)' = IsSmall(s) /\ Others(s)' = Others(s)
    BY <1>1, <1>13, Zenon DEF Used, IsSmall, Others, FreeBelow
  <2>3. \A s \in Done : anchor'[s] = anchor[s]
    BY <1>2, <1>12, <2>1, Zenon DEF TypeOK
  <2>4. DoneSmall' = DoneSmall \cup {curr_sb} /\ DoneSmall \subseteq Done
    BY <1>3, <1>10, <2>1, <2>2, Zenon DEF DoneSmall, IsSmall, curr_desc
  <2>5. {s \in Done' : ~Used(s)'} = {s \in Done : ~Used(s)}
    BY <1>10, <2>1, <2>2, Zenon
  <2>6. Linked(mem, o + anchor'[curr_sb].avail * k, anchor'[curr_sb].count, Others(curr_sb))
    <3>1. CASE count = 0
      <4>1. Others(curr_sb) = {}
        BY <1>6, <1>9, <3>1, LinkedHead, Zenon
      <4>2. anchor'[curr_sb].count = 0
        BY <1>2, <1>12, <3>1 DEF TypeOK, Anchor
      <4> QED BY <4>1, <4>2, LinkedEmpty, Zenon
    <3>2. CASE count # 0
      <4>1. anchor'[curr_sb].avail = v /\ anchor'[curr_sb].count = count
        BY <1>2, <1>12, <3>2 DEF TypeOK, Anchor
      <4>2. o + anchor'[curr_sb].avail * k = free_head
        BY <1>11, <3>2, <4>1, Zenon
      <4> QED BY <1>6, <1>9, <4>1, <4>2, Zenon
    <3> QED BY <3>1, <3>2, Zenon
  <2>7. ASSUME NEW s \in DoneSmall'
        PROVE  Linked(mem', s * SBSIZE + anchor'[s].avail * desc'[s].block_size,
                      anchor'[s].count, Others(s)')
    <3>1. CASE s = curr_sb
      BY <1>1, <2>2, <2>6, <3>1, Zenon DEF curr_desc
    <3>2. CASE s \in DoneSmall
      BY <1>1, <1>2, <2>2, <2>3, <2>4, <3>2, Zenon DEF DoneOK
    <3> QED BY <2>4, <3>1, <3>2, Zenon
  <2>8. \A s \in Done' : Used(s)' /\ desc'[s].heap = LargeHeap => anchor'[s].count = 0
    <3>1. desc[curr_sb].heap # LargeHeap
      BY <1>3, Constants, Zenon DEF curr_desc, LargeHeap
    <3> QED BY <1>1, <1>2, <2>1, <2>2, <2>3, <3>1, Zenon DEF DoneOK
  <2>9. ASSUME NEW b \in kept, b.start < (curr_sb + 1) * SBSIZE
        PROVE  b.start + b.words <= (curr_sb + 1) * SBSIZE
    <3>1. b \in Blocks(desc) /\ b.start \in Nat /\ b.words \in Nat
      BY <1>2, BlockFacts, Constants, Zenon DEF KeptOK
    <3>2. CASE b.start < o
      <4>1. b.start + b.words <= o
        BY <1>2, <3>2, Zenon DEF DoneOK
      <4> QED BY <1>2, <3>1, <4>1, Constants
    <3>3. CASE o <= b.start
      <4>1. desc_lookup(b.start) = curr_sb
        BY <1>2, <2>9, <3>1, <3>3, Lookup, Zenon
      <4>2. PICK s \in Sbs, j \in Nat : BlockIn(desc, b, s, j)
        BY <1>2, <3>1, BlockShape, Zenon
      <4>3. b.start + b.words <= o + m * k
        BY <4>1, <4>2, Zenon DEF BlockIn, SbEnd, curr_desc
      <4> QED BY <1>2, <1>4, <3>1, <4>3, Constants
    <3> QED BY <1>2, <3>1, <3>2, <3>3
  <2>10. \A b \in kept' : b.start < curr_sb' * SBSIZE => b.start + b.words <= curr_sb' * SBSIZE
    BY <1>1, <2>9, Zenon
  <2>11. partial_list \in [Classes -> Seq(Sbs)] /\ <<curr_sb>> \o partial_list[c] \in Seq(Sbs)
    <3>1. partial_list \in [Classes -> Seq(Sbs)]
      BY <1>2, Zenon DEF DoneOK
    <3>2. partial_list[c] \in Seq(Sbs)
      BY <1>3, <3>1, Zenon
    <3> QED BY <1>2, <3>1, <3>2
  <2>12. partial_list' \in [Classes -> Seq(Sbs)]
    BY <1>3, <1>12, <2>11, Zenon
  <2> DEFINE P(x) == {s \in DoneSmall : desc[s].heap = x /\ Others(s) # {}}
             Q(x) == {s \in DoneSmall' : desc'[s].heap = x /\ Others(s)' # {}}
  <2>13. ASSUME NEW x \in Classes PROVE Lists(partial_list'[x], Q(x))
    <3>1. Lists(partial_list[x], P(x))
      BY <1>2, Zenon DEF DoneOK
    <3>2. CASE count = 0 \/ x # c
      <4>1. partial_list'[x] = partial_list[x]
        BY <1>3, <1>12, <2>11, <3>2, Zenon
      <4>2. Others(curr_sb) = {} \/ x # desc[curr_sb].heap
        BY <1>6, <1>9, <3>2, LinkedHead, Zenon DEF curr_desc
      <4>3. Q(x) = P(x)
        BY <1>1, <2>2, <2>4, <4>2, Zenon
      <4> QED BY <3>1, <4>1, <4>3, Zenon
    <3>3. CASE count # 0 /\ x = c
      <4>1. partial_list'[x] = <<curr_sb>> \o partial_list[x] /\ partial_list[x] \in Seq(Sbs)
        BY <1>3, <1>12, <2>11, <3>3, Zenon
      <4>2. Others(curr_sb) # {} /\ x = desc[curr_sb].heap
        BY <1>9, <1>11, <3>3, Zenon DEF curr_desc
      <4>3. Q(x) = P(x) \cup {curr_sb}
        BY <1>1, <2>2, <2>4, <4>2, Zenon
      <4>4. curr_sb \notin P(x)
        BY <2>1, <2>4, Zenon
      <4> HIDE DEF P, Q
      <4> QED BY <1>2, <3>1, <4>1, <4>3, <4>4, ListsPush
    <3> QED BY <3>2, <3>3, Zenon
  <2>14. new_avail' \in Seq(Sbs) /\ Lists(new_avail', {s \in Done' : ~Used(s)'})
    BY <1>1, <1>2, <2>5, Zenon DEF DoneOK
  <2> QED BY <2>7, <2>8, <2>10, <2>12, <2>13, <2>14, Zenon DEF DoneOK
<1>16. TypeOK'
  <2>1. curr_sb' \in 1..EndSb
    BY <1>1, <1>2, Constants
  <2>2. anchor' \in [Sbs -> [avail : 0..SBSIZE, count : 0..SBSIZE,
                             state : {"ERROR", "FULL", "PARTIAL"}]]
    <3>1. CASE count = 0
      BY <1>2, <1>4, <1>12, <3>1, Constants DEF TypeOK, Anchor
    <3>2. CASE count # 0
      <4>1. v \in 0..SBSIZE /\ count \in 0..SBSIZE
        BY <1>4, <1>6, <1>11, <3>2, Constants
      <4>2. Anchor(v, count, "PARTIAL") \in [avail : 0..SBSIZE, count : 0..SBSIZE,
                                            state : {"ERROR", "FULL", "PARTIAL"}]
        BY <4>1, Zenon DEF Anchor
      <4> QED BY <1>2, <1>12, <3>2, <4>2, Zenon DEF TypeOK
    <3> QED BY <3>1, <3>2, Zenon
  <2> QED BY <1>1, <1>2, <1>12, <2>1, <2>2, Zenon DEF TypeOK
<1>17. DescInv'
  BY <1>1, <1>2, <1>12, Zenon DEF DescInv
<1> QED BY <1>1, <1>2, <1>12, <1>13, <1>14, <1>15, <1>16, <1>17, SweepStep,
           Zenon

\* All superblocks are swept.
LEMMA FinishInv ==
  ASSUME IInv, Finish
  PROVE  IInv'
<1>1. /\ phase = "sweep" /\ curr_sb >= EndSb /\ avail_sb' = new_avail
      /\ UNCHANGED <<desc, mem, roots, partial_list, anchor, marked_blk, rest, curr_sb, new_avail,
                     state, count, free_block, free_head, kept, kept_words>>
  BY Zenon DEF Finish, marking, sweeping, curr, history
<1>2. /\ TypeOK /\ DescInv /\ LayoutOK(desc) /\ KeptOK /\ CurrOK /\ DoneOK
      /\ MarksOK /\ marked_blk \subseteq Words /\ rest \subseteq marked_blk
      /\ \A p \in rest : p >= curr_sb * SBSIZE
  <2>1. /\ TypeOK /\ DescInv /\ LayoutOK(desc) /\ KeptOK /\ CurrOK /\ DoneOK
        /\ MarksOK /\ marked_blk \subseteq Words /\ rest \subseteq marked_blk
        /\ curr_sb * SBSIZE \in Nat /\ free_block \in Nat
        /\ curr_sb * SBSIZE <= free_block /\ \A p \in rest : p >= free_block
    BY <1>1, SweepFacts, Zenon
  <2>2. \A p \in rest : p \in Nat
    BY <2>1, Constants, Zenon
  <2> QED BY <2>1, <2>2
<1>3. curr_sb = EndSb
  BY <1>1, <1>2, Constants DEF CurrOK
<1>4. rest = {}
  <2> SUFFICES ASSUME NEW p \in rest PROVE FALSE
    BY Zenon
  <2>1. p \in Words /\ p >= EndSb * SBSIZE
    BY <1>2, <1>3, Zenon
  <2> QED BY <2>1, Constants DEF Words
<1>5. phase' = "recovered" /\ pmem' = mem /\ pdesc' = desc
  BY <1>4, Zenon DEF Finish
<1>6. KeptOK'
  <2>1. \A w \in AllWords(kept) : mem'[w] = mem[w] /\ pmem'[w] = mem[w]
    BY <1>1, <1>5, Zenon
  <2>2. kept \subseteq Blocks(desc')
    BY <1>1, <1>2, Zenon DEF KeptOK
  <2>3. Dangling(desc) \subseteq Dangling(desc')
    BY <1>1, Zenon
  <2> QED BY <1>1, <1>2, <2>1, <2>2, <2>3, KeptFrame, Zenon
<1>7. CurrOK' /\ DoneOK' /\ MarksOK'
  BY <1>1, <1>2, Zenon DEF CurrOK, AtEmpty, AtFull, AtPartial, DoneOK, DoneSmall, Done, Used, IsSmall,
                    Others, FreeBelow, KeptStarts, MarksOK
<1>8. TypeOK' /\ DescInv'
  BY <1>1, <1>2, <1>5, Zenon DEF TypeOK, DescInv
<1> QED BY <1>1, <1>2, <1>3, <1>5, <1>6, <1>7, <1>8, Zenon DEF IInv

\* A step that changes nothing.
LEMMA StutterInv ==
  ASSUME IInv, UNCHANGED vars
  PROVE  IInv'
<1>1. UNCHANGED <<phase, desc, pdesc, mem, pmem, roots, avail_sb, partial_list, anchor, marked_blk,
                  to_filter, next_root, scan, scan_end, rest, curr_sb, new_avail, state, count,
                  free_block, free_head, kept, kept_words>>
  BY Zenon DEF vars, heap, lists, marking, sweeping, curr, history
<1>2. /\ TypeOK' /\ DescInv' /\ KeptStarts' = KeptStarts
      /\ (Unmarked => Unmarked') /\ (MarksOK => MarksOK')
  BY <1>1, Zenon DEF IInv, TypeOK, DescInv, KeptStarts, Unmarked, MarksOK
<1>3. (RunOK => RunOK') /\ (KeptOK => KeptOK') /\ (MarkOK => MarkOK')
  <2>1. RunOK => RunOK'
    BY <1>1 DEF RunOK, Pointed
  <2>2. KeptOK => KeptOK'
    BY <1>1, <1>2 DEF KeptOK, Reads
  <2>3. MarkOK => MarkOK'
    BY <1>1, <1>2 DEF MarkOK
  <2> QED BY <2>1, <2>2, <2>3, Zenon
<1>4. (CurrOK => CurrOK') /\ (DoneOK => DoneOK')
  BY <1>1, <1>2, Zenon
     DEF CurrOK, AtEmpty, AtFull, AtPartial, DoneOK, DoneSmall, Done, Used,
         IsSmall, Others, FreeBelow
<1> QED BY <1>1, <1>2, <1>3, <1>4, Zenon DEF IInv
=============================================================================

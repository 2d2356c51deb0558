----------------------------- MODULE ApiProofs ------------------------------
(***************************************************************************)
(* Proofs about Api and SizeClass, for any ascending table of sizes, any   *)
(* requests, threads and superblocks: the table gives every size its       *)
(* class, blocks do not overlap, keep what they hold, and none is lost.    *)
(***************************************************************************)
EXTENDS Api, TLAPS

\* The loop of the constructor: all sizes below lookupIdx are done, and none
\* of the classes before sc_idx is large enough for lookupIdx.
ScInv ==
  /\ ScTypeOK
  /\ \A s \in 0..MAX_SZ : s < lookupIdx => Fits(s, get_sizeclass(s))
  /\ \A d \in 1..(sc_idx - 1) : Table[d] < lookupIdx
  /\ sc_idx < MAX_SZ_IDX => lookupIdx <= Table[sc_idx] + 1
  /\ ScConstructed => lookupIdx = MAX_SZ + 1

\* The table has a last class, whose blocks are the largest.
LEMMA TableFacts ==
  /\ Len(Table) \in Nat \ {0} /\ MAX_SZ_IDX = Len(Table) + 1
  /\ MAX_SZ \in Nat \ {0}
  /\ \A c \in 1..Len(Table) : Table[c] \in Nat \ {0} /\ Table[c] <= MAX_SZ /\ Table[c] <= SBSIZE
  /\ \A c, d \in 1..Len(Table) : c < d => Table[c] < Table[d]
  /\ SBSIZE \in Nat \ {0}
<1>1. Len(Table) \in Nat \ {0} /\ \A c \in 1..Len(Table) : Table[c] \in Nat \ {0}
  BY SizeClassAssumption
<1>2. \A c, d \in 1..Len(Table) : c < d => Table[c] < Table[d]
  BY SizeClassAssumption, Zenon DEF Ascending
<1>3. QED
  BY <1>1, <1>2, SizeClassAssumption DEF MAX_SZ, MAX_SZ_IDX

LEMMA ScInitInv == ScInit => ScInv
<1> SUFFICES ASSUME ScInit PROVE ScInv
  BY Zenon
<1>1. ScTypeOK
  BY TableFacts DEF ScInit, ScTypeOK
<1>2. QED
  BY <1>1, TableFacts DEF ScInit, ScInv, ScConstructed

\* The constructor keeps its invariant.
LEMMA ScStepInv == ASSUME ScInv, ScConstruct PROVE ScInv'
<1> USE TableFacts DEF ScInv, ScTypeOK, ScConstructed, get_sizeclass
<1>1. CASE ScStore
  <2>1. lookupIdx \in 0..MAX_SZ /\ Fits(lookupIdx, sc_idx)
    BY <1>1 DEF ScStore, Fits
  <2>2. /\ sizeclass_lookup' = [sizeclass_lookup EXCEPT ![lookupIdx] = sc_idx]
        /\ lookupIdx' = lookupIdx + 1 /\ sc_idx' = sc_idx /\ sc_idx \in 1..Len(Table)
    BY <1>1 DEF ScStore
  <2>3. ASSUME NEW s \in 0..MAX_SZ, s < lookupIdx' PROVE Fits(s, sizeclass_lookup'[s])
    BY <2>1, <2>2, <2>3
  <2>4. ScTypeOK' /\ ~ScConstructed'
    BY <2>1, <2>2
  <2>5. ASSUME NEW d \in 1..(sc_idx' - 1) PROVE Table[d] < lookupIdx'
    <3>1. d \in 1..Len(Table) /\ Table[d] < lookupIdx
      BY <2>2
    <3>2. QED
      BY <3>1, <2>1, <2>2
  <2>6. lookupIdx' <= Table[sc_idx'] + 1
    BY <1>1, <2>1, <2>2 DEF ScStore
  <2>7. QED
    BY <2>3, <2>4, <2>5, <2>6, Zenon
<1>2. CASE ScNext
  <2>1. sc_idx \in 1..Len(Table) /\ lookupIdx = Table[sc_idx] + 1
    BY <1>2 DEF ScNext
  <2>2. sc_idx' = sc_idx + 1 /\ UNCHANGED <<sizeclass_lookup, lookupIdx>>
    BY <1>2, Zenon DEF ScNext
  <2>3. ScConstructed' => sc_idx = Len(Table)
    BY <2>1, <2>2
  <2>4. Table[Len(Table)] = MAX_SZ
    BY Zenon DEF MAX_SZ
  <2>5. ASSUME NEW d \in 1..(sc_idx' - 1) PROVE Table[d] < lookupIdx'
    <3>1. CASE d = sc_idx
      BY <2>1, <2>2, <3>1
    <3>2. CASE d # sc_idx
      <4>1. d \in 1..(sc_idx - 1)
        BY <2>1, <2>2, <3>2
      <4>2. QED
        BY <2>2, <4>1, Zenon
    <3>3. QED
      BY <3>1, <3>2, Zenon
  <2>6. ASSUME sc_idx' < MAX_SZ_IDX PROVE lookupIdx' <= Table[sc_idx'] + 1
    <3>1. sc_idx' \in 1..Len(Table) /\ sc_idx < sc_idx'
      BY <2>1, <2>2, <2>6
    <3>2. /\ Table[sc_idx] < Table[sc_idx']
          /\ Table[sc_idx] \in Nat /\ Table[sc_idx'] \in Nat
      BY <2>1, <3>1, Zenon
    <3>3. \A a, b \in Nat : a < b => a + 1 <= b + 1
      OBVIOUS
    <3>4. QED
      BY <2>1, <2>2, <3>2, <3>3, Zenon
  <2>7. ScTypeOK' /\ (ScConstructed' => lookupIdx' = MAX_SZ + 1)
    <3>1. ScTypeOK'
      BY <2>1, <2>2
    <3>2. ScConstructed' => lookupIdx' = MAX_SZ + 1
      BY <2>1, <2>2, <2>3, <2>4, Zenon
    <3>3. QED
      BY <3>1, <3>2, Zenon
  <2>8. \A s \in 0..MAX_SZ : s < lookupIdx' => Fits(s, sizeclass_lookup'[s])
    BY <2>2, Zenon
  <2>9. QED
    BY <2>5, <2>6, <2>7, <2>8, Zenon
<1>3. QED
  BY <1>1, <1>2, Zenon DEF ScConstruct

\* The size classes are constructed as if nothing else happened.
LEMMA ScStep == ASSUME ScInv, [Next]_vars PROVE ScInv'
<1>1. CASE UNCHANGED scvars
  BY <1>1, Zenon DEF ScInv, ScTypeOK, scvars, get_sizeclass, ScConstructed
<1>2. CASE Construct
  BY <1>2, ScStepInv, Zenon DEF Construct
<1>3. QED
  BY <1>1, <1>2, Zenon DEF Next, vars, Call, Step, RP_malloc, RP_free, RP_calloc, CallocSet, ReallocSame,
       RP_realloc, ReallocMove, ReallocRefuse, ReallocCopy, ReallocFree, Store

\* For every ascending table, the constructor of SizeClass leads each size to
\* the first class that is large enough.
THEOREM LookupIsRight == Spec => []LookupFits
<1>1. Init => ScInv
  BY ScInitInv, Zenon DEF Init
<1>2. ScInv /\ [Next]_vars => ScInv'
  BY ScStep, Zenon
<1>3. ScInv => LookupFits
  BY Zenon DEF ScInv, LookupFits
<1>4. QED
  BY <1>1, <1>2, <1>3, PTL DEF Spec

-----------------------------------------------------------------------------
(* What the calls do to blocks and to what they hold *)

\* The block that RP_malloc_size describes.
Own(p) == [ptr |-> p, words |-> RP_malloc_size(p)]
Busy == {t \in Threads : pc[t] # "idle"}

\* Blocks lie in the region side by side, and descriptors tell their sizes.
AllocInv ==
  /\ desc \in [0..(Sbs - 1) -> [sc_idx : 0..Len(Table), block_size : Nat]]
  /\ \A s \in 0..(Sbs - 1) :
       desc[s].sc_idx # 0 => desc[s].block_size = Table[desc[s].sc_idx]
  /\ alloc \subseteq [ptr : Nat, words : Nat \ {0}]
  /\ \A b \in alloc : b.ptr + b.words <= Sbs * SBSIZE /\ RP_malloc_size(b.ptr) = b.words
  /\ \A a, b \in alloc : a = b \/ a.ptr + a.words <= b.ptr \/ b.ptr + b.words <= a.ptr

\* The application's blocks are allocated, and large enough.
DataInv ==
  /\ mem \in [Words -> Values \cup {0, Junk}]
  /\ \A p \in DOMAIN data : Own(p) \in alloc
  /\ \A p \in DOMAIN data : \A i \in DOMAIN data[p] : i \in Nat /\ i < RP_malloc_size(p)

\* A call has a block that the application does not know; realloc also has one
\* of the application's, and once it has copied it the same is in both.
CallOK(t) ==
  LET l == loc[t] IN
  /\ Own(l.q) \in alloc /\ l.q \notin DOMAIN data /\ l.size <= RP_malloc_size(l.q)
  /\ IF pc[t] = "memset" THEN l.p = l.q
     ELSE l.p \in DOMAIN data /\ l.old = RP_malloc_size(l.p)
  /\ pc[t] = "free" => /\ l.old <= RP_malloc_size(l.q)
                       /\ \A i \in 0..(l.old - 1) : mem[l.q + i] = mem[l.p + i]

CallInv ==
  /\ pc \in [Threads -> {"idle", "memset", "memcpy", "free"}]
  /\ loc \in [Threads -> [p : Nat, q : Nat, size : Nat, old : Nat]]
  /\ \A t \in Busy : CallOK(t)
  /\ \A t, u \in Busy : t # u => loc[t].q # loc[u].q /\ loc[t].p # loc[u].p

\* What NothingLost and DataKept say of states that are intact.
Accounted == {b.ptr : b \in alloc} = DOMAIN data \cup {loc[t].q : t \in Busy}
Stored ==
  \A p \in DOMAIN data : \A i \in DOMAIN data[p] : data[p][i] # Unset => mem[p + i] = data[p][i]

IInv == ScInv /\ AllocInv /\ DataInv /\ CallInv /\ Accounted /\ Stored

-----------------------------------------------------------------------------
(* Superblocks *)

\* An address lies in its superblock.
LEMMA InItsSb ==
  ASSUME NEW p \in Nat
  PROVE  /\ SbOf(p) \in Nat /\ p \in Sb(SbOf(p))
         /\ p < Sbs * SBSIZE => SbOf(p) \in 0..(Sbs - 1)
<1> DEFINE k == p \div SBSIZE
<1>1. SBSIZE \in Nat \ {0} /\ Sbs \in Nat
  BY TableFacts, ApiAssumption, Zenon
<1>2. k \in Nat /\ k * SBSIZE <= p /\ p < k * SBSIZE + SBSIZE
  BY <1>1, SMT
<1> HIDE DEF k
<1>3. (k + 1) * SBSIZE = k * SBSIZE + SBSIZE /\ k * SBSIZE \in Nat
  BY <1>1, <1>2, SMT
<1>4. ASSUME p < Sbs * SBSIZE PROVE k < Sbs
  <2>1. k * SBSIZE < Sbs * SBSIZE
    BY <1>1, <1>2, <1>3, <1>4
  <2>2. ASSUME k >= Sbs PROVE FALSE
    BY <2>1, <2>2, <1>1, <1>2, SMT
  <2>3. QED
    BY <2>2, <1>1, <1>2
<1>5. SbOf(p) = k
  BY Zenon DEF SbOf, k
<1>6. p \in Sb(k)
  <2> DEFINE low == k * SBSIZE  high == (k + 1) * SBSIZE
  <2>1. Sb(k) = low..(high - 1) /\ high = low + SBSIZE /\ low \in Nat /\ low <= p
        /\ p < low + SBSIZE
    BY <1>2, <1>3, Zenon DEF Sb
  <2> HIDE DEF low, high
  <2>2. p \in low..(high - 1)
    BY <2>1, <1>1
  <2>3. QED
    BY <2>1, <2>2, Zenon
<1>7. k < Sbs => k \in 0..(Sbs - 1)
  BY <1>1, <1>2
<1>8. QED
  BY <1>2, <1>4, <1>5, <1>6, <1>7, Zenon

\* A large block is whole superblocks, and no less than was asked for.
LEMMA RoundsUp ==
  ASSUME NEW n \in Nat \ {0}
  PROVE  round_up(n) \in Nat /\ n <= round_up(n) /\ SBSIZE <= round_up(n)
<1> DEFINE k == (n + SBSIZE - 1) \div SBSIZE
<1>1. SBSIZE \in Nat \ {0}
  BY TableFacts, Zenon
<1>2. k \in Nat /\ k * SBSIZE <= n + SBSIZE - 1 /\ n + SBSIZE - 1 < k * SBSIZE + SBSIZE
  BY <1>1, SMT
<1> HIDE DEF k
<1>3. k * SBSIZE \in Nat
  BY <1>1, <1>2, SMT
<1>4. n <= k * SBSIZE
  BY <1>1, <1>2, <1>3
<1>5. k # 0
  BY <1>1, <1>2
<1>6. SBSIZE <= k * SBSIZE
  BY <1>1, <1>2, <1>5, SMT
<1>7. round_up(n) = k * SBSIZE
  BY Zenon DEF round_up, k
<1>8. QED
  BY <1>3, <1>4, <1>6, <1>7, Zenon

\* A malloc gets a block that is large enough, with the size of its class.
LEMMA BlockIsLarge ==
  ASSUME ScInv, ScConstructed, NEW size \in Nat
  PROVE  /\ BlockWords(size) \in Nat \ {0} /\ size <= BlockWords(size)
         /\ SizeClassOf(size) \in 0..Len(Table)
         /\ IF SizeClassOf(size) = 0 THEN SBSIZE <= BlockWords(size)
            ELSE BlockWords(size) = Table[SizeClassOf(size)]
<1>1. CASE size > MAX_SZ
  <2>1. size \in Nat \ {0} /\ SBSIZE \in Nat \ {0} /\ Len(Table) \in Nat
    BY <1>1, TableFacts
  <2>2. BlockWords(size) = round_up(size) /\ SizeClassOf(size) = 0
    BY <1>1, Zenon DEF BlockWords, SizeClassOf
  <2>3. QED
    BY <2>1, <2>2, RoundsUp
<1>2. CASE ~(size > MAX_SZ)
  <2> DEFINE c == get_sizeclass(size)
  <2>1. Fits(size, c)
    BY <1>2, TableFacts DEF ScInv
  <2>2. BlockWords(size) = Table[c] /\ SizeClassOf(size) = c
    BY <1>2, Zenon DEF BlockWords, SizeClassOf
  <2>3. c \in 1..Len(Table) /\ size <= Table[c] /\ Table[c] \in Nat \ {0}
    BY <2>1, TableFacts, Zenon DEF Fits
  <2> HIDE DEF c
  <2>4. QED
    BY <2>2, <2>3, TableFacts
<1>3. QED
  BY <1>1, <1>2, Zenon

\* What do_malloc does: the new block is disjoint from all others, and their
\* descriptors still tell their sizes.
LEMMA MallocGives ==
  ASSUME IInv, intact', NEW size \in Nat, NEW p \in Words, do_malloc(size, p)
  PROVE  /\ AllocInv'
         /\ size <= BlockWords(size) /\ BlockWords(size) \in Nat \ {0}
         /\ alloc' = alloc \cup {[ptr |-> p, words |-> BlockWords(size)]}
         /\ RP_malloc_size(p)' = BlockWords(size)
         /\ \A a \in alloc : /\ RP_malloc_size(a.ptr)' = RP_malloc_size(a.ptr)
                             /\ a.ptr # p
<1> DEFINE n == BlockWords(size)  c == SizeClassOf(size)  s == SbOf(p)
           b == [ptr |-> p, words |-> n]
<1>1. /\ n \in Nat \ {0} /\ size <= n /\ c \in 0..Len(Table)
      /\ IF c = 0 THEN SBSIZE <= n ELSE n = Table[c]
  BY BlockIsLarge, Zenon DEF IInv, do_malloc
<1>0. n < BLOCK_SIZES
  BY Zenon DEF do_malloc
<1>2. /\ desc' = [desc EXCEPT ![s] = Descriptor(c, n)]
      /\ alloc' = alloc \cup {b}
      /\ Memory(b) \subseteq Words
      /\ \A a \in alloc : Memory(a) \cap Memory(b) = {}
      /\ IF c = 0 THEN p % SBSIZE = 0
         ELSE desc[s].sc_idx = c \/ \A a \in alloc : Memory(a) \cap Sb(s) = {}
  BY Zenon DEF do_malloc
<1> HIDE DEF n, c
<1>3. p \in Nat /\ p < Sbs * SBSIZE /\ Sbs * SBSIZE \in Nat /\ SBSIZE \in Nat \ {0}
      /\ BLOCK_SIZES \in Nat \ {0}
  <2>1. Sbs \in Nat /\ SBSIZE \in Nat \ {0}
    BY TableFacts, ApiAssumption, Zenon
  <2>2. Sbs * SBSIZE \in Nat
    BY <2>1, SMT
  <2>3. QED
    BY <2>1, <2>2, ApiAssumption DEF Words
<1>4. s \in 0..(Sbs - 1) /\ p \in Sb(s)
  BY <1>3, InItsSb, Zenon
<1>5. p + n <= Sbs * SBSIZE
  <2>1. p + n - 1 \in Memory(b)
    BY <1>1, <1>3 DEF Memory
  <2>2. QED
    BY <2>1, <1>1, <1>2, <1>3 DEF Words
<1>6. Descriptor(c, n) = [sc_idx |-> c, block_size |-> n]
  <2>1. n % BLOCK_SIZES = n
    BY <1>0, <1>1, <1>3
  <2>2. QED
    BY <2>1, Zenon DEF Descriptor
<1>7. ASSUME NEW a \in alloc PROVE a.ptr + a.words <= p \/ p + n <= a.ptr
  <2>1. a.ptr \in Nat /\ a.words \in Nat \ {0}
    BY Zenon DEF IInv, AllocInv
  <2>0. /\ Memory(a) = a.ptr..(a.ptr + a.words - 1)
        /\ Memory(b) = p..(p + n - 1)
        /\ Memory(a) \cap Memory(b) = {}
    BY <1>2, Zenon DEF Memory
  <2>2. CASE a.ptr <= p /\ p < a.ptr + a.words
    <3>1. p \in a.ptr..(a.ptr + a.words - 1) /\ p \in p..(p + n - 1)
      BY <2>1, <2>2, <1>1, <1>3
    <3>2. QED
      BY <3>1, <2>0, Zenon
  <2>3. CASE p <= a.ptr /\ a.ptr < p + n
    <3>1. a.ptr \in a.ptr..(a.ptr + a.words - 1) /\ a.ptr \in p..(p + n - 1)
      BY <2>1, <2>3, <1>1, <1>3
    <3>2. QED
      BY <3>1, <2>0, Zenon
  <2>4. QED
    BY <2>1, <2>2, <2>3, <1>1, <1>3
<1>8. ASSUME NEW a \in alloc PROVE desc'[SbOf(a.ptr)].block_size = a.words
  <2>1. /\ a.ptr \in Nat /\ a.words \in Nat \ {0} /\ a.ptr < Sbs * SBSIZE
        /\ desc[SbOf(a.ptr)].block_size = a.words
        /\ desc \in [0..(Sbs - 1) -> [sc_idx : 0..Len(Table), block_size : Nat]]
    BY <1>3 DEF IInv, AllocInv, RP_malloc_size
  <2>2. SbOf(a.ptr) \in 0..(Sbs - 1) /\ a.ptr \in Sb(SbOf(a.ptr))
    BY <2>1, InItsSb, Zenon
  <2>3. CASE SbOf(a.ptr) # s
    BY <2>1, <2>2, <2>3, <1>2, Zenon
  <2>4. CASE SbOf(a.ptr) = s
    <3>1. a.ptr \in Memory(a)
      BY <2>1 DEF Memory
    <3>2. c # 0
      <4>1. SUFFICES ASSUME c = 0 PROVE FALSE
        BY Zenon
      <4>2. p % SBSIZE = 0 /\ SBSIZE <= n
        BY <4>1, <1>1, <1>2, Zenon
      <4>3. p = s * SBSIZE
        BY <4>2, <1>3, SMT DEF SbOf
      <4>4. a.ptr <= s * SBSIZE + SBSIZE - 1 /\ s * SBSIZE <= a.ptr
        <5>1. (s + 1) * SBSIZE = s * SBSIZE + SBSIZE
          BY <1>3, <1>4, SMT
        <5>2. QED
          BY <5>1, <2>2, <2>4, <1>3 DEF Sb
      <4>5. p <= a.ptr /\ a.ptr < p + n
        BY <4>2, <4>3, <4>4, <1>1, <1>3, <2>1
      <4>6. QED
        BY <4>5, <1>7, <1>1, <1>3, <2>1
    <3>3. desc[s].sc_idx = c
      BY <3>1, <3>2, <2>2, <2>4, <1>2, Zenon
    <3>4. desc[s].block_size = Table[c]
      BY <3>2, <3>3, <1>4, Zenon DEF IInv, AllocInv
    <3>5. QED
      BY <2>1, <2>4, <3>2, <3>4, <1>1, <1>2, <1>4, <1>6
  <2>5. QED
    BY <2>3, <2>4, Zenon
<1>9. desc'[s].block_size = n
  BY <1>2, <1>4, <1>6 DEF IInv, AllocInv
<1>10. AllocInv'
  <2>1. desc' \in [0..(Sbs - 1) -> [sc_idx : 0..Len(Table), block_size : Nat]]
    BY <1>1, <1>2, <1>4, <1>6 DEF IInv, AllocInv
  <2>2. ASSUME NEW r \in 0..(Sbs - 1), desc'[r].sc_idx # 0
        PROVE  desc'[r].block_size = Table[desc'[r].sc_idx]
    BY <2>2, <1>1, <1>2, <1>4, <1>6 DEF IInv, AllocInv
  <2>3. b.ptr = p /\ b.words = n /\ b \in [ptr : Nat, words : Nat \ {0}]
    BY <1>1, <1>3, Zenon
  <2>4. alloc' \subseteq [ptr : Nat, words : Nat \ {0}]
    BY <2>3, <1>2, Zenon DEF IInv, AllocInv
  <2>5. ASSUME NEW a \in alloc'
        PROVE  a.ptr + a.words <= Sbs * SBSIZE /\ desc'[SbOf(a.ptr)].block_size = a.words
    <3>1. CASE a \in alloc
      BY <3>1, <1>8, Zenon DEF IInv, AllocInv
    <3>2. CASE a = b
      BY <3>2, <2>3, <1>5, <1>9, Zenon
    <3>3. QED
      BY <3>1, <3>2, <1>2, Zenon
  <2>6. ASSUME NEW a \in alloc', NEW e \in alloc'
        PROVE  a = e \/ a.ptr + a.words <= e.ptr \/ e.ptr + e.words <= a.ptr
    BY <1>2, <1>7, <2>3, Zenon DEF IInv, AllocInv
  <2>7. QED
    BY <2>1, <2>2, <2>4, <2>5, <2>6, Zenon DEF AllocInv, RP_malloc_size
<1>11. \A a \in alloc : a.ptr # p
  <2> SUFFICES ASSUME NEW a \in alloc PROVE a.ptr # p
    BY Zenon
  <2>1. a.ptr \in Nat /\ a.words \in Nat \ {0}
    BY Zenon DEF IInv, AllocInv
  <2>2. QED
    BY <2>1, <1>1, <1>3, <1>7
<1>12. \A a \in alloc : RP_malloc_size(a.ptr)' = RP_malloc_size(a.ptr)
  BY <1>8, Zenon DEF IInv, AllocInv, RP_malloc_size
<1>13. QED
  BY <1>1, <1>2, <1>9, <1>10, <1>11, <1>12, Zenon DEF RP_malloc_size, n

-----------------------------------------------------------------------------
(* What the steps of all calls have in common *)

Ptrs == {b.ptr : b \in alloc}
Qs == {loc[t].q : t \in Busy}

LEMMA LostIs == Accounted <=> Ptrs = DOMAIN data \cup Qs
BY Zenon DEF Accounted, Ptrs, Qs, Busy

\* The words of a block are in the region, and in no other block.
LEMMA InOneBlock ==
  ASSUME AllocInv, NEW q, Own(q) \in alloc, NEW i \in Nat, i < RP_malloc_size(q)
  PROVE  /\ q \in Nat /\ RP_malloc_size(q) \in Nat \ {0}
         /\ q + i \in Words
         /\ \A p : Own(p) \in alloc /\ p # q => q + i \notin p..(p + RP_malloc_size(p) - 1)
<1>1. Own(q).ptr = q /\ Own(q).words = RP_malloc_size(q)
  BY Zenon DEF Own
<1>2. q \in Nat /\ RP_malloc_size(q) \in Nat \ {0} /\ q + RP_malloc_size(q) <= Sbs * SBSIZE
  BY <1>1, Zenon DEF AllocInv
<1>3. Sbs * SBSIZE \in Nat
  <2>1. Sbs \in Nat /\ SBSIZE \in Nat \ {0}
    BY TableFacts, ApiAssumption, Zenon
  <2>2. QED
    BY <2>1, SMT
<1>4. q + i \in Words
  BY <1>2, <1>3 DEF Words
<1>5. ASSUME NEW p, Own(p) \in alloc, p # q
      PROVE  q + i \notin p..(p + RP_malloc_size(p) - 1)
  <2>1. Own(p).ptr = p /\ Own(p).words = RP_malloc_size(p)
    BY Zenon DEF Own
  <2>2. p \in Nat /\ RP_malloc_size(p) \in Nat \ {0}
    BY <1>5, <2>1, Zenon DEF AllocInv
  <2>3. Own(p) # Own(q)
    BY <1>1, <1>5, <2>1, Zenon
  <2>4. p + RP_malloc_size(p) <= q \/ q + RP_malloc_size(q) <= p
    BY <1>1, <1>5, <2>1, <2>3, Zenon DEF AllocInv
  <2>5. QED
    BY <1>2, <2>2, <2>4
<1>6. QED
  BY <1>2, <1>4, <1>5, Zenon

\* What a malloc leaves alone.
LEMMA MallocKeeps ==
  ASSUME IInv, intact', NEW size \in Nat, NEW p \in Words, do_malloc(size, p)
  PROVE  /\ AllocInv' /\ p \in Nat
         /\ size <= RP_malloc_size(p)' /\ RP_malloc_size(p)' = BlockWords(size)
         /\ Own(p)' \in alloc' /\ Ptrs' = Ptrs \cup {p}
         /\ p \notin DOMAIN data /\ p \notin Qs
         /\ \A q : Own(q) \in alloc => /\ RP_malloc_size(q)' = RP_malloc_size(q)
                                       /\ Own(q)' \in alloc'
<1>1. /\ AllocInv' /\ size <= BlockWords(size)
      /\ alloc' = alloc \cup {[ptr |-> p, words |-> BlockWords(size)]}
      /\ RP_malloc_size(p)' = BlockWords(size)
      /\ \A a \in alloc : RP_malloc_size(a.ptr)' = RP_malloc_size(a.ptr) /\ a.ptr # p
  BY MallocGives, Zenon
<1>2. Own(p)' \in alloc'
  BY <1>1, Zenon DEF Own
<1>3. ASSUME NEW q, Own(q) \in alloc
      PROVE  RP_malloc_size(q)' = RP_malloc_size(q) /\ Own(q)' \in alloc' /\ q # p
  <2>1. Own(q).ptr = q
    BY Zenon DEF Own
  <2>2. RP_malloc_size(q)' = RP_malloc_size(q) /\ q # p
    BY <1>1, <1>3, <2>1, Zenon
  <2>3. Own(q)' = Own(q)
    BY <2>2, Zenon DEF Own
  <2>4. QED
    BY <1>1, <1>3, <2>2, <2>3, Zenon
<1>4. p \notin DOMAIN data /\ p \notin Qs
  BY <1>3, Zenon DEF IInv, DataInv, CallInv, CallOK, Qs
<1>5. Ptrs' = Ptrs \cup {p}
  <2> DEFINE b == [ptr |-> p, words |-> BlockWords(size)]
  <2>1. alloc' = alloc \cup {b} /\ b.ptr = p
    BY <1>1, Zenon
  <2> HIDE DEF b
  <2>2. QED
    BY <2>1, Zenon DEF Ptrs
<1>6. p \in Nat
  BY DEF Words
<1>7. QED
  BY <1>1, <1>2, <1>3, <1>4, <1>5, <1>6, Zenon

\* What a free does, and what it leaves alone.
LEMMA FreeKeeps ==
  ASSUME IInv, NEW p, Own(p) \in alloc, do_free(p), UNCHANGED desc
  PROVE  /\ AllocInv' /\ Ptrs' = Ptrs \ {p}
         /\ mem' \in [Words -> Values \cup {0, Junk}]
         /\ \A q : RP_malloc_size(q)' = RP_malloc_size(q)
         /\ \A q : Own(q) \in alloc /\ q # p =>
              /\ Own(q)' \in alloc'
              /\ \A i \in Nat : i < RP_malloc_size(q) => mem'[q + i] = mem[q + i]
<1>1. \A q : RP_malloc_size(q)' = RP_malloc_size(q)
  BY Zenon DEF RP_malloc_size
<1>2. \A q : Own(q)' = Own(q)
  BY <1>1, Zenon DEF Own
<1>3. Own(p).ptr = p /\ Own(p).words = RP_malloc_size(p)
  BY Zenon DEF Own
<1>4. {b \in alloc : b.ptr = p} = {Own(p)}
  <2>1. ASSUME NEW b \in alloc, b.ptr = p PROVE b = Own(p)
    BY <2>1, Zenon DEF IInv, AllocInv, Own
  <2>2. QED
    BY <1>3, <2>1, Zenon
<1>5. /\ alloc' = alloc \ {Own(p)}
      /\ mem' = [a \in Words |-> IF a \in p..(p + RP_malloc_size(p) - 1) THEN Junk ELSE mem[a]]
  <2>1. RP_malloc_size(p) \in Nat \ {0}
    BY <1>3, Zenon DEF IInv, AllocInv
  <2>2. Released(p) = RP_malloc_size(p)
    BY <2>1, Zenon DEF Released
  <2>3. {b \in {Own(p)} : b.words > RP_malloc_size(p)} = {}
    BY <2>1, <1>3
  <2>4. QED
    BY <1>4, <2>2, <2>3 DEF do_free
<1>6. AllocInv'
  BY <1>1, <1>5, Zenon DEF IInv, AllocInv
<1>7. Ptrs' = Ptrs \ {p}
  BY <1>3, <1>4, <1>5, Zenon DEF Ptrs
<1>8. mem' \in [Words -> Values \cup {0, Junk}]
  BY <1>5, Zenon DEF IInv, DataInv
<1>9. ASSUME NEW q, Own(q) \in alloc, q # p
      PROVE  /\ Own(q)' \in alloc'
             /\ \A i \in Nat : i < RP_malloc_size(q) => mem'[q + i] = mem[q + i]
  <2>1. Own(q) # Own(p)
    BY <1>3, <1>9, Zenon DEF Own
  <2>2. ASSUME NEW i \in Nat, i < RP_malloc_size(q) PROVE mem'[q + i] = mem[q + i]
    <3>1. q + i \in Words /\ q + i \notin p..(p + RP_malloc_size(p) - 1)
      BY <1>9, <2>2, InOneBlock, Zenon DEF IInv
    <3>2. QED
      BY <3>1, <1>5, Zenon
  <2>3. QED
    BY <1>2, <1>5, <1>9, <2>1, <2>2, Zenon
<1>10. QED
  BY <1>1, <1>6, <1>7, <1>8, <1>9, Zenon

-----------------------------------------------------------------------------
(* The invariant holds initially, and every action keeps it *)

LEMMA InitInv == Init => IInv
<1> SUFFICES ASSUME Init PROVE IInv
  BY Zenon
<1>1. ScInv
  BY ScInitInv, Zenon DEF Init
<1>2. Len(Table) \in Nat /\ BLOCK_SIZES \in Nat \ {0}
  BY TableFacts, ApiAssumption, Zenon
<1>3. Descriptor(0, 0) = [sc_idx |-> 0, block_size |-> 0]
  BY <1>2 DEF Descriptor
<1>4. AllocInv
  BY <1>2, <1>3 DEF Init, AllocInv
<1>5. Busy = {} /\ DOMAIN data = {} /\ alloc = {}
  BY Zenon DEF Init, Busy
<1>6. DataInv /\ Stored
  BY <1>5, Zenon DEF Init, DataInv, Stored
<1>7. CallInv
  BY <1>5, Zenon DEF Init, CallInv, Idle
<1>8. Accounted
  BY <1>5, LostIs, Zenon DEF Ptrs, Qs
<1>9. QED
  BY <1>1, <1>4, <1>6, <1>7, <1>8, Zenon DEF IInv

\* Neither the constructor of SizeClass nor a stuttering step touches a block.
LEMMA KeptByOthers ==
  ASSUME IInv, UNCHANGED <<mem, desc, alloc, pc, loc, data>>
  PROVE  AllocInv' /\ DataInv' /\ CallInv' /\ Accounted' /\ Stored'
<1>1. \A q : RP_malloc_size(q)' = RP_malloc_size(q) /\ Own(q)' = Own(q)
  BY Zenon DEF RP_malloc_size, Own
<1>2. Busy' = Busy
  BY Zenon DEF Busy
<1>3. AllocInv'
  BY <1>1, Zenon DEF IInv, AllocInv
<1>4. DataInv'
  BY <1>1, Zenon DEF IInv, DataInv
<1>5. CallInv'
  <2>1. CallInv
    BY Zenon DEF IInv
  <2>2. QED
    BY <2>1 DEF CallInv, CallOK, Busy, Own, RP_malloc_size
<1>6. Accounted' /\ Stored'
  BY <1>2, Zenon DEF IInv, Accounted, Stored
<1>7. QED
  BY <1>3, <1>4, <1>5, <1>6, Zenon

\* A call of another thread goes on as before if its blocks and what they hold
\* are left alone.
LEMMA CallStays ==
  ASSUME CallInv, NEW t \in Busy, pc'[t] = pc[t], loc'[t] = loc[t],
         (Own(loc[t].q) \in alloc)' , loc[t].q \notin DOMAIN data',
         desc'[SbOf(loc[t].q)].block_size = RP_malloc_size(loc[t].q),
         pc[t] # "memset" => /\ loc[t].p \in DOMAIN data'
                             /\ desc'[SbOf(loc[t].p)].block_size = RP_malloc_size(loc[t].p),
         pc[t] = "free" => \A i \in Nat : i < loc[t].old =>
                             /\ mem'[loc[t].q + i] = mem[loc[t].q + i]
                             /\ mem'[loc[t].p + i] = mem[loc[t].p + i]
  PROVE  CallOK(t)'
<1>1. CallOK(t) /\ loc[t].old \in Nat
  BY Zenon DEF CallInv, Busy
<1>2. ASSUME pc[t] = "free", NEW i \in 0..(loc[t].old - 1)
      PROVE  mem'[loc[t].q + i] = mem'[loc[t].p + i]
  <2>1. i \in Nat /\ i < loc[t].old
    BY <1>1, <1>2
  <2>2. mem[loc[t].q + i] = mem[loc[t].p + i]
    BY <1>1, <1>2, Zenon DEF CallOK
  <2>3. QED
    BY <1>2, <2>1, <2>2, Zenon
<1>3. QED
  BY <1>1, <1>2 DEF CallOK, RP_malloc_size

\* The calls after a step of thread t that leaves all others' alone.
LEMMA OtherCallsStay ==
  ASSUME CallInv, NEW t \in Threads, NEW where \in {"idle", "memset", "memcpy", "free"},
         NEW l \in [p : Nat, q : Nat, size : Nat, old : Nat], Goto(t, where, l),
         \A u \in Busy : u # t => (CallOK(u))',
         where # "idle" => CallOK(t)',
         where # "idle" => \A u \in Busy : u # t => loc[u].q # l.q /\ loc[u].p # l.p
  PROVE  CallInv'
<1>1. /\ pc' = [pc EXCEPT ![t] = where] /\ loc' = [loc EXCEPT ![t] = l]
      /\ pc \in [Threads -> {"idle", "memset", "memcpy", "free"}]
      /\ loc \in [Threads -> [p : Nat, q : Nat, size : Nat, old : Nat]]
  BY Zenon DEF Goto, CallInv
<1>2. /\ pc' \in [Threads -> {"idle", "memset", "memcpy", "free"}]
      /\ loc' \in [Threads -> [p : Nat, q : Nat, size : Nat, old : Nat]]
  BY <1>1, Zenon
<1>3. \A u \in Threads : u # t => pc'[u] = pc[u] /\ loc'[u] = loc[u]
  BY <1>1, Zenon
<1>4. pc'[t] = where /\ loc'[t] = l
  BY <1>1, Zenon
<1>5. \A u \in Busy' : u \in Threads /\ (u # t => u \in Busy) /\ (u = t => where # "idle")
  BY <1>3, <1>4, Zenon DEF Busy
<1>6. (\A u \in Busy : CallOK(u))'
  BY <1>5, Zenon
<1>7. (\A u, v \in Busy : u # v => loc[u].q # loc[v].q /\ loc[u].p # loc[v].p)'
  <2>1. SUFFICES ASSUME NEW u \in Busy', NEW v \in Busy', u # v
                 PROVE  loc'[u].q # loc'[v].q /\ loc'[u].p # loc'[v].p
    BY Zenon
  <2>2. CASE u = t
    BY <2>1, <2>2, <1>3, <1>4, <1>5, Zenon
  <2>3. CASE v = t
    BY <2>1, <2>3, <1>3, <1>4, <1>5, Zenon
  <2>4. CASE u # t /\ v # t
    BY <2>1, <2>4, <1>3, <1>5 DEF CallInv
  <2>5. QED
    BY <2>2, <2>3, <2>4, Zenon
<1>8. QED
  BY <1>2, <1>6, <1>7, Zenon DEF CallInv

\* The same for a step within which a call begins and ends.
LEMMA AllCallsStay ==
  ASSUME CallInv, UNCHANGED <<pc, loc>>, \A u \in Busy : (CallOK(u))'
  PROVE  CallInv' /\ Busy' = Busy /\ Qs' = Qs
<1>1. Busy' = Busy /\ Qs' = Qs
  BY Zenon DEF Busy, Qs
<1>2. QED
  BY <1>1 DEF CallInv

LEMMA KeptByMalloc ==
  ASSUME IInv, intact', NEW t \in Threads, NEW size \in Nat, RP_malloc(t, size)
  PROVE  AllocInv' /\ DataInv' /\ CallInv' /\ Accounted' /\ Stored'
<1>1. PICK p \in Words : do_malloc(size, p) /\ data' = With(p, Filled(size, Unset))
  BY Zenon DEF RP_malloc
<1>2. UNCHANGED <<mem, pc, loc>>
  BY Zenon DEF RP_malloc
<1>3. /\ AllocInv' /\ p \in Nat
      /\ size <= RP_malloc_size(p)'
      /\ Own(p)' \in alloc' /\ Ptrs' = Ptrs \cup {p}
      /\ p \notin DOMAIN data /\ p \notin Qs
      /\ \A q : Own(q) \in alloc => RP_malloc_size(q)' = RP_malloc_size(q) /\ Own(q)' \in alloc'
  BY <1>1, MallocKeeps, Zenon
<1>4. /\ DOMAIN data' = DOMAIN data \cup {p}
      /\ data'[p] = [i \in 0..(size - 1) |-> Unset]
      /\ \A q \in DOMAIN data : data'[q] = data[q]
  BY <1>1, <1>3, Zenon DEF With, Filled
<1>5. DataInv'
  <2>1. \A q \in DOMAIN data' : Own(q)' \in alloc'
    BY <1>3, <1>4, Zenon DEF IInv, DataInv
  <2>2. ASSUME NEW q \in DOMAIN data', NEW i \in DOMAIN data'[q]
        PROVE  i \in Nat /\ i < RP_malloc_size(q)'
    <3>1. CASE q = p
      <4>1. i \in 0..(size - 1) /\ size \in Nat
        BY <3>1, <2>2, <1>4, Zenon
      <4>2. RP_malloc_size(p)' \in Nat
        BY <1>3, Zenon DEF AllocInv, Own
      <4>3. QED
        BY <4>1, <4>2, <3>1, <1>3
    <3>2. CASE q \in DOMAIN data
      BY <3>2, <2>2, <1>3, <1>4 DEF IInv, DataInv
    <3>3. QED
      BY <3>1, <3>2, <1>4, Zenon
  <2>3. QED
    BY <1>2, <2>1, <2>2, Zenon DEF IInv, DataInv
<1>6. Stored'
  <2> SUFFICES ASSUME NEW q \in DOMAIN data', NEW i \in DOMAIN data'[q], data'[q][i] # Unset
               PROVE  mem'[q + i] = data'[q][i]
    BY Zenon DEF Stored
  <2>1. q # p
    BY <1>4, Zenon
  <2>2. QED
    BY <2>1, <1>2, <1>4 DEF IInv, Stored
<1>7. CallInv' /\ Qs' = Qs
  <2>1. ASSUME NEW u \in Busy PROVE CallOK(u)'
    <3>1. CallOK(u) /\ loc[u].q \in Qs
      BY Zenon DEF IInv, CallInv, Qs
    <3>2. /\ Own(loc[u].q)' \in alloc' /\ loc[u].q \notin DOMAIN data'
          /\ RP_malloc_size(loc[u].q)' = RP_malloc_size(loc[u].q)
      BY <3>1, <1>2, <1>3, <1>4, Zenon DEF CallOK
    <3>3. ASSUME pc[u] # "memset"
          PROVE  /\ loc[u].p \in DOMAIN data'
                 /\ RP_malloc_size(loc[u].p)' = RP_malloc_size(loc[u].p)
      BY <3>1, <3>3, <1>2, <1>3, <1>4, Zenon DEF CallOK, IInv, DataInv
    <3>4. QED
      BY <3>1, <3>2, <3>3, <1>2, Zenon DEF CallOK
  <2>2. QED
    BY <2>1, <1>2, AllCallsStay, Zenon DEF IInv
<1>8. Accounted'
  <2>1. Ptrs' = DOMAIN data' \cup Qs'
    BY <1>3, <1>4, <1>7, LostIs, Zenon DEF IInv
  <2>2. QED
    BY <2>1, Zenon DEF Accounted, Ptrs, Qs, Busy
<1>9. QED
  BY <1>3, <1>5, <1>6, <1>7, <1>8, Zenon

LEMMA MineIs == Mine = DOMAIN data \ {loc[u].p : u \in Busy}
BY Zenon DEF Mine, Busy

\* The first step of RP_calloc and of RP_realloc.
LEMMA KeptByBegin ==
  ASSUME IInv, intact', NEW t \in Threads, pc[t] = "idle",
         NEW n \in Nat, NEW q \in Words, do_malloc(n, q), UNCHANGED <<mem, data>>,
         NEW where \in {"memset", "memcpy"},
         NEW l \in [p : Nat, q : Nat, size : Nat, old : Nat], Goto(t, where, l),
         l.q = q, l.size = n,
         where = "memset" => l.p = q,
         where = "memcpy" => l.p \in Mine /\ l.old = RP_malloc_size(l.p)
  PROVE  AllocInv' /\ DataInv' /\ CallInv' /\ Accounted' /\ Stored'
<1>1. /\ AllocInv' /\ q \in Nat
      /\ n <= RP_malloc_size(q)' /\ RP_malloc_size(q)' = BlockWords(n)
      /\ Own(q)' \in alloc' /\ Ptrs' = Ptrs \cup {q}
      /\ q \notin DOMAIN data /\ q \notin Qs
      /\ \A r : Own(r) \in alloc => RP_malloc_size(r)' = RP_malloc_size(r) /\ Own(r)' \in alloc'
  BY MallocKeeps, Zenon
<1>2. /\ pc' = [pc EXCEPT ![t] = where] /\ loc' = [loc EXCEPT ![t] = l]
      /\ pc \in [Threads -> {"idle", "memset", "memcpy", "free"}]
      /\ loc \in [Threads -> [p : Nat, q : Nat, size : Nat, old : Nat]]
  BY Zenon DEF Goto, IInv, CallInv
<1>3. pc'[t] = where /\ loc'[t] = l /\ where # "idle" /\ t \notin Busy
  BY <1>2, Zenon DEF Busy
<1>4. \A u \in Busy : u \in Threads /\ u # t /\ pc'[u] = pc[u] /\ loc'[u] = loc[u]
  BY <1>2, <1>3, Zenon DEF Busy
<1>5. DataInv' /\ Stored'
  <2>1. \A r \in DOMAIN data : Own(r)' \in alloc' /\ RP_malloc_size(r)' = RP_malloc_size(r)
    BY <1>1, Zenon DEF IInv, DataInv
  <2>2. QED
    BY <2>1 DEF IInv, DataInv, Stored
<1>6. ASSUME NEW u \in Busy PROVE CallOK(u)'
  <2>1. CallOK(u)
    BY Zenon DEF IInv, CallInv
  <2>2. /\ RP_malloc_size(loc[u].q)' = RP_malloc_size(loc'[u].q)
        /\ desc'[SbOf(loc[u].q)].block_size = RP_malloc_size(loc[u].q)
        /\ (Own(loc[u].q) \in alloc)'
    BY <2>1, <1>1, <1>4, Zenon DEF CallOK, RP_malloc_size
  <2>3. ASSUME pc[u] # "memset"
        PROVE  loc[u].p \in DOMAIN data /\ desc'[SbOf(loc[u].p)].block_size = RP_malloc_size(loc[u].p)
    BY <2>1, <2>3, <1>1, Zenon DEF CallOK, IInv, DataInv, RP_malloc_size
  <2>4. pc'[u] = pc[u] /\ loc'[u] = loc[u] /\ CallInv /\ loc[u].q \notin DOMAIN data'
    BY <1>4, <2>1, Zenon DEF CallOK, IInv
  <2>5. QED
    BY <2>2, <2>3, <2>4, CallStays, Zenon
<1>7. CallOK(t)'
  <2>1. Own(l.q)' = Own(q)'
    BY Zenon DEF Own, RP_malloc_size
  <2>2. CASE where = "memset"
    BY <2>2, <1>1, <1>3, Zenon DEF CallOK, Own, RP_malloc_size
  <2>3. CASE where = "memcpy"
    <3>1. l.p \in DOMAIN data
      BY <2>3, MineIs, Zenon
    <3>2. desc'[SbOf(l.p)].block_size = l.old
      BY <2>3, <3>1, <1>1, Zenon DEF IInv, DataInv, RP_malloc_size
    <3>3. QED
      BY <2>3, <3>1, <3>2, <1>1, <1>3, Zenon DEF CallOK, Own, RP_malloc_size
  <2>4. QED
    BY <2>2, <2>3, Zenon
<1>8. ASSUME NEW u \in Busy PROVE loc[u].q # l.q /\ loc[u].p # l.p
  <2>1. CallOK(u) /\ loc[u].q \in Qs
    BY Zenon DEF IInv, CallInv, Qs
  <2>2. loc[u].p # q
    BY <2>1, <1>1, Zenon DEF CallOK
  <2>3. QED
    BY <2>1, <2>2, <1>1, MineIs, Zenon
<1>9. CallInv'
  BY <1>6, <1>7, <1>8, OtherCallsStay, Zenon DEF IInv
<1>10. Accounted'
  <2>1. Busy' = Busy \cup {t}
    BY <1>2, <1>3, <1>4, Zenon DEF Busy
  <2>2. Qs' = Qs \cup {q}
    BY <2>1, <1>3, <1>4 DEF Qs
  <2>3. Ptrs' = DOMAIN data' \cup Qs'
    BY <2>2, <1>1, LostIs, Zenon DEF IInv
  <2>4. QED
    BY <2>3, Zenon DEF Accounted, Ptrs, Qs, Busy
<1>11. QED
  BY <1>1, <1>5, <1>9, <1>10, Zenon

LEMMA KeptByCalloc ==
  ASSUME IInv, intact', NEW t \in Threads, NEW num \in Nat, NEW size \in Nat,
         RP_calloc(t, num, size)
  PROVE  AllocInv' /\ DataInv' /\ CallInv' /\ Accounted' /\ Stored'
<1> DEFINE n == num * size
<1>1. n \in Nat
  BY SMT
<1> HIDE DEF n
<1>2. /\ pc[t] = "idle" /\ UNCHANGED <<mem, data>>
      /\ \E q \in Words : /\ do_malloc(n, q)
                          /\ Goto(t, "memset", [p |-> q, q |-> q, size |-> n, old |-> 0])
  BY Zenon DEF RP_calloc, n
<1>3. PICK q \in Words : do_malloc(n, q)
                         /\ Goto(t, "memset", [p |-> q, q |-> q, size |-> n, old |-> 0])
  BY <1>2, Zenon
<1> DEFINE l == [p |-> q, q |-> q, size |-> n, old |-> 0]
<1>4. q \in Nat
  BY DEF Words
<1>5. l \in [p : Nat, q : Nat, size : Nat, old : Nat] /\ l.q = q /\ l.p = q /\ l.size = n
      /\ Goto(t, "memset", l)
  BY <1>1, <1>3, <1>4, Zenon
<1> HIDE DEF l
<1>6. "memset" \in {"memset", "memcpy"} /\ "memset" # "memcpy"
  BY Zenon
<1>7. QED
  BY <1>1, <1>2, <1>3, <1>5, <1>6, KeptByBegin, Zenon

LEMMA KeptByReallocMove ==
  ASSUME IInv, intact', NEW t \in Threads, NEW p \in Mine,
         NEW size \in Nat, ReallocMove(t, p, size)
  PROVE  AllocInv' /\ DataInv' /\ CallInv' /\ Accounted' /\ Stored'
<1> DEFINE old == RP_malloc_size(p)
<1>1. /\ pc[t] = "idle" /\ UNCHANGED <<mem, data>>
      /\ \E q \in Words : /\ do_malloc(size, q)
                          /\ Goto(t, "memcpy", [p |-> p, q |-> q, size |-> size, old |-> old])
  BY Zenon DEF ReallocMove
<1>2. PICK q \in Words : do_malloc(size, q)
                         /\ Goto(t, "memcpy", [p |-> p, q |-> q, size |-> size, old |-> old])
  BY <1>1, Zenon
<1> DEFINE l == [p |-> p, q |-> q, size |-> size, old |-> old]
<1>3. q \in Nat
  BY DEF Words
<1>4. p \in Nat /\ old \in Nat
  <2>1. Own(p) \in alloc
    BY MineIs, Zenon DEF IInv, DataInv
  <2>2. QED
    BY <2>1, Zenon DEF IInv, AllocInv, Own
<1>6. l \in [p : Nat, q : Nat, size : Nat, old : Nat] /\ l.q = q /\ l.p = p /\ l.size = size
      /\ l.old = RP_malloc_size(l.p) /\ Goto(t, "memcpy", l)
  BY <1>1, <1>2, <1>3, <1>4, Zenon
<1> HIDE DEF l, old
<1>7. "memcpy" \in {"memset", "memcpy"} /\ "memset" # "memcpy"
  BY Zenon
<1>8. QED
  BY <1>1, <1>2, <1>6, <1>7, KeptByBegin, Zenon

\* Memory after a step that wrote to block p alone.
LEMMA WritesOneBlock ==
  ASSUME IInv, NEW p, Own(p) \in alloc, UNCHANGED <<desc, alloc>>,
         \A a \in Words : a \notin p..(p + RP_malloc_size(p) - 1) => mem'[a] = mem[a]
  PROVE  /\ AllocInv' /\ Ptrs' = Ptrs
         /\ \A q : RP_malloc_size(q)' = RP_malloc_size(q) /\ Own(q)' = Own(q)
         /\ \A q : Own(q) \in alloc /\ q # p =>
              \A i \in Nat : i < RP_malloc_size(q) => mem'[q + i] = mem[q + i]
<1>1. \A q : RP_malloc_size(q)' = RP_malloc_size(q) /\ Own(q)' = Own(q)
  BY Zenon DEF RP_malloc_size, Own
<1>2. AllocInv' /\ Ptrs' = Ptrs
  BY <1>1, Zenon DEF IInv, AllocInv, Ptrs
<1>3. ASSUME NEW q, Own(q) \in alloc, q # p, NEW i \in Nat, i < RP_malloc_size(q)
      PROVE  mem'[q + i] = mem[q + i]
  <2>1. q + i \in Words /\ q + i \notin p..(p + RP_malloc_size(p) - 1)
    BY <1>3, InOneBlock, Zenon DEF IInv
  <2>2. QED
    BY <2>1, Zenon
<1>4. QED
  BY <1>1, <1>2, <1>3, Zenon

\* The call of a thread whose blocks are not p goes on when p is written or
\* freed.
LEMMA CallIsElsewhere ==
  ASSUME IInv, NEW p, UNCHANGED desc, NEW u \in Busy, loc[u].q # p, loc[u].p # p,
         pc'[u] = pc[u], loc'[u] = loc[u],
         loc[u].q \notin DOMAIN data', pc[u] # "memset" => loc[u].p \in DOMAIN data',
         \A q : Own(q) \in alloc /\ q # p =>
           /\ Own(q)' \in alloc'
           /\ \A i \in Nat : i < RP_malloc_size(q) => mem'[q + i] = mem[q + i]
  PROVE  CallOK(u)'
<1>1. CallOK(u) /\ CallInv /\ loc[u] \in [p : Nat, q : Nat, size : Nat, old : Nat]
  BY Zenon DEF IInv, CallInv, Busy
<1>2. Own(loc[u].q) \in alloc
  BY <1>1, Zenon DEF CallOK
<1>3. (Own(loc[u].q) \in alloc)'
  BY <1>2, Zenon
<1>4. pc[u] # "memset" => Own(loc[u].p) \in alloc
  BY <1>1, Zenon DEF CallOK, IInv, DataInv
<1>5. \A q : desc'[SbOf(q)].block_size = RP_malloc_size(q)
  BY Zenon DEF RP_malloc_size
<1>6. ASSUME pc[u] = "free", NEW i \in Nat, i < loc[u].old
      PROVE  /\ mem'[loc[u].q + i] = mem[loc[u].q + i]
             /\ mem'[loc[u].p + i] = mem[loc[u].p + i]
  <2>1. pc[u] # "memset" /\ loc[u].old = RP_malloc_size(loc[u].p)
        /\ loc[u].old <= RP_malloc_size(loc[u].q)
    BY <1>1, <1>6, Zenon DEF CallOK
  <2>2. RP_malloc_size(loc[u].q) \in Nat
    BY <1>2, Zenon DEF IInv, AllocInv, Own
  <2>3. i < RP_malloc_size(loc[u].q) /\ i < RP_malloc_size(loc[u].p)
    BY <1>1, <1>6, <2>1, <2>2
  <2>4. QED
    BY <1>2, <1>4, <2>1, <2>3, Zenon
<1>7. QED
  BY <1>1, <1>3, <1>5, <1>6, CallStays, Zenon

LEMMA KeptByFree ==
  ASSUME IInv, NEW t \in Threads, NEW p \in Mine, RP_free(t, p)
  PROVE  AllocInv' /\ DataInv' /\ CallInv' /\ Accounted' /\ Stored'
<1>1. do_free(p) /\ data' = Without(p) /\ UNCHANGED <<desc, pc, loc>>
  BY Zenon DEF RP_free
<1>2. p \in DOMAIN data /\ Own(p) \in alloc /\ \A u \in Busy : loc[u].p # p /\ loc[u].q # p
  BY MineIs DEF IInv, DataInv, CallInv, CallOK
<1>3. /\ AllocInv' /\ Ptrs' = Ptrs \ {p}
      /\ mem' \in [Words -> Values \cup {0, Junk}]
      /\ \A q : RP_malloc_size(q)' = RP_malloc_size(q)
      /\ \A q : Own(q) \in alloc /\ q # p =>
           /\ Own(q)' \in alloc'
           /\ \A i \in Nat : i < RP_malloc_size(q) => mem'[q + i] = mem[q + i]
  BY <1>1, <1>2, FreeKeeps, Zenon
<1>4. DOMAIN data' = DOMAIN data \ {p} /\ \A q \in DOMAIN data' : data'[q] = data[q]
  BY <1>1, Zenon DEF Without
<1>5. DataInv'
  BY <1>3, <1>4, Zenon DEF IInv, DataInv
<1>6. Stored'
  <2> SUFFICES ASSUME NEW q \in DOMAIN data', NEW i \in DOMAIN data'[q], data'[q][i] # Unset
               PROVE  mem'[q + i] = data'[q][i]
    BY Zenon DEF Stored
  <2>1. q \in DOMAIN data /\ q # p /\ data'[q] = data[q] /\ Own(q) \in alloc
        /\ i \in Nat /\ i < RP_malloc_size(q)
    BY <1>4, Zenon DEF IInv, DataInv
  <2>2. QED
    BY <2>1, <1>3, Zenon DEF IInv, Stored
<1>7. CallInv' /\ Qs' = Qs
  <2>1. ASSUME NEW u \in Busy PROVE CallOK(u)'
    <3>1. loc[u].q # p /\ loc[u].p # p /\ pc'[u] = pc[u] /\ loc'[u] = loc[u]
      BY <1>1, <1>2, Zenon
    <3>2. loc[u].q \notin DOMAIN data' /\ (pc[u] # "memset" => loc[u].p \in DOMAIN data')
      BY <3>1, <1>4, Zenon DEF IInv, CallInv, CallOK
    <3>3. QED
      BY <3>1, <3>2, <1>1, <1>3, CallIsElsewhere, Zenon
  <2>2. QED
    BY <2>1, <1>1, AllCallsStay, Zenon DEF IInv
<1>8. Accounted'
  <2>1. p \notin Qs
    BY <1>2, Zenon DEF Qs
  <2>2. Ptrs' = DOMAIN data' \cup Qs'
    BY <2>1, <1>3, <1>4, <1>7, LostIs, Zenon DEF IInv
  <2>3. QED
    BY <2>2, Zenon DEF Accounted, Ptrs, Qs, Busy
<1>9. QED
  BY <1>3, <1>5, <1>6, <1>7, <1>8, Zenon

LEMMA KeptByStore ==
  ASSUME IInv, NEW t \in Threads, NEW p \in Mine, NEW v \in Values, Store(t, p, v)
  PROVE  AllocInv' /\ DataInv' /\ CallInv' /\ Accounted' /\ Stored'
<1>1. PICK i \in DOMAIN data[p] : /\ mem' = [mem EXCEPT ![p + i] = v]
                                  /\ data' = [data EXCEPT ![p][i] = v]
  BY Zenon DEF Store
<1>2. UNCHANGED <<desc, alloc, pc, loc>>
  BY Zenon DEF Store
<1>3. p \in DOMAIN data /\ Own(p) \in alloc /\ (\A u \in Busy : loc[u].p # p /\ loc[u].q # p)
      /\ i \in Nat /\ i < RP_malloc_size(p)
  BY MineIs DEF IInv, DataInv, CallInv, CallOK
<1>4. p \in Nat /\ RP_malloc_size(p) \in Nat \ {0} /\ p + i \in Words
  BY <1>3, InOneBlock, Zenon DEF IInv
<1>5. mem \in [Words -> Values \cup {0, Junk}]
  BY Zenon DEF IInv, DataInv
<1>6. /\ mem' \in [Words -> Values \cup {0, Junk}] /\ mem'[p + i] = v
      /\ \A a \in Words : a # p + i => mem'[a] = mem[a]
  BY <1>1, <1>4, <1>5, Zenon
<1>7. \A a \in Words : a \notin p..(p + RP_malloc_size(p) - 1) => mem'[a] = mem[a]
  BY <1>3, <1>4, <1>6
<1>8. /\ AllocInv' /\ Ptrs' = Ptrs
      /\ \A q : RP_malloc_size(q)' = RP_malloc_size(q) /\ Own(q)' = Own(q)
      /\ \A q : Own(q) \in alloc /\ q # p =>
           \A j \in Nat : j < RP_malloc_size(q) => mem'[q + j] = mem[q + j]
  BY <1>2, <1>3, <1>7, WritesOneBlock, Zenon
<1>9. /\ DOMAIN data' = DOMAIN data /\ (\A q \in DOMAIN data : q # p => data'[q] = data[q])
      /\ DOMAIN data'[p] = DOMAIN data[p] /\ data'[p][i] = v
      /\ \A j \in DOMAIN data[p] : j # i => data'[p][j] = data[p][j]
  BY <1>1, <1>3, Zenon
<1>10. DataInv'
  <2>1. \A q \in DOMAIN data : DOMAIN data'[q] = DOMAIN data[q]
    BY <1>9, Zenon
  <2>2. QED
    BY <2>1, <1>2, <1>6, <1>8, <1>9, Zenon DEF IInv, DataInv
<1>11. Stored'
  <2> SUFFICES ASSUME NEW q \in DOMAIN data', NEW j \in DOMAIN data'[q], data'[q][j] # Unset
               PROVE  mem'[q + j] = data'[q][j]
    BY Zenon DEF Stored
  <2>1. q \in DOMAIN data /\ j \in DOMAIN data[q] /\ Own(q) \in alloc
        /\ j \in Nat /\ j < RP_malloc_size(q)
    BY <1>9, Zenon DEF IInv, DataInv
  <2>2. CASE q # p
    BY <2>1, <2>2, <1>8, <1>9 DEF IInv, Stored
  <2>3. CASE q = p /\ j = i
    BY <2>3, <1>6, <1>9, Zenon
  <2>4. CASE q = p /\ j # i
    <3>1. p + j \in Words /\ p + j # p + i
      BY <2>1, <2>4, <1>3, <1>4, InOneBlock DEF IInv
    <3>2. data'[p][j] = data[p][j] /\ mem[p + j] = data[p][j]
      BY <2>1, <2>4, <1>9, Zenon DEF IInv, Stored
    <3>3. QED
      BY <2>4, <3>1, <3>2, <1>6, Zenon
  <2>5. QED
    BY <2>2, <2>3, <2>4, Zenon
<1>12. CallInv' /\ Qs' = Qs
  <2>1. ASSUME NEW u \in Busy PROVE CallOK(u)'
    <3>1. loc[u].q # p /\ loc[u].p # p /\ pc'[u] = pc[u] /\ loc'[u] = loc[u]
      BY <1>2, <1>3, Zenon
    <3>2. loc[u].q \notin DOMAIN data' /\ (pc[u] # "memset" => loc[u].p \in DOMAIN data')
      BY <1>9, Zenon DEF IInv, CallInv, CallOK
    <3>3. QED
      BY <3>1, <3>2, <1>2, <1>8, CallIsElsewhere, Zenon
  <2>2. QED
    BY <2>1, <1>2, AllCallsStay, Zenon DEF IInv
<1>13. Accounted'
  <2>1. Ptrs' = DOMAIN data' \cup Qs'
    BY <1>8, <1>9, <1>12, LostIs, Zenon DEF IInv
  <2>2. QED
    BY <2>1, Zenon DEF Accounted, Ptrs, Qs, Busy
<1>14. QED
  BY <1>8, <1>10, <1>11, <1>12, <1>13, Zenon

LEMMA KeptByReallocSame ==
  ASSUME IInv, NEW t \in Threads, NEW p \in Mine, NEW size \in Nat, ReallocSame(t, p, size)
  PROVE  AllocInv' /\ DataInv' /\ CallInv' /\ Accounted' /\ Stored'
<1>1. /\ RP_malloc_size(p) = size /\ data' = With(p, Copied(p, size))
      /\ UNCHANGED <<mem, desc, alloc, pc, loc>>
  BY Zenon DEF ReallocSame
<1>2. p \in DOMAIN data
  BY MineIs, Zenon
<1>3. /\ DOMAIN data' = DOMAIN data /\ (\A q \in DOMAIN data : q # p => data'[q] = data[q])
      /\ DOMAIN data'[p] = 0..(size - 1)
      /\ \A i \in 0..(size - 1) : data'[p][i] # Unset => i \in DOMAIN data[p] /\ data'[p][i] = data[p][i]
  BY <1>1, <1>2, Zenon DEF With, Copied
<1>4. \A q : RP_malloc_size(q)' = RP_malloc_size(q) /\ Own(q)' = Own(q)
  BY <1>1, Zenon DEF RP_malloc_size, Own
<1>5. AllocInv'
  BY <1>1, <1>4, Zenon DEF IInv, AllocInv
<1>6. DataInv'
  <2>1. \A i \in DOMAIN data'[p] : i \in Nat /\ i < RP_malloc_size(p)
    BY <1>1, <1>3
  <2>2. QED
    BY <2>1, <1>1, <1>3, <1>4, Zenon DEF IInv, DataInv
<1>7. Stored'
  BY <1>1, <1>3 DEF IInv, Stored
<1>8. CallInv' /\ Qs' = Qs
  <2>1. ASSUME NEW u \in Busy PROVE CallOK(u)'
    <3>1. CallOK(u)
      BY Zenon DEF IInv, CallInv
    <3>2. QED
      BY <3>1, <1>1, <1>3, Zenon DEF CallOK, Own, RP_malloc_size
  <2>2. QED
    BY <2>1, <1>1, AllCallsStay, Zenon DEF IInv
<1>9. Accounted'
  <2>1. Ptrs' = DOMAIN data' \cup Qs'
    BY <1>1, <1>3, <1>8, LostIs, Zenon DEF IInv, Ptrs
  <2>2. QED
    BY <2>1, Zenon DEF Accounted, Ptrs, Qs, Busy
<1>10. QED
  BY <1>5, <1>6, <1>7, <1>8, <1>9, Zenon

\* A call's last step: thread t is idle, and its block is the application's.
LEMMA CallEnds ==
  ASSUME IInv, NEW t \in Busy, Goto(t, "idle", Idle), \A u \in Busy : u # t => (CallOK(u))'
  PROVE  CallInv' /\ Qs' = Qs \ {loc[t].q}
<1>1. t \in Threads /\ Idle \in [p : Nat, q : Nat, size : Nat, old : Nat]
  BY Zenon DEF Busy, Idle
<1>2. CallInv'
  BY <1>1, OtherCallsStay, Zenon DEF IInv
<1>3. /\ pc' = [pc EXCEPT ![t] = "idle"] /\ loc' = [loc EXCEPT ![t] = Idle]
      /\ pc \in [Threads -> {"idle", "memset", "memcpy", "free"}]
      /\ loc \in [Threads -> [p : Nat, q : Nat, size : Nat, old : Nat]]
  BY Zenon DEF Goto, IInv, CallInv
<1>4. Busy' = Busy \ {t} /\ \A u \in Busy' : loc'[u] = loc[u]
  BY <1>1, <1>3, Zenon DEF Busy
<1>5. \A u \in Busy : u # t => loc[u].q # loc[t].q
  BY Zenon DEF IInv, CallInv
<1>6. QED
  BY <1>2, <1>4, <1>5 DEF Qs

LEMMA KeptByCallocSet ==
  ASSUME IInv, NEW t \in Threads, CallocSet(t)
  PROVE  AllocInv' /\ DataInv' /\ CallInv' /\ Accounted' /\ Stored'
<1> DEFINE q == loc[t].q  size == loc[t].size
<1>1. /\ pc[t] = "memset" /\ data' = With(q, Filled(size, 0)) /\ Goto(t, "idle", Idle)
      /\ mem' = [a \in Words |-> IF a \in q..(q + RP_malloc_size(q) - 1) THEN 0 ELSE mem[a]]
      /\ UNCHANGED <<desc, alloc>>
  BY Zenon DEF CallocSet
<1>2. t \in Busy /\ CallOK(t) /\ loc[t].p = q /\ size \in Nat
  BY <1>1, Zenon DEF IInv, CallInv, CallOK, Busy
<1>3. Own(q) \in alloc /\ q \notin DOMAIN data /\ size <= RP_malloc_size(q)
  BY <1>2, Zenon DEF CallOK
<1> HIDE DEF q, size
<1>4. q \in Nat /\ RP_malloc_size(q) \in Nat \ {0}
  BY <1>3, Zenon DEF IInv, AllocInv, Own
<1>5. mem \in [Words -> Values \cup {0, Junk}]
  BY Zenon DEF IInv, DataInv
<1>6. /\ mem' \in [Words -> Values \cup {0, Junk}]
      /\ \A a \in Words : a \notin q..(q + RP_malloc_size(q) - 1) => mem'[a] = mem[a]
      /\ \A a \in Words : a \in q..(q + RP_malloc_size(q) - 1) => mem'[a] = 0
  BY <1>1, <1>5, Zenon
<1>7. /\ AllocInv' /\ Ptrs' = Ptrs
      /\ \A r : RP_malloc_size(r)' = RP_malloc_size(r) /\ Own(r)' = Own(r)
      /\ \A r : Own(r) \in alloc /\ r # q =>
           \A i \in Nat : i < RP_malloc_size(r) => mem'[r + i] = mem[r + i]
  BY <1>1, <1>3, <1>6, WritesOneBlock, Zenon
<1>8. /\ DOMAIN data' = DOMAIN data \cup {q} /\ (\A r \in DOMAIN data : data'[r] = data[r])
      /\ data'[q] = [i \in 0..(size - 1) |-> 0]
  BY <1>1, <1>3, Zenon DEF With, Filled
<1>9. \A i \in DOMAIN data'[q] : i \in Nat /\ i < RP_malloc_size(q)
  BY <1>2, <1>3, <1>4, <1>8
<1>10. DataInv'
  BY <1>1, <1>3, <1>6, <1>7, <1>8, <1>9, Zenon DEF IInv, DataInv
<1>11. Stored'
  <2> SUFFICES ASSUME NEW r \in DOMAIN data', NEW i \in DOMAIN data'[r], data'[r][i] # Unset
               PROVE  mem'[r + i] = data'[r][i]
    BY Zenon DEF Stored
  <2>1. CASE r = q
    <3>1. i \in Nat /\ i < RP_malloc_size(q)
      BY <2>1, <1>9, Zenon
    <3>2. q + i \in Words /\ q + i \in q..(q + RP_malloc_size(q) - 1)
      BY <3>1, <1>3, <1>4, InOneBlock DEF IInv
    <3>3. QED
      BY <2>1, <3>2, <1>6, <1>8, Zenon
  <2>2. CASE r \in DOMAIN data
    BY <2>2, <1>3, <1>7, <1>8 DEF IInv, Stored, DataInv
  <2>3. QED
    BY <2>1, <2>2, <1>8, Zenon
<1>12. CallInv' /\ Qs' = Qs \ {q}
  <2>1. ASSUME NEW u \in Busy, u # t PROVE CallOK(u)'
    <3>1. loc[u].q # q /\ loc[u].p # q
      BY <2>1, <1>2, Zenon DEF IInv, CallInv, q
    <3>2. pc'[u] = pc[u] /\ loc'[u] = loc[u]
      BY <2>1, <1>1, Zenon DEF Goto, IInv, CallInv, Busy
    <3>3. loc[u].q \notin DOMAIN data' /\ (pc[u] # "memset" => loc[u].p \in DOMAIN data')
      BY <3>1, <1>8, Zenon DEF IInv, CallInv, CallOK
    <3>4. QED
      BY <3>1, <3>2, <3>3, <1>1, <1>7, CallIsElsewhere, Zenon
  <2>2. QED
    BY <2>1, <1>1, <1>2, CallEnds, Zenon DEF q
<1>13. Accounted'
  <2>1. q \in Qs
    BY <1>2, Zenon DEF Qs, q
  <2>2. Ptrs' = DOMAIN data' \cup Qs'
    BY <2>1, <1>7, <1>8, <1>12, LostIs, Zenon DEF IInv
  <2>3. QED
    BY <2>2, Zenon DEF Accounted, Ptrs, Qs, Busy
<1>14. QED
  BY <1>7, <1>10, <1>11, <1>12, <1>13, Zenon

LEMMA KeptByReallocCopy ==
  ASSUME IInv, intact', NEW t \in Threads, ReallocCopy(t)
  PROVE  AllocInv' /\ DataInv' /\ CallInv' /\ Accounted' /\ Stored'
<1> DEFINE l == loc[t]  p == l.p  q == l.q  old == l.old
<1>1. /\ pc[t] = "memcpy" /\ Goto(t, "free", l) /\ UNCHANGED <<desc, alloc, data>>
      /\ old <= RP_malloc_size(q)
      /\ (q..(q + old - 1)) \cap (p..(p + old - 1)) = {} =>
           mem' = [a \in Words |-> IF a \in q..(q + old - 1) THEN mem[p + (a - q)] ELSE mem[a]]
  BY Zenon DEF ReallocCopy
<1>2. t \in Busy /\ CallOK(t) /\ l \in [p : Nat, q : Nat, size : Nat, old : Nat]
  BY <1>1, Zenon DEF IInv, CallInv, Busy
<1>3. /\ Own(q) \in alloc /\ q \notin DOMAIN data /\ l.size <= RP_malloc_size(q)
      /\ p \in DOMAIN data /\ old = RP_malloc_size(p) /\ old <= RP_malloc_size(q)
      /\ p \in Nat /\ q \in Nat /\ old \in Nat
  BY <1>1, <1>2, Zenon DEF CallOK
<1>4. Own(p) \in alloc /\ p # q
  BY <1>3, Zenon DEF IInv, DataInv
<1> HIDE DEF l, p, q, old
<1>5. RP_malloc_size(q) \in Nat \ {0}
  BY <1>3, Zenon DEF IInv, AllocInv, Own
<1>6. mem \in [Words -> Values \cup {0, Junk}]
  BY Zenon DEF IInv, DataInv
<1>0. mem' = [a \in Words |-> IF a \in q..(q + old - 1) THEN mem[p + (a - q)] ELSE mem[a]]
  <2>1. ASSUME NEW a \in p..(p + old - 1) PROVE a \notin q..(q + old - 1)
    <3>1. a - p \in Nat /\ a - p < RP_malloc_size(p) /\ p + (a - p) = a
      BY <1>3
    <3>2. a \notin q..(q + RP_malloc_size(q) - 1)
      BY <3>1, <1>3, <1>4, InOneBlock, Zenon DEF IInv
    <3>3. QED
      BY <3>2, <1>3, <1>5
  <2>2. QED
    BY <2>1, <1>1, Zenon
<1>7. ASSUME NEW i \in 0..(old - 1)
      PROVE  /\ i \in Nat /\ p + i \in Words /\ q + i \in Words /\ mem'[q + i] = mem[p + i]
             /\ mem'[p + i] = mem[p + i]
  <2>1. i \in Nat /\ i < RP_malloc_size(p) /\ i < RP_malloc_size(q)
    BY <1>3, <1>5
  <2>2. p + i \in Words /\ p + i \notin q..(q + RP_malloc_size(q) - 1) /\ q + i \in Words
    BY <2>1, <1>3, <1>4, InOneBlock, Zenon DEF IInv
  <2>3. p + i \notin q..(q + old - 1)
    BY <2>1, <2>2, <1>3, <1>5
  <2>4. q + i \in q..(q + old - 1) /\ p + ((q + i) - q) = p + i
    BY <2>1, <1>3
  <2>5. QED
    BY <2>1, <2>2, <2>3, <2>4, <1>0, Zenon
<1>8. ASSUME NEW a \in Words PROVE mem'[a] \in Values \cup {0, Junk}
  <2>1. CASE a \in q..(q + old - 1)
    <3>1. a - q \in 0..(old - 1) /\ q + (a - q) = a
      BY <2>1, <1>3
    <3>2. mem'[a] = mem[p + (a - q)] /\ p + (a - q) \in Words
      BY <3>1, <1>7, Zenon
    <3>3. QED
      BY <3>2, <1>6, Zenon
  <2>2. CASE a \notin q..(q + old - 1)
    BY <2>2, <1>0, <1>6, Zenon
  <2>3. QED
    BY <2>1, <2>2, Zenon
<1>9. mem' \in [Words -> Values \cup {0, Junk}]
  BY <1>0, <1>8, Zenon
<1>10. ASSUME NEW a \in Words, a \notin q..(q + RP_malloc_size(q) - 1) PROVE mem'[a] = mem[a]
  <2>1. a \notin q..(q + old - 1)
    BY <1>3, <1>5, <1>10
  <2>2. QED
    BY <2>1, <1>0, Zenon
<1>11. /\ AllocInv' /\ Ptrs' = Ptrs
       /\ \A r : RP_malloc_size(r)' = RP_malloc_size(r) /\ Own(r)' = Own(r)
       /\ \A r : Own(r) \in alloc /\ r # q =>
            \A i \in Nat : i < RP_malloc_size(r) => mem'[r + i] = mem[r + i]
  BY <1>1, <1>3, <1>10, WritesOneBlock, Zenon
<1>12. DataInv'
  BY <1>1, <1>9, <1>11, Zenon DEF IInv, DataInv
<1>13. Stored'
  <2> SUFFICES ASSUME NEW r \in DOMAIN data, NEW i \in DOMAIN data[r], data[r][i] # Unset
               PROVE  mem'[r + i] = data[r][i]
    BY <1>1 DEF Stored
  <2>1. r # q /\ Own(r) \in alloc /\ i \in Nat /\ i < RP_malloc_size(r)
    BY <1>3, Zenon DEF IInv, DataInv
  <2>2. QED
    BY <2>1, <1>11, Zenon DEF IInv, Stored
<1>14. ASSUME NEW u \in Busy, u # t PROVE CallOK(u)' /\ loc[u].q # l.q /\ loc[u].p # l.p
  <2>1. loc[u].q # q /\ loc[u].p # l.p /\ q = l.q /\ CallOK(u)
    BY <1>14, <1>2, Zenon DEF IInv, CallInv, q, l
  <2>2. loc[u].p # q
    BY <2>1, <1>3, Zenon DEF CallOK
  <2>3. pc'[u] = pc[u] /\ loc'[u] = loc[u]
    BY <1>14, <1>1, Zenon DEF Goto, IInv, CallInv, Busy
  <2>4. loc[u].q \notin DOMAIN data' /\ (pc[u] # "memset" => loc[u].p \in DOMAIN data')
    BY <2>1, <1>1, Zenon DEF CallOK
  <2>5. UNCHANGED desc /\ \A r : Own(r) \in alloc => Own(r)' \in alloc'
    BY <1>1, <1>11, Zenon
  <2>6. QED
    BY <2>1, <2>2, <2>3, <2>4, <2>5, <1>11, <1>14, CallIsElsewhere, Zenon
<1>15. pc'[t] = "free" /\ loc'[t] = l
  BY <1>1, Zenon DEF Goto, IInv, CallInv
<1>16. CallOK(t)'
  BY <1>1, <1>3, <1>7, <1>11, <1>15 DEF CallOK, p, q, old, Own, RP_malloc_size
<1>17. CallInv'
  BY <1>1, <1>2, <1>14, <1>16, OtherCallsStay, Zenon DEF IInv
<1>18. Busy' = Busy /\ Qs' = Qs
  <2>1. loc' = loc /\ pc' = [pc EXCEPT ![t] = "free"]
    BY <1>1, Zenon DEF Goto, l, IInv, CallInv
  <2>2. QED
    BY <2>1, <1>2, <1>15 DEF Busy, Qs, IInv, CallInv
<1>19. Accounted'
  <2>1. Ptrs' = DOMAIN data' \cup Qs'
    BY <1>1, <1>11, <1>18, LostIs, Zenon DEF IInv
  <2>2. QED
    BY <2>1, Zenon DEF Accounted, Ptrs, Qs, Busy
<1>20. QED
  BY <1>11, <1>12, <1>13, <1>17, <1>19, Zenon

LEMMA KeptByReallocFree ==
  ASSUME IInv, NEW t \in Threads, ReallocFree(t)
  PROVE  AllocInv' /\ DataInv' /\ CallInv' /\ Accounted' /\ Stored'
<1> DEFINE l == loc[t]  p == l.p  q == l.q  old == l.old  size == l.size
<1>1. /\ pc[t] = "free" /\ do_free(p) /\ Goto(t, "idle", Idle) /\ UNCHANGED desc
      /\ data' = [r \in (DOMAIN data \ {p}) \cup {q} |->
                    IF r = q THEN Copied(p, size) ELSE data[r]]
  BY Zenon DEF ReallocFree
<1>2. t \in Busy /\ CallOK(t) /\ l \in [p : Nat, q : Nat, size : Nat, old : Nat]
  BY <1>1, Zenon DEF IInv, CallInv, Busy
<1>3. /\ Own(q) \in alloc /\ q \notin DOMAIN data /\ size <= RP_malloc_size(q)
      /\ p \in DOMAIN data /\ old = RP_malloc_size(p) /\ old <= RP_malloc_size(q)
      /\ p \in Nat /\ q \in Nat /\ old \in Nat /\ size \in Nat
      /\ \A i \in 0..(old - 1) : mem[q + i] = mem[p + i]
  BY <1>1, <1>2, Zenon DEF CallOK
<1>4. Own(p) \in alloc /\ p # q
  BY <1>3, Zenon DEF IInv, DataInv
<1> HIDE DEF l, p, q, old, size
<1>5. RP_malloc_size(q) \in Nat \ {0}
  BY <1>3, Zenon DEF IInv, AllocInv, Own
<1>6. /\ AllocInv' /\ Ptrs' = Ptrs \ {p}
      /\ mem' \in [Words -> Values \cup {0, Junk}]
      /\ \A r : RP_malloc_size(r)' = RP_malloc_size(r)
      /\ \A r : Own(r) \in alloc /\ r # p =>
           /\ Own(r)' \in alloc'
           /\ \A i \in Nat : i < RP_malloc_size(r) => mem'[r + i] = mem[r + i]
  BY <1>1, <1>4, FreeKeeps, Zenon
<1>7. /\ DOMAIN data' = (DOMAIN data \ {p}) \cup {q} /\ data'[q] = Copied(p, size)
      /\ \A r \in DOMAIN data \ {p} : data'[r] = data[r]
  BY <1>1, <1>3, Zenon
<1>8. /\ DOMAIN data'[q] = 0..(size - 1)
      /\ \A i \in 0..(size - 1) : data'[q][i] # Unset => i \in DOMAIN data[p] /\ data'[q][i] = data[p][i]
  BY <1>7, Zenon DEF Copied
<1>9. DataInv'
  <2>1. \A i \in DOMAIN data'[q] : i \in Nat /\ i < RP_malloc_size(q)
    BY <1>3, <1>5, <1>8
  <2>2. QED
    BY <2>1, <1>3, <1>4, <1>6, <1>7, Zenon DEF IInv, DataInv
<1>10. Stored'
  <2> SUFFICES ASSUME NEW r \in DOMAIN data', NEW i \in DOMAIN data'[r], data'[r][i] # Unset
               PROVE  mem'[r + i] = data'[r][i]
    BY Zenon DEF Stored
  <2>1. CASE r = q
    <3>1. i \in DOMAIN data[p] /\ data'[q][i] = data[p][i] /\ data[p][i] # Unset
      BY <2>1, <1>8, Zenon
    <3>2. mem[p + i] = data[p][i] /\ i \in Nat /\ i < RP_malloc_size(p)
      BY <3>1, <1>3, Zenon DEF IInv, Stored, DataInv
    <3>3. i \in 0..(old - 1) /\ i < RP_malloc_size(q)
      BY <3>2, <1>3, <1>5
    <3>4. QED
      BY <2>1, <3>1, <3>2, <3>3, <1>3, <1>4, <1>6, Zenon
  <2>2. CASE r \in DOMAIN data \ {p}
    BY <2>2, <1>6, <1>7, Zenon DEF IInv, Stored, DataInv
  <2>3. QED
    BY <2>1, <2>2, <1>7, Zenon
<1>11. CallInv' /\ Qs' = Qs \ {q}
  <2>1. ASSUME NEW u \in Busy, u # t PROVE CallOK(u)'
    <3>1. loc[u].q # q /\ loc[u].p # p /\ CallOK(u)
      BY <2>1, <1>2, Zenon DEF IInv, CallInv, q, p, l
    <3>2. loc[u].q # p
      BY <3>1, <1>3, Zenon DEF CallOK
    <3>3. pc'[u] = pc[u] /\ loc'[u] = loc[u]
      BY <2>1, <1>1, Zenon DEF Goto, IInv, CallInv, Busy
    <3>4. loc[u].q \notin DOMAIN data' /\ (pc[u] # "memset" => loc[u].p \in DOMAIN data')
      BY <3>1, <1>7, Zenon DEF CallOK
    <3>5. QED
      BY <3>1, <3>2, <3>3, <3>4, <1>1, <1>6, CallIsElsewhere, Zenon
  <2>2. QED
    BY <2>1, <1>1, <1>2, CallEnds, Zenon DEF q, l
<1>12. Accounted'
  <2>1. q \in Qs /\ p \notin Qs
    BY <1>2, <1>3, Zenon DEF Qs, q, l, IInv, CallInv, CallOK
  <2>2. Ptrs' = DOMAIN data' \cup Qs'
    BY <2>1, <1>3, <1>4, <1>6, <1>7, <1>11, LostIs, Zenon DEF IInv
  <2>3. QED
    BY <2>2, Zenon DEF Accounted, Ptrs, Qs, Busy
<1>13. QED
  BY <1>6, <1>9, <1>10, <1>11, <1>12, Zenon

-----------------------------------------------------------------------------
(* The theorems *)

\* The promises hold on while no block is too large and no copy runs over.
LEMMA NextKeeps ==
  ASSUME IInv, intact', [Next]_vars
  PROVE  IInv'
<1>1. ScInv'
  BY ScStep, Zenon DEF IInv
<1>2. CASE Construct \/ UNCHANGED vars
  <2>1. UNCHANGED <<mem, desc, alloc, pc, loc, data>>
    BY <1>2, Zenon DEF Construct, vars
  <2>2. QED
    BY <2>1, <1>1, KeptByOthers, Zenon DEF IInv
<1>3. ASSUME NEW t \in Threads, Call(t) PROVE IInv'
  <2>1. Requests \subseteq Nat /\ Callocs \subseteq Nat \X Nat
    BY ApiAssumption, Zenon
  <2>2. ASSUME NEW size \in Requests, RP_malloc(t, size) PROVE IInv'
    BY <2>1, <2>2, <1>1, KeptByMalloc, Zenon DEF IInv
  <2>3. CASE \E a \in Callocs : RP_calloc(t, a[1], a[2])
    <3>1. PICK a \in Callocs : RP_calloc(t, a[1], a[2])
      BY <2>3, Zenon
    <3>2. a[1] \in Nat /\ a[2] \in Nat
      BY <2>1, Zenon
    <3>3. QED
      BY <3>1, <3>2, <1>1, KeptByCalloc, Zenon DEF IInv
  <2>4. CASE \E p \in Mine : RP_free(t, p)
    BY <2>4, <1>1, KeptByFree, Zenon DEF IInv
  <2>5. ASSUME NEW p \in Mine \cup {nullptr, Sbs * SBSIZE}, NEW size \in Requests,
               RP_realloc(t, p, size)
        PROVE  IInv'
    <3>1. CASE RP_malloc(t, size)
      BY <2>2, <3>1, Zenon
    <3>2. CASE ReallocRefuse(t)
      BY <1>2, <3>2, Zenon DEF ReallocRefuse
    <3>3. ASSUME in_range(p) PROVE p \in Mine
      <4>1. Sbs * SBSIZE \in Nat
        BY ApiAssumption, TableFacts
      <4>2. nullptr \notin Words /\ Sbs * SBSIZE \notin Words
        BY <4>1 DEF nullptr, Words
      <4>3. QED
        BY <4>2, <2>5, <3>3, Zenon DEF in_range
    <3>4. CASE in_range(p) /\ ReallocSame(t, p, size)
      BY <2>1, <3>3, <3>4, <1>1, KeptByReallocSame, Zenon DEF IInv
    <3>5. CASE in_range(p) /\ ReallocMove(t, p, size)
      BY <2>1, <3>3, <3>5, <1>1, KeptByReallocMove, Zenon DEF IInv
    <3>6. QED
      BY <2>5, <3>1, <3>2, <3>4, <3>5, Zenon DEF RP_realloc
  <2>6. CASE \E p \in Mine, v \in Values : Store(t, p, v)
    BY <2>6, <1>1, KeptByStore, Zenon DEF IInv
  <2>7. QED
    BY <1>3, <2>2, <2>3, <2>4, <2>5, <2>6, Zenon DEF Call
<1>4. ASSUME NEW t \in Threads, Step(t) PROVE IInv'
  BY <1>1, <1>4, KeptByCallocSet, KeptByReallocCopy, KeptByReallocFree, Zenon
     DEF Step, IInv
<1>5. QED
  BY <1>2, <1>3, <1>4, Zenon DEF Next

\* The width of Descriptor::block_size.
Narrow == \A s \in 0..(Sbs - 1) : desc[s].block_size < BLOCK_SIZES

\* Only do_malloc writes a descriptor, and it cuts the size to its width.
LEMMA NarrowKept == ASSUME IInv, Narrow, [Next]_vars PROVE Narrow'
<1>1. CASE UNCHANGED desc
  BY <1>1, Zenon DEF Narrow
<1>2. ASSUME NEW size \in Nat, NEW p \in Words, do_malloc(size, p) PROVE Narrow'
  <2>1. BlockWords(size) \in Nat
    BY <1>2, BlockIsLarge, Zenon DEF IInv, do_malloc
  <2>2. BlockWords(size) % BLOCK_SIZES < BLOCK_SIZES
    BY <2>1, ApiAssumption
  <2>3. desc' = [desc EXCEPT ![SbOf(p)] = Descriptor(SizeClassOf(size), BlockWords(size))]
    BY <1>2, Zenon DEF do_malloc
  <2>4. desc \in [0..(Sbs - 1) -> [sc_idx : 0..Len(Table), block_size : Nat]]
    BY Zenon DEF IInv, AllocInv
  <2> QED BY <2>2, <2>3, <2>4, Zenon DEF Narrow, Descriptor
<1>3. CASE Construct
  BY <1>1, <1>3, Zenon DEF Construct
<1>4. ASSUME NEW t \in Threads, Step(t) PROVE Narrow'
  BY <1>1, <1>4, Zenon DEF Step, CallocSet, ReallocCopy, ReallocFree
<1>5. ASSUME NEW t \in Threads, Call(t) PROVE Narrow'
  <2>1. Requests \subseteq Nat /\ \A a \in Callocs : a[1] * a[2] \in Nat
    BY ApiAssumption, SMT
  <2>2. ASSUME NEW size \in Requests, RP_malloc(t, size) PROVE Narrow'
    BY <1>2, <2>1, <2>2, Zenon DEF RP_malloc
  <2>3. CASE \E a \in Callocs : RP_calloc(t, a[1], a[2])
    BY <1>2, <2>1, <2>3, Zenon DEF RP_calloc
  <2>4. ASSUME NEW p, NEW size \in Requests, RP_realloc(t, p, size) PROVE Narrow'
    <3>1. CASE ReallocMove(t, p, size)
      BY <1>2, <2>1, <3>1, Zenon DEF ReallocMove
    <3>2. CASE ReallocSame(t, p, size) \/ ReallocRefuse(t)
      BY <1>1, <3>2, Zenon DEF ReallocSame, ReallocRefuse, vars
    <3> QED BY <2>2, <2>4, <3>1, <3>2, Zenon DEF RP_realloc
  <2>5. CASE \/ \E p \in Mine : RP_free(t, p)
             \/ \E p \in Mine, v \in Values : Store(t, p, v)
    BY <1>1, <2>5, Zenon DEF RP_free, Store
  <2> QED BY <1>5, <2>2, <2>3, <2>4, <2>5, Zenon DEF Call
<1> QED BY <1>1, <1>3, <1>4, <1>5, Zenon DEF Next, vars

\* What every step keeps: once a state is not intact, none after it is.
Promise == ScInv /\ intact \in BOOLEAN /\ (intact => IInv /\ Narrow)

LEMMA PromiseInit == Init => Promise
<1>1. Init => Narrow
  BY ApiAssumption DEF Init, Narrow, Descriptor
<1> QED BY <1>1, InitInv, Zenon DEF Promise, IInv, Init

LEMMA PromiseStep == Promise /\ [Next]_vars => Promise'
<1> SUFFICES ASSUME Promise, [Next]_vars PROVE Promise'
  BY Zenon
<1>1. ScInv'
  BY ScStep, Zenon DEF Promise
<1>2. intact' \in BOOLEAN /\ (intact' => intact)
  <2>1. ASSUME NEW size, NEW p, do_malloc(size, p) PROVE intact' \in BOOLEAN /\ (intact' => intact)
    BY <2>1, Zenon DEF do_malloc
  <2>2. CASE UNCHANGED intact
    BY <2>2, Zenon DEF Promise
  <2>3. ASSUME NEW t \in Threads, Step(t) PROVE intact' \in BOOLEAN /\ (intact' => intact)
    <3>1. CASE ReallocCopy(t)
      BY <3>1, Zenon DEF ReallocCopy
    <3> QED BY <2>2, <2>3, <3>1, Zenon DEF Step, CallocSet, ReallocFree
  <2>4. ASSUME NEW t \in Threads, Call(t) PROVE intact' \in BOOLEAN /\ (intact' => intact)
    <3>1. ASSUME NEW p, NEW size, RP_realloc(t, p, size)
          PROVE  intact' \in BOOLEAN /\ (intact' => intact)
      BY <2>1, <2>2, <3>1, Zenon
         DEF RP_realloc, RP_malloc, ReallocSame, ReallocMove, ReallocRefuse, vars
    <3> QED BY <2>1, <2>2, <2>4, <3>1, Zenon DEF Call, RP_malloc, RP_free, RP_calloc, Store
  <2> QED BY <2>2, <2>3, <2>4, Zenon DEF Next, vars, Construct
<1>3. ASSUME intact' PROVE IInv' /\ Narrow'
  <2>1. IInv /\ Narrow
    BY <1>2, <1>3, Zenon DEF Promise
  <2> QED BY <2>1, <1>3, NextKeeps, NarrowKept, Zenon
<1> QED BY <1>1, <1>2, <1>3, Zenon DEF Promise

\* However many threads call, blocks hold what the application stored to them
\* while sizes fit descriptors and copies blocks: no call writes to another's
\* block, realloc moves all, calloc leaves zeros.
THEOREM DataIsKept == Spec => []DataKept
<1>1. Promise => DataKept
  BY Zenon DEF Promise, IInv, Stored, DataKept
<1> QED BY <1>1, PromiseInit, PromiseStep, PTL DEF Spec

\* As long, RP_malloc_size tells the size of every block the application has.
THEOREM SizesAreTrue == Spec => []SizeIsTrue
<1>1. Promise => SizeIsTrue
  <2> SUFFICES ASSUME IInv, NEW p \in DOMAIN data
               PROVE  /\ \E b \in alloc : b.ptr = p /\ b.words = RP_malloc_size(p)
                      /\ \A i \in DOMAIN data[p] : i < RP_malloc_size(p)
    BY Zenon DEF SizeIsTrue, Promise
  <2>1. Own(p) \in alloc /\ Own(p).ptr = p /\ Own(p).words = RP_malloc_size(p)
    BY Zenon DEF IInv, DataInv, Own
  <2> QED BY <2>1, Zenon DEF IInv, DataInv
<1> QED BY <1>1, PromiseInit, PromiseStep, PTL DEF Spec

\* As long, no call leaves a block behind that nobody knows, or frees one twice.
THEOREM NothingIsLost == Spec => []NothingLost
<1>1. Promise => NothingLost
  BY Zenon DEF Promise, IInv, Accounted, NothingLost, Busy
<1> QED BY <1>1, PromiseInit, PromiseStep, PTL DEF Spec

\* As long, variables keep their types: in particular no block the allocator
\* gives out, and no word the application has, lies outside of the region.
THEOREM ApiTypeCorrect == Spec => []TypeOK
<1>1. ASSUME IInv, Narrow
      PROVE  /\ mem \in [Words -> Values \cup {0, Junk}]
             /\ \A s \in 0..(Sbs - 1) : /\ desc[s].sc_idx \in 0..Len(Table)
                                        /\ desc[s].block_size \in 0..(BLOCK_SIZES - 1)
             /\ \A b \in alloc : Memory(b) \subseteq Words
             /\ \A p \in DOMAIN data : \A i \in DOMAIN data[p] : p + i \in Words
             /\ pc \in [Threads -> {"idle", "memset", "memcpy", "free"}]
  <2>1. \A s \in 0..(Sbs - 1) : /\ desc[s].sc_idx \in 0..Len(Table)
                                /\ desc[s].block_size \in 0..(BLOCK_SIZES - 1)
    BY <1>1, ApiAssumption DEF IInv, AllocInv, Narrow
  <2>2. \A b \in alloc : Memory(b) \subseteq Words
    <3>1. Sbs * SBSIZE \in Nat
      BY ApiAssumption, SizeClassAssumption
    <3>2. \A b \in alloc : b.ptr \in Nat /\ b.words \in Nat /\ b.ptr + b.words <= Sbs * SBSIZE
      BY <1>1, Zenon DEF IInv, AllocInv
    <3> QED BY <3>1, <3>2 DEF Memory, Words
  <2>3. \A p \in DOMAIN data : \A i \in DOMAIN data[p] : p + i \in Words
    BY <1>1, InOneBlock, Zenon DEF IInv, DataInv
  <2> QED BY <1>1, <2>1, <2>2, <2>3, Zenon DEF IInv, DataInv, CallInv
<1>2. Promise => TypeOK
  BY <1>1, Zenon DEF Promise, TypeOK, ScInv
<1> QED BY <1>2, PromiseInit, PromiseStep, PTL DEF Spec
=============================================================================

-------------------------- MODULE BlockHeapProofs ---------------------------
(***************************************************************************)
(* Proofs about BlockHeap, from an inductive invariant: superblocks and    *)
(* blocks are in one place each, no free block is stranded, bins hold      *)
(* blocks of their class, and what the application holds never overlaps.   *)
(***************************************************************************)
EXTENDS BlockHeap, TLAPS

-----------------------------------------------------------------------------
(* Places *)

\* g is f, a family of sets, after R has moved from x to y.
Moved(S, X, f, g, x, y, R) ==
  /\ g \in [S -> SUBSET X]
  /\ g[x] = f[x] \ R /\ g[y] = f[y] \cup R
  /\ \A z \in S : z # x /\ z # y => g[z] = f[z]
  /\ All(g) = All(f) /\ (Disjoint(f) => Disjoint(g))

LEMMA MoveKeeps ==
  ASSUME NEW S, NEW X, NEW f \in [S -> SUBSET X],
         NEW x \in S, NEW y \in S, x # y, NEW R \in SUBSET f[x]
  PROVE  Moved(S, X, f, Move(f, x, y, R), x, y, R)
<1> DEFINE g == Move(f, x, y, R)
<1>1. DOMAIN f = S /\ DOMAIN g = S
  BY Zenon DEF Move
<1>2. g[x] = f[x] \ R /\ g[y] = f[y] \cup R /\ \A z \in S : z # x /\ z # y => g[z] = f[z]
  BY Zenon DEF Move
<1>3. \A z \in S : g[z] \in SUBSET X
  BY <1>2, Zenon
<1>4. g \in [S -> SUBSET X]
  BY <1>1, <1>3, Zenon DEF Move
<1> HIDE DEF g
<1>5. All(g) = All(f)
  <2>1. ASSUME NEW a \in All(f) PROVE a \in All(g)
    <3>1. PICK z \in S : a \in f[z]
      BY <1>1, <2>1, Zenon DEF All
    <3>2. a \in g[z] \/ a \in g[y]
      BY <1>2, <3>1, Zenon
    <3> QED BY <1>1, <3>2, Zenon DEF All
  <2>2. ASSUME NEW a \in All(g) PROVE a \in All(f)
    <3>1. PICK z \in S : a \in g[z]
      BY <1>1, <2>2, Zenon DEF All
    <3>2. a \in f[z] \/ a \in f[x]
      BY <1>2, <3>1, Zenon
    <3> QED BY <1>1, <3>2, Zenon DEF All
  <2> QED BY <2>1, <2>2, Zenon
<1>6. ASSUME Disjoint(f) PROVE Disjoint(g)
  <2> SUFFICES ASSUME NEW v \in S, NEW w \in S, v # w, NEW a, a \in g[v], a \in g[w]
               PROVE  FALSE
    BY <1>1, Zenon DEF Disjoint
  <2>1. a \in f[v] \/ (v = y /\ a \in R)
    BY <1>2, Zenon
  <2>2. a \in f[w] \/ (w = y /\ a \in R)
    BY <1>2, Zenon
  <2>3. v = x => a \notin R
    BY <1>2, Zenon
  <2>4. w = x => a \notin R
    BY <1>2, Zenon
  <2>5. R \subseteq f[x]
    BY Zenon
  <2> QED BY <1>1, <1>6, <2>1, <2>2, <2>3, <2>4, <2>5, Zenon DEF Disjoint
<1> QED BY <1>2, <1>4, <1>5, <1>6, Zenon DEF g, Moved

\* Places are different from each other.
LEMMA SbPlaces ==
  /\ Avail \in PlacesOfSbs /\ Full \in PlacesOfSbs /\ Avail # Full
  /\ \A c \in Classes : Partial(c) \in PlacesOfSbs /\ Partial(c) # Avail /\ Partial(c) # Full
  /\ \A d \in Sbs : /\ Large(d) \in PlacesOfSbs /\ Large(d) # Avail /\ Large(d) # Full
                    /\ \A c \in Classes : Large(d) # Partial(c)
  /\ \A t \in Threads : /\ Hand(t) \in PlacesOfSbs /\ Hand(t) # Avail /\ Hand(t) # Full
                        /\ \A c \in Classes : Hand(t) # Partial(c)
                        /\ \A d \in Sbs : Hand(t) # Large(d)
  /\ \A c, e \in Classes : Partial(c) = Partial(e) => c = e
  /\ \A d, e \in Sbs : Large(d) = Large(e) => d = e
  /\ \A t, u \in Threads : Hand(t) = Hand(u) => t = u
BY Zenon DEF Avail, Full, Partial, Large, Hand, PlacesOfSbs

LEMMA BlockPlaces ==
  /\ User \in PlacesOfBlocks
  /\ \A s \in Sbs : Free(s) \in PlacesOfBlocks /\ Free(s) # User
  /\ \A t \in Threads, c \in Classes :
       /\ Bin(t, c) \in PlacesOfBlocks /\ Bin(t, c) # User
       /\ \A s \in Sbs : Bin(t, c) # Free(s)
       /\ \A u \in Threads : Bin(t, c) # Run(u) /\ Bin(t, c) # Pending(u)
  /\ \A t \in Threads : /\ Run(t) \in PlacesOfBlocks /\ Run(t) # User
                        /\ Pending(t) \in PlacesOfBlocks /\ Pending(t) # User
                        /\ \A s \in Sbs : Run(t) # Free(s) /\ Pending(t) # Free(s)
                        /\ \A u \in Threads : Run(t) # Pending(u)
  /\ \A s, r \in Sbs : Free(s) = Free(r) => s = r
  /\ \A t, u \in Threads : (Run(t) = Run(u) \/ Pending(t) = Pending(u)) => t = u
  /\ \A t, u \in Threads, c, e \in Classes : Bin(t, c) = Bin(u, e) => t = u /\ c = e
BY DEF User, Free, Bin, Run, Pending, PlacesOfBlocks

-----------------------------------------------------------------------------
(* Descriptors and blocks *)

Small(d) == \E c \in Classes : d = SmallDescriptor(c)

LEMMA Sizes ==
  /\ SBSIZE \in Nat \ {0} /\ ExpandSbs \in Nat /\ ExpandSbs >= 2
  /\ RegionSbs \in Nat /\ RegionSbs >= ExpandSbs /\ LargeSbs \subseteq Nat \ {0}
  /\ \A c \in Classes : /\ c \in Nat \ {0} /\ BlockSize[c] \in Nat \ {0}
                         /\ block_num(c) \in Nat /\ block_num(c) >= 2
                         /\ block_num(c) * BlockSize[c] <= SBSIZE
<1>1. /\ SBSIZE \in Nat \ {0} /\ ExpandSbs \in Nat /\ ExpandSbs >= 2
      /\ RegionSbs \in Nat /\ RegionSbs >= ExpandSbs /\ LargeSbs \subseteq Nat \ {0}
  BY SuperblocksAssumption, Zenon
<1>2. ASSUME NEW c \in Classes
      PROVE  /\ c \in Nat \ {0} /\ BlockSize[c] \in Nat \ {0}
             /\ block_num(c) \in Nat /\ block_num(c) >= 2
             /\ block_num(c) * BlockSize[c] <= SBSIZE
  <2>1. c \in Nat \ {0} /\ BlockSize[c] \in Nat \ {0} /\ block_num(c) >= 2
    BY SuperblocksAssumption DEF Classes
  <2> DEFINE w == BlockSize[c]
  <2>2. w \in Nat \ {0} /\ SBSIZE \in Nat
    BY <1>1, <2>1, Zenon
  <2> HIDE DEF w
  <2>3. SBSIZE \div w \in Nat /\ (SBSIZE \div w) * w <= SBSIZE
    BY <2>2, SMT
  <2> QED BY <2>1, <2>3, Zenon DEF w, block_num
<1> QED BY <1>1, <1>2, Zenon

LEMMA Kinds ==
  /\ Descriptor \in Descriptors
  /\ \A c \in Classes : /\ SmallDescriptor(c) \in Descriptors /\ SmallDescriptor(c) # Descriptor
                         /\ SmallDescriptor(c).heap = c
  /\ \A n \in LargeSbs : /\ LargeDescriptor(n) \in Descriptors /\ LargeDescriptor(n) # Descriptor
                          /\ LargeDescriptor(n).heap = LargeHeap /\ ~Small(LargeDescriptor(n))
  /\ ~Small(Descriptor)
  /\ \A d \in Descriptors :
       /\ d.heap = LargeHeap => \E n \in LargeSbs : d = LargeDescriptor(n)
       /\ \A c \in Classes : d.heap = c => d = SmallDescriptor(c)
<1>1. /\ Descriptor.heap = -1
      /\ \A c \in Classes : SmallDescriptor(c).heap = c
      /\ \A n \in LargeSbs : LargeDescriptor(n).heap = 0
  BY Zenon DEF Descriptor, SmallDescriptor, LargeDescriptor, NoHeap, LargeHeap
<1>2. \A c \in Classes : c \in Nat \ {0}
  BY Sizes, Zenon
<1>3. /\ \A c \in Classes : SmallDescriptor(c) # Descriptor
      /\ \A n \in LargeSbs : LargeDescriptor(n) # Descriptor
      /\ \A c \in Classes, n \in LargeSbs : SmallDescriptor(c) # LargeDescriptor(n)
  BY <1>1, <1>2
<1>4. \A d \in Descriptors :
       /\ d.heap = 0 => \E n \in LargeSbs : d = LargeDescriptor(n)
       /\ \A c \in Classes : d.heap = c => d = SmallDescriptor(c)
  BY <1>1, <1>2 DEF Descriptors
<1> QED BY <1>1, <1>3, <1>4, Zenon DEF Descriptors, Small, LargeHeap

\* Block i of superblock s, if n blocks of w words fit into a superblock.
LEMMA BlockAddress ==
  ASSUME NEW s \in Nat, NEW w \in Nat, NEW n \in Nat, n * w <= SBSIZE, NEW i \in 0..(n - 1), w # 0
  PROVE  /\ s * SBSIZE \in Nat /\ i * w \in Nat /\ i * w + w <= SBSIZE
         /\ (s * SBSIZE + i * w) \div SBSIZE = s
<1> DEFINE S == SBSIZE
<1>1. S \in Nat \ {0} /\ i \in Nat /\ i + 1 <= n
  BY Sizes
<1>2. n * w <= S
  BY Zenon
<1> HIDE DEF S
<1>3. s * S \in Nat /\ i * w \in Nat
  BY <1>1, SMT
<1>4. (i + 1) * w <= n * w /\ (i + 1) * w = i * w + w
  BY <1>1, SMT
<1>5. n * w \in Nat
  BY SMT
<1>6. i * w + w <= S
  BY <1>1, <1>2, <1>3, <1>4, <1>5
<1> DEFINE r == i * w
<1>7. r \in Nat /\ r < S
  BY <1>1, <1>3, <1>6
<1> HIDE DEF r
<1>8. (s * S + r) \div S = s
  BY <1>1, <1>7, SMT
<1> QED BY <1>3, <1>6, <1>8, Zenon DEF r, S

LEMMA InBlocksOf ==
  ASSUME NEW d \in Descriptors, NEW s \in Sbs
  PROVE  /\ \A p \in BlocksOf(d, s) : p \in Nat /\ desc_lookup(p) = s
         /\ d = Descriptor => BlocksOf(d, s) = {}
         /\ d # Descriptor => sb_lookup(s) \in BlocksOf(d, s)
         /\ ~Small(d) => BlocksOf(d, s) \subseteq {sb_lookup(s)}
<1>1. s \in Nat /\ SBSIZE \in Nat \ {0}
  BY Sizes DEF Sbs
<1>2. CASE d = Descriptor
  BY <1>2 DEF BlocksOf, Descriptor
<1>3. ASSUME NEW c \in Classes, d = SmallDescriptor(c)
      PROVE  /\ \A p \in BlocksOf(d, s) : p \in Nat /\ desc_lookup(p) = s
             /\ sb_lookup(s) \in BlocksOf(d, s)
  <2>1. d.block_size = BlockSize[c] /\ d.maxcount = block_num(c)
    BY <1>3, Zenon DEF SmallDescriptor
  <2> DEFINE w == d.block_size  n == d.maxcount
  <2>2. w \in Nat \ {0} /\ n \in Nat /\ n >= 2 /\ n * w <= SBSIZE
    BY <2>1, Sizes, Zenon
  <2> HIDE DEF w, n
  <2>3. \A i \in 0..(n - 1) : /\ s * SBSIZE \in Nat /\ i * w \in Nat
                              /\ (s * SBSIZE + i * w) \div SBSIZE = s
    BY <2>2, <1>1, BlockAddress, Zenon
  <2>4. \A i \in 0..(n - 1) : s * SBSIZE + i * w \in Nat
    BY <2>3
  <2>5. 0 \in 0..(n - 1) /\ s * SBSIZE + 0 * w = s * SBSIZE
    BY <2>2, <2>3
  <2> QED BY <2>3, <2>4, <2>5, Zenon DEF BlocksOf, sb_lookup, desc_lookup, w, n
<1>4. ASSUME NEW n \in LargeSbs, d = LargeDescriptor(n)
      PROVE  /\ BlocksOf(d, s) = {sb_lookup(s)}
             /\ sb_lookup(s) \in Nat /\ desc_lookup(sb_lookup(s)) = s
  <2>1. d.block_size = n * SBSIZE /\ d.maxcount = 1
    BY <1>4, Zenon DEF LargeDescriptor
  <2>2. s * SBSIZE \in Nat /\ (s * SBSIZE) \div SBSIZE = s
    BY <1>1, SMT
  <2>3. n * SBSIZE \in Nat
    BY <1>1, Sizes, SMT
  <2> DEFINE w == n * SBSIZE  b == s * SBSIZE
  <2>4. b \in Nat /\ w \in Nat
    BY <2>2, <2>3, Zenon
  <2>5. BlocksOf(d, s) = {b + i * w : i \in 0..(1 - 1)}
    BY <2>1, Zenon DEF BlocksOf, sb_lookup
  <2> HIDE DEF w, b
  <2>6. {b + i * w : i \in 0..(1 - 1)} = {b}
    BY <2>4
  <2> QED BY <2>2, <2>5, <2>6, Zenon DEF b, sb_lookup, desc_lookup
<1>5. d = Descriptor \/ Small(d) \/ \E n \in LargeSbs : d = LargeDescriptor(n)
  BY Zenon DEF Descriptors, Small
<1>6. ~Small(Descriptor) /\ \A n \in LargeSbs : ~Small(LargeDescriptor(n)) /\ LargeDescriptor(n) # Descriptor
  BY Kinds, Zenon
<1> QED BY <1>2, <1>3, <1>4, <1>5, <1>6, Kinds DEF Small

\* A block tells its superblock.
LEMMA InAllBlocks ==
  ASSUME desc \in [Sbs -> Descriptors]
  PROVE  /\ \A p \in AllBlocks : /\ p \in Nat /\ desc_lookup(p) \in Sbs
                                 /\ p \in BlocksOf(desc[desc_lookup(p)], desc_lookup(p))
                                 /\ desc[desc_lookup(p)] # Descriptor
         /\ \A s \in Sbs : BlocksOf(desc[s], s) \subseteq AllBlocks
BY InBlocksOf DEF AllBlocks

-----------------------------------------------------------------------------
(* The inductive invariant *)

\* The large block that begins at superblock d.
LargeAt(d) ==
  \E n \in LargeSbs : /\ sbs[Large(d)] = Range(d, n) /\ desc[d] = LargeDescriptor(n)
                      /\ \A s \in Range(d, n) : s # d => desc[s] = Descriptor

\* What the descriptor of a superblock says, by the place it is in.
DescInv ==
  /\ \A s \in sbs[Avail] : desc[s] = Descriptor
  /\ \A s \in sbs[Full] : Small(desc[s])
  /\ \A c \in Classes : \A s \in sbs[Partial(c)] : desc[s] = SmallDescriptor(c)
  /\ \A t \in Threads : \A s \in sbs[Hand(t)] :
       desc[s] = Descriptor \/ (Small(desc[s]) /\ sbs[Hand(t)] = {s})
  /\ \A d \in Sbs : sbs[Large(d)] = {} \/ LargeAt(d)
  /\ \A s \in Sbs : s \notin 1..(curr - 1) => desc[s] = Descriptor

\* What blocks are where.
PlaceInv ==
  /\ \A s \in Sbs : \A p \in at[Free(s)] : desc_lookup(p) = s
  /\ \A s \in sbs[Full] : at[Free(s)] = {}
  /\ \A x \in PlacesOfBlocks : x # User => \A p \in at[x] : Small(desc[desc_lookup(p)])
  /\ \A t \in Threads, c \in Classes : \A p \in at[Bin(t, c)] :
       desc[desc_lookup(p)] = SmallDescriptor(c)

SbInv == Disjoint(sbs) /\ All(sbs) = 1..(curr - 1)
BlockInv == Disjoint(at) /\ All(at) = AllBlocks

Inv == SbInv /\ BlockInv /\ DescInv /\ PlaceInv
IInv == TypeOK /\ (up => Inv)

LEMMA SbMove ==
  ASSUME TypeOK, NEW x \in PlacesOfSbs, NEW y \in PlacesOfSbs, x # y, NEW R \in SUBSET sbs[x]
  PROVE  Moved(PlacesOfSbs, Sbs, sbs, Move(sbs, x, y, R), x, y, R)
<1>1. sbs \in [PlacesOfSbs -> SUBSET Sbs]
  BY Zenon DEF TypeOK
<1> QED BY <1>1, MoveKeeps, Zenon

LEMMA BlockMove ==
  ASSUME TypeOK, NEW x \in PlacesOfBlocks, NEW y \in PlacesOfBlocks, x # y, NEW R \in SUBSET at[x]
  PROVE  Moved(PlacesOfBlocks, Nat, at, Move(at, x, y, R), x, y, R)
<1>1. at \in [PlacesOfBlocks -> SUBSET Nat]
  BY Zenon DEF TypeOK
<1> QED BY <1>1, MoveKeeps, Zenon

\* A block in a place lies in a superblock in use.
LEMMA InPlace ==
  ASSUME TypeOK, BlockInv, NEW x \in PlacesOfBlocks, NEW p \in at[x]
  PROVE  /\ p \in Nat /\ desc_lookup(p) \in Sbs
         /\ p \in BlocksOf(desc[desc_lookup(p)], desc_lookup(p))
         /\ desc[desc_lookup(p)] \in Descriptors /\ desc[desc_lookup(p)] # Descriptor
<1>1. p \in AllBlocks
  BY Zenon DEF TypeOK, BlockInv, All
<1> QED BY <1>1, InAllBlocks, Zenon DEF TypeOK

\* A block that moves to a place other than a free list.
LEMMA PlaceMove ==
  ASSUME TypeOK, BlockInv, PlaceInv, UNCHANGED desc, sbs'[Full] \subseteq sbs[Full],
         NEW x \in PlacesOfBlocks, NEW y \in PlacesOfBlocks, x # y,
         NEW R \in SUBSET at[x], at' = Move(at, x, y, R),
         \A s \in Sbs : y # Free(s),
         y # User => \A p \in R : Small(desc[desc_lookup(p)]),
         \A t \in Threads, c \in Classes : y = Bin(t, c) =>
            \A p \in R : desc[desc_lookup(p)] = SmallDescriptor(c),
         sbs'[Full] \subseteq Sbs
  PROVE  PlaceInv'
<1>1. Moved(PlacesOfBlocks, Nat, at, at', x, y, R)
  BY BlockMove, Zenon
<1>2. \A z \in PlacesOfBlocks : \A p \in at'[z] : p \in at[z] \/ (z = y /\ p \in R)
  BY <1>1, Zenon DEF Moved
<1>3. \A s \in Sbs : at'[Free(s)] \subseteq at[Free(s)]
  BY <1>2, BlockPlaces, Zenon
<1>4. \A s \in Sbs : \A p \in at'[Free(s)] : desc_lookup(p) = s
  BY <1>3, Zenon DEF PlaceInv
<1>5. \A s \in sbs'[Full] : at'[Free(s)] = {}
  BY <1>3, Zenon DEF PlaceInv
<1>6. \A z \in PlacesOfBlocks : z # User => \A p \in at'[z] : Small(desc'[desc_lookup(p)])
  BY <1>2, Zenon DEF PlaceInv
<1>7. \A t \in Threads, c \in Classes : \A p \in at'[Bin(t, c)] :
        desc'[desc_lookup(p)] = SmallDescriptor(c)
  BY <1>2, BlockPlaces DEF PlaceInv
<1> QED BY <1>4, <1>5, <1>6, <1>7, Zenon DEF PlaceInv

LEMMA InitInv == Init => IInv
<1> SUFFICES ASSUME Init PROVE TypeOK /\ Inv
  BY Zenon DEF IInv
<1>1. Avail \in PlacesOfSbs /\ Full # Avail
  BY SbPlaces, Zenon
<1>2. 1..(ExpandSbs - 1) \subseteq Sbs /\ ExpandSbs \in ExpandSbs..RegionSbs
  BY Sizes DEF Sbs
<1>3. TypeOK
  BY <1>1, <1>2, Kinds, Zenon DEF Init, TypeOK
<1>4. SbInv
  BY <1>1, Zenon DEF Init, SbInv, Disjoint, All
<1>5. AllBlocks = {}
  BY InBlocksOf, Kinds DEF Init, AllBlocks
<1>6. BlockInv
  BY <1>5, Zenon DEF Init, BlockInv, Disjoint, All
<1>7. DescInv
  BY <1>2, SbPlaces, Zenon DEF Init, DescInv
<1>8. PlaceInv
  BY BlockPlaces, SbPlaces, Zenon DEF Init, PlaceInv
<1> QED BY <1>3, <1>4, <1>6, <1>7, <1>8, Zenon DEF Inv

-----------------------------------------------------------------------------
(* Steps that move superblocks only *)

\* A large block that a step does not touch.
LEMMA LargeKept ==
  ASSUME NEW d \in Sbs, LargeAt(d), sbs'[Large(d)] = sbs[Large(d)],
         \A s \in sbs[Large(d)] : desc'[s] = desc[s]
  PROVE  LargeAt(d)'
<1>1. PICK n \in LargeSbs : /\ sbs[Large(d)] = Range(d, n) /\ desc[d] = LargeDescriptor(n)
                            /\ \A s \in Range(d, n) : s # d => desc[s] = Descriptor
  BY Zenon DEF LargeAt
<1>2. d \in Range(d, n)
  BY Sizes DEF Range, Sbs
<1> QED BY <1>1, <1>2, Zenon DEF LargeAt

LEMMA OnlySbs ==
  ASSUME TypeOK, Inv, up, UNCHANGED <<up, curr, desc, at>>,
         NEW x \in PlacesOfSbs, NEW y \in PlacesOfSbs, x # y, x # Full, y # Full,
         NEW R \in SUBSET sbs[x], sbs' = Move(sbs, x, y, R), DescInv'
  PROVE  IInv'
<1>1. Moved(PlacesOfSbs, Sbs, sbs, sbs', x, y, R)
  BY SbMove, Zenon
<1>2. TypeOK'
  BY <1>1, Zenon DEF TypeOK, Moved
<1>3. SbInv'
  BY <1>1, Zenon DEF Inv, SbInv, Moved
<1>4. BlockInv'
  BY Zenon DEF Inv, BlockInv, AllBlocks
<1>5. PlaceInv'
  BY <1>1, SbPlaces DEF Inv, PlaceInv, Moved
<1> QED BY <1>2, <1>3, <1>4, <1>5, Zenon DEF IInv, Inv

LEMMA TakePartialInv ==
  ASSUME TypeOK, Inv, up, NEW t \in Threads, NEW c \in Classes, NEW d \in Sbs, TakePartial(t, c, d)
  PROVE  IInv'
<1>1. /\ Partial(c) \in PlacesOfSbs /\ Hand(t) \in PlacesOfSbs /\ Partial(c) # Hand(t)
      /\ Partial(c) # Full /\ Hand(t) # Full
      /\ {d} \in SUBSET sbs[Partial(c)] /\ sbs' = Move(sbs, Partial(c), Hand(t), {d})
      /\ UNCHANGED <<up, curr, desc, at>> /\ sbs[Hand(t)] = {}
  BY SbPlaces, Zenon DEF TakePartial
<1>2. Moved(PlacesOfSbs, Sbs, sbs, sbs', Partial(c), Hand(t), {d})
  BY <1>1, SbMove, Zenon
<1>3. /\ sbs'[Avail] = sbs[Avail] /\ sbs'[Full] = sbs[Full]
      /\ \A e \in Sbs : sbs'[Large(e)] = sbs[Large(e)]
      /\ \A e \in Classes : sbs'[Partial(e)] \subseteq sbs[Partial(e)]
      /\ \A u \in Threads : sbs'[Hand(u)] = IF u = t THEN {d} ELSE sbs[Hand(u)]
  BY <1>1, <1>2, SbPlaces, Zenon DEF Moved
<1>4. Small(desc[d])
  BY <1>1 DEF Inv, DescInv, Small
<1>5. \A e \in Sbs : sbs'[Large(e)] = {} \/ LargeAt(e)'
  BY <1>1, <1>3, LargeKept, Zenon DEF Inv, DescInv
<1>6. \A u \in Threads : \A s \in sbs'[Hand(u)] :
        desc[s] = Descriptor \/ (Small(desc[s]) /\ sbs'[Hand(u)] = {s})
  BY <1>3, <1>4, Zenon DEF Inv, DescInv
<1>7. DescInv'
  BY <1>1, <1>3, <1>4, <1>5, <1>6, Zenon DEF Inv, DescInv
<1> QED BY <1>1, <1>7, OnlySbs, Zenon

LEMMA PushPartialInv ==
  ASSUME TypeOK, Inv, up, NEW t \in Threads, NEW c \in Classes, NEW d \in Sbs, PushPartial(t, c, d)
  PROVE  IInv'
<1>1. /\ Partial(c) \in PlacesOfSbs /\ Hand(t) \in PlacesOfSbs /\ Partial(c) # Hand(t)
      /\ Partial(c) # Full /\ Hand(t) # Full
      /\ {d} \in SUBSET sbs[Hand(t)] /\ sbs' = Move(sbs, Hand(t), Partial(c), {d})
      /\ UNCHANGED <<up, curr, desc, at>> /\ sbs[Hand(t)] = {d}
  BY SbPlaces, Zenon DEF PushPartial
<1>2. Moved(PlacesOfSbs, Sbs, sbs, sbs', Hand(t), Partial(c), {d})
  BY <1>1, SbMove, Zenon
<1>3. /\ sbs'[Avail] = sbs[Avail] /\ sbs'[Full] = sbs[Full]
      /\ \A e \in Sbs : sbs'[Large(e)] = sbs[Large(e)]
      /\ \A e \in Classes : \A s \in sbs'[Partial(e)] : s \in sbs[Partial(e)] \/ (e = c /\ s = d)
      /\ \A u \in Threads : sbs'[Hand(u)] = IF u = t THEN {} ELSE sbs[Hand(u)]
  BY <1>1, <1>2, SbPlaces, Zenon DEF Moved
<1>4. desc[d] = SmallDescriptor(c)
  BY Kinds, Zenon DEF PushPartial, TypeOK
<1>5. \A e \in Sbs : sbs'[Large(e)] = {} \/ LargeAt(e)'
  BY <1>1, <1>3, LargeKept, Zenon DEF Inv, DescInv
<1>6. \A u \in Threads : \A s \in sbs'[Hand(u)] :
        desc[s] = Descriptor \/ (Small(desc[s]) /\ sbs'[Hand(u)] = {s})
  BY <1>3, <1>4, Zenon DEF Inv, DescInv
<1>7. DescInv'
  BY <1>1, <1>3, <1>4, <1>5, <1>6, Zenon DEF Inv, DescInv
<1> QED BY <1>1, <1>7, OnlySbs, Zenon

LEMMA TakeFreeInv ==
  ASSUME TypeOK, Inv, up, NEW t \in Threads, NEW d \in Sbs, TakeFree(t, d)
  PROVE  IInv'
<1>1. /\ Avail \in PlacesOfSbs /\ Hand(t) \in PlacesOfSbs /\ Avail # Hand(t)
      /\ Avail # Full /\ Hand(t) # Full
      /\ {d} \in SUBSET sbs[Avail] /\ sbs' = Move(sbs, Avail, Hand(t), {d})
      /\ UNCHANGED <<up, curr, desc, at>> /\ sbs[Hand(t)] = {}
  BY SbPlaces, Zenon DEF TakeFree
<1>2. Moved(PlacesOfSbs, Sbs, sbs, sbs', Avail, Hand(t), {d})
  BY <1>1, SbMove, Zenon
<1>3. /\ sbs'[Avail] \subseteq sbs[Avail] /\ sbs'[Full] = sbs[Full]
      /\ \A e \in Sbs : sbs'[Large(e)] = sbs[Large(e)]
      /\ \A e \in Classes : sbs'[Partial(e)] = sbs[Partial(e)]
      /\ \A u \in Threads : sbs'[Hand(u)] = IF u = t THEN {d} ELSE sbs[Hand(u)]
  BY <1>1, <1>2, SbPlaces, Zenon DEF Moved
<1>4. desc[d] = Descriptor
  BY <1>1, Zenon DEF Inv, DescInv
<1>5. \A e \in Sbs : sbs'[Large(e)] = {} \/ LargeAt(e)'
  BY <1>1, <1>3, LargeKept, Zenon DEF Inv, DescInv
<1>6. \A u \in Threads : \A s \in sbs'[Hand(u)] :
        desc[s] = Descriptor \/ (Small(desc[s]) /\ sbs'[Hand(u)] = {s})
  BY <1>3, <1>4, Zenon DEF Inv, DescInv
<1>7. DescInv'
  BY <1>1, <1>3, <1>4, <1>5, <1>6, Zenon DEF Inv, DescInv
<1> QED BY <1>1, <1>7, OnlySbs, Zenon

LEMMA OrganizeInv ==
  ASSUME TypeOK, Inv, up, NEW t \in Threads, NEW d \in Sbs, Organize(t, d)
  PROVE  IInv'
<1> DEFINE R == Range(d + 1, ExpandSbs - 1)
<1>0. R \subseteq Range(d, ExpandSbs)
  BY Sizes DEF Range, Sbs
<1> HIDE DEF R
<1>1. /\ Avail \in PlacesOfSbs /\ Hand(t) \in PlacesOfSbs /\ Avail # Hand(t)
      /\ Avail # Full /\ Hand(t) # Full
      /\ R \in SUBSET sbs[Hand(t)] /\ sbs' = Move(sbs, Hand(t), Avail, R)
      /\ UNCHANGED <<up, curr, desc, at>> /\ \A s \in sbs[Hand(t)] : desc[s] = Descriptor
  BY <1>0, SbPlaces, Zenon DEF Organize, R
<1>2. Moved(PlacesOfSbs, Sbs, sbs, sbs', Hand(t), Avail, R)
  BY <1>1, SbMove, Zenon
<1>3. /\ sbs'[Avail] = sbs[Avail] \cup R /\ sbs'[Full] = sbs[Full]
      /\ \A e \in Sbs : sbs'[Large(e)] = sbs[Large(e)]
      /\ \A e \in Classes : sbs'[Partial(e)] = sbs[Partial(e)]
      /\ \A u \in Threads : sbs'[Hand(u)] = IF u = t THEN sbs[Hand(t)] \ R ELSE sbs[Hand(u)]
  BY <1>1, <1>2, SbPlaces, Zenon DEF Moved
<1>5. \A e \in Sbs : sbs'[Large(e)] = {} \/ LargeAt(e)'
  BY <1>1, <1>3, LargeKept, Zenon DEF Inv, DescInv
<1>6. DescInv'
  BY <1>1, <1>3, <1>5 DEF Inv, DescInv
<1> QED BY <1>1, <1>6, OnlySbs, Zenon

-----------------------------------------------------------------------------
(* Steps that move blocks only *)

LEMMA OnlyBlocks ==
  ASSUME TypeOK, Inv, up, UNCHANGED <<up, curr, desc, sbs>>,
         NEW x \in PlacesOfBlocks, NEW y \in PlacesOfBlocks, x # y,
         NEW R \in SUBSET at[x], at' = Move(at, x, y, R), PlaceInv'
  PROVE  IInv'
<1>1. Moved(PlacesOfBlocks, Nat, at, at', x, y, R)
  BY BlockMove, Zenon
<1>2. TypeOK'
  BY <1>1, Zenon DEF TypeOK, Moved
<1>3. SbInv'
  BY Zenon DEF Inv, SbInv
<1>4. BlockInv'
  BY <1>1 DEF Inv, BlockInv, AllBlocks, Moved
<1>5. DescInv'
  BY Zenon DEF Inv, DescInv, LargeAt
<1> QED BY <1>2, <1>3, <1>4, <1>5, Zenon DEF IInv, Inv

LEMMA MallocHitInv ==
  ASSUME TypeOK, Inv, up, NEW t \in Threads, NEW c \in Classes, NEW p, MallocHit(t, c, p)
  PROVE  IInv'
<1>1. /\ Bin(t, c) \in PlacesOfBlocks /\ User \in PlacesOfBlocks /\ Bin(t, c) # User
      /\ {p} \in SUBSET at[Bin(t, c)] /\ at' = Move(at, Bin(t, c), User, {p})
      /\ UNCHANGED <<up, curr, desc, sbs>>
  BY BlockPlaces, Zenon DEF MallocHit
<1>2. PlaceInv'
  <2>1. /\ \A s \in Sbs : User # Free(s)
        /\ \A u \in Threads, e \in Classes : User # Bin(u, e)
    BY BlockPlaces, Zenon
  <2>2. sbs'[Full] \subseteq sbs[Full] /\ sbs'[Full] \subseteq Sbs
    BY <1>1, SbPlaces, Zenon DEF TypeOK
  <2> QED BY <1>1, <2>1, <2>2, PlaceMove DEF Inv
<1> QED BY <1>1, <1>2, OnlyBlocks, Zenon

LEMMA FreeHitInv ==
  ASSUME TypeOK, Inv, up, NEW t \in Threads, NEW c \in Classes, NEW p, FreeHit(t, c, p)
  PROVE  IInv'
<1>1. /\ Bin(t, c) \in PlacesOfBlocks /\ User \in PlacesOfBlocks /\ Bin(t, c) # User
      /\ {p} \in SUBSET at[User] /\ at' = Move(at, User, Bin(t, c), {p})
      /\ UNCHANGED <<up, curr, desc, sbs>>
  BY BlockPlaces, Zenon DEF FreeHit
<1>2. PlaceInv'
  <2>1. /\ \A s \in Sbs : Bin(t, c) # Free(s)
        /\ \A u \in Threads, e \in Classes : Bin(t, c) = Bin(u, e) => e = c
    BY BlockPlaces
  <2>2. sbs'[Full] \subseteq sbs[Full] /\ sbs'[Full] \subseteq Sbs
    BY <1>1, SbPlaces, Zenon DEF TypeOK
  <2>3. desc[desc_lookup(p)] \in Descriptors
    BY <1>1, InPlace, Zenon DEF Inv
  <2>4. desc[desc_lookup(p)] = SmallDescriptor(c)
    BY <2>3, Kinds, Zenon DEF FreeHit
  <2> QED BY <1>1, <2>1, <2>2, <2>4, PlaceMove DEF Inv, Small
<1> QED BY <1>1, <1>2, OnlyBlocks, Zenon

LEMMA FreeFlushInv ==
  ASSUME TypeOK, Inv, up, NEW t \in Threads, NEW c \in Classes, NEW p, FreeFlush(t, c, p)
  PROVE  IInv'
<1>1. /\ Pending(t) \in PlacesOfBlocks /\ User \in PlacesOfBlocks /\ Pending(t) # User
      /\ {p} \in SUBSET at[User] /\ at' = Move(at, User, Pending(t), {p})
      /\ UNCHANGED <<up, curr, desc, sbs>>
  BY BlockPlaces, Zenon DEF FreeFlush
<1>2. PlaceInv'
  <2>1. /\ \A s \in Sbs : Pending(t) # Free(s)
        /\ \A u \in Threads, e \in Classes : Pending(t) # Bin(u, e)
    BY BlockPlaces, Zenon
  <2>2. sbs'[Full] \subseteq sbs[Full] /\ sbs'[Full] \subseteq Sbs
    BY <1>1, SbPlaces, Zenon DEF TypeOK
  <2>3. desc[desc_lookup(p)] \in Descriptors
    BY <1>1, InPlace, Zenon DEF Inv
  <2>4. desc[desc_lookup(p)] = SmallDescriptor(c)
    BY <2>3, Kinds, Zenon DEF FreeFlush
  <2> QED BY <1>1, <2>1, <2>2, <2>4, PlaceMove DEF Inv, Small
<1> QED BY <1>1, <1>2, OnlyBlocks, Zenon

LEMMA FlushGrabInv ==
  ASSUME TypeOK, Inv, up, NEW t \in Threads, NEW c \in Classes,
         NEW R \in SUBSET at[Bin(t, c)], FlushGrab(t, c, R)
  PROVE  IInv'
<1>1. /\ Bin(t, c) \in PlacesOfBlocks /\ Run(t) \in PlacesOfBlocks
      /\ Bin(t, c) # Run(t) /\ Bin(t, c) # User
      /\ at' = Move(at, Bin(t, c), Run(t), R) /\ UNCHANGED <<up, curr, desc, sbs>>
  BY BlockPlaces, Zenon DEF FlushGrab
<1>2. PlaceInv'
  <2>1. /\ \A s \in Sbs : Run(t) # Free(s)
        /\ \A u \in Threads, e \in Classes : Run(t) # Bin(u, e)
    BY BlockPlaces, Zenon
  <2>2. sbs'[Full] \subseteq sbs[Full] /\ sbs'[Full] \subseteq Sbs
    BY <1>1, SbPlaces, Zenon DEF TypeOK
  <2>3. \A p \in R : Small(desc[desc_lookup(p)])
    BY <1>1, Zenon DEF Inv, PlaceInv
  <2> QED BY <1>1, <2>1, <2>2, <2>3, PlaceMove DEF Inv
<1> QED BY <1>1, <1>2, OnlyBlocks, Zenon

LEMMA FlushDoneInv ==
  ASSUME TypeOK, Inv, up, NEW t \in Threads, NEW c \in Classes, NEW p, FlushDone(t, c, p)
  PROVE  IInv'
<1>1. /\ Bin(t, c) \in PlacesOfBlocks /\ Pending(t) \in PlacesOfBlocks /\ Bin(t, c) # Pending(t)
      /\ {p} \in SUBSET at[Pending(t)] /\ at' = Move(at, Pending(t), Bin(t, c), {p})
      /\ UNCHANGED <<up, curr, desc, sbs>>
  BY BlockPlaces, Zenon DEF FlushDone
<1>2. PlaceInv'
  <2>1. /\ \A s \in Sbs : Bin(t, c) # Free(s)
        /\ \A u \in Threads, e \in Classes : Bin(t, c) = Bin(u, e) => e = c
    BY BlockPlaces
  <2>2. sbs'[Full] \subseteq sbs[Full] /\ sbs'[Full] \subseteq Sbs
    BY <1>1, SbPlaces, Zenon DEF TypeOK
  <2>3. desc[desc_lookup(p)] \in Descriptors
    BY <1>1, InPlace, Zenon DEF Inv
  <2>4. desc[desc_lookup(p)] = SmallDescriptor(c)
    BY <2>3, Kinds, Zenon DEF FlushDone
  <2> QED BY <1>1, <2>1, <2>2, <2>4, PlaceMove DEF Inv, Small
<1> QED BY <1>1, <1>2, OnlyBlocks, Zenon

-----------------------------------------------------------------------------
(* Steps that move both, or change a descriptor *)

\* A superblock in a place is in no other, and below curr_addr.
LEMMA Elsewhere ==
  ASSUME TypeOK, SbInv, NEW x \in PlacesOfSbs, NEW d \in sbs[x]
  PROVE  /\ \A z \in PlacesOfSbs : z # x => d \notin sbs[z]
         /\ d \in 1..(curr - 1) /\ d \in Sbs
BY Zenon DEF TypeOK, SbInv, Disjoint, All

LEMMA FlushCasInv ==
  ASSUME TypeOK, Inv, up, NEW t \in Threads, NEW d \in Sbs, FlushCas(t, d)
  PROVE  IInv'
<1> DEFINE R == at[Run(t)]
<1>1. /\ at' = Move(at, Run(t), Free(d), R) /\ UNCHANGED <<up, curr, desc>>
      /\ \A p \in R : desc_lookup(p) = d /\ Small(desc[d])
      /\ R # {} /\ sbs[Hand(t)] = {} /\ R \in SUBSET at[Run(t)]
  BY BlockPlaces, Zenon DEF FlushCas, Inv, PlaceInv
<1>2. Moved(PlacesOfBlocks, Nat, at, at', Run(t), Free(d), R)
  BY <1>1, BlockMove, BlockPlaces, Zenon
<1> HIDE DEF R
<1>3. /\ sbs' \in [PlacesOfSbs -> SUBSET Sbs] /\ Disjoint(sbs') /\ All(sbs') = 1..(curr - 1)
      /\ sbs'[Avail] = sbs[Avail] /\ sbs'[Full] = sbs[Full] \ {d}
      /\ \A e \in Sbs : sbs'[Large(e)] = sbs[Large(e)]
      /\ \A e \in Classes : sbs'[Partial(e)] = sbs[Partial(e)]
      /\ \A u \in Threads : sbs'[Hand(u)] = sbs[Hand(u)] \/ (u = t /\ sbs'[Hand(u)] = {d})
  <2>1. CASE d \in sbs[Full]
    <3>1. Moved(PlacesOfSbs, Sbs, sbs, sbs', Full, Hand(t), {d})
      <4>1. sbs' = Move(sbs, Full, Hand(t), {d}) /\ {d} \in SUBSET sbs[Full]
        BY <2>1, Zenon DEF FlushCas
      <4> QED BY <4>1, SbMove, SbPlaces, Zenon
    <3>2. sbs'[Hand(t)] = {d}
      BY <1>1, <3>1, Zenon DEF Moved
    <3> QED BY <3>1, <3>2, SbPlaces, Zenon DEF Moved, Inv, SbInv
  <2>2. CASE d \notin sbs[Full]
    BY <2>2, Zenon DEF FlushCas, TypeOK, Inv, SbInv
  <2> QED BY <2>1, <2>2, Zenon
<1>4. TypeOK'
  BY <1>1, <1>2, <1>3, Zenon DEF TypeOK, Moved
<1>5. SbInv'
  BY <1>1, <1>3, Zenon DEF SbInv
<1>6. BlockInv'
  BY <1>1, <1>2, Zenon DEF Inv, BlockInv, AllBlocks, Moved
<1>7. DescInv'
  <2>1. \A e \in Sbs : sbs'[Large(e)] = {} \/ LargeAt(e)'
    BY <1>1, <1>3, LargeKept, Zenon DEF Inv, DescInv
  <2> QED BY <1>1, <1>3, <2>1 DEF Inv, DescInv
<1>8. PlaceInv'
  <2>1. \A z \in PlacesOfBlocks : \A p \in at'[z] : p \in at[z] \/ (z = Free(d) /\ p \in R)
    BY <1>2, Zenon DEF Moved
  <2>2. \A s \in Sbs : s # d => at'[Free(s)] = at[Free(s)]
    BY <1>2, BlockPlaces, Zenon DEF Moved
  <2>3. \A s \in Sbs : \A p \in at'[Free(s)] : desc_lookup(p) = s
    BY <1>1, <2>1, BlockPlaces, Zenon DEF Inv, PlaceInv
  <2>4. \A s \in sbs'[Full] : at'[Free(s)] = {}
    <3>1. sbs'[Full] \subseteq Sbs
      BY <1>3, SbPlaces, Zenon
    <3> QED BY <1>3, <2>2, <3>1, Zenon DEF Inv, PlaceInv
  <2>5. \A z \in PlacesOfBlocks : z # User => \A p \in at'[z] : Small(desc'[desc_lookup(p)])
    BY <1>1, <2>1, Zenon DEF Inv, PlaceInv
  <2>6. \A u \in Threads, e \in Classes : \A p \in at'[Bin(u, e)] :
          desc'[desc_lookup(p)] = SmallDescriptor(e)
    BY <1>1, <2>1, BlockPlaces DEF Inv, PlaceInv
  <2> QED BY <2>3, <2>4, <2>5, <2>6, Zenon DEF PlaceInv
<1> QED BY <1>4, <1>5, <1>6, <1>7, <1>8, Zenon DEF IInv, Inv

\* A superblock becomes full.
LEMMA FillSb ==
  ASSUME TypeOK, SbInv, NEW t \in Threads, NEW d \in Sbs, sbs[Hand(t)] = {d},
         sbs' = Move(sbs, Hand(t), Full, {d})
  PROVE  /\ sbs' \in [PlacesOfSbs -> SUBSET Sbs] /\ Disjoint(sbs') /\ All(sbs') = 1..(curr - 1)
         /\ sbs'[Avail] = sbs[Avail] /\ sbs'[Full] = sbs[Full] \cup {d}
         /\ \A e \in Sbs : sbs'[Large(e)] = sbs[Large(e)]
         /\ \A e \in Classes : sbs'[Partial(e)] = sbs[Partial(e)]
         /\ \A u \in Threads : sbs'[Hand(u)] = IF u = t THEN {} ELSE sbs[Hand(u)]
<1>1. {d} \in SUBSET sbs[Hand(t)]
  BY Zenon
<1>2. Moved(PlacesOfSbs, Sbs, sbs, sbs', Hand(t), Full, {d})
  BY <1>1, SbMove, SbPlaces, Zenon
<1>3. sbs'[Hand(t)] = {}
  BY <1>2, Zenon DEF Moved
<1> QED BY <1>2, <1>3, SbPlaces, Zenon DEF Moved, SbInv

LEMMA ReserveInv ==
  ASSUME TypeOK, Inv, up, NEW t \in Threads, NEW c \in Classes, NEW d \in Sbs, NEW p,
         Reserve(t, c, d, p)
  PROVE  IInv'
<1>1. /\ sbs[Hand(t)] = {d} /\ sbs' = Move(sbs, Hand(t), Full, {d})
      /\ UNCHANGED <<up, curr, desc>> /\ p \in at[Free(d)] /\ at[Bin(t, c)] = {}
  BY Zenon DEF Reserve
<1>2. desc[d] = SmallDescriptor(c)
  BY Kinds, Zenon DEF Reserve, TypeOK
<1> DEFINE R == at[Free(d)] \ {p}
           m == Move(at, Free(d), User, {p})
<1>3. Moved(PlacesOfBlocks, Nat, at, m, Free(d), User, {p})
  <2>1. {p} \in SUBSET at[Free(d)]
    BY <1>1, Zenon
  <2> QED BY <2>1, BlockMove, BlockPlaces, Zenon
<1>4. at' = Move(m, Free(d), Bin(t, c), R)
  BY Zenon DEF Reserve
<1> HIDE DEF m
<1>5. Moved(PlacesOfBlocks, Nat, m, at', Free(d), Bin(t, c), R)
  <2>1. m \in [PlacesOfBlocks -> SUBSET Nat] /\ R \in SUBSET m[Free(d)]
    BY <1>3, Zenon DEF Moved
  <2> QED BY <1>4, <2>1, MoveKeeps, BlockPlaces, Zenon
<1>6. /\ at' \in [PlacesOfBlocks -> SUBSET Nat] /\ All(at') = All(at)
      /\ Disjoint(at) => Disjoint(at')
  BY <1>3, <1>5, Zenon DEF Moved
<1>7. /\ at'[Free(d)] = {} /\ at'[Bin(t, c)] \subseteq at[Free(d)]
      /\ \A z \in PlacesOfBlocks : z # User /\ z # Bin(t, c) => at'[z] \subseteq at[z]
  BY <1>1, <1>3, <1>5, BlockPlaces, Zenon DEF Moved
<1>8. /\ sbs' \in [PlacesOfSbs -> SUBSET Sbs] /\ Disjoint(sbs') /\ All(sbs') = 1..(curr - 1)
      /\ sbs'[Avail] = sbs[Avail] /\ sbs'[Full] = sbs[Full] \cup {d}
      /\ \A e \in Sbs : sbs'[Large(e)] = sbs[Large(e)]
      /\ \A e \in Classes : sbs'[Partial(e)] = sbs[Partial(e)]
      /\ \A u \in Threads : sbs'[Hand(u)] = IF u = t THEN {} ELSE sbs[Hand(u)]
  BY <1>1, FillSb, Zenon DEF Inv
<1>9. TypeOK'
  BY <1>1, <1>6, <1>8, Zenon DEF TypeOK
<1>10. SbInv'
  BY <1>1, <1>8, Zenon DEF SbInv
<1>11. BlockInv'
  BY <1>1, <1>6, Zenon DEF Inv, BlockInv, AllBlocks
<1>12. DescInv'
  <2>1. \A e \in Sbs : sbs'[Large(e)] = {} \/ LargeAt(e)'
    BY <1>1, <1>8, LargeKept, Zenon DEF Inv, DescInv
  <2>2. Small(desc[d])
    BY <1>2, Zenon DEF Small
  <2> QED BY <1>1, <1>8, <2>1, <2>2, Zenon DEF Inv, DescInv
<1>13. PlaceInv'
  <2>1. \A s \in Sbs : at'[Free(s)] \subseteq at[Free(s)]
    BY <1>7, BlockPlaces, Zenon
  <2>2. \A s \in Sbs : \A q \in at'[Free(s)] : desc_lookup(q) = s
    BY <2>1, Zenon DEF Inv, PlaceInv
  <2>3. \A s \in sbs'[Full] : at'[Free(s)] = {}
    <3>1. sbs'[Full] \subseteq Sbs
      BY <1>8, SbPlaces, Zenon
    <3> QED BY <1>7, <1>8, <2>1, <3>1, Zenon DEF Inv, PlaceInv
  <2>4. \A q \in at'[Bin(t, c)] : desc[desc_lookup(q)] = SmallDescriptor(c)
    BY <1>2, <1>7, Zenon DEF Inv, PlaceInv
  <2>5. \A z \in PlacesOfBlocks : z # User => \A q \in at'[z] : Small(desc'[desc_lookup(q)])
    <3> SUFFICES ASSUME NEW z \in PlacesOfBlocks, z # User, NEW q \in at'[z]
                 PROVE  Small(desc[desc_lookup(q)])
      BY <1>1, Zenon
    <3>1. CASE z = Bin(t, c)
      BY <2>4, <3>1, Zenon DEF Small
    <3>2. CASE z # Bin(t, c)
      BY <1>7, <3>2, Zenon DEF Inv, PlaceInv
    <3> QED BY <3>1, <3>2, Zenon
  <2>6. \A u \in Threads, e \in Classes : \A q \in at'[Bin(u, e)] :
          desc'[desc_lookup(q)] = SmallDescriptor(e)
    <3> SUFFICES ASSUME NEW u \in Threads, NEW e \in Classes, NEW q \in at'[Bin(u, e)]
                 PROVE  desc[desc_lookup(q)] = SmallDescriptor(e)
      BY <1>1, Zenon
    <3>1. CASE u = t /\ e = c
      BY <2>4, <3>1, Zenon
    <3>2. CASE ~(u = t /\ e = c)
      <4>1. Bin(u, e) \in PlacesOfBlocks /\ Bin(u, e) # User /\ Bin(u, e) # Bin(t, c)
        BY <3>2, BlockPlaces, Zenon
      <4> QED BY <1>7, <4>1, Zenon DEF Inv, PlaceInv
    <3> QED BY <3>1, <3>2, Zenon
  <2> QED BY <2>2, <2>3, <2>5, <2>6, Zenon DEF PlaceInv
<1> QED BY <1>9, <1>10, <1>11, <1>12, <1>13, Zenon DEF IInv, Inv

\* The blocks there are when the descriptor of d becomes v.
Changed(d, v) ==
  /\ desc' \in [Sbs -> Descriptors] /\ desc'[d] = v
  /\ \A s \in Sbs : s # d => desc'[s] = desc[s]
  /\ AllBlocks' = (AllBlocks \ BlocksOf(desc[d], d)) \cup BlocksOf(v, d)
  /\ \A x \in PlacesOfBlocks : \A p \in at[x] :
       desc_lookup(p) = d <=> p \in BlocksOf(desc[d], d)

LEMMA DescChange ==
  ASSUME TypeOK, BlockInv, NEW d \in Sbs, NEW v \in Descriptors, desc' = [desc EXCEPT ![d] = v]
  PROVE  Changed(d, v)
<1>1. /\ desc \in [Sbs -> Descriptors]
      /\ desc' \in [Sbs -> Descriptors] /\ desc'[d] = v /\ \A s \in Sbs : s # d => desc'[s] = desc[s]
  BY Zenon DEF TypeOK
<1>2. \A s \in Sbs : s # d => BlocksOf(desc[s], s) \cap BlocksOf(desc[d], d) = {}
  <2>1. \A s \in Sbs : \A p \in BlocksOf(desc[s], s) : desc_lookup(p) = s
    BY <1>1, InBlocksOf, Zenon
  <2> QED BY <2>1, Zenon
<1>3. ASSUME NEW p \in AllBlocks' PROVE p \in (AllBlocks \ BlocksOf(desc[d], d)) \cup BlocksOf(v, d)
  BY <1>1, <1>2, <1>3, Zenon DEF AllBlocks
<1>4. ASSUME NEW p \in (AllBlocks \ BlocksOf(desc[d], d)) \cup BlocksOf(v, d) PROVE p \in AllBlocks'
  <2>1. CASE p \in BlocksOf(v, d)
    BY <1>1, <2>1, Zenon DEF AllBlocks
  <2>2. CASE p \in AllBlocks \ BlocksOf(desc[d], d)
    BY <1>1, <2>2, Zenon DEF AllBlocks
  <2> QED BY <2>1, <2>2, Zenon
<1>5. \A x \in PlacesOfBlocks : \A p \in at[x] : desc_lookup(p) = d <=> p \in BlocksOf(desc[d], d)
  BY <1>1, InPlace, InBlocksOf, Zenon
<1> QED BY <1>1, <1>3, <1>4, <1>5, Zenon DEF Changed

LEMMA RetireInv ==
  ASSUME TypeOK, Inv, up, NEW t \in Threads, NEW c \in Classes, NEW d \in Sbs, Retire(t, c, d)
  PROVE  IInv'
<1>1. /\ sbs[Hand(t)] = {d} /\ sbs' = Move(sbs, Hand(t), Avail, {d})
      /\ at[Free(d)] = BlocksOf(desc[d], d) /\ at' = [at EXCEPT ![Free(d)] = {}]
      /\ desc' = [desc EXCEPT ![d] = Descriptor] /\ UNCHANGED <<up, curr>>
  BY Zenon DEF Retire
<1>2. /\ desc' \in [Sbs -> Descriptors] /\ desc'[d] = Descriptor
      /\ \A s \in Sbs : s # d => desc'[s] = desc[s]
      /\ AllBlocks' = AllBlocks \ at[Free(d)]
      /\ \A x \in PlacesOfBlocks : \A p \in at[x] : desc_lookup(p) = d => p \in at[Free(d)]
  <2>1. BlocksOf(Descriptor, d) = {}
    BY InBlocksOf, Kinds, Zenon
  <2>2. Changed(d, Descriptor)
    BY <1>1, DescChange, Kinds, Zenon DEF Inv
  <2> QED BY <1>1, <2>1, <2>2, Zenon DEF Changed
<1>3. /\ DOMAIN at = PlacesOfBlocks /\ DOMAIN at' = PlacesOfBlocks
      /\ at' \in [PlacesOfBlocks -> SUBSET Nat] /\ at'[Free(d)] = {}
      /\ \A z \in PlacesOfBlocks : z # Free(d) => at'[z] = at[z]
  BY <1>1, BlockPlaces DEF TypeOK
<1>4. /\ sbs' \in [PlacesOfSbs -> SUBSET Sbs] /\ Disjoint(sbs') /\ All(sbs') = 1..(curr - 1)
      /\ sbs'[Avail] = sbs[Avail] \cup {d} /\ sbs'[Full] = sbs[Full]
      /\ \A e \in Sbs : sbs'[Large(e)] = sbs[Large(e)]
      /\ \A e \in Classes : sbs'[Partial(e)] = sbs[Partial(e)]
      /\ \A u \in Threads : sbs'[Hand(u)] = IF u = t THEN {} ELSE sbs[Hand(u)]
  <2>1. {d} \in SUBSET sbs[Hand(t)]
    BY <1>1, Zenon
  <2>2. Moved(PlacesOfSbs, Sbs, sbs, sbs', Hand(t), Avail, {d})
    BY <1>1, <2>1, SbMove, SbPlaces, Zenon
  <2>3. sbs'[Hand(t)] = {}
    BY <1>1, <2>2, Zenon DEF Moved
  <2> QED BY <2>2, <2>3, SbPlaces, Zenon DEF Moved, Inv, SbInv
<1>5. TypeOK'
  BY <1>1, <1>2, <1>3, <1>4, Zenon DEF TypeOK
<1>6. SbInv'
  BY <1>1, <1>4, Zenon DEF SbInv
<1>7. BlockInv'
  <2>1. Disjoint(at')
    BY <1>3, Zenon DEF Inv, BlockInv, Disjoint
  <2>2. ASSUME NEW p \in All(at') PROVE p \in AllBlocks'
    <3>1. PICK z \in PlacesOfBlocks : p \in at'[z]
      BY <1>3, <2>2, Zenon DEF All
    <3>2. z # Free(d) /\ p \in at[z]
      BY <1>3, <3>1, Zenon
    <3>3. p \notin at[Free(d)]
      BY <1>3, <3>2, BlockPlaces, Zenon DEF Inv, BlockInv, Disjoint
    <3> QED BY <1>2, <1>3, <3>2, <3>3, Zenon DEF Inv, BlockInv, All
  <2>3. ASSUME NEW p \in AllBlocks' PROVE p \in All(at')
    BY <1>2, <1>3, <2>3, Zenon DEF Inv, BlockInv, All
  <2> QED BY <2>1, <2>2, <2>3, Zenon DEF BlockInv
<1>8. \A z \in PlacesOfSbs : z # Hand(t) => d \notin sbs[z]
  BY <1>1, Elsewhere, SbPlaces, Zenon DEF Inv
<1>9. DescInv'
  <2>1. \A e \in Sbs : sbs'[Large(e)] = {} \/ LargeAt(e)'
    <3>1. \A e \in Sbs : \A s \in sbs[Large(e)] : s \in Sbs /\ s # d
      BY <1>8, SbPlaces DEF TypeOK
    <3> QED BY <1>2, <1>4, <3>1, LargeKept, Zenon DEF Inv, DescInv
  <2>2. /\ \A s \in sbs'[Avail] : desc'[s] = Descriptor
        /\ \A s \in sbs'[Full] : Small(desc'[s])
    BY <1>2, <1>4, <1>8, SbPlaces DEF Inv, DescInv, TypeOK
  <2>3. \A e \in Classes : \A s \in sbs'[Partial(e)] : desc'[s] = SmallDescriptor(e)
    BY <1>2, <1>4, <1>8, SbPlaces DEF Inv, DescInv, TypeOK
  <2>4. \A u \in Threads : \A s \in sbs'[Hand(u)] :
          desc'[s] = Descriptor \/ (Small(desc'[s]) /\ sbs'[Hand(u)] = {s})
    <3> SUFFICES ASSUME NEW u \in Threads, NEW s \in sbs'[Hand(u)]
                 PROVE  desc'[s] = Descriptor \/ (Small(desc'[s]) /\ sbs'[Hand(u)] = {s})
      BY Zenon
    <3>1. u # t /\ sbs'[Hand(u)] = sbs[Hand(u)]
      BY <1>4, Zenon
    <3>2. s \in Sbs /\ s # d
      BY <1>8, <3>1, SbPlaces DEF TypeOK
    <3> QED BY <1>2, <3>1, <3>2, Zenon DEF Inv, DescInv
  <2>5. \A s \in Sbs : s \notin 1..(curr' - 1) => desc'[s] = Descriptor
    BY <1>1, <1>2, Zenon DEF Inv, DescInv
  <2> QED BY <2>1, <2>2, <2>3, <2>4, <2>5, Zenon DEF DescInv
<1>10. PlaceInv'
  <2>1. \A z \in PlacesOfBlocks : \A p \in at'[z] :
          p \in at[z] /\ desc_lookup(p) \in Sbs /\ desc'[desc_lookup(p)] = desc[desc_lookup(p)]
    <3> SUFFICES ASSUME NEW z \in PlacesOfBlocks, NEW p \in at'[z]
                 PROVE  /\ p \in at[z] /\ desc_lookup(p) \in Sbs
                        /\ desc'[desc_lookup(p)] = desc[desc_lookup(p)]
      BY Zenon
    <3>1. p \in at[z] /\ z # Free(d)
      BY <1>3, Zenon
    <3>2. desc_lookup(p) \in Sbs
      BY <3>1, InPlace, Zenon DEF Inv
    <3>3. p \notin at[Free(d)]
      BY <1>3, <3>1, BlockPlaces, Zenon DEF Inv, BlockInv, Disjoint
    <3> QED BY <1>2, <3>1, <3>2, <3>3, Zenon
  <2> QED BY <1>3, <1>4, <2>1, BlockPlaces, SbPlaces DEF Inv, PlaceInv, TypeOK
<1> QED BY <1>5, <1>6, <1>7, <1>9, <1>10, Zenon DEF IInv, Inv

\* Blocks of a superblock that had none are added.
LEMMA NewBlocks ==
  ASSUME TypeOK, BlockInv, NEW d \in Sbs, NEW v \in Descriptors, desc[d] = Descriptor,
         Changed(d, v), at' \in [PlacesOfBlocks -> SUBSET Nat],
         \A z \in PlacesOfBlocks : at[z] \subseteq at'[z],
         \A z \in PlacesOfBlocks : \A p \in at'[z] : p \in at[z] \/ p \in BlocksOf(v, d),
         \A p \in BlocksOf(v, d) : \E z \in PlacesOfBlocks : p \in at'[z],
         \A p \in BlocksOf(v, d) : \A z, y \in PlacesOfBlocks : p \in at'[z] /\ p \in at'[y] => z = y
  PROVE  BlockInv' /\ \A z \in PlacesOfBlocks : \A p \in at[z] : desc_lookup(p) # d
<1>1. DOMAIN at = PlacesOfBlocks /\ DOMAIN at' = PlacesOfBlocks
  BY Zenon DEF TypeOK
<1>2. BlocksOf(desc[d], d) = {}
  BY InBlocksOf, Kinds, Zenon
<1>3. AllBlocks' = AllBlocks \cup BlocksOf(v, d)
  BY <1>2, Zenon DEF Changed
<1>4. \A z \in PlacesOfBlocks : \A p \in at[z] : desc_lookup(p) # d
  BY <1>2, Zenon DEF Changed
<1>5. \A p \in BlocksOf(v, d) : desc_lookup(p) = d
  BY InBlocksOf, Zenon
<1>6. Disjoint(at')
  BY <1>1, <1>4, <1>5, Zenon DEF BlockInv, Disjoint
<1>7. All(at') = All(at) \cup BlocksOf(v, d)
  BY <1>1 DEF All
<1> QED BY <1>3, <1>4, <1>6, <1>7, Zenon DEF BlockInv

LEMMA NewSbInv ==
  ASSUME TypeOK, Inv, up, NEW t \in Threads, NEW c \in Classes, NEW d \in Sbs, NewSb(t, c, d)
  PROVE  IInv'
<1> DEFINE new == SmallDescriptor(c)
           b == sb_lookup(d)
<1>1. /\ sbs[Hand(t)] = {d} /\ sbs' = Move(sbs, Hand(t), Full, {d})
      /\ desc[d] = Descriptor /\ desc' = [desc EXCEPT ![d] = new] /\ UNCHANGED <<up, curr>>
      /\ at[Bin(t, c)] = {}
      /\ at' = [at EXCEPT ![User] = @ \cup {b}, ![Bin(t, c)] = BlocksOf(new, d) \ {b}]
  BY Zenon DEF NewSb
<1>2. new \in Descriptors /\ new # Descriptor /\ Small(new)
  BY Kinds, Zenon DEF Small
<1> HIDE DEF new, b
<1>3. Changed(d, new)
  BY <1>1, <1>2, DescChange, Zenon DEF Inv
<1>4. b \in BlocksOf(new, d) /\ \A p \in BlocksOf(new, d) : p \in Nat /\ desc_lookup(p) = d
  BY <1>2, InBlocksOf, Zenon DEF b
<1>5. /\ at' \in [PlacesOfBlocks -> SUBSET Nat]
      /\ at'[User] = at[User] \cup {b} /\ at'[Bin(t, c)] = BlocksOf(new, d) \ {b}
      /\ \A z \in PlacesOfBlocks : z # User /\ z # Bin(t, c) => at'[z] = at[z]
  BY <1>1, <1>4, BlockPlaces DEF TypeOK
<1>6. /\ sbs' \in [PlacesOfSbs -> SUBSET Sbs] /\ Disjoint(sbs') /\ All(sbs') = 1..(curr - 1)
      /\ sbs'[Avail] = sbs[Avail] /\ sbs'[Full] = sbs[Full] \cup {d}
      /\ \A e \in Sbs : sbs'[Large(e)] = sbs[Large(e)]
      /\ \A e \in Classes : sbs'[Partial(e)] = sbs[Partial(e)]
      /\ \A u \in Threads : sbs'[Hand(u)] = IF u = t THEN {} ELSE sbs[Hand(u)]
  BY <1>1, FillSb, Zenon DEF Inv
<1>7. TypeOK'
  BY <1>1, <1>3, <1>5, <1>6, Zenon DEF TypeOK, Changed
<1>8. SbInv'
  BY <1>1, <1>6, Zenon DEF SbInv
<1>9. BlockInv' /\ \A z \in PlacesOfBlocks : \A p \in at[z] : desc_lookup(p) # d
  <2>0. BlocksOf(desc[d], d) = {}
    BY <1>1, InBlocksOf, Kinds, Zenon
  <2>1. \A z \in PlacesOfBlocks : \A p \in at[z] : p \notin BlocksOf(new, d)
    BY <1>3, <1>4, <2>0, Zenon DEF Changed
  <2>2. \A z \in PlacesOfBlocks : at[z] \subseteq at'[z]
    BY <1>1, <1>5, Zenon
  <2>3. \A z \in PlacesOfBlocks : \A p \in at'[z] : p \in at[z] \/ p \in BlocksOf(new, d)
    BY <1>4, <1>5, Zenon
  <2>4. \A p \in BlocksOf(new, d) : \E z \in PlacesOfBlocks : p \in at'[z]
    BY <1>5, BlockPlaces, Zenon
  <2>5. \A p \in BlocksOf(new, d) : \A z \in PlacesOfBlocks :
          p \in at'[z] => z = IF p = b THEN User ELSE Bin(t, c)
    BY <1>5, <2>1, Zenon
  <2>6. \A p \in BlocksOf(new, d) : \A z, y \in PlacesOfBlocks :
          p \in at'[z] /\ p \in at'[y] => z = y
    BY <2>5, Zenon
  <2> QED BY <1>1, <1>2, <1>3, <1>5, <2>2, <2>3, <2>4, <2>6, NewBlocks, Zenon DEF Inv
<1>10. \A z \in PlacesOfSbs : z # Hand(t) => d \notin sbs[z]
  BY <1>1, Elsewhere, SbPlaces, Zenon DEF Inv
<1>11. d \in 1..(curr - 1)
  BY <1>1, Elsewhere, SbPlaces, Zenon DEF Inv
<1>12. DescInv'
  <2>1. \A e \in Sbs : sbs'[Large(e)] = {} \/ LargeAt(e)'
    <3>1. \A e \in Sbs : \A s \in sbs[Large(e)] : s \in Sbs /\ s # d
      BY <1>10, SbPlaces DEF TypeOK
    <3> QED BY <1>3, <1>6, <3>1, LargeKept, Zenon DEF Inv, DescInv, Changed
  <2>2. /\ \A s \in sbs'[Avail] : desc'[s] = Descriptor
        /\ \A s \in sbs'[Full] : Small(desc'[s])
    BY <1>2, <1>3, <1>6, <1>10, SbPlaces, Zenon DEF Inv, DescInv, TypeOK, Changed
  <2>3. \A e \in Classes : \A s \in sbs'[Partial(e)] : desc'[s] = SmallDescriptor(e)
    BY <1>3, <1>6, <1>10, SbPlaces DEF Inv, DescInv, TypeOK, Changed
  <2>4. \A u \in Threads : \A s \in sbs'[Hand(u)] :
          desc'[s] = Descriptor \/ (Small(desc'[s]) /\ sbs'[Hand(u)] = {s})
    <3> SUFFICES ASSUME NEW u \in Threads, NEW s \in sbs'[Hand(u)]
                 PROVE  desc'[s] = Descriptor \/ (Small(desc'[s]) /\ sbs'[Hand(u)] = {s})
      BY Zenon
    <3>1. u # t /\ sbs'[Hand(u)] = sbs[Hand(u)]
      BY <1>6, Zenon
    <3>2. s \in Sbs /\ s # d
      BY <1>10, <3>1, SbPlaces DEF TypeOK
    <3> QED BY <1>3, <3>1, <3>2, Zenon DEF Inv, DescInv, Changed
  <2>5. \A s \in Sbs : s \notin 1..(curr' - 1) => desc'[s] = Descriptor
    <3>1. \A s \in Sbs : s \notin 1..(curr - 1) => desc'[s] = desc[s]
      BY <1>3, <1>11, Zenon DEF Changed
    <3> QED BY <1>1, <3>1, Zenon DEF Inv, DescInv
  <2> QED BY <2>1, <2>2, <2>3, <2>4, <2>5, Zenon DEF DescInv
<1>13. PlaceInv'
  <2>1. \A z \in PlacesOfBlocks : \A p \in at[z] :
          desc_lookup(p) \in Sbs /\ desc'[desc_lookup(p)] = desc[desc_lookup(p)]
    BY <1>3, <1>9, InPlace, Zenon DEF Changed, Inv
  <2>2. \A s \in Sbs : at'[Free(s)] = at[Free(s)]
    BY <1>5, BlockPlaces, Zenon
  <2>3. at[Free(d)] = {}
    BY <1>9, BlockPlaces, Zenon DEF Inv, PlaceInv
  <2>4. \A s \in Sbs : \A p \in at'[Free(s)] : desc_lookup(p) = s
    BY <2>2, Zenon DEF Inv, PlaceInv
  <2>5. \A s \in sbs'[Full] : at'[Free(s)] = {}
    BY <1>6, <2>2, <2>3, SbPlaces, Zenon DEF Inv, PlaceInv
  <2>6. \A p \in at'[Bin(t, c)] : desc'[desc_lookup(p)] = new
    BY <1>3, <1>4, <1>5, Zenon DEF Changed
  <2>7. \A z \in PlacesOfBlocks : z # User => \A p \in at'[z] : Small(desc'[desc_lookup(p)])
    BY <1>2, <1>5, <2>1, <2>6, Zenon DEF Inv, PlaceInv
  <2>8. \A u \in Threads, e \in Classes : \A p \in at'[Bin(u, e)] :
          desc'[desc_lookup(p)] = SmallDescriptor(e)
    <3> SUFFICES ASSUME NEW u \in Threads, NEW e \in Classes, NEW p \in at'[Bin(u, e)]
                 PROVE  desc'[desc_lookup(p)] = SmallDescriptor(e)
      BY Zenon
    <3>1. CASE Bin(u, e) = Bin(t, c)
      BY <2>6, <3>1, BlockPlaces DEF new
    <3>2. CASE Bin(u, e) # Bin(t, c)
      <4>1. p \in at[Bin(u, e)] /\ Bin(u, e) \in PlacesOfBlocks
        BY <1>5, <3>2, BlockPlaces, Zenon
      <4>2. desc[desc_lookup(p)] = SmallDescriptor(e)
        BY <4>1, Zenon DEF Inv, PlaceInv
      <4> QED BY <2>1, <4>1, <4>2, Zenon
    <3> QED BY <3>1, <3>2, Zenon
  <2> QED BY <2>4, <2>5, <2>7, <2>8, Zenon DEF PlaceInv
<1> QED BY <1>7, <1>8, <1>9, <1>12, <1>13, Zenon DEF IInv, Inv

-----------------------------------------------------------------------------
(* Large blocks, and the expansion of the region *)

LEMMA LargeInitInv ==
  ASSUME TypeOK, Inv, up, NEW t \in Threads, NEW d \in Sbs, NEW n \in LargeSbs, LargeInit(t, d, n)
  PROVE  IInv'
<1> DEFINE new == LargeDescriptor(n)
           b == sb_lookup(d)
           R == Range(d, n)
<1>1. /\ sbs[Hand(t)] = R /\ sbs' = Move(sbs, Hand(t), Large(d), R)
      /\ \A s \in R : desc[s] = Descriptor
      /\ desc' = [desc EXCEPT ![d] = new] /\ UNCHANGED <<up, curr>>
      /\ at' = [at EXCEPT ![User] = @ \cup {b}]
  BY Zenon DEF LargeInit
<1>2. new \in Descriptors /\ new # Descriptor /\ ~Small(new)
  BY Kinds, Zenon
<1>3. d \in R
  BY Sizes DEF Range, Sbs
<1> HIDE DEF new, b, R
<1>4. Changed(d, new)
  BY <1>1, <1>2, DescChange, Zenon DEF Inv
<1>5. BlocksOf(new, d) = {b} /\ b \in Nat /\ desc_lookup(b) = d
  BY <1>2, InBlocksOf DEF b
<1>6. /\ at' \in [PlacesOfBlocks -> SUBSET Nat] /\ at'[User] = at[User] \cup {b}
      /\ \A z \in PlacesOfBlocks : z # User => at'[z] = at[z]
  BY <1>1, <1>5, BlockPlaces DEF TypeOK
<1>7. \A z \in PlacesOfSbs : z # Hand(t) => sbs[z] \cap R = {}
  BY <1>1, Elsewhere, SbPlaces, Zenon DEF Inv
<1>8. sbs[Large(d)] = {}
  <2>1. \A m \in LargeSbs : d \in Range(d, m)
    BY Sizes DEF Range, Sbs
  <2>2. LargeAt(d) => d \in sbs[Large(d)]
    BY <2>1, Zenon DEF LargeAt
  <2> QED BY <1>3, <1>7, <2>2, SbPlaces, Zenon DEF Inv, DescInv
<1>9. /\ sbs' \in [PlacesOfSbs -> SUBSET Sbs] /\ Disjoint(sbs') /\ All(sbs') = 1..(curr - 1)
      /\ sbs'[Avail] = sbs[Avail] /\ sbs'[Full] = sbs[Full]
      /\ \A e \in Sbs : sbs'[Large(e)] = IF e = d THEN R ELSE sbs[Large(e)]
      /\ \A e \in Classes : sbs'[Partial(e)] = sbs[Partial(e)]
      /\ \A u \in Threads : sbs'[Hand(u)] = IF u = t THEN {} ELSE sbs[Hand(u)]
  <2>1. Moved(PlacesOfSbs, Sbs, sbs, sbs', Hand(t), Large(d), R)
    BY <1>1, SbMove, SbPlaces, Zenon
  <2>2. sbs'[Hand(t)] = {} /\ sbs'[Large(d)] = R
    BY <1>1, <1>8, <2>1, Zenon DEF Moved
  <2> QED BY <2>1, <2>2, SbPlaces, Zenon DEF Moved, Inv, SbInv
<1>10. TypeOK'
  BY <1>1, <1>4, <1>6, <1>9, Zenon DEF TypeOK, Changed
<1>11. SbInv'
  BY <1>1, <1>9, Zenon DEF SbInv
<1>12. BlockInv' /\ \A z \in PlacesOfBlocks : \A p \in at[z] : desc_lookup(p) # d
  <2>0. BlocksOf(desc[d], d) = {}
    <3>1. desc[d] = Descriptor
      BY <1>1, <1>3, Zenon
    <3> QED BY <3>1, InBlocksOf, Kinds, Zenon
  <2>1. \A z \in PlacesOfBlocks : b \notin at[z]
    BY <1>4, <1>5, <2>0, Zenon DEF Changed
  <2>2. \A z \in PlacesOfBlocks : at[z] \subseteq at'[z]
    BY <1>6, Zenon
  <2>3. \A z \in PlacesOfBlocks : \A p \in at'[z] : p \in at[z] \/ p \in BlocksOf(new, d)
    BY <1>5, <1>6, Zenon
  <2>4. \A p \in BlocksOf(new, d) : \E z \in PlacesOfBlocks : p \in at'[z]
    BY <1>5, <1>6, BlockPlaces, Zenon
  <2>5. \A p \in BlocksOf(new, d) : \A z \in PlacesOfBlocks : p \in at'[z] => z = User
    BY <1>5, <1>6, <2>1, Zenon
  <2>6. \A p \in BlocksOf(new, d) : \A z, y \in PlacesOfBlocks :
          p \in at'[z] /\ p \in at'[y] => z = y
    BY <2>5, Zenon
  <2> QED BY <1>1, <1>2, <1>3, <1>4, <1>6, <2>2, <2>3, <2>4, <2>6, NewBlocks, Zenon DEF Inv
<1>13. d \in 1..(curr - 1)
  BY <1>1, <1>3, Elsewhere, SbPlaces, Zenon DEF Inv
<1>14. DescInv'
  <2>1. LargeAt(d)'
    BY <1>1, <1>4, <1>9 DEF LargeAt, Changed, new, R, TypeOK, Range
  <2>2. \A e \in Sbs : e # d => sbs'[Large(e)] = {} \/ LargeAt(e)'
    <3>1. \A e \in Sbs : \A s \in sbs[Large(e)] : s \in Sbs /\ s # d
      BY <1>3, <1>7, SbPlaces DEF TypeOK
    <3> QED BY <1>4, <1>9, <3>1, LargeKept, Zenon DEF Inv, DescInv, Changed
  <2>3. /\ \A s \in sbs'[Avail] : desc'[s] = Descriptor
        /\ \A s \in sbs'[Full] : Small(desc'[s])
    BY <1>3, <1>4, <1>7, <1>9, SbPlaces DEF Inv, DescInv, TypeOK, Changed
  <2>4. \A e \in Classes : \A s \in sbs'[Partial(e)] : desc'[s] = SmallDescriptor(e)
    BY <1>3, <1>4, <1>7, <1>9, SbPlaces DEF Inv, DescInv, TypeOK, Changed
  <2>5. \A u \in Threads : \A s \in sbs'[Hand(u)] :
          desc'[s] = Descriptor \/ (Small(desc'[s]) /\ sbs'[Hand(u)] = {s})
    <3> SUFFICES ASSUME NEW u \in Threads, NEW s \in sbs'[Hand(u)]
                 PROVE  desc'[s] = Descriptor \/ (Small(desc'[s]) /\ sbs'[Hand(u)] = {s})
      BY Zenon
    <3>1. u # t /\ sbs'[Hand(u)] = sbs[Hand(u)]
      BY <1>9, Zenon
    <3>2. s \in Sbs /\ s # d
      BY <1>3, <1>7, <3>1, SbPlaces, Zenon DEF TypeOK
    <3> QED BY <1>4, <3>1, <3>2, Zenon DEF Inv, DescInv, Changed
  <2>6. \A s \in Sbs : s \notin 1..(curr' - 1) => desc'[s] = Descriptor
    BY <1>1, <1>4, <1>13, Zenon DEF Inv, DescInv, Changed
  <2> QED BY <2>1, <2>2, <2>3, <2>4, <2>5, <2>6, Zenon DEF DescInv
<1>15. PlaceInv'
  <2>1. \A z \in PlacesOfBlocks : \A p \in at[z] :
          desc_lookup(p) \in Sbs /\ desc'[desc_lookup(p)] = desc[desc_lookup(p)]
    BY <1>4, <1>12, InPlace, Zenon DEF Changed, Inv
  <2>2. \A s \in Sbs : at'[Free(s)] = at[Free(s)]
    BY <1>6, BlockPlaces, Zenon
  <2>3. \A s \in Sbs : \A p \in at'[Free(s)] : desc_lookup(p) = s
    BY <2>2, Zenon DEF Inv, PlaceInv
  <2>4. \A s \in sbs'[Full] : at'[Free(s)] = {}
    BY <1>9, <2>2, SbPlaces, Zenon DEF Inv, PlaceInv, TypeOK
  <2>5. \A z \in PlacesOfBlocks : z # User => \A p \in at'[z] : Small(desc'[desc_lookup(p)])
    BY <1>6, <2>1, Zenon DEF Inv, PlaceInv
  <2>6. \A u \in Threads, e \in Classes : \A p \in at'[Bin(u, e)] :
          desc'[desc_lookup(p)] = SmallDescriptor(e)
    BY <1>6, <2>1, BlockPlaces DEF Inv, PlaceInv
  <2> QED BY <2>3, <2>4, <2>5, <2>6, Zenon DEF PlaceInv
<1> QED BY <1>10, <1>11, <1>12, <1>14, <1>15, Zenon DEF IInv, Inv

\* Where a superblock in use is.
LEMMA WhereIs ==
  ASSUME TypeOK, SbInv, DescInv, NEW d \in Sbs
  PROVE  /\ \A n \in LargeSbs : desc[d] = LargeDescriptor(n) => LargeAt(d)
         /\ \A c \in Classes : desc[d] = SmallDescriptor(c) =>
              d \in sbs[Full] \/ d \in sbs[Partial(c)] \/ \E t \in Threads : sbs[Hand(t)] = {d}
<1> SUFFICES ASSUME desc[d] # Descriptor
             PROVE  /\ \A n \in LargeSbs : desc[d] = LargeDescriptor(n) => LargeAt(d)
                    /\ \A c \in Classes : desc[d] = SmallDescriptor(c) =>
                         \/ d \in sbs[Full] \/ d \in sbs[Partial(c)]
                         \/ \E t \in Threads : sbs[Hand(t)] = {d}
  BY Kinds, Zenon
<1>1. PICK x \in PlacesOfSbs : d \in sbs[x]
  BY DEF TypeOK, SbInv, DescInv, All
<1>2. x # Avail
  BY <1>1, Zenon DEF DescInv
<1>3. CASE x = Full
  BY <1>1, <1>3, Kinds DEF DescInv
<1>4. CASE \E c \in Classes : x = Partial(c)
  BY <1>1, <1>4, Kinds DEF DescInv, Small
<1>5. CASE \E t \in Threads : x = Hand(t)
  BY <1>1, <1>5, Kinds DEF DescInv
<1>6. CASE \E e \in Sbs : x = Large(e)
  <2>1. PICK e \in Sbs : x = Large(e)
    BY <1>6, Zenon
  <2>2. LargeAt(e)
    BY <1>1, <2>1, Zenon DEF DescInv
  <2>3. d = e
    BY <1>1, <2>1, <2>2, Zenon DEF LargeAt
  <2>4. ~Small(desc[d])
    BY <2>2, <2>3, Kinds, Zenon DEF LargeAt
  <2> QED BY <2>2, <2>3, <2>4, Zenon DEF Small
<1> QED BY <1>2, <1>3, <1>4, <1>5, <1>6, Zenon DEF PlacesOfSbs

LEMMA FreeLargeInv ==
  ASSUME TypeOK, Inv, up, NEW d \in Sbs, FreeLarge(d)
  PROVE  IInv'
<1> DEFINE b == sb_lookup(d)
           R == sbs[Large(d)]
<1>1. /\ b \in at[User] /\ sbs' = Move(sbs, Large(d), Avail, R) /\ R \in SUBSET sbs[Large(d)]
      /\ desc' = [desc EXCEPT ![d] = Descriptor] /\ UNCHANGED <<up, curr>>
      /\ at' = [at EXCEPT ![User] = @ \ {b}]
  BY Zenon DEF FreeLarge
<1>2. PICK n \in LargeSbs : desc[d] = LargeDescriptor(n)
  BY Kinds, Zenon DEF FreeLarge, TypeOK
<1>3. LargeAt(d)
  BY <1>2, WhereIs, Zenon DEF Inv
<1>4. d \in R /\ \A s \in R : s # d => desc[s] = Descriptor
  BY <1>3, Sizes DEF LargeAt, Range, Sbs
<1>5. Moved(PlacesOfSbs, Sbs, sbs, sbs', Large(d), Avail, R)
  BY <1>1, SbMove, SbPlaces, Zenon
<1>6. BlocksOf(desc[d], d) = {b}
  BY <1>2, Kinds, InBlocksOf
<1> HIDE DEF b
<1>7. Changed(d, Descriptor)
  BY <1>1, DescChange, Kinds, Zenon DEF Inv
<1>8. AllBlocks' = AllBlocks \ {b} /\ \A z \in PlacesOfBlocks : \A p \in at[z] : desc_lookup(p) = d => p = b
  <2>1. BlocksOf(Descriptor, d) = {}
    BY InBlocksOf, Kinds, Zenon
  <2> QED BY <1>6, <1>7, <2>1, Zenon DEF Changed
<1>9. /\ DOMAIN at = PlacesOfBlocks /\ DOMAIN at' = PlacesOfBlocks
      /\ at' \in [PlacesOfBlocks -> SUBSET Nat] /\ at'[User] = at[User] \ {b}
      /\ \A z \in PlacesOfBlocks : z # User => at'[z] = at[z]
  BY <1>1, BlockPlaces, Zenon DEF TypeOK
<1>10. \A z \in PlacesOfBlocks : b \in at[z] => z = User
  BY <1>1, <1>9, BlockPlaces, Zenon DEF Inv, BlockInv, Disjoint
<1>11. /\ sbs' \in [PlacesOfSbs -> SUBSET Sbs] /\ Disjoint(sbs') /\ All(sbs') = 1..(curr - 1)
       /\ sbs'[Avail] = sbs[Avail] \cup R /\ sbs'[Full] = sbs[Full]
       /\ \A e \in Sbs : sbs'[Large(e)] = IF e = d THEN {} ELSE sbs[Large(e)]
       /\ \A e \in Classes : sbs'[Partial(e)] = sbs[Partial(e)]
       /\ \A u \in Threads : sbs'[Hand(u)] = sbs[Hand(u)]
  <2>1. sbs'[Large(d)] = {}
    BY <1>5, Zenon DEF Moved
  <2> QED BY <1>5, <2>1, SbPlaces, Zenon DEF Moved, Inv, SbInv
<1>12. \A z \in PlacesOfSbs : z # Large(d) => d \notin sbs[z]
  BY <1>4, Elsewhere, SbPlaces, Zenon DEF Inv
<1> HIDE DEF R
<1>13. TypeOK'
  BY <1>1, <1>7, <1>9, <1>11, Zenon DEF TypeOK, Changed
<1>14. SbInv'
  BY <1>1, <1>11, Zenon DEF SbInv
<1>15. BlockInv'
  <2>1. Disjoint(at')
    BY <1>9, Zenon DEF Inv, BlockInv, Disjoint
  <2>2. \A z \in PlacesOfBlocks : at'[z] = at[z] \ {b}
    BY <1>9, <1>10, Zenon
  <2>3. All(at') = All(at) \ {b}
    BY <1>9, <2>2 DEF All
  <2> QED BY <1>8, <2>1, <2>3, Zenon DEF Inv, BlockInv
<1>16. DescInv'
  <2>1. \A e \in Sbs : sbs'[Large(e)] = {} \/ LargeAt(e)'
    <3>1. \A e \in Sbs : e # d => \A s \in sbs[Large(e)] : s \in Sbs /\ s # d
      BY <1>12, SbPlaces DEF TypeOK
    <3> QED BY <1>7, <1>11, <3>1, LargeKept, Zenon DEF Inv, DescInv, Changed
  <2>2. R \subseteq Sbs
    BY SbPlaces, Zenon DEF R, TypeOK
  <2>3. \A s \in sbs'[Avail] : desc'[s] = Descriptor
    <3>1. \A s \in sbs[Avail] : s \in Sbs /\ s # d
      BY <1>12, SbPlaces DEF TypeOK
    <3> QED BY <1>4, <1>7, <1>11, <2>2, <3>1, Zenon DEF Inv, DescInv, Changed
  <2>4. \A s \in sbs'[Full] : Small(desc'[s])
    BY <1>7, <1>11, <1>12, SbPlaces DEF Inv, DescInv, TypeOK, Changed
  <2>5. \A e \in Classes : \A s \in sbs'[Partial(e)] : desc'[s] = SmallDescriptor(e)
    BY <1>7, <1>11, <1>12, SbPlaces DEF Inv, DescInv, TypeOK, Changed
  <2>6. \A u \in Threads : \A s \in sbs'[Hand(u)] :
          desc'[s] = Descriptor \/ (Small(desc'[s]) /\ sbs'[Hand(u)] = {s})
    <3> SUFFICES ASSUME NEW u \in Threads, NEW s \in sbs'[Hand(u)]
                 PROVE  desc'[s] = Descriptor \/ (Small(desc'[s]) /\ sbs'[Hand(u)] = {s})
      BY Zenon
    <3>1. sbs'[Hand(u)] = sbs[Hand(u)] /\ s \in Sbs /\ s # d
      BY <1>11, <1>12, SbPlaces DEF TypeOK
    <3> QED BY <1>7, <3>1, Zenon DEF Inv, DescInv, Changed
  <2>7. \A s \in Sbs : s \notin 1..(curr' - 1) => desc'[s] = Descriptor
    BY <1>1, <1>7, Zenon DEF Inv, DescInv, Changed
  <2> QED BY <2>1, <2>3, <2>4, <2>5, <2>6, <2>7, Zenon DEF DescInv
<1>17. PlaceInv'
  <2>1. \A z \in PlacesOfBlocks : z # User => \A p \in at[z] :
          desc_lookup(p) \in Sbs /\ desc'[desc_lookup(p)] = desc[desc_lookup(p)]
    BY <1>7, <1>8, <1>10, InPlace DEF Changed, Inv
  <2>2. \A s \in Sbs : at'[Free(s)] = at[Free(s)]
    BY <1>9, BlockPlaces, Zenon
  <2>3. \A s \in Sbs : \A p \in at'[Free(s)] : desc_lookup(p) = s
    BY <2>2, Zenon DEF Inv, PlaceInv
  <2>4. \A s \in sbs'[Full] : at'[Free(s)] = {}
    BY <1>11, <2>2, SbPlaces, Zenon DEF Inv, PlaceInv, TypeOK
  <2>5. \A z \in PlacesOfBlocks : z # User => \A p \in at'[z] : Small(desc'[desc_lookup(p)])
    BY <1>9, <2>1, Zenon DEF Inv, PlaceInv
  <2>6. \A u \in Threads, e \in Classes : \A p \in at'[Bin(u, e)] :
          desc'[desc_lookup(p)] = SmallDescriptor(e)
    <3>1. \A u \in Threads, e \in Classes : Bin(u, e) \in PlacesOfBlocks /\ Bin(u, e) # User
      BY BlockPlaces, Zenon
    <3>2. \A u \in Threads, e \in Classes : at'[Bin(u, e)] = at[Bin(u, e)]
      BY <1>9, <3>1, Zenon
    <3> QED BY <2>1, <3>1, <3>2, Zenon DEF Inv, PlaceInv
  <2> QED BY <2>3, <2>4, <2>5, <2>6, Zenon DEF PlaceInv
<1> QED BY <1>13, <1>14, <1>15, <1>16, <1>17, Zenon DEF IInv, Inv

LEMMA ExpandInv ==
  ASSUME TypeOK, Inv, up, NEW t \in Threads, NEW n \in LargeSbs \cup {ExpandSbs}, Expand(t, n)
  PROVE  IInv'
<1>1. /\ curr' = curr + n /\ curr + n <= RegionSbs /\ UNCHANGED <<up, desc, at>>
      /\ sbs[Hand(t)] = {} /\ sbs' = [sbs EXCEPT ![Hand(t)] = Range(curr, n)]
  BY Zenon DEF Expand
<1>2. n \in Nat \ {0} /\ curr \in Nat /\ curr >= 2
  BY Sizes DEF TypeOK
<1> DEFINE R == Range(curr, n)
<1>3. /\ R \subseteq Sbs /\ R \cap (1..(curr - 1)) = {}
      /\ 1..(curr' - 1) = (1..(curr - 1)) \cup R /\ curr' \in ExpandSbs..RegionSbs
  BY <1>1, <1>2, Sizes DEF Range, Sbs, TypeOK
<1> HIDE DEF R
<1>4. /\ DOMAIN sbs = PlacesOfSbs /\ DOMAIN sbs' = PlacesOfSbs
      /\ sbs' \in [PlacesOfSbs -> SUBSET Sbs] /\ sbs'[Hand(t)] = R
      /\ \A z \in PlacesOfSbs : z # Hand(t) => sbs'[z] = sbs[z]
  BY <1>1, <1>3, SbPlaces, Zenon DEF TypeOK, R
<1>5. TypeOK'
  BY <1>1, <1>3, <1>4, Zenon DEF TypeOK
<1>6. SbInv'
  <2>1. \A z \in PlacesOfSbs : sbs[z] \subseteq 1..(curr - 1)
    BY <1>4, Zenon DEF Inv, SbInv, All
  <2>2. Disjoint(sbs')
    BY <1>3, <1>4, <2>1, Zenon DEF Inv, SbInv, Disjoint
  <2>3. All(sbs') = All(sbs) \cup R
    <3>1. \A z \in PlacesOfSbs : sbs'[z] = IF z = Hand(t) THEN R ELSE sbs[z]
      BY <1>4, Zenon
    <3>2. Hand(t) \in PlacesOfSbs
      BY SbPlaces, Zenon
    <3> QED BY <1>1, <1>4, <3>1, <3>2 DEF All
  <2> QED BY <1>3, <2>2, <2>3, Zenon DEF Inv, SbInv
<1>7. BlockInv'
  BY <1>1, Zenon DEF Inv, BlockInv, AllBlocks
<1>8. /\ sbs'[Avail] = sbs[Avail] /\ sbs'[Full] = sbs[Full]
      /\ \A e \in Sbs : sbs'[Large(e)] = sbs[Large(e)]
      /\ \A e \in Classes : sbs'[Partial(e)] = sbs[Partial(e)]
      /\ \A u \in Threads : sbs'[Hand(u)] = IF u = t THEN R ELSE sbs[Hand(u)]
  BY <1>4, SbPlaces, Zenon
<1>9. DescInv'
  <2>1. \A e \in Sbs : sbs'[Large(e)] = {} \/ LargeAt(e)'
    BY <1>1, <1>8, LargeKept, Zenon DEF Inv, DescInv
  <2>2. \A s \in R : desc[s] = Descriptor
    BY <1>3, Zenon DEF Inv, DescInv
  <2>3. \A s \in Sbs : s \notin 1..(curr' - 1) => desc[s] = Descriptor
    BY <1>3, Zenon DEF Inv, DescInv
  <2> QED BY <1>1, <1>8, <2>1, <2>2, <2>3 DEF Inv, DescInv
<1>10. PlaceInv'
  BY <1>1, <1>8, Zenon DEF Inv, PlaceInv
<1> QED BY <1>5, <1>6, <1>7, <1>9, <1>10, Zenon DEF IInv, Inv

-----------------------------------------------------------------------------

LEMMA NextInv == IInv /\ [Next]_vars => IInv'
<1> SUFFICES ASSUME IInv, [Next]_vars PROVE IInv'
  BY Zenon
<1>1. CASE UNCHANGED vars
  BY <1>1 DEF vars, IInv, TypeOK, Inv, SbInv, BlockInv, AllBlocks, DescInv, LargeAt, PlaceInv
<1>2. CASE Next
  <2>1. up /\ TypeOK /\ Inv
    BY <1>2, Zenon DEF Next, IInv
  <2>2. ASSUME NEW t \in Threads, SbStep(t) PROVE IInv'
    <3>1. \A x \in PlacesOfSbs : sbs[x] \subseteq Sbs
      BY <2>1, Zenon DEF TypeOK
    <3>2. CASE \E d \in sbs[Avail] : TakeFree(t, d)
      BY <2>1, <3>1, <3>2, SbPlaces, TakeFreeInv, Zenon
    <3>3. CASE \E c \in Classes : \E d \in sbs[Partial(c)] : TakePartial(t, c, d)
      <4>0. PICK c \in Classes : \E d \in sbs[Partial(c)] : TakePartial(t, c, d)
        BY <3>3, Zenon
      <4>1. PICK d \in sbs[Partial(c)] : TakePartial(t, c, d)
        BY <4>0, Zenon
      <4>2. d \in Sbs
        BY <3>1, SbPlaces, Zenon
      <4> QED BY <2>1, <4>1, <4>2, TakePartialInv, Zenon
    <3>4. ASSUME NEW d \in sbs[Hand(t)],
                 \/ Organize(t, d)
                 \/ \E n \in LargeSbs : LargeInit(t, d, n)
                 \/ \E c \in Classes : Retire(t, c, d) \/ PushPartial(t, c, d) \/ NewSb(t, c, d)
                 \/ \E c \in Classes : \E p \in at[Free(d)] : Reserve(t, c, d, p)
          PROVE  IInv'
      <4>1. d \in Sbs
        BY <3>1, SbPlaces, Zenon
      <4> QED BY <2>1, <3>4, <4>1, OrganizeInv, LargeInitInv, RetireInv,
                 PushPartialInv, NewSbInv, ReserveInv, Zenon
    <3>5. CASE \E n \in LargeSbs \cup {ExpandSbs} : Expand(t, n)
      BY <2>1, <3>5, ExpandInv, Zenon
    <3> QED BY <2>2, <3>2, <3>3, <3>4, <3>5, Zenon DEF SbStep
  <2>3. ASSUME NEW t \in Threads, BlockStep(t) PROVE IInv'
    <3>1. CASE \E c \in Classes : \/ \E p \in at[Bin(t, c)] : MallocHit(t, c, p)
                                  \/ \E p \in at[User] : FreeHit(t, c, p) \/ FreeFlush(t, c, p)
                                  \/ \E R \in SUBSET at[Bin(t, c)] : FlushGrab(t, c, R)
                                  \/ \E p \in at[Pending(t)] : FlushDone(t, c, p)
      BY <2>1, <3>1, MallocHitInv, FreeHitInv, FreeFlushInv, FlushGrabInv,
         FlushDoneInv, Zenon
    <3>2. CASE \E p \in at[Run(t)] : FlushCas(t, desc_lookup(p))
      <4>1. \A p \in at[Run(t)] : desc_lookup(p) \in Sbs
        BY <2>1, BlockPlaces, InPlace, Zenon DEF Inv
      <4> QED BY <2>1, <3>2, <4>1, FlushCasInv, Zenon
    <3> QED BY <2>3, <3>1, <3>2, Zenon DEF BlockStep
  <2>4. CASE \E d \in Sbs : FreeLarge(d)
    BY <2>1, <2>4, FreeLargeInv, Zenon
  <2>5. CASE Abort
    <3>1. TypeOK' /\ ~up'
      BY <2>1, <2>5, Zenon DEF Abort, TypeOK
    <3> QED BY <3>1, Zenon DEF IInv
  <2> QED BY <1>2, <2>2, <2>3, <2>4, <2>5, Zenon DEF Next
<1> QED BY <1>1, <1>2, Zenon

\* BaseMeta: the invariant holds in every state.
THEOREM Invariant == Spec => []IInv
BY InitInv, NextInv, PTL DEF Spec

\* BaseMeta: every block of every superblock in use is with the user, in one
\* bin, in one free list or in one flush: none is handed out twice or lost.
THEOREM BlocksAreOnce == Spec => []BlocksOnce
<1>1. IInv => BlocksOnce
  BY Zenon DEF IInv, Inv, BlockInv, BlocksOnce
<1> QED BY <1>1, Invariant, PTL

\* BaseMeta, flush_cache and malloc_from_partial: a superblock with free blocks
\* is in the partial list of its class, or a thread is about to put it there.
THEOREM FreeBlocksAreListed == Spec => []FreeIsListed
<1>1. IInv => FreeIsListed
  <2> SUFFICES ASSUME TypeOK, Inv, NEW s \in Sbs, at[Free(s)] # {}
               PROVE  \/ desc[s].heap \in Classes /\ s \in sbs[Partial(desc[s].heap)]
                      \/ \E t \in Threads : sbs[Hand(t)] = {s}
    BY Zenon DEF IInv, FreeIsListed
  <2>1. PICK c \in Classes : desc[s] = SmallDescriptor(c)
    BY BlockPlaces DEF Inv, PlaceInv, Small
  <2>2. s \notin sbs[Full]
    BY Zenon DEF Inv, PlaceInv
  <2> QED BY <2>1, <2>2, WhereIs, Kinds, Zenon DEF Inv
<1> QED BY <1>1, Invariant, PTL

\* BaseMeta, do_free: blocks of a bin have its size, so do_malloc returns a
\* block of the class that it computed from the request.
THEOREM BinsAreOfOneClass == Spec => []BinsHoldTheirClass
<1>1. IInv => BinsHoldTheirClass
  BY Zenon DEF IInv, Inv, PlaceInv, BinsHoldTheirClass
<1> QED BY <1>1, Invariant, PTL

-----------------------------------------------------------------------------
(* Free superblocks are unused, and what the application holds never       *)
(* overlaps                                                                *)

words(p) == desc[desc_lookup(p)].block_size

LEMMA Monotone ==
  ASSUME NEW a \in Nat, NEW b \in Nat, NEW w \in Nat, a <= b
  PROVE  a * w \in Nat /\ b * w \in Nat /\ a * w <= b * w
<1>1. PICK k \in Nat : b = a + k
  <2>1. b - a \in Nat /\ b = a + (b - a)
    OBVIOUS
  <2> QED BY <2>1, Zenon
<1>2. b * w = a * w + k * w /\ a * w \in Nat /\ k * w \in Nat
  BY <1>1, SMT
<1> QED BY <1>2

\* A block begins in its superblock s, and ends before superblock s + n, where
\* n is 1 unless it is large.
Fits(p, s, n) ==
  /\ s \in Nat /\ n \in Nat /\ words(p) \in Nat /\ words(p) # 0
  /\ s >= 1 /\ n >= 1 /\ s + n <= RegionSbs
  /\ sb_lookup(s) <= p /\ p + words(p) <= sb_lookup(s + n)
  /\ \A r \in Range(s, n) : r # s => desc[r] = Descriptor
  /\ Range(s, n) \cap sbs[Avail] = {}

LEMMA BlockFits ==
  ASSUME TypeOK, Inv, NEW x \in PlacesOfBlocks, NEW p \in at[x]
  PROVE  /\ p \in Nat /\ words(p) \in {BlockSize[c] : c \in Classes} \cup {n * SBSIZE : n \in LargeSbs}
         /\ \E n \in Nat : Fits(p, desc_lookup(p), n)
<1> DEFINE s == desc_lookup(p)
<1>1. /\ p \in Nat /\ s \in Sbs /\ p \in BlocksOf(desc[s], s)
      /\ desc[s] \in Descriptors /\ desc[s] # Descriptor
  BY InPlace, BlockPlaces, Zenon DEF Inv
<1>2. s \in 1..(curr - 1) /\ s \in Nat /\ s >= 1 /\ s + 1 <= RegionSbs /\ SBSIZE \in Nat \ {0}
  BY <1>1, Sizes DEF Inv, DescInv, Sbs, TypeOK
<1> HIDE DEF s
<1>3. CASE \E c \in Classes : desc[s] = SmallDescriptor(c)
  <2>1. PICK c \in Classes : desc[s] = SmallDescriptor(c)
    BY <1>3, Zenon
  <2> DEFINE w == BlockSize[c]
             m == block_num(c)
  <2>2. desc[s].block_size = w /\ desc[s].maxcount = m
    BY <2>1 DEF SmallDescriptor
  <2>3. w \in Nat \ {0} /\ m \in Nat /\ m * w <= SBSIZE
    BY Sizes, Zenon
  <2>4. PICK i \in 0..(m - 1) : p = s * SBSIZE + i * w
    BY <1>1, <2>2, Zenon DEF BlocksOf, sb_lookup
  <2> HIDE DEF w, m
  <2>5. s * SBSIZE \in Nat /\ i * w \in Nat /\ i * w + w <= SBSIZE
    BY <1>2, <2>3, BlockAddress, Zenon
  <2>6. (s + 1) * SBSIZE = s * SBSIZE + SBSIZE
    BY <1>2, SMT
  <2>7. Range(s, 1) = {s}
    BY <1>2 DEF Range
  <2>8. s \notin sbs[Avail]
    BY <1>1, Zenon DEF Inv, DescInv
  <2>9. Fits(p, s, 1)
    BY <1>2, <2>2, <2>3, <2>4, <2>5, <2>6, <2>7, <2>8 DEF Fits, words, s, sb_lookup
  <2> QED BY <1>1, <2>2, <2>9, Zenon DEF words, s, w
<1>4. CASE \E n \in LargeSbs : desc[s] = LargeDescriptor(n)
  <2>1. LargeAt(s)
    BY <1>1, <1>4, WhereIs, Zenon DEF Inv
  <2>2. PICK n \in LargeSbs : /\ sbs[Large(s)] = Range(s, n) /\ desc[s] = LargeDescriptor(n)
                              /\ \A r \in Range(s, n) : r # s => desc[r] = Descriptor
    BY <2>1, Zenon DEF LargeAt
  <2>3. n \in Nat /\ n >= 1
    BY Sizes
  <2>4. desc[s].block_size = n * SBSIZE
    BY <2>2 DEF LargeDescriptor
  <2>5. p = s * SBSIZE
    <3>1. ~Small(desc[s])
      BY <2>2, Kinds, Zenon
    <3> QED BY <1>1, <3>1, InBlocksOf, Zenon DEF sb_lookup
  <2>6. s + n <= RegionSbs
    <3>1. s + n - 1 \in Range(s, n)
      BY <1>2, <2>3 DEF Range
    <3>2. s + n - 1 \in Sbs
      BY <1>1, <2>2, <3>1, SbPlaces DEF TypeOK
    <3> QED BY <1>2, <2>3, <3>2, Sizes DEF Sbs
  <2>7. /\ (s + n) * SBSIZE = s * SBSIZE + n * SBSIZE /\ s * SBSIZE \in Nat
        /\ n * SBSIZE \in Nat /\ n * SBSIZE # 0
    BY <1>2, <2>3, SMT
  <2>8. Range(s, n) \cap sbs[Avail] = {}
    BY <1>1, <2>2, SbPlaces, Zenon DEF Inv, SbInv, Disjoint, TypeOK
  <2>9. Fits(p, s, n)
    BY <1>2, <2>2, <2>3, <2>4, <2>5, <2>6, <2>7, <2>8 DEF Fits, words, s, sb_lookup
  <2> QED BY <1>1, <2>3, <2>4, <2>9, Zenon DEF words, s
<1> QED BY <1>1, <1>3, <1>4, Zenon DEF Descriptors

\* BaseMeta, small_sb_retire and large_sb_retire: while the process runs no
\* block, wherever it is, has memory in a superblock of avail_sb, so that to
\* initialise one for another class disturbs nobody.
THEOREM FreeSbsAreUnused == Spec => []FreeSbsUnused
<1>1. ASSUME TypeOK, Inv, NEW s \in sbs[Avail], NEW x \in PlacesOfBlocks, NEW p \in at[x]
      PROVE  p + words(p) <= sb_lookup(s) \/ sb_lookup(s + 1) <= p
  <2> DEFINE r == desc_lookup(p)
  <2>1. PICK n \in Nat : Fits(p, r, n)
    BY <1>1, BlockFits, Zenon
  <2>2. p \in Nat /\ s \in Nat /\ SBSIZE \in Nat
    <3>1. s \in Sbs
      BY <1>1, SbPlaces, Zenon DEF TypeOK
    <3>2. p \in Nat
      BY <1>1, BlockFits, Zenon
    <3> QED BY <3>1, <3>2, Sizes DEF Sbs
  <2> HIDE DEF r
  <2>3. r \in Nat /\ (s + 1 <= r \/ r + n <= s)
    BY <2>1, <2>2 DEF Fits, Range
  <2>4. CASE s + 1 <= r
    <3>1. (s + 1) * SBSIZE \in Nat /\ r * SBSIZE \in Nat /\ (s + 1) * SBSIZE <= r * SBSIZE
      BY <2>2, <2>3, <2>4, Monotone
    <3> QED BY <2>1, <2>2, <3>1 DEF Fits, sb_lookup
  <2>5. CASE r + n <= s
    <3>1. (r + n) * SBSIZE \in Nat /\ s * SBSIZE \in Nat /\ (r + n) * SBSIZE <= s * SBSIZE
      BY <2>2, <2>3, <2>5, Monotone
    <3> QED BY <2>1, <2>2, <3>1 DEF Fits, sb_lookup
  <2> QED BY <2>3, <2>4, <2>5, Zenon
<1>2. IInv => FreeSbsUnused
  BY <1>1, Zenon DEF IInv, FreeSbsUnused, words
<1> QED BY <1>2, Invariant, PTL

\* Two blocks of the user are apart.
Apart(p, q) == p + words(p) <= q \/ q + words(q) <= p

LEMMA UserApart ==
  ASSUME TypeOK, Inv, NEW p \in at[User], NEW q \in at[User], p # q
  PROVE  Apart(p, q)
<1> DEFINE s == desc_lookup(p)
           r == desc_lookup(q)
<1>1. PICK n \in Nat : Fits(p, s, n)
  BY BlockFits, BlockPlaces, Zenon
<1>2. PICK k \in Nat : Fits(q, r, k)
  BY BlockFits, BlockPlaces, Zenon
<1>3. p \in Nat /\ q \in Nat
  BY BlockFits, BlockPlaces, Zenon
<1>4. /\ s \in Sbs /\ p \in BlocksOf(desc[s], s) /\ desc[s] \in Descriptors /\ desc[s] # Descriptor
      /\ r \in Sbs /\ q \in BlocksOf(desc[r], r) /\ desc[r] # Descriptor
  BY InPlace, BlockPlaces, Zenon DEF Inv
<1>5. s \in Nat /\ r \in Nat /\ SBSIZE \in Nat
  BY <1>4, Sizes DEF Sbs
<1>6. CASE s = r
  <2>1. desc[s] = desc[r] /\ words(p) = desc[s].block_size /\ words(q) = desc[s].block_size
    BY <1>6, Zenon DEF words
  <2> HIDE DEF s, r
  <2>2. Small(desc[s])
    BY <1>4, <1>6, InBlocksOf
  <2>3. PICK c \in Classes : desc[s] = SmallDescriptor(c)
    BY <2>2, Zenon DEF Small
  <2> DEFINE w == BlockSize[c]
             m == block_num(c)
  <2>4. desc[s].block_size = w /\ desc[s].maxcount = m
    BY <2>3 DEF SmallDescriptor
  <2>5. w \in Nat \ {0} /\ m \in Nat
    BY Sizes, Zenon
  <2>6. PICK i \in 0..(m - 1) : p = s * SBSIZE + i * w
    BY <1>4, <2>4, Zenon DEF BlocksOf, sb_lookup
  <2>7. PICK j \in 0..(m - 1) : q = s * SBSIZE + j * w
    BY <1>4, <1>6, <2>4, Zenon DEF BlocksOf, sb_lookup
  <2> HIDE DEF w, m
  <2>8. i \in Nat /\ j \in Nat /\ s * SBSIZE \in Nat
    BY <1>5, <2>5, Monotone
  <2>9. (i + 1) * w = i * w + w /\ (j + 1) * w = j * w + w
    BY <2>5, <2>8, SMT
  <2>10. CASE i < j
    <3>1. i * w \in Nat /\ j * w \in Nat /\ (i + 1) * w <= j * w
      BY <2>5, <2>8, <2>10, Monotone
    <3> QED BY <2>1, <2>4, <2>5, <2>6, <2>7, <2>8, <2>9, <3>1 DEF Apart
  <2>11. CASE j < i
    <3>1. i * w \in Nat /\ j * w \in Nat /\ (j + 1) * w <= i * w
      BY <2>5, <2>8, <2>11, Monotone
    <3> QED BY <2>1, <2>4, <2>5, <2>6, <2>7, <2>8, <2>9, <3>1 DEF Apart
  <2> QED BY <2>6, <2>7, <2>8, <2>10, <2>11
<1>7. CASE s < r
  <2>1. s + n <= r
    BY <1>1, <1>4, <1>5, <1>7 DEF Fits, Range
  <2>2. (s + n) * SBSIZE \in Nat /\ r * SBSIZE \in Nat /\ (s + n) * SBSIZE <= r * SBSIZE
    BY <1>5, <2>1, Monotone
  <2> QED BY <1>1, <1>2, <1>3, <2>2 DEF Fits, Apart, sb_lookup
<1>8. CASE r < s
  <2>1. r + k <= s
    BY <1>2, <1>4, <1>5, <1>8 DEF Fits, Range
  <2>2. (r + k) * SBSIZE \in Nat /\ s * SBSIZE \in Nat /\ (r + k) * SBSIZE <= s * SBSIZE
    BY <1>5, <2>1, Monotone
  <2> QED BY <1>1, <1>2, <1>3, <2>2 DEF Fits, Apart, sb_lookup
<1> QED BY <1>5, <1>6, <1>7, <1>8

\* What malloc promises of all blocks the application holds.
UserInv ==
  /\ \A p \in at[User] :
       /\ p \in Nat /\ p >= 1 /\ words(p) \in Nat /\ words(p) # 0
       /\ p + words(p) <= RegionSbs * SBSIZE
       /\ words(p) \in {BlockSize[c] : c \in Classes} \cup {n * SBSIZE : n \in LargeSbs}
  /\ \A p, q \in at[User] : p # q => Apart(p, q)

LEMMA UserHolds == IInv /\ up => UserInv
<1> SUFFICES ASSUME TypeOK, Inv PROVE UserInv
  BY Zenon DEF IInv
<1>1. ASSUME NEW p \in at[User]
      PROVE  /\ p \in Nat /\ p >= 1 /\ words(p) \in Nat /\ words(p) # 0
             /\ p + words(p) <= RegionSbs * SBSIZE
             /\ words(p) \in {BlockSize[c] : c \in Classes} \cup {n * SBSIZE : n \in LargeSbs}
  <2> DEFINE s == desc_lookup(p)
  <2>1. PICK n \in Nat : Fits(p, s, n)
    BY BlockFits, BlockPlaces, Zenon
  <2> HIDE DEF s
  <2>2. 1 * SBSIZE <= s * SBSIZE /\ s * SBSIZE \in Nat
    BY <2>1, Sizes, Monotone, Zenon DEF Fits
  <2>3. (s + n) * SBSIZE <= RegionSbs * SBSIZE /\ (s + n) * SBSIZE \in Nat /\ RegionSbs * SBSIZE \in Nat
    BY <2>1, Sizes, Monotone DEF Fits
  <2>4. p \in Nat /\ words(p) \in {BlockSize[c] : c \in Classes} \cup {k * SBSIZE : k \in LargeSbs}
    BY BlockFits, BlockPlaces, Zenon
  <2>5. words(p) \in Nat /\ words(p) # 0 /\ s * SBSIZE <= p /\ p + words(p) <= (s + n) * SBSIZE
    BY <2>1, Zenon DEF Fits, sb_lookup
  <2>6. SBSIZE >= 1 /\ SBSIZE \in Nat /\ 1 * SBSIZE = SBSIZE
    BY Sizes
  <2>7. p >= 1
    BY <2>2, <2>4, <2>5, <2>6
  <2>8. p + words(p) <= RegionSbs * SBSIZE
    BY <2>3, <2>4, <2>5
  <2> QED BY <2>4, <2>5, <2>7, <2>8, Zenon
<1> QED BY <1>1, UserApart, Zenon DEF UserInv

\* malloc returns a block nobody holds.
LEMMA MallocStep ==
  ASSUME UserInv, UserInv', NEW p, p \notin at[User], at'[User] = at[User] \cup {p},
         \A q \in at[User] : desc'[desc_lookup(q)] = desc[desc_lookup(q)]
  PROVE  Alloc!Malloc
<1> DEFINE b == [ptr |-> p, words |-> words(p)']
<1>1. /\ p \in Nat /\ p >= 1 /\ words(p)' \in Nat /\ words(p)' # 0
      /\ p + words(p)' <= RegionSbs * SBSIZE /\ RegionSbs * SBSIZE \in Nat
      /\ words(p)' \in {BlockSize[c] : c \in Classes} \cup {n * SBSIZE : n \in LargeSbs}
  BY Sizes DEF UserInv
<1>2. /\ p \in 1..(RegionSbs * SBSIZE - 1)
      /\ p..(p + words(p)' - 1) \subseteq 1..(RegionSbs * SBSIZE - 1)
  BY <1>1
<1>3. \A q \in at[User] : words(q)' = words(q)
  BY Zenon DEF words
<1>4. \A q \in at[User] : (p..(p + words(p)' - 1)) \cap (q..(q + words(q) - 1)) = {}
  <2> SUFFICES ASSUME NEW q \in at[User]
               PROVE  (p..(p + words(p)' - 1)) \cap (q..(q + words(q) - 1)) = {}
    BY Zenon
  <2>1. p + words(p)' <= q \/ q + words(q) <= p
    BY <1>3, Zenon DEF UserInv, Apart
  <2>2. q \in Nat /\ words(q) \in Nat
    BY Zenon DEF UserInv
  <2> QED BY <1>1, <2>1, <2>2
<1>5. \A h \in Held : Alloc!Memory(b) \cap Alloc!Memory(h) = {}
  BY <1>4 DEF Held, Alloc!Memory, words
<1>6. Held' = Held \cup {b}
  BY <1>3 DEF Held, words
<1>7. Alloc!Memory(b) \subseteq 1..(RegionSbs * SBSIZE - 1)
  BY <1>2, Zenon DEF Alloc!Memory
<1>8. b \in [ptr : 1..(RegionSbs * SBSIZE - 1),
             words : {BlockSize[c] : c \in Classes} \cup {n * SBSIZE : n \in LargeSbs}]
  BY <1>1, <1>2, Zenon
<1> QED BY <1>5, <1>6, <1>7, <1>8, Zenon DEF Alloc!Malloc

LEMMA FreeStep ==
  ASSUME NEW p \in at[User], at'[User] = at[User] \ {p},
         \A q \in at'[User] : desc'[desc_lookup(q)] = desc[desc_lookup(q)]
  PROVE  Alloc!Free
<1> DEFINE b == [ptr |-> p, words |-> words(p)]
<1>1. b \in Held
  BY Zenon DEF Held, words
<1>2. Held' = Held \ {b}
  BY DEF Held, words
<1> QED BY <1>1, <1>2, Zenon DEF Alloc!Free

\* A step hands out a block, takes one back, or does neither.
Out == \E q : /\ q \notin at[User] /\ at'[User] = at[User] \cup {q}
              /\ \A r \in at[User] : desc'[desc_lookup(r)] = desc[desc_lookup(r)]
Back == \E q \in at[User] : /\ at'[User] = at[User] \ {q}
                            /\ \A r \in at'[User] : desc'[desc_lookup(r)] = desc[desc_lookup(r)]
Still == at'[User] = at[User] /\ \A r \in at[User] : desc'[desc_lookup(r)] = desc[desc_lookup(r)]

LEMMA Lookup ==
  ASSUME TypeOK, Inv
  PROVE  /\ \A r \in at[User] : desc_lookup(r) \in Sbs
         /\ \A t \in Threads : \A r \in at[Run(t)] : desc_lookup(r) \in Sbs
<1>1. BlockInv
  BY Zenon DEF Inv
<1>2. \A x \in PlacesOfBlocks : \A r \in at[x] : desc_lookup(r) \in Sbs
  BY <1>1, InPlace, Zenon
<1> QED BY <1>2, BlockPlaces, Zenon

LEMMA HandsOut ==
  ASSUME TypeOK, Inv, NEW t \in Threads
  PROVE  /\ \A c \in Classes : \A p : MallocHit(t, c, p) => Out
         /\ \A c \in Classes, d \in Sbs : \A p : Reserve(t, c, d, p) => Out
         /\ \A c \in Classes, d \in Sbs : NewSb(t, c, d) => Out
         /\ \A d \in Sbs, n \in LargeSbs : LargeInit(t, d, n) => Out
<1>1. \A x \in PlacesOfBlocks : x # User => \A q \in at[x] : q \notin at[User]
  BY BlockPlaces DEF TypeOK, Inv, BlockInv, Disjoint
<1>2. at \in [PlacesOfBlocks -> SUBSET Nat]
  BY Zenon DEF TypeOK
<1>3. ASSUME NEW c \in Classes, NEW p, MallocHit(t, c, p) PROVE Out
  BY <1>1, <1>2, <1>3, BlockPlaces DEF MallocHit, Move, Out
<1>4. ASSUME NEW c \in Classes, NEW d \in Sbs, NEW p, Reserve(t, c, d, p) PROVE Out
  <2>1. at'[User] = at[User] \cup {p}
    <3> DEFINE m == Move(at, Free(d), User, {p})
    <3>1. m[User] = at[User] \cup {p} /\ m \in [PlacesOfBlocks -> SUBSET Nat]
      BY <1>2, <1>4, BlockPlaces DEF Reserve, Move
    <3>2. at' = Move(m, Free(d), Bin(t, c), at[Free(d)] \ {p})
      BY <1>4, Zenon DEF Reserve
    <3> HIDE DEF m
    <3> QED BY <3>1, <3>2, BlockPlaces, Zenon DEF Move
  <2>2. p \notin at[User]
    BY <1>1, <1>4, BlockPlaces, Zenon DEF Reserve
  <2> QED BY <1>4, <2>1, <2>2, Zenon DEF Reserve, Out
<1>5. ASSUME NEW d \in Sbs, desc[d] = Descriptor, NEW v \in Descriptors, v # Descriptor,
             desc' = [desc EXCEPT ![d] = v], at'[User] = at[User] \cup {sb_lookup(d)}
      PROVE  Out
  <2>1. Changed(d, v)
    BY <1>5, DescChange, Zenon DEF Inv
  <2>2. BlocksOf(desc[d], d) = {}
    BY <1>5, InBlocksOf, Kinds, Zenon
  <2>3. \A r \in at[User] : desc_lookup(r) # d /\ desc_lookup(r) \in Sbs
    BY <2>1, <2>2, BlockPlaces, Lookup, Zenon DEF Changed
  <2>4. desc_lookup(sb_lookup(d)) = d
    BY <1>5, InBlocksOf, Zenon
  <2> QED BY <1>5, <2>1, <2>3, <2>4, Zenon DEF Changed, Out
<1>6. ASSUME NEW c \in Classes, NEW d \in Sbs, NewSb(t, c, d) PROVE Out
  <2>1. at'[User] = at[User] \cup {sb_lookup(d)}
    BY <1>2, <1>6, BlockPlaces DEF NewSb
  <2> QED BY <1>5, <1>6, <2>1, Kinds, Zenon DEF NewSb
<1>7. ASSUME NEW d \in Sbs, NEW n \in LargeSbs, LargeInit(t, d, n) PROVE Out
  <2>1. at'[User] = at[User] \cup {sb_lookup(d)}
    BY <1>2, <1>7, BlockPlaces, Zenon DEF LargeInit
  <2>2. desc[d] = Descriptor
    <3>1. d \in Range(d, n)
      BY Sizes DEF Range, Sbs
    <3> QED BY <1>7, <3>1, Zenon DEF LargeInit
  <2> QED BY <1>5, <1>7, <2>1, <2>2, Kinds, Zenon DEF LargeInit
<1> QED BY <1>3, <1>4, <1>6, <1>7, Zenon

LEMMA TakesBack ==
  ASSUME TypeOK, Inv
  PROVE  /\ \A t \in Threads, c \in Classes : \A p : FreeHit(t, c, p) \/ FreeFlush(t, c, p) => Back
         /\ \A d \in Sbs : FreeLarge(d) => Back
<1>1. at \in [PlacesOfBlocks -> SUBSET Nat]
  BY Zenon DEF TypeOK
<1>2. ASSUME NEW t \in Threads, NEW c \in Classes, NEW p, FreeHit(t, c, p) PROVE Back
  BY <1>1, <1>2, BlockPlaces DEF FreeHit, Move, Back
<1>3. ASSUME NEW t \in Threads, NEW c \in Classes, NEW p, FreeFlush(t, c, p) PROVE Back
  BY <1>1, <1>3, BlockPlaces, Zenon DEF FreeFlush, Move, Back
<1>4. ASSUME NEW d \in Sbs, FreeLarge(d) PROVE Back
  <2>1. /\ desc' = [desc EXCEPT ![d] = Descriptor] /\ sb_lookup(d) \in at[User]
        /\ at'[User] = at[User] \ {sb_lookup(d)}
    BY <1>1, <1>4, BlockPlaces, Zenon DEF FreeLarge
  <2>2. Changed(d, Descriptor)
    BY <2>1, DescChange, Kinds, Zenon DEF Inv
  <2>3. BlocksOf(desc[d], d) \subseteq {sb_lookup(d)}
    <3>1. \E n \in LargeSbs : desc[d] = LargeDescriptor(n)
      BY <1>4, Kinds, Zenon DEF FreeLarge, TypeOK
    <3> QED BY <3>1, InBlocksOf, Kinds, Zenon
  <2>4. \A r \in at'[User] : desc_lookup(r) # d /\ desc_lookup(r) \in Sbs
    BY <2>1, <2>2, <2>3, BlockPlaces, InPlace, Zenon DEF Changed, Inv
  <2> QED BY <2>1, <2>2, <2>4, Zenon DEF Changed, Back
<1> QED BY <1>2, <1>3, <1>4, Zenon

LEMMA LeavesAlone ==
  ASSUME TypeOK, Inv, NEW t \in Threads
  PROVE  /\ \A d : TakeFree(t, d) \/ Organize(t, d) => Still
         /\ \A c, d : TakePartial(t, c, d) \/ PushPartial(t, c, d) => Still
         /\ \A n : Expand(t, n) => Still
         /\ \A c \in Classes, d \in Sbs : Retire(t, c, d) => Still
         /\ \A c \in Classes : \A R : FlushGrab(t, c, R) => Still
         /\ \A c \in Classes : \A p : FlushDone(t, c, p) => Still
         /\ \A d \in Sbs : FlushCas(t, d) => Still
<1>1. at \in [PlacesOfBlocks -> SUBSET Nat]
  BY Zenon DEF TypeOK
<1>2. /\ \A d : TakeFree(t, d) \/ Organize(t, d) => Still
      /\ \A c, d : TakePartial(t, c, d) \/ PushPartial(t, c, d) => Still
      /\ \A n : Expand(t, n) => Still
  BY Zenon DEF TakeFree, Organize, TakePartial, PushPartial, Expand, Still
<1>3. ASSUME NEW c \in Classes, NEW R, FlushGrab(t, c, R) PROVE Still
  BY <1>1, <1>3, BlockPlaces, Zenon DEF FlushGrab, Move, Still
<1>4. ASSUME NEW c \in Classes, NEW p, FlushDone(t, c, p) PROVE Still
  BY <1>1, <1>4, BlockPlaces DEF FlushDone, Move, Still
<1>5. ASSUME NEW d \in Sbs, FlushCas(t, d) PROVE Still
  BY <1>1, <1>5, BlockPlaces, Zenon DEF FlushCas, Move, Still
<1>6. ASSUME NEW c \in Classes, NEW d \in Sbs, Retire(t, c, d) PROVE Still
  <2>1. /\ desc' = [desc EXCEPT ![d] = Descriptor] /\ at'[User] = at[User]
        /\ at[Free(d)] = BlocksOf(desc[d], d)
    BY <1>1, <1>6, BlockPlaces, Zenon DEF Retire
  <2>2. Changed(d, Descriptor)
    BY <2>1, DescChange, Kinds, Zenon DEF Inv
  <2>3. at[User] \cap at[Free(d)] = {}
    BY <1>1, BlockPlaces, Zenon DEF Inv, BlockInv, Disjoint
  <2>4. \A r \in at[User] : desc_lookup(r) # d /\ desc_lookup(r) \in Sbs
    <3>1. \A r \in at[User] : desc_lookup(r) = d => r \in at[Free(d)]
      BY <2>1, <2>2, BlockPlaces DEF Changed
    <3> QED BY <2>3, <3>1, Lookup, Zenon
  <2> QED BY <2>1, <2>2, <2>4, Zenon DEF Changed, Still
<1> QED BY <1>2, <1>3, <1>4, <1>5, <1>6, Zenon

LEMMA Effect ==
  ASSUME TypeOK, Inv, Next
  PROVE  Still \/ (up' = up /\ (Out \/ Back))
<1>1. \A x \in PlacesOfSbs : sbs[x] \subseteq Sbs
  BY Zenon DEF TypeOK
<1>2. CASE Abort
  BY <1>2, BlockPlaces, Zenon DEF Abort, Still
<1>3. CASE \E d \in Sbs : FreeLarge(d)
  BY <1>3, TakesBack, Zenon DEF FreeLarge
<1>4. ASSUME NEW t \in Threads, SbStep(t) PROVE Still \/ (up' = up /\ (Out \/ Back))
  <2>1. CASE \/ \E d \in sbs[Avail] : TakeFree(t, d)
             \/ \E c \in Classes : \E d \in sbs[Partial(c)] : TakePartial(t, c, d)
             \/ \E n \in LargeSbs \cup {ExpandSbs} : Expand(t, n)
    BY <2>1, LeavesAlone, Zenon
  <2>2. ASSUME NEW d \in sbs[Hand(t)],
               \/ Organize(t, d)
               \/ \E n \in LargeSbs : LargeInit(t, d, n)
               \/ \E c \in Classes : Retire(t, c, d) \/ PushPartial(t, c, d) \/ NewSb(t, c, d)
               \/ \E c \in Classes : \E p \in at[Free(d)] : Reserve(t, c, d, p)
        PROVE  Still \/ (up' = up /\ (Out \/ Back))
    <3>1. d \in Sbs
      BY <1>1, SbPlaces, Zenon
    <3> QED BY <2>2, <3>1, LeavesAlone, HandsOut, Zenon DEF LargeInit, NewSb, Reserve
  <2> QED BY <1>4, <2>1, <2>2, Zenon DEF SbStep
<1>5. ASSUME NEW t \in Threads, BlockStep(t) PROVE Still \/ (up' = up /\ (Out \/ Back))
  <2>1. CASE \E c \in Classes : \/ \E p \in at[Bin(t, c)] : MallocHit(t, c, p)
                                \/ \E p \in at[User] : FreeHit(t, c, p) \/ FreeFlush(t, c, p)
                                \/ \E R \in SUBSET at[Bin(t, c)] : FlushGrab(t, c, R)
                                \/ \E p \in at[Pending(t)] : FlushDone(t, c, p)
    BY <2>1, HandsOut, TakesBack, LeavesAlone, Zenon DEF MallocHit, FreeHit, FreeFlush
  <2>2. CASE \E p \in at[Run(t)] : FlushCas(t, desc_lookup(p))
    BY <2>2, Lookup, LeavesAlone, Zenon
  <2> QED BY <1>5, <2>1, <2>2, Zenon DEF BlockStep
<1> QED BY <1>2, <1>3, <1>4, <1>5, Zenon DEF Next

\* BaseMeta: what do_malloc returns is memory of the sb region that nobody
\* holds, and it stays the caller's until do_free.
THEOREM HeldNeverOverlaps == Spec => ImplementsAllocator
<1>1. Init => Alloc!Init
  <2>1. Init => at[User] = {}
    BY BlockPlaces, Zenon DEF Init
  <2> QED BY <2>1, Zenon DEF Alloc!Init, Held
<1>2. (IInv /\ up => UserInv)'
  BY UserHolds, PTL
<1>3. ASSUME IInv, IInv', IInv' /\ up' => UserInv', [Next]_vars
      PROVE  [Alloc!Next]_Held
  <2>1. CASE UNCHANGED vars
    BY <2>1, Zenon DEF vars, Held
  <2>2. CASE Next
    <3>1. up /\ TypeOK /\ Inv /\ UserInv
      BY <1>3, <2>2, UserHolds, Zenon DEF Next, IInv
    <3>2. CASE Still
      BY <3>2, Zenon DEF Still, Held
    <3>3. CASE up' = up /\ Out
      BY <1>3, <3>1, <3>3, MallocStep, Zenon DEF Out, Alloc!Next
    <3>4. CASE Back
      BY <3>4, FreeStep, Zenon DEF Back, Alloc!Next
    <3> QED BY <2>2, <3>1, <3>2, <3>3, <3>4, Effect, Zenon
  <2> QED BY <1>3, <2>1, <2>2, Zenon
<1> QED BY <1>1, <1>2, <1>3, Invariant, PTL DEF Spec, ImplementsAllocator, Alloc!Spec

=============================================================================

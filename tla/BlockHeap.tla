------------------------------ MODULE BlockHeap ------------------------------
(***************************************************************************)
(* BaseMeta as movement: every superblock and every block is in a place,   *)
(* and the steps of malloc and free move it to another one.  A place is a  *)
(* set; the links, counts and retries by which the threads keep these sets *)
(* are in Heap, which implements this specification.                       *)
(***************************************************************************)
EXTENDS Superblocks

VARIABLES up,    \* whether the process is alive
          curr,  \* first superblock beyond curr_addr of the sb region
          desc,  \* the descriptors
          sbs,   \* sbs[x]: superblocks in place x
          at     \* at[x]: blocks in place x, as addresses

vars == <<up, curr, desc, sbs, at>>

Move(f, x, y, R) == [f EXCEPT ![x] = @ \ R, ![y] = @ \cup R]

Range(d, n) == d..(d + n - 1)

Init ==
  /\ up = TRUE /\ curr = ExpandSbs
  /\ desc = [s \in Sbs |-> Descriptor]
  /\ sbs = [x \in PlacesOfSbs |-> IF x = Avail THEN 1..(ExpandSbs - 1) ELSE {}]
  /\ at = [x \in PlacesOfBlocks |-> {}]

-----------------------------------------------------------------------------
(* Superblocks *)

TakePartial(t, c, d) ==
  /\ d \in sbs[Partial(c)] /\ sbs[Hand(t)] = {}
  /\ sbs' = Move(sbs, Partial(c), Hand(t), {d})
  /\ UNCHANGED <<up, curr, desc, at>>

\* Thread t reserves all free blocks of d: one is returned.
Reserve(t, c, d, p) ==
  /\ sbs[Hand(t)] = {d} /\ desc[d].heap = c
  /\ p \in at[Free(d)] /\ at[Free(d)] # BlocksOf(desc[d], d)
  /\ at[Bin(t, c)] = {}
  /\ sbs' = Move(sbs, Hand(t), Full, {d})
  /\ at' = Move(Move(at, Free(d), User, {p}), Free(d), Bin(t, c), at[Free(d)] \ {p})
  /\ UNCHANGED <<up, curr, desc>>

\* A superblock all of whose blocks are free can serve another class.
Retire(t, c, d) ==
  /\ sbs[Hand(t)] = {d} /\ desc[d].heap = c
  /\ at[Free(d)] = BlocksOf(desc[d], d)
  /\ desc' = [desc EXCEPT ![d] = Descriptor]
  /\ sbs' = Move(sbs, Hand(t), Avail, {d})
  /\ at' = [at EXCEPT ![Free(d)] = {}]
  /\ UNCHANGED <<up, curr>>

PushPartial(t, c, d) ==
  /\ sbs[Hand(t)] = {d} /\ desc[d].heap = c
  /\ sbs' = Move(sbs, Hand(t), Partial(c), {d})
  /\ UNCHANGED <<up, curr, desc, at>>

TakeFree(t, d) ==
  /\ d \in sbs[Avail] /\ sbs[Hand(t)] = {}
  /\ sbs' = Move(sbs, Avail, Hand(t), {d})
  /\ UNCHANGED <<up, curr, desc, at>>

\* The sb region is expanded by n superblocks.
Expand(t, n) ==
  /\ curr + n <= RegionSbs /\ sbs[Hand(t)] = {}
  /\ curr' = curr + n
  /\ sbs' = [sbs EXCEPT ![Hand(t)] = Range(curr, n)]
  /\ UNCHANGED <<up, desc, at>>

\* All but the first of them are free.
Organize(t, d) ==
  /\ sbs[Hand(t)] = Range(d, ExpandSbs)
  /\ \A s \in sbs[Hand(t)] : desc[s] = Descriptor
  /\ sbs' = Move(sbs, Hand(t), Avail, Range(d + 1, ExpandSbs - 1))
  /\ UNCHANGED <<up, curr, desc, at>>

\* A new superblock of class c: its first block is returned.
NewSb(t, c, d) ==
  LET new == SmallDescriptor(c) IN
  /\ sbs[Hand(t)] = {d} /\ desc[d] = Descriptor
  /\ at[Bin(t, c)] = {}
  /\ desc' = [desc EXCEPT ![d] = new]
  /\ sbs' = Move(sbs, Hand(t), Full, {d})
  /\ at' = [at EXCEPT ![User] = @ \cup {sb_lookup(d)},
                      ![Bin(t, c)] = BlocksOf(new, d) \ {sb_lookup(d)}]
  /\ UNCHANGED <<up, curr>>

-----------------------------------------------------------------------------
(* Blocks *)

MallocHit(t, c, p) ==
  /\ p \in at[Bin(t, c)]
  /\ at' = Move(at, Bin(t, c), User, {p})
  /\ UNCHANGED <<up, curr, desc, sbs>>

FreeHit(t, c, p) ==
  /\ p \in at[User] /\ desc[desc_lookup(p)].heap = c
  /\ at' = Move(at, User, Bin(t, c), {p})
  /\ UNCHANGED <<up, curr, desc, sbs>>

FreeFlush(t, c, p) ==
  /\ p \in at[User] /\ desc[desc_lookup(p)].heap = c
  /\ at[Pending(t)] = {}
  /\ at' = Move(at, User, Pending(t), {p})
  /\ UNCHANGED <<up, curr, desc, sbs>>

\* Blocks R of one superblock leave a bin.
FlushGrab(t, c, R) ==
  /\ at[Run(t)] = {} /\ R # {}
  /\ \A p, q \in R : desc_lookup(p) = desc_lookup(q)
  /\ at' = Move(at, Bin(t, c), Run(t), R)
  /\ UNCHANGED <<up, curr, desc, sbs>>

\* They are free again.  If d was full, thread t has to list or retire it.
FlushCas(t, d) ==
  /\ at[Run(t)] # {} /\ \A p \in at[Run(t)] : desc_lookup(p) = d
  /\ sbs[Hand(t)] = {}
  /\ at' = Move(at, Run(t), Free(d), at[Run(t)])
  /\ sbs' = IF d \in sbs[Full] THEN Move(sbs, Full, Hand(t), {d}) ELSE sbs
  /\ UNCHANGED <<up, curr, desc>>

FlushDone(t, c, p) ==
  /\ at[Pending(t)] = {p} /\ desc[desc_lookup(p)].heap = c
  /\ at[Bin(t, c)] = {}
  /\ at' = Move(at, Pending(t), Bin(t, c), {p})
  /\ UNCHANGED <<up, curr, desc, sbs>>

-----------------------------------------------------------------------------
(* Large blocks *)

LargeInit(t, d, n) ==
  /\ sbs[Hand(t)] = Range(d, n)
  /\ \A s \in sbs[Hand(t)] : desc[s] = Descriptor
  /\ desc' = [desc EXCEPT ![d] = LargeDescriptor(n)]
  /\ sbs' = Move(sbs, Hand(t), Large(d), Range(d, n))
  /\ at' = [at EXCEPT ![User] = @ \cup {sb_lookup(d)}]
  /\ UNCHANGED <<up, curr>>

FreeLarge(d) ==
  /\ desc[d].heap = LargeHeap /\ sb_lookup(d) \in at[User]
  /\ desc' = [desc EXCEPT ![d] = Descriptor]
  /\ sbs' = Move(sbs, Large(d), Avail, sbs[Large(d)])
  /\ at' = [at EXCEPT ![User] = @ \ {sb_lookup(d)}]
  /\ UNCHANGED <<up, curr>>

-----------------------------------------------------------------------------

\* The process ends; what its threads were working on is in no place.
Abort ==
  /\ up' = FALSE
  /\ sbs' = [x \in PlacesOfSbs |-> IF \E t \in Threads : x = Hand(t) THEN {} ELSE sbs[x]]
  /\ at' = [x \in PlacesOfBlocks |->
              IF \E t \in Threads : x \in {Run(t), Pending(t)} THEN {} ELSE at[x]]
  /\ UNCHANGED <<curr, desc>>

SbStep(t) ==
  \/ \E d \in sbs[Avail] : TakeFree(t, d)
  \/ \E c \in Classes : \E d \in sbs[Partial(c)] : TakePartial(t, c, d)
  \/ \E d \in sbs[Hand(t)] :
       \/ Organize(t, d)
       \/ \E n \in LargeSbs : LargeInit(t, d, n)
       \/ \E c \in Classes :
            \/ Retire(t, c, d) \/ PushPartial(t, c, d) \/ NewSb(t, c, d)
            \/ \E p \in at[Free(d)] : Reserve(t, c, d, p)
  \/ \E n \in LargeSbs \cup {ExpandSbs} : Expand(t, n)

BlockStep(t) ==
  \/ \E c \in Classes :
       \/ \E p \in at[Bin(t, c)] : MallocHit(t, c, p)
       \/ \E p \in at[User] : FreeHit(t, c, p) \/ FreeFlush(t, c, p)
       \/ \E R \in SUBSET at[Bin(t, c)] : FlushGrab(t, c, R)
       \/ \E p \in at[Pending(t)] : FlushDone(t, c, p)
  \/ \E p \in at[Run(t)] : FlushCas(t, desc_lookup(p))

Next == /\ up
        /\ \/ \E t \in Threads : SbStep(t) \/ BlockStep(t)
           \/ \E d \in Sbs : FreeLarge(d)
           \/ Abort

Spec == Init /\ [][Next]_vars

-----------------------------------------------------------------------------
(* Properties *)

Descriptors == {Descriptor} \cup {SmallDescriptor(c) : c \in Classes}
                 \cup {LargeDescriptor(n) : n \in LargeSbs}

\* Every variable has its type.
TypeOK ==
  /\ up \in BOOLEAN /\ curr \in ExpandSbs..RegionSbs
  /\ desc \in [Sbs -> Descriptors]
  /\ sbs \in [PlacesOfSbs -> SUBSET Sbs]
  /\ at \in [PlacesOfBlocks -> SUBSET Nat]

Disjoint(f) == \A x, y \in DOMAIN f : x # y => f[x] \cap f[y] = {}
All(f) == UNION {f[x] : x \in DOMAIN f}
AllBlocks == UNION {BlocksOf(desc[s], s) : s \in Sbs}

\* A free superblock is free of blocks: whatever it served before, nobody has,
\* caches, flushes or lists memory of it.
FreeSbsUnused ==
  up => \A s \in sbs[Avail], x \in PlacesOfBlocks : \A p \in at[x] :
          \/ p + desc[desc_lookup(p)].block_size <= sb_lookup(s)
          \/ sb_lookup(s + 1) <= p

\* Every block of every superblock in use is in exactly one place.
BlocksOnce == up => Disjoint(at) /\ All(at) = AllBlocks

\* No free block is stranded: its superblock is in the partial list of its
\* class, where malloc finds it, or a thread is about to list or retire it.
FreeIsListed ==
  up => \A s \in Sbs : at[Free(s)] # {} =>
          \/ desc[s].heap \in Classes /\ s \in sbs[Partial(desc[s].heap)]
          \/ \E t \in Threads : sbs[Hand(t)] = {s}

\* A bin holds blocks of its class only, so that malloc returns what was
\* asked for.
BinsHoldTheirClass ==
  up => \A t \in Threads, c \in Classes : \A p \in at[Bin(t, c)] :
          desc[desc_lookup(p)] = SmallDescriptor(c)

\* What the application holds never overlaps.
Held == {[ptr |-> p, words |-> desc[desc_lookup(p)].block_size] : p \in at[User]}
Alloc == INSTANCE Allocator WITH
           Top <- RegionSbs * SBSIZE - 1,
           Sizes <- {BlockSize[c] : c \in Classes} \cup {n * SBSIZE : n \in LargeSbs},
           live <- Held
ImplementsAllocator == Alloc!Spec
=============================================================================

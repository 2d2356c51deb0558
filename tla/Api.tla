--------------------------------- MODULE Api ---------------------------------
(***************************************************************************)
(* The calls of ralloc.hpp on blocks and what the blocks hold: RP_malloc,  *)
(* RP_free, RP_calloc, RP_realloc and RP_malloc_size, by several threads.  *)
(* A call that is made of several is several steps.  do_malloc and do_free *)
(* are what module Allocator promises; free memory holds links and what    *)
(* was there before, all of which is junk.  A word has one address.        *)
(* Two things void these promises, and intact tells whether one of them    *)
(* has happened: a block too large for the size field of its descriptor,   *)
(* and a copy that runs over the end of its block, perhaps over the links  *)
(* of free blocks.                                                         *)
(***************************************************************************)
EXTENDS SizeClass, FiniteSets

CONSTANTS Threads,
          Sbs,          \* number of superblocks
          Requests,     \* sizes that are asked for
          Callocs,      \* arguments of calloc: <<num, size>>
          Values,       \* what the application stores
          Junk, Unset,  \* what a free word holds; a word nobody stored to
          BLOCK_SIZES,  \* Descriptor::block_size is below it: 2^32 in the code
          MaxBlocks     \* bound: blocks allocated at a time

ASSUME ApiAssumption ==
  /\ Sbs \in Nat /\ BLOCK_SIZES \in Nat \ {0} /\ Requests \subseteq Nat
  /\ Callocs \subseteq Nat \X Nat /\ Unset \notin Values \cup {0, Junk}
  /\ MaxBlocks \in Nat

VARIABLES
  mem,    \* the words of the sb region
  desc,   \* desc[s]: block_size and sc_idx of superblock s
  alloc,  \* what the allocator has given out: [ptr, words]
  pc, loc,  \* where each thread is in its call, and its locals
  data,   \* data[p]: what the application expects in its block p
  intact  \* history: every block fits its descriptor, every copy its block

vars == <<scvars, mem, desc, alloc, pc, loc, data, intact>>

Words == 0..(Sbs * SBSIZE - 1)
nullptr == -1
in_range(p) == p \in Words
SbOf(p) == p \div SBSIZE
Memory(b) == b.ptr..(b.ptr + b.words - 1)
Sb(s) == (s * SBSIZE)..((s + 1) * SBSIZE - 1)
Descriptor(c, n) == [sc_idx |-> c, block_size |-> n % BLOCK_SIZES]
Idle == [p |-> 0, q |-> 0, size |-> 0, old |-> 0]

round_up(n) == ((n + SBSIZE - 1) \div SBSIZE) * SBSIZE

\* The application's blocks that no call is working on.
Mine == DOMAIN data \ {loc[t].p : t \in {u \in Threads : pc[u] # "idle"}}

Init ==
  /\ ScInit
  /\ mem = [a \in Words |-> Junk]
  /\ desc = [s \in 0..(Sbs - 1) |-> Descriptor(0, 0)]
  /\ alloc = {} /\ data = [p \in {} |-> 0]
  /\ pc = [t \in Threads |-> "idle"] /\ loc = [t \in Threads |-> Idle]
  /\ intact = TRUE

-----------------------------------------------------------------------------
(* BaseMeta *)

\* What a malloc of size gets, and the class it goes to.
SizeClassOf(size) == IF size > MAX_SZ THEN 0 ELSE get_sizeclass(size)
BlockWords(size) == IF size > MAX_SZ THEN round_up(size) ELSE Table[get_sizeclass(size)]

\* A small block lies in a superblock of its class, or in one that was empty.
\* When the region is used up the process aborts, so that no null is returned.
do_malloc(size, p) ==
  LET c == SizeClassOf(size)
      b == [ptr |-> p, words |-> BlockWords(size)]
      s == SbOf(p)
  IN /\ ScConstructed
     /\ Cardinality(alloc) < MaxBlocks
     /\ Memory(b) \subseteq Words
     /\ \A a \in alloc : Memory(a) \cap Memory(b) = {}
     /\ IF c = 0 THEN p % SBSIZE = 0
        ELSE /\ Memory(b) \subseteq Sb(s) /\ (p - s * SBSIZE) % b.words = 0
             /\ \/ desc[s].sc_idx = c
                \/ \A a \in alloc : Memory(a) \cap Sb(s) = {}
     /\ desc' = [desc EXCEPT ![s] = Descriptor(c, b.words)]
     /\ alloc' = alloc \cup {b}
     /\ intact' = (intact /\ b.words < BLOCK_SIZES)

\* Mutant of RP_malloc_size: the descriptor of the next superblock.
RP_malloc_size_Next(p) == desc[(SbOf(p) + 1) % Sbs].block_size

RP_malloc_size(p) == desc[SbOf(p)].block_size

\* What block p gives back: as much as its descriptor says, but at least the
\* superblock that organize_sb_list pushes when the size reads as zero.
Released(p) == IF RP_malloc_size(p) = 0 THEN SBSIZE ELSE RP_malloc_size(p)

\* The list of the block's class, or avail_sb, is its owner again.  What lies
\* beyond the size in the descriptor stays allocated.
do_free(p) ==
  LET n == Released(p)
      freed == {b \in alloc : b.ptr = p}
      left == {b \in freed : b.words > n}
  IN /\ mem' = [a \in Words |-> IF a \in p..(p + n - 1) THEN Junk ELSE mem[a]]
     /\ alloc' = (alloc \ freed) \cup {[ptr |-> p + n, words |-> b.words - n] : b \in left}

-----------------------------------------------------------------------------
(* The application's view *)

Filled(size, v) == [i \in 0..(size - 1) |-> v]
With(p, d) == [q \in DOMAIN data \cup {p} |-> IF q = p THEN d ELSE data[q]]
Without(p) == [q \in DOMAIN data \ {p} |-> data[q]]

Goto(t, where, l) == pc' = [pc EXCEPT ![t] = where] /\ loc' = [loc EXCEPT ![t] = l]

\* What block p holds, as far as it goes.
Copied(p, size) ==
  [i \in 0..(size - 1) |-> IF i \in DOMAIN data[p] THEN data[p][i] ELSE Unset]

RP_malloc(t, size) ==
  /\ pc[t] = "idle"
  /\ \E p \in Words :
       /\ do_malloc(size, p)
       /\ data' = With(p, Filled(size, Unset))
  /\ UNCHANGED <<scvars, mem, pc, loc>>

RP_free(t, p) ==
  /\ pc[t] = "idle" /\ p \in Mine
  /\ do_free(p)
  /\ data' = Without(p)
  /\ UNCHANGED <<scvars, desc, pc, loc, intact>>

Store(t, p, v) ==
  /\ pc[t] = "idle" /\ p \in Mine
  /\ \E i \in DOMAIN data[p] :
       /\ mem' = [mem EXCEPT ![p + i] = v]
       /\ data' = [data EXCEPT ![p][i] = v]
  /\ UNCHANGED <<scvars, desc, alloc, pc, loc, intact>>

RP_calloc(t, num, size) ==
  /\ pc[t] = "idle"
  /\ \E q \in Words :
       /\ do_malloc(num * size, q)
       /\ Goto(t, "memset", [p |-> q, q |-> q, size |-> num * size, old |-> 0])
  /\ UNCHANGED <<scvars, mem, data>>

\* Mutant of CallocSet: one word less.
CallocSet_Short(t) ==
  LET l == loc[t]  real_size == RP_malloc_size(l.q) - 1 IN
  /\ pc[t] = "memset"
  /\ mem' = [a \in Words |-> IF a \in l.q..(l.q + real_size - 1) THEN 0 ELSE mem[a]]
  /\ data' = With(l.q, Filled(l.size, 0))
  /\ Goto(t, "idle", Idle)
  /\ UNCHANGED <<scvars, desc, alloc, intact>>

\* The whole block is set to zero, not only what was asked for.
CallocSet(t) ==
  LET l == loc[t]  real_size == RP_malloc_size(l.q) IN
  /\ pc[t] = "memset"
  /\ mem' = [a \in Words |-> IF a \in l.q..(l.q + real_size - 1) THEN 0 ELSE mem[a]]
  /\ data' = With(l.q, Filled(l.size, 0))
  /\ Goto(t, "idle", Idle)
  /\ UNCHANGED <<scvars, desc, alloc, intact>>

\* The block stays if its size is exactly the one asked for.
ReallocSame(t, p, size) ==
  /\ pc[t] = "idle"
  /\ RP_malloc_size(p) = size
  /\ data' = With(p, Copied(p, size))
  /\ UNCHANGED <<scvars, mem, desc, alloc, pc, loc, intact>>

ReallocMove(t, p, size) ==
  LET old == RP_malloc_size(p) IN
  /\ pc[t] = "idle"
  /\ old # size
  /\ \E q \in Words :
       /\ do_malloc(size, q)
       /\ Goto(t, "memcpy", [p |-> p, q |-> q, size |-> size, old |-> old])
  /\ UNCHANGED <<scvars, mem, data>>

\* A pointer out of range is answered by nullptr, which changes nothing.
ReallocRefuse(t) == pc[t] = "idle" /\ UNCHANGED vars

\* Mutant of RP_realloc: the block stays also if it is too small.
RP_realloc_Stay(t, p, size) ==
  \/ p = nullptr /\ RP_malloc(t, size)
  \/ p # nullptr /\ ~in_range(p) /\ ReallocRefuse(t)
  \/ /\ in_range(p) /\ pc[t] = "idle" /\ RP_malloc_size(p) <= size
     /\ data' = With(p, Copied(p, size))
     /\ UNCHANGED <<scvars, mem, desc, alloc, pc, loc, intact>>

RP_realloc(t, p, size) ==
  \/ p = nullptr /\ RP_malloc(t, size)
  \/ p # nullptr /\ ~in_range(p) /\ ReallocRefuse(t)
  \/ in_range(p) /\ (ReallocSame(t, p, size) \/ ReallocMove(t, p, size))

\* The old size is copied, whatever the new one: the words behind a smaller
\* block are overwritten.  If these are among the ones to be copied, which
\* memcpy does not allow, any word of the old block may be in any of the new.
ReallocCopy(t) ==
  LET l == loc[t]
      target == l.q..(l.q + l.old - 1)
      source == l.p..(l.p + l.old - 1)
  IN /\ pc[t] = "memcpy"
     /\ IF target \cap source = {}
        THEN mem' = [a \in Words |-> IF a \in target THEN mem[l.p + (a - l.q)] ELSE mem[a]]
        ELSE \E new \in [target \cap Words -> {mem[a] : a \in source}] :
               mem' = [a \in Words |-> IF a \in target THEN new[a] ELSE mem[a]]
     /\ intact' = (intact /\ l.old <= RP_malloc_size(l.q))
     /\ Goto(t, "free", l)
     /\ UNCHANGED <<scvars, desc, alloc, data>>

\* Mutant of ReallocFree: the new block is freed.
ReallocFree_New(t) ==
  LET l == loc[t] IN
  /\ pc[t] = "free"
  /\ do_free(l.q)
  /\ data' = [r \in (DOMAIN data \ {l.p}) \cup {l.q} |->
                IF r = l.q THEN Copied(l.p, l.size) ELSE data[r]]
  /\ Goto(t, "idle", Idle)
  /\ UNCHANGED <<scvars, desc, intact>>

ReallocFree(t) ==
  LET l == loc[t] IN
  /\ pc[t] = "free"
  /\ do_free(l.p)
  /\ data' = [r \in (DOMAIN data \ {l.p}) \cup {l.q} |->
                IF r = l.q THEN Copied(l.p, l.size) ELSE data[r]]
  /\ Goto(t, "idle", Idle)
  /\ UNCHANGED <<scvars, desc, intact>>

-----------------------------------------------------------------------------

Call(t) ==
  \/ \E size \in Requests : RP_malloc(t, size)
  \/ \E a \in Callocs : RP_calloc(t, a[1], a[2])
  \/ \E p \in Mine : RP_free(t, p)
  \/ \E p \in Mine \cup {nullptr, Sbs * SBSIZE}, size \in Requests : RP_realloc(t, p, size)
  \/ \E p \in Mine, v \in Values : Store(t, p, v)

Step(t) == CallocSet(t) \/ ReallocCopy(t) \/ ReallocFree(t)

Construct == ScConstruct /\ UNCHANGED <<mem, desc, alloc, pc, loc, data, intact>>

Next == Construct \/ \E t \in Threads : Call(t) \/ Step(t)

Spec == Init /\ [][Next]_vars

-----------------------------------------------------------------------------
(* Properties *)

\* While every block fits its descriptor and every copy its block, variables
\* have their types and all blocks, and what is stored to them, lie in the region.
TypeOK ==
  /\ ScTypeOK
  /\ intact \in BOOLEAN
  /\ intact =>
       /\ mem \in [Words -> Values \cup {0, Junk}]
       /\ \A s \in 0..(Sbs - 1) : /\ desc[s].sc_idx \in 0..Len(Table)
                                  /\ desc[s].block_size \in 0..(BLOCK_SIZES - 1)
       /\ \A b \in alloc : Memory(b) \subseteq Words
       /\ \A p \in DOMAIN data : \A i \in DOMAIN data[p] : p + i \in Words
       /\ pc \in [Threads -> {"idle", "memset", "memcpy", "free"}]

\* A block that no call is working on holds what was stored to it: RP_realloc
\* replaces realloc, which writes to no block but the one it returns.
OthersKept ==
  \A p \in Mine : \A i \in DOMAIN data[p] : data[p][i] # Unset => mem[p + i] = data[p][i]

\* While every block fits its descriptor and every copy its block, a block
\* holds what was stored to it, also after it was reallocated or set to zero,
\* whatever other threads do with theirs.
DataKept ==
  intact => \A p \in DOMAIN data : \A i \in DOMAIN data[p] :
              data[p][i] # Unset => mem[p + i] = data[p][i]

\* Until then RP_malloc_size is the size of the block, and no less than was
\* asked for.
SizeIsTrue ==
  intact => \A p \in DOMAIN data :
              /\ \E b \in alloc : b.ptr = p /\ b.words = RP_malloc_size(p)
              /\ \A i \in DOMAIN data[p] : i < RP_malloc_size(p)

\* Until then what is allocated is what the application has or a call is about
\* to return.
NothingLost ==
  intact => {b.ptr : b \in alloc}
              = DOMAIN data \cup {loc[t].q : t \in {u \in Threads : pc[u] # "idle"}}
=============================================================================

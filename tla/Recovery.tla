------------------------------ MODULE Recovery ------------------------------
(***************************************************************************)
(* GarbageCollection: after a crash the free lists are rebuilt from what   *)
(* is reachable from the persistent roots.  The application first links    *)
(* blocks, then the process or the machine crashes, the collector marks    *)
(* and sweeps, and may crash itself.  Addresses and descriptors are the    *)
(* numbers of module Heap.  desc and mem are what the program sees, pdesc  *)
(* and pmem what a power failure leaves.                                   *)
(***************************************************************************)
EXTENDS Integers, Sequences, FiniteSetsExt

CONSTANTS SBSIZE,       \* words of a superblock
          BlockSize,    \* BlockSize[c]: words of a block of size class c
          EndSb,        \* first superblock beyond curr_addr
          LargeSbs,     \* superblocks that large blocks may have
          Interior,     \* words of a large block that may be pointed at
          MaxRoots,
          MaxPtrs,      \* bound: pointers the application stores in blocks
          MaxCrashes,   \* bound: crashes of a behaviour
          PowerFails    \* whether crashes are power failures

Classes == DOMAIN BlockSize
Sbs == 1..(EndSb - 1)
Words == SBSIZE..(EndSb * SBSIZE - 1)
RootIdx == 1..MaxRoots

ASSUME RecoveryAssumption ==
  /\ SBSIZE \in Nat \ {0} /\ EndSb \in Nat /\ EndSb >= 2
  /\ BlockSize \in Seq(1..SBSIZE)
  /\ LargeSbs \subseteq (Nat \ {0}) /\ Interior \subseteq Nat
  /\ MaxRoots \in Nat /\ MaxPtrs \in Nat /\ MaxCrashes \in Nat
  /\ PowerFails \in BOOLEAN

VARIABLES
  phase,         \* of the application and the collector
  desc, pdesc,   \* descriptors: the fields that must persist
  mem, pmem,     \* the word at each address: an address or null
  roots,         \* persistent roots
  avail_sb, partial_list, anchor,  \* what is reconstructed
  marked_blk, to_filter,           \* the collector's set and stack
  next_root,     \* the root to mark next
  scan, scan_end,  \* the words of the current node that are not yet read
  rest,          \* marked blocks the sweep has not passed
  curr_sb,       \* the superblock to sweep next
  new_avail,     \* the free superblocks found
  state, count,  \* what is known of the anchor of curr_sb,
  free_block,    \* ... its last possible free block,
  free_head,     \* ... and the head of its free list
  kept,          \* history: reachable blocks in what the crash left
  kept_words,    \* history: their contents
  crashes        \* history: crashes so far

heap == <<desc, pdesc, mem, pmem>>
lists == <<avail_sb, partial_list, anchor>>
marking == <<marked_blk, to_filter, next_root, scan, scan_end>>
curr == <<curr_sb, state, count, free_block, free_head>>
sweeping == <<rest, new_avail, curr>>
history == <<kept, kept_words, crashes>>
vars == <<phase, heap, roots, lists, marking, sweeping, history>>

-----------------------------------------------------------------------------
(* Data *)

null == 0
NoHeap == -1
LargeHeap == 0

Descriptor == [heap |-> NoHeap, superblock |-> null, block_size |-> 0, maxcount |-> 0]
SmallDesc(s, c) == [heap |-> c, superblock |-> s * SBSIZE, block_size |-> BlockSize[c],
                    maxcount |-> SBSIZE \div BlockSize[c]]
LargeDesc(s, n) == [heap |-> LargeHeap, superblock |-> s * SBSIZE,
                    block_size |-> n * SBSIZE, maxcount |-> 1]
Anchor(a, n, s) == [avail |-> a, count |-> n, state |-> s]
NoAnchor == Anchor(0, 0, "ERROR")

Load(m, a) == IF a \in Words THEN m[a] ELSE null
desc_lookup(p) == p \div SBSIZE

\* The blocks that descriptors ds describe.  The later superblocks of a
\* large block have descriptors that were never used.
Blocks(ds) ==
  UNION {{[start |-> s * SBSIZE + i * ds[s].block_size, words |-> ds[s].block_size] :
            i \in 0..(ds[s].maxcount - 1)} : s \in Sbs}
WordsOf(b) == b.start..(b.start + b.words - 1)

\* Where the application's pointers may point: to the start of a block and,
\* in a large one, to some places inside.
Targets == {b.start : b \in Blocks(desc)}
             \cup {b.start + i : b \in {c \in Blocks(desc) : c.words >= SBSIZE},
                                 i \in Interior}

\* The reference: blocks reachable from the roots.  A path to a block passes
\* different pointers, so that MaxPtrs steps find all.
AllWords(bs) == UNION {WordsOf(b) : b \in bs}
Holding(ds, ptrs) == {b \in Blocks(ds) : WordsOf(b) \cap ptrs # {}}
Reachable(ds, m, rs) ==
  LET reach[n \in 0..MaxPtrs] ==
        IF n = 0 THEN Holding(ds, Range(rs))
        ELSE reach[n - 1] \cup Holding(ds, {m[w] : w \in AllWords(reach[n - 1])})
  IN  reach[MaxPtrs]

\* Superblock 1 belongs to the first expansion, which is cut into small ones.
Layouts ==
  LET kinds == {<<"free", 0>>} \cup ({"small"} \X Classes) \cup ({"large"} \X LargeSbs)
      fits(k) == \A s \in Sbs : k[s][1] = "large" =>
                   /\ s > 1 /\ s + k[s][2] <= EndSb
                   /\ \A r \in (s + 1)..(s + k[s][2] - 1) : k[r][1] = "free"
      of(s, k) == CASE k[1] = "free" -> Descriptor
                    [] k[1] = "small" -> SmallDesc(s, k[2])
                    [] k[1] = "large" -> LargeDesc(s, k[2])
  IN  {[s \in Sbs |-> of(s, k[s])] : k \in {f \in [Sbs -> kinds] : fits(f)}}

\* Descriptors without those of large blocks.
SmallOnly(ds) == [s \in Sbs |-> IF ds[s].heap = LargeHeap THEN Descriptor ELSE ds[s]]

\* Mutant of Init: no descriptor is written back.
Init_NoFlush ==
  /\ phase = "running"
  /\ desc \in Layouts
  /\ pdesc = [s \in Sbs |-> Descriptor]
  /\ mem = [w \in Words |-> null] /\ pmem = mem
  /\ roots = [i \in RootIdx |-> null]
  /\ avail_sb = << >> /\ partial_list = [c \in Classes |-> << >>]
  /\ anchor = [s \in Sbs |-> NoAnchor]
  /\ marked_blk = {} /\ to_filter = << >> /\ next_root = 1 /\ scan = 0 /\ scan_end = 0
  /\ rest = {} /\ new_avail = << >>
  /\ curr_sb = 1 /\ state = "EMPTY" /\ count = 0 /\ free_block = SBSIZE /\ free_head = null
  /\ kept = {} /\ kept_words = {} /\ crashes = 0

\* malloc_from_newsb writes back the descriptor of a small superblock.
\* do_malloc does not write back that of a large block, but expand_get_large_sb
\* has written back an empty one before.
Init ==
  /\ phase = "running"
  /\ desc \in Layouts
  /\ pdesc = SmallOnly(desc)
  /\ mem = [w \in Words |-> null] /\ pmem = mem
  /\ roots = [i \in RootIdx |-> null]
  /\ avail_sb = << >> /\ partial_list = [c \in Classes |-> << >>]
  /\ anchor = [s \in Sbs |-> NoAnchor]
  /\ marked_blk = {} /\ to_filter = << >> /\ next_root = 1 /\ scan = 0 /\ scan_end = 0
  /\ rest = {} /\ new_avail = << >>
  /\ curr_sb = 1 /\ state = "EMPTY" /\ count = 0 /\ free_block = SBSIZE /\ free_head = null
  /\ kept = {} /\ kept_words = {} /\ crashes = 0

-----------------------------------------------------------------------------
(* The application, and crashes *)

set_root(i, p) ==
  /\ phase = "running"
  /\ roots' = [roots EXCEPT ![i] = p]
  /\ UNCHANGED <<phase, heap, lists, marking, sweeping, history>>

\* The application stores a pointer in a block it can reach, and writes the
\* store back.
Store(w, p) ==
  /\ phase = "running"
  /\ Cardinality({v \in Words \ {w} : mem[v] # null}) < MaxPtrs
  /\ mem' = [mem EXCEPT ![w] = p] /\ pmem' = [pmem EXCEPT ![w] = p]
  /\ UNCHANGED <<phase, desc, pdesc, roots, lists, marking, sweeping, history>>

\* The process dies, and the cache lines with it that were not written back
\* when power fails: what survives is any part of them.
Survivors(new, old) ==
  {[a \in DOMAIN new |-> IF a \in lines THEN new[a] ELSE old[a]] :
     lines \in SUBSET {a \in DOMAIN new : new[a] # old[a]}}

\* The variables of the sweep when it comes to a superblock.
StartSb(s) ==
  /\ curr_sb' = s
  /\ state' = "EMPTY" /\ count' = 0 /\ free_block' = s * SBSIZE /\ free_head' = null

Crash ==
  /\ phase \in {"running", "mark", "filter", "sweep"}
  /\ crashes < MaxCrashes
  /\ crashes' = crashes + 1
  /\ IF PowerFails
     THEN /\ desc' \in Survivors(desc, pdesc)
          /\ mem' \in Survivors(mem, pmem)
     ELSE UNCHANGED <<desc, mem>>
  /\ pmem' = mem' /\ pdesc' = desc'
  /\ IF phase = "running"
     THEN /\ kept' = Reachable(desc', mem', roots)
          /\ kept_words' = {<<w, mem'[w]>> : w \in AllWords(kept')}
     ELSE UNCHANGED <<kept, kept_words>>
  /\ phase' = "crashed"
  /\ marked_blk' = {} /\ to_filter' = << >> /\ next_root' = 1 /\ scan' = 0 /\ scan_end' = 0
  /\ rest' = {} /\ new_avail' = << >>
  /\ StartSb(1)
  /\ UNCHANGED <<roots, lists>>

-----------------------------------------------------------------------------
(* GarbageCollection::operator() *)

\* Mutant of Begin: the partial lists are not initialized.
Begin_KeepPartial ==
  /\ phase = "crashed"
  /\ avail_sb' = << >>
  /\ phase' = "mark"
  /\ UNCHANGED <<heap, roots, partial_list, anchor, marking, sweeping, history>>

\* Step 0: initialize all transient data.
Begin ==
  /\ phase = "crashed"
  /\ avail_sb' = << >> /\ partial_list' = [c \in Classes |-> << >>]
  /\ phase' = "mark"
  /\ UNCHANGED <<heap, roots, anchor, marking, sweeping, history>>

in_range(p) == 0 <= p /\ p < EndSb * SBSIZE

\* Mutant of mark_func: only what waits to be filtered is not marked again.
mark_func_Waiting(gc, p) ==
  IF ~in_range(p) \/ p \in Range(gc.nodes) THEN gc
  ELSE [marked |-> gc.marked \cup {p}, nodes |-> <<p>> \o gc.nodes]

mark_func(gc, p) ==
  IF ~in_range(p) \/ p \in gc.marked THEN gc
  ELSE [marked |-> gc.marked \cup {p}, nodes |-> <<p>> \o gc.nodes]

Mark(p) ==
  LET gc == mark_func([marked |-> marked_blk, nodes |-> to_filter], p) IN
  IF p = null THEN UNCHANGED <<marked_blk, to_filter>>
  ELSE marked_blk' = gc.marked /\ to_filter' = gc.nodes

\* Step 1: mark all accessible blocks from roots.
MarkRoot ==
  /\ phase = "mark"
  /\ next_root <= MaxRoots
  /\ Mark(roots[next_root])
  /\ next_root' = next_root + 1
  /\ UNCHANGED <<phase, heap, roots, lists, scan, scan_end, sweeping, history>>

RootsMarked ==
  /\ phase = "mark"
  /\ next_root > MaxRoots
  /\ phase' = "filter"
  /\ UNCHANGED <<heap, roots, lists, marking, sweeping, history>>

\* The next node: filter_func looks at every word of its block ...
FilterNode ==
  /\ phase = "filter" /\ scan = scan_end
  /\ to_filter # << >>
  /\ to_filter' = Tail(to_filter)
  /\ scan' = Head(to_filter)
  /\ scan_end' = Head(to_filter) + desc[desc_lookup(Head(to_filter))].block_size
  /\ UNCHANGED <<phase, heap, roots, lists, marked_blk, next_root, sweeping, history>>

\* ... for a pptr.
filter_func ==
  /\ phase = "filter" /\ scan < scan_end
  /\ Mark(Load(mem, scan))
  /\ scan' = scan + 1
  /\ UNCHANGED <<phase, heap, roots, lists, next_root, scan_end, sweeping, history>>

\* Step 2: sweep phase.
BeginSweep ==
  /\ phase = "filter" /\ scan = scan_end
  /\ to_filter = << >>
  /\ phase' = "sweep"
  /\ rest' = marked_blk /\ new_avail' = << >>
  /\ StartSb(1)
  /\ UNCHANGED <<heap, roots, lists, marking, history>>

-----------------------------------------------------------------------------
(* The sweep of one superblock *)

\* The next marked block lies in this superblock.
curr_marked_blk == Min(rest)

\* Mutant of MarkHere: the sweep passes one marked block of a superblock.
MarkHere_One == rest # {} /\ desc_lookup(curr_marked_blk) = curr_sb /\ state = "EMPTY"

MarkHere == rest # {} /\ desc_lookup(curr_marked_blk) = curr_sb

curr_desc == desc[curr_sb]
InUse == curr_desc.heap # NoHeap /\ curr_desc.superblock = curr_sb * SBSIZE
Small == curr_desc.heap \in Classes

\* Where the free blocks end that are put into the list next.
Limit == IF MarkHere THEN curr_marked_blk
         ELSE curr_sb * SBSIZE + curr_desc.maxcount * curr_desc.block_size

\* A free block before the next marked one, or after the last.
LinkFree ==
  /\ phase = "sweep" /\ curr_sb < EndSb
  /\ Small /\ (IF MarkHere THEN InUse ELSE state # "EMPTY")
  /\ free_block < Limit
  /\ mem' = [mem EXCEPT ![free_block] = free_head]
  /\ free_head' = free_block
  /\ count' = count + 1
  /\ state' = "PARTIAL"
  /\ free_block' = free_block + curr_desc.block_size
  /\ UNCHANGED <<phase, desc, pdesc, pmem, roots, lists, marking, rest, curr_sb,
                 new_avail, history>>

\* Mutant of PassMark: a marked block is not skipped.
PassMark_NoSkip ==
  /\ phase = "sweep" /\ curr_sb < EndSb /\ MarkHere
  /\ InUse /\ Small => free_block >= curr_marked_blk
  /\ state' = IF ~InUse THEN state ELSE IF Small THEN "PARTIAL" ELSE "FULL"
  /\ free_block' = IF InUse /\ Small THEN curr_marked_blk ELSE free_block
  /\ rest' = rest \ {curr_marked_blk}
  /\ UNCHANGED <<phase, heap, roots, lists, marking, curr_sb, new_avail, count, free_head,
                 history>>

\* A marked block that is passed makes its superblock used, unless it is a
\* false positive.
PassMark ==
  /\ phase = "sweep" /\ curr_sb < EndSb /\ MarkHere
  /\ InUse /\ Small => free_block >= curr_marked_blk
  /\ state' = IF ~InUse THEN state ELSE IF Small THEN "PARTIAL" ELSE "FULL"
  /\ free_block' = IF InUse /\ Small THEN curr_marked_blk + curr_desc.block_size
                   ELSE free_block
  /\ rest' = rest \ {curr_marked_blk}
  /\ UNCHANGED <<phase, heap, roots, lists, marking, curr_sb, new_avail, count, free_head,
                 history>>

SweepEmpty ==
  /\ phase = "sweep" /\ curr_sb < EndSb /\ ~MarkHere
  /\ state = "EMPTY"
  /\ desc' = [desc EXCEPT ![curr_sb] = Descriptor]
  /\ pdesc' = [pdesc EXCEPT ![curr_sb] = Descriptor]
  /\ anchor' = [anchor EXCEPT ![curr_sb] = NoAnchor]
  /\ new_avail' = <<curr_sb>> \o new_avail
  /\ StartSb(curr_sb + 1)
  /\ UNCHANGED <<phase, mem, pmem, roots, avail_sb, partial_list, marking, rest, history>>

\* Mutants of SweepLarge: the sweep moves on by one superblock, or by the
\* bytes of the block.
SweepLarge_One ==
  /\ phase = "sweep" /\ curr_sb < EndSb /\ ~MarkHere
  /\ state # "EMPTY" /\ ~Small
  /\ anchor' = [anchor EXCEPT ![curr_sb] = Anchor(0, 0, "FULL")]
  /\ StartSb(curr_sb + 1)
  /\ UNCHANGED <<phase, heap, roots, avail_sb, partial_list, marking, rest, new_avail, history>>

SweepLarge_Bytes ==
  /\ phase = "sweep" /\ curr_sb < EndSb /\ ~MarkHere
  /\ state # "EMPTY" /\ ~Small
  /\ anchor' = [anchor EXCEPT ![curr_sb] = Anchor(0, 0, "FULL")]
  /\ StartSb(curr_sb + curr_desc.block_size)
  /\ UNCHANGED <<phase, heap, roots, avail_sb, partial_list, marking, rest, new_avail, history>>

SweepLarge ==
  /\ phase = "sweep" /\ curr_sb < EndSb /\ ~MarkHere
  /\ state # "EMPTY" /\ ~Small
  /\ anchor' = [anchor EXCEPT ![curr_sb] = Anchor(0, 0, "FULL")]
  /\ StartSb(curr_sb + curr_desc.block_size \div SBSIZE)
  /\ UNCHANGED <<phase, heap, roots, avail_sb, partial_list, marking, rest, new_avail, history>>

\* Of a failing assertion only that it ends the process matters: nothing is
\* read afterwards.
SweepSmall ==
  LET d == curr_desc IN
  /\ phase = "sweep" /\ curr_sb < EndSb /\ ~MarkHere
  /\ state # "EMPTY" /\ Small
  /\ free_block >= Limit
  /\ IF count = 0
     THEN /\ anchor' = [anchor EXCEPT ![curr_sb] = Anchor(d.maxcount, 0, "FULL")]
          /\ UNCHANGED <<partial_list, phase>>
     ELSE /\ anchor' = [anchor EXCEPT ![curr_sb] =
                   Anchor((free_head - curr_sb * SBSIZE) \div d.block_size, count, "PARTIAL")]
          /\ partial_list' = [partial_list EXCEPT ![d.heap] = <<curr_sb>> \o @]
          /\ phase' = IF (free_head - curr_sb * SBSIZE) % d.block_size = 0
                      THEN phase ELSE "aborted"
  /\ StartSb(curr_sb + 1)
  /\ UNCHANGED <<heap, roots, avail_sb, marking, rest, new_avail, history>>

\* The list of free superblocks is published, and everything written back.
Finish ==
  /\ phase = "sweep" /\ curr_sb >= EndSb
  /\ avail_sb' = new_avail
  /\ IF rest = {} THEN /\ phase' = "recovered"
                       /\ pmem' = mem /\ pdesc' = desc
                  ELSE /\ phase' = "aborted"
                       /\ UNCHANGED <<pmem, pdesc>>
  /\ UNCHANGED <<desc, mem, roots, partial_list, anchor, marking, sweeping, history>>

-----------------------------------------------------------------------------

Application == \/ \E i \in RootIdx, p \in Targets : set_root(i, p)
               \/ \E b \in Reachable(desc, mem, roots) :
                    \E w \in WordsOf(b), p \in Targets : Store(w, p)

Collect == \/ Begin \/ MarkRoot \/ RootsMarked \/ FilterNode \/ filter_func \/ BeginSweep
           \/ LinkFree \/ PassMark \/ SweepEmpty \/ SweepLarge \/ SweepSmall \/ Finish

Next == Application \/ Collect \/ Crash

Spec == Init /\ [][Next]_vars

\* A collector that does not crash keeps running.
FairSpec == Spec /\ WF_vars(Collect)

-----------------------------------------------------------------------------
(* Properties *)

Pointer == 0..(EndSb * SBSIZE - 1)

\* Marks and links are addresses of the region, the sweep stays inside it.
TypeOK ==
  /\ phase \in {"running", "crashed", "mark", "filter", "sweep", "recovered", "aborted"}
  /\ mem \in [Words -> Pointer] /\ pmem \in [Words -> Pointer]
  /\ roots \in [RootIdx -> Pointer]
  /\ marked_blk \subseteq Pointer /\ rest \subseteq marked_blk
  /\ curr_sb \in 1..EndSb
  /\ anchor \in [Sbs -> [avail : 0..SBSIZE, count : 0..SBSIZE,
                         state : {"ERROR", "FULL", "PARTIAL"}]]

\* The collector never writes into a block that is reachable, not even one
\* that runs again over what a crashed collector left.
DataPreserved == phase # "running" => \A e \in kept_words : mem[e[1]] = e[2]

\* The n addresses that are linked from p on.
Chain(m, p, n) == LET l[i \in 1..n] == IF i = 1 THEN p ELSE Load(m, l[i - 1]) IN l
FreeList(s) == Chain(mem, s * SBSIZE + anchor[s].avail * desc[s].block_size, anchor[s].count)

\* Every reachable block is still a block of its superblock, and in no free
\* list: it will not be allocated again.
ReachableKept ==
  phase = "recovered" =>
    \A b \in kept :
      /\ b \in Blocks(desc)
      /\ \A w \in WordsOf(b) : desc_lookup(w) \notin Range(avail_sb)
      /\ b.start \notin Range(FreeList(desc_lookup(b.start)))

\* Everything else is free, once: superblocks without a reachable block are
\* in avail_sb, partial ones in the list of their class, and their free lists
\* hold exactly their other blocks.
Lists(q, S) == Range(q) = S /\ IsInjective(q)
NothingLeaked ==
  phase = "recovered" =>
    LET used == {s \in Sbs : \E b \in kept : WordsOf(b) \cap (s * SBSIZE)..((s + 1) * SBSIZE - 1) # {}}
        small == {s \in used : desc[s].heap \in Classes}
        others(s) == {b.start : b \in {c \in Blocks(desc) : desc_lookup(c.start) = s} \ kept}
    IN  /\ Lists(avail_sb, Sbs \ used)
        /\ \A s \in small : Lists(FreeList(s), others(s))
        /\ \A c \in Classes :
             Lists(partial_list[c], {s \in small : desc[s].heap = c /\ others(s) # {}})

\* The assertions of the sweep hold: the first free block is a block, and
\* every marked block was passed.
AssertionsHold == phase # "aborted"

\* Of what was reachable at the crash, all blocks of size classes survive that
\* do not hang on a large block: malloc_from_newsb has written back their
\* descriptors.
SmallKept ==
  [][phase = "running" /\ phase' = "crashed" =>
       Reachable(SmallOnly(desc), mem, roots) \subseteq kept']_vars

\* A collection ends, also when blocks point to each other in a circle.
RecoveryEnds == [](phase = "crashed" => <>(phase \in {"recovered", "aborted"}))
=============================================================================

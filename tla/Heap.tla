-------------------------------- MODULE Heap --------------------------------
(***************************************************************************)
(* The transient part of BaseMeta: threads allocate and free blocks        *)
(* through their caches, the anchors of superblocks and the descriptor     *)
(* lists.  One action per access to memory that other threads share; the   *)
(* descriptor lists are the atomic stacks that DescList implements.        *)
(*                                                                         *)
(* The places of superblocks and blocks are links and counts: a free       *)
(* block's first word links it to the next block of its list.              *)
(***************************************************************************)
EXTENDS Superblocks, SequencesExt

CONSTANT MaxLive      \* bound: malloc is called while fewer are held

ASSUME HeapAssumption == MaxLive \in Nat

VARIABLES
  curr,          \* first superblock beyond curr_addr of the sb region
  desc,          \* desc[s]: heap, block_size, maxcount of descriptor s
  anchor,        \* anchor[s]: avail, count, state of descriptor s
  avail_sb,      \* free superblocks, a stack
  partial_list,  \* partial_list[c]: partial superblocks, a stack
  link,          \* link[a]: the pptr in the word at address a
  cache,         \* cache[t][c]: t_cache[c] of thread t
  live,          \* history: what the application holds
  pc, loc        \* control and local variables of each thread

vars == <<curr, desc, anchor, avail_sb, partial_list, link, cache, live, pc, loc>>
lists == <<avail_sb, partial_list>>

-----------------------------------------------------------------------------
(* Data *)

null == 0
Words == {s * SBSIZE + i * BlockSize[c] :
            s \in Sbs, <<c, i>> \in {<<k, j>> \in Classes \X (0..SBSIZE) :
                                       j < block_num(k)}}

Anchor(a, n, s) == [avail |-> a, count |-> n, state |-> s]
NoAnchor == Anchor(0, 0, "ERROR")
EmptyBin == [block |-> null, num |-> 0]
NoLocals == [sc |-> 0, d |-> 0, old |-> NoAnchor, ptr |-> null, head |-> null,
             tail |-> null, n |-> 0, old_curr |-> 0, then |-> "idle"]

compute_idx(superblock, block, c) == (block - superblock) \div BlockSize[c]

\* A word that is not the start of a block holds no pptr: it reads as null.
Load(mem, a) == IF a \in DOMAIN mem THEN mem[a] ELSE null

\* The n blocks of the linked list that starts at p.
Chain(mem, p, n) ==
  LET w[i \in 1..n] == IF i = 1 THEN p ELSE Load(mem, w[i - 1])
  IN  w

Init ==
  /\ curr = ExpandSbs
  /\ desc = [s \in Sbs |-> Descriptor]
  /\ anchor = [s \in Sbs |-> NoAnchor]
  /\ avail_sb = [i \in 1..(ExpandSbs - 1) |-> i]
  /\ partial_list = [c \in Classes |-> << >>]
  /\ link = [a \in Words |-> null]
  /\ cache = [t \in Threads |-> [c \in Classes |-> EmptyBin]]
  /\ live = {}
  /\ pc = [t \in Threads |-> "idle"]
  /\ loc = [t \in Threads |-> NoLocals]

Goto(t, l) == pc' = [pc EXCEPT ![t] = l]
Set(t, r) == loc' = [loc EXCEPT ![t] = r]

\* An assert that fails ends the process.
Abort == /\ pc' = [t \in Threads |-> "aborted"]
         /\ loc' = [t \in Threads |-> NoLocals]
         /\ UNCHANGED <<curr, desc, anchor, lists, link, cache, live>>

-----------------------------------------------------------------------------
(* malloc *)

\* pop_block on a bin, the last thing do_malloc does.  The application may
\* write the block at once: its first word holds no pptr any more.
ReturnBlock(t, c, bin, mem) ==
  /\ live' = live \cup {[ptr |-> bin.block, words |-> BlockSize[c]]}
  /\ cache' = [cache EXCEPT ![t][c] = [block |-> Load(mem, bin.block),
                                       num |-> bin.num - 1]]
  /\ link' = [mem EXCEPT ![bin.block] = null]
  /\ Goto(t, "idle") /\ Set(t, NoLocals)

MallocHit(t, c) ==
  /\ pc[t] = "idle"
  /\ cache[t][c].num > 0
  /\ ReturnBlock(t, c, cache[t][c], link)
  /\ UNCHANGED <<curr, desc, anchor, lists>>

MallocMiss(t, c) ==
  /\ pc[t] = "idle"
  /\ cache[t][c].num = 0
  /\ Goto(t, "pop_partial") /\ Set(t, [NoLocals EXCEPT !.sc = c])
  /\ UNCHANGED <<curr, desc, anchor, lists, link, cache, live>>

\* malloc_from_partial: heap_pop_partial; without a partial superblock,
\* fill_cache turns to malloc_from_newsb.
PopPartial(t) ==
  LET c == loc[t].sc IN
  /\ pc[t] = "pop_partial"
  /\ \/ /\ partial_list[c] # << >>
        /\ Goto(t, "reserve_load")
        /\ Set(t, [loc[t] EXCEPT !.d = Head(partial_list[c])])
        /\ partial_list' = [partial_list EXCEPT ![c] = Tail(@)]
     \/ /\ partial_list[c] = << >>
        /\ Goto(t, "sb_pop")
        /\ UNCHANGED <<loc, partial_list>>
  /\ UNCHANGED <<curr, desc, anchor, avail_sb, link, cache, live>>

ReserveLoad(t) ==
  /\ pc[t] = "reserve_load"
  /\ Set(t, [loc[t] EXCEPT !.old = anchor[loc[t].d]])
  /\ Goto(t, "reserve")
  /\ UNCHANGED <<curr, desc, anchor, lists, link, cache, live>>

\* Mutant of ReserveEmpty: read the anchor again instead of retiring.
ReserveEmpty_Spin(t) ==
  /\ pc[t] = "reserve"
  /\ loc[t].old.state = "EMPTY"
  /\ Goto(t, "reserve_load")
  /\ UNCHANGED <<curr, desc, anchor, lists, link, cache, live, loc>>

\* The superblock became empty while it was in the partial list.
ReserveEmpty(t) ==
  /\ pc[t] = "reserve"
  /\ loc[t].old.state = "EMPTY"
  /\ Goto(t, "retire") /\ Set(t, [loc[t] EXCEPT !.then = "pop_partial"])
  /\ UNCHANGED <<curr, desc, anchor, lists, link, cache, live>>

\* Mutant of ReserveCas: the count is not reset.
ReserveCas_Count(t) ==
  LET d == loc[t].d
      old == loc[t].old
  IN
  /\ pc[t] = "reserve"
  /\ old.state # "EMPTY"
  /\ anchor[d] = old
  /\ anchor' = [anchor EXCEPT ![d] = Anchor(desc[d].maxcount, old.count, "FULL")]
  /\ ReturnBlock(t, loc[t].sc,
                 [block |-> sb_lookup(d) + old.avail * desc[d].block_size,
                  num |-> old.count], link)
  /\ UNCHANGED <<curr, desc, lists>>

\* All free blocks of the superblock move to the cache.
ReserveCas(t) ==
  LET d == loc[t].d
      old == loc[t].old
  IN
  /\ pc[t] = "reserve"
  /\ old.state # "EMPTY"
  /\ anchor[d] = old
  /\ anchor' = [anchor EXCEPT ![d] = Anchor(desc[d].maxcount, 0, "FULL")]
  /\ ReturnBlock(t, loc[t].sc,
                 [block |-> sb_lookup(d) + old.avail * desc[d].block_size,
                  num |-> old.count], link)
  /\ UNCHANGED <<curr, desc, lists>>

\* A free came in between, or the weak CAS failed for no reason.
ReserveRetry(t) ==
  /\ pc[t] = "reserve"
  /\ loc[t].old.state # "EMPTY"
  /\ Set(t, [loc[t] EXCEPT !.old = anchor[loc[t].d]])
  /\ UNCHANGED <<curr, desc, anchor, lists, link, cache, live, pc>>

\* What a free superblock's words hold is never read: NewSb writes the links
\* it needs, so the model forgets the old ones.
Forget(sbs) == link' = [a \in Words |-> IF desc_lookup(a) \in sbs THEN null ELSE link[a]]

\* small_sb_retire: erase the descriptor, push it to avail_sb.
Retire(t) ==
  LET d == loc[t].d IN
  /\ pc[t] = "retire"
  /\ desc' = [desc EXCEPT ![d] = Descriptor]
  /\ anchor' = [anchor EXCEPT ![d] = NoAnchor]
  /\ avail_sb' = <<d>> \o avail_sb
  /\ Forget({d})
  /\ Goto(t, loc[t].then)
  /\ Set(t, [loc[t] EXCEPT !.d = 0, !.old = NoAnchor, !.then = "idle"])
  /\ UNCHANGED <<curr, partial_list, cache, live>>

-----------------------------------------------------------------------------
(* small_sb_alloc and malloc_from_newsb *)

SbPop(t) ==
  /\ pc[t] = "sb_pop"
  /\ \/ /\ avail_sb # << >>
        /\ Set(t, [loc[t] EXCEPT !.d = Head(avail_sb)])
        /\ avail_sb' = Tail(avail_sb)
        /\ Goto(t, "new_sb")
     \/ /\ avail_sb = << >>
        /\ Goto(t, "expand_load")
        /\ UNCHANGED <<loc, avail_sb>>
  /\ UNCHANGED <<curr, desc, anchor, partial_list, link, cache, live>>

ExpandLoad(t) ==
  /\ pc[t] = "expand_load"
  /\ Set(t, [loc[t] EXCEPT !.old_curr = curr])
  /\ Goto(t, "expand_check")
  /\ UNCHANGED <<curr, desc, anchor, lists, link, cache, live>>

\* The local oldhead, read as null, is not read again by "continue".
ExpandCheck(t) ==
  /\ pc[t] = "expand_check"
  /\ \/ /\ avail_sb # << >>
        /\ Goto(t, "expand_load")
        /\ UNCHANGED <<curr, desc, anchor, lists, link, cache, live, loc>>
     \/ /\ avail_sb = << >>
        /\ loc[t].old_curr + ExpandSbs > RegionSbs
        /\ Abort
     \/ /\ avail_sb = << >>
        /\ loc[t].old_curr + ExpandSbs <= RegionSbs
        /\ Goto(t, "expand_cas")
        /\ UNCHANGED <<curr, desc, anchor, lists, link, cache, live, loc>>

\* Nor is it when the CAS on curr_addr fails.
ExpandCas(t) ==
  /\ pc[t] = "expand_cas"
  /\ \/ /\ curr = loc[t].old_curr
        /\ curr' = curr + ExpandSbs
        /\ Set(t, [loc[t] EXCEPT !.d = curr, !.old_curr = 0])
        /\ Goto(t, "organize")
     \/ /\ curr # loc[t].old_curr
        /\ Goto(t, "expand_load")
        /\ UNCHANGED <<curr, loc>>
  /\ UNCHANGED <<desc, anchor, lists, link, cache, live>>

\* The count descriptors from first on are constructed and pushed as a chain.
organize_sb_list(first, count) ==
  LET new == first..(first + count - 1) IN
  /\ desc' = [s \in Sbs |-> IF s \in new THEN Descriptor ELSE desc[s]]
  /\ anchor' = [s \in Sbs |-> IF s \in new THEN NoAnchor ELSE anchor[s]]
  /\ avail_sb' = [i \in 1..count |-> first + i - 1] \o avail_sb
  /\ Forget(new)

\* The first superblock of the expansion is kept (NewSb writes every field
\* of its descriptor), the others are free.
Organize(t) ==
  /\ pc[t] = "organize"
  /\ organize_sb_list(loc[t].d + 1, ExpandSbs - 1)
  /\ Goto(t, "new_sb")
  /\ UNCHANGED <<curr, partial_list, cache, live, loc>>

\* Nobody else can reach the superblock yet: one step.
NewSb(t) ==
  LET d == loc[t].d
      c == loc[t].sc
      sb == sb_lookup(d)
      max == block_num(c)
      linked == [a \in Words |->
                  IF \E i \in 0..(max - 2) : a = sb + i * BlockSize[c]
                  THEN a + BlockSize[c] ELSE link[a]]
  IN
  /\ pc[t] = "new_sb"
  /\ desc' = [desc EXCEPT ![d] = SmallDescriptor(c)]
  /\ anchor' = [anchor EXCEPT ![d] = Anchor(max, 0, "FULL")]
  /\ ReturnBlock(t, c, [block |-> sb, num |-> max], linked)
  /\ UNCHANGED <<curr, lists>>

-----------------------------------------------------------------------------
(* free and flush_cache *)

PushBlock(t, c, p) ==
  /\ link' = [link EXCEPT ![p] = cache[t][c].block]
  /\ cache' = [cache EXCEPT ![t][c] = [block |-> p, num |-> @.num + 1]]

\* do_free of a block of class c that thread t was given or handed.
Freed(b, c) == /\ b \in live
               /\ desc[desc_lookup(b.ptr)].heap = c
               /\ live' = live \ {b}

\* Mutant of FreeHit: a bin may get one block too many.
FreeHit_OffByOne(t, b, c) ==
  /\ pc[t] = "idle"
  /\ Freed(b, c)
  /\ cache[t][c].num <= block_num(c)
  /\ PushBlock(t, c, b.ptr)
  /\ UNCHANGED <<curr, desc, anchor, lists, pc, loc>>

FreeHit(t, b, c) ==
  /\ pc[t] = "idle"
  /\ Freed(b, c)
  /\ cache[t][c].num < block_num(c)
  /\ PushBlock(t, c, b.ptr)
  /\ UNCHANGED <<curr, desc, anchor, lists, pc, loc>>

FreeFlush(t, b, c) ==
  /\ pc[t] = "idle"
  /\ Freed(b, c)
  /\ cache[t][c].num >= block_num(c)
  /\ Set(t, [NoLocals EXCEPT !.sc = c, !.ptr = b.ptr])
  /\ Goto(t, "flush")
  /\ UNCHANGED <<curr, desc, anchor, lists, link, cache>>

\* A thread exits: ~TCaches flushes every bin; a new thread takes its place.
ThreadExit(t) ==
  /\ pc[t] = "idle"
  /\ Set(t, [NoLocals EXCEPT !.sc = 1])
  /\ Goto(t, "flush")
  /\ UNCHANGED <<curr, desc, anchor, lists, link, cache, live>>

\* The longest run of blocks at the front of the bin that lie in one
\* superblock.
RunLength(blocks) ==
  Max({k \in 1..Len(blocks) :
         \A i \in 1..k : desc_lookup(blocks[i]) = desc_lookup(blocks[1])})

\* flush_cache takes that run out of the bin.
FlushGrab(t) ==
  LET c == loc[t].sc
      bin == cache[t][c]
      blocks == Chain(link, bin.block, bin.num)
      n == RunLength(blocks)
  IN
  /\ pc[t] = "flush"
  /\ bin.num > 0
  /\ cache' = [cache EXCEPT ![t][c] = [block |-> Load(link, blocks[n]),
                                       num |-> bin.num - n]]
  /\ Set(t, [loc[t] EXCEPT !.d = desc_lookup(bin.block), !.head = bin.block,
                           !.tail = blocks[n], !.n = n])
  /\ Goto(t, "flush_load")
  /\ UNCHANGED <<curr, desc, anchor, lists, link, live>>

FlushLoad(t) ==
  /\ pc[t] = "flush_load"
  /\ Set(t, [loc[t] EXCEPT !.old = anchor[loc[t].d]])
  /\ Goto(t, "flush_cas")
  /\ UNCHANGED <<curr, desc, anchor, lists, link, cache, live>>

\* Mutant of AnchorAfterFree: the blocks that were free before are forgotten.
AnchorAfterFree_Count(old, idx, n, max) ==
  IF n = max THEN Anchor(idx, max - 1, "EMPTY")
  ELSE Anchor(idx, n, IF old.state = "FULL" THEN "PARTIAL" ELSE old.state)

\* The anchor after n blocks, the first one of index idx, were put in front
\* of the free list of a superblock of max blocks.
AnchorAfterFree(old, idx, n, max) ==
  IF old.count + n = max THEN Anchor(idx, max - 1, "EMPTY")
  ELSE Anchor(idx, old.count + n,
              IF old.state = "FULL" THEN "PARTIAL" ELSE old.state)

\* Mutants of AfterFlush: whoever frees the last block retires the
\* superblock; whoever frees a block lists it.
AfterFlush_Retire(old, new) ==
  CASE new.state = "EMPTY" -> "retire"
    [] old.state = "FULL" /\ new.state # "EMPTY" -> "push_partial"
    [] OTHER -> "flush"
AfterFlush_List(old, new) ==
  IF old.state = "FULL" /\ new.state = "EMPTY" THEN "retire" ELSE "push_partial"

\* The thread that takes a superblock out of state FULL is the one that has
\* to put its descriptor in a list.
AfterFlush(old, new) ==
  CASE old.state = "FULL" /\ new.state = "EMPTY" -> "retire"
    [] old.state = "FULL" /\ new.state # "EMPTY" -> "push_partial"
    [] OTHER -> "flush"

FlushCas(t) ==
  LET l == loc[t]
      new == AnchorAfterFree(l.old, compute_idx(sb_lookup(l.d), l.head, l.sc),
                             l.n, desc[l.d].maxcount)
      to == AfterFlush(l.old, new)
  IN
  /\ pc[t] = "flush_cas"
  /\ anchor[l.d] = l.old
  /\ link' = [link EXCEPT ![l.tail] =
                 sb_lookup(l.d) + l.old.avail * BlockSize[l.sc]]
  /\ anchor' = [anchor EXCEPT ![l.d] = new]
  /\ Goto(t, to)
  /\ Set(t, [NoLocals EXCEPT !.sc = l.sc, !.ptr = l.ptr,
                             !.d = IF to = "flush" THEN 0 ELSE l.d,
                             !.then = IF to = "retire" THEN "flush" ELSE "idle"])
  /\ UNCHANGED <<curr, desc, lists, cache, live>>

FlushRetry(t) ==
  /\ pc[t] = "flush_cas"
  /\ Set(t, [loc[t] EXCEPT !.old = anchor[loc[t].d]])
  /\ UNCHANGED <<curr, desc, anchor, lists, link, cache, live, pc>>

\* heap_push_partial reads the heap from the descriptor.
PushPartial(t) ==
  LET d == loc[t].d IN
  /\ pc[t] = "push_partial"
  /\ partial_list' = [partial_list EXCEPT ![desc[d].heap] = <<d>> \o @]
  /\ Goto(t, "flush") /\ Set(t, [loc[t] EXCEPT !.d = 0])
  /\ UNCHANGED <<curr, desc, anchor, avail_sb, link, cache, live>>

\* The bin is empty: do_free pushes its block, an exiting thread goes on
\* with its next bin.
FlushDone(t) ==
  LET c == loc[t].sc IN
  /\ pc[t] = "flush"
  /\ cache[t][c].num = 0
  /\ \/ /\ loc[t].ptr # null
        /\ PushBlock(t, c, loc[t].ptr)
        /\ Goto(t, "idle") /\ Set(t, NoLocals)
     \/ /\ loc[t].ptr = null /\ c + 1 \in Classes
        /\ Set(t, [loc[t] EXCEPT !.sc = c + 1])
        /\ UNCHANGED <<link, cache, pc>>
     \/ /\ loc[t].ptr = null /\ c + 1 \notin Classes
        /\ cache' = [cache EXCEPT ![t] = [k \in Classes |-> EmptyBin]]
        /\ Goto(t, "idle") /\ Set(t, NoLocals)
        /\ UNCHANGED link
  /\ UNCHANGED <<curr, desc, anchor, lists, live>>

-----------------------------------------------------------------------------
(* Large blocks *)

MallocLarge(t, n) ==
  /\ pc[t] = "idle"
  /\ Set(t, [NoLocals EXCEPT !.n = n])
  /\ Goto(t, "large_load")
  /\ UNCHANGED <<curr, desc, anchor, lists, link, cache, live>>

LargeLoad(t) ==
  /\ pc[t] = "large_load"
  /\ \/ /\ curr + loc[t].n > RegionSbs
        /\ Abort
     \/ /\ curr + loc[t].n <= RegionSbs
        /\ Set(t, [loc[t] EXCEPT !.old_curr = curr])
        /\ Goto(t, "large_cas")
        /\ UNCHANGED <<curr, desc, anchor, lists, link, cache, live>>

\* Mutant of LargeCas: a store instead of a CAS.
LargeCas_Store(t) ==
  /\ pc[t] = "large_cas"
  /\ curr' = loc[t].old_curr + loc[t].n
  /\ Set(t, [loc[t] EXCEPT !.d = loc[t].old_curr, !.old_curr = 0])
  /\ Goto(t, "large_init")
  /\ UNCHANGED <<desc, anchor, lists, link, cache, live>>

LargeCas(t) ==
  /\ pc[t] = "large_cas"
  /\ \/ /\ curr = loc[t].old_curr
        /\ curr' = curr + loc[t].n
        /\ Set(t, [loc[t] EXCEPT !.d = curr, !.old_curr = 0])
        /\ Goto(t, "large_init")
     \/ /\ curr # loc[t].old_curr
        /\ Goto(t, "large_load")
        /\ UNCHANGED <<curr, loc>>
  /\ UNCHANGED <<desc, anchor, lists, link, cache, live>>

LargeInit(t) ==
  LET d == loc[t].d
      words == loc[t].n * SBSIZE
  IN
  /\ pc[t] = "large_init"
  /\ desc' = [desc EXCEPT ![d] = LargeDescriptor(loc[t].n)]
  /\ anchor' = [anchor EXCEPT ![d] = Anchor(0, 0, "FULL")]
  /\ live' = live \cup {[ptr |-> sb_lookup(d), words |-> words]}
  /\ Goto(t, "idle") /\ Set(t, NoLocals)
  /\ UNCHANGED <<curr, lists, link, cache>>

\* large_sb_retire: every superblock of the block becomes a small one.
FreeLarge(t, b) ==
  LET d == desc_lookup(b.ptr) IN
  /\ pc[t] = "idle"
  /\ Freed(b, LargeHeap)
  /\ organize_sb_list(d, desc[d].block_size \div SBSIZE)
  /\ UNCHANGED <<curr, partial_list, cache, pc, loc>>

-----------------------------------------------------------------------------

\* The application calls malloc or free, or a thread exits.
Call(t) ==
  \/ /\ Cardinality(live) < MaxLive
     /\ \/ \E c \in Classes : MallocHit(t, c) \/ MallocMiss(t, c)
        \/ \E n \in LargeSbs : MallocLarge(t, n)
  \/ \E b \in live : FreeLarge(t, b) \/
        \E c \in Classes : FreeHit(t, b, c) \/ FreeFlush(t, b, c)
  \/ ThreadExit(t)

\* A thread takes the next step of the call it is in.
Step(t) ==
  \/ PopPartial(t) \/ ReserveLoad(t) \/ ReserveEmpty(t) \/ ReserveCas(t)
  \/ ReserveRetry(t) \/ Retire(t)
  \/ SbPop(t) \/ ExpandLoad(t) \/ ExpandCheck(t) \/ ExpandCas(t)
  \/ Organize(t) \/ NewSb(t)
  \/ FlushGrab(t) \/ FlushLoad(t) \/ FlushCas(t) \/ FlushRetry(t)
  \/ PushPartial(t) \/ FlushDone(t)
  \/ LargeLoad(t) \/ LargeCas(t) \/ LargeInit(t)

Next == \E t \in Threads : Call(t) \/ Step(t)

Spec == Init /\ [][Next]_vars

\* Every thread that is in a call keeps running; no call has to be made.
FairSpec == Spec /\ \A t \in Threads : WF_vars(Step(t))

-----------------------------------------------------------------------------
(* Properties *)

SmallSbs == {s \in Sbs : desc[s].heap \in Classes}

\* A descriptor in use agrees with its size class, and no cache exceeds the
\* blocks of one superblock (do_free flushes a full bin before it pushes).
TypeOK ==
  /\ curr \in ExpandSbs..RegionSbs
  /\ \A s \in Sbs :
       /\ desc[s].heap \in Classes \cup {NoHeap, LargeHeap}
       /\ s \in SmallSbs => /\ desc[s].block_size = BlockSize[desc[s].heap]
                            /\ desc[s].maxcount = block_num(desc[s].heap)
       /\ anchor[s].state \in {"ERROR", "FULL", "PARTIAL", "EMPTY"}
  /\ avail_sb \in Seq(Sbs) /\ \A c \in Classes : partial_list[c] \in Seq(Sbs)
  /\ \A a \in Words : link[a] \in 0..(RegionSbs * SBSIZE)
  /\ \A t \in Threads, c \in Classes : cache[t][c].num \in 0..block_num(c)

\* The free list of superblock s.  An EMPTY anchor counts one block less
\* than the list has.
FreeList(s) ==
  Chain(link, sb_lookup(s) + anchor[s].avail * desc[s].block_size,
        CASE anchor[s].state = "PARTIAL" -> anchor[s].count
          [] anchor[s].state = "EMPTY" -> anchor[s].count + 1
          [] OTHER -> 0)

\* The blocks a thread is putting back into their superblock.
RunList(t) == Chain(link, loc[t].head,
                IF pc[t] \in {"flush_load", "flush_cas"} THEN loc[t].n ELSE 0)

\* All that is in the given places, by place and position.
Places(In(_), places) == UNION {{<<x, i, In(x)[i]>> : i \in DOMAIN In(x)} : x \in places}

\* A set as a family of its elements, and a range of superblocks.
Each(S) == [e \in S |-> e]
Span(d, n) == Each(d..(d + n - 1))

\* Where every block is: with the user, in a bin, on its way from a bin to
\* its superblock, or in the free list of its superblock.
BlocksIn(x) ==
  LET k == x[2] IN
  CASE x[1] = "user" -> Each({b.ptr : b \in live})
    [] x[1] = "bin" -> Chain(link, cache[k[1]][k[2]].block, cache[k[1]][k[2]].num)
    [] x[1] = "run" -> RunList(k)
    [] x[1] = "pending" -> SelectSeq(<<loc[k].ptr>>, LAMBDA p : p # null)
    [] x[1] = "free" -> IF desc[k].heap \in Classes THEN FreeList(k) ELSE << >>

Blocks == UNION {BlocksOf(desc[s], s) : s \in Sbs}

Aborted == \E t \in Threads : pc[t] = "aborted"

\* No block is lost, shared or invented: every block of every superblock in
\* use is in exactly one place, and nothing else is in any place.  This is
\* what the counts in anchors and bins, which alone say where a list ends,
\* have to maintain across all interleavings of malloc, free and flush.
BlocksAccounted ==
  Aborted \/ LET placed == Places(BlocksIn, PlacesOfBlocks) IN
             /\ {p[3] : p \in placed} = Blocks
             /\ Cardinality(placed) = Cardinality(Blocks)

\* Where every superblock is.
SbsIn(x) ==
  LET k == x[2] IN
  CASE x[1] = "avail" -> avail_sb
    [] x[1] = "partial" -> SelectSeq(partial_list[k], LAMBDA s : desc[s].heap = k)
    [] x[1] = "full" -> Each({s \in SmallSbs : anchor[s].state = "FULL"})
    [] x[1] = "large" -> IF desc[k].heap = LargeHeap THEN Span(k, desc[k].block_size \div SBSIZE)
                                             ELSE << >>
    [] x[1] = "hand" ->
         CASE pc[k] \in {"reserve_load", "reserve", "retire", "push_partial", "new_sb"} ->
                Span(loc[k].d, 1)
           [] pc[k] = "organize" -> Span(loc[k].d, ExpandSbs)
           [] pc[k] = "large_init" -> Span(loc[k].d, loc[k].n)
           [] OTHER -> << >>

\* No superblock is leaked, listed twice or retired while it is listed.
\* Several threads free into one superblock at once: exactly one of them
\* finds itself responsible for its descriptor.
SbsAccounted ==
  Aborted \/ LET placed == Places(SbsIn, PlacesOfSbs) IN
             /\ {p[3] : p \in placed} = 1..(curr - 1)
             /\ Cardinality(placed) = curr - 1

\* The assertions of malloc_from_partial, fill_cache, flush_cache and, for
\* the heap that heap_push_partial reads, that it is the bin's own.
AssertionsHold ==
  \A t \in Threads :
    LET l == loc[t]
        max == desc[l.d].maxcount
    IN  /\ pc[t] = "reserve" /\ l.old.state # "EMPTY" =>
             /\ l.old.state = "PARTIAL"
             /\ l.old.avail < max
             /\ l.old.count \in 1..block_num(l.sc)
             /\ cache[t][l.sc].num = 0
        /\ pc[t] = "flush_cas" =>
             /\ max = block_num(l.sc)
             /\ l.old.count < max
             /\ l.old.count + l.n <= max
             /\ l.old.avail < max \/ l.old.state = "FULL"
        /\ pc[t] = "push_partial" => desc[l.d].heap = l.sc

\* Block lists and partial lists read as the sets of module BlockHeap.
Movement == INSTANCE BlockHeap WITH
              up <- ~Aborted,
              sbs <- [x \in PlacesOfSbs |-> ToSet(SbsIn(x))],
              at <- [x \in PlacesOfBlocks |-> ToSet(BlocksIn(x))]

\* Every malloc, free, fill and flush moves whole blocks and superblocks as
\* BlockHeap does: links and anchor counts lose none and put none in two places.
ImplementsMovement == Movement!Spec

\* What callers hold, as the address ranges of module Allocator.
Alloc == INSTANCE Allocator WITH
           Top <- RegionSbs * SBSIZE - 1,
           Sizes <- {BlockSize[c] : c \in Classes} \cup {n * SBSIZE : n \in LargeSbs}

\* malloc returns a range that overlaps none a caller still holds, whatever
\* sizes the superblock served before, and free takes back only that range.
ImplementsAllocator == Alloc!Spec

Expanding(t) == pc[t] \in {"expand_load", "expand_check", "expand_cas"}
OthersIdle(t) == \A u \in Threads \ {t} : pc[u] = "idle"

\* A call that runs on alone returns (a lock-free call does), unless it is
\* in the expansion loop of small_sb_alloc while avail_sb is not empty.
SoloCallReturns ==
  \A t \in Threads :
    <>[]OthersIdle(t) =>
      []<>(pc[t] \in {"idle", "aborted"} \/ (Expanding(t) /\ avail_sb # << >>))

\* small_sb_alloc comes back to the free list, as its comment says: it does
\* not stay in the expansion loop while there are free superblocks.
SbAllocRetriesFreeList ==
  \A t \in Threads : ~ <>[](Expanding(t) /\ avail_sb # << >>)
=============================================================================

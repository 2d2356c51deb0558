------------------------------ MODULE DescList ------------------------------
(***************************************************************************)
(* The lock-free list of descriptors behind avail_sb and every             *)
(* ProcHeap::partial_list: a head word that packs a descriptor and a       *)
(* counter (AtomicCrossPtrCnt), and one link field per descriptor          *)
(* (next_free or next_partial).  One action per access to shared memory:   *)
(* the pushes of heap_push_partial, small_sb_retire and organize_sb_list,  *)
(* and the pops of heap_pop_partial and small_sb_alloc.                    *)
(***************************************************************************)
EXTENDS Integers, Sequences, Functions

CONSTANTS Threads,    \* threads of the application
          Descs,      \* descriptors, one per superblock
          NULL,       \* the null descriptor pointer
          MaxChain,   \* bound: descriptors one push may carry
          CntMod,     \* counter values of a head word: 2^34 in the code
          PushBound   \* bound: pushes a behaviour may complete

ASSUME NullAssumption == NULL \notin Descs
ASSUME CntAssumption == /\ CntMod \in Nat \ {0}
                        /\ PushBound \in Nat
                        /\ PushBound < CntMod
ASSUME ChainAssumption == MaxChain \in Nat

VARIABLES
  head,      \* the head word: [ptr, cnt]
  next,      \* next[d]: link field of descriptor d
  held,      \* held[t]: descriptors only thread t may push
  pc,        \* where each thread is
  oldhead,   \* each thread's local oldhead
  chain,     \* each thread's chain being pushed, first to last
  nextptr,   \* the link a popping thread read
  stack      \* history: the descriptors in the list, top first

vars == <<head, next, held, pc, oldhead, chain, nextptr, stack>>

Ptr == Descs \cup {NULL}
HeadWord == [ptr : Ptr, cnt : 0..(CntMod - 1)]

Last(c) == c[Len(c)]

\* Chains of distinct descriptors of S: one descriptor, or the several that
\* organize_sb_list links before it publishes them.
Chains(S) ==
  {c \in UNION {[1..n -> S] : n \in 1..MaxChain} : IsInjective(c)}

Init ==
  /\ head = [ptr |-> NULL, cnt |-> 0]
  /\ next = [d \in Descs |-> NULL]
  /\ \E owner \in [Descs -> Threads] :
       held = [t \in Threads |-> {d \in Descs : owner[d] = t}]
  /\ pc = [t \in Threads |-> "idle"]
  /\ oldhead = [t \in Threads |-> [ptr |-> NULL, cnt |-> 0]]
  /\ chain = [t \in Threads |-> << >>]
  /\ nextptr = [t \in Threads |-> NULL]
  /\ stack = << >>

-----------------------------------------------------------------------------
(* Pushing *)

\* Mutant of Bump: a push does not count.
Bump_None(cnt) == cnt

\* A push counts up, modulo the width of the counter field ...
Bump(cnt) == (cnt + 1) % CntMod

\* Mutant of Keep: a pop counts down.
Keep_Down(cnt) == cnt - 1

\* ... and a pop keeps the counter it read.
Keep(cnt) == cnt

\* organize_sb_list constructs and links the descriptors of its chain;
\* small_sb_retire constructs the one it pushes; heap_push_partial leaves
\* the fields of its descriptor alone.
PushPrepare(t, c) ==
  /\ pc[t] = "idle"
  /\ chain' = [chain EXCEPT ![t] = c]
  /\ \E last \in {next[Last(c)], NULL} :
       next' = [d \in Descs |->
                 IF d = Last(c) THEN last
                 ELSE IF d \in Range(c)
                 THEN c[1 + CHOOSE i \in 1..(Len(c) - 1) : c[i] = d]
                 ELSE next[d]]
  /\ pc' = [pc EXCEPT ![t] = "push_load"]
  /\ UNCHANGED <<head, held, oldhead, nextptr, stack>>

PushLoad(t) ==
  /\ pc[t] = "push_load"
  /\ oldhead' = [oldhead EXCEPT ![t] = head]
  /\ pc' = [pc EXCEPT ![t] = "push_link"]
  /\ UNCHANGED <<head, next, held, chain, nextptr, stack>>

PushLink(t) ==
  /\ pc[t] = "push_link"
  /\ next' = [next EXCEPT ![Last(chain[t])] = oldhead[t].ptr]
  /\ pc' = [pc EXCEPT ![t] = "push_cas"]
  /\ UNCHANGED <<head, held, oldhead, chain, nextptr, stack>>

PushCasSucceeds(t) ==
  /\ pc[t] = "push_cas"
  /\ head = oldhead[t]
  /\ head.cnt < PushBound
  /\ head' = [ptr |-> chain[t][1], cnt |-> Bump(oldhead[t].cnt)]
  /\ stack' = chain[t] \o stack
  /\ held' = [held EXCEPT ![t] = @ \ Range(chain[t])]
  /\ chain' = [chain EXCEPT ![t] = << >>]
  /\ pc' = [pc EXCEPT ![t] = "idle"]
  /\ UNCHANGED <<next, oldhead, nextptr>>

\* compare_exchange_weak may also fail when the words are equal.
PushCasFails(t) ==
  /\ pc[t] = "push_cas"
  /\ oldhead' = [oldhead EXCEPT ![t] = head]
  /\ pc' = [pc EXCEPT ![t] = "push_link"]
  /\ UNCHANGED <<head, next, held, chain, nextptr, stack>>

-----------------------------------------------------------------------------
(* Popping *)

PopLoad(t) ==
  /\ pc[t] = "idle"
  /\ oldhead' = [oldhead EXCEPT ![t] = head]
  /\ pc' = [pc EXCEPT ![t] = "pop_read"]
  /\ UNCHANGED <<head, next, held, chain, nextptr, stack>>

PopEmpty(t) ==
  /\ pc[t] = "pop_read"
  /\ oldhead[t].ptr = NULL
  /\ pc' = [pc EXCEPT ![t] = "idle"]
  /\ UNCHANGED <<head, next, held, oldhead, chain, nextptr, stack>>

\* The descriptor read from may have been popped, and be anybody's by now.
PopRead(t) ==
  /\ pc[t] = "pop_read"
  /\ oldhead[t].ptr # NULL
  /\ nextptr' = [nextptr EXCEPT ![t] = next[oldhead[t].ptr]]
  /\ pc' = [pc EXCEPT ![t] = "pop_cas"]
  /\ UNCHANGED <<head, next, held, oldhead, chain, stack>>

\* Mutant of PopCasSucceeds: the pop returns the new head, not the old one.
PopCasSucceeds_NewHead(t) ==
  /\ pc[t] = "pop_cas"
  /\ head = oldhead[t]
  /\ head' = [ptr |-> nextptr[t], cnt |-> Keep(oldhead[t].cnt)]
  /\ stack' = Tail(stack)
  /\ held' = [held EXCEPT ![t] = @ \cup ({nextptr[t]} \ {NULL})]
  /\ pc' = [pc EXCEPT ![t] = "idle"]
  /\ UNCHANGED <<next, oldhead, chain, nextptr>>

PopCasSucceeds(t) ==
  /\ pc[t] = "pop_cas"
  /\ head = oldhead[t]
  /\ head' = [ptr |-> nextptr[t], cnt |-> Keep(oldhead[t].cnt)]
  /\ stack' = Tail(stack)
  /\ held' = [held EXCEPT ![t] = @ \cup {oldhead[t].ptr}]
  /\ pc' = [pc EXCEPT ![t] = "idle"]
  /\ UNCHANGED <<next, oldhead, chain, nextptr>>

PopCasFails(t) ==
  /\ pc[t] = "pop_cas"
  /\ oldhead' = [oldhead EXCEPT ![t] = head]
  /\ pc' = [pc EXCEPT ![t] = "pop_read"]
  /\ UNCHANGED <<head, next, held, chain, nextptr, stack>>

\* Mutant of Handoff: both threads think that they have to push.
Handoff_Both(t, u) ==
  /\ t # u
  /\ pc[t] = "idle"
  /\ \E d \in held[t] : held' = [held EXCEPT ![u] = @ \cup {d}]
  /\ UNCHANGED <<head, next, pc, oldhead, chain, nextptr, stack>>

\* The owner of a full superblock's descriptor is whoever frees into it
\* first: flush_cache of any thread may push what another thread popped.
Handoff(t, u) ==
  /\ t # u
  /\ pc[t] = "idle"
  /\ \E d \in held[t] :
       held' = [held EXCEPT ![t] = @ \ {d}, ![u] = @ \cup {d}]
  /\ UNCHANGED <<head, next, pc, oldhead, chain, nextptr, stack>>

-----------------------------------------------------------------------------

Push(t) ==
  \/ \E c \in Chains(held[t]) : PushPrepare(t, c)
  \/ PushLoad(t) \/ PushLink(t) \/ PushCasSucceeds(t) \/ PushCasFails(t)

Pop(t) ==
  \/ PopLoad(t) \/ PopEmpty(t) \/ PopRead(t)
  \/ PopCasSucceeds(t) \/ PopCasFails(t)

Next == \E t \in Threads : Push(t) \/ Pop(t) \/ \E u \in Threads : Handoff(t, u)

Spec == Init /\ [][Next]_vars

-----------------------------------------------------------------------------
(* Properties *)

\* The head word keeps its two fields apart: a pointer, and a counter that
\* fits its width.
TypeOK ==
  /\ head \in HeadWord
  /\ next \in [Descs -> Ptr]
  /\ held \in [Threads -> SUBSET Descs]
  /\ pc \in [Threads -> {"idle", "push_load", "push_link", "push_cas",
                         "pop_read", "pop_cas"}]
  /\ oldhead \in [Threads -> HeadWord]
  /\ chain \in [Threads -> Seq(Descs)]
  /\ nextptr \in [Threads -> Ptr]
  /\ stack \in Seq(Descs)

\* The links in memory spell the abstract stack, whatever pushes and pops
\* overlapped: the head word points to its top, every link to the next one
\* down, the last link is null.
LinksSpellStack ==
  /\ head.ptr = IF stack = << >> THEN NULL ELSE stack[1]
  /\ \A i \in 1..Len(stack) :
       next[stack[i]] = IF i = Len(stack) THEN NULL ELSE stack[i + 1]

\* No descriptor is lost or duplicated: each is in the list once, or in the
\* hands of exactly one thread.
OneOwner ==
  /\ IsInjective(stack)
  /\ \A d \in Descs : d \in Range(stack) \/ \E t \in Threads : d \in held[t]
  /\ \A t \in Threads :
       /\ held[t] \cap Range(stack) = {}
       /\ \A u \in Threads \ {t} : held[t] \cap held[u] = {}

\* heap_push_partial's assert(oldhead.get_ptr() != newhead.get_ptr()): the
\* descriptor being pushed is not the list's own head.
PushedNotHead ==
  \A t \in Threads : pc[t] \in {"push_link", "push_cas"} =>
    oldhead[t].ptr \notin Range(chain[t])

\* Lists implement the atomic stack the rest of the allocator relies on.
Abs == INSTANCE DescStack
ImplementsStack == Abs!Spec
=============================================================================

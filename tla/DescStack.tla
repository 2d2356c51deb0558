------------------------------ MODULE DescStack ------------------------------
(***************************************************************************)
(* What a descriptor list of ralloc (avail_sb, or one partial_list)        *)
(* promises to the code that uses it: an atomic stack.  Every descriptor   *)
(* is either in the stack or in the hands of one thread.                   *)
(***************************************************************************)
EXTENDS Integers, Sequences, Functions

CONSTANTS Threads,   \* threads of the application
          Descs,     \* descriptors, one per superblock
          MaxChain   \* bound: descriptors one push may carry

VARIABLES stack,     \* the descriptors in the list, top first
          held       \* held[t]: the descriptors thread t may push

vars == <<stack, held>>

\* Chains of distinct descriptors of S, as organize_sb_list pushes them.
Chains(S) ==
  {c \in UNION {[1..n -> S] : n \in 1..MaxChain} : IsInjective(c)}

\* A list starts empty; the descriptors are spread over the threads.
Init ==
  /\ stack = << >>
  /\ \E owner \in [Descs -> Threads] :
       held = [t \in Threads |-> {d \in Descs : owner[d] = t}]

\* A whole chain of descriptors goes on top in one step.
Push(t) ==
  \E c \in Chains(held[t]) :
    /\ stack' = c \o stack
    /\ held' = [held EXCEPT ![t] = @ \ Range(c)]

Pop(t) ==
  /\ stack # << >>
  /\ stack' = Tail(stack)
  /\ held' = [held EXCEPT ![t] = @ \cup {Head(stack)}]

\* A descriptor leaves one thread's hands for another's (its superblock
\* became full in one thread's cache, another thread frees into it first).
Handoff(t, u) ==
  /\ t # u
  /\ \E d \in held[t] :
       held' = [held EXCEPT ![t] = @ \ {d}, ![u] = @ \cup {d}]
  /\ UNCHANGED stack

Next == \E t \in Threads : Push(t) \/ Pop(t) \/ \E u \in Threads : Handoff(t, u)

Spec == Init /\ [][Next]_vars
=============================================================================

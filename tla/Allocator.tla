------------------------------ MODULE Allocator ------------------------------
(***************************************************************************)
(* What malloc and free promise: an allocation is memory of the heap that  *)
(* nobody else holds, and it stays its holder's until it is freed.         *)
(***************************************************************************)
EXTENDS Integers

CONSTANTS Top,     \* the heap's addresses are 1..Top
          Sizes    \* sizes of allocations

VARIABLE live      \* what the application holds: [ptr, words]

Memory(b) == b.ptr..(b.ptr + b.words - 1)

Init == live = {}

Malloc ==
  \E b \in [ptr : 1..Top, words : Sizes] :
    /\ Memory(b) \subseteq 1..Top
    /\ \A h \in live : Memory(b) \cap Memory(h) = {}
    /\ live' = live \cup {b}

Free == \E b \in live : live' = live \ {b}

Next == Malloc \/ Free

Spec == Init /\ [][Next]_live
=============================================================================

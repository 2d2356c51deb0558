----------------------------- MODULE DurableHeap -----------------------------
(***************************************************************************)
(* What Ralloc promises across the ends and crashes of processes: a block  *)
(* is given out once, what a root points to stays allocated, and only      *)
(* what no root points to may be reclaimed behind the application's back.  *)
(***************************************************************************)
CONSTANTS Blocks, Roots, Null

VARIABLES alloc,  \* blocks that are allocated
          roots   \* roots[i]: a block, or Null

Init == alloc = {} /\ roots = [i \in Roots |-> Null]

Malloc(b) == /\ b \in Blocks \ alloc
             /\ alloc' = alloc \cup {b} /\ UNCHANGED roots

Free(b) == /\ b \in alloc /\ \A i \in Roots : roots[i] # b
           /\ alloc' = alloc \ {b} /\ UNCHANGED roots

SetRoot(i, p) == /\ p \in alloc \cup {Null}
                 /\ roots' = [roots EXCEPT ![i] = p] /\ UNCHANGED alloc

\* The heap is restarted from its roots.
Collect == /\ alloc' = {b \in alloc : \E i \in Roots : roots[i] = b}
           /\ UNCHANGED roots

Next == \/ \E b \in Blocks : Malloc(b) \/ Free(b)
        \/ \E i \in Roots, p \in Blocks \cup {Null} : SetRoot(i, p)
        \/ Collect

Spec == Init /\ [][Next]_<<alloc, roots>>
=============================================================================

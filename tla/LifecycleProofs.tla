--------------------------- MODULE LifecycleProofs ---------------------------
(***************************************************************************)
(* Proofs about Lifecycle, for any threads, blocks, roots and crashes,     *)
(* where crashes are those of a process (the kernel marks its mutex) and   *)
(* none hits the constructor of BaseMeta.                                  *)
(***************************************************************************)
EXTENDS Lifecycle, TLAPS

Collecting == {"gc", "gc_mark", "gc_sweep"}
Ended == {"down", "terminated"}
Creating == {"create_desc", "create_sb", "create_meta"}

\* Whether the constructor of BaseMeta is over.
Constructed == "basemd" \in files /\ pc \notin InCtor

\* What the steps of RP_init and the constructor leave behind.
InitInv ==
  /\ pc \notin Ended \cup {"create_desc", "create_sb", "create_meta"} => "basemd" \in files
  /\ pc \notin Ended \cup {"create_desc", "create_sb"} => "sb" \in files
  /\ "basemd" \in files => "sb" \in files
  /\ Constructed => heap_start /\ line.mtx.robust
  /\ pc \in InCtor \ {"ctor_mutex"} => line.mtx.robust /\ line.mtx.owner = self
  /\ pc = "ctor_organize" => heap_start
  /\ pc = "ctor_organize" \/ (Constructed /\ pc \notin Ended \cup {"create_desc", "create_sb"})
       => sb_addr = "first"
  /\ ~Constructed => /\ line.avail_sb = {} /\ leaked = {} /\ ~unclean
                     /\ roots = [i \in Roots |-> Null]
  /\ pc \notin Ended \cup {"ready", "running"} => self \in alive
  /\ pc \in {"writeback", "unmap"} => alive = {self}
  /\ pc \in Creating => (restart <=> "basemd" \in files)

\* Who owns the mutex.  While the heap is in use it is a thread of the process,
\* or one that has died; so it is marked when the process dies.
MutexInv ==
  /\ line.mtx.owner \in alive \cup {Unlocked, Dead}
  /\ pc \in Creating => line.mtx.owner \in {Unlocked, Dead}
  /\ pc \in Collecting => line.mtx.owner = self /\ dirty
  /\ pc = "set_dirty" => IF dirty THEN line.mtx.owner = self ELSE line.mtx.owner # Dead
  /\ pc \in {"running", "writeback"} => line.mtx.owner # Unlocked
  /\ pc = "ready" /\ ~restart => line.mtx.owner # Unlocked /\ ~unclean
  /\ pc = "unmap" => line.mtx.owner \in {Unlocked, Dead}
  /\ unclean => \/ line.mtx.owner = Dead /\ pc \in Ended \cup Creating \cup {"ready"}
                \/ pc \in Collecting \cup {"set_dirty"} /\ dirty

\* Every block is in one place.
Partition ==
  /\ line.avail_sb \cup Cached \cup owned \cup leaked = Blocks
  /\ line.avail_sb \cap Cached = {}
  /\ \A t, u \in Threads : t # u => cache[t] \cap cache[u] = {}
  /\ (line.avail_sb \cup Cached) \cap (owned \cup leaked) = {}
  /\ owned \cap leaked = {}

\* The blocks are accounted for whenever the lists are right.
BlockInv ==
  /\ Rooted \subseteq owned
  /\ pc \notin {"running", "writeback", "unmap"} => owned = Rooted
  /\ ListsHold \/ pc = "set_dirty" => Partition
  /\ pc = "set_dirty" /\ dirty => leaked = {}

IInv == TypeOK /\ InitInv /\ MutexInv /\ BlockInv
-----------------------------------------------------------------------------

\* A step that changes nothing keeps them.
LEMMA TypeStutter == ASSUME TypeOK, UNCHANGED vars PROVE TypeOK'
BY Zenon DEF TypeOK, vars, process, heap, history

\* Every step keeps the types.
LEMMA TypeStep ==
  ASSUME IInv, [Next]_vars, ~PowerFails, ~CtorCrashes
  PROVE  TypeOK'
<1> USE LifecycleAssumption
    DEF IInv, TypeOK, process, heap, history, PCs, Lines, InCtor, InUse,
        Mutex, trylock, unlock, OwnersDie, ProcessEnds, Flushed, NoCaches
<1>1. CASE CreateDesc
  BY <1>1 DEF CreateDesc
<1>2. CASE CreateSb
  BY <1>2 DEF CreateSb
<1>3. CASE CreateMeta
  BY <1>3 DEF CreateMeta
<1>4. CASE CtorMutex
  BY <1>4, Zenon DEF CtorMutex
<1>5. CASE CtorRoots
  BY <1>5 DEF CtorRoots
<1>6. CASE CtorExpand
  BY <1>6 DEF CtorExpand
<1>7. CASE CtorOrganize
  BY <1>7 DEF CtorOrganize
<1>8. CASE GcBegin
  BY <1>8 DEF GcBegin
<1>9. CASE GcMark
  <2>1. unclean' \in BOOLEAN
    BY <1>9, Zenon DEF GcMark
  <2>2. line' \in Lines
    BY <1>9 DEF GcMark
  <2>3. owned' \in SUBSET Blocks /\ leaked' \in SUBSET Blocks
    BY <1>9 DEF GcMark
  <2>4. /\ pc' \in PCs /\ alive' \in SUBSET Threads
        /\ alive' = {} <=> pc' \in {"down", "terminated"}
        /\ UNCHANGED <<self, restart, dirty, sb_addr, filters, cache, files, heap_start,
                       pline, roots, crashes>>
    BY <1>9 DEF GcMark
  <2>5. QED
    BY <1>9, <2>1, <2>2, <2>3, <2>4 DEF GcMark
<1>10. CASE GcSweep
  BY <1>10 DEF GcSweep
<1>11. CASE set_dirty
  BY <1>11, Zenon DEF set_dirty
<1>12. CASE writeback
  BY <1>12 DEF writeback
<1>13. CASE Unmap
  BY <1>13 DEF Unmap
<1>14. CASE UseNew
  BY <1>14 DEF UseNew
<1>15. CASE Evict
  BY <1>15 DEF Evict
<1>16. CASE Crash
  <2>1. unclean' \in BOOLEAN
    BY <1>16, Zenon DEF Crash
  <2>2. line' \in Lines /\ pline' \in Lines
    BY <1>16 DEF Crash
  <2>3. crashes' \in 0..MaxCrashes
    BY <1>16 DEF Crash
  <2>4. QED
    BY <1>16, <2>1, <2>2, <2>3 DEF Crash
<1>17. ASSUME NEW t \in Threads, Start(t) PROVE TypeOK'
  <2>1. restart' = TRUE \/ restart' = FALSE
    BY <1>17 DEF Start
  <2>2. QED
    BY <1>17, <2>1, Zenon DEF Start
<1>18. ASSUME NEW t \in Threads, is_dirty(t) PROVE TypeOK'
  BY <1>18 DEF is_dirty
<1>19. ASSUME NEW t \in Threads, Spawn(t) PROVE TypeOK'
  BY <1>19 DEF Spawn
<1>20. ASSUME NEW t \in Threads, ThreadExit(t) PROVE TypeOK'
  <2>1. line' \in Lines
    BY <1>20, Zenon DEF ThreadExit
  <2>2. cache' \in [Threads -> SUBSET Blocks] /\ cache'[t] = {} /\ alive' # {}
    BY <1>20 DEF ThreadExit
  <2>3. QED
    BY <1>20, <2>1, <2>2 DEF ThreadExit
<1>21. ASSUME NEW t \in Threads, Exit(t) PROVE TypeOK'
  BY <1>21 DEF Exit
<1>22. ASSUME NEW t \in Threads, NEW b \in Blocks, Fill(t, b) PROVE TypeOK'
  BY <1>22 DEF Fill
<1>23. ASSUME NEW t \in Threads, NEW b \in Blocks, Malloc(t, b) PROVE TypeOK'
  BY <1>23 DEF Malloc
<1>24. ASSUME NEW t \in Threads, NEW b \in Blocks, FreeBlock(t, b) PROVE TypeOK'
  BY <1>24 DEF FreeBlock
<1>25. ASSUME NEW i \in Roots, get_root(i) PROVE TypeOK'
  BY <1>25 DEF get_root
<1>26. ASSUME NEW i \in Roots, NEW p \in owned \cup {NullOff}, set_root(i, p) PROVE TypeOK'
  BY <1>26 DEF set_root
<1>27. CASE UNCHANGED vars
  BY <1>27, TypeStutter, Zenon
<1>28. QED
  BY <1>1, <1>2, <1>3, <1>4, <1>5, <1>6, <1>7, <1>8, <1>9, <1>10, <1>11, <1>12, <1>13, <1>14,
     <1>15, <1>16, <1>17, <1>18, <1>19, <1>20, <1>21, <1>22, <1>23, <1>24, <1>25, <1>26, <1>27, Zenon
  DEF Next, Starting, Recovering, Exiting, Application

\* Every step of RP_init leaves what the next one expects.
LEMMA InitStep ==
  ASSUME IInv, [Next]_vars, ~PowerFails, ~CtorCrashes
  PROVE  InitInv'
<1> USE LifecycleAssumption
    DEF IInv, TypeOK, process, heap, history, PCs, Lines, InCtor, InUse,
        Mutex, trylock, unlock, OwnersDie, ProcessEnds, Flushed, NoCaches,
        InitInv, MutexInv, Constructed, Ended, Creating
<1>1. CASE CreateDesc
  BY <1>1 DEF CreateDesc
<1>2. CASE CreateSb
  BY <1>2 DEF CreateSb
<1>3. CASE CreateMeta
  BY <1>3 DEF CreateMeta
<1>4. CASE CtorMutex
  BY <1>4 DEF CtorMutex
<1>5. CASE CtorRoots
  BY <1>5 DEF CtorRoots
<1>6. CASE CtorExpand
  BY <1>6 DEF CtorExpand
<1>7. CASE CtorOrganize
  BY <1>7 DEF CtorOrganize
<1>8. CASE GcBegin
  BY <1>8 DEF GcBegin
<1>9. CASE GcMark
  <2>1. CASE pc' = "gc_sweep"
    BY <1>9, <2>1 DEF GcMark
  <2>2. CASE pc' = "terminated"
    BY <1>9, <2>2 DEF GcMark
  <2>3. QED
    BY <1>9, <2>1, <2>2 DEF GcMark
<1>10. CASE GcSweep
  BY <1>10 DEF GcSweep
<1>11. CASE set_dirty
  BY <1>11 DEF set_dirty
<1>12. CASE writeback
  BY <1>12 DEF writeback
<1>13. CASE Unmap
  BY <1>13 DEF Unmap
<1>14. CASE UseNew
  BY <1>14 DEF UseNew
<1>15. CASE Evict
  BY <1>15 DEF Evict
<1>16. CASE Crash
  <2>1. /\ line'.mtx.robust = line.mtx.robust /\ line'.avail_sb = line.avail_sb
        /\ pc' = "down" /\ UNCHANGED <<files, heap_start, roots>>
    BY <1>16 DEF Crash
  <2>2. CASE Constructed
    BY <2>1, <2>2
  <2>3. CASE ~Constructed
    BY <1>16, <2>1, <2>3 DEF Crash, Rooted, BlockInv
  <2>4. QED
    BY <2>2, <2>3
<1>17. ASSUME NEW t \in Threads, Start(t) PROVE InitInv'
  BY <1>17 DEF Start
<1>18. ASSUME NEW t \in Threads, is_dirty(t) PROVE InitInv'
  BY <1>18 DEF is_dirty
<1>19. ASSUME NEW t \in Threads, Spawn(t) PROVE InitInv'
  BY <1>19 DEF Spawn
<1>20. ASSUME NEW t \in Threads, ThreadExit(t) PROVE InitInv'
  BY <1>20 DEF ThreadExit
<1>21. ASSUME NEW t \in Threads, Exit(t) PROVE InitInv'
  BY <1>21 DEF Exit
<1>22. ASSUME NEW t \in Threads, NEW b \in Blocks, Fill(t, b) PROVE InitInv'
  BY <1>22 DEF Fill
<1>23. ASSUME NEW t \in Threads, NEW b \in Blocks, Malloc(t, b) PROVE InitInv'
  BY <1>23 DEF Malloc
<1>24. ASSUME NEW t \in Threads, NEW b \in Blocks, FreeBlock(t, b) PROVE InitInv'
  BY <1>24 DEF FreeBlock
<1>25. ASSUME NEW i \in Roots, get_root(i) PROVE InitInv'
  BY <1>25 DEF get_root
<1>26. ASSUME NEW i \in Roots, NEW p \in owned \cup {NullOff}, set_root(i, p) PROVE InitInv'
  BY <1>26 DEF set_root
<1>27. CASE UNCHANGED vars
  BY <1>27, Zenon DEF vars
<1>28. QED
  BY <1>1, <1>2, <1>3, <1>4, <1>5, <1>6, <1>7, <1>8, <1>9, <1>10, <1>11, <1>12, <1>13, <1>14,
     <1>15, <1>16, <1>17, <1>18, <1>19, <1>20, <1>21, <1>22, <1>23, <1>24, <1>25, <1>26, <1>27, Zenon
  DEF Next, Starting, Recovering, Exiting, Application

\* No step loses the mark of a process that died.
LEMMA MutexStep ==
  ASSUME IInv, [Next]_vars, ~PowerFails, ~CtorCrashes
  PROVE  MutexInv'
<1> USE LifecycleAssumption
    DEF IInv, TypeOK, process, heap, history, PCs, Lines, InCtor, InUse,
        Mutex, trylock, unlock, OwnersDie, ProcessEnds, Flushed, NoCaches,
        InitInv, MutexInv, Constructed, Ended, Creating, Collecting
<1>1. CASE CreateDesc
  BY <1>1 DEF CreateDesc
<1>2. CASE CreateSb
  BY <1>2 DEF CreateSb
<1>3. CASE CreateMeta
  BY <1>3 DEF CreateMeta
<1>4. CASE CtorMutex
  BY <1>4 DEF CtorMutex
<1>5. CASE CtorRoots
  BY <1>5 DEF CtorRoots
<1>6. CASE CtorExpand
  BY <1>6 DEF CtorExpand
<1>7. CASE CtorOrganize
  BY <1>7 DEF CtorOrganize
<1>8. CASE GcBegin
  BY <1>8 DEF GcBegin
<1>9. CASE GcMark
  <2>1. CASE pc' = "gc_sweep"
    BY <1>9, <2>1 DEF GcMark
  <2>2. CASE pc' = "terminated"
    BY <1>9, <2>2 DEF GcMark
  <2>3. QED
    BY <1>9, <2>1, <2>2, Zenon DEF GcMark
<1>10. CASE GcSweep
  BY <1>10 DEF GcSweep
<1>11. CASE set_dirty
  BY <1>11 DEF set_dirty
<1>12. CASE writeback
  BY <1>12 DEF writeback
<1>13. CASE Unmap
  BY <1>13 DEF Unmap
<1>14. CASE UseNew
  BY <1>14 DEF UseNew
<1>15. CASE Evict
  BY <1>15 DEF Evict
<1>16. CASE Crash
  BY <1>16 DEF Crash
<1>17. ASSUME NEW t \in Threads, Start(t) PROVE MutexInv'
  BY <1>17 DEF Start
<1>18. ASSUME NEW t \in Threads, is_dirty(t) PROVE MutexInv'
  BY <1>18 DEF is_dirty
<1>19. ASSUME NEW t \in Threads, Spawn(t) PROVE MutexInv'
  BY <1>19 DEF Spawn
<1>20. ASSUME NEW t \in Threads, ThreadExit(t) PROVE MutexInv'
  BY <1>20 DEF ThreadExit
<1>21. ASSUME NEW t \in Threads, Exit(t) PROVE MutexInv'
  BY <1>21 DEF Exit
<1>22. ASSUME NEW t \in Threads, NEW b \in Blocks, Fill(t, b) PROVE MutexInv'
  BY <1>22 DEF Fill
<1>23. ASSUME NEW t \in Threads, NEW b \in Blocks, Malloc(t, b) PROVE MutexInv'
  BY <1>23 DEF Malloc
<1>24. ASSUME NEW t \in Threads, NEW b \in Blocks, FreeBlock(t, b) PROVE MutexInv'
  BY <1>24 DEF FreeBlock
<1>25. ASSUME NEW i \in Roots, get_root(i) PROVE MutexInv'
  BY <1>25 DEF get_root
<1>26. ASSUME NEW i \in Roots, NEW p \in owned \cup {NullOff}, set_root(i, p) PROVE MutexInv'
  BY <1>26 DEF set_root
<1>27. CASE UNCHANGED vars
  BY <1>27, Zenon DEF vars
<1>28. QED
  BY <1>1, <1>2, <1>3, <1>4, <1>5, <1>6, <1>7, <1>8, <1>9, <1>10, <1>11, <1>12, <1>13, <1>14,
     <1>15, <1>16, <1>17, <1>18, <1>19, <1>20, <1>21, <1>22, <1>23, <1>24, <1>25, <1>26, <1>27, Zenon
  DEF Next, Starting, Recovering, Exiting, Application

\* Every step keeps the blocks accounted for.
LEMMA BlockStep ==
  ASSUME IInv, [Next]_vars, ~PowerFails, ~CtorCrashes
  PROVE  BlockInv'
<1> USE LifecycleAssumption
    DEF IInv, TypeOK, process, heap, history, PCs, Lines, InCtor, InUse,
        Mutex, trylock, unlock, OwnersDie, ProcessEnds, Flushed, NoCaches,
        InitInv, MutexInv, BlockInv, Partition, Cached, Rooted, ListsHold, Constructed,
        Ended, Collecting
<1>1. CASE CreateDesc
  BY <1>1 DEF CreateDesc
<1>2. CASE CreateSb
  BY <1>2 DEF CreateSb
<1>3. CASE CreateMeta
  BY <1>3 DEF CreateMeta
<1>4. CASE CtorMutex
  BY <1>4 DEF CtorMutex
<1>5. CASE CtorRoots
  BY <1>5 DEF CtorRoots
<1>6. CASE CtorExpand
  BY <1>6 DEF CtorExpand
<1>7. CASE CtorOrganize
  BY <1>7 DEF CtorOrganize
<1>8. CASE GcBegin
  BY <1>8 DEF GcBegin
<1>9. CASE GcMark
  <2>1. CASE pc' = "gc_sweep"
    BY <1>9, <2>1 DEF GcMark
  <2>2. CASE pc' = "terminated"
    BY <1>9, <2>2 DEF GcMark
  <2>3. QED
    BY <1>9, <2>1, <2>2, Zenon DEF GcMark
<1>10. CASE GcSweep
  BY <1>10 DEF GcSweep
<1>11. CASE set_dirty
  BY <1>11 DEF set_dirty
<1>12. CASE writeback
  BY <1>12 DEF writeback
<1>13. CASE Unmap
  BY <1>13 DEF Unmap
<1>14. CASE UseNew
  BY <1>14 DEF UseNew
<1>15. CASE Evict
  BY <1>15 DEF Evict
<1>16. CASE Crash
  BY <1>16 DEF Crash
<1>17. ASSUME NEW t \in Threads, Start(t) PROVE BlockInv'
  BY <1>17 DEF Start
<1>18. ASSUME NEW t \in Threads, is_dirty(t) PROVE BlockInv'
  BY <1>18 DEF is_dirty
<1>19. ASSUME NEW t \in Threads, Spawn(t) PROVE BlockInv'
  BY <1>19 DEF Spawn
<1>20. ASSUME NEW t \in Threads, ThreadExit(t) PROVE BlockInv'
  BY <1>20 DEF ThreadExit
<1>21. ASSUME NEW t \in Threads, Exit(t) PROVE BlockInv'
  BY <1>21 DEF Exit
<1>22. ASSUME NEW t \in Threads, NEW b \in Blocks, Fill(t, b) PROVE BlockInv'
  BY <1>22 DEF Fill
<1>23. ASSUME NEW t \in Threads, NEW b \in Blocks, Malloc(t, b) PROVE BlockInv'
  BY <1>23 DEF Malloc
<1>24. ASSUME NEW t \in Threads, NEW b \in Blocks, FreeBlock(t, b) PROVE BlockInv'
  BY <1>24 DEF FreeBlock
<1>25. ASSUME NEW i \in Roots, get_root(i) PROVE BlockInv'
  BY <1>25 DEF get_root
<1>26. ASSUME NEW i \in Roots, NEW p \in owned \cup {NullOff}, set_root(i, p) PROVE BlockInv'
  BY <1>26 DEF set_root
<1>27. CASE UNCHANGED vars
  BY <1>27 DEF vars
<1>28. QED
  BY <1>1, <1>2, <1>3, <1>4, <1>5, <1>6, <1>7, <1>8, <1>9, <1>10, <1>11, <1>12, <1>13, <1>14,
     <1>15, <1>16, <1>17, <1>18, <1>19, <1>20, <1>21, <1>22, <1>23, <1>24, <1>25, <1>26, <1>27, Zenon
  DEF Next, Starting, Recovering, Exiting, Application

\* Before the heap exists the inductive invariant holds.
LEMMA InitImpliesIInv == Init => IInv
<1> SUFFICES ASSUME Init PROVE IInv
  OBVIOUS
<1> USE LifecycleAssumption DEF Init, NoCaches, Mutex, InCtor
<1>1. restart \in BOOLEAN /\ dirty \in BOOLEAN /\ heap_start \in BOOLEAN /\ unclean \in BOOLEAN
  BY Zenon
<1>2. line \in Lines /\ pline \in Lines
  BY DEF Lines
<1>3. TypeOK
  BY <1>1, <1>2 DEF TypeOK, PCs
<1>4. InitInv
  BY DEF InitInv, Constructed, Ended, Creating
<1>5. MutexInv
  BY DEF MutexInv, Creating, Collecting
<1>6. BlockInv
  BY DEF BlockInv, Rooted, ListsHold
<1>7. QED
  BY <1>3, <1>4, <1>5, <1>6 DEF IInv

LEMMA StepKeepsIInv ==
  ASSUME IInv, [Next]_vars, ~PowerFails, ~CtorCrashes
  PROVE  IInv'
BY TypeStep, InitStep, MutexStep, BlockStep DEF IInv

\* The invariant holds for ever if only processes die.
LEMMA IInvHolds == ASSUME ~PowerFails, ~CtorCrashes PROVE Spec => []IInv
<1>1. IInv /\ [Next]_vars => IInv'
  BY StepKeepsIInv
<1>2. QED
  BY InitImpliesIInv, <1>1, PTL DEF Spec

-----------------------------------------------------------------------------

\* Every variable of Lifecycle keeps its type, and no block is in the cache of
\* a thread that does not run.
THEOREM TypeCorrect == ASSUME ~PowerFails, ~CtorCrashes PROVE Spec => []TypeOK
<1>1. IInv => TypeOK
  BY DEF IInv
<1>2. QED
  BY IInvHolds, <1>1, PTL

\* After any sequence of exits and crashes, while threads allocate every block
\* is in exactly one place (RP_init, RP_recover, ~RallocHolder, ~TCaches).
THEOREM BlocksAreOnce == ASSUME ~PowerFails, ~CtorCrashes PROVE Spec => []BlocksOnce
<1>1. IInv => BlocksOnce
  BY DEF IInv, BlocksOnce, BlockInv, Partition, ListsHold, MutexInv, InitInv, Constructed,
         Ended, Creating, Collecting, InCtor
<1>2. QED
  BY IInvHolds, <1>1, PTL

\* is_dirty says yes after every crash of a process that used the heap.
THEOREM CrashesAreDirty == ASSUME ~PowerFails, ~CtorCrashes PROVE Spec => []CrashIsDirty
<1>1. IInv => CrashIsDirty
  BY Zenon DEF IInv, CrashIsDirty, MutexInv, Ended, Creating
<1>2. QED
  BY IInvHolds, <1>1, PTL

-----------------------------------------------------------------------------

\* The refinement mapping: the blocks in use.
Alloc == IF ListsHold THEN Blocks \ (line.avail_sb \cup Cached) ELSE Rooted

\* What the refinement maps to a step that changes nothing.
Quiet == Alloc' = Alloc /\ roots' = roots

\* A block is rooted in the abstract heap if it is in this one.
LEMMA RootsMap ==
  /\ roots' = roots => RootBlocks' = RootBlocks
  /\ \A i \in Roots, b \in Blocks : RootBlocks[i] = b <=> roots[i] = b
BY LifecycleAssumption, Zenon DEF RootBlocks

\* Steps of RP_init, of the recovery and of the exit are invisible.
LEMMA QuietStep ==
  ASSUME IInv, ~PowerFails, ~CtorCrashes,
         \/ Starting \/ GcMark \/ GcSweep \/ set_dirty \/ Exiting \/ UseNew \/ Evict
         \/ UNCHANGED vars
  PROVE  Quiet
<1> USE LifecycleAssumption
    DEF IInv, TypeOK, InitInv, MutexInv, BlockInv, Quiet, Alloc, ListsHold, Rooted, Cached,
        Constructed, Ended, Creating, Collecting, InCtor, ProcessEnds, process, heap, history
<1>1. CASE CreateDesc
  BY <1>1 DEF CreateDesc
<1>2. CASE CreateSb
  BY <1>2 DEF CreateSb
<1>3. CASE CreateMeta
  BY <1>3 DEF CreateMeta
<1>4. CASE CtorMutex
  BY <1>4 DEF CtorMutex
<1>5. CASE CtorRoots
  BY <1>5 DEF CtorRoots
<1>6. CASE CtorExpand
  BY <1>6 DEF CtorExpand
<1>7. CASE CtorOrganize
  BY <1>7 DEF CtorOrganize
<1>8. CASE GcMark
  <2>1. ~ListsHold /\ ~ListsHold'
    BY <1>8, Zenon DEF GcMark
  <2>2. QED
    BY <1>8, <2>1 DEF GcMark
<1>9. CASE GcSweep
  BY <1>9 DEF GcSweep
<1>10. CASE set_dirty
  BY <1>10 DEF set_dirty, Partition
<1>11. CASE writeback
  BY <1>11 DEF writeback
<1>12. CASE Unmap
  BY <1>12 DEF Unmap
<1>13. CASE UseNew
  BY <1>13 DEF UseNew
<1>14. CASE Evict
  BY <1>14 DEF Evict
<1>15. CASE UNCHANGED vars
  BY <1>15 DEF vars
<1>16. QED
  BY <1>1, <1>2, <1>3, <1>4, <1>5, <1>6, <1>7, <1>8, <1>9, <1>10, <1>11, <1>12, <1>13, <1>14, <1>15
  DEF Starting, Exiting

\* A step that moves blocks between caches and lists changes nothing either.
LEMMA QuietIf ==
  ASSUME line'.avail_sb \cup Cached' = line.avail_sb \cup Cached,
         ListsHold' <=> ListsHold, roots' = roots
  PROVE  Quiet
BY DEF Quiet, Alloc, Rooted

\* Threads that come and go, and caches that are filled and flushed, too.
LEMMA QuietThreadStep ==
  ASSUME IInv, NEW t \in Threads,
         \/ Start(t) \/ is_dirty(t) \/ Spawn(t) \/ ThreadExit(t) \/ Exit(t)
         \/ \E b \in Blocks : Fill(t, b)
  PROVE  Quiet
<1> USE LifecycleAssumption
    DEF IInv, TypeOK, InitInv, MutexInv, BlockInv, ListsHold, Cached,
        Constructed, Ended, Creating, Collecting, InCtor, Flushed, process, heap, history
<1>1. CASE Start(t)
  BY <1>1 DEF Start, Quiet, Alloc, Rooted
<1>2. CASE is_dirty(t)
  BY <1>2 DEF is_dirty, Quiet, Alloc, Rooted
<1>3. CASE Spawn(t)
  BY <1>3 DEF Spawn, Quiet, Alloc, Rooted
<1>4. CASE ThreadExit(t)
  <2>1. line'.avail_sb \cup Cached' = line.avail_sb \cup Cached
    <3>1. cache' = [cache EXCEPT ![t] = {}]
      BY <1>4 DEF ThreadExit
    <3>2. line'.avail_sb = line.avail_sb \cup cache[t]
      BY <1>4 DEF ThreadExit, Lines
    <3>3. QED
      BY <3>1, <3>2
  <2>2. ListsHold' <=> ListsHold
    BY <1>4 DEF ThreadExit
  <2>3. roots' = roots
    BY <1>4 DEF ThreadExit
  <2>4. QED
    BY <2>1, <2>2, <2>3, QuietIf
<1>5. CASE Exit(t)
  <2>1. line'.avail_sb \cup Cached' = line.avail_sb \cup Cached
    <3>1. cache' = [cache EXCEPT ![t] = {}]
      BY <1>5 DEF Exit
    <3>2. line'.avail_sb = line.avail_sb \cup cache[t]
      BY <1>5 DEF Exit, Lines
    <3>3. QED
      BY <3>1, <3>2
  <2>2. ListsHold' <=> ListsHold
    BY <1>5 DEF Exit
  <2>3. roots' = roots
    BY <1>5, Zenon DEF Exit
  <2>4. QED
    BY <2>1, <2>2, <2>3, QuietIf
<1>6. ASSUME NEW b \in Blocks, Fill(t, b) PROVE Quiet
  <2>1. line'.avail_sb \cup Cached' = line.avail_sb \cup Cached
    <3>1. cache' = [cache EXCEPT ![t] = @ \cup {b}]
      BY <1>6 DEF Fill
    <3>2. line'.avail_sb = line.avail_sb \ {b} /\ b \in line.avail_sb
      BY <1>6 DEF Fill, Lines
    <3>3. QED
      BY <3>1, <3>2
  <2>2. ListsHold' <=> ListsHold
    BY <1>6 DEF Fill
  <2>3. roots' = roots
    BY <1>6 DEF Fill
  <2>4. QED
    BY <2>1, <2>2, <2>3, QuietIf
<1>7. QED
  BY <1>1, <1>2, <1>3, <1>4, <1>5, <1>6

\* A malloc, a free and a set_root are those of the abstract heap.
LEMMA VisibleStep ==
  ASSUME IInv
  PROVE  /\ \A t \in Threads, b \in Blocks : Malloc(t, b) => Durable!Malloc(b)
         /\ \A t \in Threads, b \in Blocks : FreeBlock(t, b) => Durable!Free(b)
         /\ \A i \in Roots, p \in owned \cup {NullOff} :
              set_root(i, p) => Durable!SetRoot(i, IF p = NullOff THEN Null ELSE p)
<1> USE DEF IInv, TypeOK, InitInv, MutexInv, BlockInv, Partition, ListsHold, Rooted, Cached,
            Ended, Creating, Collecting, InCtor, process, heap, history
<1>1. ASSUME NEW t \in Threads, NEW b \in Blocks, Malloc(t, b) PROVE Durable!Malloc(b)
  <2>1. ListsHold /\ ListsHold'
    BY <1>1 DEF Malloc
  <2>2. Cached' = Cached \ {b} /\ b \in Cached
    BY <1>1 DEF Malloc
  <2>3. QED
    BY <1>1, <2>1, <2>2, RootsMap DEF Malloc, Durable!Malloc
<1>2. ASSUME NEW t \in Threads, NEW b \in Blocks, FreeBlock(t, b) PROVE Durable!Free(b)
  <2>1. ListsHold /\ ListsHold'
    BY <1>2 DEF FreeBlock
  <2>2. Cached' = Cached \cup {b} /\ b \in owned \ Rooted
    BY <1>2 DEF FreeBlock
  <2>3. QED
    <3>1. \A j \in Roots : RootBlocks[j] # b
      BY <2>2, RootsMap, LifecycleAssumption
    <3>2. QED
      BY <1>2, <2>1, <2>2, <3>1, RootsMap DEF FreeBlock, Durable!Free
<1>3. ASSUME NEW i \in Roots, NEW p \in owned \cup {NullOff}, set_root(i, p)
      PROVE  Durable!SetRoot(i, IF p = NullOff THEN Null ELSE p)
  <2>1. ListsHold /\ ListsHold'
    BY <1>3 DEF set_root
  <2>2. RootBlocks' = [RootBlocks EXCEPT ![i] = IF p = NullOff THEN Null ELSE p]
    <3>1. /\ roots' = [roots EXCEPT ![i] = p] /\ roots \in [Roots -> Blocks \cup {Null, NullOff}]
          /\ p \in Blocks \/ p = NullOff
      BY <1>3 DEF set_root
    <3>2. ASSUME NEW j \in Roots
          PROVE  RootBlocks'[j] = [RootBlocks EXCEPT ![i] = IF p = NullOff THEN Null ELSE p][j]
      BY <3>1, LifecycleAssumption DEF RootBlocks
    <3>3. QED
      BY <3>2, Zenon DEF RootBlocks
  <2>3. (IF p = NullOff THEN Null ELSE p) \in Alloc \cup {Null} /\ Alloc' = Alloc
    BY <1>3, <2>1 DEF set_root, Alloc
  <2>4. QED
    BY <2>2, <2>3 DEF Durable!SetRoot, Alloc
<1>4. QED
  BY <1>1, <1>2, <1>3, Zenon

\* A crash, and the start of a recovery, reclaim what no root points to.
LEMMA CollectStep ==
  ASSUME IInv, ~PowerFails, ~CtorCrashes, GcBegin \/ Crash
  PROVE  Durable!Collect \/ Quiet
<1> USE LifecycleAssumption
    DEF IInv, TypeOK, InitInv, MutexInv, BlockInv, Partition, Rooted, Cached, ListsHold,
        Constructed, Ended, Creating, Collecting, InCtor, InUse, process, heap, history
<1>0. ASSUME Rooted \subseteq Alloc, Alloc' = Rooted, roots' = roots PROVE Durable!Collect
  <2>1. Rooted = {b \in Alloc : \E i \in Roots : RootBlocks[i] = b}
    BY <1>0, RootsMap DEF Alloc
  <2>2. QED
    BY <1>0, <2>1, RootsMap, Zenon DEF Durable!Collect, Alloc
<1>1. CASE GcBegin
  BY <1>1, <1>0 DEF GcBegin, Alloc
<1>2. CASE Crash
  <2>1. pc' = "down" /\ line'.avail_sb = line.avail_sb /\ UNCHANGED <<files, roots>>
    BY <1>2 DEF Crash, OwnersDie, Mutex, Lines
  <2>2. Cached' = {}
    BY <1>2 DEF Crash, NoCaches
  <2>3. CASE ListsHold /\ pc \in InUse
    BY <1>2, <2>1, <2>3, <1>0 DEF Crash, Alloc
  <2>4. CASE ListsHold /\ pc \notin InUse
    <3>1. ListsHold' /\ Cached = {}
      BY <1>2, <2>1, <2>4 DEF Crash
    <3>2. QED
      BY <2>1, <2>2, <2>4, <3>1 DEF Quiet, Alloc
  <2>5. CASE ~ListsHold
    <3>1. ~ListsHold'
      BY <1>2, <2>1, <2>5 DEF Crash
    <3>2. QED
      BY <2>1, <2>5, <3>1 DEF Quiet, Alloc
  <2>6. QED
    BY <2>3, <2>4, <2>5
<1>3. QED
  BY <1>1, <1>2

\* Through all ends and crashes of processes the heap implements the abstract
\* durable one: what a root points to stays allocated, and no block is given
\* out twice.
THEOREM LifecycleIsDurable ==
  ASSUME ~PowerFails, ~CtorCrashes PROVE Spec => ImplementsDurable
<1>1. Init => Durable!Init
  BY LifecycleAssumption DEF Init, Durable!Init, ListsHold, Rooted, RootBlocks
<1>2. ASSUME IInv, [Next]_vars
      PROVE  [Durable!Next]_<<Alloc, RootBlocks>>
  <2>0. Quiet => UNCHANGED <<Alloc, RootBlocks>>
    BY RootsMap, Zenon DEF Quiet
  <2>1. CASE \/ Starting \/ GcMark \/ GcSweep \/ set_dirty \/ Exiting \/ UseNew \/ Evict
             \/ UNCHANGED vars
    BY <1>2, <2>0, <2>1, QuietStep
  <2>2. CASE GcBegin \/ Crash
    BY <1>2, <2>0, <2>2, CollectStep DEF Durable!Next
  <2>3. ASSUME NEW t \in Threads, Start(t) \/ is_dirty(t) \/ Spawn(t) \/ ThreadExit(t) \/ Exit(t)
        PROVE  Quiet
    BY <1>2, <2>3, QuietThreadStep
  <2>4. ASSUME NEW t \in Threads, NEW b \in Blocks, Fill(t, b)
        PROVE  Quiet
    BY <1>2, <2>4, QuietThreadStep
  <2>5. ASSUME NEW t \in Threads, NEW b \in Blocks, Malloc(t, b) \/ FreeBlock(t, b)
        PROVE  Durable!Next
    BY <1>2, <2>5, VisibleStep DEF Durable!Next
  <2>6. ASSUME NEW i \in Roots, NEW p \in owned \cup {NullOff}, set_root(i, p)
        PROVE  Durable!Next
    <3>1. (IF p = NullOff THEN Null ELSE p) \in Blocks \cup {Null}
      BY <1>2, <2>6 DEF IInv, TypeOK
    <3>2. QED
      BY <1>2, <2>6, <3>1, VisibleStep DEF Durable!Next
  <2>7. ASSUME NEW i \in Roots, get_root(i)
        PROVE  Quiet
    BY <2>7 DEF get_root, heap, history, Quiet, Alloc, ListsHold, Rooted, Cached
  <2>8. QED
    BY <1>2, <2>0, <2>1, <2>2, <2>3, <2>4, <2>5, <2>6, <2>7
    DEF Next, Recovering, Application
<1>3. QED
  BY <1>1, <1>2, IInvHolds, PTL DEF Spec, ImplementsDurable, Durable!Spec, Alloc
=============================================================================

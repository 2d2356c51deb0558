------------------------------ MODULE Lifecycle ------------------------------
(***************************************************************************)
(* A heap through the lives of the processes that use it: RP_init creates  *)
(* or remaps the files, RP_recover asks the dirty flag (a robust mutex in  *)
(* the heap) whether the last process ended in order and collects garbage  *)
(* if not, threads come and go with their caches, and at exit              *)
(* ~RallocHolder writes everything back and clears the flag.  A process    *)
(* may die between any two steps.                                          *)
(*                                                                         *)
(* The parts that have modules of their own are one step each: creating a  *)
(* region (Region), allocating (Heap), marking and sweeping (Recovery).    *)
(* A block is a superblock: it is in avail_sb, in the cache of a thread or *)
(* allocated.                                                              *)
(***************************************************************************)
EXTENDS Integers, FiniteSets

CONSTANTS Threads, Blocks, Roots,
          Null, NullOff,     \* no root; what set_root stores for a null pointer
          Unlocked, Dead, Gone,  \* what the mutex says instead of an owner
          MaxCrashes,        \* bound: crashes of a behaviour
          PowerFails,        \* whether crashes are power failures
          CtorCrashes        \* whether processes die in BaseMeta's constructor

ASSUME LifecycleAssumption ==
  /\ Null \notin Blocks /\ NullOff \notin Blocks /\ Null # NullOff
  /\ {Unlocked, Dead, Gone} \cap Threads = {}
  /\ Unlocked # Dead /\ Unlocked # Gone /\ Dead # Gone
  /\ MaxCrashes \in Nat /\ PowerFails \in BOOLEAN /\ CtorCrashes \in BOOLEAN

VARIABLES
  pc,       \* where the process is
  alive,    \* its threads
  self,     \* the one that initialises, recovers or exits
  restart, dirty,  \* results of RP_init and of RP_recover
  sb_addr,  \* regions_address[SB_IDX]: none, the base or the first superblock
  filters,  \* roots that have a filter function
  cache,    \* cache[t]: blocks in the cache of thread t
  files,    \* files that exist
  heap_start,  \* whether the sb region's header has it
  line,     \* first cache line of BaseMeta: the mutex, and avail_sb
  pline,    \* what a power failure leaves of it
  roots,    \* persistent roots, written back by set_root
  owned,    \* blocks the application has pointers to
  leaked,   \* history: blocks it had when a process ended, and no root
  unclean,  \* history: a crash has left lists behind that are not right
  crashes   \* history: crashes so far

process == <<alive, self, restart, dirty, sb_addr, filters>>
heap == <<files, heap_start, line, pline, roots>>
history == <<leaked, unclean, crashes>>
vars == <<pc, process, cache, owned, heap, history>>

-----------------------------------------------------------------------------
(* The robust mutex, in zeroed memory first an ordinary one *)

Mutex(r, o) == [robust |-> r, owner |-> o]

\* pthread_mutex_trylock by thread t: what it returns, and the mutex after.
\* The memory is a mutex from the start, so that it never returns EINVAL.
trylock(m, t) ==
  CASE m.owner = Unlocked -> [s |-> "0", m |-> Mutex(m.robust, t)]
    [] m.owner = Dead -> [s |-> "EOWNERDEAD", m |-> Mutex(m.robust, t)]
    [] OTHER -> [s |-> "EBUSY", m |-> m]

unlock(m, t) == IF m.owner = t THEN Mutex(m.robust, Unlocked) ELSE m

\* Threads ts die: the kernel marks a robust mutex that one of them holds.
OwnersDie(m, ts) ==
  IF m.owner \in ts THEN Mutex(m.robust, IF m.robust THEN Dead ELSE Gone) ELSE m

-----------------------------------------------------------------------------

Rooted == {b \in Blocks : \E i \in Roots : roots[i] = b}
NoCaches == [t \in Threads |-> {}]

\* The application's pointers are lost with the process; only what the roots
\* point to can be found again.
ProcessEnds ==
  /\ alive' = {}
  /\ owned' = owned \cap Rooted
  /\ leaked' = leaked \cup (owned \ Rooted)

Init ==
  /\ pc = "down" /\ alive = {} /\ cache = NoCaches
  /\ self \in Threads /\ restart = FALSE /\ dirty = FALSE
  /\ sb_addr = "none" /\ filters = {}
  /\ files = {} /\ heap_start = FALSE
  /\ line = [mtx |-> Mutex(FALSE, Unlocked), avail_sb |-> {}] /\ pline = line
  /\ roots = [i \in Roots |-> Null]
  /\ owned = {} /\ leaked = {} /\ unclean = FALSE /\ crashes = 0

-----------------------------------------------------------------------------
(* RP_init, by the first thread *)

Start(t) ==
  /\ pc \in {"down", "terminated"}
  /\ pc' = "create_desc"
  /\ alive' = {t} /\ self' = t
  /\ restart' = ("basemd" \in files)
  /\ sb_addr' = "none" /\ filters' = {} /\ dirty' = FALSE
  /\ UNCHANGED <<cache, owned, heap, history>>

CreateDesc ==
  /\ pc = "create_desc"
  /\ files' = files \cup {"desc"}
  /\ pc' = "create_sb"
  /\ UNCHANGED <<process, cache, owned, heap_start, line, pline, roots, history>>

\* The sb region is not expanded yet: a file that exists may have no heap
\* start, and then the address fetched is the base.
CreateSb ==
  /\ pc = "create_sb"
  /\ files' = files \cup {"sb"}
  /\ sb_addr' = CASE "sb" \notin files -> "none"
                  [] "sb" \in files /\ heap_start -> "first"
                  [] OTHER -> "base"
  /\ pc' = "create_meta"
  /\ UNCHANGED <<alive, self, restart, dirty, filters, cache, owned,
                 heap_start, line, pline, roots, history>>

\* create_for: BaseMeta is constructed only in a new file.
CreateMeta ==
  /\ pc = "create_meta"
  /\ files' = files \cup {"basemd"}
  /\ pc' = IF "basemd" \in files THEN "ready" ELSE "ctor_mutex"
  /\ UNCHANGED <<process, cache, owned, heap_start, line, pline, roots, history>>

CtorMutex ==
  /\ pc = "ctor_mutex"
  /\ line' = [mtx |-> trylock(Mutex(TRUE, Unlocked), self).m, avail_sb |-> {}]
  /\ pline' = line'
  /\ pc' = "ctor_roots"
  /\ UNCHANGED <<process, cache, owned, files, heap_start, roots, history>>

CtorRoots ==
  /\ pc = "ctor_roots"
  /\ roots' = [i \in Roots |-> Null]
  /\ pc' = "ctor_expand"
  /\ UNCHANGED <<process, cache, owned, files, heap_start, line, pline, history>>

CtorExpand ==
  /\ pc = "ctor_expand"
  /\ heap_start' = TRUE /\ sb_addr' = "first"
  /\ pc' = "ctor_organize"
  /\ UNCHANGED <<alive, self, restart, dirty, filters, cache, owned,
                 files, line, pline, roots, history>>

CtorOrganize ==
  /\ pc = "ctor_organize"
  /\ line' = [line EXCEPT !.avail_sb = Blocks]
  /\ pc' = "ready"
  /\ UNCHANGED <<process, cache, owned, files, heap_start, pline, roots, history>>

-----------------------------------------------------------------------------
(* RP_get_root and RP_recover *)

get_root(i) ==
  /\ pc \in {"ready", "running"}
  /\ filters' = filters \cup {i}
  /\ UNCHANGED <<pc, alive, self, restart, dirty, sb_addr, cache, owned, heap, history>>

\* A heap that is new can be used at once.
UseNew ==
  /\ pc = "ready" /\ ~restart
  /\ pc' = "running"
  /\ UNCHANGED <<process, cache, owned, heap, history>>

\* restart: is_dirty.  A dead owner's mutex is made consistent and kept, a
\* free one is locked and unlocked, one that is not valid is made anew.  On
\* any other answer the process exits.
is_dirty(t) ==
  LET r == trylock(line.mtx, t) IN
  /\ pc = "ready" /\ t \in alive
  /\ self' = t
  /\ dirty' = (r.s \in {"EOWNERDEAD", "EINVAL"})
  /\ line' = [line EXCEPT !.mtx = CASE r.s = "0" -> unlock(r.m, t)
                                    [] r.s = "EINVAL" -> Mutex(TRUE, Unlocked)
                                    [] OTHER -> r.m]
  /\ pc' = CASE r.s \in {"EOWNERDEAD", "EINVAL"} -> "gc"
             [] r.s \in {"0", "EBUSY", "EAGAIN"} -> "set_dirty"
             [] OTHER -> "writeback"
  /\ UNCHANGED <<alive, restart, sb_addr, filters, cache, owned,
                 files, heap_start, pline, roots, history>>

\* GarbageCollection, step 0.
GcBegin ==
  /\ pc = "gc"
  /\ line' = [line EXCEPT !.avail_sb = {}]
  /\ pc' = "gc_mark"
  /\ UNCHANGED <<process, cache, owned, files, heap_start, pline, roots, history>>

\* Step 1: the filter function of a root that nobody has read is empty, and
\* to call it is an exception that nobody catches.  A root that was set to
\* nullptr counts, and its filter function finds that it is out of range.
GcMark ==
  /\ pc = "gc_mark"
  /\ \/ /\ \A i \in Roots : roots[i] # Null => i \in filters
        /\ pc' = "gc_sweep"
        /\ UNCHANGED <<process, owned, line, leaked, unclean>>
     \/ /\ \E i \in Roots : roots[i] # Null /\ i \notin filters
        /\ pc' = "terminated"
        /\ line' = [line EXCEPT !.mtx = OwnersDie(@, alive)]
        /\ unclean' = TRUE
        /\ ProcessEnds
        /\ UNCHANGED <<self, restart, dirty, sb_addr, filters>>
  /\ UNCHANGED <<cache, files, heap_start, pline, roots, crashes>>

\* Mutant of GcSweep: the superblocks in use are listed too.
GcSweep_All ==
  /\ pc = "gc_sweep"
  /\ line' = [line EXCEPT !.avail_sb = Blocks]
  /\ leaked' = {}
  /\ pc' = "set_dirty"
  /\ UNCHANGED <<process, cache, owned, files, heap_start, pline, roots, unclean, crashes>>

\* Step 2.  The write-back that follows does not reach the first line.
GcSweep ==
  /\ pc = "gc_sweep"
  /\ line' = [line EXCEPT !.avail_sb = Blocks \ Rooted]
  /\ leaked' = {}
  /\ pc' = "set_dirty"
  /\ UNCHANGED <<process, cache, owned, files, heap_start, pline, roots, unclean, crashes>>

\* Mutants of set_dirty: the flag is left alone; trylock until it succeeds.
set_dirty_Not ==
  /\ pc = "set_dirty"
  /\ pc' = "running" /\ unclean' = FALSE
  /\ UNCHANGED <<process, cache, owned, files, heap_start, line, pline, roots, leaked, crashes>>

set_dirty_Spin ==
  /\ pc = "set_dirty"
  /\ line' = [line EXCEPT !.mtx = trylock(@, self).m]
  /\ IF trylock(line.mtx, self).s = "0"
     THEN pc' = "running" /\ unclean' = FALSE
     ELSE UNCHANGED <<pc, unclean>>
  /\ UNCHANGED <<process, cache, owned, files, heap_start, pline, roots, leaked, crashes>>

\* The flag stays set until a process exits.
set_dirty ==
  /\ pc = "set_dirty"
  /\ line' = [line EXCEPT !.mtx = trylock(@, self).m]
  /\ pc' = "running" /\ unclean' = FALSE
  /\ UNCHANGED <<process, cache, owned, files, heap_start, pline, roots, leaked, crashes>>

-----------------------------------------------------------------------------
(* The application *)

Spawn(t) ==
  /\ pc \in {"ready", "running"} /\ t \notin alive
  /\ alive' = alive \cup {t}
  /\ UNCHANGED <<pc, self, restart, dirty, sb_addr, filters, cache, owned, heap, history>>

\* fill_cache, then pop_block.
Fill(t, b) ==
  /\ pc = "running" /\ t \in alive
  /\ b \in line.avail_sb
  /\ line' = [line EXCEPT !.avail_sb = @ \ {b}]
  /\ cache' = [cache EXCEPT ![t] = @ \cup {b}]
  /\ UNCHANGED <<pc, process, owned, files, heap_start, pline, roots, history>>

Malloc(t, b) ==
  /\ pc = "running" /\ t \in alive
  /\ b \in cache[t]
  /\ cache' = [cache EXCEPT ![t] = @ \ {b}]
  /\ owned' = owned \cup {b}
  /\ UNCHANGED <<pc, process, heap, history>>

\* The application frees nothing that a root points to.
FreeBlock(t, b) ==
  /\ pc = "running" /\ t \in alive
  /\ b \in owned \ Rooted
  /\ cache' = [cache EXCEPT ![t] = @ \cup {b}]
  /\ owned' = owned \ {b}
  /\ UNCHANGED <<pc, process, heap, history>>

\* A null pointer is untranslated as any other, to an offset that is not null.
set_root(i, p) ==
  /\ pc = "running"
  /\ roots' = [roots EXCEPT ![i] = p]
  /\ UNCHANGED <<pc, process, cache, owned, files, heap_start, line, pline, history>>

\* public_flush_cache, in the destructor of a thread's TCaches.
Flushed(t) == [line EXCEPT !.avail_sb = @ \cup cache[t]]

\* Mutants of ThreadExit: the cache is not flushed, or not emptied.
ThreadExit_NoFlush(t) ==
  /\ pc \in {"ready", "running"} /\ t \in alive /\ alive # {t}
  /\ line' = [line EXCEPT !.mtx = OwnersDie(@, {t})]
  /\ cache' = [cache EXCEPT ![t] = {}]
  /\ alive' = alive \ {t}
  /\ UNCHANGED <<pc, self, restart, dirty, sb_addr, filters, owned,
                 files, heap_start, pline, roots, history>>

ThreadExit_KeepCache(t) ==
  /\ pc \in {"ready", "running"} /\ t \in alive /\ alive # {t}
  /\ line' = [Flushed(t) EXCEPT !.mtx = OwnersDie(@, {t})]
  /\ alive' = alive \ {t}
  /\ UNCHANGED <<pc, self, restart, dirty, sb_addr, filters, cache, owned,
                 files, heap_start, pline, roots, history>>

\* A thread other than the last one ends; it may be the one that owns the
\* mutex.
ThreadExit(t) ==
  /\ pc \in {"ready", "running"} /\ t \in alive /\ alive # {t}
  /\ line' = [Flushed(t) EXCEPT !.mtx = OwnersDie(@, {t})]
  /\ cache' = [cache EXCEPT ![t] = {}]
  /\ alive' = alive \ {t}
  /\ UNCHANGED <<pc, self, restart, dirty, sb_addr, filters, owned,
                 files, heap_start, pline, roots, history>>

-----------------------------------------------------------------------------
(* exit: the destructors of the last thread, then ~RallocHolder *)

Exit(t) ==
  /\ pc = "running" /\ alive = {t}
  /\ self' = t
  /\ line' = Flushed(t) /\ cache' = [cache EXCEPT ![t] = {}]
  /\ pc' = "writeback"
  /\ UNCHANGED <<alive, restart, dirty, sb_addr, filters, owned,
                 files, heap_start, pline, roots, history>>

\* flush_region twice, and writeback: the loop begins with the second line.
\* Then set_clean, which does nothing if another thread is the owner.
writeback ==
  /\ pc = "writeback"
  /\ line' = [line EXCEPT !.mtx = unlock(@, self)]
  /\ pc' = "unmap"
  /\ UNCHANGED <<process, cache, owned, files, heap_start, pline, roots, history>>

\* delete _rgs, and the process ends.
Unmap ==
  /\ pc = "unmap"
  /\ line' = [line EXCEPT !.mtx = OwnersDie(@, alive)]
  /\ ProcessEnds
  /\ pc' = "down"
  /\ UNCHANGED <<self, restart, dirty, sb_addr, filters, cache,
                 files, heap_start, pline, roots, unclean, crashes>>

-----------------------------------------------------------------------------
(* What may happen at any time *)

\* The cache writes the first line back.
Evict ==
  /\ pline # line
  /\ pline' = line
  /\ UNCHANGED <<pc, process, cache, owned, files, heap_start, line, roots, history>>

InCtor == {"ctor_mutex", "ctor_roots", "ctor_expand", "ctor_organize"}
InUse == {"running", "writeback", "gc_mark", "gc_sweep"}

\* The process dies, and the caches of its threads with it.  When power
\* fails nobody marks the mutex, and its owner is a thread that is gone; this
\* may also happen when no process runs, and take the first line with it.
Crash ==
  /\ pc \in {"down", "terminated"} => PowerFails
  /\ pc \in InCtor => CtorCrashes
  /\ crashes < MaxCrashes
  /\ crashes' = crashes + 1
  /\ line' = IF PowerFails
             THEN [pline EXCEPT !.mtx.owner = IF @ \in Threads THEN Gone ELSE @]
             ELSE [line EXCEPT !.mtx = OwnersDie(@, alive)]
  /\ pline' = IF PowerFails THEN line' ELSE pline
  /\ ProcessEnds
  /\ cache' = NoCaches
  /\ unclean' = (unclean \/ pc \in InUse \/ line'.avail_sb # line.avail_sb)
  /\ pc' = "down"
  /\ UNCHANGED <<self, restart, dirty, sb_addr, filters, files, heap_start, roots>>

-----------------------------------------------------------------------------

Starting == \/ CreateDesc \/ CreateSb \/ CreateMeta
            \/ CtorMutex \/ CtorRoots \/ CtorExpand \/ CtorOrganize
Recovering == GcBegin \/ GcMark \/ GcSweep \/ set_dirty
Exiting == writeback \/ Unmap

Application ==
  \/ \E t \in Threads : Start(t) \/ is_dirty(t) \/ Spawn(t) \/ ThreadExit(t) \/ Exit(t)
  \/ \E t \in Threads, b \in Blocks : Fill(t, b) \/ Malloc(t, b) \/ FreeBlock(t, b)
  \/ \E i \in Roots : get_root(i) \/ \E p \in owned \cup {NullOff} : set_root(i, p)
  \/ UseNew

Next == Starting \/ Recovering \/ Exiting \/ Application \/ Evict \/ Crash

Spec == Init /\ [][Next]_vars

\* A call of the application that does not crash keeps running.
FairSpec == Spec /\ WF_vars(Starting \/ Recovering \/ Exiting)

-----------------------------------------------------------------------------
(* Properties *)

PCs == {"down", "create_desc", "create_sb", "create_meta", "ready", "gc", "gc_mark",
        "gc_sweep", "set_dirty", "running", "writeback", "unmap", "terminated"} \cup InCtor
Lines == [mtx : [robust : BOOLEAN, owner : Threads \cup {Unlocked, Dead, Gone}],
          avail_sb : SUBSET Blocks]

\* Every variable has its type; only a process that runs has threads, and
\* only its threads have blocks in their caches.
TypeOK ==
  /\ pc \in PCs /\ alive \in SUBSET Threads /\ self \in Threads
  /\ restart \in BOOLEAN /\ dirty \in BOOLEAN
  /\ sb_addr \in {"none", "base", "first"}
  /\ filters \in SUBSET Roots
  /\ cache \in [Threads -> SUBSET Blocks]
  /\ files \in SUBSET {"desc", "sb", "basemd"} /\ heap_start \in BOOLEAN
  /\ line \in Lines /\ pline \in Lines
  /\ roots \in [Roots -> Blocks \cup {Null, NullOff}]
  /\ owned \in SUBSET Blocks /\ leaked \in SUBSET Blocks
  /\ unclean \in BOOLEAN /\ crashes \in 0..MaxCrashes
  /\ alive = {} <=> pc \in {"down", "terminated"}
  /\ \A t \in Threads : cache[t] # {} => pc = "running" /\ t \in alive

Cached == UNION {cache[t] : t \in Threads}

\* While threads allocate, every block is in exactly one place: in avail_sb,
\* in the cache of one thread, with the application (where all rooted blocks
\* are), or lost by a program that ended in order without a root for it.
\* Superblocks are addressed from the first one.
BlocksOnce ==
  pc = "running" =>
    /\ line.avail_sb \cup Cached \cup owned \cup leaked = Blocks
    /\ line.avail_sb \cap Cached = {}
    /\ \A t, u \in Threads : t # u => cache[t] \cap cache[u] = {}
    /\ (line.avail_sb \cup Cached) \cap (owned \cup leaked) = {}
    /\ owned \cap leaked = {} /\ Rooted \subseteq owned
    /\ sb_addr = "first"

\* A crash that left the lists as they should not be, in a process that used
\* the heap or (where power failed) after its end, left the flag dirty:
\* RP_recover of the next one says so, even if others died in between.
CrashIsDirty == pc = "set_dirty" /\ unclean => dirty

\* The heap implements the abstract one.  After a crash, until the lists are
\* made anew, the blocks in use are those that the roots point to.
ListsHold == /\ ~unclean /\ "basemd" \in files
             /\ pc \notin InCtor \cup {"gc_mark", "gc_sweep"}
RootBlocks == [i \in Roots |-> IF roots[i] \in Blocks THEN roots[i] ELSE Null]
Durable == INSTANCE DurableHeap
  WITH roots <- RootBlocks,
       alloc <- IF ListsHold THEN Blocks \ (line.avail_sb \cup Cached) ELSE Rooted
ImplementsDurable == Durable!Spec

\* RP_init, RP_recover and the exit end unless the process dies, the recovery
\* if the application has read every root it set.
RestartEnds ==
  /\ pc = "create_desc" ~> pc \in {"ready", "down"}
  /\ (/\ pc \in {"gc", "set_dirty"}
      /\ \A i \in Roots : roots[i] # Null => i \in filters)
       ~> pc \in {"running", "down"}
  /\ pc = "writeback" ~> pc = "down"
=============================================================================

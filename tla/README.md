# A TLA+ verification of Ralloc

Ralloc (`src/`) is a persistent lock-free allocator: threads of one process
allocate from files mapped into memory, without locks, and after a crash the
heap is rebuilt from the blocks reachable from persistent roots. This directory
holds TLA+ models of its parts, TLC configurations that check them on small
instances, and TLAPS proofs of what matters most for every instance.

Paths below are relative to the root of the repository (`src/src/...` is the
allocator).

## 1. The system: inventory

| Part | Source | State | Operations that change it | Who runs them |
|---|---|---|---|---|
| C API | `ralloc.cpp` | `initialized`, `base_md`, `_rgs` | `RP_init`, `RP_recover`, `RP_malloc`, `RP_free`, `RP_realloc`, `RP_calloc`, `RP_set_root`, `RP_get_root`, `RP_close` | application threads; init and close by one |
| BaseMeta | `BaseMeta.cpp/.hpp` | `avail_sb`, `heaps[]`, `roots[]`, dirty mutex (in the meta region) | `do_malloc`, `do_free`, `fill_cache`, `flush_cache`, `malloc_from_partial`, `malloc_from_newsb`, `small_sb_alloc`, `small_sb_retire`, `large_sb_alloc`, `large_sb_retire`, `organize_sb_list` | all threads, concurrently |
| Descriptors | `BaseMeta.hpp` | `heap`, `block_size`, `maxcount`, `anchor`, `next_free`, `next_partial` (in the desc region) | CAS on `anchor`, link stores | all threads |
| Descriptor lists | `BaseMeta.cpp` | a head word (pointer and counter), the links | pushes and pops by CAS | all threads |
| Thread caches | `TCache.cpp/.hpp` | `t_cache[]` per thread | `push_block`, `pop_block`, `push_list`, `pop_list`; the destructor | the owner |
| RegionManager | `RegionManager.cpp/.hpp` | a header line (`curr_addr`, `heap_start`, size) at the start of a mapped file | create, remap, close, `__nvm_region_allocator`, `__store_heap_start` | init and close by one thread, expansion by all |
| Regions | `RegionManager.hpp` | three RegionManagers | `create`, `create_for`, `expand`, `flush_region` | init, close |
| Recovery | `BaseMeta.cpp/.hpp` | mark sets, then all descriptors and lists | `GarbageCollection::operator()` | one thread, after a dirty restart |
| Pointers | `pptr.hpp`, `pm_config.hpp`, `BaseMeta.cpp` | - | encode and decode | - |
| Size classes | `SizeClass.cpp/.hpp` | two tables | the constructor | static initialisation |
| Dirty flag | `BaseMeta.cpp/.hpp` | a robust mutex in the first line of the meta region | `is_dirty`, `set_dirty`, `set_clean`; the kernel, when an owner dies | init, recovery and exit, by one thread each |
| Write-back | `pfence_util.h` | - | `FLUSH`, `FLUSHFENCE` | - |

How they interact. `do_malloc` takes a block from the thread's cache; an empty
cache is filled from a *partial* superblock of the class (all its free blocks
are reserved by one CAS on the anchor) or from a new one (from `avail_sb`, or by
expanding the sb region, which moves `curr_addr`). `do_free` puts a block into
the thread's cache; a cache as large as a superblock is flushed: runs of blocks
of the same superblock go back by one CAS on its anchor each, and the thread
whose CAS changed the state FULL to PARTIAL lists it, FULL to EMPTY retires it.
Large blocks are expansions of their own, cut into superblocks when freed.
`RP_init` creates or remaps the three regions, `RP_recover` asks the dirty flag
whether the last process ended in order and collects garbage if not, and the
destructor of a static object writes back and clears the flag at exit.

`PROJECT.json` lists the components with their status, and the hazards
(interleavings, crashes, stale values, limits) with the line where each bites
and the property that would catch it.

## 2. Modules

| Module | What it is |
|---|---|
| `DescStack` | abstract: a stack of descriptors with atomic push (of one or several), pop and hand-over |
| `DescList` | the list as it is: every load, link store and CAS an action; refines `DescStack` |
| `DescListProofs` | proofs about `DescList`, the refinement included |
| `Allocator` | abstract: malloc and free of memory that never overlaps |
| `Superblocks` | what the next two share: superblocks, size classes, descriptors, and the places where superblocks and blocks can be |
| `BlockHeap` | BaseMeta as movement of superblocks and blocks between places; refines `Allocator` |
| `BlockHeapProofs` | proofs about `BlockHeap`, the refinement included |
| `Heap` | BaseMeta and the thread caches access by access, over atomic descriptor stacks; refines `BlockHeap` and `Allocator` |
| `Region` | a RegionManager with its persistent header, racing expansions and power failures |
| `RegionProofs` | proofs about `Region` |
| `Recovery` | GarbageCollection: mark and sweep after a crash, crashes during it included |
| `RecoverySteps` | the inductive invariant of `Recovery`, and that every step of the collector keeps it |
| `RecoveryProofs` | what is reachable, that the initial states, the application and crashes keep the invariant, and the theorems |
| `Pointers` | the encoded words that persist: pptr, CrossPtr, AtomicCrossPtrCnt, under remapping |
| `PointersProofs` | proofs about `Pointers` |
| `DurableHeap` | abstract: what a root points to stays allocated across the ends and crashes of processes |
| `Lifecycle` | RP_init, RP_recover, the dirty flag, threads that come and go, exit, and crashes at any step; refines `DurableHeap` |
| `LifecycleProofs` | proofs about `Lifecycle`, the refinement included |
| `SizeClass` | the constructor of the lookup table |
| `Api` | RP_malloc, RP_free, RP_calloc, RP_realloc, RP_malloc_size with the contents of the blocks, over `SizeClass` and what `Allocator` promises |
| `ApiProofs` | proofs about `SizeClass` and about `Api` |
| `MCDescList`, `MCHeap`, `MCRegion`, `MCRecovery`, `MCApi` | values and symmetry for TLC (`Pointers` and `Lifecycle` need none) |

The composition is by layers. `Heap` uses its lists as `DescStack` does (a push
or a pop is one atomic step), and `DescList` is proved to implement `DescStack`,
so that the many accesses of a push or a pop need not be interleaved again in
`Heap`. `Heap` uses `curr_addr` of the sb region as a counter with load and CAS;
`Region` shows what this word promises across threads and power failures.
`BlockHeap` lies between `Heap` and `Allocator`: TLC shows that the links, counts
and retries of `Heap` keep the sets of `BlockHeap`, and the proofs show for all
sizes that moving these sets implements `Allocator`, which is what `Api` calls.
`DescList` compares heads as pairs of a descriptor and a counter; `Pointers`
shows that comparing the encoded words is the same. `Recovery` starts from the
states that `Heap` leaves at a crash, reduced to what persists: descriptors,
blocks and roots. Anchors, lists and caches are lost or ignored, so the layouts
are all assignments of superblocks to classes and large blocks. `Lifecycle` uses
`Region`, `Heap` and `Recovery` as single steps, and shows that the collection is
started whenever it has to be.

### DescList

`head` is the word of `AtomicCrossPtrCnt`: a descriptor and a counter of
`CntMod` values (2^34 in the code). `next[d]` is `next_partial` or `next_free`.
A push (`heap_push_partial`, `small_sb_retire`, `organize_sb_list` with a chain)
is `PushPrepare`, `PushLoad`, `PushLink`, then `PushCasSucceeds` or
`PushCasFails`; the last may happen at any time because the CAS is weak. A pop
(`heap_pop_partial`, `small_sb_alloc`) is `PopLoad`, `PopRead` and a CAS, or
`PopEmpty`. As in the code a push counts and a pop keeps the counter. `held[t]`
says who may push a descriptor: the rest of the allocator makes sure that this
is one thread, and `Handoff` moves the right (a full superblock is popped by one
thread and pushed again by the first that frees into it). `Heap` checks that the
allocator keeps this discipline (`SbsAccounted`).

### Heap

Addresses are numbers, superblock `s` begins at `s * SBSIZE`, a descriptor has
the number of its superblock, and superblock 0 is skipped as in `BaseMeta`'s
constructor. `link[a]` is the pptr in the first word of a free block; a word
that was never written reads as null, which is how `pop_list` and
`malloc_from_partial` read fresh superblocks. The blocks of a free list are
found only by following links for as long as a count says, exactly as in the
code. One action is one access to shared memory, with the local computation
that follows it:

| Code | Actions |
|---|---|
| `do_malloc`, small | `MallocHit`, `MallocMiss` |
| `malloc_from_partial` | `PopPartial`, `ReserveLoad`, `ReserveEmpty` (then `Retire`), `ReserveCas`, `ReserveRetry` |
| `small_sb_alloc` | `SbPop`, `ExpandLoad`, `ExpandCheck`, `ExpandCas`, `Organize` |
| `malloc_from_newsb` | `NewSb` |
| `do_free`, small | `FreeHit`, `FreeFlush` |
| `flush_cache` | `FlushGrab`, `FlushLoad`, `FlushCas`, `FlushRetry`, `PushPartial` or `Retire`, `FlushDone` |
| `~TCaches` | `ThreadExit` |
| `do_malloc`, large | `MallocLarge`, `LargeLoad`, `LargeCas`, `LargeInit` |
| `do_free`, large | `FreeLarge` |
| a failing `assert` | `Abort`: the process ends |

The application frees only what it holds (`live`) and may overwrite what it
holds: a returned block's first word is no pptr any more.

### Superblocks and BlockHeap

`sbs[x]` is the set of superblocks in place `x`: free (`Avail`), in the partial
list of a class, `Full` (in no list), part of a large block, or in the `Hand` of
the one thread that has popped it, expanded it or made it partial or empty and
must now initialise, list or retire it. `at[x]` is the set of blocks in place
`x`: with the `User`, in a cache `Bin`, in the `Run` that a flush has cut from a
bin, `Pending` (freed while its bin is flushed), or `Free` in its superblock. An
action of `BlockHeap` is the step of `Heap` in which its operation takes effect:

| `BlockHeap` | `Heap` |
|---|---|
| `TakePartial`, `TakeFree`, `Expand` | `PopPartial`; `SbPop`; `ExpandCas` or `LargeCas`, when they succeed |
| `Reserve`, `Retire`, `PushPartial` | `ReserveCas`, `Retire`, `PushPartial` |
| `Organize`, `NewSb`, `LargeInit`, `FreeLarge` | the actions of these names |
| `MallocHit`, `FreeHit`, `FreeFlush`, `FlushGrab`, `FlushDone` | the actions of these names |
| `FlushCas` | `FlushCas`, whatever the new state of the anchor |
| `Abort` | `Abort` |

All loads, failed exchanges and jumps of `Heap` are stutters. The refinement
mapping (`Movement` in `Heap`) reads the sets off the links: a bin is the chain
that begins at its block and is as long as its count says, a free list the chain
that begins at the anchor.

### Region

`hdr` is the header line as threads see it and `file` what a power failure would
leave; `Evict` writes the line back at any time, a FLUSH at its place, `Crash`
drops `hdr`. The modes follow `__map_persistent_region` store by store, so a
crash may hit between any two; then `fresh` (the file is complete, the
constructor has not stored the heap start), `open`, `closed`. Remapping checks
the stored size and maps at any of `Bases`. `__nvm_region_allocator` is
`AllocLoad` (with the alignment of an *address*, hence the base), `AllocFlushOld`,
`AllocCas`, `AllocFlushNew`. Who creates the region makes `FirstRequest`, before
anyone else may expand it, and records where that memory is (`StoreHeapStart`);
`home` remembers the mapping of that time, and `desc_lookup` shifts addresses as
`BaseMeta::desc_lookup` does.

### Recovery

`desc` and `mem` are what the program sees, `pdesc` and `pmem` what was written
back; a power failure keeps any part of the difference (`Survivors`), a crash of
the process keeps all of it. `mem[w]` is the pptr at word `w`: null, or the
address it leads to. In phase `running` the application sets roots and stores
pointers in blocks it can reach. The descriptors of small blocks are written back
when they are made (`malloc_from_newsb`), those of large ones are not: `do_malloc`
calls `FLUSH(&desc)`, which is the local variable. `Crash` records which blocks
are reachable in what it leaves (`kept`, computed by iterating the pointers,
independently of the collector) and what they hold; `SmallKept` relates `kept` to
what was reachable before.

| `GarbageCollection::operator()` | Actions |
|---|---|
| step 0, lists are reset | `Begin` |
| step 1, roots | `MarkRoot` for each (with `mark_func`), `RootsMarked` |
| step 1, the stack of nodes | `FilterNode` pops one, `filter_func` reads one word of it |
| step 2, a new superblock | `BeginSweep`, and the end of each sweep of one (`StartSb`) |
| the two loops over free blocks | `LinkFree`: one block is put into the list, up to the next mark or the end (`Limit`) |
| the loop over marked blocks | `PassMark`: one mark is passed, false positives included |
| the end of a superblock | `SweepEmpty`, `SweepLarge`, `SweepSmall` |
| publishing the list, the last assert, write-back | `Finish` |

`state`, `count`, `free_block` and `free_head` are the local variables of the
sweep of `curr_sb`: the anchor it builds, `last_possible_free_block` (and the
running `free_block`) and `free_blocks_head`. `rest` is what the iterator over
`marked_blk` has not passed.

A crash may hit between any two of these steps, so with a superblock half swept,
and recovery then starts again on what is left.

### Pointers

One word of each kind, as integers: a pptr is a distance times `UNIT` plus a
pattern whose last bit is the sign; a list head is a counter times `OFFSETS`
plus an offset; a root is an offset modulo the word. `to_off`, `to_root` and
`to_head` say, as offsets in a region, what each word was last set to. `Remap`
ends the program and maps both regions anywhere in `Bases`. A root may be set to
null: the code stores the distance of address 0 from the region, which is no null
`CrossPtr`; `null_at` remembers where the region was then.

### Lifecycle

`pc` is where the process is, from `down` over the creation of the three files,
the constructor of BaseMeta step by step, `ready` (RP_init has returned), the
collection, `running`, `writeback`, `unmap` to `down` again; an exception that
nobody catches leads to `terminated`. A block stands for a superblock: it is in
`avail_sb`, in the cache of a thread, or allocated. `line` is the first cache line
of BaseMeta (the mutex and `avail_sb`), `pline` what a power failure would leave of
it.

| Code | Actions |
|---|---|
| `_RP_init`, `Regions::create`, `create_for` | `Start`, `CreateDesc`, `CreateSb`, `CreateMeta` |
| `BaseMeta::BaseMeta` | `CtorMutex`, `CtorRoots`, `CtorExpand`, `CtorOrganize` |
| `RP_get_root` | `get_root`, which registers the filter function of a root |
| `RP_recover` | `is_dirty`, `GcBegin`, `GcMark`, `GcSweep`, `set_dirty` |
| threads | `Spawn`, `Fill`, `Malloc`, `FreeBlock`, `set_root`, `ThreadExit` |
| `~RallocHolder` | `Exit`, `writeback` (with `set_clean`), `Unmap` |

`trylock`, `unlock` and `OwnersDie` are what POSIX says of a robust mutex: an
owner that dies, be it with its process or as an ordinary thread, leaves the
mutex marked (`Dead`), and the next `trylock` reports it. A power failure marks
nothing: the owner is `Gone`. It may also hit while no process runs, and take back
the first line, which `writeback` does not write back. `is_dirty` has all branches
of the code; `EINVAL` and other answers do not occur, because the memory of the
mutex is a mutex from its first step on. `unclean` records that a crash left lists
behind that are not right: a process died while they were in use, or `avail_sb`
was taken back. `leaked` is what programs lost that ended in order without a root
for it. A root that `set_root` sets to `nullptr` is `NullOff`: it is no null root to
the collector, which calls its filter function, but it keeps no block.

### SizeClass and Api

`ScStore` and `ScNext` are the inner and the outer loop of the constructor that
fills `sizeclass_lookup`. `SIZE_CLASSES` is the table of the code; the runs use a
shorter one. In `Api` `mem` holds the words of all blocks and `data[p]` what the
application expects in block `p`. `do_malloc` returns any memory that `Allocator`
allows and that suits the size class; `do_free` leaves junk. `RP_calloc` is malloc
and memset. `RP_realloc` is a malloc if it is given null (`RP_malloc`), does nothing
out of range (`ReallocRefuse`) or if the size is the same (`ReallocSame`), and is
otherwise malloc, memcpy and free (`ReallocMove`, `ReallocCopy`, `ReallocFree`), with
steps of other threads in between; it copies what the old block held, also into a
smaller block. `Descriptor` truncates the size to `BLOCK_SIZES` values, as the 32 bits
of `block_size` do, and `do_free` gives back what the descriptor says. `intact` is
true until a block does not fit its descriptor or a copy its block. What such a
step overwrites may be links of free lists, of which nothing is known, so that the
properties promise something until then, and the run stops there (`Promised`).

## 3. Runs

| Run | Bounds | Shows | Distinct states |
|---|---|---|---|
| `desclist` | 2 threads, 3 descriptors, chains up to 2, 4 pushes | `LinksSpellStack`, `OneOwner`, `PushedNotHead` (an assert of `heap_push_partial`), `ImplementsStack`, `TypeOK` | 235 k |
| `heap_solo` | 2 threads, block sizes for 3 and 2 blocks, one superblock, 3 blocks allocated, fairness | `BlocksAccounted`, `AssertionsHold`, `ImplementsMovement`, `SoloCallReturns` | 166 k |
| `heap_expand` | 2 threads, 4 superblocks in the file, expansion by 2, large blocks of 1 and 2, 1 block allocated | `SbsAccounted`, `ImplementsAllocator`, `TypeOK` | 1.5 M |
| `heap_retry` | 2 threads, expansion, fairness | **violated**: `SbAllocRetriesFreeList` | - |
| `region` | 3 threads, 2 power failures, 3 mapping addresses, 2 of them congruent | `HandedOutOnce`, `HandedOutIsDurable`, `CreatedCanBeRemapped`, `CurrOnlyGrows`, `LookupFindsOwnDesc`, `TypeOK` | 309 k |
| `recovery` | 3 superblocks of 2 words, blocks of 1 or 2 words, large blocks of 2 superblocks, 1 root, 2 pointers, 2 power failures, fairness | `ReachableKept`, `NothingLeaked`, `DataPreserved`, `AssertionsHold`, `SmallKept`, `RecoveryEnds`, `TypeOK` | 661 k |
| `recovery_interior` | a large block of 2 superblocks, a root that may point to the second, a crash of the process | **violated**: `ReachableKept` | - |
| `pointers` | words of 64 values, 3 mapping addresses, counters of 8 values | `PptrReadsBack`, `HeadReadsBack`, `ExchangeIsExact`, `RootReadsBack`, `TypeOK` | 352 k |
| `lifecycle` | 2 threads, 2 blocks, 1 root, 3 crashes of processes, fairness | `BlocksOnce`, `CrashIsDirty`, `ImplementsDurable`, `RestartEnds`, `TypeOK` | 334 k |
| `lifecycle_power` | the same with power failures | **violated**: `CrashIsDirty` | - |
| `api` | 2 threads, 2 superblocks of 4 words, classes of 1 and 3 words, requests of 0 to 4 and of 8 words, sizes below 8 in descriptors, 3 blocks | `LookupFits`, `DataKept`, `SizeIsTrue`, `NothingLost`, `TypeOK` | 146 k |
| `api_shrink` | 1 thread, requests of 1 and 3 words | **violated**: `OthersKept` | - |

Why the bounds are enough. ABA on a head word needs one thread between its read
and its CAS and a second that pops two and pushes one again: 2 threads, 3
descriptors, 4 pushes contain it (with a counter that does not count, TLC finds
it at once). An anchor has three states, and every transition between them needs
at most 3 blocks. In `heap_solo` the only superblock has to change its class,
while the other thread still has blocks, or an anchor, of it. `heap_expand` has
room for one expansion more, so that small and large expansion race for the last
memory and one of them runs out of space, and two small superblocks, so that one
can be listed while another is retired. `recovery` sees all layouts of its
superblocks, and a root and two pointers mark up to three blocks, which may point to
themselves or to each other in a circle: there are gaps before, between and after
marked blocks, and the second power failure hits every step of the first
recovery. In `pointers` the counter wraps
after 8 pushes, and the pptr has targets before, behind and at itself. In
`lifecycle` a crash can hit the process that creates the heap, the collection of
the second and that of the third, and the owner of the mutex can be another
thread than the one that exits. In `api` requests lie on, between and above the
block sizes, a realloc moves within a class, to another and to a large block while
another thread allocates, and a block of 8 words does not fit its descriptor. In
`region` the mappings 8 and 16 are congruent and 12 is not, for superblocks of 8.
The proofs cover all other sizes of `desclist`, `region`, `recovery`, `pointers`, `lifecycle` and `api`, and of `BlockHeap`.

`ImplementsMovement` also holds on the instance of `heap_expand`, which has large
blocks and expansion, but enumerating the moves of `BlockHeap` for each of its
1.5 million states takes 18 minutes; so it was checked once and is no regular
run. To repeat it, add `ImplementsMovement` to the `PROPERTIES` of
`MCHeap_expand.cfg`.

Every property of a passing run is violated by a mutant of the code, listed in
`PROJECT.json`; the mutants are the operators `<definition>_<Change>`.

Restrictions of the passing runs. Where a violated run shows a flaw, or where the
code does something that its docs neither promise nor exclude, a constant of the
module says whether it may happen, and the passing runs and the proofs exclude it.
Each restriction is needed: without it TLC refutes a property.

| Constant | Passing runs exclude | Without it TLC refutes |
|---|---|---|
| `Interior` (Recovery) | pointers into the middle of a large block | `ReachableKept` (run `recovery_interior`); with a second pointer to the start of the block also `AssertionsHold` |
| `PowerFails` (Lifecycle) | power failures | `CrashIsDirty` (run `lifecycle_power`) |
| `CtorCrashes` (Lifecycle) | processes that die in the constructor of BaseMeta; its file exists, so no later process completes the heap | `BlocksOnce` |

Three properties are conditional instead, and history variables say when the
condition holds: those of `Api` hold while `intact`, `LookupFindsOwnDesc` of `Region` at
mappings congruent to `home`, and `RootReadsBack` of `Pointers` for a null root where it
was set (`null_at`). The runs and the proofs contain the states outside of these
conditions; the properties say nothing of them.

Fairness. `Heap`'s `FairSpec` assumes of a thread inside a call that it keeps
running (`WF` of its next step), and nothing of the application: no call has to be
made. A weak CAS that fails without reason and reads the same anchor again changes
nothing, so weak fairness also excludes that it fails so for ever; on x86, the
target of the `FLUSH` macros, it never does. `SoloCallReturns` asks only for
what lock-freedom promises: a call returns if all others are at rest from some
time on. `Recovery`'s `FairSpec` assumes that a collector that does not crash keeps
running: it is one sequential thread; crashes are bounded by `MaxCrashes`.
`Lifecycle`'s assumes the same of RP_init, RP_recover and the exit, each of which
is one thread without a wait: the mutex is only ever tried.

Deadlock is checked in `desclist`, `pointers`, `lifecycle` and `api`. In `Heap` and
`Region` a failing assert ends the process, and `Recovery` ends with a recovered
heap, so these runs allow it to stop.

## 4. What the violated runs show

* `heap_retry`. `small_sb_alloc` reads the head of `avail_sb` once. When the
  list was empty then, it stays in the branch that expands: the `continue` taken
  when the list is no longer empty (`BaseMeta.cpp:604`), and the end of the loop
  after a failed CAS, "Try to get a sb from free list again"
  (`BaseMeta.cpp:622`), both come back with the old, empty head. A thread that
  lost the race for an expansion spins until other threads have emptied the list
  again. `SoloCallReturns` shows that this is the only loop of the kind.
* `recovery_interior`. The comment at `BaseMeta.cpp:796-797` allows a large block "to be
  pointed at in the middle". The mark is then in a later superblock, whose
  descriptor has no heap: it is taken for a false positive, and the first
  superblock, in which there is no mark, begins the sweep of a block that nobody
  needs. If there is a second pointer, to the start of the block, the sweep keeps the
  block, advances over it and leaves the mark in its middle behind, so that the
  last assertion (`BaseMeta.cpp:880`) fails. The default filter scans from the pointer
  on and misses what is before it (`BaseMeta.hpp:490`).
* `api_shrink`. `RP_realloc` has the arguments of `realloc`, and
  `test/benchmark/AllocatorMacro.hpp:64` uses it where line 248 uses `realloc`; but
  it copies the old size also into a smaller block (`ralloc.cpp:141`), over what lies
  behind it.
* `lifecycle_power`. The dirty flag is a robust mutex, which the kernel marks when
  its owner dies. When power fails nobody marks it: the word in the file names a
  thread that is gone, `trylock` says `EBUSY`, and `is_dirty` takes the heap for
  clean (`BaseMeta.cpp:167-169`), although a crash should "result in a true dirty"
  (`BaseMeta.hpp:414-415`). The lists of the dead process are then used as they
  are. The same happens without a crash of a process: `writeback` should flush
  "values in BaseMeta, including avail_sb and partial lists" (`BaseMeta.hpp:424`),
  but it advances before its first `FLUSH` and skips the line of `avail_sb`. With
  power failures only after an orderly exit TLC refutes `CrashIsDirty` as well.

Three more observations have no run of their own:

* Alignment. `desc_lookup` computes the number of a superblock by shifting
  addresses, which is right if the first superblock is aligned to its size. The
  alignment is done once, for the address of the first mapping; a later `mmap`
  chooses any page. `RegionManager.hpp:116-117` says that persistent regions are
  always mapped to the same address, but no code asks for one
  (`RegionManager.cpp:101-102`). Without its condition on `home` TLC refutes
  `LookupFindsOwnDesc`.
* Large blocks and power failures. `do_malloc` writes back its local variable `desc`
  (`BaseMeta.cpp:678`) instead of the descriptor of the large block, whose fields
  are marked `RP_PERSIST` (`BaseMeta.hpp:253-256`). After a power failure the
  descriptor may be the empty one; recovery then frees the block, and what hangs on
  it. `kept` is therefore what is reachable in what the failure left, and `SmallKept`
  says what this contains at least.
* Null roots. `set_root` of a null pointer is not null at another mapping
  (`BaseMeta.hpp:114-119`).

## 5. Proofs

All theorems hold for every value of the constants that satisfies the named
assumptions, which TLC evaluates in the runs.

**DescListProofs.** `TypeCorrect`, `ListIsWellFormed`, `ListOwnsOnce`,
`PushAssertionHolds` and `ListImplementsStack` (the refinement of `DescStack`),
for any sets of threads and descriptors and any length of chains, provided that
the pushes of a behaviour stay below the counter's modulus (`CntAssumption`).
`LinksSpellStack` is not inductive alone: that a pop installs the right successor
depends on what its thread read earlier. The strengthening adds, per thread,

* `ChainInv`: a chain being pushed is its thread's own and linked inside;
* `LinkInv`: before its CAS a push has linked its chain to the head it read;
* `PopInv`: while the counter is the one a popping thread read, nothing has been
  pushed, so the descriptor it read is on top or has left the list; and if the
  head word is the one it read, the link it read is still the right one.

There is a lemma per action, and lemmas about concatenation and tails of
sequences without repetition. In the refinement a push or a pop takes effect at
its successful CAS and all other steps are stutters.

**BlockHeapProofs.** `FreeSbsAreUnused`, `BlocksAreOnce`,
`FreeBlocksAreListed`, `BinsAreOfOneClass` and `HeldNeverOverlaps` (the refinement
of `Allocator`), for any threads, size classes with at least two blocks in a
superblock, sizes of superblocks, expansions and regions, and large requests
(`SuperblocksAssumption`). While the process lives the invariant says:

* `SbInv`: every superblock below `curr_addr` is in one place;
* `DescInv`: the place says what the descriptor is: empty in `Avail`, of a size
  class in `Full`, of *its* class in a partial list; what a thread has in its hand
  is new, or one superblock of a class; a large block is a first superblock with
  the large descriptor and later ones with empty descriptors (`LargeAt`);
* `BlockInv`: the blocks of all descriptors are in one place each;
* `PlaceInv`: what is free in a superblock is its own, a full one has nothing
  free, only the user has large blocks, and bins hold their class.

`DescInv` is what makes retiring sound: a superblock all of whose blocks are free
has no block in a bin of its old class, so its descriptor may be erased, and the
superblocks of `avail_sb` are free of blocks (`FreeSbsAreUnused`). There is
one lemma per action. They rest on `MoveKeeps`: to move a set from one place to
another keeps the places disjoint and their union. In the refinement a block the
user has is the memory from its address on, as long as its descriptor says;
`UserApart` shows from the invariant and the arithmetic of addresses that two such
blocks do not overlap (two of one superblock, of two superblocks, or one of them
large), and `Effect` that every step hands out one block, takes one back or does
neither.

**RegionProofs.** `TypeCorrect`, `RegionHandsOutOnce`, `RegionHandsOutDurably`,
`RegionRemaps`, `RegionCurrGrows` and `LookupsFindOwnDesc`, for any number of threads, crashes and
mapping addresses and any requests. The inductive invariant adds `HeaderInv` (the
persistent `curr_addr` never exceeds the cached one; which fields are valid in
which mode) and `ThreadInv` (a thread before its CAS asks for memory at or above
the `curr_addr` it read; after it, the memory is disjoint from all that was
handed out and from that of all other threads in this state). For `LookupsFindOwnDesc`, which
assumes that the first expansion is aligned to `SBSIZE`, `StartInv` follows that
alignment from the thread that expands over the recorded start to what a power
failure leaves of it; `Alignment` is the arithmetic.

**PointersProofs.** `TypeCorrect`, `PptrsReadBack`, `HeadsReadBack`,
`ExchangesAreExact` and `RootsReadBack`, for all sizes of words, patterns, regions
and counters that satisfy `PointersAssumption` (in the code: addresses of 48 bits,
a pattern of 16 bits of which the last is the sign, 64-byte descriptors in a
region that fits the offset field) and all mapping addresses. The invariant says
what the words hold without mentioning an address: a pptr holds `Relative(to_off)`
and a head `Packed(to_head)`. `EncodeIsRelative` and `PackIsPacked` show that
encoding yields these at every mapping, `DecodeRelative` and `UnpackPacked` that
decoding inverts them; that exchanges are exact follows, because what can be
decoded is injective. For roots the invariant tells a root that leads to an offset
from one that was set to null at `null_at` (`NullBack`).

**LifecycleProofs.** `TypeCorrect`, `BlocksAreOnce`, `CrashesAreDirty` and
`LifecycleIsDurable` (the refinement of `DurableHeap`), for any threads, blocks,
roots and number of crashes, if only processes die (`~PowerFails`) and not in the
constructor (`~CtorCrashes`). The invariant adds

* `InitInv`: which files, header and mutex exist at which step of RP_init;
* `MutexInv`: the owner of the mutex is a living thread, nobody, or dead; an
  unclean end leaves it dead until `is_dirty` has seen it, and from then on
  `dirty` says so;
* `BlockInv`: the roots' blocks are owned, and whenever the lists hold, the
  blocks are partitioned among list, caches, owner and lost.

In the refinement the allocated blocks are those in no list or cache while the
lists hold, and those the roots point to after an unclean end until the sweep has
made the lists anew: the crash is the abstract `Collect`.

**RecoverySteps, RecoveryProofs.** `TypeCorrect`, `AssertionsAlwaysHold`,
`DataIsPreserved`, `ReachableIsKept`, `NothingIsLeaked` and `SmallIsKept`, for any sizes
of superblocks and blocks, any layout of small and large ones, any roots and
pointers, and any number of crashes at any step, of the process or of the machine
with any part of the cache lost. One hypothesis stands in each theorem, the
restriction of section 3: `Interior \subseteq {0}`, pointers lead to starts of blocks.
The inductive invariant `IInv` says:

* `DescInv`: descriptors are those of small or large blocks, or empty, and large
  blocks cover superblocks with empty ones (`LayoutOK`), also while the sweep
  erases some; those of small blocks are written back;
* `RunOK`, before the crash: pointers lead to starts of blocks, are written back,
  and are at most `MaxPtrs`;
* `KeptOK`, after it: `kept` is the least set of blocks closed under the roots and
  the pointers in its blocks, its contents are unchanged and written back, and
  all other pointers in it lead to large blocks that were lost (`Dangling`);
* `MarkOK`: marks are starts of reachable blocks or of lost ones, and a marked
  block is on the stack or what its words lead to is marked, except for the words
  still to be read; so that an empty stack means that `KeptStarts` is marked;
* `DoneOK`: the superblocks before `curr_sb` are finished: in `new_avail` if
  nothing in them is reachable, else with an anchor and a free list of exactly
  their other blocks;
* `CurrOK`: where the current one is, by what its `state` says (`AtEmpty`,
  `AtPartial`, `AtFull`): `free_head` begins a list of `count` links that holds the
  free blocks below `free_block` (`Linked`), and the next mark is not below it.

`CurrOK` is what makes every store of the sweep safe: `free_block` advances by
whole blocks, marks are starts of blocks of the same grid (`IndexOrder`), so it
meets the next mark exactly and the block written to is not marked. `DataIsPreserved`
then also covers a second collection over what a crashed one has left, because
free blocks are not in `kept`. That the iterated set of `Reachable` is closed
needs a counting argument: it grows at most `MaxPtrs` times, since each round
must follow a pointer that no round before followed (`ReachableClosed`).

**ApiProofs.** `LookupIsRight`, for every ascending table, from an invariant of the
two loops (`ScInv`): sizes below `lookupIdx` lead to the first class that fits, and
`lookupIdx` is beyond all classes before `sc_idx` but not beyond the current one.
`ApiTypeCorrect`, `DataIsKept`, `SizesAreTrue` and `NothingIsLost`, for any
threads, tables, requests, values, region sizes and limits of `block_size`, without a
hypothesis: as the properties say, while `intact`. They need each other and two facts
about calls in progress (`CallInv`): a call has a block that nobody else knows, and
the old block of a realloc is as large as was noted, and after the copy not larger
than the new one, which then holds the same.
The invariant (`Promise`) is that `intact` implies these, and a step that keeps
`intact` keeps them: a malloc of a size that fits its descriptor, a copy that fits
the new block.

Induction over data. The library's induction theorems take an operator as a
parameter and cannot be used with these provers; where a proof needs induction
over numbers (`ChainIs`, the rounds of `Reachable`, the least mark) it takes the
set of the counterexamples and its least element (`LeastNat`, `SetInduction` in
`RecoveryProofs`), which needs no operator.

Only model-checked: that `Heap` implements `BlockHeap` and `Allocator`, and its
invariants (the mapping follows the links of blocks while other threads change
them; the proofs about `BlockHeap` say what these lists must amount to), and all
liveness (the prover does not handle fairness).

## 6. Limits, and what is not modelled

* The counter of a head word wraps after 2^34 pushes. The models exclude a wrap
  within a behaviour; the claim they establish is that the list is an atomic
  stack as long as no operation is delayed over 2^34 pushes.
* Memory is sequentially consistent in all modules. The accesses modelled are
  C++ atomics with acquire or release order, except the links of blocks, which
  are published by the CAS that follows them.
* `Heap` does not crash; `Recovery` does not run the allocator. What joins them is
  that `Recovery` starts from every layout of descriptors, and `Lifecycle`, where
  both are single steps.
* In `Recovery` a word is a pptr or null, and pointers to small blocks lead to
  their start. The conservative scan of the code reads at every byte, and data
  that looks like a pptr may mark an address that is no block. The application
  writes back its own stores, as the allocator expects of it.
* What a filter function that the application registers does is not modelled:
  every block is scanned by the default one. That it must be registered before
  recovery is (`filters` in `Lifecycle`).
* The contents of blocks in `Api` are not written back or lost.

Not modelled, and why:

* Transient regions, `__try_nvm_region_allocator`, `__destroy` and
  `Regions::destroy`: nothing calls them.
* `RP_region_range`, `RP_in_prange` and the C++ templates of `ralloc.hpp`: they
  read two addresses or forward a call, and change no state.
* `pfence_util.h` beyond its effect on a cache line: which instruction the
  processor has is decided when the code is built.
* Debug output and the definitions of globals.
* `test/`: benchmarks and their scripts, clients of this and of other allocators.
* `ext/` (LRMalloc and Makalu, with its collector) and `old/`: other allocators,
  kept for comparison or no longer built. They share no code with Ralloc, and
  nothing it promises depends on them. They are most of the lines of the
  repository: Ralloc itself is `src/src`, 3300 lines with comments and the table
  of size classes, of which the definitions mapped in `PROJECT.json` stand for
  somewhat less than half. What is left of it are comments, declarations,
  configuration and the code named above.

## 7. Possible extensions

1. A proof that `Heap` implements `BlockHeap`, with the lists of blocks as history
   variables instead of chains computed from links.
2. `Recovery` at the level of bytes: data that looks like a pointer.
3. `Heap` with what its steps write back, crashing into `Recovery` in the same
   behaviour.

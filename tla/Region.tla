------------------------------- MODULE Region -------------------------------
(***************************************************************************)
(* A RegionManager: a file mapped at an address of mmap's choice, whose    *)
(* first page holds a header (curr_addr, heap_start, size) and whose       *)
(* memory is handed out by moving curr_addr up with a CAS.  The header is  *)
(* one cache line: hdr is the line as the threads see it, file the line as *)
(* it would survive a power failure.  Positions in the region are offsets  *)
(* from its base, as curr_addr (an atomic_pptr) and heap_start keep them.  *)
(***************************************************************************)
EXTENDS Integers

CONSTANTS Threads,      \* threads that expand the region
          PAGESIZE,
          SBSIZE,       \* bytes of a superblock
          Size,         \* bytes asked for
          Requests,     \* legal requests: [align, size]
          FirstRequest, \* the one of who creates the region
          Bases,        \* addresses mmap may choose
          MaxCrashes    \* bound: crashes of a behaviour

FILESIZE == ((Size \div PAGESIZE) + 2) * PAGESIZE

ASSUME RegionAssumption ==
  /\ PAGESIZE \in Nat \ {0}
  /\ SBSIZE \in Nat \ {0}
  /\ Size \in Nat
  /\ FILESIZE \in Nat /\ PAGESIZE <= FILESIZE
  /\ \A r \in Requests : r.align \in Nat \ {0} /\ r.size \in Nat \ {0}
  /\ FirstRequest \in Requests
  /\ Bases \subseteq Nat
  /\ MaxCrashes \in Nat

VARIABLES
  mode,       \* "nofile", steps of creation, "open", "closed", "aborted"
  base,       \* base_addr of the current mapping
  hdr, file,  \* the header line in the cache and in persistent memory
  pc,         \* where each thread is in __nvm_region_allocator
  old,        \* its old_curr_addr
  from, to,   \* the memory it tries to get: from up to to - 1
  given,      \* history: memory that was handed out, ever
  created,    \* history: the creation of the region completed
  home,       \* history: base_addr when the heap start was recorded
  crashes     \* history: crashes so far

vars == <<mode, base, hdr, file, pc, old, from, to, given, created, home, crashes>>
locals == <<pc, old, from, to>>

Header(c, s, z) == [curr |-> c, start |-> s, size |-> z]
Blank == Header(0, 0, 0)

Init ==
  /\ mode = "nofile"
  /\ base = 0
  /\ hdr = Blank /\ file = Blank
  /\ pc = [t \in Threads |-> "idle"]
  /\ old = [t \in Threads |-> 0]
  /\ from = [t \in Threads |-> 0]
  /\ to = [t \in Threads |-> 0]
  /\ given = {}
  /\ created = FALSE
  /\ home = 0
  /\ crashes = 0

-----------------------------------------------------------------------------
(* Creating, mapping and closing *)

\* The file is created with zeroes and mapped.
CreateFile ==
  /\ mode = "nofile"
  /\ mode' = "created"
  /\ base' \in Bases
  /\ UNCHANGED <<hdr, file, locals, given, created, home, crashes>>

StoreCurr ==
  /\ mode = "created"
  /\ mode' = "curr_stored"
  /\ hdr' = [hdr EXCEPT !.curr = PAGESIZE]
  /\ UNCHANGED <<base, file, locals, given, created, home, crashes>>

StoreSize ==
  /\ mode = "curr_stored"
  /\ mode' = "size_stored"
  /\ hdr' = [hdr EXCEPT !.size = FILESIZE]
  /\ UNCHANGED <<base, file, locals, given, created, home, crashes>>

\* Mutant of FlushHeader: nothing is written back.
FlushHeader_None ==
  /\ mode = "size_stored"
  /\ mode' = "fresh"
  /\ created' = TRUE
  /\ UNCHANGED <<base, hdr, file, locals, given, home, crashes>>

FlushHeader ==
  /\ mode = "size_stored"
  /\ mode' = "fresh"
  /\ file' = hdr
  /\ created' = TRUE
  /\ UNCHANGED <<base, hdr, locals, given, home, crashes>>

\* The file exists: it is mapped again, and has to have the right size.
Remap ==
  /\ mode = "closed"
  /\ base' \in Bases
  /\ hdr' = file
  /\ mode' = IF file.size = FILESIZE THEN "open" ELSE "aborted"
  /\ UNCHANGED <<file, locals, given, created, home, crashes>>

\* Who creates the region expands it once and records where that memory is:
\* only then do other threads use the region.
StoreHeapStart ==
  /\ mode = "fresh"
  /\ mode' = "open"
  /\ \E r \in given :
       /\ hdr' = [hdr EXCEPT !.start = r.from]
       /\ file' = [hdr EXCEPT !.start = r.from]
  /\ home' = base
  /\ UNCHANGED <<base, locals, given, created, crashes>>

\* The region is closed when no thread uses it any more.
Close ==
  /\ mode = "open"
  /\ \A t \in Threads : pc[t] = "idle"
  /\ mode' = "closed"
  /\ file' = hdr
  /\ UNCHANGED <<base, hdr, locals, given, created, home, crashes>>

-----------------------------------------------------------------------------
(* __nvm_region_allocator *)

\* Mutant of AlignUp: the offset is aligned, not the address.
AlignUp_Offset(off, align) ==
  LET aln_adj == off % align
  IN  IF aln_adj = 0 THEN off ELSE off + (align - aln_adj)

\* The first offset at or above off whose address is a multiple of align.
AlignUp(off, align) ==
  LET aln_adj == (base + off) % align
  IN  IF aln_adj = 0 THEN off ELSE off + (align - aln_adj)

\* Mutant of AllocLoad: the end of the file is not checked.
AllocLoad_NoEnd(t, r) ==
  /\ \/ mode = "open"
     \/ /\ mode = "fresh" /\ given = {} /\ r = FirstRequest
        /\ \A u \in Threads : pc[u] = "idle"
  /\ pc[t] = "idle"
  /\ old' = [old EXCEPT ![t] = hdr.curr]
  /\ from' = [from EXCEPT ![t] = AlignUp(hdr.curr, r.align)]
  /\ to' = [to EXCEPT ![t] = AlignUp(hdr.curr, r.align) + r.size]
  /\ pc' = [pc EXCEPT ![t] = "flush_old"]
  /\ UNCHANGED <<mode, base, hdr, file, given, created, home, crashes>>

\* Returns -1 when the file has no room, without an effect on the region.
AllocLoad(t, r) ==
  /\ \/ mode = "open"
     \/ /\ mode = "fresh" /\ given = {} /\ r = FirstRequest
        /\ \A u \in Threads : pc[u] = "idle"
  /\ pc[t] = "idle"
  /\ AlignUp(hdr.curr, r.align) + r.size <= FILESIZE
  /\ old' = [old EXCEPT ![t] = hdr.curr]
  /\ from' = [from EXCEPT ![t] = AlignUp(hdr.curr, r.align)]
  /\ to' = [to EXCEPT ![t] = AlignUp(hdr.curr, r.align) + r.size]
  /\ pc' = [pc EXCEPT ![t] = "flush_old"]
  /\ UNCHANGED <<mode, base, hdr, file, given, created, home, crashes>>

AllocFlushOld(t) ==
  /\ pc[t] = "flush_old"
  /\ file' = hdr
  /\ pc' = [pc EXCEPT ![t] = "cas"]
  /\ UNCHANGED <<mode, base, hdr, old, from, to, given, created, home, crashes>>

Return(t) ==
  /\ pc' = [pc EXCEPT ![t] = "idle"]
  /\ old' = [old EXCEPT ![t] = 0]
  /\ from' = [from EXCEPT ![t] = 0]
  /\ to' = [to EXCEPT ![t] = 0]

\* Mutant of AllocCas: a store instead of a CAS.
AllocCas_Store(t) ==
  /\ pc[t] = "cas"
  /\ hdr' = [hdr EXCEPT !.curr = to[t]]
  /\ pc' = [pc EXCEPT ![t] = "flush_new"]
  /\ UNCHANGED <<mode, base, file, old, from, to, given, created, home, crashes>>

\* Returns 0 when another thread moved curr_addr.
AllocCas(t) ==
  /\ pc[t] = "cas"
  /\ \/ /\ hdr.curr = old[t]
        /\ hdr' = [hdr EXCEPT !.curr = to[t]]
        /\ pc' = [pc EXCEPT ![t] = "flush_new"]
        /\ UNCHANGED <<old, from, to>>
     \/ /\ hdr.curr # old[t]
        /\ Return(t)
        /\ UNCHANGED hdr
  /\ UNCHANGED <<mode, base, file, given, created, home, crashes>>

\* Mutant of AllocFlushNew: the new curr_addr is not written back.
AllocFlushNew_None(t) ==
  /\ pc[t] = "flush_new"
  /\ given' = given \cup {[from |-> from[t], to |-> to[t]]}
  /\ Return(t)
  /\ UNCHANGED <<mode, base, hdr, file, created, home, crashes>>

\* Returns 1 once the new curr_addr is persistent.
AllocFlushNew(t) ==
  /\ pc[t] = "flush_new"
  /\ file' = hdr
  /\ given' = given \cup {[from |-> from[t], to |-> to[t]]}
  /\ Return(t)
  /\ UNCHANGED <<mode, base, hdr, created, home, crashes>>

Alloc(t) ==
  \/ \E r \in Requests : AllocLoad(t, r)
  \/ AllocFlushOld(t) \/ AllocCas(t) \/ AllocFlushNew(t)

\* desc_lookup, for byte x of superblock i: the difference of two addresses
\* divided by the size of a superblock.
desc_lookup(i, x) ==
  ((base + hdr.start + i * SBSIZE + x) \div SBSIZE) - ((base + hdr.start) \div SBSIZE)

-----------------------------------------------------------------------------
(* The machine *)

\* The cache may write the line back at any time.
Evict ==
  /\ mode \notin {"nofile", "closed", "aborted"}
  /\ file' = hdr
  /\ UNCHANGED <<mode, base, hdr, locals, given, created, home, crashes>>

\* Power fails: only what was written back is left.  (A process that is
\* killed loses nothing of the line: that is Evict, then Crash.)
Crash ==
  /\ mode \notin {"nofile", "closed", "aborted"}
  /\ crashes < MaxCrashes
  /\ mode' = "closed"
  /\ crashes' = crashes + 1
  /\ hdr' = file
  /\ pc' = [t \in Threads |-> "idle"]
  /\ old' = [t \in Threads |-> 0]
  /\ from' = [t \in Threads |-> 0]
  /\ to' = [t \in Threads |-> 0]
  /\ UNCHANGED <<base, file, given, created, home>>

Next ==
  \/ CreateFile \/ StoreCurr \/ StoreSize \/ FlushHeader \/ Remap
  \/ StoreHeapStart \/ Close \/ Evict \/ Crash
  \/ \E t \in Threads : Alloc(t)

Spec == Init /\ [][Next]_vars

-----------------------------------------------------------------------------
(* Properties *)

Modes == {"nofile", "created", "curr_stored", "size_stored", "fresh", "open",
          "closed", "aborted"}
Offset == 0..FILESIZE
HeaderLine == [curr : Offset, start : Offset, size : Offset]
Range == [from : Offset, to : Offset]

\* In particular curr_addr and all memory handed out stay inside the file.
TypeOK ==
  /\ mode \in Modes
  /\ base \in Nat
  /\ hdr \in HeaderLine /\ file \in HeaderLine
  /\ pc \in [Threads -> {"idle", "flush_old", "cas", "flush_new"}]
  /\ old \in [Threads -> Offset]
  /\ from \in [Threads -> Offset] /\ to \in [Threads -> Offset]
  /\ given \subseteq Range
  /\ created \in BOOLEAN
  /\ home \in Nat
  /\ crashes \in 0..MaxCrashes

Disjoint(r, s) == r.to <= s.from \/ s.to <= r.from

\* Memory is handed out once, ever: neither two threads nor the runs before
\* and after a power failure get overlapping memory.
HandedOutOnce == \A r, s \in given : r # s => Disjoint(r, s)

\* What was handed out is behind the header page, inside the file, and below
\* the persistent curr_addr: in_range accepts it after any crash.
HandedOutIsDurable ==
  \A r \in given : PAGESIZE <= r.from /\ r.from < r.to /\ r.to <= file.curr

\* The assertion of __remap_persistent_region holds for every region whose
\* creation completed, whenever power fails later.
CreatedCanBeRemapped == mode = "aborted" => ~created

\* Power failures do not take curr_addr back below what was persistent.
CurrOnlyGrows == [][file'.curr >= file.curr]_vars

\* Every byte of a superblock leads to the descriptor of that superblock, at
\* each mapping whose distance from the first one is a multiple of SBSIZE: the
\* start that the first expansion aligned is kept, as an offset, through every
\* expansion, restart and power failure.
LookupFindsOwnDesc ==
  mode = "open" /\ hdr.start # 0 /\ (base - home) % SBSIZE = 0 =>
    \A i \in 0..(Size \div SBSIZE), x \in 0..(SBSIZE - 1) : desc_lookup(i, x) = i
=============================================================================

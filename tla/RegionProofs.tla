---------------------------- MODULE RegionProofs ----------------------------
(***************************************************************************)
(* Proofs about Region, for every number of threads, page size, set of     *)
(* requests and of mapping addresses: memory of a region is handed out     *)
(* once, whatever threads race for it and whenever power fails.            *)
(***************************************************************************)
EXTENDS Region, TLAPS

\* How the header line and its persistent copy relate in each mode.
HeaderInv ==
  /\ file.curr <= hdr.curr
  /\ hdr.size = FILESIZE => PAGESIZE <= hdr.curr
  /\ file.size = FILESIZE => PAGESIZE <= file.curr
  /\ mode \in {"nofile", "created"} =>
       hdr.curr = 0 /\ file.curr = 0 /\ hdr.size = 0 /\ file.size = 0
  /\ mode \in {"curr_stored", "size_stored"} => hdr.curr = PAGESIZE
  /\ mode \in {"size_stored", "fresh", "open"} => hdr.size = FILESIZE
  /\ created => mode \in {"fresh", "open", "closed"} /\ file.size = FILESIZE

\* A thread before its CAS asks for memory at or above the curr_addr it read;
\* after a CAS that succeeded the memory below the new curr_addr is its own.
ThreadInv ==
  /\ \A t \in Threads : mode \notin {"fresh", "open"} => pc[t] = "idle"
  /\ \A t \in Threads : pc[t] \in {"flush_old", "cas"} =>
       PAGESIZE <= old[t] /\ old[t] <= from[t] /\ from[t] < to[t]
  /\ \A t \in Threads : pc[t] = "flush_new" =>
       PAGESIZE <= from[t] /\ from[t] < to[t] /\ to[t] <= hdr.curr
  /\ \A t \in Threads : \A r \in given : pc[t] = "flush_new" =>
       r.to <= from[t] \/ to[t] <= r.from
  /\ \A t, u \in Threads : pc[t] = "flush_new" /\ pc[u] = "flush_new" /\ t # u =>
       to[t] <= from[u] \/ to[u] <= from[t]

IInv == TypeOK /\ HandedOutOnce /\ HandedOutIsDurable /\ HeaderInv /\ ThreadInv

-----------------------------------------------------------------------------

\* Aligning never moves an offset down.
LEMMA AlignUpIsAbove ==
  ASSUME NEW off \in Nat, NEW align \in Nat \ {0}, base \in Nat
  PROVE  AlignUp(off, align) \in Nat /\ off <= AlignUp(off, align)
<1> DEFINE adj == (base + off) % align
<1>1. adj \in Nat /\ adj < align
  OBVIOUS
<1> HIDE DEF adj
<1>2. AlignUp(off, align) = IF adj = 0 THEN off ELSE off + (align - adj)
  BY DEF AlignUp, adj
<1>3. QED
  BY <1>1, <1>2

\* Before the file exists the inductive invariant holds.
LEMMA InitImpliesIInv == Init => IInv
<1> SUFFICES ASSUME Init PROVE IInv
  OBVIOUS
<1> USE RegionAssumption DEF Init, Blank, Header, Offset
<1>1. TypeOK
  <2>1. created \in BOOLEAN
    BY Zenon
  <2>2. hdr \in HeaderLine /\ file \in HeaderLine
    BY DEF HeaderLine
  <2>3. crashes \in 0..MaxCrashes /\ base \in Nat /\ home \in Nat /\ given \subseteq Range
    OBVIOUS
  <2>4. QED
    BY <2>1, <2>2, <2>3 DEF TypeOK, Modes
<1>2. HandedOutOnce /\ HandedOutIsDurable
  BY DEF HandedOutOnce, HandedOutIsDurable
<1>3. HeaderInv
  BY DEF HeaderInv
<1>4. ThreadInv
  BY DEF ThreadInv
<1>5. QED
  BY <1>1, <1>2, <1>3, <1>4 DEF IInv

\* Steps of creation, mapping and closing, and the machine's.
LEMMA HeaderStepKeepsIInv ==
  ASSUME IInv,
         CreateFile \/ StoreCurr \/ StoreSize \/ FlushHeader \/ Remap
           \/ StoreHeapStart \/ Close \/ Evict \/ Crash
  PROVE  IInv'
<1> USE RegionAssumption DEF IInv, HeaderLine, Modes, Offset
<1>1. CASE CreateFile
  BY <1>1 DEF CreateFile, TypeOK, HandedOutOnce, HandedOutIsDurable, HeaderInv,
              ThreadInv, locals, Disjoint
<1>2. CASE StoreCurr
  BY <1>2 DEF StoreCurr, TypeOK, HandedOutOnce, HandedOutIsDurable, HeaderInv,
              ThreadInv, locals, Disjoint
<1>3. CASE StoreSize
  BY <1>3 DEF StoreSize, TypeOK, HandedOutOnce, HandedOutIsDurable, HeaderInv,
              ThreadInv, locals, Disjoint
<1>4. CASE FlushHeader
  BY <1>4 DEF FlushHeader, TypeOK, HandedOutOnce, HandedOutIsDurable, HeaderInv,
              ThreadInv, locals, Disjoint, Range
<1>5. CASE Remap
  BY <1>5 DEF Remap, TypeOK, HandedOutOnce, HandedOutIsDurable, HeaderInv,
              ThreadInv, locals, Disjoint
<1>6. CASE StoreHeapStart
  BY <1>6 DEF StoreHeapStart, TypeOK, HandedOutOnce, HandedOutIsDurable, HeaderInv,
              ThreadInv, locals, Disjoint, Range
<1>7. CASE Close
  BY <1>7 DEF Close, TypeOK, HandedOutOnce, HandedOutIsDurable, HeaderInv,
              ThreadInv, locals, Disjoint, Range
<1>8. CASE Evict
  BY <1>8 DEF Evict, TypeOK, HandedOutOnce, HandedOutIsDurable, HeaderInv,
              ThreadInv, locals, Disjoint, Range
<1>9. CASE Crash
  BY <1>9 DEF Crash, TypeOK, HandedOutOnce, HandedOutIsDurable, HeaderInv,
              ThreadInv, Disjoint
<1>10. QED
  BY <1>1, <1>2, <1>3, <1>4, <1>5, <1>6, <1>7, <1>8, <1>9

\* Steps of __nvm_region_allocator.
LEMMA AllocStepKeepsIInv ==
  ASSUME IInv, NEW t \in Threads, Alloc(t)
  PROVE  IInv'
<1> USE RegionAssumption DEF IInv, HeaderLine, Modes, Offset
<1>1. ASSUME NEW r \in Requests, AllocLoad(t, r)
      PROVE  IInv'
  <2> DEFINE a == AlignUp(hdr.curr, r.align)
  <2>1. a \in Nat /\ hdr.curr <= a
    BY AlignUpIsAbove DEF TypeOK
  <2>2. a \in Offset /\ a + r.size \in Offset /\ a < a + r.size
    BY <1>1, <2>1 DEF AllocLoad
  <2>3. /\ mode \in {"fresh", "open"} /\ pc[t] = "idle"
        /\ old' = [old EXCEPT ![t] = hdr.curr]
        /\ from' = [from EXCEPT ![t] = a]
        /\ to' = [to EXCEPT ![t] = a + r.size]
        /\ pc' = [pc EXCEPT ![t] = "flush_old"]
        /\ UNCHANGED <<mode, base, hdr, file, given, created, home, crashes>>
    BY <1>1 DEF AllocLoad
  <2>4. PAGESIZE <= hdr.curr
    BY <2>3 DEF HeaderInv
  <2> HIDE DEF a
  <2>5. QED
    BY <2>1, <2>2, <2>3, <2>4
       DEF TypeOK, HandedOutOnce, HandedOutIsDurable, HeaderInv, ThreadInv, Disjoint
<1>2. CASE AllocFlushOld(t)
  BY <1>2 DEF AllocFlushOld, TypeOK, HandedOutOnce, HandedOutIsDurable,
              HeaderInv, ThreadInv, Disjoint, Range
<1>3. CASE AllocCas(t)
  <2>1. CASE hdr.curr = old[t]
    <3>1. /\ pc[t] = "cas"
          /\ hdr' = [hdr EXCEPT !.curr = to[t]]
          /\ pc' = [pc EXCEPT ![t] = "flush_new"]
          /\ UNCHANGED <<old, from, to, mode, base, file, given, created, home, crashes>>
      BY <1>3, <2>1 DEF AllocCas
    <3>2. hdr.curr <= from[t] /\ from[t] < to[t] /\ PAGESIZE <= from[t]
      BY <2>1, <3>1 DEF ThreadInv, TypeOK
    <3>3. TypeOK' /\ HeaderInv'
      BY <3>1, <3>2 DEF TypeOK, HeaderInv, ThreadInv
    <3>4. \A r \in given : r.to <= from[t]
      BY <3>2 DEF HandedOutIsDurable, HeaderInv, TypeOK, Range
    <3>5. \A u \in Threads : pc[u] = "flush_new" => to[u] <= from[t]
      BY <3>2 DEF ThreadInv, TypeOK
    <3>6. ThreadInv'
      BY <3>1, <3>2, <3>4, <3>5 DEF ThreadInv, HeaderInv, TypeOK
    <3>7. QED
      BY <3>1, <3>3, <3>6 DEF HandedOutOnce, HandedOutIsDurable, Disjoint
  <2>2. CASE hdr.curr # old[t]
    BY <1>3, <2>2 DEF AllocCas, Return, TypeOK, HandedOutOnce,
                      HandedOutIsDurable, HeaderInv, ThreadInv, Disjoint
  <2>3. QED
    BY <2>1, <2>2
<1>4. CASE AllocFlushNew(t)
  <2> DEFINE new == [from |-> from[t], to |-> to[t]]
  <2>1. /\ pc[t] = "flush_new"
        /\ file' = hdr /\ given' = given \cup {new}
        /\ Return(t)
        /\ UNCHANGED <<mode, base, hdr, created, home, crashes>>
    BY <1>4 DEF AllocFlushNew
  <2>2. /\ new \in Range
        /\ new.from = from[t] /\ new.to = to[t]
        /\ PAGESIZE <= new.from /\ new.from < new.to /\ new.to <= hdr.curr
    BY <2>1 DEF ThreadInv, TypeOK, Range
  <2>3. \A r \in given : Disjoint(r, new) /\ Disjoint(new, r)
    BY <2>1, <2>2 DEF ThreadInv, Disjoint
  <2>4. \A u \in Threads \ {t} : pc[u] = "flush_new" =>
          new.to <= from[u] \/ to[u] <= new.from
    BY <2>1, <2>2 DEF ThreadInv
  <2> HIDE DEF new
  <2>5. TypeOK' /\ HeaderInv'
    <3>1. given' \subseteq Range
      BY <2>1, <2>2 DEF TypeOK
    <3>2. /\ pc' \in [Threads -> {"idle", "flush_old", "cas", "flush_new"}]
          /\ old' \in [Threads -> Offset]
          /\ from' \in [Threads -> Offset] /\ to' \in [Threads -> Offset]
      BY <2>1 DEF TypeOK, Return
    <3>3. TypeOK'
      BY <2>1, <3>1, <3>2 DEF TypeOK
    <3>4. mode \in {"fresh", "open"}
      BY <2>1 DEF ThreadInv
    <3>5. HeaderInv'
      BY <2>1, <3>4 DEF TypeOK, HeaderInv
    <3>6. QED
      BY <3>3, <3>5
  <2>6. HandedOutOnce'
    BY <2>1, <2>3 DEF HandedOutOnce
  <2>7. HandedOutIsDurable'
    BY <2>1, <2>2 DEF HandedOutIsDurable, HeaderInv, TypeOK, Range
  <2>8. ThreadInv'
    BY <2>1, <2>2, <2>4 DEF ThreadInv, Return, HeaderInv, TypeOK
  <2>9. QED
    BY <2>5, <2>6, <2>7, <2>8
<1>5. QED
  BY <1>1, <1>2, <1>3, <1>4 DEF Alloc

\* Every step of a thread and of the machine keeps the inductive invariant.
LEMMA NextKeepsIInv == IInv /\ [Next]_vars => IInv'
<1> SUFFICES ASSUME IInv, [Next]_vars PROVE IInv'
  OBVIOUS
<1>1. CASE UNCHANGED vars
  BY <1>1 DEF vars, IInv, TypeOK, HandedOutOnce, HandedOutIsDurable, HeaderInv,
              ThreadInv, Disjoint, HeaderLine, Range, Modes, Offset
<1>2. CASE Next
  BY <1>2, HeaderStepKeepsIInv, AllocStepKeepsIInv DEF Next
<1>3. QED
  BY <1>1, <1>2

\* The inductive invariant holds in every reachable state.
LEMMA IInvIsInvariant == Spec => []IInv
BY InitImpliesIInv, NextKeepsIInv, PTL DEF Spec

-----------------------------------------------------------------------------

\* The variables of a region keep their types.
THEOREM TypeCorrect == Spec => []TypeOK
<1>1. IInv => TypeOK
  BY DEF IInv
<1>2. QED
  BY <1>1, IInvIsInvariant, PTL

\* Memory of a region is handed out once, ever: no two expansions overlap,
\* whichever threads race in __nvm_region_allocator and whenever power fails.
THEOREM RegionHandsOutOnce == Spec => []HandedOutOnce
<1>1. IInv => HandedOutOnce
  BY DEF IInv
<1>2. QED
  BY <1>1, IInvIsInvariant, PTL

\* A power failure never takes back memory an expansion returned: it stays
\* below the persistent curr_addr.
THEOREM RegionHandsOutDurably == Spec => []HandedOutIsDurable
<1>1. IInv => HandedOutIsDurable
  BY DEF IInv
<1>2. QED
  BY <1>1, IInvIsInvariant, PTL

\* The size check of __remap_persistent_region never fails on a region whose
\* creation completed.
THEOREM RegionRemaps == Spec => []CreatedCanBeRemapped
<1>1. IInv => CreatedCanBeRemapped
  BY DEF IInv, HeaderInv, CreatedCanBeRemapped
<1>2. QED
  BY <1>1, IInvIsInvariant, PTL

\* The persistent curr_addr never moves down, power failures included.
THEOREM RegionCurrGrows == Spec => CurrOnlyGrows
<1>1. IInv /\ [Next]_vars => [file'.curr >= file.curr]_vars
  <2> SUFFICES ASSUME IInv, Next PROVE file'.curr >= file.curr
    BY DEF vars
  <2> USE RegionAssumption DEF IInv, TypeOK, HeaderLine, HeaderInv, Offset
  <2>1. CASE \E t \in Threads : Alloc(t)
    BY <2>1 DEF Alloc, AllocLoad, AllocFlushOld, AllocCas, AllocFlushNew
  <2>2. CASE CreateFile \/ StoreCurr \/ StoreSize \/ FlushHeader \/ Remap
               \/ StoreHeapStart \/ Close \/ Evict \/ Crash
    BY <2>2 DEF CreateFile, StoreCurr, StoreSize, FlushHeader, Remap,
                StoreHeapStart, Close, Evict, Crash
  <2>3. QED
    BY <2>1, <2>2 DEF Next
<1>2. QED
  BY <1>1, IInvIsInvariant, PTL DEF Spec, CurrOnlyGrows

-----------------------------------------------------------------------------
(* Finding descriptors *)

Aligned(x) == x % SBSIZE = 0

LEMMA Alignment ==
  ASSUME NEW x \in Nat, NEW y \in Int, NEW i \in Nat, NEW z \in 0..(SBSIZE - 1),
         Aligned(x), Aligned(y)
  PROVE  ((x + y + i * SBSIZE + z) \div SBSIZE) - ((x + y) \div SBSIZE) = i
<1>1. SBSIZE \in Nat \ {0}
  BY RegionAssumption
<1>2. PICK k \in Int : x = k * SBSIZE
  BY <1>1, SMT DEF Aligned
<1>3. PICK m \in Int : y = m * SBSIZE
  BY <1>1, SMT DEF Aligned
<1>4. ASSUME NEW j \in Int, NEW w \in 0..(SBSIZE - 1)
      PROVE  (j * SBSIZE + w) \div SBSIZE = j
  BY <1>1, SMT
<1>5. x + y + i * SBSIZE + z = (k + m + i) * SBSIZE + z /\ x + y = (k + m) * SBSIZE + 0
  BY <1>1, <1>2, <1>3, SMT
<1>6. (x + y + i * SBSIZE + z) \div SBSIZE = k + m + i
  BY <1>4, <1>5
<1>7. (x + y) \div SBSIZE = k + m
  BY <1>1, <1>4, <1>5
<1> QED BY <1>6, <1>7

\* The memory of the first expansion is aligned where it was made, and the
\* start that is recorded for it stays so.
StartInv ==
  /\ hdr.start # 0 => Aligned(home + hdr.start)
  /\ file.start # 0 => Aligned(home + file.start)
  /\ mode \in {"nofile", "created", "curr_stored", "size_stored", "fresh"} =>
       hdr.start = 0 /\ file.start = 0
  /\ mode \in {"nofile", "created", "curr_stored", "size_stored"} => given = {}
  /\ mode = "fresh" => /\ \A t \in Threads : pc[t] # "idle" => Aligned(base + from[t])
                       /\ \A r \in given : Aligned(base + r.from)

LEMMA StartKept ==
  ASSUME FirstRequest.align = SBSIZE, IInv, StartInv, [Next]_vars
  PROVE  StartInv'
<1>1. CASE UNCHANGED vars
  BY <1>1 DEF vars, StartInv
<1>2. ASSUME NEW t \in Threads, NEW r \in Requests, AllocLoad(t, r)
      PROVE  StartInv'
  <2>1. /\ from' = [from EXCEPT ![t] = AlignUp(hdr.curr, r.align)]
        /\ pc' = [pc EXCEPT ![t] = "flush_old"]
        /\ UNCHANGED <<mode, base, hdr, file, given, home>>
        /\ mode = "fresh" => r = FirstRequest
    BY <1>2 DEF AllocLoad
  <2>2. mode = "fresh" => Aligned(base + from'[t])
    <3>1. base \in Nat /\ hdr.curr \in Nat /\ SBSIZE \in Nat \ {0} /\ from \in [Threads -> Offset]
      BY RegionAssumption DEF IInv, TypeOK, HeaderLine, Offset
    <3> DEFINE x == base + hdr.curr
    <3>2. x \in Nat
      BY <3>1
    <3>3. x % SBSIZE # 0 => (x + (SBSIZE - (x % SBSIZE))) % SBSIZE = 0
      BY <3>1, <3>2, SMT
    <3>4. x % SBSIZE \in Int
      BY <3>1, <3>2
    <3>5. base + (hdr.curr + (SBSIZE - (x % SBSIZE))) = x + (SBSIZE - (x % SBSIZE))
      BY <3>1, <3>4
    <3>6. Aligned(base + AlignUp(hdr.curr, SBSIZE))
      <4>1. CASE x % SBSIZE = 0
        BY <4>1, Zenon DEF Aligned, AlignUp
      <4>2. CASE x % SBSIZE # 0
        <5>1. AlignUp(hdr.curr, SBSIZE) = hdr.curr + (SBSIZE - (x % SBSIZE))
          BY <4>2, Zenon DEF AlignUp
        <5> QED BY <3>3, <3>5, <4>2, <5>1, Zenon DEF Aligned
      <4> QED BY <4>1, <4>2
    <3> QED BY <2>1, <3>1, <3>6
  <2> QED BY <2>1, <2>2 DEF StartInv, IInv, TypeOK
<1>3. ASSUME NEW t \in Threads, AllocFlushOld(t) \/ AllocCas(t)
      PROVE  StartInv'
  BY <1>3 DEF AllocFlushOld, AllocCas, Return, StartInv, IInv, TypeOK, HeaderLine
<1>4. ASSUME NEW t \in Threads, AllocFlushNew(t)
      PROVE  StartInv'
  <2> DEFINE new == [from |-> from[t], to |-> to[t]]
  <2>1. /\ pc[t] = "flush_new" /\ file' = hdr /\ given' = given \cup {new}
        /\ pc' = [pc EXCEPT ![t] = "idle"] /\ from' = [from EXCEPT ![t] = 0]
        /\ UNCHANGED <<mode, base, hdr, home>>
    BY <1>4 DEF AllocFlushNew, Return
  <2>2. new.from = from[t] /\ mode \in {"fresh", "open"}
    BY <2>1 DEF IInv, ThreadInv
  <2> HIDE DEF new
  <2>3. mode = "fresh" => Aligned(base + new.from)
    BY <2>1, <2>2 DEF StartInv
  <2> QED BY <2>1, <2>2, <2>3 DEF StartInv, IInv, TypeOK
<1>5. CASE CreateFile \/ StoreCurr \/ StoreSize \/ Remap \/ Close \/ Evict
  BY <1>5 DEF CreateFile, StoreCurr, StoreSize, Remap, Close, Evict, locals, StartInv,
              IInv, TypeOK, HeaderLine
<1>6. CASE FlushHeader
  BY <1>6 DEF FlushHeader, locals, StartInv, IInv, ThreadInv
<1>7. CASE StoreHeapStart
  BY <1>7 DEF StoreHeapStart, locals, StartInv, IInv, TypeOK, HeaderLine
<1>8. CASE Crash
  BY <1>8 DEF Crash, StartInv
<1> QED BY <1>1, <1>2, <1>3, <1>4, <1>5, <1>6, <1>7, <1>8 DEF Next, Alloc

\* desc_lookup finds the descriptor of every byte of a superblock, if the first
\* expansion is aligned to SBSIZE, as the constructor of BaseMeta asks for, at
\* every mapping whose distance from the first is a multiple of SBSIZE.
THEOREM LookupsFindOwnDesc ==
  ASSUME FirstRequest.align = SBSIZE PROVE Spec => []LookupFindsOwnDesc
<1>1. Init => StartInv
  BY DEF Init, StartInv, Blank, Header
<1>2. IInv /\ StartInv => LookupFindsOwnDesc
  <2> SUFFICES ASSUME IInv, StartInv, hdr.start # 0, (base - home) % SBSIZE = 0,
                      NEW i \in 0..(Size \div SBSIZE), NEW x \in 0..(SBSIZE - 1)
               PROVE  desc_lookup(i, x) = i
    BY DEF LookupFindsOwnDesc
  <2>1. base \in Nat /\ home \in Nat /\ hdr.start \in Nat
    BY RegionAssumption DEF IInv, TypeOK, HeaderLine, Offset
  <2> DEFINE a == home + hdr.start
             b == base - home
  <2>2. a \in Nat /\ b \in Int /\ i \in Nat /\ a + b = base + hdr.start /\ Aligned(a) /\ Aligned(b)
    BY <2>1 DEF StartInv, Aligned
  <2> HIDE DEF a, b
  <2>3. ((a + b + i * SBSIZE + x) \div SBSIZE) - ((a + b) \div SBSIZE) = i
    BY <2>2, Alignment
  <2> QED BY <2>2, <2>3 DEF desc_lookup
<1> QED BY <1>1, <1>2, StartKept, IInvIsInvariant, PTL DEF Spec
=============================================================================

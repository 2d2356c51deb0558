------------------------------ MODULE Pointers ------------------------------
(***************************************************************************)
(* The three pointers that persist: a pptr or atomic_pptr (the distance    *)
(* from itself, with a bit pattern), a CrossPtr (the offset from the start *)
(* of another region) and an AtomicCrossPtrCnt (such an offset packed with *)
(* a counter).  One of each is stored, read, exchanged, and read again     *)
(* after the regions were mapped elsewhere.  What each should say is kept  *)
(* as an offset in its region.                                             *)
(***************************************************************************)
EXTENDS Integers

CONSTANTS ADDRESSES,      \* addresses are below it: 2^48 in the code
          UNIT,           \* 2^PPTR_PATTERN_SHIFT
          PATTERN,        \* PPTR_PATTERN_POS
          OFFSETS,        \* 2^MAX_DESC_OFFSET_BITS
          Cell,           \* offset of the pptr in its region
          Size,           \* bytes of a region
          Bases,          \* addresses mmap may choose
          Null

WORD == ADDRESSES * UNIT       \* values of a machine word
CNT == WORD \div OFFSETS       \* values of a counter
Offsets == 1..(Size - 1)       \* nothing lies at the start of a region

ASSUME PointersAssumption ==
  /\ ADDRESSES \in Nat /\ UNIT \in Nat /\ UNIT % 2 = 0
  /\ PATTERN \in 1..(UNIT - 2) /\ PATTERN % 2 = 0
  /\ Size \in Nat \ {0} /\ Cell \in Offsets
  /\ OFFSETS \in Nat /\ Size <= OFFSETS /\ WORD = OFFSETS * CNT
  /\ \A b \in Bases : b \in Nat /\ b > 0 /\ b + Size <= ADDRESSES
  /\ Null \notin Nat

VARIABLES
  base,       \* base[r]: where region r is mapped, r = "sb" or "desc"
  off,        \* the pptr
  root,       \* a persistent root, a CrossPtr
  head,       \* the head of a descriptor list, an AtomicCrossPtrCnt
  expected,   \* a thread's local variables for its exchanges: address ...
  oldhead,    \* ... and ptr_cnt
  to_off, to_root, to_head,  \* history: what the three were last set to
  null_at     \* history: where the sb region was when the root was set to null

vars == <<base, off, root, head, expected, oldhead, to_off, to_root, to_head, null_at>>

null == 0

\* The address of offset o of region r.
At(r, o) == IF o = Null THEN null ELSE base[r] + o

-----------------------------------------------------------------------------
(* pptr and atomic_pptr *)

PPTR_PATTERN_POS == PATTERN
PPTR_PATTERN_NEG == PATTERN + 1

is_null_pptr(w) == w = PPTR_PATTERN_POS
is_valid_pptr(w) == (w % UNIT) - (w % 2) = PPTR_PATTERN_POS

\* Mutant of to_pptr_off: the sign is forgotten.
to_pptr_off_NoSign(v, p) ==
  IF v = null THEN PPTR_PATTERN_POS
  ELSE IF v > p THEN (v - p) * UNIT + PPTR_PATTERN_POS
  ELSE (p - v) * UNIT + PPTR_PATTERN_POS

\* The pptr at address p that points to address v.
to_pptr_off(v, p) ==
  IF v = null THEN PPTR_PATTERN_POS
  ELSE IF v > p THEN (v - p) * UNIT + PPTR_PATTERN_POS
  ELSE (p - v) * UNIT + PPTR_PATTERN_NEG

from_pptr_off(w, p) ==
  IF ~is_valid_pptr(w) \/ is_null_pptr(w) THEN null
  ELSE IF w % 2 = 1 THEN p - w \div UNIT
  ELSE p + w \div UNIT

StorePptr(o) ==
  /\ off' = to_pptr_off(At("sb", o), At("sb", Cell))
  /\ to_off' = o
  /\ UNCHANGED <<base, root, head, expected, oldhead, to_root, to_head, null_at>>

LoadPptr ==
  /\ expected' = from_pptr_off(off, At("sb", Cell))
  /\ UNCHANGED <<base, off, root, head, oldhead, to_off, to_root, to_head, null_at>>

\* compare_exchange_strong of an atomic_pptr: on failure expected is read anew.
\* A weak one that fails without reason does what LoadPptr does.
ExchangePptr(o) ==
  LET p == At("sb", Cell) IN
  /\ IF off = to_pptr_off(expected, p)
     THEN /\ off' = to_pptr_off(At("sb", o), p)
          /\ to_off' = o
          /\ UNCHANGED expected
     ELSE /\ expected' = from_pptr_off(off, p)
          /\ UNCHANGED <<off, to_off>>
  /\ UNCHANGED <<base, root, head, oldhead, to_root, to_head, null_at>>

-----------------------------------------------------------------------------
(* CrossPtr *)

translate(r, w) == (base[r] + w) % WORD
untranslate(r, a) == (a - base[r]) % WORD

\* Mutant of CrossPtr: the address itself is stored.
CrossPtr_Absolute(r, a) == a

\* Assignment of a pointer that is not the literal nullptr.
CrossPtr(r, a) == untranslate(r, a)

set_root(o) ==
  /\ root' = CrossPtr("sb", At("sb", o))
  /\ to_root' = o /\ null_at' = IF o = Null THEN base["sb"] ELSE 0
  /\ UNCHANGED <<base, off, head, expected, oldhead, to_off, to_head>>

get_root == IF root = 0 THEN null ELSE translate("sb", root)

-----------------------------------------------------------------------------
(* AtomicCrossPtrCnt *)

PtrCnt(a, n) == [ptr |-> a, cnt |-> n]

\* Mutant of Pack: the counter is not shifted far enough.
Pack_Short(h) == (((h.cnt * (OFFSETS \div 2)) % WORD)
                    + (IF h.ptr = null THEN 0 ELSE untranslate("desc", h.ptr))) % WORD

\* The counter above, the offset below; a counter too large loses its upper
\* bits in the shift.
Pack(h) == ((h.cnt * OFFSETS) % WORD)
             + (IF h.ptr = null THEN 0 ELSE untranslate("desc", h.ptr))

\* Mutant of Unpack: the counter is not masked out of the pointer.
Unpack_NoMask(w) == PtrCnt(IF w = 0 THEN null ELSE translate("desc", w), w \div OFFSETS)

Unpack(w) == PtrCnt(IF w % OFFSETS = 0 THEN null ELSE translate("desc", w % OFFSETS),
                    w \div OFFSETS)

LoadHead ==
  /\ oldhead' = Unpack(head)
  /\ UNCHANGED <<base, off, root, head, expected, to_off, to_root, to_head, null_at>>

\* store, of a constructor or a recovery: counting begins again.
StoreHead(o) ==
  /\ head' = Pack(PtrCnt(At("desc", o), 0))
  /\ to_head' = [ptr |-> o, cnt |-> 0]
  /\ UNCHANGED <<base, off, root, expected, oldhead, to_off, to_root, null_at>>

\* compare_exchange of a descriptor list: a push counts, a pop does not.  A
\* weak one that fails without reason does what LoadHead does.
ExchangeHead(o, n) ==
  /\ IF head = Pack(oldhead)
     THEN /\ head' = Pack(PtrCnt(At("desc", o), oldhead.cnt + n))
          /\ to_head' = [ptr |-> o, cnt |-> (to_head.cnt + n) % CNT]
          /\ UNCHANGED oldhead
     ELSE /\ oldhead' = Unpack(head)
          /\ UNCHANGED <<head, to_head>>
  /\ UNCHANGED <<base, off, root, expected, to_off, to_root, null_at>>

-----------------------------------------------------------------------------

\* The constructors; locals are those of a thread that starts.
Init ==
  /\ base \in [{"sb", "desc"} -> Bases]
  /\ off = PPTR_PATTERN_POS /\ root = 0 /\ head = 0
  /\ expected = null /\ oldhead = PtrCnt(null, 0)
  /\ to_off = Null /\ to_root = Null /\ to_head = [ptr |-> Null, cnt |-> 0]
  /\ null_at = 0

\* The program ends, and another maps the files at addresses of its own.
Remap ==
  /\ base' \in [{"sb", "desc"} -> Bases]
  /\ expected' = null /\ oldhead' = PtrCnt(null, 0)
  /\ UNCHANGED <<off, root, head, to_off, to_root, to_head, null_at>>

Next ==
  \/ \E o \in Offsets \cup {Null} : StorePptr(o) \/ ExchangePptr(o) \/ set_root(o)
  \/ LoadPptr \/ LoadHead \/ Remap
  \/ \E o \in Offsets : ExchangeHead(o, 1)
  \/ \E o \in Offsets \cup {Null} : ExchangeHead(o, 0) \/ StoreHead(o)

Spec == Init /\ [][Next]_vars

-----------------------------------------------------------------------------
(* Properties *)

\* All pointers fit a machine word, and a counter its field.
TypeOK ==
  /\ base \in [{"sb", "desc"} -> Bases]
  /\ off \in 0..(WORD - 1) /\ root \in 0..(WORD - 1) /\ head \in 0..(WORD - 1)
  /\ expected \in 0..(ADDRESSES - 1)
  /\ oldhead \in [ptr : 0..(ADDRESSES - 1), cnt : 0..(CNT - 1)]
  /\ to_off \in Offsets \cup {Null} /\ to_root \in Offsets \cup {Null}
  /\ null_at \in Bases \cup {0}
  /\ to_head \in [ptr : Offsets \cup {Null}, cnt : 0..(CNT - 1)]

\* A pptr says what was stored in it, wherever its region is mapped: also
\* when it points to itself, before itself or nowhere.
PptrReadsBack == from_pptr_off(off, At("sb", Cell)) = At("sb", to_off)

\* A head says what was stored in it, pointer and counter.
HeadReadsBack == Unpack(head) = PtrCnt(At("desc", to_head.ptr), to_head.cnt)

\* An exchange compares exactly what the program compares: the words are
\* equal only if pointer and counter are.
ExchangeIsExact ==
  /\ head = Pack(oldhead) <=> oldhead = PtrCnt(At("desc", to_head.ptr), to_head.cnt)
  /\ off = to_pptr_off(expected, At("sb", Cell)) <=> expected = At("sb", to_off)

\* get_root returns what set_root was given, wherever the region is mapped; a
\* root that was set to null does so where it was set.
RootReadsBack == null_at \in {0, base["sb"]} => get_root = At("sb", to_root)
=============================================================================

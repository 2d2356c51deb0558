--------------------------- MODULE PointersProofs ---------------------------
(***************************************************************************)
(* Proofs about Pointers, for every size of words, regions, patterns and   *)
(* counters and all mapping addresses: what is stored is read back.        *)
(***************************************************************************)
EXTENDS Pointers, TLAPS

Target == Offsets \cup {Null}

\* What a pptr and a head hold, in terms of offsets: no address occurs.
Relative(o) == IF o = Null THEN PATTERN
               ELSE IF o > Cell THEN (o - Cell) * UNIT + PATTERN
               ELSE (Cell - o) * UNIT + (PATTERN + 1)
Low(o) == IF o = Null THEN 0 ELSE o
Packed(h) == h.cnt * OFFSETS + Low(h.ptr)

Mapped == base \in [{"sb", "desc"} -> Bases]
PptrInv == /\ to_off \in Target
           /\ off = Relative(to_off)
           /\ \E o \in Target : expected = At("sb", o)
HeadInv == /\ to_head \in [ptr : Target, cnt : 0..(CNT - 1)]
           /\ head = Packed(to_head)
           /\ \E o \in Target, n \in 0..(CNT - 1) : oldhead = PtrCnt(At("desc", o), n)
RootInv == to_root \in Target /\ root \in 0..(WORD - 1) /\ null_at \in Bases \cup {0}
IInv == Mapped /\ PptrInv /\ HeadInv /\ RootInv

-----------------------------------------------------------------------------
(* Arithmetic *)

\* A word with field k above r has quotient k and remainder r.
LEMMA DivMod ==
  ASSUME NEW k \in Nat, NEW U \in Nat \ {0}, NEW r \in 0..(U - 1)
  PROVE  (k * U + r) \div U = k /\ (k * U + r) % U = r
<1>1. k * U \in Nat
  BY SMT
<1>2. QED
  BY <1>1, SMTT(20)

\* A field below its limit leaves room for the one below it.
LEMMA FieldFits ==
  ASSUME NEW U \in Nat \ {0}, NEW a \in Nat, NEW b \in Nat, a < b
  PROVE  a * U + U <= b * U /\ a * U \in Nat /\ b * U \in Nat
  BY SMT

\* The sizes of words, fields and patterns.
LEMMA Sizes ==
  /\ UNIT \in Nat \ {0} /\ PATTERN \in 0..(UNIT - 1) /\ PATTERN + 1 \in 0..(UNIT - 1)
  /\ PATTERN # 0
  /\ WORD \in Nat /\ ADDRESSES \in Nat /\ ADDRESSES <= WORD
  /\ OFFSETS \in Nat \ {0} /\ Size <= OFFSETS /\ Size \in Nat /\ Cell \in Offsets
<1>1. UNIT \in Nat \ {0} /\ ADDRESSES \in Nat
  BY PointersAssumption
<1>2. WORD \in Nat /\ ADDRESSES <= WORD
  BY <1>1, SMT DEF WORD
<1>3. QED
  BY <1>1, <1>2, PointersAssumption DEF Offsets

\* The counter's field: it has at least one value, and fills the word.
LEMMA CounterField ==
  /\ CNT \in Nat /\ CNT * OFFSETS = WORD
  /\ Bases # {} => CNT \in Nat \ {0}
<1>1. CNT \in Nat
  BY Sizes, SMT DEF CNT
<1>2. CNT * OFFSETS = WORD
  BY <1>1, Sizes, PointersAssumption, SMT
<1>3. ASSUME NEW b \in Bases PROVE CNT # 0
  <2>1. WORD > 0
    BY Sizes, PointersAssumption
  <2>2. QED
    BY <2>1, <1>1, <1>2, Sizes
<1>4. QED
  BY <1>1, <1>2, <1>3

\* Addresses of offsets are not null and fit a word; different offsets have
\* different addresses.
LEMMA Addresses ==
  ASSUME Mapped, NEW r \in {"sb", "desc"}
  PROVE  /\ \A o \in Offsets : /\ At(r, o) = base[r] + o
                               /\ At(r, o) \in 1..(ADDRESSES - 1) /\ At(r, o) # null
         /\ At(r, Null) = null
         /\ base[r] \in Nat /\ base[r] > 0 /\ base[r] \in Bases
         /\ \A o, p \in Target : At(r, o) = At(r, p) => o = p
         /\ \A o \in Target : At(r, o) \in 0..(ADDRESSES - 1)
<1>1. base[r] \in Bases /\ base[r] \in Nat /\ base[r] > 0 /\ base[r] + Size <= ADDRESSES
  BY PointersAssumption DEF Mapped
<1>2. At(r, Null) = null /\ Null \notin Offsets
  BY PointersAssumption DEF At, Offsets
<1>3. ASSUME NEW o \in Offsets
      PROVE  At(r, o) = base[r] + o /\ At(r, o) \in 1..(ADDRESSES - 1) /\ At(r, o) # null
  BY <1>1, <1>2, Sizes DEF At, Offsets, null
<1>4. ASSUME NEW o \in Target, NEW p \in Target, At(r, o) = At(r, p) PROVE o = p
  <2>1. CASE o \in Offsets /\ p \in Offsets
    BY <2>1, <1>1, <1>3, <1>4 DEF Offsets
  <2>2. CASE o = Null \/ p = Null
    BY <2>2, <1>2, <1>3, <1>4 DEF Target
  <2>3. QED
    BY <2>1, <2>2 DEF Target
<1>5. \A o \in Target : At(r, o) \in 0..(ADDRESSES - 1)
  BY <1>1, <1>2, <1>3, Sizes DEF Target, null
<1>6. QED
  BY <1>1, <1>2, <1>3, <1>4, <1>5

-----------------------------------------------------------------------------
(* pptr *)

\* What to_pptr_off computes does not depend on where the region is mapped.
LEMMA EncodeIsRelative ==
  ASSUME Mapped, NEW o \in Target
  PROVE  to_pptr_off(At("sb", o), At("sb", Cell)) = Relative(o)
<1>1. CASE o = Null
  BY <1>1, Addresses, Sizes DEF to_pptr_off, Relative, PPTR_PATTERN_POS
<1>2. CASE o \in Offsets
  <2>1. /\ At("sb", o) = base["sb"] + o /\ At("sb", Cell) = base["sb"] + Cell
        /\ At("sb", o) # null /\ base["sb"] \in Nat /\ o # Null
    BY <1>2, Addresses, Sizes, PointersAssumption DEF Offsets
  <2>2. /\ At("sb", o) > At("sb", Cell) <=> o > Cell
        /\ At("sb", o) - At("sb", Cell) = o - Cell
        /\ At("sb", Cell) - At("sb", o) = Cell - o
    BY <2>1, <1>2, Sizes DEF Offsets
  <2>3. QED
    BY <2>1, <2>2 DEF to_pptr_off, Relative, PPTR_PATTERN_POS, PPTR_PATTERN_NEG
<1>3. QED
  BY <1>1, <1>2 DEF Target

\* The parity of a word is that of its pattern: UNIT is even.
LEMMA SignBit ==
  ASSUME NEW k \in Nat
  PROVE  /\ (k * UNIT + PATTERN) % 2 = 0
         /\ (k * UNIT + (PATTERN + 1)) % 2 = 1
<1>1. PICK u \in Nat : UNIT = 2 * u
  <2>1. UNIT = 2 * (UNIT \div 2) /\ UNIT \div 2 \in Nat
    BY PointersAssumption
  <2>2. QED
    BY <2>1
<1>2. PICK q \in Nat : PATTERN = 2 * q
  <2>1. PATTERN = 2 * (PATTERN \div 2) /\ PATTERN \div 2 \in Nat
    BY PointersAssumption
  <2>2. QED
    BY <2>1
<1>3. k * u \in Nat /\ k * UNIT = 2 * (k * u)
  BY <1>1, SMT
<1>4. QED
  BY <1>2, <1>3

\* from_pptr_off inverts it, at any mapping.
LEMMA DecodeRelative ==
  ASSUME Mapped, NEW o \in Target
  PROVE  from_pptr_off(Relative(o), At("sb", Cell)) = At("sb", o)
<1>1. CASE o = Null
  BY <1>1, Addresses DEF Relative, from_pptr_off, is_null_pptr, PPTR_PATTERN_POS
<1>2. CASE o \in Offsets
  <2> DEFINE p == At("sb", Cell)
  <2>1. /\ At("sb", o) = base["sb"] + o /\ p = base["sb"] + Cell
        /\ base["sb"] \in Nat /\ o # Null /\ o \in Nat /\ Cell \in Nat
    BY <1>2, Addresses, Sizes, PointersAssumption DEF Offsets
  <2>2. CASE o > Cell
    <3> DEFINE k == o - Cell
               w == k * UNIT + PATTERN
    <3>1. k \in Nat \ {0} /\ Relative(o) = w
      BY <2>1, <2>2 DEF Relative
    <3>2. w \div UNIT = k /\ w % UNIT = PATTERN /\ w % 2 = 0
      BY <3>1, DivMod, SignBit, Sizes, Zenon
    <3>3. w # PATTERN
      <4> HIDE DEF k
      <4>1. k * UNIT > 0 /\ k * UNIT \in Nat
        BY <3>1, Sizes, SMT
      <4>2. QED
        BY <4>1, Sizes
    <3>4. from_pptr_off(w, p) = p + k
      <4> HIDE DEF w, k, p
      <4>1. is_valid_pptr(w) /\ ~is_null_pptr(w)
        BY <3>2, <3>3, Sizes DEF is_valid_pptr, is_null_pptr, PPTR_PATTERN_POS
      <4>2. QED
        BY <4>1, <3>2 DEF from_pptr_off
    <3>5. QED
      BY <3>1, <3>4, <2>1
  <2>3. CASE ~(o > Cell)
    <3> DEFINE k == Cell - o
               w == k * UNIT + (PATTERN + 1)
    <3>1. k \in Nat /\ Relative(o) = w
      BY <2>1, <2>3 DEF Relative
    <3>2. w \div UNIT = k /\ w % UNIT = PATTERN + 1 /\ w % 2 = 1
      BY <3>1, DivMod, SignBit, Sizes, Zenon
    <3>3. w # PATTERN
      <4> HIDE DEF k
      <4>1. k * UNIT \in Nat
        BY <3>1, Sizes, SMT
      <4>2. QED
        BY <4>1, Sizes
    <3>4. from_pptr_off(w, p) = p - k
      <4> HIDE DEF w, k, p
      <4>1. is_valid_pptr(w) /\ ~is_null_pptr(w)
        BY <3>2, <3>3, Sizes DEF is_valid_pptr, is_null_pptr, PPTR_PATTERN_POS
      <4>2. QED
        BY <4>1, <3>2 DEF from_pptr_off
    <3>5. QED
      BY <3>1, <3>4, <2>1
  <2>4. QED
    BY <2>2, <2>3
<1>3. QED
  BY <1>1, <1>2 DEF Target

-----------------------------------------------------------------------------
(* The head of a list *)

\* An offset translated to an address and back is itself.
LEMMA OffsetBack ==
  ASSUME Mapped, NEW r \in {"sb", "desc"}, NEW o \in Offsets
  PROVE  /\ untranslate(r, At(r, o)) = o
         /\ translate(r, o) = At(r, o)
<1>1. /\ At(r, o) = base[r] + o /\ At(r, o) \in 1..(ADDRESSES - 1)
      /\ base[r] \in Nat /\ o \in Nat
  BY Addresses DEF Offsets
<1>2. o < WORD /\ base[r] + o < WORD /\ WORD \in Nat
  BY <1>1, Sizes
<1>3. (base[r] + o) - base[r] = o
  BY <1>1
<1>4. o % WORD = o /\ (base[r] + o) % WORD = base[r] + o
  BY <1>1, <1>2
<1>5. QED
  BY <1>1, <1>3, <1>4 DEF untranslate, translate

\* What Pack computes does not depend on where the region is mapped; a counter
\* that has just overflowed is stored as 0.
LEMMA PackIsPacked ==
  ASSUME Mapped, NEW o \in Target, NEW n \in 0..CNT
  PROVE  Pack(PtrCnt(At("desc", o), n)) = Packed([ptr |-> o, cnt |-> n % CNT])
<1>1. base["desc"] \in Bases
  BY Addresses
<1>2. CNT \in Nat \ {0} /\ CNT * OFFSETS = WORD
  BY <1>1, CounterField
<1>3. (n * OFFSETS) % WORD = (n % CNT) * OFFSETS
  <2>1. CASE n = CNT
    <3>1. n * OFFSETS = WORD /\ n % CNT = 0 /\ WORD > 0
      <4>1. WORD > 0
        BY <1>1, PointersAssumption, Sizes
      <4>2. QED
        BY <2>1, <1>2, <4>1
    <3>2. WORD % WORD = 0
      BY <3>1, Sizes
    <3>3. 0 * OFFSETS = 0
      BY Sizes
    <3>4. QED
      BY <3>1, <3>2, <3>3
  <2>2. CASE n # CNT
    <3>1. n \in Nat /\ n < CNT /\ n % CNT = n
      BY <2>2, <1>2
    <3>2. n * OFFSETS + OFFSETS <= CNT * OFFSETS /\ n * OFFSETS \in Nat
      BY <3>1, <1>2, FieldFits, Sizes
    <3>3. n * OFFSETS < WORD
      BY <3>2, <1>2, Sizes
    <3>4. (n * OFFSETS) % WORD = n * OFFSETS
      BY <3>2, <3>3, Sizes
    <3>5. QED
      BY <3>1, <3>4
  <2>3. QED
    BY <2>1, <2>2
<1>4. (IF At("desc", o) = null THEN 0 ELSE untranslate("desc", At("desc", o))) = Low(o)
  <2>1. CASE o = Null
    BY <2>1, Addresses DEF Low
  <2>2. CASE o \in Offsets
    BY <2>2, Addresses, OffsetBack, PointersAssumption DEF Low, Offsets
  <2>3. QED
    BY <2>1, <2>2 DEF Target
<1>5. QED
  BY <1>3, <1>4 DEF Pack, PtrCnt, Packed

\* Unpack inverts it, at any mapping.
LEMMA UnpackPacked ==
  ASSUME Mapped, NEW h \in [ptr : Target, cnt : 0..(CNT - 1)]
  PROVE  Unpack(Packed(h)) = PtrCnt(At("desc", h.ptr), h.cnt)
<1> DEFINE w == h.cnt * OFFSETS + Low(h.ptr)
<1>1. h.cnt \in Nat /\ h.ptr \in Target /\ Packed(h) = w
  BY CounterField DEF Packed
<1>2. Low(h.ptr) \in 0..(OFFSETS - 1)
  BY <1>1, Sizes DEF Low, Target, Offsets
<1>3. w \div OFFSETS = h.cnt /\ w % OFFSETS = Low(h.ptr)
  <2>1. h.cnt \in Nat /\ OFFSETS \in Nat \ {0}
    BY <1>1, Sizes
  <2>2. QED
    BY <2>1, <1>2, DivMod, Zenon
<1>4. (IF Low(h.ptr) = 0 THEN null ELSE translate("desc", Low(h.ptr))) = At("desc", h.ptr)
  <2>1. CASE h.ptr = Null
    BY <2>1, Addresses DEF Low
  <2>2. CASE h.ptr \in Offsets
    <3>1. Low(h.ptr) = h.ptr /\ h.ptr # 0
      BY <2>2, PointersAssumption DEF Low, Offsets
    <3>2. QED
      BY <3>1, <2>2, OffsetBack
  <2>3. QED
    BY <1>1, <2>1, <2>2 DEF Target
<1>5. QED
  <2> HIDE DEF w
  <2>1. QED
    BY <1>1, <1>3, <1>4 DEF Unpack

\* Two heads that differ are different words.
LEMMA PackedInjective ==
  ASSUME Mapped,
         NEW g \in [ptr : Target, cnt : 0..(CNT - 1)],
         NEW h \in [ptr : Target, cnt : 0..(CNT - 1)],
         Packed(g) = Packed(h)
  PROVE  g = h
<1>1. PtrCnt(At("desc", g.ptr), g.cnt) = PtrCnt(At("desc", h.ptr), h.cnt)
  BY UnpackPacked
<1>2. At("desc", g.ptr) = At("desc", h.ptr) /\ g.cnt = h.cnt
  BY <1>1 DEF PtrCnt
<1>3. QED
  BY <1>2, Addresses

-----------------------------------------------------------------------------
(* The inductive invariant *)

\* Both exchanges compare exactly what their arguments say.
LEMMA ExchangesExact ==
  ASSUME IInv
  PROVE  ExchangeIsExact
<1>1. Mapped /\ PptrInv /\ HeadInv
  BY DEF IInv
<1>2. PICK o \in Target, n \in 0..(CNT - 1) : oldhead = PtrCnt(At("desc", o), n)
  BY <1>1 DEF HeadInv
<1>3. PICK e \in Target : expected = At("sb", e)
  BY <1>1 DEF PptrInv
<1>4. head = Pack(oldhead) <=> oldhead = PtrCnt(At("desc", to_head.ptr), to_head.cnt)
  <2> DEFINE g == [ptr |-> o, cnt |-> n]
  <2>1. n \in 0..CNT /\ n % CNT = n /\ g \in [ptr : Target, cnt : 0..(CNT - 1)]
    BY CounterField
  <2>2. Pack(oldhead) = Packed(g)
    BY <1>1, <1>2, <2>1, PackIsPacked
  <2>3. head = Packed(to_head) /\ to_head \in [ptr : Target, cnt : 0..(CNT - 1)]
    BY <1>1 DEF HeadInv
  <2>4. head = Pack(oldhead) => g = to_head
    BY <1>1, <2>1, <2>2, <2>3, PackedInjective, Zenon
  <2>5. oldhead = PtrCnt(At("desc", to_head.ptr), to_head.cnt) => g = to_head
    <3> HAVE oldhead = PtrCnt(At("desc", to_head.ptr), to_head.cnt)
    <3>1. At("desc", o) = At("desc", to_head.ptr) /\ n = to_head.cnt
      BY <1>2 DEF PtrCnt
    <3>2. o = to_head.ptr
      BY <3>1, <2>3, <1>1, Addresses
    <3>3. QED
      BY <3>1, <3>2, <2>3
  <2>6. g = to_head => /\ head = Pack(oldhead)
                       /\ oldhead = PtrCnt(At("desc", to_head.ptr), to_head.cnt)
    BY <1>2, <2>2, <2>3
  <2>7. QED
    BY <2>4, <2>5, <2>6
<1>5. off = to_pptr_off(expected, At("sb", Cell)) <=> expected = At("sb", to_off)
  <2>1. to_pptr_off(expected, At("sb", Cell)) = Relative(e)
    BY <1>1, <1>3, EncodeIsRelative
  <2>2. off = Relative(to_off) /\ to_off \in Target
    BY <1>1 DEF PptrInv
  <2>3. Relative(e) = Relative(to_off) => At("sb", e) = At("sb", to_off)
    BY <1>1, <2>2, DecodeRelative
  <2>4. At("sb", e) = At("sb", to_off) => e = to_off
    BY <1>1, <2>2, Addresses
  <2>5. QED
    BY <2>1, <2>2, <2>3, <2>4, <1>3
<1>6. QED
  BY <1>4, <1>5 DEF ExchangeIsExact

\* The constructors establish the invariant.
LEMMA InitInv == Init => IInv
<1> SUFFICES ASSUME Init PROVE IInv
  OBVIOUS
<1>1. Mapped
  BY DEF Init, Mapped
<1>2. PptrInv
  BY <1>1, Addresses DEF Init, PptrInv, Relative, Target, PPTR_PATTERN_POS
<1>3. CNT \in Nat \ {0} /\ WORD > 0
  <2>1. base["desc"] \in Bases
    BY <1>1, Addresses
  <2>2. CNT \in Nat \ {0}
    BY <2>1, CounterField
  <2>3. WORD > 0
    BY <2>1, PointersAssumption, Sizes
  <2>4. QED
    BY <2>2, <2>3
<1>4. HeadInv
  <2>1. to_head = [ptr |-> Null, cnt |-> 0] /\ head = 0 /\ oldhead = PtrCnt(null, 0)
    BY DEF Init
  <2>2. to_head \in [ptr : Target, cnt : 0..(CNT - 1)]
    BY <2>1, <1>3 DEF Target
  <2>3. Packed(to_head) = 0
    BY <2>1, Sizes DEF Packed, Low
  <2>4. oldhead = PtrCnt(At("desc", Null), 0)
    BY <2>1, <1>1, Addresses
  <2>5. Null \in Target /\ 0 \in 0..(CNT - 1)
    BY <1>3 DEF Target
  <2>6. QED
    BY <2>1, <2>2, <2>3, <2>4, <2>5 DEF HeadInv
<1>5. RootInv
  BY <1>3, Sizes DEF Init, RootInv, Target
<1>6. QED
  BY <1>1, <1>2, <1>4, <1>5 DEF IInv

\* Every step keeps the invariant.
LEMMA NextInv == IInv /\ [Next]_vars => IInv'
<1> SUFFICES ASSUME IInv, [Next]_vars PROVE IInv'
  OBVIOUS
<1>1. Mapped /\ PptrInv /\ HeadInv /\ RootInv
  BY DEF IInv
<1>2. ASSUME UNCHANGED <<base, off, expected, to_off>> PROVE PptrInv'
  BY <1>1, <1>2 DEF PptrInv, At, Relative
<1>3. ASSUME UNCHANGED <<base, head, oldhead, to_head>> PROVE HeadInv'
  BY <1>1, <1>3 DEF HeadInv, At, Packed, PtrCnt
<1>4. ASSUME UNCHANGED <<root, to_root, null_at>> PROVE RootInv'
  BY <1>1, <1>4 DEF RootInv
<1>5. ASSUME UNCHANGED base PROVE Mapped' /\ \A r, o : At(r, o)' = At(r, o)
  BY <1>1, <1>5 DEF Mapped, At
<1>6. from_pptr_off(off, At("sb", Cell)) = At("sb", to_off) /\ to_off \in Target
  BY <1>1, DecodeRelative DEF PptrInv
<1>7. /\ Unpack(head) = PtrCnt(At("desc", to_head.ptr), to_head.cnt)
      /\ to_head \in [ptr : Target, cnt : 0..(CNT - 1)]
  BY <1>1, UnpackPacked DEF HeadInv
<1>8. ASSUME NEW o \in Target, StorePptr(o) PROVE IInv'
  <2>1. UNCHANGED <<base, root, head, expected, oldhead, to_root, to_head, null_at>>
    BY <1>8 DEF StorePptr
  <2>2. off' = Relative(o) /\ to_off' = o
    BY <1>8, <1>1, EncodeIsRelative DEF StorePptr
  <2>3. PptrInv'
    BY <2>1, <2>2, <1>1, <1>5 DEF PptrInv, Relative
  <2>4. QED
    BY <2>1, <2>3, <1>3, <1>4, <1>5 DEF IInv
<1>9. ASSUME LoadPptr PROVE IInv'
  <2>1. UNCHANGED <<base, off, root, head, oldhead, to_off, to_root, to_head, null_at>>
    BY <1>9 DEF LoadPptr
  <2>2. expected' = At("sb", to_off)
    BY <1>9, <1>6 DEF LoadPptr
  <2>3. PptrInv'
    BY <2>1, <2>2, <1>1, <1>5, <1>6 DEF PptrInv, Relative
  <2>4. QED
    BY <2>1, <2>3, <1>3, <1>4, <1>5 DEF IInv
<1>10. ASSUME NEW o \in Target, ExchangePptr(o) PROVE IInv'
  <2>1. UNCHANGED <<base, root, head, oldhead, to_root, to_head, null_at>>
    BY <1>10 DEF ExchangePptr
  <2>2. PptrInv'
    <3>1. CASE off = to_pptr_off(expected, At("sb", Cell))
      <4>1. off' = Relative(o) /\ to_off' = o /\ expected' = expected
        BY <1>10, <3>1, <1>1, EncodeIsRelative DEF ExchangePptr
      <4>2. QED
        BY <2>1, <4>1, <1>1, <1>5 DEF PptrInv, Relative
    <3>2. CASE off # to_pptr_off(expected, At("sb", Cell))
      <4>1. off' = off /\ to_off' = to_off /\ expected' = At("sb", to_off)
        BY <1>10, <3>2, <1>6 DEF ExchangePptr
      <4>2. QED
        BY <2>1, <4>1, <1>1, <1>5, <1>6 DEF PptrInv, Relative
    <3>3. QED
      BY <3>1, <3>2
  <2>3. QED
    BY <2>1, <2>2, <1>3, <1>4, <1>5 DEF IInv
<1>11. ASSUME NEW o \in Target, set_root(o) PROVE IInv'
  <2>1. UNCHANGED <<base, off, head, expected, oldhead, to_off, to_head>>
    BY <1>11 DEF set_root
  <2>2. to_root' \in Target /\ null_at' \in Bases \cup {0}
    BY <1>1, <1>11, Addresses DEF set_root
  <2>3. root' \in 0..(WORD - 1)
    <3>1. base["sb"] \in Nat /\ At("sb", o) \in Nat /\ base["sb"] \in Bases
      BY <1>1, Addresses
    <3>2. WORD \in Nat /\ WORD > 0
      BY <3>1, PointersAssumption, Sizes
    <3>3. (At("sb", o) - base["sb"]) % WORD \in 0..(WORD - 1)
      BY <3>1, <3>2
    <3>4. QED
      BY <3>3, <1>11 DEF set_root, CrossPtr, untranslate
  <2>4. QED
    BY <2>1, <2>2, <2>3, <1>2, <1>3, <1>5 DEF IInv, RootInv
<1>12. ASSUME LoadHead PROVE IInv'
  <2>1. UNCHANGED <<base, off, root, head, expected, to_off, to_root, to_head, null_at>>
    BY <1>12 DEF LoadHead
  <2>2. oldhead' = PtrCnt(At("desc", to_head.ptr), to_head.cnt)
    BY <1>12, <1>7 DEF LoadHead
  <2>3. HeadInv'
    BY <2>1, <2>2, <1>1, <1>5, <1>7 DEF HeadInv, Packed, PtrCnt
  <2>4. QED
    BY <2>1, <2>3, <1>2, <1>4, <1>5 DEF IInv
<1>13. ASSUME NEW o \in Target, NEW n \in {0, 1}, ExchangeHead(o, n) PROVE IInv'
  <2>1. UNCHANGED <<base, off, root, expected, to_off, to_root, null_at>>
    BY <1>13 DEF ExchangeHead
  <2>2. CASE head = Pack(oldhead)
    <3> DEFINE c == to_head.cnt + n
               h == [ptr |-> o, cnt |-> c % CNT]
    <3>1. oldhead = PtrCnt(At("desc", to_head.ptr), to_head.cnt)
      BY <2>2, ExchangesExact DEF ExchangeIsExact
    <3>2. oldhead.cnt = to_head.cnt
      BY <3>1 DEF PtrCnt
    <3>3. CNT \in Nat \ {0}
      BY <1>1, Addresses, CounterField
    <3>4. c \in 0..CNT /\ c % CNT \in 0..(CNT - 1)
      BY <1>7, <3>3
    <3>5. head' = Packed(h) /\ to_head' = h /\ oldhead' = oldhead
      <4> HIDE DEF c
      <4>1. head' = Pack(PtrCnt(At("desc", o), c)) /\ to_head' = h /\ oldhead' = oldhead
        BY <1>13, <2>2, <3>2 DEF ExchangeHead, c
      <4>2. QED
        BY <4>1, <3>4, <1>1, PackIsPacked
    <3>6. h \in [ptr : Target, cnt : 0..(CNT - 1)]
      BY <3>4
    <3>7. QED
      <4> HIDE DEF h
      <4>1. HeadInv'
        BY <3>5, <3>6, <2>1, <1>1, <1>5 DEF HeadInv, Packed, PtrCnt
      <4>2. QED
        BY <4>1, <2>1, <1>2, <1>4, <1>5 DEF IInv
  <2>3. CASE head # Pack(oldhead)
    <3>1. /\ oldhead' = PtrCnt(At("desc", to_head.ptr), to_head.cnt)
          /\ UNCHANGED <<head, to_head>>
      BY <1>13, <2>3, <1>7 DEF ExchangeHead
    <3>2. HeadInv'
      BY <2>1, <3>1, <1>1, <1>5, <1>7 DEF HeadInv, Packed, PtrCnt
    <3>3. QED
      BY <2>1, <3>2, <1>2, <1>4, <1>5 DEF IInv
  <2>4. QED
    BY <2>2, <2>3
<1>14. ASSUME Remap PROVE IInv'
  <2>1. Mapped' /\ expected' = null /\ oldhead' = PtrCnt(null, 0)
    BY <1>14 DEF Remap, Mapped
  <2>2. UNCHANGED <<off, root, head, to_off, to_root, to_head, null_at>>
    BY <1>14 DEF Remap
  <2>3. At("sb", Null)' = null /\ At("desc", Null)' = null /\ Null \in Target
    BY DEF At, Target
  <2>4. PptrInv'
    BY <2>1, <2>2, <2>3, <1>1 DEF PptrInv, Relative
  <2>5. 0 \in 0..(CNT - 1)
    BY <1>1, Addresses, CounterField
  <2>6. HeadInv'
    BY <2>1, <2>2, <2>3, <2>5, <1>1 DEF HeadInv, Packed, PtrCnt
  <2>7. QED
    BY <2>1, <2>2, <2>4, <2>6, <1>4 DEF IInv
<1>15. ASSUME NEW o \in Target, StoreHead(o) PROVE IInv'
  <2>1. UNCHANGED <<base, off, root, expected, oldhead, to_off, to_root, null_at>>
    BY <1>15 DEF StoreHead
  <2>2. 0 \in 0..CNT /\ 0 % CNT = 0 /\ 0 \in 0..(CNT - 1)
    BY <1>1, Addresses, CounterField
  <2>3. head' = Packed([ptr |-> o, cnt |-> 0]) /\ to_head' = [ptr |-> o, cnt |-> 0]
    BY <1>15, <1>1, <2>2, PackIsPacked DEF StoreHead
  <2>4. HeadInv'
    BY <2>1, <2>2, <2>3, <1>1, <1>5 DEF HeadInv, Packed, PtrCnt
  <2>5. QED
    BY <2>1, <2>4, <1>2, <1>4, <1>5 DEF IInv
<1>16. CASE UNCHANGED vars
  BY <1>16, <1>2, <1>3, <1>4, <1>5 DEF vars, IInv
<1>17. ASSUME Next PROVE IInv'
  BY <1>17, <1>8, <1>9, <1>10, <1>11, <1>12, <1>13, <1>14, <1>15 DEF Next, Target
<1>18. QED
  BY <1>16, <1>17

\* The invariant holds in all reachable states.
THEOREM Inductive == Spec => []IInv
<1>1. QED
  BY InitInv, NextInv, PTL DEF Spec

-----------------------------------------------------------------------------
(* Theorems *)

\* The invariant bounds every word: TypeOK of Pointers.
LEMMA InvTypes == IInv => TypeOK
<1> SUFFICES ASSUME IInv PROVE TypeOK
  OBVIOUS
<1>1. Mapped /\ PptrInv /\ HeadInv /\ RootInv
  BY DEF IInv
<1>2. off \in 0..(WORD - 1)
  <2>1. off = Relative(to_off) /\ to_off \in Target
    BY <1>1 DEF PptrInv
  <2>2. base["sb"] \in Nat /\ base["sb"] + Size <= ADDRESSES
    BY <1>1, PointersAssumption DEF Mapped
  <2>3. ASSUME NEW k \in 0..(Size - 1), NEW r \in 0..(UNIT - 1)
        PROVE  k * UNIT + r \in 0..(WORD - 1)
    <3>1. k \in Nat /\ k < ADDRESSES
      BY <2>2, Sizes
    <3>2. k * UNIT + UNIT <= ADDRESSES * UNIT /\ k * UNIT \in Nat
      BY <3>1, FieldFits, Sizes
    <3>3. QED
      BY <3>2, Sizes DEF WORD
  <2>4. CASE to_off = Null
    <3>1. 0 * UNIT + PATTERN \in 0..(WORD - 1)
      <4>1. 0 \in 0..(Size - 1)
        BY PointersAssumption
      <4>2. QED
        BY <2>3, <4>1, Sizes, Zenon
    <3>2. QED
      BY <2>1, <2>4, <3>1, Sizes DEF Relative
  <2>5. CASE to_off \in Offsets /\ to_off > Cell
    <3>1. to_off - Cell \in 0..(Size - 1) /\ to_off # Null
      BY <2>5, Sizes, PointersAssumption DEF Offsets
    <3>2. QED
      BY <2>1, <2>5, <3>1, <2>3, Sizes, Zenon DEF Relative
  <2>6. CASE to_off \in Offsets /\ ~(to_off > Cell)
    <3>1. Cell - to_off \in 0..(Size - 1) /\ to_off # Null
      BY <2>6, Sizes, PointersAssumption DEF Offsets
    <3>2. QED
      BY <2>1, <2>6, <3>1, <2>3, Sizes, Zenon DEF Relative
  <2>7. QED
    BY <2>1, <2>4, <2>5, <2>6 DEF Target
<1>3. head \in 0..(WORD - 1)
  <2>1. head = to_head.cnt * OFFSETS + Low(to_head.ptr)
    BY <1>1 DEF HeadInv, Packed
  <2>2. to_head.cnt \in Nat /\ to_head.cnt < CNT /\ to_head.ptr \in Target
    BY <1>1, CounterField DEF HeadInv
  <2>3. Low(to_head.ptr) \in 0..(OFFSETS - 1)
    BY <2>2, Sizes DEF Low, Target, Offsets
  <2>4. /\ to_head.cnt * OFFSETS + OFFSETS <= CNT * OFFSETS
        /\ to_head.cnt * OFFSETS \in Nat
    BY <2>2, CounterField, FieldFits, Sizes
  <2>5. QED
    BY <2>1, <2>3, <2>4, CounterField, Sizes
<1>4. expected \in 0..(ADDRESSES - 1)
  BY <1>1, Addresses DEF PptrInv
<1>5. oldhead \in [ptr : 0..(ADDRESSES - 1), cnt : 0..(CNT - 1)]
  BY <1>1, Addresses DEF HeadInv, PtrCnt
<1>6. QED
  BY <1>1, <1>2, <1>3, <1>4, <1>5
     DEF TypeOK, Mapped, PptrInv, HeadInv, RootInv, Target

\* Type correctness: no stored word, pattern or counter outgrows 64 bits.
THEOREM TypeCorrect == Spec => []TypeOK
<1>1. QED
  BY Inductive, InvTypes, PTL

\* from_pptr_off of what to_pptr_off stored is the pointer, in every later
\* mapping of the region.
THEOREM PptrsReadBack == Spec => []PptrReadsBack
<1>1. IInv => PptrReadsBack
  BY DecodeRelative DEF IInv, PptrInv, PptrReadsBack
<1>2. QED
  BY <1>1, Inductive, PTL

\* load of an AtomicCrossPtrCnt is what was stored, also after its counter
\* has wrapped around.
THEOREM HeadsReadBack == Spec => []HeadReadsBack
<1>1. IInv => HeadReadsBack
  BY UnpackPacked DEF IInv, HeadInv, HeadReadsBack
<1>2. QED
  BY <1>1, Inductive, PTL

\* compare_exchange succeeds exactly when the pointer, and the counter where
\* there is one, are the expected ones.
THEOREM ExchangesAreExact == Spec => []ExchangeIsExact
<1>1. QED
  BY ExchangesExact, Inductive, PTL

\* The offset of a null pointer: it is not null, and leads to null again where
\* it was computed.
LEMMA NullBack ==
  ASSUME Mapped
  PROVE  /\ untranslate("sb", null) = WORD - base["sb"] /\ WORD - base["sb"] # 0
         /\ translate("sb", WORD - base["sb"]) = null
<1>1. base["sb"] \in Nat /\ base["sb"] > 0 /\ base["sb"] < WORD /\ WORD \in Nat
  BY Addresses, PointersAssumption, Sizes
<1>2. (0 - base["sb"]) % WORD = WORD - base["sb"] /\ (base["sb"] + (WORD - base["sb"])) % WORD = 0
  BY <1>1, SMT
<1>3. QED
  BY <1>1, <1>2 DEF untranslate, translate, null

\* A root that points to something reads back in every later mapping, one that
\* was never set in all, and one that was set to null in the mapping where it
\* was set.
THEOREM RootsReadBack == Spec => []RootReadsBack
<1> DEFINE I == /\ Mapped /\ to_root \in Target
                /\ \/ null_at = 0 /\ root = Low(to_root)
                   \/ to_root = Null /\ null_at \in Nat \ {0} /\ root = WORD - null_at
<1>1. Init => I
  BY DEF Init, Mapped, Target, Low
<1>2. I /\ [Next]_vars => I'
  <2> SUFFICES ASSUME I, [Next]_vars PROVE I'
    OBVIOUS
  <2>1. ASSUME NEW o \in Target, set_root(o) PROVE I'
    <3>1. /\ root' = untranslate("sb", At("sb", o)) /\ to_root' = o /\ base' = base
          /\ null_at' = IF o = Null THEN base["sb"] ELSE 0
      BY <2>1 DEF set_root, CrossPtr
    <3>2. CASE o = Null
      BY <3>1, <3>2, NullBack, Addresses DEF Mapped
    <3>3. CASE o \in Offsets
      <4>1. o # Null
        BY <3>3, PointersAssumption DEF Offsets
      <4>2. QED
        BY <3>1, <3>3, <4>1, OffsetBack DEF Low, Mapped
    <3>4. QED
      BY <3>2, <3>3 DEF Target
  <2>2. ASSUME Remap PROVE I'
    BY <2>2 DEF Remap, Mapped, Low
  <2>3. ASSUME UNCHANGED <<base, root, to_root, null_at>> PROVE I'
    BY <2>3 DEF Mapped, Low
  <2>4. QED
    BY <2>1, <2>2, <2>3
       DEF Next, vars, StorePptr, LoadPptr, ExchangePptr, LoadHead, StoreHead,
           ExchangeHead, Target
<1>3. I => RootReadsBack
  <2> SUFFICES ASSUME I, null_at \in {0, base["sb"]} PROVE get_root = At("sb", to_root)
    BY DEF RootReadsBack
  <2>1. CASE null_at # 0
    BY <2>1, NullBack, Addresses DEF get_root
  <2>2. CASE null_at = 0 /\ to_root = Null
    BY <2>2, Addresses DEF Low, get_root
  <2>3. CASE null_at = 0 /\ to_root \in Offsets
    <3>1. root = to_root /\ root # 0
      BY <2>3, PointersAssumption DEF Low, Offsets
    <3>2. QED
      BY <3>1, <2>3, OffsetBack DEF get_root
  <2>4. QED
    BY <2>1, <2>2, <2>3 DEF Target
<1>4. QED
  BY <1>1, <1>2, <1>3, PTL DEF Spec
=============================================================================

------------------------------ MODULE SizeClass ------------------------------
(***************************************************************************)
(* The size classes: the constructor fills, in one pass over the table of  *)
(* block sizes, a lookup table from sizes to classes.                      *)
(***************************************************************************)
EXTENDS Integers, Sequences

CONSTANTS Table,   \* block sizes of the classes 1, 2, ...
          SBSIZE   \* bytes of a superblock

MAX_SZ_IDX == Len(Table) + 1
MAX_SZ == Table[Len(Table)]

Ascending(tab) == \A i, j \in 1..Len(tab) : i < j => tab[i] < tab[j]

ASSUME SizeClassAssumption ==
  /\ Table \in Seq(Nat \ {0}) /\ Len(Table) > 0 /\ Ascending(Table)
  /\ SBSIZE \in Nat /\ \A i \in 1..Len(Table) : Table[i] <= SBSIZE

\* The table of the code, (1 << lg_grp) + (ndelta << lg_delta): four sizes,
\* then groups of four, of which the last lacks one.
SIZE_CLASSES == [k \in 1..39 |->
  LET grp == (k - 1) \div 4  n == (k - 1) % 4 IN
  IF grp = 0 THEN 2^3 + n * 2^3 ELSE 2^(grp + 4) + (n + 1) * 2^(grp + 2)]

ASSUME SizeClassesAssumption ==
  /\ Ascending(SIZE_CLASSES) /\ SIZE_CLASSES[39] = 2^13 + 3 * 2^11
  /\ \A i \in 1..39 : SIZE_CLASSES[i] <= 16 * 4096 /\ SIZE_CLASSES[i] % 8 = 0

VARIABLES sizeclass_lookup, lookupIdx, sc_idx

scvars == <<sizeclass_lookup, lookupIdx, sc_idx>>

ScInit == /\ sizeclass_lookup = [s \in 0..MAX_SZ |-> 0]
          /\ lookupIdx = 0 /\ sc_idx = 1

ScStore ==
  /\ sc_idx < MAX_SZ_IDX /\ lookupIdx <= Table[sc_idx]
  /\ sizeclass_lookup' = [sizeclass_lookup EXCEPT ![lookupIdx] = sc_idx]
  /\ lookupIdx' = lookupIdx + 1
  /\ UNCHANGED sc_idx

\* Mutant of ScNext: the loop ends before the size of the blocks themselves.
ScNext_Early ==
  /\ sc_idx < MAX_SZ_IDX /\ lookupIdx >= Table[sc_idx]
  /\ sc_idx' = sc_idx + 1
  /\ UNCHANGED <<sizeclass_lookup, lookupIdx>>

ScNext ==
  /\ sc_idx < MAX_SZ_IDX /\ lookupIdx > Table[sc_idx]
  /\ sc_idx' = sc_idx + 1
  /\ UNCHANGED <<sizeclass_lookup, lookupIdx>>

ScConstruct == ScStore \/ ScNext
ScConstructed == sc_idx = MAX_SZ_IDX

get_sizeclass(size) == sizeclass_lookup[size]

-----------------------------------------------------------------------------

ScTypeOK == /\ sizeclass_lookup \in [0..MAX_SZ -> 0..Len(Table)]
            /\ lookupIdx \in 0..(MAX_SZ + 1) /\ sc_idx \in 1..MAX_SZ_IDX

\* Size s belongs to class c: c is the first whose blocks are large enough.
Fits(s, c) == /\ c \in 1..Len(Table) /\ s <= Table[c]
              /\ \A d \in 1..(c - 1) : Table[d] < s

\* The lookup table leads every size up to MAX_SZ to the first class that is
\* large enough, and the constructor stores nothing beyond it.
LookupFits ==
  /\ \A s \in 0..MAX_SZ : s < lookupIdx => Fits(s, get_sizeclass(s))
  /\ ScConstructed => lookupIdx = MAX_SZ + 1
=============================================================================

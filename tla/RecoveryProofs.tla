--------------------------- MODULE RecoveryProofs ---------------------------
(***************************************************************************)
(* Proofs about Recovery, for any number of superblocks, size classes,     *)
(* roots and pointers, and any number of crashes, also of the collector:   *)
(* what was reachable is kept as it was, and all that was not is free.     *)
(***************************************************************************)
EXTENDS RecoverySteps, FiniteSetTheorems

\* Numbers are well-ordered.
LEMMA LeastNat == WellOrdered
<1> SUFFICES ASSUME NEW S \in SUBSET Nat, S # {} PROVE \E n \in S : \A m \in S : n <= m
  BY Zenon DEF WellOrdered
<1> DEFINE R == OpToRel(<,Nat)
<1>1. IsWellFoundedOn(OpToRel(<,Nat), Nat)
  BY NatLessThanWellFounded, Zenon
<1>2. \A x, y \in Nat : y < x => <<y, x>> \in R
  BY Zenon DEF OpToRel
<1> HIDE DEF R
<1>3. PICK x \in S : \A y \in S : ~ (<<y, x>> \in R)
  BY <1>1, WFMin, Zenon DEF R
<1>4. \A y \in S : ~(y < x)
  BY <1>2, <1>3, Zenon
<1> QED BY <1>4

\* Induction, for sets.
LEMMA SetInduction ==
  ASSUME NEW S, 0 \in S, \A n \in Nat : n \in S => n + 1 \in S
  PROVE  Nat \subseteq S
<1> DEFINE B == Nat \ S
<1> SUFFICES ASSUME B # {} PROVE FALSE
  BY Zenon
<1>1. PICK n \in B : \A m \in B : n <= m
  <2>1. B \in SUBSET Nat
    BY Zenon
  <2> HIDE DEF B
  <2> QED BY <2>1, LeastNat, Zenon DEF WellOrdered
<1>2. n # 0 /\ n - 1 \notin B /\ n - 1 \in Nat
  BY <1>1
<1>3. n - 1 \in S /\ (n - 1) + 1 = n
  BY <1>1, <1>2
<1> QED BY <1>1, <1>2, <1>3, Zenon

\* Chain is the only sequence that its links describe.
LEMMA ChainIs ==
  ASSUME NEW m, NEW p, NEW n \in Nat, NEW A, NEW q \in [1..n -> A],
         n > 0 => q[1] = p, \A i \in 2..n : q[i] = Load(m, q[i - 1])
  PROVE  Chain(m, p, n) = q
<1> DEFINE F(v) == [i \in 1..n |-> IF i = 1 THEN p ELSE Load(m, v[i - 1])]
           w == CHOOSE u : u = F(u)
<1>1. Chain(m, p, n) = w
  BY Zenon DEF Chain
<1>2. q = F(q)
  OBVIOUS
<1>3. w = F(w)
  <2> HIDE DEF F
  <2> QED BY <1>2, Zenon
<1>4. DOMAIN w = 1..n /\ \A i \in 1..n : w[i] = IF i = 1 THEN p ELSE Load(m, w[i - 1])
  <2> HIDE DEF w
  <2> QED BY <1>3, Zenon
<1>5. w = [i \in 1..n |-> w[i]]
  <2> HIDE DEF w
  <2> QED BY <1>3, Zenon
<1> HIDE DEF w
<1> DEFINE S == {k \in Nat : k \in 1..n => w[k] = q[k]}
<1>6. 0 \in S
  OBVIOUS
<1>7. ASSUME NEW k \in Nat, k \in S PROVE k + 1 \in S
  <2> SUFFICES ASSUME k + 1 \in 1..n PROVE w[k + 1] = q[k + 1]
    OBVIOUS
  <2>1. CASE k = 0
    BY <1>4, <2>1
  <2>2. CASE k > 0
    <3>1. k \in 1..n /\ k + 1 \in 2..n /\ (k + 1) - 1 = k /\ k + 1 # 1
      BY <2>2
    <3>2. w[k] = q[k]
      BY <1>7, <3>1, Zenon
    <3>3. w[k + 1] = Load(m, w[k])
      BY <1>4, <3>1, Zenon
    <3>4. q[k + 1] = Load(m, q[k])
      BY <3>1, Zenon
    <3> QED BY <3>2, <3>3, <3>4, Zenon
  <2> QED BY <2>1, <2>2
<1>8. Nat \subseteq S
  <2> HIDE DEF S
  <2> QED BY <1>6, <1>7, SetInduction, Zenon
<1>9. \A k \in 1..n : w[k] = q[k]
  BY <1>8
<1> QED BY <1>1, <1>5, <1>9, Zenon

\* A linked list has the blocks that were linked into it, each once.
LEMMA LinkedLists ==
  ASSUME NEW m, NEW p, NEW n \in Nat, NEW S, Linked(m, p, n, S)
  PROVE  Lists(Chain(m, p, n), S)
<1>1. PICK q \in [1..n -> S] : /\ n > 0 => q[1] = p
                               /\ \A i \in 2..n : q[i] = Load(m, q[i - 1])
                               /\ Lists(q, S)
  BY Zenon DEF Linked
<1>2. Chain(m, p, n) = q
  BY <1>1, ChainIs, Zenon
<1> QED BY <1>1, <1>2, Zenon

-----------------------------------------------------------------------------
(* What is reachable *)

Grow(ds, m, bs) == bs \cup Holding(ds, {m[w] : w \in AllWords(bs)})

\* f[i] is what i steps from the roots reach.
Reaches(ds, m, rs, f, n) ==
  /\ DOMAIN f = 0..n /\ f[0] = Holding(ds, Range(rs))
  /\ \A i \in 1..n : f[i] = Grow(ds, m, f[i - 1])

\* f is given by this equation.
ReachStep(ds, m, rs, f, N) ==
  [n \in 0..N |-> IF n = 0 THEN Holding(ds, Range(rs)) ELSE Grow(ds, m, f[n - 1])]

\* The recursion of Reachable has a solution.
LEMMA ReachesSome ==
  ASSUME NEW ds, NEW m, NEW rs, NEW N \in Nat
  PROVE  \E f : f = ReachStep(ds, m, rs, f, N)
<1> DEFINE A == Holding(ds, Range(rs))
           G(v) == Grow(ds, m, v)
           F(f, k) == [n \in 0..k |-> IF n = 0 THEN A ELSE G(f[n - 1])]
           S == {k \in Nat : \E f : f = F(f, k)}
<1> HIDE DEF A, G
<1>1. 0 \in S
  <2> DEFINE g == [n \in 0..0 |-> A]
  <2>1. g = F(g, 0)
    OBVIOUS
  <2> QED BY <2>1, Zenon
<1>2. ASSUME NEW k \in Nat, k \in S PROVE k + 1 \in S
  <2>1. PICK f : f = F(f, k)
    BY <1>2, Zenon
  <2> DEFINE g == [n \in 0..(k + 1) |-> IF n = k + 1 THEN G(f[k]) ELSE f[n]]
  <2>2. DOMAIN g = 0..(k + 1) /\ g = [n \in 0..(k + 1) |-> g[n]]
    BY Zenon
  <2>3. ASSUME NEW n \in 0..(k + 1)
        PROVE  g[n] = IF n = 0 THEN A ELSE G(g[n - 1])
    <3>1. CASE n = k + 1
      <4>1. n # 0 /\ n - 1 = k /\ k \in 0..(k + 1) /\ k # k + 1
        BY <3>1
      <4> QED BY <3>1, <4>1, Zenon
    <3>2. CASE n # k + 1
      <4>1. n \in 0..k /\ (n # 0 => n - 1 \in 0..(k + 1) /\ n - 1 # k + 1)
        BY <3>2
      <4>2. f[n] = IF n = 0 THEN A ELSE G(f[n - 1])
        BY <2>1, <4>1, Zenon
      <4> QED BY <3>2, <4>1, <4>2, Zenon
    <3> QED BY <3>1, <3>2, Zenon
  <2>4. g = F(g, k + 1)
    <3> HIDE DEF g
    <3> QED BY <2>2, <2>3, Zenon
  <2>5. k + 1 \in Nat
    OBVIOUS
  <2> HIDE DEF F, g
  <2> QED BY <2>4, <2>5, Zenon
<1>3. Nat \subseteq S
  <2> HIDE DEF S
  <2> QED BY <1>1, <1>2, SetInduction, Zenon
<1>4. \E f : f = F(f, N)
  BY <1>3, Zenon
<1> QED BY <1>4, Zenon DEF A, G, ReachStep

\* Reachable is where MaxPtrs steps from the roots lead.
LEMMA ReachableIs ==
  ASSUME NEW ds, NEW m, NEW rs
  PROVE  \E f : Reaches(ds, m, rs, f, MaxPtrs) /\ Reachable(ds, m, rs) = f[MaxPtrs]
<1> DEFINE r == CHOOSE f : f = ReachStep(ds, m, rs, f, MaxPtrs)
<1>1. Reachable(ds, m, rs) = r[MaxPtrs]
  BY Zenon DEF Reachable, Grow, ReachStep
<1>2. \E f : f = ReachStep(ds, m, rs, f, MaxPtrs)
  BY ReachesSome, Constants, Zenon
<1>3. r = ReachStep(ds, m, rs, r, MaxPtrs)
  BY <1>2, Zenon
<1> HIDE DEF r
<1>4. MaxPtrs \in Nat
  BY Constants, Zenon
<1>5. DOMAIN r = 0..MaxPtrs /\ r[0] = Holding(ds, Range(rs))
      /\ \A i \in 1..MaxPtrs : r[i] = Grow(ds, m, r[i - 1])
  BY <1>3, <1>4 DEF ReachStep
<1> QED BY <1>1, <1>5, Zenon DEF Reaches

\* The blocks found after as many steps as there are pointers are all that
\* can be reached: each step that finds a new one follows another pointer.
\* Pointers to X lead to no block.
LEMMA ReachableClosed ==
  ASSUME NEW ds, LayoutOK(ds), NEW X, null \in X, \A b \in Blocks(ds) : WordsOf(b) \cap X = {},
         NEW m \in [Words -> Starts(Blocks(ds)) \cup X],
         NEW rs \in [RootIdx -> Starts(Blocks(ds)) \cup X],
         Cardinality({w \in Words : m[w] # null}) <= MaxPtrs
  PROVE  LET R == Reachable(ds, m, rs) IN
         /\ R \subseteq Blocks(ds)
         /\ \A i \in RootIdx : rs[i] \in Starts(R) \cup X
         /\ \A w \in AllWords(R) : m[w] \in Starts(R) \cup X
         /\ \A S \in SUBSET Starts(R) : ClosedUnder(S, R, m, rs) => S = Starts(R)
<1> DEFINE N == MaxPtrs
           R == Reachable(ds, m, rs)
           P == {w \in Words : m[w] # null}
<1>1. PICK f : Reaches(ds, m, rs, f, N) /\ R = f[N]
  BY ReachableIs, Zenon
<1> HIDE DEF R
<1>2. N \in Nat
  BY Constants, Zenon
<1>3. \A b \in Blocks(ds) : b.start \in WordsOf(b) /\ WordsOf(b) \subseteq Words
  BY BlockFacts, Zenon
<1>4. \A n \in 0..N : f[n] \subseteq Blocks(ds)
  <2>1. \A n \in 1..N : n - 1 \in 0..N
    BY <1>2
  <2> DEFINE T == {k \in Nat : k \in 0..N => f[k] \subseteq Blocks(ds)}
  <2>2. 0 \in T
    BY <1>1, Zenon DEF Reaches, Holding
  <2>3. ASSUME NEW k \in Nat, k \in T PROVE k + 1 \in T
    <3> SUFFICES ASSUME k + 1 \in 0..N PROVE f[k + 1] \subseteq Blocks(ds)
      OBVIOUS
    <3>1. k + 1 \in 1..N /\ (k + 1) - 1 = k /\ k \in 0..N
      BY <1>2
    <3>2. f[k + 1] = Grow(ds, m, f[k])
      BY <1>1, <3>1, Zenon DEF Reaches
    <3> QED BY <2>3, <3>1, <3>2, Zenon DEF Grow, Holding
  <2>4. Nat \subseteq T
    <3> HIDE DEF T
    <3> QED BY <2>2, <2>3, SetInduction, Zenon
  <2> QED BY <1>2, <2>4
<1>5. \A n \in 0..N, k \in 0..N : n <= k => f[n] \subseteq f[k]
  <2> SUFFICES ASSUME NEW n \in 0..N PROVE \A k \in 0..N : n <= k => f[n] \subseteq f[k]
    BY Zenon
  <2> DEFINE T == {k \in Nat : k \in 0..N /\ n <= k => f[n] \subseteq f[k]}
  <2>1. 0 \in T
    <3>1. n <= 0 => n = 0
      BY <1>2
    <3> QED BY <3>1, Zenon
  <2>2. ASSUME NEW k \in Nat, k \in T PROVE k + 1 \in T
    <3> SUFFICES ASSUME k + 1 \in 0..N, n <= k + 1 PROVE f[n] \subseteq f[k + 1]
      OBVIOUS
    <3>1. k + 1 \in 1..N /\ (k + 1) - 1 = k /\ k \in 0..N /\ (n = k + 1 \/ n <= k)
      BY <1>2
    <3>2. f[k + 1] = Grow(ds, m, f[k])
      BY <1>1, <3>1, Zenon DEF Reaches
    <3>3. CASE n = k + 1
      BY <3>3, Zenon
    <3>4. CASE n <= k
      BY <2>2, <3>1, <3>2, <3>4, Zenon DEF Grow
    <3> QED BY <3>1, <3>3, <3>4, Zenon
  <2>3. Nat \subseteq T
    <3> HIDE DEF T
    <3> QED BY <2>1, <2>2, SetInduction, Zenon
  <2> QED BY <1>2, <2>3
\* A pointer in a block found after n steps leads to a block not yet found.
<1> DEFINE Fresh(w, n) == /\ m[w] \notin X /\ m[w] \notin Starts(f[n])
                          /\ \E a \in f[n] : w \in WordsOf(a)
<1>6. ASSUME NEW n \in 0..N, NEW w, Fresh(w, n) PROVE w \in P
  <2>1. PICK a \in f[n] : w \in WordsOf(a)
    BY <1>6, Zenon
  <2>2. w \in Words
    BY <1>3, <1>4, <2>1, Zenon
  <2> QED BY <1>6, <2>2, Zenon
<1>7. ASSUME NEW n \in 0..N, n < N, NEW w, Fresh(w, n) PROVE m[w] \in Starts(f[n + 1])
  <2>1. m[w] \in Starts(Blocks(ds))
    BY <1>6, <1>7, Zenon
  <2>2. PICK b \in Blocks(ds) : m[w] = b.start
    BY <2>1, Zenon DEF Starts
  <2>3. b \in Holding(ds, {m[v] : v \in AllWords(f[n])})
    <3>1. w \in AllWords(f[n])
      BY <1>7, Zenon DEF AllWords
    <3>2. m[w] \in WordsOf(b)
      BY <1>3, <2>2, Zenon
    <3> QED BY <3>1, <3>2 DEF Holding
  <2>4. n + 1 \in 1..N /\ (n + 1) - 1 = n
    BY <1>2, <1>7
  <2>5. f[n + 1] = Grow(ds, m, f[n])
    BY <1>1, <2>4, Zenon DEF Reaches
  <2> QED BY <2>2, <2>3, <2>5, Zenon DEF Grow, Starts
<1>8. ASSUME NEW n \in 0..N, \A w : ~Fresh(w, n) PROVE Grow(ds, m, f[n]) = f[n]
  <2> SUFFICES ASSUME NEW b \in Holding(ds, {m[v] : v \in AllWords(f[n])}) PROVE b \in f[n]
    BY Zenon DEF Grow
  <2>1. PICK w \in AllWords(f[n]) : m[w] \in WordsOf(b)
    BY Zenon DEF Holding
  <2>2. PICK a \in f[n] : w \in WordsOf(a)
    BY Zenon DEF AllWords
  <2>3. b \in Blocks(ds)
    BY Zenon DEF Holding
  <2>4. m[w] \notin X
    BY <2>1, <2>3, Zenon
  <2>5. m[w] \in Starts(f[n])
    BY <1>8, <2>2, <2>4, Zenon
  <2> QED BY <1>4, <2>1, <2>3, <2>5, StartsOf, Zenon
<1>9. ASSUME NEW n \in 0..N, \A w : ~Fresh(w, n) PROVE f[N] = f[n]
  <2> DEFINE T == {k \in Nat : k \in 0..N /\ n <= k => f[k] = f[n]}
  <2>1. 0 \in T
    <3>1. n <= 0 => n = 0
      BY <1>2
    <3> QED BY <3>1, Zenon
  <2>2. ASSUME NEW k \in Nat, k \in T PROVE k + 1 \in T
    <3> SUFFICES ASSUME k + 1 \in 0..N, n <= k + 1 PROVE f[k + 1] = f[n]
      OBVIOUS
    <3>1. k + 1 \in 1..N /\ (k + 1) - 1 = k /\ k \in 0..N /\ (n = k + 1 \/ n <= k)
      BY <1>2
    <3>2. f[k + 1] = Grow(ds, m, f[k])
      BY <1>1, <3>1, Zenon DEF Reaches
    <3>3. CASE n = k + 1
      BY <3>3, Zenon
    <3>4. CASE n <= k
      <4>1. f[k] = f[n]
        BY <2>2, <3>1, <3>4, Zenon
      <4>2. Grow(ds, m, f[n]) = f[n]
        BY <1>8, <1>9, Zenon
      <4> QED BY <3>2, <4>1, <4>2, Zenon
    <3> QED BY <3>1, <3>3, <3>4, Zenon
  <2>3. Nat \subseteq T
    <3> HIDE DEF T
    <3> QED BY <2>1, <2>2, SetInduction, Zenon
  <2>4. N \in 0..N /\ n <= N
    BY <1>2
  <2> QED BY <1>2, <2>3, <2>4, Zenon
<1>10. ASSUME NEW v, Fresh(v, N) PROVE FALSE
  <2>1. \A n \in 0..N : \E w : Fresh(w, n)
    <3> SUFFICES ASSUME NEW n \in 0..N, \A w : ~Fresh(w, n) PROVE FALSE
      BY Zenon
    <3>1. f[N] = f[n]
      BY <1>9, Zenon
    <3> QED BY <1>10, <3>1, Zenon
  <2> DEFINE pick(n) == CHOOSE w : Fresh(w, n)
             g == [n \in 0..N |-> pick(n)]
  <2>2. \A n \in 0..N : Fresh(g[n], n)
    <3> SUFFICES ASSUME NEW n \in 0..N PROVE Fresh(g[n], n)
      BY Zenon
    <3>1. Fresh(pick(n), n)
      <4> HIDE DEF Fresh
      <4> QED BY <2>1, Zenon
    <3> HIDE DEF pick
    <3>2. g[n] = pick(n)
      BY Zenon
    <3> QED BY <3>1, <3>2, Zenon
  <2>3. g \in [0..N -> P]
    <3>1. \A n \in 0..N : g[n] \in P
      BY <1>6, <2>2, Zenon
    <3> HIDE DEF pick
    <3>2. g = [n \in 0..N |-> g[n]]
      BY Zenon
    <3> HIDE DEF g, P
    <3> QED BY <3>1, <3>2, Zenon
  <2> HIDE DEF g, P
  <2>4. ASSUME NEW i \in 0..N, NEW j \in 0..N, i < j, g[i] = g[j] PROVE FALSE
    <3>1. i < N /\ i + 1 \in 0..N /\ i + 1 <= j
      BY <1>2, <2>4
    <3>2. m[g[i]] \in Starts(f[i + 1])
      BY <1>7, <2>2, <3>1, Zenon
    <3>3. f[i + 1] \subseteq f[j]
      BY <1>5, <3>1, Zenon
    <3>4. m[g[j]] \in Starts(f[j])
      BY <2>4, <3>2, <3>3, Zenon DEF Starts
    <3> QED BY <2>2, <3>4, Zenon
  <2>5. IsFiniteSet(0..N) /\ Cardinality(0..N) = N + 1
    BY <1>2, FS_Interval
  <2>6. IsFiniteSet(P) /\ Cardinality(P) <= N /\ Cardinality(P) \in Nat
    <3>1. IsFiniteSet(Words)
      BY FS_Interval, Constants DEF Words
    <3>2. IsFiniteSet(P)
      BY <3>1, FS_Subset, Zenon DEF P
    <3> QED BY <3>2, FS_CardinalityType, Zenon DEF P
  <2>7. Cardinality(P) < Cardinality(0..N)
    BY <1>2, <2>5, <2>6
  <2>8. PICK i \in 0..N, j \in 0..N : i # j /\ g[i] = g[j]
    <3> DEFINE I == 0..N
    <3>1. g \in [I -> P] /\ IsFiniteSet(I) /\ IsFiniteSet(P) /\ Cardinality(P) < Cardinality(I)
      BY <2>3, <2>5, <2>6, <2>7, Zenon
    <3> HIDE DEF I
    <3>2. \E i, j \in I : i # j /\ g[i] = g[j]
      BY <3>1, FS_PigeonHole, SMT
    <3> QED BY <3>2, Zenon DEF I
  <2>9. i < j \/ j < i
    BY <1>2, <2>8
  <2> QED BY <2>4, <2>8, <2>9, Zenon
<1>11. R \subseteq Blocks(ds)
  <2>1. N \in 0..N
    BY <1>2
  <2> QED BY <1>1, <1>4, <2>1, Zenon
<1>12. \A k \in 0..N : f[k] \subseteq R
  <2>1. \A k \in 0..N : N \in 0..N /\ k <= N
    BY <1>2
  <2> QED BY <1>1, <1>5, <2>1, Zenon
<1>13. ASSUME NEW i \in RootIdx PROVE rs[i] \in Starts(R) \cup X
  <2> SUFFICES ASSUME rs[i] \notin X PROVE rs[i] \in Starts(R)
    BY Zenon
  <2>1. PICK b \in Blocks(ds) : rs[i] = b.start
    BY Zenon DEF Starts
  <2>2. b \in Holding(ds, Range(rs))
    BY <1>3, <2>1, Zenon DEF Holding, Range
  <2>3. f[0] \subseteq R /\ f[0] = Holding(ds, Range(rs))
    <3>1. 0 \in 0..N
      BY <1>2
    <3> QED BY <1>1, <1>12, <3>1, Zenon DEF Reaches
  <2> QED BY <2>1, <2>2, <2>3, Zenon DEF Starts
<1>14. ASSUME NEW w \in AllWords(R) PROVE m[w] \in Starts(R) \cup X
  BY <1>1, <1>10, Zenon DEF AllWords
<1>15. ASSUME NEW S \in SUBSET Starts(R), ClosedUnder(S, R, m, rs) PROVE S = Starts(R)
  <2> DEFINE T == {k \in Nat : k \in 0..N => Starts(f[k]) \subseteq S}
  <2>0. ASSUME NEW b \in R, NEW p \in Starts(Blocks(ds)) \cup X, p \in WordsOf(b)
        PROVE  p = b.start /\ p \in Starts(R)
    <3>1. b \in Blocks(ds)
      BY <1>11, Zenon
    <3>2. p \in Starts(Blocks(ds))
      BY <2>0, <3>1, Zenon
    <3>3. Blocks(ds) \in SUBSET Blocks(ds)
      BY Zenon
    <3>4. p = b.start
      BY <2>0, <3>1, <3>2, <3>3, StartsOf, SMT
    <3> QED BY <3>4, Zenon DEF Starts
  <2>1. 0 \in T
    <3> SUFFICES ASSUME NEW b \in f[0] PROVE b.start \in S
      BY Zenon DEF Starts
    <3>0. 0 \in 0..N
      BY <1>2
    <3>1. b \in R /\ WordsOf(b) \cap Range(rs) # {}
      BY <1>1, <1>12, <3>0, Zenon DEF Reaches, Holding
    <3>2. PICK i \in RootIdx : rs[i] \in WordsOf(b)
      BY <3>1, Zenon DEF Range
    <3>3. rs[i] = b.start /\ rs[i] \in Starts(R)
      BY <2>0, <3>1, <3>2, Zenon
    <3> QED BY <1>15, <3>3, Zenon DEF ClosedUnder
  <2>2. ASSUME NEW k \in Nat, k \in T PROVE k + 1 \in T
    <3> SUFFICES ASSUME k + 1 \in 0..N, NEW b \in f[k + 1] PROVE b.start \in S
      BY DEF Starts
    <3>1. k + 1 \in 1..N /\ (k + 1) - 1 = k /\ k \in 0..N
      BY <1>2
    <3>2. f[k + 1] = Grow(ds, m, f[k]) /\ f[k] \subseteq R /\ b \in R
      BY <1>1, <1>12, <3>1, Zenon DEF Reaches
    <3>3. \A a \in f[k] : a.start \in S
      BY <2>2, <3>1, Zenon DEF Starts
    <3>4. CASE b \in f[k]
      BY <3>3, <3>4, Zenon
    <3>5. CASE b \in Holding(ds, {m[w] : w \in AllWords(f[k])})
      <4>1. PICK w \in AllWords(f[k]) : m[w] \in WordsOf(b)
        BY <3>5, Zenon DEF Holding
      <4>2. PICK a \in f[k] : w \in WordsOf(a)
        BY Zenon DEF AllWords
      <4>3. a \in R /\ a.start \in S /\ w \in Words
        BY <1>3, <1>11, <3>2, <3>3, <4>2, Zenon
      <4>4. m[w] = b.start /\ m[w] \in Starts(R)
        BY <2>0, <3>2, <4>1, <4>3, Zenon
      <4> QED BY <1>15, <4>2, <4>3, <4>4, Zenon DEF ClosedUnder
    <3> QED BY <3>2, <3>4, <3>5, Zenon DEF Grow
  <2>3. Nat \subseteq T
    <3> HIDE DEF T
    <3> QED BY <2>1, <2>2, SetInduction, Zenon
  <2>4. N \in 0..N
    BY <1>2
  <2>5. Starts(R) \subseteq S
    BY <1>1, <1>2, <2>3, <2>4, Zenon
  <2> QED BY <2>5, Zenon
<1> QED BY <1>11, <1>13, <1>14, <1>15, Zenon DEF R

\* More blocks make more of them reachable.
LEMMA ReachableMore ==
  ASSUME NEW ds, NEW dd, Blocks(ds) \subseteq Blocks(dd), NEW m, NEW rs
  PROVE  Reachable(ds, m, rs) \subseteq Reachable(dd, m, rs)
<1> DEFINE N == MaxPtrs
<1>1. PICK f : Reaches(ds, m, rs, f, N) /\ Reachable(ds, m, rs) = f[N]
  BY ReachableIs, Zenon
<1>2. PICK g : Reaches(dd, m, rs, g, N) /\ Reachable(dd, m, rs) = g[N]
  BY ReachableIs, Zenon
<1>3. N \in Nat
  BY Constants, Zenon
<1> DEFINE T == {k \in Nat : k \in 0..N => f[k] \subseteq g[k]}
<1>4. 0 \in T
  BY <1>1, <1>2, Zenon DEF Reaches, Holding
<1>5. ASSUME NEW k \in Nat, k \in T PROVE k + 1 \in T
  <2> SUFFICES ASSUME k + 1 \in 0..N PROVE f[k + 1] \subseteq g[k + 1]
    OBVIOUS
  <2>1. k + 1 \in 1..N /\ (k + 1) - 1 = k /\ k \in 0..N
    BY <1>3
  <2>2. f[k + 1] = Grow(ds, m, f[k]) /\ g[k + 1] = Grow(dd, m, g[k])
    BY <1>1, <1>2, <2>1, Zenon DEF Reaches
  <2>3. AllWords(f[k]) \subseteq AllWords(g[k]) /\ f[k] \subseteq g[k]
    BY <1>5, <2>1, Zenon DEF AllWords
  <2> QED BY <2>2, <2>3, Zenon DEF Grow, Holding
<1>6. Nat \subseteq T
  <2> HIDE DEF T
  <2> QED BY <1>4, <1>5, SetInduction, Zenon
<1>7. N \in 0..N
  BY <1>3
<1> QED BY <1>1, <1>2, <1>3, <1>6, <1>7, Zenon

-----------------------------------------------------------------------------
(* The initial state *)

\* The heaps that recoveries start from are laid out as the invariant says.
LEMMA LayoutsOK ==
  ASSUME NEW ds \in Layouts
  PROVE  LayoutOK(ds)
<1> DEFINE kinds == {<<"free", 0>>} \cup ({"small"} \X Classes) \cup ({"large"} \X LargeSbs)
           of(s, k) == CASE k[1] = "free" -> Descriptor
                         [] k[1] = "small" -> SmallDesc(s, k[2])
                         [] k[1] = "large" -> LargeDesc(s, k[2])
<1>1. PICK k \in [Sbs -> kinds] :
        /\ \A s \in Sbs : k[s][1] = "large" =>
             /\ s > 1 /\ s + k[s][2] <= EndSb
             /\ \A r \in (s + 1)..(s + k[s][2] - 1) : k[r][1] = "free"
        /\ ds = [s \in Sbs |-> of(s, k[s])]
  BY Zenon DEF Layouts
<1>2. ds = [s \in Sbs |-> ds[s]] /\ \A s \in Sbs : ds[s] = of(s, k[s])
  BY <1>1
<1>3. ASSUME NEW s \in Sbs
      PROVE  \/ k[s][1] = "free" /\ ds[s] = Descriptor
             \/ k[s][1] = "small" /\ k[s][2] \in Classes /\ ds[s] = SmallDesc(s, k[s][2])
             \/ k[s][1] = "large" /\ k[s][2] \in LargeSbs /\ ds[s] = LargeDesc(s, k[s][2])
  <2>1. k[s] \in kinds
    BY Zenon
  <2>2. \/ k[s][1] = "free"
        \/ k[s][1] = "small" /\ k[s][2] \in Classes
        \/ k[s][1] = "large" /\ k[s][2] \in LargeSbs
    BY <2>1
  <2> DEFINE x == k[s]
  <2>3. ds[s] = of(s, x)
    BY <1>2, Zenon
  <2> HIDE DEF x
  <2>4. /\ x[1] = "free" => of(s, x) = Descriptor
        /\ x[1] = "small" => of(s, x) = SmallDesc(s, x[2])
        /\ x[1] = "large" => of(s, x) = LargeDesc(s, x[2])
    BY Zenon
  <2> HIDE DEF of
  <2> QED BY <2>2, <2>3, <2>4, Zenon DEF x
<1> HIDE DEF of, kinds
<1>4. ASSUME NEW s \in Sbs
      PROVE  \/ ds[s] = Descriptor
             \/ \E c \in Classes : ds[s] = SmallDesc(s, c)
             \/ \E n \in LargeSbs : /\ ds[s] = LargeDesc(s, n) /\ s + n <= EndSb
                                    /\ \A r \in (s + 1)..(s + n - 1) : ds[r] = Descriptor
  <2>1. CASE k[s][1] = "large"
    <3> DEFINE n == k[s][2]
    <3>1. n \in LargeSbs /\ ds[s] = LargeDesc(s, n)
      BY <1>3, <2>1, Zenon
    <3>2. s + n <= EndSb /\ \A r \in (s + 1)..(s + n - 1) : k[r][1] = "free"
      BY <1>1, <2>1, Zenon
    <3> HIDE DEF n
    <3>3. s \in Nat /\ n \in Nat /\ EndSb \in Nat /\ s >= 1
      BY <3>1, Constants DEF Sbs
    <3>4. (s + 1)..(s + n - 1) \subseteq Sbs
      BY <3>2, <3>3 DEF Sbs
    <3>5. \A r \in (s + 1)..(s + n - 1) : ds[r] = Descriptor
      BY <1>3, <3>2, <3>4, Zenon
    <3> QED BY <3>1, <3>2, <3>5, Zenon
  <2>2. CASE k[s][1] # "large"
    BY <1>3, <2>2, Zenon
  <2> QED BY <2>1, <2>2, Zenon
<1> QED BY <1>2, <1>4, Zenon DEF LayoutOK

\* Starts of blocks are pointers.
LEMMA PointedIn ==
  ASSUME NEW ds, LayoutOK(ds)
  PROVE  Starts(Blocks(ds)) \cup {null} \subseteq Pointer
BY StartsOf, PointersIn, Zenon

\* The invariant holds in the beginning.
LEMMA InitInv ==
  ASSUME Init
  PROVE  IInv
<1>1. LayoutOK(desc)
  BY LayoutsOK, Zenon DEF Init
<1>2. phase = "running" /\ pdesc = SmallOnly(desc)
  BY Zenon DEF Init
<1>3. RunOK
  <2>1. {w \in Words : mem[w] # null} = {}
    BY Zenon DEF Init
  <2>2. Cardinality({w \in Words : mem[w] # null}) <= MaxPtrs
    BY <2>1, FS_EmptySet, Constants
  <2> QED BY <2>2, Zenon DEF Init, RunOK, Pointed
<1>4. TypeOK
  BY PointersIn, Constants DEF Init, TypeOK, NoAnchor, Anchor
<1> QED BY <1>1, <1>2, <1>3, <1>4, Zenon DEF Init, IInv, DescInv

-----------------------------------------------------------------------------
(* The application *)

\* The application stores null and starts of blocks.
LEMMA TargetsPointed ==
  ASSUME Interior \subseteq {0}, LayoutOK(desc), NEW p \in Targets
  PROVE  p \in Pointed
<1>1. p \in Starts(Blocks(desc)) \/ \E b \in Blocks(desc) : p = b.start + 0
  BY DEF Targets, Starts
<1>2. \A b \in Blocks(desc) : b.start + 0 = b.start
  <2>1. \A b \in Blocks(desc) : b.start \in Nat
    BY BlockFacts, Constants, Zenon
  <2> QED BY <2>1
<1> QED BY <1>1, <1>2, Zenon DEF Pointed, Starts

\* A root is set.
LEMMA SetRootInv ==
  ASSUME Interior \subseteq {0}, IInv, NEW i \in RootIdx, NEW p \in Targets, set_root(i, p)
  PROVE  IInv'
<1>1. phase = "running" /\ phase' = "running" /\ roots' = [roots EXCEPT ![i] = p]
  BY Zenon DEF set_root
<1>2. UNCHANGED <<desc, pdesc, mem, pmem, marked_blk, rest, curr_sb, anchor>>
  BY Zenon DEF set_root, heap, lists, marking, sweeping, curr
<1>3. LayoutOK(desc) /\ p \in Pointed /\ RunOK /\ TypeOK
  BY <1>1, TargetsPointed, Zenon DEF IInv, DescInv
<1>4. RunOK'
  BY <1>1, <1>2, <1>3, Zenon DEF RunOK, Pointed
<1>5. TypeOK'
  <2>1. p \in Pointer
    BY <1>3, PointedIn, Zenon DEF Pointed
  <2> QED BY <1>1, <1>2, <1>3, <2>1, Zenon DEF TypeOK
<1> QED BY <1>1, <1>2, <1>4, <1>5, Zenon DEF IInv, DescInv

\* The application stores a pointer to a block it can reach.
LEMMA StoreInv ==
  ASSUME Interior \subseteq {0}, IInv, NEW w \in Words, NEW p \in Targets, Store(w, p)
  PROVE  IInv'
<1>1. /\ phase = "running" /\ phase' = "running"
      /\ mem' = [mem EXCEPT ![w] = p] /\ pmem' = [pmem EXCEPT ![w] = p]
      /\ Cardinality({v \in Words \ {w} : mem[v] # null}) < MaxPtrs
  BY Zenon DEF Store
<1>2. UNCHANGED <<desc, pdesc, roots, marked_blk, rest, curr_sb, anchor>>
  BY Zenon DEF Store, lists, marking, sweeping, curr
<1>3. LayoutOK(desc) /\ p \in Pointed /\ RunOK /\ TypeOK
  BY <1>1, TargetsPointed, Zenon DEF IInv, DescInv
<1>4. mem' \in [Words -> Pointed] /\ pmem' = mem'
  BY <1>1, <1>3, Zenon DEF RunOK
<1>5. Cardinality({v \in Words : mem'[v] # null}) <= MaxPtrs
  <2> DEFINE X == {v \in Words \ {w} : mem[v] # null}
             Y == {v \in Words : mem'[v] # null}
  <2>1. Y \subseteq X \cup {w}
    BY <1>1, <1>3, Zenon DEF RunOK
  <2>2. IsFiniteSet(Words)
    BY FS_Interval, Constants DEF Words
  <2>3. IsFiniteSet(X) /\ w \notin X
    BY <2>2, FS_Subset, Zenon
  <2>4. Cardinality(X) < MaxPtrs
    BY <1>1, Zenon
  <2> HIDE DEF X, Y
  <2>5. /\ IsFiniteSet(X \cup {w}) /\ Cardinality(X \cup {w}) = Cardinality(X) + 1
        /\ Cardinality(X) \in Nat
    BY <2>3, FS_AddElement, FS_CardinalityType, Zenon
  <2>6. Cardinality(Y) <= Cardinality(X \cup {w}) /\ IsFiniteSet(Y)
    BY <2>1, <2>5, FS_Subset, Zenon
  <2>7. Cardinality(Y) \in Nat
    BY <2>6, FS_CardinalityType, Zenon
  <2>8. Cardinality(Y) <= MaxPtrs
    BY <2>4, <2>5, <2>6, <2>7, Constants
  <2> QED BY <2>8, Zenon DEF Y
<1>6. RunOK'
  BY <1>2, <1>3, <1>4, <1>5, Zenon DEF RunOK, Pointed
<1>7. TypeOK'
  <2>1. p \in Pointer
    BY <1>3, PointedIn, Zenon DEF Pointed
  <2> QED BY <1>1, <1>2, <1>3, <2>1, Zenon DEF TypeOK
<1> QED BY <1>1, <1>2, <1>6, <1>7, Zenon DEF IInv, DescInv

-----------------------------------------------------------------------------
(* Crashes *)

\* What survives is one of the copies, word by word.
LEMMA SurvivorsAre ==
  ASSUME NEW new, NEW old, NEW g \in Survivors(new, old)
  PROVE  /\ g = [a \in DOMAIN new |-> g[a]]
         /\ \A a \in DOMAIN new : g[a] = new[a] \/ g[a] = old[a]
BY Zenon DEF Survivors

\* A crash leaves descriptors as they are, but for some of large blocks.
LEMMA CrashDescs ==
  ASSUME LayoutOK(desc), pdesc = desc \/ pdesc = SmallOnly(desc), Crash
  PROVE  /\ desc' = [s \in Sbs |-> desc'[s]]
         /\ \A s \in Sbs : \/ desc'[s] = desc[s]
                           \/ desc'[s] = Descriptor /\ desc[s].heap = LargeHeap
         /\ pdesc = desc => desc' = desc
<1>1. desc = [s \in Sbs |-> desc[s]]
  BY Zenon DEF LayoutOK
<1>2. CASE PowerFails
  <2>1. desc' \in Survivors(desc, pdesc)
    BY <1>2, Zenon DEF Crash
  <2>2. /\ desc' = [s \in Sbs |-> desc'[s]]
        /\ \A s \in Sbs : desc'[s] = desc[s] \/ desc'[s] = pdesc[s]
    <3>1. DOMAIN desc = Sbs
      BY <1>1, Zenon
    <3> QED BY <2>1, <3>1, SurvivorsAre, SMT
  <2>3. \A s \in Sbs : SmallOnly(desc)[s] = IF desc[s].heap = LargeHeap THEN Descriptor ELSE desc[s]
    BY Zenon DEF SmallOnly
  <2>4. pdesc = desc => desc' = desc
    BY <1>1, <2>2, Zenon
  <2> QED BY <2>2, <2>3, <2>4, Zenon
<1>3. CASE ~PowerFails
  <2>1. desc' = desc
    BY <1>3, Zenon DEF Crash
  <2> QED BY <1>1, <2>1, Zenon
<1> QED BY <1>2, <1>3, Zenon

\* A pointer to a large block that was lost dangles.
LEMMA LostDangle ==
  ASSUME NEW ds, LayoutOK(ds), NEW dd, dd = [s \in Sbs |-> dd[s]],
         \A s \in Sbs : dd[s] = ds[s] \/ (dd[s] = Descriptor /\ ds[s].heap = LargeHeap),
         NEW p \in Starts(Blocks(ds))
  PROVE  p \in Starts(Blocks(dd)) \cup Dangling(dd)
<1>1. PICK b \in Blocks(ds) : p = b.start
  BY Zenon DEF Starts
<1> DEFINE s == desc_lookup(b.start)
<1>2. \A a : a \in Blocks(dd) <=> a \in Blocks(ds) /\ dd[desc_lookup(a.start)] # Descriptor
  BY DropSbs, Zenon
<1>3. CASE dd[s] # Descriptor
  BY <1>1, <1>2, <1>3, Zenon DEF Starts
<1>4. CASE dd[s] = Descriptor
  <2>1. PICK r \in Sbs, i \in Nat : BlockIn(ds, b, r, i)
    BY BlockShape, Zenon
  <2>2. r = s /\ i < ds[r].maxcount /\ b.start = r * SBSIZE + i * ds[r].block_size
    BY <2>1, Zenon DEF BlockIn
  <2>3. Shape(ds, r)
    BY Shapes, Zenon
  <2>4. ds[r].maxcount = 1 /\ ds[r].block_size \in Nat
    <3>1. ds[r] # Descriptor
      BY <2>2 DEF Descriptor
    <3>2. ds[r].heap = LargeHeap
      BY <1>4, <2>2, <3>1, Zenon
    <3> QED BY <2>3, <3>2, Zenon DEF Shape
  <2>5. p = r * SBSIZE
    <3>1. i = 0 /\ r \in Nat
      BY <2>2, <2>4, Constants
    <3> QED BY <1>1, <2>2, <2>4, <3>1, Constants
  <2>6. \A a \in Blocks(dd) : p \notin WordsOf(a)
    <3> SUFFICES ASSUME NEW a \in Blocks(dd), p \in WordsOf(a) PROVE FALSE
      BY Zenon
    <3>1. a \in Blocks(ds) /\ dd[desc_lookup(a.start)] # Descriptor
      BY <1>2, Zenon
    <3>2. p \in WordsOf(b)
      BY <1>1, BlockFacts, Zenon
    <3>3. a = b
      BY <3>1, <3>2, OneBlock, Zenon
    <3> QED BY <1>4, <3>1, <3>3, Zenon
  <2> QED BY <1>4, <2>2, <2>5, <2>6, Zenon DEF Dangling, AllWords
<1> QED BY <1>3, <1>4, Zenon

\* A crash loses no small block.
LEMMA SmallBlocks ==
  ASSUME NEW ds, LayoutOK(ds), NEW dd, dd = [s \in Sbs |-> dd[s]],
         \A s \in Sbs : dd[s] = ds[s] \/ (dd[s] = Descriptor /\ ds[s].heap = LargeHeap)
  PROVE  Blocks(SmallOnly(ds)) \subseteq Blocks(dd)
<1> DEFINE so == SmallOnly(ds)
<1>1. /\ so = [s \in Sbs |-> so[s]]
      /\ \A s \in Sbs : so[s] = IF ds[s].heap = LargeHeap THEN Descriptor ELSE ds[s]
  BY Zenon DEF SmallOnly
<1> HIDE DEF so
<1>2. \A b : b \in Blocks(so) <=> b \in Blocks(ds) /\ so[desc_lookup(b.start)] # Descriptor
  <2>1. \A s \in Sbs : so[s] = ds[s] \/ so[s] = Descriptor
    BY <1>1, Zenon
  <2> QED BY <1>1, <2>1, DropSbs, Zenon
<1>3. \A b : b \in Blocks(dd) <=> b \in Blocks(ds) /\ dd[desc_lookup(b.start)] # Descriptor
  BY DropSbs, Zenon
<1>4. ASSUME NEW b \in Blocks(so) PROVE b \in Blocks(dd)
  <2>1. b \in Blocks(ds) /\ so[desc_lookup(b.start)] # Descriptor
    BY <1>2, Zenon
  <2>2. desc_lookup(b.start) \in Sbs
    BY <2>1, BlockShape, Zenon DEF BlockIn
  <2> QED BY <1>1, <1>3, <2>1, <2>2, Zenon
<1> QED BY <1>4, Zenon DEF so

\* Dangling pointers and null lead to no block.
LEMMA NoBlockAt ==
  ASSUME NEW ds, LayoutOK(ds), NEW b \in Blocks(ds)
  PROVE  WordsOf(b) \cap (Dangling(ds) \cup {null}) = {}
<1>1. null \notin WordsOf(b)
  BY BlockFacts, PointersIn, Zenon
<1> QED BY <1>1, DanglingFacts, Zenon

\* In the beginning, and while the application runs, no word is lost.
LEMMA CrashWords ==
  ASSUME TypeOK, Crash
  PROVE  mem' \in [Words -> Pointer] /\ \A a \in Words : pmem[a] = mem[a] => mem'[a] = mem[a]
<1>1. CASE PowerFails
  <2>1. mem' \in Survivors(mem, pmem)
    BY <1>1, Zenon DEF Crash
  <2>2. /\ mem = [a \in Words |-> mem[a]]
        /\ \A a \in Words : mem[a] \in Pointer /\ pmem[a] \in Pointer
    BY Zenon DEF TypeOK
  <2>3. mem' = [a \in Words |-> mem'[a]] /\ \A a \in Words : mem'[a] = mem[a] \/ mem'[a] = pmem[a]
    <3>1. DOMAIN mem = Words
      BY <2>2, Zenon
    <3> QED BY <2>1, <3>1, SurvivorsAre, SMT
  <2> QED BY <2>2, <2>3, Zenon
<1>2. CASE ~PowerFails
  BY <1>2, Zenon DEF Crash, TypeOK
<1> QED BY <1>1, <1>2, Zenon

\* The application's pointers after a crash.
LEMMA CrashReaches ==
  ASSUME IInv, Crash, phase = "running"
  PROVE  LET R == Reachable(desc', mem, roots)
             X == Dangling(desc') \cup {null} IN
         /\ mem' = mem /\ kept' = R /\ kept_words' = {<<w, mem'[w]>> : w \in AllWords(R)}
         /\ LayoutOK(desc') /\ R \subseteq Blocks(desc')
         /\ \A i \in RootIdx : roots[i] \in Starts(R) \cup X
         /\ \A w \in AllWords(R) : mem[w] \in Starts(R) \cup X
         /\ \A S \in SUBSET Starts(R) : ClosedUnder(S, R, mem, roots) => S = Starts(R)
<1>1. TypeOK /\ LayoutOK(desc) /\ pdesc = SmallOnly(desc) /\ RunOK
  BY Zenon DEF IInv, DescInv
<1>2. mem' = mem
  <2>1. /\ mem' \in [Words -> Pointer] /\ \A a \in Words : mem'[a] = mem[a]
    BY <1>1, CrashWords, Zenon DEF RunOK
  <2> QED BY <1>1, <2>1 DEF TypeOK
<1>3. kept' = Reachable(desc', mem, roots) /\ kept_words' = {<<w, mem'[w]>> : w \in AllWords(kept')}
  BY <1>2, Zenon DEF Crash
<1> DEFINE dd == desc'
           X == Dangling(dd) \cup {null}
<1>4. /\ dd = [s \in Sbs |-> dd[s]]
      /\ \A s \in Sbs : dd[s] = desc[s] \/ (dd[s] = Descriptor /\ desc[s].heap = LargeHeap)
  BY <1>1, CrashDescs, Zenon
<1>5. LayoutOK(dd)
  <2>1. \A s \in Sbs : dd[s] = desc[s] \/ dd[s] = Descriptor
    BY <1>4, Zenon
  <2> QED BY <1>1, <1>4, <2>1, DropSbs, Zenon
<1>6. Pointed \subseteq Starts(Blocks(dd)) \cup X
  BY <1>1, <1>4, LostDangle, Zenon DEF Pointed
<1>7. mem \in [Words -> Starts(Blocks(dd)) \cup X] /\ roots \in [RootIdx -> Starts(Blocks(dd)) \cup X]
  BY <1>1, <1>6, Zenon DEF RunOK
<1>8. null \in X /\ \A b \in Blocks(dd) : WordsOf(b) \cap X = {}
  BY <1>5, NoBlockAt, Zenon
<1>9. Cardinality({w \in Words : mem[w] # null}) <= MaxPtrs
  BY <1>1, Zenon DEF RunOK
<1> HIDE DEF dd, X
<1>10. LET R == Reachable(dd, mem, roots) IN
       /\ R \subseteq Blocks(dd)
       /\ \A i \in RootIdx : roots[i] \in Starts(R) \cup X
       /\ \A w \in AllWords(R) : mem[w] \in Starts(R) \cup X
       /\ \A S \in SUBSET Starts(R) : ClosedUnder(S, R, mem, roots) => S = Starts(R)
  BY <1>5, <1>7, <1>8, <1>9, ReachableClosed, Zenon
<1> QED BY <1>2, <1>3, <1>5, <1>10, Zenon DEF dd, X

\* A crash, while the application or the collector runs.
LEMMA CrashInv ==
  ASSUME IInv, Crash
  PROVE  IInv'
<1>0. TypeOK /\ DescInv
  BY Zenon DEF IInv
<1>1. /\ phase' = "crashed" /\ phase \in {"running", "mark", "filter", "sweep"}
      /\ Unmarked' /\ rest' = {} /\ curr_sb' = 1
      /\ UNCHANGED <<roots, avail_sb, partial_list, anchor>>
      /\ pmem' = mem' /\ pdesc' = desc'
  BY Zenon DEF Crash, Unmarked, StartSb, lists
<1>2. mem' \in [Words -> Pointer] /\ \A a \in Words : pmem[a] = mem[a] => mem'[a] = mem[a]
  BY <1>0, CrashWords, Zenon
<1>3. ASSUME phase = "running" PROVE KeptOK' /\ DescInv'
  <2> DEFINE R == Reachable(desc', mem, roots)
  <2>1. /\ mem' = mem /\ kept' = R /\ kept_words' = {<<w, mem'[w]>> : w \in AllWords(R)}
        /\ LayoutOK(desc') /\ R \subseteq Blocks(desc')
        /\ \A i \in RootIdx : roots[i] \in Starts(R) \cup (Dangling(desc') \cup {null})
        /\ \A w \in AllWords(R) : mem[w] \in Starts(R) \cup (Dangling(desc') \cup {null})
        /\ \A S \in SUBSET Starts(R) : ClosedUnder(S, R, mem, roots) => S = Starts(R)
    BY <1>3, CrashReaches, Zenon
  <2> HIDE DEF R
  <2>2. KeptOK'
    BY <1>1, <2>1, Zenon DEF KeptOK, KeptStarts, Reads
  <2> QED BY <1>1, <2>1, <2>2, Zenon DEF DescInv
<1>4. ASSUME phase # "running" PROVE KeptOK' /\ DescInv'
  <2>1. KeptOK /\ LayoutOK(desc) /\ pdesc = desc
    BY <1>0, <1>4, Zenon DEF IInv, DescInv
  <2>2. kept' = kept /\ kept_words' = kept_words
    BY <1>4, Zenon DEF Crash
  <2>3. desc' = desc
    BY <2>1, CrashDescs, Zenon
  <2>4. AllWords(kept) \subseteq Words
    BY <2>1, KeptPointers, Zenon
  <2>5. \A w \in AllWords(kept) : mem'[w] = mem[w] /\ pmem'[w] = mem[w]
    BY <1>1, <1>2, <2>1, <2>4, Zenon DEF KeptOK
  <2>6. kept \subseteq Blocks(desc') /\ Dangling(desc) \subseteq Dangling(desc')
    BY <2>1, <2>3, Zenon DEF KeptOK
  <2>7. KeptOK'
    BY <1>1, <2>1, <2>2, <2>5, <2>6, KeptFrame, Zenon
  <2> QED BY <1>1, <2>1, <2>3, <2>7, Zenon DEF DescInv
<1>5. TypeOK'
  <2>1. 1 \in 1..EndSb
    BY Constants
  <2> QED BY <1>0, <1>1, <1>2, <2>1, Zenon DEF TypeOK, Unmarked
<1>6. KeptOK' /\ DescInv'
  BY <1>3, <1>4, Zenon
<1> QED BY <1>1, <1>5, <1>6, Zenon DEF IInv

\* What the application reaches are blocks.
LEMMA ReachableIn ==
  ASSUME LayoutOK(desc), RunOK
  PROVE  Reachable(desc, mem, roots) \subseteq Blocks(desc)
<1> DEFINE X == {null}
<1>1. null \in X /\ \A b \in Blocks(desc) : WordsOf(b) \cap X = {}
  BY NoBlockAt, Zenon
<1>2. /\ mem \in [Words -> Starts(Blocks(desc)) \cup X]
      /\ roots \in [RootIdx -> Starts(Blocks(desc)) \cup X]
      /\ Cardinality({w \in Words : mem[w] # null}) <= MaxPtrs
  BY Zenon DEF RunOK, Pointed
<1> HIDE DEF X
<1> QED BY <1>1, <1>2, ReachableClosed, Zenon

\* Every step of the application, the collector and a crash keeps the invariant.
LEMMA NextInv ==
  ASSUME Interior \subseteq {0}, IInv, [Next]_vars
  PROVE  IInv'
<1>1. CASE Application
  <2>1. CASE \E i \in RootIdx, p \in Targets : set_root(i, p)
    BY <2>1, SetRootInv, Zenon
  <2>2. CASE \E b \in Reachable(desc, mem, roots) : \E w \in WordsOf(b), p \in Targets : Store(w, p)
    <3>0. PICK b \in Reachable(desc, mem, roots) :
                 \E w \in WordsOf(b), p \in Targets : Store(w, p)
      BY <2>2, Zenon
    <3>1. PICK w \in WordsOf(b), p \in Targets : Store(w, p)
      BY <3>0, Zenon
    <3>2. phase = "running"
      BY <3>1, Zenon DEF Store
    <3>3. LayoutOK(desc) /\ RunOK
      BY <3>2, Zenon DEF IInv, DescInv
    <3>4. Reachable(desc, mem, roots) \subseteq Blocks(desc)
      BY <3>3, ReachableIn, Zenon
    <3>5. w \in Words
      BY <3>1, <3>3, <3>4, BlockFacts, Zenon
    <3> QED BY <3>1, <3>5, StoreInv, Zenon
  <2> QED BY <1>1, <2>1, <2>2, Zenon DEF Application
<1>2. CASE Collect
  BY <1>2, LeastNat, BeginInv, MarkRootInv, RootsMarkedInv, FilterNodeInv,
     FilterFuncInv, BeginSweepInv, LinkFreeInv, PassMarkInv, SweepEmptyInv,
     SweepLargeInv, SweepSmallInv, FinishInv, Zenon DEF Collect
<1>3. CASE Crash
  BY <1>3, CrashInv, Zenon
<1>4. CASE UNCHANGED vars
  BY <1>4, StutterInv, Zenon
<1> QED BY <1>1, <1>2, <1>3, <1>4, Zenon DEF Next

-----------------------------------------------------------------------------
(* What the collector guarantees *)

\* The theorems are about applications whose pointers point to the start of a
\* block: RP_malloc returns no other, and a pointer into the middle of a large
\* block is what recovery loses (MCRecovery_interior.cfg).
THEOREM IInvHolds ==
  ASSUME Interior \subseteq {0} PROVE Spec => []IInv
<1>1. Init => IInv
  BY InitInv, Zenon
<1>2. IInv /\ [Next]_vars => IInv'
  BY NextInv, Zenon
<1>3. QED
  BY <1>1, <1>2, PTL DEF Spec

\* Marks and links are addresses of the region, and anchors in the range of
\* their superblock (GarbageCollection::operator()).
THEOREM TypeCorrect ==
  ASSUME Interior \subseteq {0} PROVE Spec => []TypeOK
<1>1. IInv => TypeOK
  BY Zenon DEF IInv
<1>2. QED
  BY IInvHolds, <1>1, PTL

\* No assertion of the sweep fails: the free list starts at a block, and no
\* marked block is left over (GarbageCollection::operator()).
THEOREM AssertionsAlwaysHold ==
  ASSUME Interior \subseteq {0} PROVE Spec => []AssertionsHold
<1>1. IInv => AssertionsHold
  BY Zenon DEF IInv, AssertionsHold
<1>2. QED
  BY IInvHolds, <1>1, PTL

\* The links the sweep writes into free blocks, in this collection or in one
\* that crashed, are never in a block that was reachable.
THEOREM DataIsPreserved ==
  ASSUME Interior \subseteq {0} PROVE Spec => []DataPreserved
<1>1. IInv => DataPreserved
  <2> SUFFICES ASSUME IInv, phase # "running", NEW e \in kept_words PROVE mem[e[1]] = e[2]
    BY Zenon DEF DataPreserved
  <2>1. kept_words = {<<w, mem[w]>> : w \in AllWords(kept)}
    BY Zenon DEF IInv, KeptOK
  <2>2. PICK w \in AllWords(kept) : e = <<w, mem[w]>>
    BY <2>1, Zenon
  <2> QED BY <2>2, Zenon
<1>2. QED
  BY IInvHolds, <1>1, PTL

\* What the sweep has done when it is over.
LEMMA Recovered ==
  ASSUME IInv, phase = "recovered"
  PROVE  /\ LayoutOK(desc) /\ KeptOK /\ Done = Sbs
         /\ Lists(avail_sb, {s \in Sbs : ~Used(s)})
         /\ \A s \in Sbs : Used(s) /\ IsSmall(s) => Lists(FreeList(s), Others(s))
         /\ \A s \in Sbs : Used(s) /\ desc[s].heap = LargeHeap => Range(FreeList(s)) = {}
         /\ \A c \in Classes : Lists(partial_list[c], {s \in DoneSmall : desc[s].heap = c /\ Others(s) # {}})
<1>1. LayoutOK(desc) /\ KeptOK /\ DoneOK /\ TypeOK
  BY SweepFacts, Zenon
<1>2. Done = Sbs /\ avail_sb = new_avail
  BY Zenon DEF IInv, Done, Sbs
<1>3. \A s \in Sbs : anchor[s].count \in Nat
  BY <1>1, Constants DEF TypeOK
<1>4. ASSUME NEW s \in Sbs, Used(s), IsSmall(s) PROVE Lists(FreeList(s), Others(s))
  <2>1. Linked(mem, s * SBSIZE + anchor[s].avail * desc[s].block_size, anchor[s].count, Others(s))
    BY <1>1, <1>2, <1>4, Zenon DEF DoneOK, DoneSmall
  <2> QED BY <1>3, <2>1, LinkedLists, Zenon DEF FreeList
<1>5. ASSUME NEW s \in Sbs, Used(s), desc[s].heap = LargeHeap PROVE Range(FreeList(s)) = {}
  <2>1. anchor[s].count = 0
    BY <1>1, <1>2, <1>5, Zenon DEF DoneOK
  <2>2. Linked(mem, s * SBSIZE + anchor[s].avail * desc[s].block_size, 0, {})
    BY LinkedEmpty, Zenon
  <2>3. Lists(FreeList(s), {})
    BY <2>1, <2>2, LinkedLists DEF FreeList
  <2> QED BY <2>3, Zenon DEF Lists
<1> QED BY <1>1, <1>2, <1>4, <1>5, Zenon DEF DoneOK

\* After recovery no reachable block is handed out again: its superblocks are
\* not among the free ones, and it is in no free list.
THEOREM ReachableIsKept ==
  ASSUME Interior \subseteq {0} PROVE Spec => []ReachableKept
<1>1. IInv => ReachableKept
  <2> SUFFICES ASSUME IInv, phase = "recovered", NEW b \in kept
               PROVE  /\ b \in Blocks(desc)
                      /\ \A w \in WordsOf(b) : desc_lookup(w) \notin Range(avail_sb)
                      /\ b.start \notin Range(FreeList(desc_lookup(b.start)))
    BY Zenon DEF ReachableKept
  <2>1. LayoutOK(desc) /\ b \in Blocks(desc)
    BY Recovered, Zenon DEF KeptOK
  <2>2. ASSUME NEW w \in WordsOf(b) PROVE Used(desc_lookup(w))
    <3>1. w \in Nat
      BY <2>1, BlockFacts, Constants, Zenon
    <3>2. /\ desc_lookup(w) \in Nat /\ desc_lookup(w) * SBSIZE <= w
          /\ w < (desc_lookup(w) + 1) * SBSIZE
      BY <3>1, Lookup, Zenon
    <3>3. w \in SbWords(desc_lookup(w))
      BY <3>1, <3>2, Constants DEF SbWords
    <3> QED BY <2>2, <3>3, Zenon DEF Used
  <2>3. ASSUME NEW w \in WordsOf(b) PROVE desc_lookup(w) \notin Range(avail_sb)
    BY <2>2, <2>3, Recovered, Zenon DEF Lists
  <2> DEFINE s == desc_lookup(b.start)
  <2>4. s \in Sbs /\ Used(s)
    BY <2>1, <2>2, BlockFacts, Zenon
  <2>5. desc[s].heap \in Classes \/ desc[s].heap = LargeHeap
    <3>1. PICK r \in Sbs, i \in Nat : BlockIn(desc, b, r, i)
      BY <2>1, BlockShape, Zenon
    <3>2. desc[s] # Descriptor
      BY <3>1 DEF BlockIn, Descriptor
    <3> QED BY <2>1, <2>4, <3>2 DEF LayoutOK, SmallDesc, LargeDesc
  <2>6. b.start \notin Others(s)
    BY Zenon DEF Others, FreeBelow, KeptStarts, Starts
  <2>7. b.start \notin Range(FreeList(s))
    BY <2>4, <2>5, <2>6, Recovered, Zenon DEF IsSmall, Lists
  <2> QED BY <2>1, <2>3, <2>7, Zenon
<1>2. QED
  BY IInvHolds, <1>1, PTL

\* After recovery all else is free, once: the sweep finds every superblock
\* without a reachable block, and every free block of the others.
THEOREM NothingIsLeaked ==
  ASSUME Interior \subseteq {0} PROVE Spec => []NothingLeaked
<1>1. IInv => NothingLeaked
  <2> SUFFICES ASSUME IInv, phase = "recovered" PROVE NothingLeaked
    BY Zenon DEF NothingLeaked
  <2> DEFINE used == {s \in Sbs : \E b \in kept :
                         WordsOf(b) \cap (s * SBSIZE)..((s + 1) * SBSIZE - 1) # {}}
             small == {s \in used : desc[s].heap \in Classes}
             others(s) == {b.start : b \in {c \in Blocks(desc) : desc_lookup(c.start) = s} \ kept}
  <2>1. LayoutOK(desc) /\ kept \subseteq Blocks(desc)
    BY Recovered, Zenon DEF KeptOK
  <2>2. \A s \in Sbs : s \in used <=> Used(s)
    BY Zenon DEF Used, SbWords
  <2>3. Sbs \ used = {s \in Sbs : ~Used(s)}
    BY <2>2, Zenon
  <2>4. small = DoneSmall /\ \A s \in small : s \in Sbs /\ Used(s) /\ IsSmall(s)
    BY <2>2, Recovered, Zenon DEF DoneSmall, IsSmall
  <2>5. ASSUME NEW s \in Sbs PROVE others(s) = Others(s)
    <3>1. ASSUME NEW q PROVE q \in others(s) => q \in Others(s)
      <4> SUFFICES ASSUME NEW b \in Blocks(desc), desc_lookup(b.start) = s, b \notin kept
                   PROVE  b.start \in Others(s)
        BY Zenon
      <4>1. b.start \in Nat
        BY <2>1, BlockFacts, Constants, Zenon
      <4>2. s * SBSIZE <= b.start /\ b.start < (s + 1) * SBSIZE
        BY <4>1, Lookup, Constants, Zenon
      <4>3. b.start \in Starts(Blocks(desc)) /\ b.start \notin KeptStarts
        BY <2>1, StartsOf, Zenon DEF KeptStarts, Starts
      <4> QED BY <4>2, <4>3, Zenon DEF Others, FreeBelow
    <3>2. ASSUME NEW q \in Others(s) PROVE q \in others(s)
      <4>1. PICK b \in Blocks(desc) : q = b.start
        BY Zenon DEF Others, FreeBelow, Starts
      <4>2. b.start \in Nat
        BY <2>1, BlockFacts, Constants, Zenon
      <4>3. desc_lookup(b.start) = s
        BY <4>1, <4>2, Lookup, Constants, Zenon DEF Others, FreeBelow
      <4>4. b \notin kept
        BY <4>1, Zenon DEF Others, FreeBelow, KeptStarts, Starts
      <4> QED BY <4>1, <4>3, <4>4, Zenon
    <3> QED BY <3>1, <3>2, Zenon
  <2>6. Lists(avail_sb, Sbs \ used)
    BY <2>3, Recovered, Zenon
  <2>7. ASSUME NEW s \in small PROVE Lists(FreeList(s), others(s))
    BY <2>4, <2>5, Recovered, Zenon
  <2>8. ASSUME NEW c \in Classes
        PROVE  Lists(partial_list[c], {s \in small : desc[s].heap = c /\ others(s) # {}})
    <3>1. \A s \in small : others(s) = Others(s)
      BY <2>4, <2>5, Zenon
    <3>2. {s \in small : desc[s].heap = c /\ others(s) # {}}
            = {s \in DoneSmall : desc[s].heap = c /\ Others(s) # {}}
      <4> HIDE DEF small, others
      <4> QED BY <2>4, <3>1, Zenon
    <3> QED BY <3>2, Recovered, Zenon
  <2> QED BY <2>6, <2>7, <2>8, Zenon DEF NothingLeaked
<1>2. QED
  BY IInvHolds, <1>1, PTL

\* Whatever large blocks a power failure loses, what is reached without
\* following a pointer into one of them is still reachable after the crash.
THEOREM SmallIsKept == ASSUME Interior \subseteq {0} PROVE Spec => SmallKept
<1>1. ASSUME IInv, [Next]_vars
      PROVE  phase = "running" /\ phase' = "crashed" =>
               Reachable(SmallOnly(desc), mem, roots) \subseteq kept'
  <2> SUFFICES ASSUME phase = "running", phase' = "crashed"
               PROVE  Reachable(SmallOnly(desc), mem, roots) \subseteq kept'
    BY Zenon
  <2>1. Crash
    <3>1. ~Application
      BY Zenon DEF Application, set_root, Store
    <3>2. ~Collect
      BY Zenon DEF Collect, Begin, MarkRoot, RootsMarked, FilterNode, filter_func, BeginSweep,
                   LinkFree, PassMark, SweepEmpty, SweepLarge, SweepSmall, Finish
    <3>3. ~UNCHANGED vars
      BY Zenon DEF vars
    <3> QED BY <1>1, <3>1, <3>2, <3>3, Zenon DEF Next
  <2>2. kept' = Reachable(desc', mem, roots)
    BY <1>1, <2>1, CrashReaches, Zenon
  <2>3. Blocks(SmallOnly(desc)) \subseteq Blocks(desc')
    <3>1. LayoutOK(desc) /\ pdesc = SmallOnly(desc)
      BY <1>1, Zenon DEF IInv, DescInv
    <3>2. /\ desc' = [s \in Sbs |-> desc'[s]]
          /\ \A s \in Sbs : \/ desc'[s] = desc[s]
                            \/ desc'[s] = Descriptor /\ desc[s].heap = LargeHeap
      BY <2>1, <3>1, CrashDescs, Zenon
    <3> QED BY <3>1, <3>2, SmallBlocks, Zenon
  <2> QED BY <2>2, <2>3, ReachableMore, Zenon
<1> QED BY <1>1, IInvHolds, PTL DEF Spec, SmallKept
=============================================================================

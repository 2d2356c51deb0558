--------------------------- MODULE DescListProofs ---------------------------
(***************************************************************************)
(* Proofs about DescList, for any number of threads and descriptors: the   *)
(* lock-free list is an atomic stack as long as the counter of its head    *)
(* word does not wrap around within a behaviour.                           *)
(***************************************************************************)
EXTENDS DescList, TLAPS

Pushing(t) == pc[t] \in {"push_load", "push_link", "push_cas"}
Popping(t) == pc[t] \in {"pop_read", "pop_cas"}

\* A chain being pushed is its thread's own and is linked inside.
ChainInv ==
  \A t \in Threads : Pushing(t) =>
    /\ chain[t] \in Chains(held[t])
    /\ \A i \in 1..(Len(chain[t]) - 1) : next[chain[t][i]] = chain[t][i + 1]

\* Before its CAS a pushing thread has linked its chain to the head it read.
LinkInv ==
  \A t \in Threads : pc[t] = "push_cas" =>
    next[Last(chain[t])] = oldhead[t].ptr

\* While the counter has not moved, nothing was pushed since a popping
\* thread read the head: the descriptor it read is still on top or has left
\* the list.  A CAS that succeeds therefore installs the right successor.
PopInv ==
  /\ \A t \in Threads : Popping(t) =>
       /\ oldhead[t].cnt <= head.cnt
       /\ oldhead[t].cnt = head.cnt =>
            oldhead[t].ptr = head.ptr \/ oldhead[t].ptr \notin Range(stack)
  /\ \A t \in Threads : pc[t] = "pop_cas" =>
       /\ oldhead[t].ptr # NULL
       /\ oldhead[t] = head => nextptr[t] = next[head.ptr]

IInv == /\ TypeOK /\ LinksSpellStack /\ OneOwner /\ PushedNotHead
        /\ ChainInv /\ LinkInv /\ PopInv

-----------------------------------------------------------------------------
(* Chains and stacks as sequences *)

\* A chain is a non-empty sequence of distinct descriptors of its set.
LEMMA ChainFacts ==
  ASSUME NEW S, NEW c \in Chains(S)
  PROVE  /\ c \in Seq(S) /\ Len(c) \in Nat \ {0}
         /\ DOMAIN c = 1..Len(c)
         /\ IsInjective(c)
         /\ Range(c) \subseteq S
         /\ c[1] \in Range(c) /\ Last(c) \in Range(c) /\ Last(c) = c[Len(c)]
<1>1. PICK n \in 1..MaxChain : c \in [1..n -> S] /\ IsInjective(c)
  BY DEF Chains
<1>2. n \in Nat \ {0}
  BY <1>1, ChainAssumption
<1>3. c \in Seq(S) /\ Len(c) = n
  BY <1>1, <1>2
<1>4. QED
  BY <1>1, <1>2, <1>3 DEF Range, Last

\* Chains of a set are chains of every larger set.
LEMMA ChainsGrow ==
  ASSUME NEW S, NEW T, S \subseteq T, NEW c \in Chains(S)
  PROVE  c \in Chains(T)
<1>1. PICK n \in 1..MaxChain : c \in [1..n -> S] /\ IsInjective(c)
  BY DEF Chains
<1>2. c \in [1..n -> T]
  BY <1>1
<1>3. QED
  BY <1>1, <1>2 DEF Chains

\* What the push of chain c makes of stack s: positions and elements.
LEMMA ConcatFacts ==
  ASSUME NEW S, NEW c \in Seq(S), NEW s \in Seq(S)
  PROVE  /\ c \o s \in Seq(S) /\ Len(c \o s) = Len(c) + Len(s)
         /\ \A i \in 1..Len(c) : (c \o s)[i] = c[i]
         /\ \A i \in (Len(c) + 1)..(Len(c) + Len(s)) : (c \o s)[i] = s[i - Len(c)]
         /\ Range(c \o s) = Range(c) \cup Range(s)
<1>1. /\ c \o s \in Seq(S) /\ Len(c \o s) = Len(c) + Len(s)
      /\ \A i \in 1..Len(c) : (c \o s)[i] = c[i]
      /\ \A i \in (Len(c) + 1)..(Len(c) + Len(s)) : (c \o s)[i] = s[i - Len(c)]
  OBVIOUS
<1>2. Range(c \o s) \subseteq Range(c) \cup Range(s)
  <2> SUFFICES ASSUME NEW i \in 1..(Len(c) + Len(s))
               PROVE  (c \o s)[i] \in Range(c) \cup Range(s)
    BY <1>1 DEF Range
  <2>1. CASE i \in 1..Len(c)
    BY <1>1, <2>1 DEF Range
  <2>2. CASE i \in (Len(c) + 1)..(Len(c) + Len(s))
    <3>1. i - Len(c) \in 1..Len(s)
      BY <2>2
    <3>2. QED
      BY <1>1, <2>2, <3>1 DEF Range
  <2>3. QED
    BY <2>1, <2>2
<1>3. Range(c) \subseteq Range(c \o s)
  BY <1>1 DEF Range
<1>4. Range(s) \subseteq Range(c \o s)
  <2> SUFFICES ASSUME NEW i \in 1..Len(s)
               PROVE  s[i] \in Range(c \o s)
    <3>1. Range(s) = {s[i] : i \in 1..Len(s)}
      BY DEF Range
    <3>2. QED
      BY <3>1, Zenon
  <2>1. i + Len(c) \in (Len(c) + 1)..(Len(c) + Len(s)) /\ (i + Len(c)) - Len(c) = i
    OBVIOUS
  <2>2. (c \o s)[i + Len(c)] = s[i]
    BY <1>1, <2>1
  <2>3. i + Len(c) \in DOMAIN (c \o s)
    BY <1>1, <2>1
  <2>4. QED
    BY <2>2, <2>3 DEF Range
<1>5. QED
  BY <1>1, <1>2, <1>3, <1>4

\* Pushing distinct descriptors that are not in the stack repeats none.
LEMMA ConcatInjective ==
  ASSUME NEW S, NEW c \in Seq(S), NEW s \in Seq(S),
         IsInjective(c), IsInjective(s), Range(c) \cap Range(s) = {}
  PROVE  IsInjective(c \o s)
<1> SUFFICES ASSUME NEW i \in 1..(Len(c) + Len(s)), NEW j \in 1..(Len(c) + Len(s)),
                    (c \o s)[i] = (c \o s)[j]
             PROVE  i = j
  BY ConcatFacts DEF IsInjective
<1>1. CASE i <= Len(c) /\ j <= Len(c)
  BY <1>1, ConcatFacts DEF IsInjective
<1>2. CASE i > Len(c) /\ j > Len(c)
  <2>1. i - Len(c) \in 1..Len(s) /\ j - Len(c) \in 1..Len(s)
    BY <1>2
  <2>2. s[i - Len(c)] = s[j - Len(c)]
    BY <1>2, ConcatFacts
  <2>3. i - Len(c) = j - Len(c)
    BY <2>1, <2>2 DEF IsInjective
  <2>4. QED
    BY <2>3
<1>3. CASE i <= Len(c) /\ j > Len(c)
  <2>1. j - Len(c) \in 1..Len(s)
    BY <1>3
  <2>2. c[i] = s[j - Len(c)]
    BY <1>3, ConcatFacts
  <2>3. c[i] \in Range(c) /\ s[j - Len(c)] \in Range(s)
    BY <1>3, <2>1 DEF Range
  <2>4. QED
    BY <2>2, <2>3
<1>4. CASE i > Len(c) /\ j <= Len(c)
  <2>1. i - Len(c) \in 1..Len(s)
    BY <1>4
  <2>2. c[j] = s[i - Len(c)]
    BY <1>4, ConcatFacts
  <2>3. c[j] \in Range(c) /\ s[i - Len(c)] \in Range(s)
    BY <1>4, <2>1 DEF Range
  <2>4. QED
    BY <2>2, <2>3
<1>5. QED
  BY <1>1, <1>2, <1>3, <1>4

\* What a pop leaves of a stack: positions, elements, no repetition.
LEMMA TailFacts ==
  ASSUME NEW S, NEW s \in Seq(S), s # << >>, IsInjective(s)
  PROVE  /\ Tail(s) \in Seq(S) /\ Len(Tail(s)) = Len(s) - 1 /\ Len(s) \in Nat \ {0}
         /\ \A i \in 1..(Len(s) - 1) : Tail(s)[i] = s[i + 1]
         /\ IsInjective(Tail(s))
         /\ s[1] \notin Range(Tail(s))
         /\ Range(s) = Range(Tail(s)) \cup {s[1]}
         /\ Head(s) = s[1]
<1>1. /\ Tail(s) \in Seq(S) /\ Len(Tail(s)) = Len(s) - 1 /\ Len(s) \in Nat \ {0}
      /\ \A i \in 1..(Len(s) - 1) : Tail(s)[i] = s[i + 1]
      /\ Head(s) = s[1]
  OBVIOUS
<1>2. IsInjective(Tail(s))
  BY <1>1 DEF IsInjective
<1>3. s[1] \notin Range(Tail(s))
  BY <1>1 DEF IsInjective, Range
<1>4. Range(Tail(s)) \cup {s[1]} \subseteq Range(s)
  BY <1>1 DEF Range
<1>5. Range(s) \subseteq Range(Tail(s)) \cup {s[1]}
  <2> SUFFICES ASSUME NEW i \in 1..Len(s), i # 1
               PROVE  s[i] \in Range(Tail(s))
    BY DEF Range
  <2>1. i - 1 \in 1..(Len(s) - 1) /\ (i - 1) + 1 = i
    BY <1>1
  <2>2. Tail(s)[i - 1] = s[i] /\ i - 1 \in DOMAIN Tail(s)
    BY <1>1, <2>1
  <2>3. QED
    BY <2>2, Zenon DEF Range
<1>6. QED
  BY <1>1, <1>2, <1>3, <1>4, <1>5

\* Below PushBound the counter of the head word does not wrap around.
LEMMA BumpCounts ==
  ASSUME NEW n \in Nat, n < PushBound
  PROVE  Bump(n) = n + 1 /\ n + 1 \in 0..(CntMod - 1)
BY CntAssumption DEF Bump

\* The top of the stack is what the head word points to.
LEMMA HeadIsTop ==
  ASSUME TypeOK, LinksSpellStack
  PROVE  /\ head.ptr # NULL => stack # << >> /\ stack[1] = head.ptr
                               /\ head.ptr \in Range(stack)
         /\ head.ptr = NULL => stack = << >>
BY NullAssumption DEF TypeOK, LinksSpellStack, Range

-----------------------------------------------------------------------------
(* The invariant is inductive *)

\* An empty list satisfies the inductive invariant.
LEMMA InitImpliesIInv == Init => IInv
<1> SUFFICES ASSUME Init PROVE IInv
  OBVIOUS
<1> USE DEF Init
<1>0. PICK owner \in [Descs -> Threads] :
        held = [t \in Threads |-> {d \in Descs : owner[d] = t}]
  OBVIOUS
<1>1. TypeOK
  <2>1. head \in HeadWord /\ oldhead \in [Threads -> HeadWord]
    BY CntAssumption DEF HeadWord, Ptr
  <2>2. held \in [Threads -> SUBSET Descs]
    BY <1>0
  <2>3. QED
    BY <2>1, <2>2 DEF TypeOK, Ptr
<1>2. LinksSpellStack
  BY DEF LinksSpellStack
<1>3. OneOwner
  <2>1. Range(stack) = {} /\ IsInjective(stack)
    BY DEF Range, IsInjective
  <2>2. QED
    BY <1>0, <2>1 DEF OneOwner
<1>4. PushedNotHead /\ ChainInv /\ LinkInv /\ PopInv
  BY DEF PushedNotHead, ChainInv, LinkInv, PopInv, Pushing, Popping
<1>5. QED
  BY <1>1, <1>2, <1>3, <1>4 DEF IInv

\* Linking a chain touches only the fields of the thread's own descriptors,
\* which are in no list.
LEMMA PrepareKeepsIInv ==
  ASSUME IInv, NEW t \in Threads, NEW c \in Chains(held[t]), PushPrepare(t, c)
  PROVE  IInv'
<1> USE DEF IInv
<1>0. /\ c \in Seq(held[t]) /\ Len(c) \in Nat \ {0} /\ DOMAIN c = 1..Len(c)
      /\ IsInjective(c) /\ Range(c) \subseteq held[t] /\ Last(c) \in Range(c)
      /\ Last(c) = c[Len(c)]
  BY ChainFacts
<1>1. held[t] \subseteq Descs /\ c \in Seq(Descs) /\ Last(c) \in Descs
  <2>1. held[t] \subseteq Descs
    BY DEF TypeOK
  <2>2. QED
    BY <2>1, <1>0
<1>2. PICK last \in {next[Last(c)], NULL} :
       next' = [d \in Descs |->
                 IF d = Last(c) THEN last
                 ELSE IF d \in Range(c)
                 THEN c[1 + CHOOSE i \in 1..(Len(c) - 1) : c[i] = d]
                 ELSE next[d]]
  BY DEF PushPrepare
<1>3. \A i \in 1..(Len(c) - 1) :
         (CHOOSE j \in 1..(Len(c) - 1) : c[j] = c[i]) = i
  <2> SUFFICES ASSUME NEW i \in 1..(Len(c) - 1)
               PROVE (CHOOSE j \in 1..(Len(c) - 1) : c[j] = c[i]) = i
    OBVIOUS
  <2> DEFINE k == CHOOSE j \in 1..(Len(c) - 1) : c[j] = c[i]
  <2>1. k \in 1..(Len(c) - 1) /\ c[k] = c[i]
    OBVIOUS
  <2>2. k \in DOMAIN c /\ i \in DOMAIN c
    BY <2>1, <1>0
  <2>3. QED
    BY <2>1, <2>2, <1>0 DEF IsInjective
<1>4. \A i \in 1..(Len(c) - 1) : next'[c[i]] = c[i + 1]
  <2> SUFFICES ASSUME NEW i \in 1..(Len(c) - 1)
               PROVE next'[c[i]] = c[i + 1]
    OBVIOUS
  <2>0. Len(c) \in Nat \ {0}
    BY <1>0
  <2>1. i \in 1..Len(c) /\ Len(c) \in 1..Len(c) /\ i # Len(c)
    BY <2>0
  <2>2. c[i] # Last(c) /\ c[i] \in Range(c) /\ c[i] \in Descs
    BY <2>1, <1>0, <1>1, Zenon DEF IsInjective, Range
  <2> DEFINE k == CHOOSE j \in 1..(Len(c) - 1) : c[j] = c[i]
  <2>3. next'[c[i]] = c[1 + k]
    BY <2>2, <1>2, Zenon
  <2>4. k = i
    BY <1>3
  <2> HIDE DEF k
  <2>5. 1 + k = i + 1
    BY <2>4
  <2>6. QED
    BY <2>3, <2>5
<1>5. \A d \in Descs \ held[t] : next'[d] = next[d]
  BY <1>0, <1>2
<1>6. next' \in [Descs -> Ptr]
  <2> SUFFICES ASSUME NEW d \in Descs PROVE next'[d] \in Ptr
    BY <1>2, Zenon
  <2>1. CASE d = Last(c)
    BY <2>1, <1>1, <1>2 DEF TypeOK, Ptr
  <2>2. CASE d # Last(c) /\ d \in Range(c)
    <3>1. PICK i \in 1..Len(c) : d = c[i]
      BY <2>2, <1>0 DEF Range
    <3>2. i \in 1..(Len(c) - 1) /\ i + 1 \in 1..Len(c)
      BY <3>1, <2>2, <1>0
    <3>3. next'[d] = c[i + 1]
      BY <3>1, <3>2, <1>4
    <3>4. QED
      BY <3>2, <3>3, <1>1 DEF Ptr
  <2>3. CASE d # Last(c) /\ d \notin Range(c)
    BY <2>3, <1>2 DEF TypeOK
  <2>4. QED
    BY <2>1, <2>2, <2>3
<1>7. TypeOK'
  BY <1>1, <1>6, Zenon DEF TypeOK, PushPrepare
<1>8. LinksSpellStack'
  <2>1. \A i \in 1..Len(stack) : stack[i] \in Descs \ held[t]
    BY DEF OneOwner, TypeOK, Range
  <2>2. QED
    BY <2>1, <1>5, Zenon DEF LinksSpellStack, PushPrepare
<1>9. OneOwner'
  BY DEF OneOwner, PushPrepare
<1>10. PushedNotHead' /\ LinkInv'
  <2>1. ASSUME NEW u \in Threads, pc'[u] \in {"push_link", "push_cas"}
        PROVE  /\ u # t /\ pc[u] = pc'[u] /\ oldhead'[u] = oldhead[u]
               /\ chain'[u] = chain[u]
    BY <2>1 DEF TypeOK, PushPrepare
  <2>2. ASSUME NEW u \in Threads, pc'[u] = "push_cas"
        PROVE  next'[Last(chain[u])] = oldhead[u].ptr
    <3>1. u # t /\ pc[u] = "push_cas"
      BY <2>1, <2>2
    <3>2. Last(chain[u]) \in held[u]
      BY <3>1, ChainFacts DEF ChainInv, Pushing
    <3>3. Last(chain[u]) \in Descs \ held[t]
      BY <3>1, <3>2 DEF OneOwner, TypeOK
    <3>4. QED
      BY <3>1, <3>3, <1>5 DEF LinkInv
  <2>3. QED
    BY <2>1, <2>2 DEF PushedNotHead, LinkInv
<1>11. ChainInv'
  <2> SUFFICES ASSUME NEW u \in Threads, Pushing(u)'
               PROVE /\ chain'[u] \in Chains(held'[u])
                     /\ \A i \in 1..(Len(chain'[u]) - 1) :
                           next'[chain'[u][i]] = chain'[u][i + 1]
    BY DEF ChainInv, Chains
  <2>0. held' = held
    BY DEF PushPrepare
  <2>1. CASE u = t
    <3>1. chain'[u] = c
      BY <2>1 DEF PushPrepare, TypeOK
    <3>2. QED
      BY <3>1, <2>0, <2>1, <1>4
  <2>2. CASE u # t
    <3>1. Pushing(u) /\ chain'[u] = chain[u]
      BY <2>2 DEF PushPrepare, TypeOK, Pushing
    <3>2. /\ chain[u] \in Chains(held[u])
          /\ \A i \in 1..(Len(chain[u]) - 1) : next[chain[u][i]] = chain[u][i + 1]
      BY <3>1 DEF ChainInv
    <3>3. \A i \in 1..(Len(chain[u]) - 1) : chain[u][i] \in Descs \ held[t]
      <4>1. \A i \in 1..Len(chain[u]) : chain[u][i] \in held[u]
        BY <3>2, ChainFacts
      <4>2. \A d \in held[u] : d \in Descs \ held[t]
        BY <2>2 DEF OneOwner, TypeOK
      <4>3. Len(chain[u]) \in Nat
        BY <3>2, ChainFacts
      <4>4. QED
        BY <4>1, <4>2, <4>3
    <3>4. QED
      BY <3>1, <3>2, <3>3, <1>5, <2>0
  <2>3. QED
    BY <2>1, <2>2
<1>12. PopInv'
  <2>1. ASSUME NEW u \in Threads, Popping(u)'
        PROVE  /\ Popping(u) /\ pc[u] = pc'[u]
    BY <2>1 DEF TypeOK, PushPrepare, Popping
  <2>2. ASSUME NEW u \in Threads, pc'[u] = "pop_cas", oldhead[u] = head
        PROVE  nextptr[u] = next'[head.ptr]
    <3>1. pc[u] = "pop_cas"
      BY <2>1, <2>2 DEF Popping
    <3>2. head.ptr # NULL
      BY <3>1, <2>2 DEF PopInv
    <3>3. head.ptr \in Descs \ held[t]
      BY <3>2, HeadIsTop DEF OneOwner, TypeOK, HeadWord, Ptr
    <3>4. QED
      BY <3>1, <2>2, <3>3, <1>5 DEF PopInv
  <2>3. QED
    BY <2>1, <2>2 DEF PopInv, PushPrepare, Popping
<1>13. QED
  BY <1>7, <1>8, <1>9, <1>10, <1>11, <1>12

\* Reading the head, first or after a failed CAS.
LEMMA LoadKeepsIInv ==
  ASSUME IInv, NEW t \in Threads,
         PushLoad(t) \/ PushCasFails(t) \/ PopLoad(t) \/ PopCasFails(t)
  PROVE  IInv'
<1> USE DEF IInv
<1>1. /\ UNCHANGED <<head, next, held, chain, nextptr, stack>>
      /\ oldhead' = [oldhead EXCEPT ![t] = head]
      /\ \/ pc' = [pc EXCEPT ![t] = "push_link"] /\ Pushing(t)
         \/ pc' = [pc EXCEPT ![t] = "pop_read"]
  BY DEF PushLoad, PushCasFails, PopLoad, PopCasFails, Pushing
<1>2. TypeOK'
  BY <1>1, Zenon DEF TypeOK
<1>3. LinksSpellStack' /\ OneOwner'
  BY <1>1 DEF LinksSpellStack, OneOwner
<1>4. ASSUME NEW u \in Threads, u # t
      PROVE  pc'[u] = pc[u] /\ oldhead'[u] = oldhead[u]
  BY <1>1, <1>4 DEF TypeOK
<1>5. oldhead'[t] = head /\ pc'[t] \in {"push_link", "pop_read"}
      /\ (pc'[t] = "push_link" => Pushing(t))
  BY <1>1 DEF TypeOK
<1>6. PushedNotHead'
  <2> SUFFICES ASSUME NEW u \in Threads, pc'[u] \in {"push_link", "push_cas"}
               PROVE  oldhead'[u].ptr \notin Range(chain[u])
    BY <1>1 DEF PushedNotHead
  <2>1. CASE u = t
    <3>1. chain[t] \in Chains(held[t])
      BY <1>5, <2>1 DEF ChainInv
    <3>2. Range(chain[t]) \subseteq held[t]
      BY <3>1, ChainFacts
    <3>3. head.ptr \notin held[t]
      BY HeadIsTop, NullAssumption DEF OneOwner, TypeOK
    <3>4. QED
      BY <1>5, <2>1, <3>2, <3>3
  <2>2. CASE u # t
    BY <1>4, <2>2 DEF PushedNotHead
  <2>3. QED
    BY <2>1, <2>2
<1>7. ChainInv'
  <2>1. \A u \in Threads : Pushing(u)' => Pushing(u)
    BY <1>4, <1>5 DEF Pushing
  <2>2. QED
    BY <1>1, <2>1 DEF ChainInv, Chains
<1>8. LinkInv'
  BY <1>1, <1>4, <1>5 DEF LinkInv
<1>9. PopInv'
  <2>1. ASSUME NEW u \in Threads, Popping(u)'
        PROVE  /\ oldhead'[u].cnt <= head.cnt
               /\ oldhead'[u].cnt = head.cnt =>
                    oldhead'[u].ptr = head.ptr \/ oldhead'[u].ptr \notin Range(stack)
    <3>1. CASE u = t
      BY <1>5, <3>1, CntAssumption DEF TypeOK, HeadWord
    <3>2. CASE u # t
      BY <1>4, <2>1, <3>2 DEF PopInv, Popping
    <3>3. QED
      BY <3>1, <3>2
  <2>2. ASSUME NEW u \in Threads, pc'[u] = "pop_cas"
        PROVE  /\ oldhead'[u].ptr # NULL
               /\ oldhead'[u] = head => nextptr[u] = next[head.ptr]
    <3>1. u # t
      BY <1>5, <2>2
    <3>2. QED
      BY <1>4, <2>2, <3>1 DEF PopInv
  <2>3. QED
    BY <1>1, <2>1, <2>2 DEF PopInv
<1>10. QED
  BY <1>2, <1>3, <1>6, <1>7, <1>8, <1>9

\* Reading the link of the old head: if the head word has not changed, the
\* link read is the one of the top of the stack.
LEMMA PopReadKeepsIInv ==
  ASSUME IInv, NEW t \in Threads, PopEmpty(t) \/ PopRead(t)
  PROVE  IInv'
<1> USE DEF IInv
<1>1. /\ UNCHANGED <<head, next, held, oldhead, chain, stack>>
      /\ \A u \in Threads \ {t} : pc'[u] = pc[u] /\ nextptr'[u] = nextptr[u]
      /\ pc[t] = "pop_read"
      /\ \/ pc'[t] = "idle"
         \/ /\ pc'[t] = "pop_cas" /\ oldhead[t].ptr # NULL
            /\ nextptr'[t] = next[oldhead[t].ptr]
  BY DEF PopEmpty, PopRead, TypeOK
<1>2. TypeOK'
  <2>1. PopRead(t) => next[oldhead[t].ptr] \in Ptr
    BY DEF PopRead, TypeOK, HeadWord, Ptr
  <2>2. QED
    BY <2>1, Zenon DEF TypeOK, PopEmpty, PopRead
<1>3. LinksSpellStack' /\ OneOwner'
  BY <1>1 DEF LinksSpellStack, OneOwner
<1>4. PushedNotHead' /\ LinkInv'
  BY <1>1 DEF PushedNotHead, LinkInv
<1>5. ChainInv'
  <2>1. \A u \in Threads : Pushing(u)' => Pushing(u)
    BY <1>1 DEF Pushing
  <2>2. QED
    BY <1>1, <2>1 DEF ChainInv, Chains
<1>6. PopInv'
  BY <1>1 DEF PopInv, Popping
<1>7. QED
  BY <1>2, <1>3, <1>4, <1>5, <1>6

\* Passing a descriptor of a full superblock to the thread that frees into it.
LEMMA HandoffKeepsIInv ==
  ASSUME IInv, NEW t \in Threads, NEW u \in Threads, Handoff(t, u)
  PROVE  IInv'
<1> USE DEF IInv
<1>1. PICK d \in held[t] :
        held' = [held EXCEPT ![t] = @ \ {d}, ![u] = @ \cup {d}]
  BY Zenon DEF Handoff
<1>2. /\ UNCHANGED <<head, next, pc, oldhead, chain, nextptr, stack>>
      /\ t # u /\ pc[t] = "idle" /\ d \in Descs
      /\ held'[t] = held[t] \ {d} /\ held'[u] = held[u] \cup {d}
      /\ \A v \in Threads \ {t, u} : held'[v] = held[v]
  BY <1>1 DEF Handoff, TypeOK
<1>3. TypeOK'
  <2>1. held' \in [Threads -> SUBSET Descs]
    BY <1>1, <1>2, Zenon DEF TypeOK
  <2>2. QED
    BY <1>2, <2>1 DEF TypeOK
<1>4. LinksSpellStack' /\ PushedNotHead' /\ LinkInv'
  BY <1>2 DEF LinksSpellStack, PushedNotHead, LinkInv
<1>5. OneOwner'
  <2>1. \A e \in Descs : e \in Range(stack) \/ \E v \in Threads : e \in held'[v]
    BY <1>2 DEF OneOwner
  <2>2. ASSUME NEW v \in Threads
        PROVE  held'[v] \cap Range(stack) = {}
    BY <1>2 DEF OneOwner
  <2>3. ASSUME NEW v \in Threads, NEW w \in Threads \ {v}
        PROVE  held'[v] \cap held'[w] = {}
    <3>1. held[v] \cap held[w] = {} /\ (d \in held[v] => v = t) /\ (d \in held[w] => w = t)
      BY DEF OneOwner
    <3>2. QED
      BY <1>2, <3>1
  <2>4. QED
    BY <1>2, <2>1, <2>2, <2>3 DEF OneOwner
<1>6. ChainInv'
  <2> SUFFICES ASSUME NEW v \in Threads, Pushing(v)
               PROVE  chain[v] \in Chains(held'[v])
    BY <1>2 DEF ChainInv, Chains, Pushing
  <2>1. held[v] \subseteq held'[v]
    BY <1>2 DEF Pushing
  <2>2. chain[v] \in Chains(held[v])
    BY DEF ChainInv
  <2>3. QED
    BY <2>1, <2>2, ChainsGrow
<1>7. PopInv'
  BY <1>2 DEF PopInv, Popping
<1>8. QED
  BY <1>3, <1>4, <1>5, <1>6, <1>7

\* Linking the last descriptor of a chain to the head that was read.
LEMMA PushLinkKeepsIInv ==
  ASSUME IInv, NEW t \in Threads, PushLink(t)
  PROVE  IInv'
<1> USE DEF IInv
<1> DEFINE z == Last(chain[t])
<1>1. /\ UNCHANGED <<head, held, oldhead, chain, nextptr, stack>>
      /\ pc[t] = "push_link" /\ pc'[t] = "push_cas"
      /\ \A u \in Threads \ {t} : pc'[u] = pc[u]
      /\ next' = [next EXCEPT ![z] = oldhead[t].ptr]
  BY DEF PushLink, TypeOK
<1>2. /\ chain[t] \in Chains(held[t])
      /\ \A i \in 1..(Len(chain[t]) - 1) : next[chain[t][i]] = chain[t][i + 1]
  BY <1>1 DEF ChainInv, Pushing
<1>3. /\ z \in held[t] /\ z = chain[t][Len(chain[t])] /\ Len(chain[t]) \in Nat \ {0}
      /\ IsInjective(chain[t]) /\ DOMAIN chain[t] = 1..Len(chain[t])
  BY <1>2, ChainFacts
<1> HIDE DEF z
<1>4. z \in Descs
  BY <1>3 DEF TypeOK
<1>5. next'[z] = oldhead[t].ptr /\ \A d \in Descs : d # z => next'[d] = next[d]
  BY <1>1, <1>4 DEF TypeOK
<1>6. TypeOK'
  <2>1. next' \in [Descs -> Ptr]
    BY <1>1, <1>4 DEF TypeOK, HeadWord
  <2>2. QED
    BY <2>1, <1>1 DEF TypeOK, PushLink
<1>7. LinksSpellStack'
  <2>1. \A i \in 1..Len(stack) : stack[i] \in Descs /\ stack[i] # z
    BY <1>3 DEF OneOwner, TypeOK, Range
  <2>2. QED
    BY <2>1, <1>1, <1>5 DEF LinksSpellStack
<1>8. OneOwner' /\ PushedNotHead'
  BY <1>1 DEF OneOwner, PushedNotHead
<1>9. ChainInv'
  <2> SUFFICES ASSUME NEW u \in Threads, Pushing(u), NEW i \in 1..(Len(chain[u]) - 1)
               PROVE  next'[chain[u][i]] = chain[u][i + 1]
    BY <1>1 DEF ChainInv, Chains, Pushing
  <2>1. /\ chain[u] \in Chains(held[u])
        /\ next[chain[u][i]] = chain[u][i + 1]
    BY DEF ChainInv
  <2>2. Len(chain[u]) \in Nat
    BY <2>1, ChainFacts
  <2>3. i \in 1..Len(chain[u]) /\ i # Len(chain[u])
    BY <2>2
  <2>4. chain[u][i] \in held[u] /\ chain[u][i] \in Descs
    BY <2>1, <2>3, ChainFacts DEF TypeOK
  <2>5. chain[u][i] # z
    <3>1. CASE u = t
      <4>1. Len(chain[t]) \in 1..Len(chain[t])
        BY <1>3
      <4>2. QED
        BY <1>3, <2>3, <3>1, <4>1 DEF IsInjective
    <3>2. CASE u # t
      BY <1>3, <2>4, <3>2 DEF OneOwner
    <3>3. QED
      BY <3>1, <3>2
  <2>6. QED
    BY <1>5, <2>1, <2>4, <2>5
<1>10. LinkInv'
  <2> SUFFICES ASSUME NEW u \in Threads, pc'[u] = "push_cas"
               PROVE  next'[Last(chain[u])] = oldhead[u].ptr
    BY <1>1 DEF LinkInv, Last
  <2>1. CASE u = t
    BY <1>5, <2>1 DEF z
  <2>2. CASE u # t
    <3>1. pc[u] = "push_cas"
      BY <1>1, <2>2
    <3>2. Last(chain[u]) \in held[u]
      BY <3>1, ChainFacts DEF ChainInv, Pushing
    <3>3. Last(chain[u]) \in Descs /\ Last(chain[u]) # z
      BY <3>2, <2>2, <1>3 DEF OneOwner, TypeOK
    <3>4. QED
      BY <3>1, <3>3, <1>5 DEF LinkInv
  <2>3. QED
    BY <2>1, <2>2
<1>11. PopInv'
  <2>1. head.ptr # NULL => head.ptr \in Descs /\ head.ptr # z
    BY <1>3, HeadIsTop DEF OneOwner, TypeOK, HeadWord, Ptr
  <2>2. QED
    BY <1>1, <1>5, <2>1 DEF PopInv, Popping
<1>12. QED
  BY <1>6, <1>7, <1>8, <1>9, <1>10, <1>11

\* A push that succeeds puts its chain on top and outdates every head read
\* before it.
LEMMA PushCasKeepsIInv ==
  ASSUME IInv, NEW t \in Threads, PushCasSucceeds(t)
  PROVE  IInv'
<1> USE DEF IInv
<1> DEFINE c == chain[t]
           n == Len(chain[t])
<1>1. /\ UNCHANGED <<next, oldhead, nextptr>>
      /\ pc[t] = "push_cas" /\ pc'[t] = "idle"
      /\ \A u \in Threads \ {t} : pc'[u] = pc[u] /\ chain'[u] = chain[u]
                                  /\ held'[u] = held[u]
      /\ held'[t] = held[t] \ Range(c)
      /\ head = oldhead[t] /\ head.cnt < PushBound
      /\ stack' = c \o stack
  BY DEF PushCasSucceeds, TypeOK
<1>2. /\ c \in Chains(held[t])
      /\ \A i \in 1..(n - 1) : next[c[i]] = c[i + 1]
      /\ next[c[n]] = head.ptr
  BY <1>1 DEF ChainInv, LinkInv, Pushing, Last
<1>3. /\ c \in Seq(held[t]) /\ n \in Nat \ {0} /\ DOMAIN c = 1..n
      /\ IsInjective(c) /\ Range(c) \subseteq held[t]
      /\ c[1] \in Range(c)
  BY <1>2, ChainFacts
<1>4. c \in Seq(Descs) /\ stack \in Seq(Descs)
  BY DEF TypeOK
<1>5. c[1] \in Descs
  BY <1>3 DEF TypeOK
<1>6. head.cnt \in Nat /\ head' = [ptr |-> c[1], cnt |-> head.cnt + 1]
      /\ head.cnt + 1 \in 0..(CntMod - 1)
  BY <1>1, BumpCounts, CntAssumption DEF PushCasSucceeds, TypeOK, HeadWord
<1>7. /\ stack' \in Seq(Descs) /\ Len(stack') = n + Len(stack)
      /\ \A i \in 1..n : stack'[i] = c[i]
      /\ \A i \in (n + 1)..(n + Len(stack)) : stack'[i] = stack[i - n]
      /\ Range(stack') = Range(c) \cup Range(stack)
  BY <1>1, <1>4, ConcatFacts
<1> HIDE DEF c, n
<1>8. TypeOK'
  <2>1. head' \in HeadWord
    BY <1>5, <1>6 DEF HeadWord, Ptr
  <2>2. held' \in [Threads -> SUBSET Descs]
    BY DEF TypeOK, PushCasSucceeds
  <2>3. chain' \in [Threads -> Seq(Descs)]
    BY DEF TypeOK, PushCasSucceeds
  <2>4. QED
    BY <2>1, <2>2, <2>3, <1>1, <1>7 DEF TypeOK, PushCasSucceeds
<1>9. LinksSpellStack'
  <2>0. Len(stack) \in Nat
    BY <1>4
  <2>1. stack' # << >> /\ head'.ptr = stack'[1]
    <3>1. 1 \in 1..n /\ Len(stack') # 0
      BY <1>3, <1>7, <2>0
    <3>2. QED
      BY <3>1, <1>6, <1>7
  <2>2. ASSUME NEW i \in 1..(n + Len(stack))
        PROVE  next[stack'[i]] = IF i = n + Len(stack) THEN NULL ELSE stack'[i + 1]
    <3>1. CASE i \in 1..(n - 1)
      <4>1. i \in 1..n /\ i + 1 \in 1..n /\ i # n + Len(stack)
        BY <3>1, <1>3, <2>0
      <4>2. stack'[i] = c[i] /\ stack'[i + 1] = c[i + 1] /\ next[c[i]] = c[i + 1]
        BY <4>1, <3>1, <1>2, <1>7
      <4>3. QED
        BY <4>1, <4>2
    <3>2. CASE i = n /\ stack = << >>
      <4>1. i \in 1..n /\ Len(stack) = 0 /\ i = n + Len(stack)
        BY <3>2, <1>3
      <4>2. stack'[i] = c[n] /\ head.ptr = NULL
        BY <4>1, <3>2, <1>7 DEF LinksSpellStack
      <4>3. QED
        BY <4>1, <4>2, <1>2
    <3>3. CASE i = n /\ stack # << >>
      <4>1. /\ i \in 1..n /\ i # n + Len(stack)
            /\ i + 1 \in (n + 1)..(n + Len(stack)) /\ (i + 1) - n = 1
        BY <3>3, <1>3, <1>4, <2>0
      <4>2. stack'[i] = c[n] /\ stack'[i + 1] = stack[1]
        BY <4>1, <3>3, <1>7
      <4>3. head.ptr = stack[1]
        BY <3>3 DEF LinksSpellStack
      <4>4. QED
        BY <4>1, <4>2, <4>3, <1>2
    <3>4. CASE i \in (n + 1)..(n + Len(stack))
      <4>1. i - n \in 1..Len(stack) /\ (i + 1) - n = (i - n) + 1
            /\ (i = n + Len(stack) <=> i - n = Len(stack))
        BY <3>4, <1>3, <2>0
      <4>2. stack'[i] = stack[i - n]
        BY <3>4, <1>7
      <4>3. next[stack[i - n]] = IF i - n = Len(stack) THEN NULL ELSE stack[(i - n) + 1]
        BY <4>1 DEF LinksSpellStack
      <4>4. i # n + Len(stack) => stack'[i + 1] = stack[(i - n) + 1]
        <5>1. i # n + Len(stack) => i + 1 \in (n + 1)..(n + Len(stack))
          BY <3>4, <1>3, <2>0
        <5>2. QED
          BY <5>1, <4>1, <1>7
      <4>5. QED
        BY <4>1, <4>2, <4>3, <4>4
    <3>5. i \in 1..(n - 1) \/ i = n \/ i \in (n + 1)..(n + Len(stack))
      BY <1>3, <2>0
    <3>6. QED
      BY <3>1, <3>2, <3>3, <3>4, <3>5
  <2>3. Len(stack') = n + Len(stack) /\ next' = next
    BY <1>1, <1>7
  <2>4. \A i \in 1..Len(stack') :
          next'[stack'[i]] = IF i = Len(stack') THEN NULL ELSE stack'[i + 1]
    BY <2>2, <2>3
  <2>5. QED
    BY <2>1, <2>4 DEF LinksSpellStack
<1>10. OneOwner'
  <2>0. Range(c) \cap Range(stack) = {}
    BY <1>3 DEF OneOwner
  <2>1. IsInjective(stack')
    BY <1>1, <1>3, <1>4, <2>0, ConcatInjective DEF OneOwner
  <2>2. ASSUME NEW d \in Descs
        PROVE  d \in Range(stack') \/ \E u \in Threads : d \in held'[u]
    BY <1>1, <1>7 DEF OneOwner
  <2>3. ASSUME NEW u \in Threads
        PROVE  held'[u] \cap Range(stack') = {}
    <3>1. CASE u = t
      BY <3>1, <1>1, <1>7 DEF OneOwner
    <3>2. CASE u # t
      BY <3>2, <1>1, <1>3, <1>7 DEF OneOwner
    <3>3. QED
      BY <3>1, <3>2
  <2>4. ASSUME NEW u \in Threads, NEW v \in Threads \ {u}
        PROVE  held'[u] \cap held'[v] = {}
    <3>1. held'[u] \subseteq held[u] /\ held'[v] \subseteq held[v]
      BY <1>1
    <3>2. QED
      BY <3>1 DEF OneOwner
  <2>5. QED
    BY <2>1, <2>2, <2>3, <2>4 DEF OneOwner
<1>11. PushedNotHead' /\ LinkInv'
  BY <1>1, Zenon DEF PushedNotHead, LinkInv, Last
<1>12. ChainInv'
  <2> SUFFICES ASSUME NEW u \in Threads, Pushing(u)'
               PROVE  /\ chain'[u] \in Chains(held'[u])
                      /\ \A i \in 1..(Len(chain'[u]) - 1) :
                            next'[chain'[u][i]] = chain'[u][i + 1]
    BY DEF ChainInv, Chains
  <2>1. u # t /\ Pushing(u)
    BY <1>1 DEF Pushing
  <2>2. QED
    BY <2>1, <1>1 DEF ChainInv
<1>13. PopInv'
  <2>1. ASSUME NEW u \in Threads, Popping(u)'
        PROVE  oldhead[u].cnt \in Nat /\ oldhead[u].cnt < head'.cnt
    <3>1. Popping(u)
      BY <1>1, <2>1 DEF Popping
    <3>2. oldhead[u].cnt \in Nat /\ oldhead[u].cnt <= head.cnt
      BY <3>1, CntAssumption DEF PopInv, TypeOK, HeadWord
    <3>3. QED
      BY <3>2, <1>6
  <2>2. ASSUME NEW u \in Threads, pc'[u] = "pop_cas"
        PROVE  oldhead[u].ptr # NULL /\ oldhead[u] # head'
    <3>1. pc[u] = "pop_cas" /\ oldhead[u].cnt # head'.cnt
      BY <1>1, <1>6, <2>1, <2>2 DEF Popping
    <3>2. QED
      BY <3>1 DEF PopInv
  <2>3. head'.cnt \in Nat
    BY <1>6
  <2>4. QED
    BY <2>1, <2>2, <2>3, <1>1 DEF PopInv
<1>14. QED
  BY <1>8, <1>9, <1>10, <1>11, <1>12, <1>13

\* A pop that succeeds installs the second descriptor of the stack.
LEMMA PopCasKeepsIInv ==
  ASSUME IInv, NEW t \in Threads, PopCasSucceeds(t)
  PROVE  /\ IInv'
         /\ stack # << >> /\ oldhead[t].ptr = Head(stack)
<1> USE DEF IInv
<1>1. /\ UNCHANGED <<next, oldhead, chain, nextptr>>
      /\ pc[t] = "pop_cas" /\ pc'[t] = "idle"
      /\ \A u \in Threads \ {t} : pc'[u] = pc[u] /\ held'[u] = held[u]
      /\ held'[t] = held[t] \cup {head.ptr}
      /\ head = oldhead[t] /\ stack' = Tail(stack)
      /\ head' = [ptr |-> nextptr[t], cnt |-> head.cnt]
  BY DEF PopCasSucceeds, TypeOK, Keep
<1>2. head.ptr # NULL /\ nextptr[t] = next[head.ptr]
  BY <1>1 DEF PopInv
<1>3. stack # << >> /\ stack[1] = head.ptr /\ head.ptr \in Range(stack)
  BY <1>2, HeadIsTop
<1>4. stack \in Seq(Descs) /\ IsInjective(stack)
  BY DEF TypeOK, OneOwner
<1>5. /\ stack' \in Seq(Descs) /\ Len(stack') = Len(stack) - 1 /\ Len(stack) \in Nat \ {0}
      /\ \A i \in 1..(Len(stack) - 1) : stack'[i] = stack[i + 1]
      /\ IsInjective(stack')
      /\ head.ptr \notin Range(stack')
      /\ Range(stack) = Range(stack') \cup {head.ptr}
      /\ Head(stack) = head.ptr
  BY <1>1, <1>3, <1>4, TailFacts
<1>6. head.ptr \in Descs
  BY <1>2 DEF TypeOK, HeadWord, Ptr
<1>7. TypeOK'
  <2>1. head' \in HeadWord
    BY <1>1 DEF HeadWord, TypeOK
  <2>2. held' \in [Threads -> SUBSET Descs]
    BY <1>1, <1>6 DEF TypeOK, PopCasSucceeds
  <2>3. QED
    BY <2>1, <2>2, <1>1, <1>5 DEF TypeOK, PopCasSucceeds
<1>8. nextptr[t] = IF stack' = << >> THEN NULL ELSE stack'[1]
  <2>1. nextptr[t] = IF Len(stack) = 1 THEN NULL ELSE stack[2]
    BY <1>2, <1>3, <1>5 DEF LinksSpellStack
  <2>2. CASE Len(stack) = 1
    BY <2>1, <2>2, <1>5
  <2>3. CASE Len(stack) # 1
    <3>1. 1 \in 1..(Len(stack) - 1) /\ Len(stack') # 0
      BY <2>3, <1>5
    <3>2. stack'[1] = stack[2] /\ stack' # << >>
      <4>1. stack'[1] = stack[1 + 1]
        BY <3>1, <1>5, Zenon
      <4>2. 1 + 1 = 2
        OBVIOUS
      <4>3. stack' # << >>
        BY <3>1
      <4>4. QED
        BY <4>1, <4>2, <4>3
    <3>3. QED
      BY <2>1, <2>3, <3>2
  <2>4. QED
    BY <2>2, <2>3
<1>9. LinksSpellStack'
  <2>1. ASSUME NEW i \in 1..(Len(stack) - 1)
        PROVE  next[stack'[i]] = IF i = Len(stack) - 1 THEN NULL ELSE stack'[i + 1]
    <3>1. i + 1 \in 1..Len(stack) /\ (i + 1 = Len(stack) <=> i = Len(stack) - 1)
          /\ (i # Len(stack) - 1 => i + 1 \in 1..(Len(stack) - 1))
      BY <1>5
    <3>2. stack'[i] = stack[i + 1]
      BY <1>5
    <3>3. next[stack[i + 1]] = IF i + 1 = Len(stack) THEN NULL ELSE stack[(i + 1) + 1]
      BY <3>1 DEF LinksSpellStack
    <3>4. i # Len(stack) - 1 => stack'[i + 1] = stack[(i + 1) + 1]
      BY <3>1, <1>5
    <3>5. QED
      BY <3>1, <3>2, <3>3, <3>4
  <2>2. head'.ptr = nextptr[t]
    BY <1>1
  <2>3. QED
    BY <2>1, <2>2, <1>1, <1>5, <1>8, Zenon DEF LinksSpellStack
<1>10. OneOwner'
  <2>1. ASSUME NEW d \in Descs
        PROVE  d \in Range(stack') \/ \E u \in Threads : d \in held'[u]
    BY <1>1, <1>5 DEF OneOwner
  <2>2. ASSUME NEW u \in Threads
        PROVE  held'[u] \cap Range(stack') = {}
    BY <1>1, <1>5 DEF OneOwner
  <2>3. ASSUME NEW u \in Threads, NEW v \in Threads \ {u}
        PROVE  held'[u] \cap held'[v] = {}
    <3>1. held[u] \cap held[v] = {} /\ head.ptr \notin held[u] /\ head.ptr \notin held[v]
      BY <1>3 DEF OneOwner
    <3>2. QED
      BY <3>1, <1>1
  <2>4. QED
    BY <2>1, <2>2, <2>3, <1>5 DEF OneOwner
<1>11. PushedNotHead' /\ LinkInv'
  BY <1>1 DEF PushedNotHead, LinkInv
<1>12. ChainInv'
  <2> SUFFICES ASSUME NEW u \in Threads, Pushing(u)'
               PROVE  /\ chain[u] \in Chains(held'[u])
                      /\ \A i \in 1..(Len(chain[u]) - 1) :
                            next[chain[u][i]] = chain[u][i + 1]
    BY <1>1 DEF ChainInv, Chains
  <2>1. u # t /\ Pushing(u)
    BY <1>1 DEF Pushing
  <2>2. QED
    BY <2>1, <1>1 DEF ChainInv
<1>13. PopInv'
  <2>1. ASSUME NEW u \in Threads, Popping(u)'
        PROVE  /\ Popping(u) /\ oldhead[u].cnt <= head.cnt
               /\ oldhead[u].cnt = head.cnt => oldhead[u].ptr \notin Range(stack')
    <3>1. Popping(u)
      BY <1>1, <2>1 DEF Popping
    <3>2. QED
      BY <3>1, <1>5 DEF PopInv
  <2>2. ASSUME NEW u \in Threads, pc'[u] = "pop_cas"
        PROVE  oldhead[u].ptr # NULL /\ oldhead[u] # head'
    <3>1. pc[u] = "pop_cas"
      BY <1>1, <2>2
    <3>2. oldhead[u].ptr # NULL
      BY <3>1 DEF PopInv
    <3>3. ASSUME oldhead[u] = head' PROVE FALSE
      <4>1. oldhead[u].cnt = head.cnt /\ oldhead[u].ptr = nextptr[t]
        BY <3>3, <1>1
      <4>2. oldhead[u].ptr \notin Range(stack')
        BY <4>1, <2>1, <2>2 DEF Popping
      <4>3. stack' # << >> /\ oldhead[u].ptr = stack'[1]
        BY <4>1, <3>2, <1>8
      <4>4. 1 \in DOMAIN stack'
        BY <4>3, <1>5
      <4>5. QED
        BY <4>2, <4>3, <4>4 DEF Range
    <3>4. QED
      BY <3>2, <3>3
  <2>3. head'.cnt = head.cnt
    BY <1>1
  <2>4. QED
    BY <2>1, <2>2, <2>3, <1>1 DEF PopInv
<1>14. QED
  BY <1>1, <1>3, <1>5, <1>7, <1>9, <1>10, <1>11, <1>12, <1>13

\* Every step of every thread keeps the inductive invariant.
LEMMA NextKeepsIInv == IInv /\ [Next]_vars => IInv'
<1> SUFFICES ASSUME IInv, [Next]_vars PROVE IInv'
  OBVIOUS
<1>1. CASE UNCHANGED vars
  BY <1>1 DEF IInv, TypeOK, LinksSpellStack, OneOwner, PushedNotHead,
              ChainInv, LinkInv, PopInv, Pushing, Popping, Chains, Last, vars
<1>2. ASSUME NEW t \in Threads, Push(t) PROVE IInv'
  BY <1>2, PrepareKeepsIInv, LoadKeepsIInv, PushLinkKeepsIInv, PushCasKeepsIInv
     DEF Push
<1>3. ASSUME NEW t \in Threads, Pop(t) PROVE IInv'
  BY <1>3, LoadKeepsIInv, PopReadKeepsIInv, PopCasKeepsIInv DEF Pop
<1>4. ASSUME NEW t \in Threads, NEW u \in Threads, Handoff(t, u) PROVE IInv'
  BY <1>4, HandoffKeepsIInv
<1>5. QED
  BY <1>1, <1>2, <1>3, <1>4 DEF Next

\* The inductive invariant holds in every reachable state.
LEMMA IInvIsInvariant == Spec => []IInv
BY InitImpliesIInv, NextKeepsIInv, PTL DEF Spec

-----------------------------------------------------------------------------
(* Theorems *)

\* Every variable of the list keeps its type; in particular the counter of
\* the head word stays in its field.
THEOREM TypeCorrect == Spec => []TypeOK
<1>1. IInv => TypeOK
  BY DEF IInv
<1>2. QED
  BY <1>1, IInvIsInvariant, PTL

\* Whatever pushes and pops of heap_push_partial, heap_pop_partial,
\* small_sb_alloc, small_sb_retire and organize_sb_list overlap, the links in
\* memory always spell the abstract stack.
THEOREM ListIsWellFormed == Spec => []LinksSpellStack
<1>1. IInv => LinksSpellStack
  BY DEF IInv
<1>2. QED
  BY <1>1, IInvIsInvariant, PTL

\* No push or pop loses or duplicates a descriptor: each is in the list
\* once, or in the hands of exactly one thread.
THEOREM ListOwnsOnce == Spec => []OneOwner
<1>1. IInv => OneOwner
  BY DEF IInv
<1>2. QED
  BY <1>1, IInvIsInvariant, PTL

\* The assertion of heap_push_partial never fails.
THEOREM PushAssertionHolds == Spec => []PushedNotHead
<1>1. IInv => PushedNotHead
  BY DEF IInv
<1>2. QED
  BY <1>1, IInvIsInvariant, PTL

\* The lock-free list implements the atomic stack: a push or pop takes
\* effect at its successful CAS, and every other access is a stutter.
THEOREM ListImplementsStack == Spec => ImplementsStack
<1>1. Init => Abs!Init
  BY DEF Init, Abs!Init
<1>2. IInv /\ [Next]_vars => [Abs!Next]_(Abs!vars)
  <2> SUFFICES ASSUME IInv, [Next]_vars
               PROVE  Abs!Next \/ UNCHANGED <<stack, held>>
    BY DEF Abs!vars
  <2>1. CASE UNCHANGED vars
    BY <2>1 DEF vars
  <2>2. ASSUME NEW t \in Threads, Push(t)
        PROVE  Abs!Push(t) \/ UNCHANGED <<stack, held>>
    <3>1. CASE PushCasSucceeds(t)
      <4>1. chain[t] \in Chains(held[t])
        BY <3>1 DEF PushCasSucceeds, IInv, ChainInv, Pushing
      <4>2. chain[t] \in Abs!Chains(held[t])
        BY <4>1 DEF Chains, Abs!Chains, IsInjective, Abs!IsInjective
      <4>3. QED
        BY <3>1, <4>2, Zenon DEF PushCasSucceeds, Abs!Push, Range, Abs!Range
    <3>2. CASE ~PushCasSucceeds(t)
      BY <2>2, <3>2 DEF Push, PushPrepare, PushLoad, PushLink, PushCasFails
    <3>3. QED
      BY <3>1, <3>2
  <2>3. ASSUME NEW t \in Threads, Pop(t)
        PROVE  Abs!Pop(t) \/ UNCHANGED <<stack, held>>
    <3>1. CASE PopCasSucceeds(t)
      <4>1. stack # << >> /\ oldhead[t].ptr = Head(stack)
        BY <3>1, PopCasKeepsIInv
      <4>2. QED
        BY <3>1, <4>1 DEF PopCasSucceeds, Abs!Pop
    <3>2. CASE ~PopCasSucceeds(t)
      BY <2>3, <3>2 DEF Pop, PopLoad, PopEmpty, PopRead, PopCasFails
    <3>3. QED
      BY <3>1, <3>2
  <2>4. ASSUME NEW t \in Threads, NEW u \in Threads, Handoff(t, u)
        PROVE  Abs!Handoff(t, u)
    BY <2>4, Zenon DEF Handoff, Abs!Handoff
  <2>5. QED
    BY <2>1, <2>2, <2>3, <2>4 DEF Next, Abs!Next
<1>3. QED
  BY <1>1, <1>2, IInvIsInvariant, PTL DEF Spec, ImplementsStack, Abs!Spec
=============================================================================

------------------------------ MODULE SumLemmas ------------------------------
(***************************************************************************)
(* Sums over finite sets: what MapThenSumSet of the community modules      *)
(* promises.  It is defined by a recursive function over the subsets of    *)
(* the set, which takes the elements in the order CHOOSE gives; that the   *)
(* order does not matter is what SumTakesAny says.  Instead of by          *)
(* induction, each fact is proved from a smallest set that contradicts it. *)
(***************************************************************************)
EXTENDS Integers, FiniteSetsExt, FiniteSetTheorems, WellFoundedInduction, TLAPS

First(s) == CHOOSE x \in s : TRUE

\* g sums f over every subset of A: the recursion behind MapThenSumSet.
SumsUp(f, A, g) ==
    g = [s \in SUBSET A |->
            IF s = {} THEN 0 ELSE f[First(s)] + g[s \ {First(s)}]]

Total(f, A) == MapThenSumSet(LAMBDA x : f[x], A)

\* Among subsets of a finite set there is one with no proper subset among them.
LEMMA SmallestSet ==
    ASSUME NEW U, IsFiniteSet(U), NEW F, F \subseteq SUBSET U, F # {}
    PROVE  \E s \in F : \A t \in F : t \subseteq s => t = s
<1>1. F \subseteq FiniteSubsetsOf(U)
  BY FS_Subset DEF FiniteSubsetsOf
<1>2. IsWellFoundedOn(StrictSubsetOrdering(U), FiniteSubsetsOf(U))
  BY FS_StrictSubsetOrderingWellFounded
<1>3. PICK s \in F : \A t \in F : ~ (<<t, s>> \in StrictSubsetOrdering(U))
  BY <1>1, <1>2, WFMin
<1>4. \A t \in F : t \subseteq s /\ t # s => <<t, s>> \in StrictSubsetOrdering(U)
  BY DEF StrictSubsetOrdering
<1>5. \A t \in F : t \subseteq s => t = s
  BY <1>3, <1>4
<1> QED BY <1>5

\* The element taken first is one of them, and leaves a finite set.
LEMMA FirstIsIn ==
    ASSUME NEW s, s # {}
    PROVE  /\ First(s) \in s
           /\ s \ {First(s)} \subseteq s /\ s \ {First(s)} # s
           /\ IsFiniteSet(s) => IsFiniteSet(s \ {First(s)})
<1>1. First(s) \in s
  BY DEF First
<1> QED BY <1>1, FS_Subset

\* What the recursion says of one set.
LEMMA SumOfOne ==
    ASSUME NEW f, NEW A, NEW g, SumsUp(f, A, g)
    PROVE  \A s \in SUBSET A : s # {} => g[s] = f[First(s)] + g[s \ {First(s)}]
BY DEF SumsUp

\* And of the empty one.
LEMMA SumOfNone ==
    ASSUME NEW f, NEW A, NEW g, SumsUp(f, A, g)
    PROVE  g[{}] = 0
BY DEF SumsUp

\* Two sums agree on the sets that both know, on whose elements they add the same.
LEMMA SumsAgree ==
    ASSUME NEW f, NEW A, NEW g, SumsUp(f, A, g),
           NEW h, NEW B, NEW k, SumsUp(h, B, k),
           NEW s, s \subseteq A, s \subseteq B, IsFiniteSet(s),
           \A x \in s : f[x] = h[x]
    PROVE  g[s] = k[s]
<1> DEFINE F == {t \in SUBSET s : g[t] # k[t]}
<1> SUFFICES ASSUME g[s] # k[s]
             PROVE  FALSE
  OBVIOUS
<1>1. \E t \in F : \A u \in F : u \subseteq t => u = t
  <2>1. F \subseteq SUBSET s /\ F # {}
    OBVIOUS
  <2> HIDE DEF F
  <2> QED BY <2>1, SmallestSet
<1>2. PICK t \in F : \A u \in F : u \subseteq t => u = t
  BY <1>1
<1>3. t \subseteq A /\ t \subseteq B /\ t \subseteq s
  BY <1>2
<1>4. t # {}
  BY <1>2, <1>3, SumOfNone
<1>5. First(t) \in s /\ t \ {First(t)} \subseteq t /\ t \ {First(t)} # t
  BY <1>3, <1>4, FirstIsIn
<1>6. t \ {First(t)} \notin F
  BY <1>2, <1>5
<1>7. g[t \ {First(t)}] = k[t \ {First(t)}]
  BY <1>3, <1>5, <1>6
<1>8. g[t] = f[First(t)] + g[t \ {First(t)}]
  BY <1>3, <1>4, SumOfOne
<1>9. k[t] = h[First(t)] + k[t \ {First(t)}]
  BY <1>3, <1>4, SumOfOne
<1> QED BY <1>2, <1>5, <1>7, <1>8, <1>9

\* Every finite set has a sum.
LEMMA SumExists ==
    ASSUME NEW f, NEW A, IsFiniteSet(A)
    PROVE  \E g : SumsUp(f, A, g)
<1> DEFINE Summed(s) == \E g : SumsUp(f, s, g)
           F == {s \in SUBSET A : ~Summed(s)}
           W(s) == CHOOSE g : SumsUp(f, s, g)
<1> SUFFICES ASSUME ~Summed(A)
             PROVE  FALSE
  OBVIOUS
<1>1. \E S \in F : \A t \in F : t \subseteq S => t = S
  <2>1. F \subseteq SUBSET A /\ F # {}
    OBVIOUS
  <2> HIDE DEF F
  <2> QED BY <2>1, SmallestSet
<1>2. PICK S \in F : \A t \in F : t \subseteq S => t = S
  BY <1>1
<1>3. ASSUME NEW t, t \subseteq S, t # S
      PROVE  SumsUp(f, t, W(t)) /\ IsFiniteSet(t)
  <2>1. Summed(t)
    BY <1>2, <1>3
  <2>2. IsFiniteSet(t)
    BY <1>2, <1>3, FS_Subset
  <2> QED BY <2>1, <2>2
<1> DEFINE V(t) == W(t)[t]
           g == [s \in SUBSET S |->
                   IF s = {} THEN 0 ELSE f[First(s)] + V(s \ {First(s)})]
<1>4. ASSUME NEW s, s \subseteq S, s # {}
      PROVE  g[s \ {First(s)}] = V(s \ {First(s)})
  <2> DEFINE t == s \ {First(s)}
  <2>1. t \subseteq S /\ t # S
    BY <1>4, FirstIsIn
  <2>2. SumsUp(f, t, W(t)) /\ IsFiniteSet(t)
    BY <1>3, <2>1
  <2>3. CASE t = {}
    <3>1. V(t) = 0
      BY <2>2, <2>3, SumOfNone
    <3> QED BY <2>1, <2>3, <3>1
  <2>4. CASE t # {}
    <3> DEFINE u == t \ {First(t)}
    <3>1. u \subseteq t /\ u \subseteq S /\ u # S /\ IsFiniteSet(u)
      BY <2>1, <2>2, <2>4, FirstIsIn
    <3>2. SumsUp(f, u, W(u))
      BY <1>3, <3>1
    <3>3. W(t)[u] = V(u)
      BY <2>2, <3>1, <3>2, SumsAgree
    <3>4. V(t) = f[First(t)] + W(t)[u]
      <4>1. t \subseteq t
        OBVIOUS
      <4>2. \A h : SumsUp(f, t, h) => h[t] = f[First(t)] + h[u]
        <5> HIDE DEF t
        <5> QED BY <2>4, <4>1, SumOfOne
      <4> QED BY <2>2, <4>2
    <3>5. g[t] = f[First(t)] + V(u)
      BY <2>1, <2>4
    <3> QED BY <3>3, <3>4, <3>5
  <2> QED BY <2>3, <2>4
<1>5. SumsUp(f, S, g)
  <2>1. \A s \in SUBSET S : s # {} => g[s] = f[First(s)] + g[s \ {First(s)}]
    BY <1>4
  <2>2. g = [s \in SUBSET S |-> IF s = {} THEN 0 ELSE f[First(s)] + g[s \ {First(s)}]]
    <3> HIDE DEF V
    <3> QED BY <2>1
  <2> HIDE DEF g
  <2> QED BY <2>2 DEF SumsUp
<1> QED BY <1>2, <1>5

\* Sums of integers are integers.
LEMMA SumIsInt ==
    ASSUME NEW f, NEW A, NEW g, SumsUp(f, A, g), IsFiniteSet(A), \A x \in A : f[x] \in Int
    PROVE  \A s \in SUBSET A : g[s] \in Int
<1> DEFINE F == {t \in SUBSET A : g[t] \notin Int}
<1> SUFFICES ASSUME F # {}
             PROVE  FALSE
  OBVIOUS
<1>1. \E t \in F : \A u \in F : u \subseteq t => u = t
  <2>1. F \subseteq SUBSET A
    OBVIOUS
  <2> HIDE DEF F
  <2> QED BY <2>1, SmallestSet
<1>2. PICK t \in F : \A u \in F : u \subseteq t => u = t
  BY <1>1
<1>3. t # {}
  <2>1. g[t] \notin Int /\ t \subseteq A
    BY <1>2
  <2> HIDE DEF F
  <2>2. g[{}] = 0
    BY SumOfNone
  <2> QED BY <2>1, <2>2
<1>4. First(t) \in A /\ t \ {First(t)} \in SUBSET A /\ t \ {First(t)} \notin F
  BY <1>2, <1>3, FirstIsIn
<1>5. g[t] = f[First(t)] + g[t \ {First(t)}]
  <2>1. t \subseteq A
    BY <1>2
  <2> HIDE DEF F
  <2> QED BY <1>3, <2>1, SumOfOne
<1> QED BY <1>2, <1>4, <1>5

\* Any element may be taken first.
LEMMA SumTakesAny ==
    ASSUME NEW f, NEW A, NEW g, SumsUp(f, A, g), IsFiniteSet(A),
           \A x \in A : f[x] \in Int, NEW y \in A
    PROVE  g[A] = f[y] + g[A \ {y}]
<1> DEFINE F == {s \in SUBSET A : \E x \in s : g[s] # f[x] + g[s \ {x}]}
<1> SUFFICES ASSUME A \in F
             PROVE  FALSE
  OBVIOUS
<1>1. \E s \in F : \A u \in F : u \subseteq s => u = s
  <2>1. F \subseteq SUBSET A /\ F # {}
    OBVIOUS
  <2> HIDE DEF F
  <2> QED BY <2>1, SmallestSet
<1>2. PICK s \in F : \A u \in F : u \subseteq s => u = s
  BY <1>1
<1>3. PICK x \in s : g[s] # f[x] + g[s \ {x}]
  BY <1>2
<1> DEFINE c == First(s)
<1>4. c \in s /\ g[s] = f[c] + g[s \ {c}]
  <2>1. s # {} /\ s \subseteq A
    BY <1>2, <1>3
  <2> HIDE DEF F
  <2>2. g[s] = f[First(s)] + g[s \ {First(s)}]
    BY <2>1, SumOfOne
  <2> QED BY <2>1, <2>2, FirstIsIn
<1>5. c # x
  BY <1>3, <1>4
<1> HIDE DEF c
<1>6. s \ {c} \notin F /\ s \ {x} \notin F /\ s \ {c} \in SUBSET A /\ s \ {x} \in SUBSET A
  BY <1>2, <1>3, <1>4
<1>7. g[s \ {c}] = f[x] + g[(s \ {c}) \ {x}]
  BY <1>3, <1>5, <1>6
<1>8. g[s \ {x}] = f[c] + g[(s \ {x}) \ {c}]
  BY <1>4, <1>5, <1>6
<1>9. (s \ {c}) \ {x} = (s \ {x}) \ {c}
  OBVIOUS
<1>10. f[c] \in Int /\ f[x] \in Int /\ g[(s \ {x}) \ {c}] \in Int
  BY <1>2, <1>3, <1>4, SumIsInt
<1>11. g[s] = f[x] + (f[c] + g[(s \ {x}) \ {c}])
  <2>1. g[s] = f[c] + (f[x] + g[(s \ {x}) \ {c}])
    BY <1>4, <1>7, <1>9
  <2> HIDE DEF F
  <2> QED BY <1>10, <2>1
<1> QED BY <1>3, <1>8, <1>11

-----------------------------------------------------------------------------
(* The sum itself.                                                         *)

\* MapThenSumSet is such a sum.
LEMMA TotalSums ==
    ASSUME NEW f, NEW A, IsFiniteSet(A)
    PROVE  \E g : SumsUp(f, A, g) /\ Total(f, A) = g[A]
<1>1. Total(f, A) = (CHOOSE g : SumsUp(f, A, g))[A]
  BY DEF Total, MapThenSumSet, MapThenFoldSet, SumsUp, First
<1> QED BY <1>1, SumExists

\* A sum over nothing is zero.
LEMMA TotalOfNone == ASSUME NEW f PROVE Total(f, {}) = 0
<1>1. PICK g : SumsUp(f, {}, g) /\ Total(f, {}) = g[{}]
  BY TotalSums, FS_EmptySet
<1> QED BY <1>1, SumOfNone

\* Only the values on the set matter.
LEMMA TotalSame ==
    ASSUME NEW f, NEW h, NEW A, IsFiniteSet(A), \A x \in A : f[x] = h[x]
    PROVE  Total(f, A) = Total(h, A)
<1>1. PICK g : SumsUp(f, A, g) /\ Total(f, A) = g[A]
  BY TotalSums
<1>2. PICK k : SumsUp(h, A, k) /\ Total(h, A) = k[A]
  BY TotalSums
<1>3. g[A] = k[A]
  BY <1>1, <1>2, SumsAgree
<1> QED BY <1>1, <1>2, <1>3

\* One more element adds its value.
LEMMA TotalAdds ==
    ASSUME NEW f, NEW A, IsFiniteSet(A), NEW y, y \notin A,
           \A x \in A \cup {y} : f[x] \in Int
    PROVE  Total(f, A \cup {y}) = Total(f, A) + f[y] /\ Total(f, A) \in Int
<1> DEFINE B == A \cup {y}
<1>1. IsFiniteSet(B) /\ B \ {y} = A /\ y \in B /\ A \subseteq B
  BY FS_AddElement
<1>2. PICK g : SumsUp(f, B, g) /\ Total(f, B) = g[B]
  BY <1>1, TotalSums
<1>3. PICK k : SumsUp(f, A, k) /\ Total(f, A) = k[A]
  BY TotalSums
<1>4. g[B] = f[y] + g[A]
  <2>1. g[B] = f[y] + g[B \ {y}]
    BY <1>1, <1>2, SumTakesAny
  <2> QED BY <1>1, <2>1
<1>5. g[A] = k[A]
  BY <1>1, <1>2, <1>3, SumsAgree
<1>6. k[A] \in Int
  BY <1>3, SumIsInt
<1> QED BY <1>2, <1>3, <1>4, <1>5, <1>6
-----------------------------------------------------------------------------
(* The sum of one field of a table's records.                              *)

AmountIn(book, S) == MapThenSumSet(LAMBDA r : book[r].amount, S)

\* It is a sum of a function.
LEMMA AmountTotal ==
    ASSUME NEW book, NEW S, IsFiniteSet(S)
    PROVE  AmountIn(book, S) = Total([r \in S |-> book[r].amount], S)
<1> DEFINE f == [r \in S |-> book[r].amount]
           Recurs(g) == g = [s \in SUBSET S |->
                               IF s = {} THEN 0
                               ELSE book[First(s)].amount + g[s \ {First(s)}]]
           W == CHOOSE g : Recurs(g)
<1>1. AmountIn(book, S) = W[S]
  BY DEF AmountIn, MapThenSumSet, MapThenFoldSet, First
<1>2. \A s \in SUBSET S : s # {} => f[First(s)] = book[First(s)].amount
  BY FirstIsIn
<1>3. \A g : SumsUp(f, S, g) <=> Recurs(g)
  BY <1>2 DEF SumsUp
<1>4. PICK g : SumsUp(f, S, g) /\ Total(f, S) = g[S]
  <2> HIDE DEF f
  <2> QED BY TotalSums
<1>5. SumsUp(f, S, W)
  <2>1. \E h : Recurs(h)
    BY <1>3, <1>4
  <2>2. Recurs(W)
    <3> HIDE DEF Recurs
    <3> QED BY <2>1
  <2> HIDE DEF f, W, Recurs
  <2> QED BY <1>3, <2>2
<1>6. W[S] = g[S]
  <2> HIDE DEF f, W, Recurs
  <2>1. S \subseteq S
    OBVIOUS
  <2> QED BY <1>4, <1>5, <2>1, SumsAgree
<1> QED BY <1>1, <1>4, <1>6

\* Only the records in the set matter.
LEMMA AmountSame ==
    ASSUME NEW book, NEW later, NEW S, IsFiniteSet(S), \A r \in S : later[r] = book[r]
    PROVE  AmountIn(later, S) = AmountIn(book, S)
<1> DEFINE f == [r \in S |-> book[r].amount]
           h == [r \in S |-> later[r].amount]
<1>1. AmountIn(book, S) = Total(f, S) /\ AmountIn(later, S) = Total(h, S)
  BY AmountTotal
<1>2. f = h
  OBVIOUS
<1> QED BY <1>1, <1>2

\* One more record brings its own amount.
LEMMA AmountAdds ==
    ASSUME NEW book, NEW S, IsFiniteSet(S), NEW r, r \notin S,
           \A s \in S \cup {r} : book[s].amount \in Nat
    PROVE  AmountIn(book, S \cup {r}) = AmountIn(book, S) + book[r].amount
<1> DEFINE f == [s \in S |-> book[s].amount]
           h == [s \in S \cup {r} |-> book[s].amount]
<1>1. IsFiniteSet(S \cup {r})
  BY FS_AddElement
<1>2. AmountIn(book, S) = Total(f, S) /\ AmountIn(book, S \cup {r}) = Total(h, S \cup {r})
  BY <1>1, AmountTotal
<1>3. /\ \A s \in S : h[s] = f[s]
      /\ \A s \in S \cup {r} : h[s] \in Int
      /\ h[r] = book[r].amount
  OBVIOUS
<1> HIDE DEF f, h
<1>4. Total(h, S) = Total(f, S)
  BY <1>3, TotalSame
<1>5. Total(h, S \cup {r}) = Total(h, S) + h[r]
  BY <1>3, TotalAdds
<1> QED BY <1>2, <1>3, <1>4, <1>5

\* No records, no amount.
LEMMA NoAmount == \A book : AmountIn(book, {}) = 0
<1> SUFFICES ASSUME NEW book
             PROVE  AmountIn(book, {}) = 0
  OBVIOUS
<1>1. AmountIn(book, {}) = Total([r \in {} |-> book[r].amount], {})
  BY AmountTotal, FS_EmptySet
<1> QED BY <1>1, TotalOfNone
=============================================================================

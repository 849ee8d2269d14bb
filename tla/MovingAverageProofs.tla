------------------------- MODULE MovingAverageProofs -------------------------
(***************************************************************************)
(* What the operations of moving_average.c do to the ring buffer, for any  *)
(* size and any values: the running sum is the sum of the buffer, and the  *)
(* ring read back from its oldest slot is the sliding window of            *)
(* SlidingWindow.tla.                                                      *)
(*                                                                         *)
(* The facts about sums come first; the proofs about the calibration and   *)
(* the HX711 driver use them too.                                          *)
(***************************************************************************)
EXTENDS MovingAverageCalls, FiniteSetTheorems, SequenceTheorems, TLAPS

-----------------------------------------------------------------------------
(***************************************************************************)
(* Sums.  SumFunctionOnSet takes the elements of a set one by one, in an   *)
(* order that CHOOSE gives.  What it computes is proved by induction on    *)
(* the subsets of the set: a collection of subsets that has each one of    *)
(* which it has all the smaller ones, has them all.                        *)
(***************************************************************************)
LEMMA SubsetInduction ==
  ASSUME NEW S, IsFiniteSet(S), NEW G,
         \A T \in SUBSET S : (\A R \in SUBSET T : R # T => R \in G) => T \in G
  PROVE  \A T \in SUBSET S : T \in G
<1> SUFFICES ASSUME NEW U \in SUBSET S, U \notin G PROVE FALSE
  OBVIOUS
<1> DEFINE Missing == (SUBSET S) \ G
<1>1. IsWellFoundedOn(StrictSubsetOrdering(S), SUBSET S)
  <2>1. FiniteSubsetsOf(S) = SUBSET S
    BY FS_FiniteSubsetsOfFinite
  <2>2. IsWellFoundedOn(StrictSubsetOrdering(S), FiniteSubsetsOf(S))
    BY FS_StrictSubsetOrderingWellFounded
  <2> QED BY <2>1, <2>2, Zenon
<1>2. PICK T \in Missing : \A R \in Missing : ~(<<R, T>> \in StrictSubsetOrdering(S))
  <2>1. Missing \subseteq SUBSET S /\ Missing # {}
    OBVIOUS
  <2> HIDE DEF Missing
  <2> QED BY <1>1, <2>1, WFMin
<1>3. \A R \in SUBSET T : R # T => <<R, T>> \in StrictSubsetOrdering(S)
  BY DEF StrictSubsetOrdering
<1>4. T \in SUBSET S /\ T \notin G
  BY <1>2
<1>5. ASSUME NEW R \in SUBSET T, R # T PROVE R \in G
  <2>1. R \notin Missing
    BY <1>2, <1>3, <1>5
  <2> QED BY <1>4, <2>1
<1> QED BY <1>4, <1>5

\* The element taken first, and the equation that defines the sums of f over the
\* subsets of S.
First(T) == CHOOSE x \in T : TRUE
Summed(f, S, h) ==
  [T \in SUBSET S |-> IF T = {} THEN 0 ELSE f[First(T)] + h[T \ {First(T)}]]

LEMMA FirstIn == ASSUME NEW T, T # {} PROVE First(T) \in T
BY DEF First

\* The library gives a sum as what CHOOSE finds for that equation,
LEMMA SumIsChosen ==
  ASSUME NEW f, NEW S PROVE SumFunctionOnSet(f, S) = (CHOOSE h : h = Summed(f, S, h))[S]
BY DEF SumFunctionOnSet, FoldFunctionOnSet, MapThenFoldSet, Summed, First

\* which is read off at one subset,
LEMMA SummedAt ==
  ASSUME NEW f, NEW S, NEW h, h = Summed(f, S, h), NEW T \in SUBSET S
  PROVE  h[T] = IF T = {} THEN 0 ELSE f[First(T)] + h[T \ {First(T)}]
BY Zenon DEF Summed

\* The equation determines the sums, which depend on nothing but the summands.
LEMMA SumsAgree ==
  ASSUME NEW f, NEW S, NEW h, h = Summed(f, S, h),
         NEW g, NEW R, NEW k, k = Summed(g, R, k),
         NEW U, IsFiniteSet(U), U \subseteq S, U \subseteq R, \A x \in U : f[x] = g[x]
  PROVE  h[U] = k[U]
<1> DEFINE G == {T \in SUBSET U : h[T] = k[T]}
<1>1. \A T \in SUBSET S : h[T] = IF T = {} THEN 0 ELSE f[First(T)] + h[T \ {First(T)}]
  BY Zenon DEF Summed
<1>2. \A T \in SUBSET R : k[T] = IF T = {} THEN 0 ELSE g[First(T)] + k[T \ {First(T)}]
  BY Zenon DEF Summed
<1>3. ASSUME NEW T \in SUBSET U, \A Q \in SUBSET T : Q # T => Q \in G
      PROVE  T \in G
  <2>1. /\ h[T] = IF T = {} THEN 0 ELSE f[First(T)] + h[T \ {First(T)}]
        /\ k[T] = IF T = {} THEN 0 ELSE g[First(T)] + k[T \ {First(T)}]
    BY <1>1, <1>2
  <2>2. CASE T = {}
    BY <2>1, <2>2
  <2>3. CASE T # {}
    <3>1. First(T) \in T
      BY <2>3, FirstIn
    <3>2. h[T \ {First(T)}] = k[T \ {First(T)}]
      BY <1>3, <3>1
    <3> QED BY <2>1, <2>3, <3>1, <3>2
  <2> QED BY <2>2, <2>3
<1> HIDE DEF G
<1>4. U \in G
  BY <1>3, SubsetInduction
<1> QED BY <1>4 DEF G

\* There is a solution of the equation, put together from those for the smaller
\* sets.
LEMMA SumsExist ==
  ASSUME NEW f, NEW S, IsFiniteSet(S) PROVE \E h : h = Summed(f, S, h)
<1> DEFINE G == {T \in SUBSET S : \E h : h = Summed(f, T, h)}
<1>1. ASSUME NEW T \in SUBSET S, \A Q \in SUBSET T : Q # T => Q \in G
      PROVE  T \in G
  <2> DEFINE Sol(Q) == CHOOSE h : h = Summed(f, Q, h)
             h == [Q \in SUBSET T |->
                     IF Q = {} THEN 0
                     ELSE f[First(Q)] + Sol(Q \ {First(Q)})[Q \ {First(Q)}]]
  <2>1. \A Q \in SUBSET T : Q # T => Sol(Q) = Summed(f, Q, Sol(Q))
    BY <1>1, Zenon
  <2> HIDE DEF Sol
  <2>2. ASSUME NEW Q \in SUBSET T, Q # T PROVE h[Q] = Sol(Q)[Q]
    <3>1. Sol(Q)[Q] = IF Q = {} THEN 0 ELSE f[First(Q)] + Sol(Q)[Q \ {First(Q)}]
      BY <2>1, <2>2, SummedAt
    <3>2. CASE Q = {}
      BY <3>1, <3>2
    <3>3. CASE Q # {}
      <4> DEFINE P == Q \ {First(Q)}
      <4>1. First(Q) \in Q /\ P \in SUBSET T /\ P # T /\ P \subseteq Q
        BY <3>3, FirstIn
      <4>2. IsFiniteSet(P)
        BY FS_Subset
      <4>3. Sol(Q)[P] = Sol(P)[P]
        <5> HIDE DEF P
        <5> QED BY <2>1, <2>2, <4>1, <4>2, SumsAgree
      <4> QED BY <3>1, <3>3, <4>3
    <3> QED BY <3>2, <3>3
  <2>3. ASSUME NEW Q \in SUBSET T
        PROVE  h[Q] = IF Q = {} THEN 0 ELSE f[First(Q)] + h[Q \ {First(Q)}]
    <3>1. CASE Q # {}
      <4>1. First(Q) \in Q
        BY <3>1, FirstIn
      <4>2. Q \ {First(Q)} \in SUBSET T /\ Q \ {First(Q)} # T
        BY <4>1
      <4>3. h[Q \ {First(Q)}] = Sol(Q \ {First(Q)})[Q \ {First(Q)}]
        BY <2>2, <4>2
      <4> QED BY <3>1, <4>3
    <3> QED BY <3>1
  <2>4. h = [Q \in SUBSET T |-> h[Q]]
    OBVIOUS
  <2> HIDE DEF h
  <2>5. h = Summed(f, T, h)
    BY <2>3, <2>4, Zenon DEF Summed
  <2> QED BY <2>5
<1> HIDE DEF G
<1>2. S \in G
  BY <1>1, SubsetInduction
<1> QED BY <1>2 DEF G

\* and the function found solves it.
LEMMA SumSolves ==
  ASSUME NEW f, NEW S, IsFiniteSet(S)
  PROVE  \E h : h = Summed(f, S, h) /\ SumFunctionOnSet(f, S) = h[S]
<1> DEFINE h == CHOOSE h : h = Summed(f, S, h)
<1>1. h = Summed(f, S, h)
  BY SumsExist, Zenon
<1>2. SumFunctionOnSet(f, S) = h[S]
  BY SumIsChosen
<1> HIDE DEF h
<1> QED BY <1>1, <1>2

\* Equal summands have equal sums.
LEMMA SumSame ==
  ASSUME NEW S, IsFiniteSet(S), NEW f, NEW g, \A x \in S : f[x] = g[x]
  PROVE  SumFunctionOnSet(f, S) = SumFunctionOnSet(g, S)
<1>1. PICK h : h = Summed(f, S, h) /\ SumFunctionOnSet(f, S) = h[S]
  BY SumSolves
<1>2. PICK k : k = Summed(g, S, k) /\ SumFunctionOnSet(g, S) = k[S]
  BY SumSolves
<1> QED BY <1>1, <1>2, SumsAgree

\* There is nothing to add up in no set.
LEMMA SumEmpty == ASSUME NEW f PROVE SumFunctionOnSet(f, {}) = 0
<1>1. PICK h : h = Summed(f, {}, h) /\ SumFunctionOnSet(f, {}) = h[{}]
  BY SumSolves, FS_EmptySet
<1> QED BY <1>1, SummedAt

\* The element taken first, as an equation between sums.
LEMMA SumFirst ==
  ASSUME NEW f, NEW S, IsFiniteSet(S), S # {}
  PROVE  SumFunctionOnSet(f, S) = f[First(S)] + SumFunctionOnSet(f, S \ {First(S)})
<1> DEFINE R == S \ {First(S)}
<1>1. PICK h : h = Summed(f, S, h) /\ SumFunctionOnSet(f, S) = h[S]
  BY SumSolves
<1>2. IsFiniteSet(R)
  BY FS_RemoveElement
<1>3. PICK k : k = Summed(f, R, k) /\ SumFunctionOnSet(f, R) = k[R]
  BY <1>2, SumSolves
<1>4. h[R] = k[R]
  BY <1>1, <1>2, <1>3, SumsAgree
<1>5. h[S] = f[First(S)] + h[R]
  BY <1>1, SummedAt
<1> QED BY <1>1, <1>3, <1>4, <1>5

\* A sum of integers is an integer, and any of them can be taken out first.
THEOREM SumTakes ==
  ASSUME NEW S, IsFiniteSet(S), NEW f, \A x \in S : f[x] \in Int
  PROVE  /\ SumFunctionOnSet(f, S) \in Int
         /\ \A x \in S : SumFunctionOnSet(f, S) = f[x] + SumFunctionOnSet(f, S \ {x})
<1> DEFINE Sum(T) == SumFunctionOnSet(f, T)
           Takes(T) == Sum(T) \in Int /\ \A x \in T : Sum(T) = f[x] + Sum(T \ {x})
           G == {T \in SUBSET S : Takes(T)}
<1>1. ASSUME NEW T \in SUBSET S, \A Q \in SUBSET T : Q # T => Q \in G
      PROVE  T \in G
  <2>1. CASE T = {}
    <3>1. Sum(T) = 0
      BY <2>1, SumEmpty
    <3> QED BY <2>1, <3>1
  <2>2. CASE T # {}
    <3> DEFINE p == First(T)
    <3>1. p \in T /\ f[p] \in Int
      BY <2>2, FirstIn
    <3>2. Sum(T) = f[p] + Sum(T \ {p})
      BY <2>2, SumFirst, FS_Subset
    <3>3. \A Q \in SUBSET T : Q # T => Takes(Q)
      BY <1>1
    <3> HIDE DEF p, Sum, G
    <3>4. Sum(T) \in Int
      BY <3>1, <3>2, <3>3
    <3>5. ASSUME NEW x \in T, x # p PROVE Sum(T) = f[x] + Sum(T \ {x})
      <4> DEFINE R == (T \ {p}) \ {x}
      <4>1. Sum(T \ {p}) = f[x] + Sum(R)
        BY <3>1, <3>3, <3>5
      <4>2. Sum(T \ {x}) = f[p] + Sum((T \ {x}) \ {p})
        BY <3>1, <3>3, <3>5
      <4>3. (T \ {x}) \ {p} = R /\ R \in SUBSET T /\ R # T
        BY <3>1
      <4>4. Sum(R) \in Int /\ f[x] \in Int
        BY <3>3, <4>3
      <4>5. Sum(T \ {x}) = f[p] + Sum(R)
        BY <4>2, <4>3
      <4>6. Sum(T) = f[p] + (f[x] + Sum(R))
        BY <3>2, <4>1
      <4> HIDE DEF R
      <4>7. f[p] + (f[x] + Sum(R)) = f[x] + (f[p] + Sum(R))
        BY <3>1, <4>4
      <4> QED BY <4>5, <4>6, <4>7
    <3>6. Takes(T)
      BY <3>2, <3>4, <3>5
    <3> QED BY <3>6 DEF G
  <2> QED BY <2>1, <2>2
<1> HIDE DEF G
<1>2. S \in G
  BY <1>1, SubsetInduction
<1> QED BY <1>2 DEF G

\* A quotient lies in a range that the dividend lies in the multiples of.
LEMMA QuotientInRange ==
  ASSUME NEW s \in Int, NEW n \in Nat \ {0}, NEW lo \in Int, NEW hi \in Int,
         n * lo <= s, s <= n * hi
  PROVE  s \div n \in lo..hi /\ -((-s) \div n) \in lo..hi
OBVIOUS

\* The index before it wraps.
LEMMA SmallModulo == ASSUME NEW a \in Nat, NEW n \in Nat \ {0}, a < n PROVE a % n = a
OBVIOUS

\* An interval with its end taken off.
LEMMA OneMore ==
  ASSUME NEW n \in Int, NEW m \in Int PROVE (n + 1) * m = n * m + m /\ n * m \in Int
OBVIOUS

\* Numbers between two bounds have a mean between them.
THEOREM SumBounds ==
  ASSUME NEW S, IsFiniteSet(S), NEW f, NEW lo \in Int, NEW hi \in Int,
         \A x \in S : f[x] \in Int /\ lo <= f[x] /\ f[x] <= hi
  PROVE  /\ Cardinality(S) * lo <= SumFunctionOnSet(f, S)
         /\ SumFunctionOnSet(f, S) <= Cardinality(S) * hi
<1> DEFINE Sum(T) == SumFunctionOnSet(f, T)
           G == {T \in SUBSET S : Cardinality(T) * lo <= Sum(T) /\ Sum(T) <= Cardinality(T) * hi}
<1>1. ASSUME NEW T \in SUBSET S, \A Q \in SUBSET T : Q # T => Q \in G
      PROVE  T \in G
  <2>1. CASE T = {}
    <3>1. Sum(T) = 0 /\ Cardinality(T) = 0
      BY <2>1, SumEmpty, FS_EmptySet
    <3> QED BY <3>1
  <2>2. CASE T # {}
    <3>1. PICK x \in T : TRUE
      BY <2>2
    <3> DEFINE R == T \ {x}
    <3>2. IsFiniteSet(T) /\ IsFiniteSet(R) /\ R \in SUBSET S
      BY FS_Subset
    <3>3. Sum(T) = f[x] + Sum(R) /\ Sum(R) \in Int
      BY <3>2, SumTakes
    <3>4. Cardinality(R) \in Nat /\ Cardinality(T) = Cardinality(R) + 1
      BY <3>1, <3>2, FS_RemoveElement, FS_CardinalityType
    <3>5. Cardinality(R) * lo <= Sum(R) /\ Sum(R) <= Cardinality(R) * hi
      BY <1>1, <3>1
    <3> HIDE DEF R, Sum
    <3>6. /\ Cardinality(T) * lo = Cardinality(R) * lo + lo
          /\ Cardinality(T) * hi = Cardinality(R) * hi + hi
          /\ Cardinality(R) * lo \in Int /\ Cardinality(R) * hi \in Int
      <4>1. Cardinality(R) \in Int
        BY <3>4
      <4> QED BY <3>4, <4>1, OneMore, Zenon
    <3>7. f[x] \in Int /\ lo <= f[x] /\ f[x] <= hi
      OBVIOUS
    <3>8. Cardinality(T) * lo <= Sum(T) /\ Sum(T) <= Cardinality(T) * hi
      BY <3>3, <3>5, <3>6, <3>7
    <3> QED BY <3>8
  <2> QED BY <2>1, <2>2
<1> HIDE DEF G
<1>2. S \in G
  BY <1>1, SubsetInduction
<1> QED BY <1>2 DEF G

\* Replacing one summand.
THEOREM SumExcept ==
  ASSUME NEW S, IsFiniteSet(S), NEW f \in [S -> Int], NEW x \in S, NEW v \in Int
  PROVE  SumFunctionOnSet([f EXCEPT ![x] = v], S) = SumFunctionOnSet(f, S) - f[x] + v
<1> DEFINE g == [f EXCEPT ![x] = v]
           R == S \ {x}
<1>1. g \in [S -> Int] /\ g[x] = v /\ \A y \in R : g[y] = f[y]
  OBVIOUS
<1>2. IsFiniteSet(R)
  BY FS_RemoveElement
<1> HIDE DEF g
<1>3. SumFunctionOnSet(g, R) = SumFunctionOnSet(f, R)
  BY <1>1, <1>2, SumSame
<1>4. SumFunctionOnSet(g, S) = v + SumFunctionOnSet(g, R)
  BY <1>1, SumTakes
<1>5. SumFunctionOnSet(f, S) = f[x] + SumFunctionOnSet(f, R)
  BY SumTakes
<1>6. SumFunctionOnSet(f, R) \in Int /\ f[x] \in Int
  BY <1>2, SumTakes
<1> QED BY <1>3, <1>4, <1>5, <1>6 DEF g

\* Zeros add nothing.
LEMMA SumWithoutZeros ==
  ASSUME NEW S, IsFiniteSet(S), NEW f, \A x \in S : f[x] \in Int,
         NEW R, \A x \in S \ R : f[x] = 0
  PROVE  SumFunctionOnSet(f, S) = SumFunctionOnSet(f, S \cap R)
<1> DEFINE Sum(T) == SumFunctionOnSet(f, T)
           G == {T \in SUBSET S : Sum(T) = Sum(T \cap R)}
<1>1. ASSUME NEW T \in SUBSET S, \A Q \in SUBSET T : Q # T => Q \in G
      PROVE  T \in G
  <2>1. CASE T = {}
    <3>1. T \cap R = T
      BY <2>1
    <3> QED BY <3>1
  <2>2. CASE T # {}
    <3>1. PICK x \in T : TRUE
      BY <2>2
    <3>2. IsFiniteSet(T) /\ IsFiniteSet(T \cap R)
      BY FS_Subset
    <3>3. Sum(T) = f[x] + Sum(T \ {x}) /\ Sum(T \ {x}) \in Int
      BY <3>2, SumTakes, FS_RemoveElement
    <3>4. Sum(T \ {x}) = Sum((T \ {x}) \cap R)
      BY <1>1, <3>1
    <3>5. CASE x \in R
      <4>1. Sum(T \cap R) = f[x] + Sum((T \cap R) \ {x})
        BY <3>1, <3>2, <3>5, SumTakes
      <4>2. (T \cap R) \ {x} = (T \ {x}) \cap R
        OBVIOUS
      <4> QED BY <3>3, <3>4, <4>1, <4>2
    <3>6. CASE x \notin R
      <4>1. (T \ {x}) \cap R = T \cap R /\ f[x] = 0
        BY <3>6
      <4>2. Sum(T) = Sum(T \ {x})
        BY <3>3, <4>1
      <4> QED BY <3>4, <4>1, <4>2
    <3> QED BY <3>5, <3>6
  <2> QED BY <2>1, <2>2
<1> HIDE DEF G
<1>2. S \in G
  BY <1>1, SubsetInduction
<1> QED BY <1>2 DEF G

\* The same numbers in other places have the same sum.
THEOREM SumMoved ==
  ASSUME NEW S, IsFiniteSet(S), NEW f, NEW g, NEW p,
         \A x \in S : g[p[x]] \in Int /\ f[x] = g[p[x]],
         \A x, y \in S : p[x] = p[y] => x = y
  PROVE  SumFunctionOnSet(f, S) = SumFunctionOnSet(g, {p[x] : x \in S})
<1> DEFINE To(T) == {p[x] : x \in T}
           G == {T \in SUBSET S : /\ IsFiniteSet(To(T))
                                  /\ SumFunctionOnSet(f, T) = SumFunctionOnSet(g, To(T))}
<1>1. ASSUME NEW T \in SUBSET S, \A Q \in SUBSET T : Q # T => Q \in G
      PROVE  T \in G
  <2>1. CASE T = {}
    <3>1. To(T) = {}
      BY <2>1
    <3> QED BY <2>1, <3>1, SumEmpty, FS_EmptySet
  <2>2. CASE T # {}
    <3>1. PICK x \in T : TRUE
      BY <2>2
    <3> DEFINE R == T \ {x}
    <3>2. IsFiniteSet(To(R)) /\ SumFunctionOnSet(f, R) = SumFunctionOnSet(g, To(R))
      BY <1>1, <3>1
    <3>3. To(T) = To(R) \cup {p[x]} /\ To(R) = To(T) \ {p[x]} /\ p[x] \in To(T)
      BY <3>1
    <3>4. IsFiniteSet(To(T))
      <4> HIDE DEF To
      <4>1. IsFiniteSet(To(R) \cup {p[x]})
        BY <3>2, FS_AddElement
      <4> QED BY <3>3, <4>1
    <3>5. SumFunctionOnSet(f, T) = f[x] + SumFunctionOnSet(f, R)
      BY SumTakes, FS_Subset
    <3>6. SumFunctionOnSet(g, To(T)) = g[p[x]] + SumFunctionOnSet(g, To(R))
      <4>1. \A y \in To(T) : g[y] \in Int
        OBVIOUS
      <4> HIDE DEF To
      <4>2. SumFunctionOnSet(g, To(T)) = g[p[x]] + SumFunctionOnSet(g, To(T) \ {p[x]})
        BY <3>3, <3>4, <4>1, SumTakes
      <4>3. To(R) = To(T) \ {p[x]}
        BY <3>3
      <4> QED BY <4>2, <4>3
    <3>7. f[x] = g[p[x]]
      OBVIOUS
    <3> HIDE DEF To, R
    <3> QED BY <3>2, <3>4, <3>5, <3>6, <3>7
  <2> QED BY <2>1, <2>2
<1> HIDE DEF G
<1>2. S \in G
  BY <1>1, SubsetInduction
<1> QED BY <1>2 DEF G

-----------------------------------------------------------------------------
(***************************************************************************)
(* The ring buffer.                                                        *)
(***************************************************************************)
Fields == {"buffer", "size", "index", "sum", "count", "last_vals", "last_count", "mutex"}
IsRecord(f) == DOMAIN f = Fields /\ f = [x \in DOMAIN f |-> f[x]]

\* MovingAverages field by field, which is how the provers can use it.
InRing(f, n) ==
  /\ f.buffer \in [0..(n - 1) -> Int]
  /\ f.size = n
  /\ f.index \in 0..n /\ (f.index < n \/ f.index = 0)
  /\ f.sum \in Int
  /\ f.count \in 0..n
  /\ f.last_vals \in [1..3 -> Int]
  /\ f.last_count \in 0..3
  /\ f.mutex \in BOOLEAN

\* What it is to be in the set of filters of size n, field by field,
LEMMA RingFields ==
  ASSUME NEW n \in Nat, NEW f \in MovingAverages(n) PROVE IsRecord(f) /\ InRing(f, n)
<1>1. InRing(f, n)
  BY DEF MovingAverages, InRing
<1>2. IsRecord(f)
  BY DEF MovingAverages, IsRecord, Fields
<1> QED BY <1>1, <1>2

\* and conversely.
LEMMA RingIs ==
  ASSUME NEW n \in Nat, NEW f, IsRecord(f), InRing(f, n) PROVE f \in MovingAverages(n)
BY DEF MovingAverages, IsRecord, InRing, Fields

\* A new filter has a buffer of the size asked for (moving_average.c:16-34).
LEMMA InitFields ==
  ASSUME NEW m \in Nat, NEW f \in MovingAverages(m), NEW n \in Nat, NEW b \in BOOLEAN
  PROVE  LET g == moving_average_init(f, n, b)
         IN /\ IsRecord(g)
            /\ g.buffer = [i \in 0..(n - 1) |-> 0]
            /\ g.size = n /\ g.index = 0 /\ g.sum = 0 /\ g.count = 0
            /\ g.last_vals = f.last_vals /\ g.last_count = 0 /\ g.mutex = b
<1>1. IsRecord(f)
  BY RingFields
<1> QED BY <1>1 DEF IsRecord, Fields, moving_average_init

\* A filter that is set up is a ring of the size asked for (moving_average.c:16-34).
LEMMA InitRing ==
  ASSUME NEW m \in Nat, NEW f \in MovingAverages(m), NEW n \in Nat, NEW b \in BOOLEAN
  PROVE  moving_average_init(f, n, b) \in MovingAverages(n)
<1> DEFINE g == moving_average_init(f, n, b)
<1>1. f.last_vals \in [1..3 -> Int]
  BY RingFields DEF InRing
<1>2. /\ IsRecord(g)
      /\ g.buffer = [i \in 0..(n - 1) |-> 0]
      /\ g.size = n /\ g.index = 0 /\ g.sum = 0 /\ g.count = 0
      /\ g.last_vals = f.last_vals /\ g.last_count = 0 /\ g.mutex = b
  BY InitFields
<1> HIDE DEF g
<1>3. InRing(g, n)
  BY <1>1, <1>2 DEF InRing
<1> QED BY <1>2, <1>3, RingIs DEF g

\* What an update writes, field by field (moving_average.c:37-54).
LEMMA UpdateFields ==
  ASSUME NEW n \in Nat \ {0}, NEW f \in MovingAverages(n), NEW v \in Int
  PROVE  LET g == moving_average_update(f, v)
         IN /\ IsRecord(g)
            /\ g.buffer = [f.buffer EXCEPT ![f.index] = v]
            /\ g.size = n /\ g.index = (f.index + 1) % n
            /\ g.sum = f.sum - f.buffer[f.index] + v
            /\ g.count = IF f.count < n THEN f.count + 1 ELSE f.count
            /\ g.last_vals = f.last_vals /\ g.last_count = f.last_count /\ g.mutex = f.mutex
<1> DEFINE g == moving_average_update(f, v)
<1>1. IsRecord(f) /\ f.size = n /\ f.size > 0
  BY RingFields DEF InRing
<1>2. g = [f EXCEPT !.sum = f.sum - f.buffer[f.index] + v,
                    !.buffer = [f.buffer EXCEPT ![f.index] = v],
                    !.index = (f.index + 1) % n,
                    !.count = IF f.count < n THEN f.count + 1 ELSE f.count]
  BY <1>1 DEF moving_average_update, IsRecord, Fields
<1> HIDE DEF g
<1>3. IsRecord(g)
  BY <1>1, <1>2 DEF IsRecord, Fields
<1>4. /\ g.buffer = [f.buffer EXCEPT ![f.index] = v]
      /\ g.size = n /\ g.index = (f.index + 1) % n
      /\ g.sum = f.sum - f.buffer[f.index] + v
      /\ g.count = IF f.count < n THEN f.count + 1 ELSE f.count
  BY <1>1, <1>2 DEF IsRecord, Fields
<1>5. g.last_vals = f.last_vals /\ g.last_count = f.last_count /\ g.mutex = f.mutex
  BY <1>1, <1>2 DEF IsRecord, Fields
<1> QED BY <1>3, <1>4, <1>5 DEF g

\* An update keeps the ring in shape and leaves it with a value at least
\* (moving_average.c:37-54).
THEOREM UpdateRing ==
  ASSUME NEW n \in Nat \ {0}, NEW f \in MovingAverages(n), NEW v \in Int
  PROVE  /\ moving_average_update(f, v) \in MovingAverages(n)
         /\ moving_average_update(f, v).count > 0
<1> DEFINE g == moving_average_update(f, v)
<1>1. InRing(f, n)
  BY RingFields
<1>2. /\ IsRecord(g)
      /\ g.buffer = [f.buffer EXCEPT ![f.index] = v]
      /\ g.size = n /\ g.index = (f.index + 1) % n
      /\ g.sum = f.sum - f.buffer[f.index] + v
      /\ g.count = IF f.count < n THEN f.count + 1 ELSE f.count
      /\ g.last_vals = f.last_vals /\ g.last_count = f.last_count /\ g.mutex = f.mutex
  BY UpdateFields
<1> HIDE DEF g
<1>3. g.index \in 0..(n - 1)
  <2>1. f.index \in Nat
    BY <1>1 DEF InRing
  <2> QED BY <2>1, <1>2
<1>4. g.count \in 0..n /\ g.count > 0
  <2>1. f.count \in 0..n
    BY <1>1 DEF InRing
  <2> QED BY <2>1, <1>2
<1>5. g.buffer \in [0..(n - 1) -> Int]
  BY <1>1, <1>2 DEF InRing
<1>6. g.sum \in Int
  <2>1. f.buffer[f.index] \in Int /\ f.sum \in Int
    BY <1>1 DEF InRing
  <2> QED BY <2>1, <1>2
<1>7. g.last_vals \in [1..3 -> Int] /\ g.last_count \in 0..3 /\ g.mutex \in BOOLEAN
  BY <1>1, <1>2 DEF InRing
<1>8. InRing(g, n)
  <2>1. g.index \in 0..n /\ g.index < n
    BY <1>3
  <2> QED BY <1>2, <1>4, <1>5, <1>6, <1>7, <2>1 DEF InRing
<1> QED BY <1>2, <1>4, <1>8, RingIs DEF g

\* A restart leaves the ring with one value, also when it has room for no more
\* (moving_average.c:110-124).
LEMMA ResetFields ==
  ASSUME NEW n \in Nat \ {0}, NEW f \in MovingAverages(n), NEW v \in Int
  PROVE  LET g == moving_average_reset(f, v)
         IN /\ IsRecord(g)
            /\ g.buffer = [i \in 0..(n - 1) |-> IF i = 0 THEN v ELSE 0]
            /\ g.size = n /\ g.index = 1 % n /\ g.sum = v /\ g.count = 1
            /\ g.last_vals = <<v, v, v>> /\ g.last_count = 3 /\ g.mutex = f.mutex
<1>1. IsRecord(f) /\ InRing(f, n)
  BY RingFields
<1>2. f.size = n /\ f.size > 0
  BY <1>1 DEF InRing
<1> DEFINE g == moving_average_reset(f, v)
<1>3. g = [f EXCEPT !.buffer = [i \in 0..(n - 1) |-> IF i = 0 THEN v ELSE 0],
                    !.sum = v, !.count = 1, !.index = 1 % n,
                    !.last_vals = <<v, v, v>>, !.last_count = 3]
  BY <1>2 DEF moving_average_reset
<1> HIDE DEF g
<1>4. IsRecord(g)
  BY <1>1, <1>3 DEF IsRecord, Fields
<1>5. g.buffer = [i \in 0..(n - 1) |-> IF i = 0 THEN v ELSE 0]
      /\ g.size = n /\ g.index = 1 % n /\ g.sum = v /\ g.count = 1
  BY <1>1, <1>2, <1>3 DEF IsRecord, Fields
<1>6. g.last_vals = <<v, v, v>> /\ g.last_count = 3 /\ g.mutex = f.mutex
  BY <1>1, <1>3 DEF IsRecord, Fields
<1> QED BY <1>4, <1>5, <1>6 DEF g

\* A restart leaves a ring (moving_average.c:110-124).
LEMMA ResetRing ==
  ASSUME NEW n \in Nat \ {0}, NEW f \in MovingAverages(n), NEW v \in Int
  PROVE  moving_average_reset(f, v) \in MovingAverages(n)
<1> DEFINE g == moving_average_reset(f, v)
<1>1. f.mutex \in BOOLEAN
  BY RingFields DEF InRing
<1>2. <<v, v, v>> \in [1..3 -> Int]
  OBVIOUS
<1>3. 1 % n \in 0..(n - 1)
  OBVIOUS
<1>4. /\ IsRecord(g)
      /\ g.buffer = [i \in 0..(n - 1) |-> IF i = 0 THEN v ELSE 0]
      /\ g.size = n /\ g.index = 1 % n /\ g.sum = v /\ g.count = 1
      /\ g.last_vals = <<v, v, v>> /\ g.last_count = 3 /\ g.mutex = f.mutex
  BY ResetFields
<1> HIDE DEF g
<1>5. InRing(g, n)
  BY <1>1, <1>2, <1>3, <1>4 DEF InRing
<1> QED BY <1>4, <1>5, RingIs DEF g

\* After a restart and an update with the same value the mean is that value,
\* whatever was in the ring: the means of a step are not mixed with older values
\* (hx711.c:206-209).
THEOREM RestartedMean ==
  ASSUME NEW n \in Nat \ {0}, NEW f \in MovingAverages(n), NEW v \in Int
  PROVE  LET g == moving_average_update(moving_average_reset(f, v), v)
         IN g.count \in {1, 2} /\ g.sum = g.count * v
<1> DEFINE r == moving_average_reset(f, v)
           g == moving_average_update(r, v)
<1>1. r.sum = v /\ r.count = 1 /\ r.index = 1 % n /\ r.size = n /\ IsRecord(r)
      /\ r.buffer = [i \in 0..(n - 1) |-> IF i = 0 THEN v ELSE 0]
  BY ResetFields
<1> HIDE DEF r
<1>2. g.sum = r.sum - r.buffer[r.index] + v /\ g.count = IF r.count < n THEN r.count + 1 ELSE r.count
  BY <1>1 DEF moving_average_update, IsRecord, Fields
<1> HIDE DEF g
<1>3. CASE n = 1
  <2>1. r.index = 0
    BY <1>1, <1>3
  <2>2. r.buffer[r.index] = v
    BY <1>1, <1>3, <2>1
  <2> QED BY <2>2, <1>1, <1>2, <1>3 DEF r, g
<1>4. CASE n > 1
  <2>1. r.index = 1
    BY <1>1, <1>4
  <2>2. r.buffer[1] = 0
    BY <1>1, <1>4
  <2> QED BY <2>1, <2>2, <1>1, <1>2, <1>4 DEF r, g
<1> QED BY <1>3, <1>4

\* A filter never set up is a ring without slots.
LEMMA DetachedRing == Detached \in MovingAverages(0)
<1>1. <<>> \in [0..(0 - 1) -> Int] /\ <<0, 0, 0>> \in [1..3 -> Int]
  OBVIOUS
<1>2. IsRecord(Detached)
  BY DEF IsRecord, Detached, Fields
<1>3. InRing(Detached, 0)
  BY <1>1 DEF InRing, Detached
<1> QED BY <1>2, <1>3, RingIs

\* Freeing the buffer leaves a filter of size 0 (moving_average.c:144-165).
LEMMA DeinitRing ==
  ASSUME NEW n \in Nat, NEW f \in MovingAverages(n)
  PROVE  moving_average_deinit(f) \in MovingAverages(0)
<1> DEFINE g == moving_average_deinit(f)
<1>1. <<>> \in [0..(0 - 1) -> Int]
  OBVIOUS
<1>2. IsRecord(Detached)
  BY DEF IsRecord, Detached, Fields
<1>3. /\ IsRecord(g) /\ g.buffer = <<>> /\ g.size = 0 /\ g.index = 0 /\ g.sum = 0 /\ g.count = 0
      /\ g.last_vals = f.last_vals /\ g.last_count = 0 /\ g.mutex = FALSE
  BY <1>2 DEF moving_average_deinit, Detached, IsRecord, Fields
<1>4. f.last_vals \in [1..3 -> Int]
  BY RingFields DEF InRing
<1> HIDE DEF g
<1>5. g.buffer \in [0..(0 - 1) -> Int]
  BY <1>1, <1>3
<1>6. InRing(g, 0)
  <2>1. g.index \in 0..0 /\ g.count \in 0..0 /\ g.sum \in Int
    BY <1>3
  <2>2. g.last_count \in 0..3
    BY <1>3
  <2>3. g.mutex \in BOOLEAN
    <3>1. g.mutex = FALSE
      BY <1>3
    <3> QED BY <3>1, Zenon
  <2> QED BY <2>1, <2>2, <2>3, <1>3, <1>4, <1>5 DEF InRing
<1> QED BY <1>3, <1>6, RingIs DEF g

-----------------------------------------------------------------------------
(***************************************************************************)
(* The running sum.                                                        *)
(***************************************************************************)
\* The running sum is exact, and until the ring is full the values are in its
\* first slots and the others hold zeros.
ExactRing(f, n) ==
  /\ f \in MovingAverages(n)
  /\ f.sum = SumFunctionOnSet(f.buffer, 0..(n - 1))
  /\ f.count < n => f.index = f.count
  /\ \A k \in f.count..(n - 1) : f.buffer[k] = 0

LEMMA SlotsFinite ==
  ASSUME NEW n \in Nat
  PROVE  IsFiniteSet(0..(n - 1)) /\ Cardinality(0..(n - 1)) = n
BY FS_Interval

\* A filter without a buffer sums nothing, and neither does a new one.
LEMMA DetachedExact == ASSUME NEW f \in MovingAverages(0), f.sum = 0 PROVE ExactRing(f, 0)
<1>1. f.buffer = <<>> /\ f.count = 0 /\ 0..(0 - 1) = {}
  BY RingFields DEF InRing
<1> QED BY <1>1, SumEmpty DEF ExactRing

\* A filter that is set up holds zeros, and their sum (moving_average.c:16-34).
LEMMA InitExact ==
  ASSUME NEW m \in Nat, NEW f \in MovingAverages(m), NEW n \in Nat, NEW b \in BOOLEAN
  PROVE  ExactRing(moving_average_init(f, n, b), n)
<1> DEFINE g == moving_average_init(f, n, b)
           S == 0..(n - 1)
<1>1. g.buffer = [i \in S |-> 0] /\ g.index = 0 /\ g.sum = 0 /\ g.count = 0
  BY InitFields
<1>2. g \in MovingAverages(n)
  BY InitRing
<1> HIDE DEF g
<1>3. SumFunctionOnSet(g.buffer, S) = 0
  <2>1. \A x \in S : g.buffer[x] = 0 /\ g.buffer[x] \in Int
    BY <1>1
  <2>2. IsFiniteSet(S) /\ S \cap {} = {}
    BY SlotsFinite
  <2> HIDE DEF S
  <2> QED BY <2>1, <2>2, SumWithoutZeros, SumEmpty
<1>4. \A k \in g.count..(n - 1) : g.buffer[k] = 0
  BY <1>1
<1> QED BY <1>1, <1>2, <1>3, <1>4 DEF g, ExactRing

\* The value that leaves the ring leaves the sum (moving_average.c:41-45).
THEOREM UpdateExact ==
  ASSUME NEW n \in Nat \ {0}, NEW f, ExactRing(f, n), NEW v \in Int
  PROVE  ExactRing(moving_average_update(f, v), n)
<1> DEFINE g == moving_average_update(f, v)
           S == 0..(n - 1)
<1>1. f \in MovingAverages(n)
  BY DEF ExactRing
<1>2. f.buffer \in [S -> Int] /\ f.index \in S /\ f.count \in 0..n
  BY <1>1, RingFields DEF InRing
<1>3. /\ g.buffer = [f.buffer EXCEPT ![f.index] = v]
      /\ g.size = n /\ g.index = (f.index + 1) % n
      /\ g.sum = f.sum - f.buffer[f.index] + v
      /\ g.count = IF f.count < n THEN f.count + 1 ELSE f.count
  BY <1>1, UpdateFields
<1>4. g \in MovingAverages(n)
  BY <1>1, UpdateRing
<1> HIDE DEF g
<1>5. g.sum = SumFunctionOnSet(g.buffer, S)
  <2>1. SumFunctionOnSet(g.buffer, S) = SumFunctionOnSet(f.buffer, S) - f.buffer[f.index] + v
    <3>1. IsFiniteSet(S)
      BY SlotsFinite
    <3> HIDE DEF S
    <3> QED BY <1>2, <1>3, <3>1, SumExcept
  <2> QED BY <1>3, <2>1 DEF ExactRing
<1>6. g.count < n => g.index = g.count
  <2> SUFFICES ASSUME g.count < n PROVE g.index = g.count
    OBVIOUS
  <2>1. f.count + 1 < n /\ g.count = f.count + 1
    BY <1>2, <1>3
  <2>2. f.index = f.count
    BY <1>2, <2>1 DEF ExactRing
  <2>3. (f.count + 1) % n = f.count + 1
    <3>1. f.count + 1 \in Nat
      BY <1>2
    <3> QED BY <2>1, <3>1, SmallModulo
  <2> QED BY <1>3, <2>1, <2>2, <2>3
<1>7. ASSUME NEW k \in g.count..(n - 1) PROVE g.buffer[k] = 0
  <2>1. f.count < n /\ g.count = f.count + 1 /\ k \in f.count..(n - 1) /\ k # f.count
    <3>1. f.count \in Int /\ f.count <= n /\ k \in Int /\ g.count <= k /\ k <= n - 1
      <4>1. g.count \in Int
        BY <1>2, <1>3
      <4> QED BY <1>2, <4>1
    <3>2. CASE f.count < n
      BY <1>3, <3>1, <3>2
    <3>3. CASE ~(f.count < n)
      BY <1>3, <3>1, <3>3
    <3> QED BY <3>2, <3>3
  <2>2. f.index = f.count /\ f.buffer[k] = 0
    BY <2>1 DEF ExactRing
  <2>3. k \in S
    BY <1>2, <2>1
  <2> QED BY <1>2, <1>3, <2>1, <2>2, <2>3
<1> QED BY <1>4, <1>5, <1>6, <1>7 DEF g, ExactRing

\* A restart clears what it does not sum (moving_average.c:113-117).
THEOREM ResetExact ==
  ASSUME NEW n \in Nat \ {0}, NEW f \in MovingAverages(n), NEW v \in Int
  PROVE  ExactRing(moving_average_reset(f, v), n)
<1> DEFINE g == moving_average_reset(f, v)
           S == 0..(n - 1)
<1>1. /\ g.buffer = [i \in S |-> IF i = 0 THEN v ELSE 0]
      /\ g.index = 1 % n /\ g.sum = v /\ g.count = 1
  BY ResetFields
<1>2. g \in MovingAverages(n)
  BY ResetRing
<1> HIDE DEF g
<1>3. SumFunctionOnSet(g.buffer, S) = v
  <2>1. /\ \A x \in S : g.buffer[x] \in Int
        /\ \A x \in S \ {0} : g.buffer[x] = 0
        /\ g.buffer[0] = v /\ 0 \in S
    BY <1>1
  <2>2. IsFiniteSet(S)
    BY SlotsFinite
  <2> HIDE DEF S
  <2>3. SumFunctionOnSet(g.buffer, S) = SumFunctionOnSet(g.buffer, S \cap {0})
    BY <2>1, <2>2, SumWithoutZeros
  <2>4. S \cap {0} = {0} /\ {0} \ {0} = {} /\ IsFiniteSet({0})
    BY <2>1, FS_Singleton
  <2>5. SumFunctionOnSet(g.buffer, {0}) = g.buffer[0] + SumFunctionOnSet(g.buffer, {0} \ {0})
    <3>1. \A x \in {0} : g.buffer[x] \in Int
      BY <2>1
    <3> QED BY <2>4, <3>1, SumTakes
  <2>6. SumFunctionOnSet(g.buffer, {0} \ {0}) = 0
    BY <2>4, SumEmpty
  <2>7. v + 0 = v
    OBVIOUS
  <2> QED BY <2>1, <2>3, <2>4, <2>5, <2>6, <2>7
<1>4. g.count < n => g.index = g.count
  BY <1>1
<1>5. \A k \in g.count..(n - 1) : g.buffer[k] = 0
  BY <1>1
<1> QED BY <1>1, <1>2, <1>3, <1>4, <1>5 DEF g, ExactRing

\* Only the values that are counted are summed.
LEMMA SumOfCounted ==
  ASSUME NEW n \in Nat, NEW f, ExactRing(f, n)
  PROVE  f.count \in 0..n /\ f.sum = SumFunctionOnSet(f.buffer, 0..(f.count - 1))
<1>1. f.buffer \in [0..(n - 1) -> Int] /\ f.count \in 0..n
  BY RingFields DEF InRing, ExactRing
<1> DEFINE S == 0..(n - 1)
           R == 0..(f.count - 1)
<1>2. \A k \in S \ R : f.buffer[k] = 0
  BY <1>1 DEF ExactRing
<1>3. S \cap R = R /\ IsFiniteSet(S) /\ \A k \in S : f.buffer[k] \in Int
  BY <1>1, SlotsFinite
<1>4. f.sum = SumFunctionOnSet(f.buffer, S)
  BY DEF ExactRing
<1> HIDE DEF S, R
<1>5. f.sum = SumFunctionOnSet(f.buffer, R)
  BY <1>2, <1>3, <1>4, SumWithoutZeros
<1> QED BY <1>1, <1>5 DEF R

\* The mean of a ring lies where its values lie, whichever way it is rounded.
THEOREM MeanInRange ==
  ASSUME NEW n \in Nat, NEW f, ExactRing(f, n), f.count > 0,
         NEW lo \in Int, NEW hi \in Int, \A k \in 0..(n - 1) : f.buffer[k] \in lo..hi
  PROVE  f.sum \div f.count \in lo..hi /\ -((-f.sum) \div f.count) \in lo..hi
<1>1. f.count \in 1..n /\ f.sum = SumFunctionOnSet(f.buffer, 0..(f.count - 1))
  BY SumOfCounted
<1>2. IsFiniteSet(0..(f.count - 1)) /\ Cardinality(0..(f.count - 1)) = f.count
  BY <1>1, SlotsFinite
<1>3. \A k \in 0..(f.count - 1) : f.buffer[k] \in Int /\ lo <= f.buffer[k] /\ f.buffer[k] <= hi
  BY <1>1
<1>4. f.count * lo <= f.sum /\ f.sum <= f.count * hi
  BY <1>1, <1>2, <1>3, SumBounds
<1>5. f.sum \in Int /\ f.count \in Nat \ {0}
  BY <1>1, RingFields DEF InRing, ExactRing
<1> QED BY <1>4, <1>5, QuotientInRange

-----------------------------------------------------------------------------
(***************************************************************************)
(* Any sequence of calls on one filter.                                    *)
(***************************************************************************)
\* A filter as its callers can have left it.
Stored == Values \cup {0}
RingOK(f) ==
  /\ f.size \in {0, Size}
  /\ ExactRing(f, f.size)
  /\ \A k \in 0..(f.size - 1) : f.buffer[k] \in Stored
  /\ f.last_vals \in [1..3 -> Stored]

LEMMA StoredInt == Stored \subseteq Int /\ Size \in Nat \ {0}
BY MovingAverageAssumption DEF Stored

\* The parts of the invariant that the facts about rings ask for.
LEMMA RingOKIs ==
  ASSUME NEW f, RingOK(f)
  PROVE  f.size \in Nat /\ f \in MovingAverages(f.size) /\ InRing(f, f.size)
<1>1. f.size \in Nat
  BY StoredInt DEF RingOK
<1> QED BY <1>1, RingFields DEF RingOK, ExactRing

\* The median invents no value (moving_average.c:8-13).
LEMMA MedianIsOneOfThem == ASSUME NEW a, NEW b, NEW c PROVE median3(a, b, c) \in {a, b, c}
BY DEF median3, Lower, Higher

\* An update keeps the invariant, with a filter and without (moving_average.c:37-54),
LEMMA UpdateKeeps ==
  ASSUME NEW f, RingOK(f), NEW v \in Stored PROVE RingOK(moving_average_update(f, v))
<1> DEFINE g == moving_average_update(f, v)
           n == f.size
<1>1. CASE n = 0
  BY <1>1 DEF moving_average_update
<1>2. CASE n # 0
  <2>1. n \in Nat \ {0} /\ f \in MovingAverages(n) /\ v \in Int /\ f.buffer \in [0..(n - 1) -> Int]
    BY <1>2, RingOKIs, StoredInt DEF InRing
  <2>2. g.size = n /\ g.last_vals = f.last_vals /\ g.buffer = [f.buffer EXCEPT ![f.index] = v]
    BY <2>1, UpdateFields
  <2>3. ExactRing(g, n)
    BY <2>1, UpdateExact DEF RingOK
  <2> HIDE DEF g
  <2>4. \A k \in 0..(n - 1) : g.buffer[k] \in Stored
    BY <2>1, <2>2 DEF RingOK
  <2> QED BY <2>2, <2>3, <2>4 DEF RingOK, g
<1> QED BY <1>1, <1>2

\* The history in front of the median is beside the ring (moving_average.c:77-83).
LEMMA RememberFields ==
  ASSUME NEW n \in Nat, NEW f \in MovingAverages(n), NEW v \in Int
  PROVE  LET g == Remember(f, v)
         IN /\ IsRecord(g)
            /\ g.buffer = f.buffer /\ g.size = f.size /\ g.index = f.index
            /\ g.sum = f.sum /\ g.count = f.count /\ g.mutex = f.mutex
            /\ f.last_count < 3 =>
                 /\ g.last_vals = [f.last_vals EXCEPT ![f.last_count + 1] = v]
                 /\ g.last_count = f.last_count + 1
            /\ ~(f.last_count < 3) =>
                 /\ g.last_vals = <<f.last_vals[2], f.last_vals[3], v>>
                 /\ g.last_count = f.last_count
<1>1. IsRecord(f)
  BY RingFields
<1>2. CASE f.last_count < 3
  BY <1>1, <1>2 DEF Remember, IsRecord, Fields
<1>3. CASE ~(f.last_count < 3)
  BY <1>1, <1>3 DEF Remember, IsRecord, Fields
<1> QED BY <1>2, <1>3

\* so does remembering a raw value (moving_average.c:77-83),
LEMMA RememberKeeps ==
  ASSUME NEW f, RingOK(f), NEW v \in Values
  PROVE  RingOK(Remember(f, v)) /\ Remember(f, v).last_count \in 0..3
<1> DEFINE g == Remember(f, v)
           n == f.size
<1>1. n \in Nat /\ f \in MovingAverages(n) /\ v \in Int /\ v \in Stored /\ InRing(f, n)
  BY RingOKIs, StoredInt DEF Stored
<1>2. /\ IsRecord(g)
      /\ g.buffer = f.buffer /\ g.size = f.size /\ g.index = f.index
      /\ g.sum = f.sum /\ g.count = f.count /\ g.mutex = f.mutex
      /\ f.last_count < 3 =>
           /\ g.last_vals = [f.last_vals EXCEPT ![f.last_count + 1] = v]
           /\ g.last_count = f.last_count + 1
      /\ ~(f.last_count < 3) =>
           /\ g.last_vals = <<f.last_vals[2], f.last_vals[3], v>>
           /\ g.last_count = f.last_count
  BY <1>1, RememberFields
<1> HIDE DEF g
<1>3. f.last_vals \in [1..3 -> Stored] /\ f.last_count \in 0..3
  BY <1>1 DEF RingOK, InRing
<1>4. g.last_vals \in [1..3 -> Stored] /\ g.last_count \in 0..3
  BY <1>1, <1>2, <1>3
<1>5. g.last_vals \in [1..3 -> Int]
  BY <1>4, StoredInt
<1>6. g \in MovingAverages(n)
  <2>1. InRing(g, n)
    BY <1>1, <1>2, <1>4, <1>5 DEF InRing
  <2> QED BY <1>1, <1>2, <2>1, RingIs
<1> QED BY <1>2, <1>4, <1>6 DEF RingOK, ExactRing, g

\* and the two of them (moving_average.c:73-91),
LEMMA UpdateMedianKeeps ==
  ASSUME NEW f, RingOK(f), NEW v \in Values PROVE RingOK(moving_average_update_median3(f, v))
<1> DEFINE g == Remember(f, v)
           w == IF g.last_count = 3
                  THEN median3(g.last_vals[1], g.last_vals[2], g.last_vals[3]) ELSE v
<1>1. RingOK(g)
  BY RememberKeeps
<1>2. w \in Stored
  <2>1. g.last_vals[1] \in Stored /\ g.last_vals[2] \in Stored /\ g.last_vals[3] \in Stored
    BY <1>1 DEF RingOK
  <2>2. median3(g.last_vals[1], g.last_vals[2], g.last_vals[3]) \in Stored
    BY <2>1, MedianIsOneOfThem
  <2> QED BY <2>2 DEF Stored
<1>3. moving_average_update_median3(f, v) = moving_average_update(g, w)
  BY DEF moving_average_update_median3
<1> HIDE DEF g, w
<1> QED BY <1>1, <1>2, <1>3, UpdateKeeps

\* a restart, whose guard leaves an unset filter alone (moving_average.c:110-124),
LEMMA ResetKeeps ==
  ASSUME NEW f, RingOK(f), NEW v \in Values PROVE RingOK(moving_average_reset(f, v))
<1> DEFINE g == moving_average_reset(f, v)
           n == f.size
<1>1. CASE n = 0
  BY <1>1 DEF moving_average_reset
<1>2. CASE n # 0
  <2>1. n \in Nat \ {0} /\ f \in MovingAverages(n) /\ v \in Int /\ v \in Stored /\ 0 \in Stored
    BY <1>2, RingOKIs, StoredInt DEF Stored
  <2>2. g.size = n /\ g.last_vals = <<v, v, v>>
        /\ g.buffer = [i \in 0..(n - 1) |-> IF i = 0 THEN v ELSE 0]
    BY <2>1, ResetFields
  <2>3. ExactRing(g, n)
    BY <2>1, ResetExact
  <2> HIDE DEF g
  <2>4. \A k \in 0..(n - 1) : g.buffer[k] \in Stored
    BY <2>1, <2>2
  <2>5. g.last_vals \in [1..3 -> Stored]
    BY <2>1, <2>2
  <2> QED BY <2>2, <2>3, <2>4, <2>5 DEF RingOK, g
<1> QED BY <1>1, <1>2

\* setting up again (moving_average.c:16-34)
LEMMA InitKeeps ==
  ASSUME NEW f, RingOK(f), NEW b \in BOOLEAN PROVE RingOK(moving_average_init(f, Size, b))
<1> DEFINE g == moving_average_init(f, Size, b)
<1>1. f.size \in Nat /\ f \in MovingAverages(f.size) /\ Size \in Nat
  BY RingOKIs, StoredInt
<1>2. g.size = Size /\ g.last_vals = f.last_vals /\ g.buffer = [i \in 0..(Size - 1) |-> 0]
  BY <1>1, InitFields
<1>3. ExactRing(g, Size)
  BY <1>1, InitExact
<1> HIDE DEF g
<1>4. \A k \in 0..(Size - 1) : g.buffer[k] \in Stored
  BY <1>2 DEF Stored
<1> QED BY <1>2, <1>3, <1>4 DEF RingOK, g

\* and tearing down (moving_average.c:144-165).
LEMMA DeinitKeeps == ASSUME NEW f, RingOK(f) PROVE RingOK(moving_average_deinit(f))
<1> DEFINE g == moving_average_deinit(f)
<1>1. g.size = 0 /\ g.sum = 0 /\ g.last_vals = f.last_vals
  BY DEF moving_average_deinit, Detached
<1>2. g \in MovingAverages(0)
  BY RingOKIs, DeinitRing
<1> HIDE DEF g
<1>3. ExactRing(g, 0)
  BY <1>1, <1>2, DetachedExact
<1> QED BY <1>1, <1>3 DEF RingOK, g

LEMMA DetachedOK == RingOK(Detached)
<1>1. ExactRing(Detached, 0)
  BY DetachedRing, DetachedExact DEF Detached
<1>2. Detached.size = 0 /\ Detached.last_vals \in [1..3 -> Stored]
  BY DEF Detached, Stored
<1> QED BY <1>1, <1>2 DEF RingOK

MAInv == RingOK(filter)

\* The filter is unset or an exact ring of the configured size, after any sequence of
\* calls (moving_average.c:16-165).
THEOREM MovingAverageInvariant == MASpec => []MAInv
<1>1. MAInit => MAInv
  BY DetachedOK DEF MAInit, MAInv
<1>2. MAInv /\ [MANext]_maVars => MAInv'
  <2> SUFFICES ASSUME RingOK(filter), [MANext]_maVars PROVE RingOK(filter')
    BY DEF MAInv
  <2>1. ASSUME NEW mutex \in BOOLEAN, SetUp(mutex) PROVE RingOK(filter')
    BY <2>1, InitKeeps DEF SetUp
  <2>2. ASSUME NEW v \in Values, Update(v) PROVE RingOK(filter')
    BY <2>2, UpdateKeeps DEF Update, Stored
  <2>3. ASSUME NEW v \in Values, UpdateMedian3(v) PROVE RingOK(filter')
    BY <2>3, UpdateMedianKeeps DEF UpdateMedian3
  <2>4. ASSUME NEW v \in Values, Reset(v) PROVE RingOK(filter')
    BY <2>4, ResetKeeps DEF Reset
  <2>5. CASE UpdateTimedOut
    BY <2>5 DEF UpdateTimedOut
  <2>6. CASE Deinit
    BY <2>6, DeinitKeeps DEF Deinit
  <2>7. CASE UNCHANGED maVars
    BY <2>7 DEF maVars
  <2> QED BY <2>1, <2>2, <2>3, <2>4, <2>5, <2>6, <2>7 DEF MANext
<1> QED BY <1>1, <1>2, PTL DEF MASpec

\* The write index is inside the buffer and wraps only once it is full, for every
\* size and any values (moving_average.c:16-165).
THEOREM MovingAverageTypeCorrect == MASpec => []MATypeOK
<1>1. MAInv => MATypeOK
  <2> SUFFICES ASSUME RingOK(filter) PROVE MATypeOK
    BY DEF MAInv
  <2>1. InRing(filter, filter.size) /\ Size \in Nat \ {0}
    BY RingOKIs, StoredInt
  <2>2. ASSUME filter.size = Size
        PROVE  /\ filter.buffer \in [0..(Size - 1) -> Values \cup {0}]
               /\ filter.index \in 0..(Size - 1)
               /\ filter.count \in 0..Size
               /\ filter.count < Size => filter.index = filter.count
    <3>1. filter.buffer \in [0..(Size - 1) -> Values \cup {0}]
      BY <2>1, <2>2 DEF RingOK, InRing, Stored
    <3>2. filter.index \in 0..(Size - 1) /\ filter.count \in 0..Size
      BY <2>1, <2>2 DEF InRing
    <3> QED BY <2>2, <3>1, <3>2 DEF RingOK, ExactRing
  <2>3. filter.size \in {0, Size} /\ filter.last_vals \in [1..3 -> Values \cup {0}]
    BY DEF RingOK, Stored
  <2>4. filter.sum \in Int /\ filter.last_count \in 0..3 /\ filter.mutex \in BOOLEAN
    BY <2>1 DEF InRing
  <2> QED BY <2>2, <2>3, <2>4 DEF MATypeOK
<1> QED BY <1>1, MovingAverageInvariant, PTL

\* The running sum is the sum of what is in the buffer after any mixture of calls,
\* for every size and any values (moving_average.c:41-45, 113-117).
THEOREM MovingAverageSumIsExact == MASpec => []SumIsExact
<1>1. MAInv => SumIsExact
  <2> SUFFICES ASSUME RingOK(filter) PROVE SumIsExact
    BY DEF MAInv
  <2>1. DOMAIN filter.buffer = 0..(filter.size - 1)
    BY RingOKIs DEF InRing
  <2> QED BY <2>1 DEF SumIsExact, SumFunction, RingOK, ExactRing
<1> QED BY <1>1, MovingAverageInvariant, PTL

-----------------------------------------------------------------------------
(***************************************************************************)
(* The ring is a sliding window.                                           *)
(***************************************************************************)
\* The slot of the k-th oldest value, the values in the order they came, and the
\* raw values before the median.
Place(f, k) == (f.index - f.count + k - 1) % f.size
Content(f) == [k \in 1..f.count |-> f.buffer[Place(f, k)]]
History(f) == SubSeq(f.last_vals, 1, f.last_count)

\* The fold of the abstract window is the sum of the ring.
LEMMA FoldIsSum == ASSUME NEW s PROVE Window!FoldSeq(+, 0, s) = SumFunctionOnSet(s, DOMAIN s)
BY DEF Window!FoldSeq, Window!FoldFunction, Window!FoldFunctionOnSet, Window!MapThenFoldSet,
       SumFunctionOnSet, FoldFunctionOnSet, MapThenFoldSet

\* The index wraps below zero.
LEMMA NegativeModulo ==
  ASSUME NEW a \in Int, NEW n \in Nat \ {0}, -n <= a, a < 0 PROVE a % n = a + n
OBVIOUS

\* While the ring fills the values lie in order from slot 0 on; once it is full
\* they start at the write index and go round.
LEMMA PlaceIs ==
  ASSUME NEW n \in Nat \ {0}, NEW f, ExactRing(f, n), NEW k \in 1..f.count
  PROVE  /\ f.count < n => Place(f, k) = k - 1
         /\ f.count = n /\ f.index + k - 1 < n => Place(f, k) = f.index + k - 1
         /\ f.count = n /\ f.index + k - 1 >= n => Place(f, k) = f.index + k - 1 - n
<1>1. f.size = n /\ f.index \in 0..(n - 1) /\ f.count \in 0..n
  BY RingFields DEF InRing, ExactRing
<1> DEFINE a == f.index - f.count + k - 1
<1>2. a \in Int /\ k \in Nat /\ k >= 1 /\ k <= f.count
  BY <1>1
<1>3. Place(f, k) = a % n
  BY <1>1 DEF Place
<1>4. f.count < n => a = k - 1
  BY <1>1, <1>2 DEF ExactRing
<1>5. a \in Nat /\ a < n => Place(f, k) = a
  BY <1>3, SmallModulo
<1>6. -n <= a /\ a < 0 => Place(f, k) = a + n
  BY <1>2, <1>3, NegativeModulo
<1>7. CASE f.count < n
  <2>1. a = k - 1
    BY <1>4, <1>7
  <2> HIDE DEF a
  <2> QED BY <1>1, <1>2, <1>5, <1>7, <2>1
<1>8. CASE f.count = n /\ f.index + k - 1 < n
  <2>1. -n <= a /\ a < 0 /\ a + n = f.index + k - 1
    BY <1>1, <1>2, <1>8
  <2> HIDE DEF a
  <2> QED BY <1>1, <1>6, <1>8, <2>1
<1>9. CASE f.count = n /\ f.index + k - 1 >= n
  <2>1. a \in Nat /\ a < n /\ a = f.index + k - 1 - n
    BY <1>1, <1>2, <1>9
  <2> HIDE DEF a
  <2> QED BY <1>1, <1>5, <1>9, <2>1
<1> QED BY <1>1, <1>2, <1>7, <1>8, <1>9

\* A function on 1..n is a sequence of length n.
LEMMA FunctionIsSeq ==
  ASSUME NEW c \in Nat, NEW s \in [1..c -> Int]
  PROVE  s \in Seq(Int) /\ Len(s) = c /\ DOMAIN s = 1..c
OBVIOUS

\* The window has each counted slot once, so that its sum is the running sum.
LEMMA ContentSum ==
  ASSUME NEW n \in Nat \ {0}, NEW f, ExactRing(f, n)
  PROVE  /\ Content(f) \in Seq(Int) /\ Len(Content(f)) = f.count
         /\ Window!FoldSeq(+, 0, Content(f)) = f.sum
<1>1. f.buffer \in [0..(n - 1) -> Int] /\ f.index \in 0..(n - 1) /\ f.count \in 0..n
  BY RingFields DEF InRing, ExactRing
<1> DEFINE S == 1..f.count
           p == [k \in S |-> Place(f, k)]
           R == 0..(f.count - 1)
<1>2. \A k \in S : k \in Int /\ 1 <= k /\ k <= f.count
  BY <1>1
<1>3. \A k \in S : Place(f, k) \in R
  <2> SUFFICES ASSUME NEW k \in S PROVE Place(f, k) \in R
    OBVIOUS
  <2>1. /\ f.count < n => Place(f, k) = k - 1
        /\ f.count = n /\ f.index + k - 1 < n => Place(f, k) = f.index + k - 1
        /\ f.count = n /\ f.index + k - 1 >= n => Place(f, k) = f.index + k - 1 - n
    BY PlaceIs
  <2> QED BY <1>1, <1>2, <2>1
<1>4. \A k, m \in S : p[k] = p[m] => k = m
  <2> SUFFICES ASSUME NEW k \in S, NEW m \in S, Place(f, k) = Place(f, m) PROVE k = m
    OBVIOUS
  <2>1. /\ f.count < n => Place(f, k) = k - 1
        /\ f.count = n /\ f.index + k - 1 < n => Place(f, k) = f.index + k - 1
        /\ f.count = n /\ f.index + k - 1 >= n => Place(f, k) = f.index + k - 1 - n
    BY PlaceIs
  <2>2. /\ f.count < n => Place(f, m) = m - 1
        /\ f.count = n /\ f.index + m - 1 < n => Place(f, m) = f.index + m - 1
        /\ f.count = n /\ f.index + m - 1 >= n => Place(f, m) = f.index + m - 1 - n
    BY PlaceIs
  <2> QED BY <1>1, <1>2, <2>1, <2>2
<1>5. {p[k] : k \in S} = R
  <2>1. ASSUME NEW j \in R PROVE \E k \in S : Place(f, k) = j
    <3> DEFINE k == IF f.count < n THEN j + 1
                    ELSE IF j >= f.index THEN j - f.index + 1 ELSE j - f.index + 1 + n
    <3>1. k \in S
      BY <1>1
    <3>2. /\ f.count < n => Place(f, k) = k - 1
          /\ f.count = n /\ f.index + k - 1 < n => Place(f, k) = f.index + k - 1
          /\ f.count = n /\ f.index + k - 1 >= n => Place(f, k) = f.index + k - 1 - n
      BY <3>1, PlaceIs
    <3>3. Place(f, k) = j
      BY <1>1, <3>2
    <3> QED BY <3>1, <3>3
  <2> QED BY <1>3, <2>1
<1>6. \A k \in S : Content(f)[k] = f.buffer[p[k]] /\ f.buffer[p[k]] \in Int
  BY <1>1, <1>3 DEF Content
<1>7. IsFiniteSet(S)
  BY <1>1, FS_Interval
<1>8. SumFunctionOnSet(Content(f), S) = SumFunctionOnSet(f.buffer, {p[k] : k \in S})
  <2> HIDE DEF p, S
  <2> QED BY <1>4, <1>6, <1>7, SumMoved
<1>9. Content(f) \in Seq(Int) /\ Len(Content(f)) = f.count /\ DOMAIN Content(f) = S
  <2>1. Content(f) = [k \in 1..f.count |-> f.buffer[Place(f, k)]]
    BY DEF Content
  <2>2. \A k \in 1..f.count : f.buffer[Place(f, k)] \in Int
    BY <1>6
  <2>3. f.count \in Nat
    BY <1>1
  <2>4. [k \in 1..f.count |-> f.buffer[Place(f, k)]] \in [1..f.count -> Int]
    BY <2>2
  <2> QED BY <2>1, <2>3, <2>4, FunctionIsSeq
<1>10. f.sum = SumFunctionOnSet(f.buffer, R)
  BY SumOfCounted
<1> QED BY <1>5, <1>8, <1>9, <1>10, FoldIsSum

\* The last m values of a sequence that is one longer than the last m of it.
LEMMA LastOfLonger ==
  ASSUME NEW s \in Seq(Int), NEW m \in Nat
  PROVE  /\ Len(s) <= m => Window!LastOf(s, m) = s
         /\ Len(s) = m + 1 => Window!LastOf(s, m) = SubSeq(s, 2, m + 1)
<1> DEFINE least == Window!Min({m, Len(s)})
<1>1. Len(s) \in Nat
  BY LenProperties
<1>2. Window!LastOf(s, m) = SubSeq(s, Len(s) - least + 1, Len(s))
  BY DEF Window!LastOf
<1>3. least \in {m, Len(s)} /\ least <= m /\ least <= Len(s)
  <2>1. least = CHOOSE x \in {m, Len(s)} : \A y \in {m, Len(s)} : x <= y
    BY Zenon DEF Window!Min
  <2>2. \E x \in {m, Len(s)} : \A y \in {m, Len(s)} : x <= y
    BY <1>1
  <2> HIDE DEF least
  <2> QED BY <2>1, <2>2
<1> HIDE DEF least
<1>4. CASE Len(s) <= m
  <2>1. least = Len(s)
    BY <1>1, <1>3, <1>4
  <2>2. Len(s) - least + 1 = 1
    BY <1>1, <2>1
  <2>3. Window!LastOf(s, m) = SubSeq(s, 1, Len(s))
    BY <1>2, <2>2
  <2>4. SubSeq(s, 1, Len(s)) = s
    BY SubSeqFull
  <2>5. Len(s) # m + 1
    BY <1>1, <1>4
  <2> QED BY <2>3, <2>4, <2>5, Zenon
<1>5. CASE Len(s) = m + 1
  <2>1. least = m
    BY <1>1, <1>3, <1>5
  <2>2. Len(s) - least + 1 = 2
    BY <1>1, <1>5, <2>1
  <2> QED BY <1>1, <1>2, <1>5, <2>2
<1> QED BY <1>1, <1>4, <1>5

\* An update appends to the window, which loses its oldest value when it was full.
LEMMA ContentUpdate ==
  ASSUME NEW n \in Nat \ {0}, NEW f, ExactRing(f, n), NEW v \in Int
  PROVE  Content(moving_average_update(f, v)) = Window!LastOf(Append(Content(f), v), n)
<1> DEFINE g == moving_average_update(f, v)
           s == Content(f)
           t == Append(s, v)
<1>1. f \in MovingAverages(n) /\ f.index \in 0..(n - 1) /\ f.count \in 0..n
      /\ f.buffer \in [0..(n - 1) -> Int]
  BY RingFields DEF InRing, ExactRing
<1>2. ExactRing(g, n)
  BY UpdateExact
<1>3. /\ g.buffer = [f.buffer EXCEPT ![f.index] = v]
      /\ g.index = (f.index + 1) % n
      /\ g.count = IF f.count < n THEN f.count + 1 ELSE f.count
  BY <1>1, UpdateFields
<1>4. s \in Seq(Int) /\ Len(s) = f.count /\ \A k \in 1..f.count : s[k] = f.buffer[Place(f, k)]
  BY ContentSum DEF Content
<1>5. Content(g) \in Seq(Int) /\ Len(Content(g)) = g.count
      /\ \A k \in 1..g.count : Content(g)[k] = g.buffer[Place(g, k)]
  <2> HIDE DEF g
  <2> QED BY <1>2, ContentSum DEF Content
<1> HIDE DEF g, s
<1>6. /\ t \in Seq(Int) /\ Len(t) = f.count + 1
      /\ \A k \in 1..f.count : t[k] = s[k]
      /\ t[f.count + 1] = v
  BY <1>4, AppendProperties
<1>7. \A k \in 1..f.count :
        /\ f.count < n => Place(f, k) = k - 1
        /\ f.count = n /\ f.index + k - 1 < n => Place(f, k) = f.index + k - 1
        /\ f.count = n /\ f.index + k - 1 >= n => Place(f, k) = f.index + k - 1 - n
  BY PlaceIs
<1>8. \A k \in 1..g.count :
        /\ g.count < n => Place(g, k) = k - 1
        /\ g.count = n /\ g.index + k - 1 < n => Place(g, k) = g.index + k - 1
        /\ g.count = n /\ g.index + k - 1 >= n => Place(g, k) = g.index + k - 1 - n
  BY <1>2, PlaceIs
<1>9. g.index = IF f.index + 1 < n THEN f.index + 1 ELSE 0
  <2>1. CASE f.index + 1 < n
    BY <1>1, <1>3, <2>1, SmallModulo
  <2>2. CASE ~(f.index + 1 < n)
    <3>1. f.index + 1 = n
      BY <1>1, <2>2
    <3>2. n % n = 0
      OBVIOUS
    <3> QED BY <1>3, <2>2, <3>1, <3>2
  <2> QED BY <2>1, <2>2
<1> HIDE DEF t
<1>10. CASE f.count < n
  <2>1. f.index = f.count /\ g.count = f.count + 1
    BY <1>3, <1>10 DEF ExactRing
  <2>2. \A k \in 1..g.count : Place(g, k) = k - 1
    <3>1. CASE g.count < n
      BY <1>8, <3>1
    <3>2. CASE g.count = n
      <4>1. g.index = 0
        BY <1>1, <1>9, <2>1, <3>2
      <4> QED BY <1>1, <1>8, <2>1, <3>2, <4>1
    <3> QED BY <1>1, <1>10, <2>1, <3>1, <3>2
  <2>3. \A k \in 1..g.count : Content(g)[k] = t[k]
    <3> SUFFICES ASSUME NEW k \in 1..g.count PROVE Content(g)[k] = t[k]
      OBVIOUS
    <3>1. Content(g)[k] = g.buffer[k - 1]
      BY <1>5, <2>2
    <3>2. CASE k = f.count + 1
      BY <1>1, <1>3, <1>6, <1>10, <2>1, <3>1, <3>2
    <3>3. CASE k # f.count + 1
      <4>1. k \in 1..f.count
        BY <1>1, <2>1, <3>3
      <4>2. t[k] = f.buffer[k - 1]
        BY <1>4, <1>6, <1>7, <1>10, <4>1
      <4>3. k - 1 \in 0..(n - 1) /\ k - 1 # f.index
        BY <1>1, <1>10, <2>1, <4>1
      <4>4. g.buffer[k - 1] = f.buffer[k - 1]
        BY <1>1, <1>3, <4>3
      <4> QED BY <3>1, <4>2, <4>4
    <3> QED BY <3>2, <3>3
  <2>4. Content(g) = t
    BY <1>5, <1>6, <2>1, <2>3, SeqEqual
  <2>5. Len(t) <= n
    BY <1>1, <1>6, <1>10
  <2> QED BY <1>6, <2>4, <2>5, LastOfLonger DEF g, s, t
<1>11. CASE f.count = n
  <2>1. g.count = n
    BY <1>3, <1>11
  <2> DEFINE u == SubSeq(t, 2, n + 1)
  <2>2. u \in Seq(Int) /\ Len(u) = n /\ \A k \in 1..n : u[k] = t[k + 1]
    <3>1. \A k \in 2..(n + 1) : t[k] \in Int
      BY <1>6, <1>11
    <3>2. /\ u \in Seq(Int) /\ Len(u) = IF 2 <= n + 1 THEN (n + 1) - 2 + 1 ELSE 0
          /\ \A k \in 1..((n + 1) - 2 + 1) : u[k] = t[2 + k - 1]
      <4>1. 2 \in Int /\ n + 1 \in Int
        OBVIOUS
      <4> QED BY <3>1, <4>1, SubSeqProperties
    <3> HIDE DEF u
    <3> QED BY <3>2
  <2> HIDE DEF u
  <2>3. \A k \in 1..n : Content(g)[k] = u[k]
    <3> SUFFICES ASSUME NEW k \in 1..n PROVE Content(g)[k] = u[k]
      OBVIOUS
    <3>1. Content(g)[k] = g.buffer[Place(g, k)] /\ u[k] = t[k + 1]
      BY <1>5, <2>1, <2>2
    <3>2. CASE k = n
      <4>1. Place(g, k) = f.index
        BY <1>1, <1>8, <1>9, <2>1, <3>2
      <4> QED BY <1>1, <1>3, <1>6, <1>11, <3>1, <3>2, <4>1
    <3>3. CASE k # n
      <4>1. k \in Int /\ k + 1 \in 1..f.count
        BY <1>11, <3>3
      <4>2. Place(g, k) = Place(f, k + 1)
        <5>1. /\ g.index + k - 1 < n => Place(g, k) = g.index + k - 1
              /\ g.index + k - 1 >= n => Place(g, k) = g.index + k - 1 - n
          BY <1>8, <2>1
        <5>2. /\ f.index + (k + 1) - 1 < n => Place(f, k + 1) = f.index + (k + 1) - 1
              /\ f.index + (k + 1) - 1 >= n => Place(f, k + 1) = f.index + (k + 1) - 1 - n
          BY <1>7, <1>11, <4>1
        <5> DEFINE i == f.index
                   j == g.index
        <5>3. i \in Int /\ 0 <= i /\ i < n /\ n \in Int /\ k \in Int /\ 1 <= k /\ k + 1 <= n
              /\ j = IF i + 1 < n THEN i + 1 ELSE 0
          BY <1>1, <1>9, <1>11, <4>1
        <5>4. CASE i + 1 < n
          <6>1. j + k - 1 = i + (k + 1) - 1
            BY <5>3, <5>4
          <6> HIDE DEF i, j
          <6> QED BY <5>1, <5>2, <5>3, <6>1 DEF i, j
        <5>5. CASE ~(i + 1 < n)
          <6>1. j = 0 /\ i = n - 1
            BY <5>3, <5>5
          <6>2. j + k - 1 < n /\ i + (k + 1) - 1 >= n /\ j + k - 1 = i + (k + 1) - 1 - n
            BY <5>3, <6>1
          <6> QED BY <5>1, <5>2, <6>2
        <5> QED BY <5>4, <5>5
      <4>3. Place(f, k + 1) \in 0..(n - 1) /\ Place(f, k + 1) # f.index
        <5>1. /\ f.index + (k + 1) - 1 < n => Place(f, k + 1) = f.index + (k + 1) - 1
              /\ f.index + (k + 1) - 1 >= n => Place(f, k + 1) = f.index + (k + 1) - 1 - n
          BY <1>7, <1>11, <4>1
        <5> QED BY <1>1, <1>11, <4>1, <5>1
      <4>4. t[k + 1] = f.buffer[Place(f, k + 1)]
        BY <1>4, <1>6, <4>1
      <4> QED BY <1>1, <1>3, <3>1, <4>2, <4>3, <4>4
    <3> QED BY <3>2, <3>3
  <2>4. Content(g) = u
    BY <1>5, <2>1, <2>2, <2>3, SeqEqual
  <2>5. Len(t) = n + 1
    BY <1>6, <1>11
  <2>6. Window!LastOf(t, n) = u
    BY <1>6, <2>5, LastOfLonger DEF u
  <2> QED BY <2>4, <2>6 DEF g, s, t
<1> QED BY <1>1, <1>10, <1>11

\* A restart leaves the value it is given in the window, alone.
LEMMA ContentReset ==
  ASSUME NEW n \in Nat \ {0}, NEW f \in MovingAverages(n), NEW v \in Int
  PROVE  Content(moving_average_reset(f, v)) = <<v>>
<1> DEFINE g == moving_average_reset(f, v)
<1>1. /\ g.buffer = [i \in 0..(n - 1) |-> IF i = 0 THEN v ELSE 0]
      /\ g.index = 1 % n /\ g.count = 1
  BY ResetFields
<1>2. ExactRing(g, n)
  BY ResetExact
<1> HIDE DEF g
<1>3. Content(g) \in Seq(Int) /\ Len(Content(g)) = 1 /\ Content(g)[1] = g.buffer[Place(g, 1)]
  <2>1. Content(g) \in Seq(Int) /\ Len(Content(g)) = 1
    BY <1>1, <1>2, ContentSum
  <2>2. 1 \in 1..g.count
    BY <1>1
  <2>3. Content(g)[1] = g.buffer[Place(g, 1)]
    BY <2>2 DEF Content
  <2> QED BY <2>1, <2>3
<1>4. Place(g, 1) = 0
  <2>1. /\ g.count < n => Place(g, 1) = 1 - 1
        /\ g.count = n /\ g.index + 1 - 1 < n => Place(g, 1) = g.index + 1 - 1
    <3>1. 1 \in 1..g.count
      BY <1>1
    <3> QED BY <1>2, <3>1, PlaceIs
  <2>2. n = 1 => g.index = 0
    BY <1>1
  <2> QED BY <1>1, <2>1, <2>2
<1>5. <<v>> \in Seq(Int) /\ Len(<<v>>) = 1 /\ <<v>>[1] = v
  OBVIOUS
<1>6. Content(g)[1] = v
  BY <1>1, <1>3, <1>4
<1>7. \A k \in 1..Len(<<v>>) : Content(g)[k] = <<v>>[k]
  BY <1>5, <1>6
<1> QED BY <1>3, <1>5, <1>7, SeqEqual DEF g

\* A filter that has counted nothing is an empty window.
LEMMA ContentEmpty == ASSUME NEW f, f.count = 0 PROVE Content(f) = <<>>
BY DEF Content

\* The raw values remembered, one by one.
LEMMA HistoryIs ==
  ASSUME NEW f, f.last_vals \in [1..3 -> Int], f.last_count \in 0..3
  PROVE  /\ History(f) \in Seq(Int) /\ Len(History(f)) = f.last_count
         /\ \A k \in 1..f.last_count : History(f)[k] = f.last_vals[k]
<1> DEFINE h == SubSeq(f.last_vals, 1, f.last_count)
           c == f.last_count
<1>1. \A k \in 1..c : f.last_vals[k] \in Int
  OBVIOUS
<1>2. /\ h \in Seq(Int) /\ Len(h) = IF 1 <= c THEN c - 1 + 1 ELSE 0
      /\ \A k \in 1..(c - 1 + 1) : h[k] = f.last_vals[1 + k - 1]
  <2>1. 1 \in Int /\ c \in Int
    OBVIOUS
  <2> QED BY <1>1, <2>1, SubSeqProperties
<1> HIDE DEF h
<1> QED BY <1>2 DEF h, History

\* The history is a window of three (moving_average.c:77-83).
LEMMA HistoryRemember ==
  ASSUME NEW n \in Nat, NEW f \in MovingAverages(n), NEW v \in Int
  PROVE  History(Remember(f, v)) = Window!LastOf(Append(History(f), v), 3)
<1> DEFINE g == Remember(f, v)
           h == History(f)
           t == Append(h, v)
<1>1. f.last_vals \in [1..3 -> Int] /\ f.last_count \in 0..3
  BY RingFields DEF InRing
<1>2. /\ f.last_count < 3 =>
           /\ g.last_vals = [f.last_vals EXCEPT ![f.last_count + 1] = v]
           /\ g.last_count = f.last_count + 1
      /\ ~(f.last_count < 3) =>
           /\ g.last_vals = <<f.last_vals[2], f.last_vals[3], v>>
           /\ g.last_count = f.last_count
  BY RememberFields
<1>3. h \in Seq(Int) /\ Len(h) = f.last_count /\ \A k \in 1..f.last_count : h[k] = f.last_vals[k]
  BY <1>1, HistoryIs
<1> HIDE DEF g, h
<1>4. g.last_vals \in [1..3 -> Int] /\ g.last_count \in 0..3
  BY <1>1, <1>2
<1>5. /\ History(g) \in Seq(Int) /\ Len(History(g)) = g.last_count
      /\ \A k \in 1..g.last_count : History(g)[k] = g.last_vals[k]
  BY <1>4, HistoryIs
<1>6. /\ t \in Seq(Int) /\ Len(t) = f.last_count + 1
      /\ \A k \in 1..f.last_count : t[k] = h[k]
      /\ t[f.last_count + 1] = v
  BY <1>3, AppendProperties
<1> HIDE DEF t
<1>7. CASE f.last_count < 3
  <2>1. \A k \in 1..g.last_count : g.last_vals[k] = t[k]
    <3> SUFFICES ASSUME NEW k \in 1..g.last_count PROVE g.last_vals[k] = t[k]
      OBVIOUS
    <3>1. k \in 1..3 /\ (k = f.last_count + 1 \/ k \in 1..f.last_count)
      BY <1>1, <1>2, <1>7
    <3>2. g.last_vals = [f.last_vals EXCEPT ![f.last_count + 1] = v]
      BY <1>2, <1>7
    <3>3. CASE k = f.last_count + 1
      BY <1>1, <1>6, <3>1, <3>2, <3>3
    <3>4. CASE k \in 1..f.last_count
      <4>1. k # f.last_count + 1
        BY <1>1, <3>4
      <4> QED BY <1>1, <1>3, <1>6, <3>1, <3>2, <3>4, <4>1
    <3> QED BY <3>1, <3>3, <3>4
  <2>2. History(g) = t
    BY <1>2, <1>5, <1>6, <1>7, <2>1, SeqEqual
  <2>3. Len(t) <= 3 /\ 3 \in Nat
    BY <1>1, <1>6, <1>7
  <2> QED BY <1>6, <2>2, <2>3, LastOfLonger DEF g, h, t
<1>8. CASE ~(f.last_count < 3)
  <2>1. f.last_count = 3 /\ Len(t) = 3 + 1
    BY <1>1, <1>6, <1>8
  <2> DEFINE u == SubSeq(t, 2, 3 + 1)
  <2>2. u \in Seq(Int) /\ Len(u) = 3 /\ \A k \in 1..3 : u[k] = t[k + 1]
    <3>1. \A k \in 2..(3 + 1) : t[k] \in Int
      <4>1. \A k \in 1..Len(t) : t[k] \in Int
        BY <1>6, ElementOfSeq
      <4>2. \A k \in 2..(3 + 1) : k \in 1..(3 + 1)
        OBVIOUS
      <4> QED BY <2>1, <4>1, <4>2
    <3>2. /\ u \in Seq(Int) /\ Len(u) = IF 2 <= 3 + 1 THEN (3 + 1) - 2 + 1 ELSE 0
          /\ \A k \in 1..((3 + 1) - 2 + 1) : u[k] = t[2 + k - 1]
      <4>1. 2 \in Int /\ 3 + 1 \in Int
        OBVIOUS
      <4> QED BY <3>1, <4>1, SubSeqProperties
    <3> HIDE DEF u
    <3> QED BY <3>2
  <2>3. Window!LastOf(t, 3) = u
    BY <1>6, <2>1, LastOfLonger
  <2> HIDE DEF u
  <2>4. \A k \in 1..3 : g.last_vals[k] = u[k]
    <3>1. g.last_vals[1] = f.last_vals[2] /\ g.last_vals[2] = f.last_vals[3] /\ g.last_vals[3] = v
      BY <1>2, <1>8
    <3>2. t[2] = f.last_vals[2] /\ t[3] = f.last_vals[3] /\ t[4] = v
      BY <1>3, <1>6, <2>1
    <3> QED BY <2>2, <3>1, <3>2
  <2>5. History(g) = u
    <3>1. g.last_count = 3
      BY <1>2, <1>8, <2>1
    <3> QED BY <1>5, <2>2, <2>4, <3>1, SeqEqual
  <2> QED BY <2>3, <2>5 DEF g, h, t
<1> QED BY <1>7, <1>8

\* Among three positions, how few satisfy a condition.
LEMMA AtMostOne ==
  ASSUME NEW S, IsFiniteSet(S)
  PROVE  Cardinality(S) <= 1 <=> \A x, y \in S : x = y
<1>1. Cardinality(S) \in Nat
  BY FS_CardinalityType
<1>2. Cardinality(S) = 0 <=> S = {}
  BY FS_EmptySet
<1>3. Cardinality(S) = 1 <=> \E x : S = {x}
  BY FS_Singleton
<1>4. (\A x, y \in S : x = y) <=> (S = {} \/ \E x : S = {x})
  OBVIOUS
<1>5. Cardinality(S) <= 1 <=> (Cardinality(S) = 0 \/ Cardinality(S) = 1)
  BY <1>1
<1> QED BY <1>2, <1>3, <1>4, <1>5, Zenon

\* The comparisons of median3 leave the middle value (moving_average.c:8-13).
THEOREM MedianIsTheMiddle ==
  ASSUME NEW s \in Seq(Int), Len(s) = 3
  PROVE  Window!Median(s) = median3(s[1], s[2], s[3])
<1> DEFINE P(m) == /\ Window!Cardinality({k \in 1..3 : s[k] < m}) <= 1
                   /\ Window!Cardinality({k \in 1..3 : s[k] > m}) <= 1
           d == median3(s[1], s[2], s[3])
<1>1. s[1] \in Int /\ s[2] \in Int /\ s[3] \in Int /\ DOMAIN s = 1..3
  <2>1. DOMAIN s = 1..3 /\ s \in [1..3 -> Int]
    BY LenProperties
  <2> QED BY <2>1
<1>2. Window!ToSet(s) = {s[1], s[2], s[3]}
  BY <1>1 DEF Window!ToSet
<1>3. ASSUME NEW m \in Int
      PROVE  P(m) <=> /\ ~(s[1] < m /\ s[2] < m) /\ ~(s[1] < m /\ s[3] < m) /\ ~(s[2] < m /\ s[3] < m)
                      /\ ~(s[1] > m /\ s[2] > m) /\ ~(s[1] > m /\ s[3] > m) /\ ~(s[2] > m /\ s[3] > m)
  <2> DEFINE A == {k \in 1..3 : s[k] < m}
             B == {k \in 1..3 : s[k] > m}
  <2>1. IsFiniteSet(A) /\ IsFiniteSet(B)
    <3>1. IsFiniteSet(1..3)
      BY FS_Interval
    <3> QED BY <3>1, FS_Subset
  <2>2. Window!Cardinality(A) = Cardinality(A) /\ Window!Cardinality(B) = Cardinality(B)
    BY Zenon DEF Cardinality, Window!Cardinality
  <2>3. (Cardinality(A) <= 1 <=> \A x, y \in A : x = y) /\ (Cardinality(B) <= 1 <=> \A x, y \in B : x = y)
    BY <2>1, AtMostOne
  <2>4. (\A x, y \in A : x = y)
          <=> ~(s[1] < m /\ s[2] < m) /\ ~(s[1] < m /\ s[3] < m) /\ ~(s[2] < m /\ s[3] < m)
    OBVIOUS
  <2>5. (\A x, y \in B : x = y)
          <=> ~(s[1] > m /\ s[2] > m) /\ ~(s[1] > m /\ s[3] > m) /\ ~(s[2] > m /\ s[3] > m)
    OBVIOUS
  <2> QED BY <2>2, <2>3, <2>4, <2>5
<1>4. Window!Median(s) = CHOOSE m \in Window!ToSet(s) : P(m)
  BY Zenon DEF Window!Median
<1> HIDE DEF P
<1>5. d \in {s[1], s[2], s[3]} /\ P(d)
  BY <1>1, <1>3 DEF median3, Lower, Higher
<1>6. ASSUME NEW m \in {s[1], s[2], s[3]}, P(m) PROVE m = d
  BY <1>1, <1>3, <1>6 DEF median3, Lower, Higher
<1> HIDE DEF d
<1>7. (CHOOSE m \in {s[1], s[2], s[3]} : P(m)) = d
  BY <1>5, <1>6
<1> QED BY <1>2, <1>4, <1>7 DEF d

\* What one update means for the window: the value enters it and its mean is
\* returned, or there is no window and zero is.
LEMMA UpdateEnters ==
  ASSUME NEW f, RingOK(f), NEW v \in Stored
  PROVE  LET g == moving_average_update(f, v)
         IN /\ g.size = f.size /\ g.last_vals = f.last_vals /\ g.last_count = f.last_count
            /\ f.size > 0 =>
                 /\ Content(g) = Window!LastOf(Append(Content(f), v), Size)
                 /\ Returned(g) = Window!Average(Content(g))
            /\ ~(f.size > 0) => g = f /\ Returned(g) = Window!NoAverage
<1> DEFINE g == moving_average_update(f, v)
<1>1. f.size \in Nat /\ f \in MovingAverages(f.size) /\ v \in Int /\ ExactRing(f, f.size)
  BY RingOKIs, StoredInt DEF RingOK
<1>2. CASE f.size > 0
  <2>1. f.size = Size /\ Size \in Nat \ {0}
    BY <1>2, StoredInt DEF RingOK
  <2>2. g.size = f.size /\ g.last_vals = f.last_vals /\ g.last_count = f.last_count
    <3>1. f.size \in Nat \ {0}
      BY <2>1
    <3> QED BY <1>1, <3>1, UpdateFields
  <2>3. Content(g) = Window!LastOf(Append(Content(f), v), Size)
    BY <1>1, <2>1, ContentUpdate
  <2>4. ExactRing(g, Size)
    BY <1>1, <2>1, UpdateExact
  <2> HIDE DEF g
  <2>5. Len(Content(g)) = g.count /\ Window!FoldSeq(+, 0, Content(g)) = g.sum
    BY <2>1, <2>4, ContentSum
  <2>6. Returned(g) = Mean(g.sum, g.count)
    BY <2>1, <2>2 DEF Returned
  <2>7. Returned(g) = Window!Average(Content(g))
    BY <2>5, <2>6, Zenon DEF Mean, Window!Average
  <2> QED BY <1>2, <2>2, <2>3, <2>7 DEF g
<1>3. CASE ~(f.size > 0)
  <2>1. g = f
    BY <1>1, <1>3 DEF moving_average_update
  <2> HIDE DEF g
  <2>2. Returned(g) = ZeroMean
    BY <1>1, <1>3, <2>1 DEF Returned
  <2>3. ZeroMean = Window!NoAverage
    BY DEF ZeroMean, Mean, Window!NoAverage
  <2> QED BY <1>3, <2>1, <2>2, <2>3 DEF g
<1> QED BY <1>2, <1>3

\* A filter with nothing set up is an empty window.
LEMMA MovingAverageInitImplements == MAInit => Window!Init
<1> SUFFICES ASSUME MAInit PROVE Window!Init
  OBVIOUS
<1>1. filter.size = 0 /\ filter.count = 0 /\ filter.last_count = 0 /\ ret = Window!NoAverage
  BY DEF MAInit, Detached, ZeroMean, Mean, Window!NoAverage
<1>2. Content(filter) = <<>>
  BY <1>1, ContentEmpty
<1>3. filter.last_vals \in [1..3 -> Int]
  BY DEF MAInit, Detached
<1>4. History(filter) = <<>>
  <2>1. History(filter) \in Seq(Int) /\ Len(History(filter)) = 0
    BY <1>1, <1>3, HistoryIs
  <2> QED BY <2>1, EmptySeq
<1> QED BY <1>1, <1>2, <1>4 DEF Window!Init, Content, Place, History

\* What Window!Enter says of the filter.
Entered(f, g, r, v) ==
  IF f.size > 0
    THEN Content(g) = Window!LastOf(Append(Content(f), v), Size) /\ r = Window!Average(Content(g))
    ELSE r = Window!NoAverage /\ Content(g) = Content(f)

\* An update of h is the window of f taking a value, when both hold the same.
LEMMA UpdateEntered ==
  ASSUME NEW f, NEW h, RingOK(h), NEW v \in Stored, h.size = f.size, Content(h) = Content(f)
  PROVE  LET g == moving_average_update(h, v)
         IN /\ Entered(f, g, Returned(g), v)
            /\ g.size = f.size /\ g.last_vals = h.last_vals /\ g.last_count = h.last_count
<1> DEFINE g == moving_average_update(h, v)
<1>1. /\ g.size = h.size /\ g.last_vals = h.last_vals /\ g.last_count = h.last_count
      /\ h.size > 0 =>
           /\ Content(g) = Window!LastOf(Append(Content(h), v), Size)
           /\ Returned(g) = Window!Average(Content(g))
      /\ ~(h.size > 0) => g = h /\ Returned(g) = Window!NoAverage
  BY UpdateEnters
<1> HIDE DEF g
<1> QED BY <1>1 DEF Entered, g

\* Remembering a raw value adds it to the history, and with three of them median3 is
\* the abstract median (moving_average.c:77-88).
LEMMA RememberHistory ==
  ASSUME NEW f, RingOK(f), NEW v \in Values
  PROVE  LET g == Remember(f, v)
         IN /\ g.size = f.size /\ Content(g) = Content(f)
            /\ History(g) = Window!LastOf(Append(History(f), v), 3)
            /\ Len(History(g)) = 3 <=> g.last_count = 3
            /\ g.last_count = 3 =>
                 Window!Median(History(g)) = median3(g.last_vals[1], g.last_vals[2], g.last_vals[3])
<1> DEFINE g == Remember(f, v)
<1>1. f.size \in Nat /\ f \in MovingAverages(f.size) /\ v \in Int
  BY RingOKIs, StoredInt DEF Stored
<1>2. /\ g.buffer = f.buffer /\ g.size = f.size /\ g.index = f.index /\ g.count = f.count
  BY <1>1, RememberFields
<1>3. Content(g) = Content(f)
  <2> HIDE DEF g
  <2> QED BY <1>2 DEF Content, Place
<1>4. History(g) = Window!LastOf(Append(History(f), v), 3)
  BY <1>1, HistoryRemember
<1>5. RingOK(g) /\ g.last_count \in 0..3
  BY RememberKeeps
<1> HIDE DEF g
<1>6. g.last_vals \in [1..3 -> Int] /\ g.last_count \in 0..3
  <2>1. g.last_vals \in [1..3 -> Stored]
    BY <1>5 DEF RingOK
  <2> QED BY <1>5, <2>1, StoredInt
<1>7. /\ History(g) \in Seq(Int) /\ Len(History(g)) = g.last_count
      /\ \A k \in 1..g.last_count : History(g)[k] = g.last_vals[k]
  BY <1>6, HistoryIs
<1>8. ASSUME g.last_count = 3
      PROVE  Window!Median(History(g)) = median3(g.last_vals[1], g.last_vals[2], g.last_vals[3])
  <2>1. History(g)[1] = g.last_vals[1] /\ History(g)[2] = g.last_vals[2]
        /\ History(g)[3] = g.last_vals[3]
    BY <1>7, <1>8
  <2>2. Window!Median(History(g)) = median3(History(g)[1], History(g)[2], History(g)[3])
    BY <1>7, <1>8, MedianIsTheMiddle
  <2> QED BY <2>1, <2>2
<1> QED BY <1>2, <1>3, <1>4, <1>7, <1>8 DEF g

\* A filter that counted nothing shows neither window nor history.
LEMMA EmptyFilter ==
  ASSUME NEW f, f.count = 0, f.last_count = 0, f.last_vals \in [1..3 -> Int]
  PROVE  Content(f) = <<>> /\ History(f) = <<>>
<1>1. History(f) \in Seq(Int) /\ Len(History(f)) = 0
  BY HistoryIs
<1> QED BY <1>1, EmptySeq, ContentEmpty

\* Setting up empties the window (moving_average.c:16-34),
LEMMA InitEmpties ==
  ASSUME NEW f, RingOK(f), NEW b \in BOOLEAN
  PROVE  LET g == moving_average_init(f, Size, b)
         IN g.size > 0 /\ Content(g) = <<>> /\ History(g) = <<>>
<1> DEFINE g == moving_average_init(f, Size, b)
<1>1. f.size \in Nat /\ f \in MovingAverages(f.size) /\ Size \in Nat /\ Size > 0
  BY RingOKIs, StoredInt
<1>2. /\ g.buffer = [i \in 0..(Size - 1) |-> 0]
      /\ g.size = Size /\ g.index = 0 /\ g.sum = 0 /\ g.count = 0
      /\ g.last_vals = f.last_vals /\ g.last_count = 0 /\ g.mutex = b
  BY <1>1, InitFields
<1> HIDE DEF g
<1>3. f.last_vals \in [1..3 -> Int]
  BY <1>1, RingFields DEF InRing
<1> QED BY <1>1, <1>2, <1>3, EmptyFilter DEF g

\* tearing down takes it away (moving_average.c:144-165),
LEMMA DeinitEmpties ==
  ASSUME NEW f, RingOK(f)
  PROVE  LET g == moving_average_deinit(f)
         IN ~(g.size > 0) /\ Content(g) = <<>> /\ History(g) = <<>>
<1> DEFINE g == moving_average_deinit(f)
<1>1. f.size \in Nat /\ f \in MovingAverages(f.size)
  BY RingOKIs
<1>2. g.size = 0 /\ g.count = 0 /\ g.last_count = 0 /\ g.last_vals = f.last_vals
  BY DEF moving_average_deinit, Detached
<1> HIDE DEF g
<1>3. f.last_vals \in [1..3 -> Int]
  BY <1>1, RingFields DEF InRing
<1> QED BY <1>2, <1>3, EmptyFilter DEF g

\* and a restart leaves the one value in it, three times in the history
\* (moving_average.c:110-124).
LEMMA ResetRestarts ==
  ASSUME NEW f, RingOK(f), f.size > 0, NEW v \in Int
  PROVE  LET g == moving_average_reset(f, v)
         IN g.size > 0 /\ Content(g) = <<v>> /\ History(g) = <<v, v, v>>
<1> DEFINE g == moving_average_reset(f, v)
           n == f.size
<1>1. n \in Nat \ {0} /\ f \in MovingAverages(n)
  BY RingOKIs
<1>2. /\ g.buffer = [i \in 0..(n - 1) |-> IF i = 0 THEN v ELSE 0]
      /\ g.size = n /\ g.index = 1 % n /\ g.sum = v /\ g.count = 1
      /\ g.last_vals = <<v, v, v>> /\ g.last_count = 3 /\ g.mutex = f.mutex
  BY <1>1, ResetFields
<1>3. Content(g) = <<v>>
  BY <1>1, ContentReset
<1> HIDE DEF g
<1>4. <<v, v, v>> \in [1..3 -> Int] /\ <<v, v, v>> \in Seq(Int) /\ Len(<<v, v, v>>) = 3
  OBVIOUS
<1>5. /\ History(g) \in Seq(Int) /\ Len(History(g)) = 3
      /\ \A k \in 1..3 : History(g)[k] = <<v, v, v>>[k]
  <2>1. g.last_vals \in [1..3 -> Int] /\ g.last_count \in 0..3
    BY <1>2, <1>4
  <2>2. /\ History(g) \in Seq(Int) /\ Len(History(g)) = g.last_count
        /\ \A k \in 1..g.last_count : History(g)[k] = g.last_vals[k]
    BY <2>1, HistoryIs
  <2> QED BY <1>2, <2>2, Zenon
<1>6. History(g) = <<v, v, v>>
  BY <1>4, <1>5, SeqEqual
<1> QED BY <1>1, <1>2, <1>3, <1>6 DEF g

\* Each call on the filter does to the window what it says (moving_average.c:16-165).
LEMMA MovingAverageStepImplements ==
  ASSUME MAInv, [MANext]_maVars PROVE [Window!Next]_Window!vars
<1>1. RingOK(filter)
  BY DEF MAInv
<1>2. filter.size \in Nat /\ filter \in MovingAverages(filter.size) /\ Size \in Nat \ {0}
  BY <1>1, RingOKIs, StoredInt
<1>3. ASSUME NEW mutex \in BOOLEAN, SetUp(mutex) PROVE Window!SetUp
  <2>1. LET g == moving_average_init(filter, Size, mutex)
        IN g.size > 0 /\ Content(g) = <<>> /\ History(g) = <<>>
    BY <1>1, InitEmpties
  <2>2. filter' = moving_average_init(filter, Size, mutex) /\ ret' = ret
    BY <1>3 DEF SetUp
  <2>3. filter'.size > 0 /\ Content(filter') = <<>> /\ History(filter') = <<>>
    BY <2>1, <2>2, Zenon
  <2> QED BY <2>2, <2>3 DEF Window!SetUp, Content, Place, History
<1>4. ASSUME NEW v \in Values, Update(v) PROVE Window!Take(v)
  <2>1. v \in Stored /\ filter' = moving_average_update(filter, v) /\ ret' = Returned(filter')
    BY <1>4 DEF Stored, Update
  <2>2. LET g == moving_average_update(filter, v)
        IN /\ Entered(filter, g, Returned(g), v)
           /\ g.size = filter.size /\ g.last_vals = filter.last_vals
           /\ g.last_count = filter.last_count
    BY <1>1, <2>1, UpdateEntered
  <2>3. /\ Entered(filter, filter', ret', v)
        /\ filter'.size = filter.size /\ filter'.last_vals = filter.last_vals
        /\ filter'.last_count = filter.last_count
    BY <2>1, <2>2, Zenon
  <2>4. History(filter') = History(filter)
    BY <2>3 DEF History
  <2> QED BY <2>3, <2>4 DEF Entered, Window!Take, Window!Enter, Content, Place, History
<1>5. ASSUME NEW v \in Values, UpdateMedian3(v) PROVE Window!TakeMedian(v)
  <2> DEFINE g == Remember(filter, v)
             w == IF g.last_count = 3
                    THEN median3(g.last_vals[1], g.last_vals[2], g.last_vals[3]) ELSE v
  <2>1. filter' = moving_average_update(g, w) /\ ret' = Returned(filter')
    BY <1>5, Zenon DEF UpdateMedian3, moving_average_update_median3
  <2>2. /\ g.size = filter.size /\ Content(g) = Content(filter)
        /\ History(g) = Window!LastOf(Append(History(filter), v), 3)
        /\ Len(History(g)) = 3 <=> g.last_count = 3
        /\ g.last_count = 3 =>
             Window!Median(History(g)) = median3(g.last_vals[1], g.last_vals[2], g.last_vals[3])
    BY <1>1, RememberHistory, Zenon
  <2>3. RingOK(g)
    BY <1>1, RememberKeeps
  <2>4. w \in Stored
    <3>1. g.last_vals[1] \in Stored /\ g.last_vals[2] \in Stored /\ g.last_vals[3] \in Stored
      BY <2>3 DEF RingOK
    <3>2. median3(g.last_vals[1], g.last_vals[2], g.last_vals[3]) \in Stored
      BY <3>1, MedianIsOneOfThem
    <3> QED BY <3>2 DEF Stored
  <2>5. w = IF Len(History(g)) = 3 THEN Window!Median(History(g)) ELSE v
    BY <2>2
  <2> HIDE DEF g, w
  <2>6. LET f == moving_average_update(g, w)
        IN /\ Entered(filter, f, Returned(f), w)
           /\ f.size = filter.size /\ f.last_vals = g.last_vals /\ f.last_count = g.last_count
    BY <2>2, <2>3, <2>4, UpdateEntered
  <2>7. /\ Entered(filter, filter', ret', w)
        /\ filter'.size = filter.size
        /\ filter'.last_vals = g.last_vals /\ filter'.last_count = g.last_count
    BY <2>1, <2>6, Zenon
  <2>8. History(filter') = History(g)
    BY <2>7 DEF History
  <2>9. w = IF Len(History(filter')) = 3 THEN Window!Median(History(filter')) ELSE v
    BY <2>5, <2>8
  <2>10. History(filter') = Window!LastOf(Append(History(filter), v), 3)
    BY <2>2, <2>8
  <2> QED
    BY <2>7, <2>9, <2>10
    DEF Entered, Window!TakeMedian, Window!Enter, Content, Place, History
<1>6. ASSUME NEW v \in Values, Reset(v) PROVE Window!Restart(v) \/ UNCHANGED maVars
  <2>1. filter' = moving_average_reset(filter, v) /\ ret' = ret /\ v \in Int
    BY <1>6, StoredInt DEF Reset, Stored
  <2>2. CASE filter.size = 0
    <3>1. filter' = filter
      BY <2>1, <2>2 DEF moving_average_reset
    <3> QED BY <2>1, <3>1 DEF maVars
  <2>3. CASE filter.size # 0
    <3>1. filter.size > 0
      BY <1>2, <2>3
    <3>2. LET g == moving_average_reset(filter, v)
          IN g.size > 0 /\ Content(g) = <<v>> /\ History(g) = <<v, v, v>>
      BY <1>1, <2>1, <3>1, ResetRestarts
    <3>3. filter'.size > 0 /\ Content(filter') = <<v>> /\ History(filter') = <<v, v, v>>
      BY <2>1, <3>2, Zenon
    <3> QED BY <2>1, <3>1, <3>3 DEF Window!Restart, Content, Place, History
  <2> QED BY <2>2, <2>3
<1>7. ASSUME UpdateTimedOut PROVE Window!Ignore
  <2>1. ZeroMean = Window!NoAverage
    BY DEF ZeroMean, Mean, Window!NoAverage
  <2> QED BY <1>7, <2>1 DEF UpdateTimedOut, Window!Ignore
<1>8. ASSUME Deinit PROVE Window!TearDown
  <2>1. LET g == moving_average_deinit(filter)
        IN ~(g.size > 0) /\ Content(g) = <<>> /\ History(g) = <<>>
    BY <1>1, DeinitEmpties
  <2>2. filter' = moving_average_deinit(filter) /\ ret' = ret
    BY <1>8 DEF Deinit
  <2>3. ~(filter'.size > 0) /\ Content(filter') = <<>> /\ History(filter') = <<>>
    BY <2>1, <2>2, Zenon
  <2> QED BY <2>2, <2>3 DEF Window!TearDown, Content, Place, History
<1>9. ASSUME UNCHANGED maVars PROVE UNCHANGED Window!vars
  BY <1>9 DEF maVars, Window!vars
<1> QED BY <1>3, <1>4, <1>5, <1>6, <1>7, <1>8, <1>9 DEF MANext, Window!Next

\* The ring buffer with its running sum is a sliding window and its mean, and the
\* history in front of it a window of three (moving_average.c:16-165).
THEOREM MovingAverageImplementsWindow == MASpec => ImplementsWindow
<1>1. MAInit => Window!Init
  BY MovingAverageInitImplements
<1>2. MAInv /\ [MANext]_maVars => [Window!Next]_Window!vars
  BY MovingAverageStepImplements
<1> QED BY <1>1, <1>2, MovingAverageInvariant, PTL DEF MASpec, ImplementsWindow, Window!Spec
=============================================================================

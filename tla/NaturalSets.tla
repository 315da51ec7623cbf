----------------------------- MODULE NaturalSets -----------------------------
(***************************************************************************)
(* Induction and enumeration for sets of naturals, stated of sets so that  *)
(* the provers can use them: to show \A n \in Nat : P(n), apply            *)
(* SetInduction to {n \in Nat : P(n)}.                                     *)
(***************************************************************************)
EXTENDS Integers, FiniteSets, FiniteSetTheorems, WellFoundedInduction, TLAPS

\* A set of naturals that is not empty has a smallest element: the shortest of
\* the intervals that end in it is one, as inclusion of finite sets is well
\* founded.
LEMMA Least ==
  ASSUME NEW S \in SUBSET Nat, S # {}
  PROVE  \E m \in S : \A k \in S : m <= k
<1> DEFINE Intervals == {0..m : m \in S}
<1>1. Intervals \subseteq FiniteSubsetsOf(Nat)
  <2>1. \A m \in Nat : IsFiniteSet(0..m)
    BY FS_Interval
  <2> QED BY <2>1 DEF FiniteSubsetsOf
<1>2. Intervals # {}
  OBVIOUS
<1> HIDE DEF Intervals
<1>3. PICK x \in Intervals : \A y \in Intervals : ~(<<y, x>> \in StrictSubsetOrdering(Nat))
  BY <1>1, <1>2, WFMin, FS_StrictSubsetOrderingWellFounded
<1> USE DEF Intervals
<1>4. PICK m \in S : x = 0..m
  BY <1>3
<1>5. ASSUME NEW k \in S, k < m PROVE FALSE
  <2>1. 0..k \in Intervals
    BY <1>5
  <2>2. 0..k \subseteq 0..m /\ m \in 0..m /\ m \notin 0..k
    BY <1>5
  <2>3. <<0..k, x>> \in StrictSubsetOrdering(Nat)
    BY <1>4, <2>2 DEF StrictSubsetOrdering
  <2> QED BY <2>1, <2>3, <1>3
<1> QED BY <1>5

\* Induction: a set that holds 0 and, with a natural, the next one holds all.
LEMMA SetInduction ==
  ASSUME NEW S, 0 \in S, \A n \in Nat : n \in S => n + 1 \in S
  PROVE  Nat \subseteq S
<1> SUFFICES ASSUME Nat \ S # {} PROVE FALSE
  OBVIOUS
<1>1. PICK m \in Nat \ S : \A k \in Nat \ S : m <= k
  BY Least
<1>2. m # 0 /\ m - 1 \in Nat
  BY <1>1
<1>3. m - 1 \in S
  BY <1>1, <1>2
<1> QED BY <1>1, <1>2, <1>3

\* The same from 0 to a bound.
LEMMA IntervalInduction ==
  ASSUME NEW N \in Nat, NEW S, 0 \in S, \A n \in 0..(N - 1) : n \in S => n + 1 \in S
  PROVE  0..N \subseteq S
<1> DEFINE T == S \cup {n \in Nat : n > N}
<1>1. 0 \in T
  OBVIOUS
<1>2. ASSUME NEW n \in Nat, n \in T PROVE n + 1 \in T
  BY <1>2
<1> HIDE DEF T
<1>3. Nat \subseteq T
  BY <1>1, <1>2, SetInduction
<1> QED BY <1>3 DEF T

\* Some function starts with a and goes on as `step` says.
Iterable(N, V, a, step) ==
  \E f \in [0..N -> V] : f[0] = a /\ \A i \in 1..N : f[i] = step[i][f[i - 1]]

\* A function can be defined by its first value and by how each value follows
\* from the one before.
LEMMA Iteration ==
  ASSUME NEW N \in Nat, NEW V, NEW a \in V, NEW step \in [1..N -> [V -> V]]
  PROVE  Iterable(N, V, a, step)
<1> DEFINE Upto(n) == \E f \in [0..n -> V] : f[0] = a /\ \A i \in 1..n : f[i] = step[i][f[i - 1]]
           S == {n \in Nat : Upto(n)}
<1>1. 0 \in S
  <2> DEFINE f == [i \in 0..0 |-> a]
  <2>1. f \in [0..0 -> V] /\ f[0] = a /\ 1..0 = {}
    OBVIOUS
  <2> QED BY <2>1
<1>2. ASSUME NEW n \in 0..(N - 1), n \in S PROVE n + 1 \in S
  <2>1. PICK f \in [0..n -> V] : f[0] = a /\ \A i \in 1..n : f[i] = step[i][f[i - 1]]
    BY <1>2
  <2> DEFINE g == [i \in 0..(n + 1) |-> IF i <= n THEN f[i] ELSE step[n + 1][f[n]]]
  <2>2. n \in Nat /\ n + 1 \in 1..N /\ step[n + 1] \in [V -> V] /\ f[n] \in V
    BY <1>2
  <2>3. g \in [0..(n + 1) -> V]
    BY <2>2
  <2>4. g[0] = a
    BY <2>1, <2>2
  <2>5. ASSUME NEW i \in 1..(n + 1) PROVE g[i] = step[i][g[i - 1]]
    <3>1. CASE i \in 1..n
      BY <2>1, <2>2, <3>1
    <3>2. CASE i = n + 1
      BY <2>2, <3>2
    <3> QED BY <2>2, <3>1, <3>2
  <2> HIDE DEF g
  <2> QED BY <2>2, <2>3, <2>4, <2>5
<1> HIDE DEF S
<1>3. 0..N \subseteq S
  BY <1>1, <1>2, IntervalInduction
<1>4. N \in S
  BY <1>3
<1> QED BY <1>4 DEF S, Iterable

\* A bounded set of naturals that is not empty has a greatest element.
LEMMA Greatest ==
  ASSUME NEW N \in Nat, NEW S \in SUBSET (0..N), S # {}
  PROVE  \E m \in S : \A k \in S : k <= m
<1> DEFINE U == {n \in Nat : \A k \in S : k <= n}
<1>1. N \in U
  OBVIOUS
<1>2. PICK m \in U : \A k \in U : m <= k
  <2> HIDE DEF U
  <2>1. U \subseteq Nat /\ U # {}
    BY <1>1 DEF U
  <2> QED BY <2>1, Least
<1>3. CASE m \notin S
  <2>1. \A k \in S : k <= m - 1
    BY <1>2, <1>3
  <2>2. PICK k \in S : TRUE
    OBVIOUS
  <2>3. m - 1 \in Nat
    BY <1>2, <2>1, <2>2
  <2>4. m - 1 \in U
    BY <2>1, <2>3
  <2> QED BY <1>2, <2>4
<1> QED BY <1>2, <1>3

\* The elements of a finite set of naturals can be listed in ascending order.
LEMMA Ascending ==
  ASSUME NEW S \in SUBSET Nat, IsFiniteSet(S)
  PROVE  \E u \in [1..Cardinality(S) -> S] : \A i, j \in DOMAIN u : i < j => u[i] < u[j]
<1> DEFINE Listed(T, n) == \E u \in [1..n -> T] : \A i, j \in 1..n : i < j => u[i] < u[j]
           Sizes == {n \in Nat : \A T \in SUBSET Nat :
                                   IsFiniteSet(T) /\ Cardinality(T) = n => Listed(T, n)}
<1>1. 0 \in Sizes
  <2> SUFFICES ASSUME NEW T \in SUBSET Nat PROVE Listed(T, 0)
    OBVIOUS
  <2>1. 1..0 = {}
    OBVIOUS
  <2>2. [i \in 1..0 |-> 0] \in [1..0 -> T]
    BY <2>1
  <2> QED BY <2>1, <2>2
<1>2. ASSUME NEW n \in Nat, n \in Sizes PROVE n + 1 \in Sizes
  <2> SUFFICES ASSUME NEW T \in SUBSET Nat, IsFiniteSet(T), Cardinality(T) = n + 1
               PROVE  Listed(T, n + 1)
    OBVIOUS
  <2>1. T # {}
    BY FS_EmptySet
  <2>2. PICK m \in T : \A k \in T : m <= k
    BY <2>1, Least
  <2>3. IsFiniteSet(T \ {m}) /\ Cardinality(T \ {m}) = n
    <3>1. Cardinality(T \ {m}) = Cardinality(T) - 1 /\ IsFiniteSet(T \ {m})
      BY FS_RemoveElement
    <3> QED BY <3>1
  <2>4. PICK u \in [1..n -> T \ {m}] : \A i, j \in 1..n : i < j => u[i] < u[j]
    BY <1>2, <2>3
  <2> DEFINE w == [i \in 1..(n + 1) |-> IF i = 1 THEN m ELSE u[i - 1]]
  <2>5. w \in [1..(n + 1) -> T]
    OBVIOUS
  <2>6. ASSUME NEW i \in 1..(n + 1), NEW j \in 1..(n + 1), i < j PROVE w[i] < w[j]
    <3>1. j - 1 \in 1..n /\ w[j] = u[j - 1] /\ u[j - 1] \in T \ {m}
      BY <2>6
    <3>2. CASE i = 1
      <4>1. w[i] = m /\ m <= u[j - 1] /\ m # u[j - 1]
        BY <2>2, <3>1, <3>2
      <4>2. m \in Nat /\ u[j - 1] \in Nat
        BY <3>1
      <4> QED BY <3>1, <4>1, <4>2
    <3>3. CASE i # 1
      <4>1. i - 1 \in 1..n /\ w[i] = u[i - 1] /\ i - 1 < j - 1
        BY <2>6, <3>3
      <4> QED BY <2>4, <3>1, <4>1
    <3> QED BY <3>2, <3>3
  <2> HIDE DEF w
  <2> QED BY <2>5, <2>6
<1> HIDE DEF Sizes
<1>3. Nat \subseteq Sizes
  BY <1>1, <1>2, SetInduction
<1>4. Cardinality(S) \in Nat
  BY FS_CardinalityType
<1>5. Listed(S, Cardinality(S))
  BY <1>3, <1>4 DEF Sizes
<1> QED BY <1>5

\* A list of all the elements that is as long as the set is leaves none out.
LEMMA AscendingIsOnto ==
  ASSUME NEW S \in SUBSET Nat, IsFiniteSet(S),
         NEW u \in [1..Cardinality(S) -> S],
         \A i, j \in DOMAIN u : i < j => u[i] < u[j]
  PROVE  \A x \in S : \E i \in 1..Cardinality(S) : u[i] = x
<1>1. Cardinality(S) \in Nat
  BY FS_CardinalityType
<1>2. ASSUME NEW i \in 1..Cardinality(S), NEW j \in 1..Cardinality(S), u[i] = u[j]
      PROVE  i = j
  <2>1. u[i] \in Nat /\ DOMAIN u = 1..Cardinality(S)
    OBVIOUS
  <2>2. ~(i < j) /\ ~(j < i)
    BY <1>2, <2>1
  <2> QED BY <1>1, <2>2
<1>3. u \in Injection(1..Cardinality(S), S)
  BY <1>2 DEF Injection, IsInjective
<1>4. IsFiniteSet(1..Cardinality(S)) /\ Cardinality(1..Cardinality(S)) = Cardinality(S)
  BY <1>1, FS_Interval
<1>5. u \in Surjection(1..Cardinality(S), S)
  BY <1>3, <1>4, FS_Injection
<1> QED BY <1>5 DEF Surjection
\* Sequence u lists 1..n in the order of their keys w, and lists each one once.
Sorted(n, w, u) ==
  u \in [1..n -> 1..n] /\ \A j, k \in 1..n : j < k => w[u[j]] < w[u[k]]
Permutes(n, u) ==
  /\ \A j, k \in 1..n : u[j] = u[k] => j = k
  /\ \A i \in 1..n : \E k \in 1..n : u[k] = i

\* Things with different keys can be put in the order of their keys.
LEMMA Sorting ==
  ASSUME NEW n \in Nat, NEW w \in [1..n -> Nat],
         \A i, j \in 1..n : w[i] = w[j] => i = j
  PROVE  \E u : Sorted(n, w, u)
<1> DEFINE S == {w[i] : i \in 1..n}
<1>1. w \in [1..n -> S] /\ S \in SUBSET Nat
  OBVIOUS
<1>2. w \in Bijection(1..n, S)
  BY <1>1 DEF Bijection, Injection, Surjection, IsInjective
<1>3. IsFiniteSet(1..n) /\ Cardinality(1..n) = n
  BY FS_Interval
<1>4. ExistsBijection(1..n, S)
  BY <1>2 DEF ExistsBijection
<1> HIDE DEF S
<1>5. IsFiniteSet(S) /\ Cardinality(S) = n
  BY <1>3, <1>4, FS_Bijection
<1>6. PICK v \in [1..n -> S] : \A j, k \in 1..n : j < k => v[j] < v[k]
  <2>1. \E v \in [1..Cardinality(S) -> S] : \A i, j \in DOMAIN v : i < j => v[i] < v[j]
    BY <1>1, <1>5, Ascending
  <2> QED BY <1>5, <2>1
<1> DEFINE u == [j \in 1..n |-> CHOOSE i \in 1..n : w[i] = v[j]]
<1>7. ASSUME NEW j \in 1..n PROVE u[j] \in 1..n /\ w[u[j]] = v[j]
  <2>1. \E i \in 1..n : w[i] = v[j]
    BY <1>6 DEF S
  <2> QED BY <2>1
<1>8. u \in [1..n -> 1..n]
  BY <1>7
<1> HIDE DEF u
<1>9. \A j, k \in 1..n : j < k => w[u[j]] < w[u[k]]
  BY <1>6, <1>7
<1> QED BY <1>8, <1>9 DEF Sorted

\* Such an order leaves nothing out and has nothing twice.
LEMMA SortingIsOnto ==
  ASSUME NEW n \in Nat, NEW w \in [1..n -> Nat], NEW u, Sorted(n, w, u)
  PROVE  Permutes(n, u)
<1> USE DEF Sorted
<1>1. ASSUME NEW j \in 1..n, NEW k \in 1..n, u[j] = u[k] PROVE j = k
  <2>1. w[u[j]] \in Nat /\ w[u[k]] = w[u[j]]
    BY <1>1
  <2>2. ~(w[u[j]] < w[u[k]]) /\ ~(w[u[k]] < w[u[j]])
    BY <2>1
  <2> QED BY <2>2
<1>2. u \in Injection(1..n, 1..n)
  BY <1>1 DEF Injection, IsInjective
<1>3. IsFiniteSet(1..n)
  BY FS_Interval
<1>4. u \in Surjection(1..n, 1..n)
  BY <1>2, <1>3, FS_Injection
<1> QED BY <1>1, <1>4 DEF Surjection, Permutes
=============================================================================

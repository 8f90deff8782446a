------------------------------- MODULE Induction -------------------------------
(***************************************************************************)
(* Induction for sets in place of operators.  The induction theorems of    *)
(* the library quantify over an operator, which the provers cannot         *)
(* instantiate; a set of numbers they can.  With it, what the SumFunction  *)
(* of the community modules computes: it is a recursive function.          *)
(***************************************************************************)
EXTENDS Integers, Functions, FiniteSetTheorems, TLAPS

\* A set of numbers with 0 that is closed under successor is Nat: were m missing, the
\* successor would map the members below m one to one into those without 0, which
\* are one fewer.
LEMMA SetInduction ==
  ASSUME NEW T \in SUBSET Nat, 0 \in T, \A n \in T : n + 1 \in T
  PROVE  T = Nat
<1>1. SUFFICES ASSUME NEW m \in Nat, m \notin T PROVE FALSE
  OBVIOUS
<1> DEFINE S == T \cap (0..m)
           f == [n \in S |-> n + 1]
<1>2. IsFiniteSet(S)
  <2>1. IsFiniteSet(0..m) /\ S \in SUBSET (0..m)
    BY FS_Interval
  <2>2. QED
    BY <2>1, FS_Subset
<1>3. /\ IsFiniteSet(S \ {0})
      /\ Cardinality(S \ {0}) = Cardinality(S) - 1
      /\ Cardinality(S) \in Nat
  <2>1. 0 \in S
    OBVIOUS
  <2> HIDE DEF S
  <2>2. QED
    BY <1>2, <2>1, FS_RemoveElement, FS_CardinalityType
<1>4. f \in Injection(S, S \ {0})
  <2>1. \A n \in S : n + 1 \in S \ {0} /\ n \in Nat
    <3> TAKE n \in S
    <3>1. n \in T /\ n <= m /\ n \in Nat /\ n # m
      BY <1>1
    <3>2. QED
      BY <3>1
  <2>2. f \in [S -> S \ {0}]
    BY <2>1
  <2>3. IsInjective(f)
    BY <2>1 DEF IsInjective
  <2>4. QED
    BY <2>2, <2>3 DEF Injection
<1>5. Cardinality(S) <= Cardinality(S \ {0})
  <2> HIDE DEF S, f
  <2>1. QED
    BY <1>3, <1>4, FS_Injection
<1>6. QED
  <2> HIDE DEF S
  <2>1. QED
    BY <1>3, <1>5

\* A set of numbers that is not empty has a least member.
THEOREM LeastMember ==
  ASSUME NEW T \in SUBSET Nat, T # {}
  PROVE  \E m \in T : \A n \in T : m <= n
<1>1. SUFFICES ASSUME \A m \in T : \E n \in T : n < m PROVE FALSE
  OBVIOUS
<1> DEFINE Below == {n \in Nat : \A i \in 0..n : i \notin T}
<1>2. 0 \in Below
  BY <1>1
<1>3. \A n \in Below : n + 1 \in Below
  <2> SUFFICES ASSUME NEW n \in Below, NEW i \in 0..(n + 1), i \in T PROVE FALSE
    OBVIOUS
  <2>1. PICK j \in T : j < i
    BY <1>1
  <2>2. j \in 0..n
    BY <2>1
  <2>3. QED
    BY <2>2
<1>4. Below = Nat
  <2> HIDE DEF Below
  <2>1. Below \in SUBSET Nat
    BY DEF Below
  <2>2. QED
    BY <1>2, <1>3, <2>1, SetInduction
<1>5. PICK m \in T : TRUE
  OBVIOUS
<1>6. m \in 0..m /\ m \in Below
  BY <1>4
<1>7. QED
  BY <1>6

\* Finitely many numbers, and zero, have a greatest.
THEOREM GreatestValue ==
  ASSUME NEW n \in Nat, NEW f \in [1..n -> Nat]
  PROVE  \E m \in {0} \union {f[i] : i \in 1..n} : \A i \in 1..n : f[i] <= m
<1> DEFINE T == {k \in Nat : k <= n =>
                   \E m \in {0} \union {f[i] : i \in 1..k} : \A i \in 1..k : f[i] <= m}
<1>1. 0 \in T
  OBVIOUS
<1>2. ASSUME NEW k \in T PROVE k + 1 \in T
  <2>1. SUFFICES ASSUME k + 1 <= n
                 PROVE  \E m \in {0} \union {f[i] : i \in 1..(k + 1)} :
                          \A i \in 1..(k + 1) : f[i] <= m
    OBVIOUS
  <2>2. PICK m \in {0} \union {f[i] : i \in 1..k} : \A i \in 1..k : f[i] <= m
    BY <2>1
  <2>3. m \in Nat /\ f[k + 1] \in Nat /\ k + 1 \in 1..(k + 1)
    BY <2>1
  <2>4. CASE m < f[k + 1]
    <3>1. \A i \in 1..(k + 1) : f[i] <= f[k + 1]
      BY <2>1, <2>2, <2>3, <2>4
    <3>2. QED
      BY <2>3, <3>1
  <2>5. CASE f[k + 1] <= m
    <3>1. \A i \in 1..(k + 1) : f[i] <= m
      BY <2>2, <2>5
    <3>2. \A i \in 1..k : i \in 1..(k + 1)
      OBVIOUS
    <3>3. m \in {0} \union {f[i] : i \in 1..(k + 1)}
      <4>1. CASE m = 0
        BY <4>1
      <4>2. CASE \E i \in 1..k : m = f[i]
        BY <3>2, <4>2
      <4>3. QED
        BY <2>2, <4>1, <4>2
    <3>4. QED
      BY <3>1, <3>3
  <2>6. QED
    BY <2>3, <2>4, <2>5
<1>3. T = Nat
  <2>1. T \in SUBSET Nat
    OBVIOUS
  <2> HIDE DEF T
  <2>2. QED
    BY <1>1, <1>2, <2>1, SetInduction
<1>4. n \in T /\ n <= n
  <2>1. n <= n
    OBVIOUS
  <2> HIDE DEF T
  <2>2. QED
    BY <1>3, <2>1
<1>5. QED
  BY <1>4, Zenon

-------------------------------------------------------------------------------
(* Sums                                                                    *)

Pick(s) == CHOOSE x \in s : TRUE

\* One unfolding of the sums of f over the subsets of its domain.
SumStep(f, g) ==
  [s \in SUBSET DOMAIN f |-> IF s = {} THEN 0 ELSE f[Pick(s)] + g[s \ {Pick(s)}]]

\* h is f but for u, where it is d more; the same of the sums g and k.
DiffersBy(D, f, h, u, d) == \A x \in D : h[x] = IF x = u THEN f[x] + d ELSE f[x]
SumsDifferBy(D, g, k, u, d) == \A s \in SUBSET D : k[s] = IF u \in s THEN g[s] + d ELSE g[s]

LEMMA PickSmaller ==
  ASSUME NEW D, IsFiniteSet(D), NEW s \in SUBSET D, s # {}
  PROVE  /\ Pick(s) \in s /\ s \ {Pick(s)} \in SUBSET D
         /\ Cardinality(s) \in Nat /\ Cardinality(s) >= 1
         /\ Cardinality(s \ {Pick(s)}) = Cardinality(s) - 1
<1>1. Pick(s) \in s
  BY DEF Pick
<1>2. IsFiniteSet(s)
  BY FS_Subset
<1>3. Cardinality(s) \in Nat /\ Cardinality(s) # 0
  BY <1>2, FS_CardinalityType, FS_EmptySet
<1>4. Cardinality(s \ {Pick(s)}) = Cardinality(s) - 1
  BY <1>1, <1>2, FS_RemoveElement
<1>5. QED
  BY <1>1, <1>3, <1>4

LEMMA NothingToPick ==
  ASSUME NEW D, IsFiniteSet(D), NEW s \in SUBSET D, Cardinality(s) <= 0
  PROVE  s = {}
<1>1. IsFiniteSet(s) /\ Cardinality(s) \in Nat
  BY FS_Subset, FS_CardinalityType
<1>2. Cardinality(s) = 0
  BY <1>1
<1>3. QED
  BY <1>1, <1>2, FS_EmptySet

\* The sums exist, and are numbers.
LEMMA SumsExist ==
  ASSUME NEW D, IsFiniteSet(D), NEW f \in [D -> Int]
  PROVE  \E g \in [SUBSET D -> Int] : g = SumStep(f, g)
<1> DEFINE Correct(g, n) ==
             \A s \in SUBSET D : Cardinality(s) <= n =>
               g[s] = IF s = {} THEN 0 ELSE f[Pick(s)] + g[s \ {Pick(s)}]
           T == {n \in Nat : \E g \in [SUBSET D -> Int] : Correct(g, n)}
<1>1. 0 \in T
  <2> DEFINE g == [s \in SUBSET D |-> 0]
  <2>1. g \in [SUBSET D -> Int]
    OBVIOUS
  <2>2. Correct(g, 0)
    <3> SUFFICES ASSUME NEW s \in SUBSET D, Cardinality(s) <= 0 PROVE s = {}
      OBVIOUS
    <3>1. QED
      BY NothingToPick
  <2> HIDE DEF g, Correct
  <2>3. QED
    BY <2>1, <2>2
<1>2. ASSUME NEW n \in T PROVE n + 1 \in T
  <2>1. PICK g \in [SUBSET D -> Int] : Correct(g, n)
    OBVIOUS
  <2> DEFINE h == [s \in SUBSET D |-> IF s = {} THEN 0 ELSE f[Pick(s)] + g[s \ {Pick(s)}]]
  <2>2. h \in [SUBSET D -> Int]
    <3> SUFFICES ASSUME NEW s \in SUBSET D, s # {}
                 PROVE  f[Pick(s)] + g[s \ {Pick(s)}] \in Int
      OBVIOUS
    <3>1. f[Pick(s)] \in Int /\ g[s \ {Pick(s)}] \in Int
      BY PickSmaller
    <3>2. QED
      BY <3>1
  <2>3. \A s \in SUBSET D : Cardinality(s) <= n => h[s] = g[s]
    BY <2>1
  <2>4. Correct(h, n + 1)
    <3> SUFFICES ASSUME NEW s \in SUBSET D, Cardinality(s) <= n + 1, s # {}
                 PROVE  h[s] = f[Pick(s)] + h[s \ {Pick(s)}]
      OBVIOUS
    <3>1. s \ {Pick(s)} \in SUBSET D /\ Cardinality(s \ {Pick(s)}) <= n
      BY PickSmaller
    <3>2. h[s \ {Pick(s)}] = g[s \ {Pick(s)}]
      BY <2>3, <3>1
    <3>3. QED
      BY <3>2
  <2> HIDE DEF h, Correct
  <2>5. n + 1 \in Nat
    OBVIOUS
  <2>6. QED
    BY <2>2, <2>4, <2>5
<1>3. T = Nat
  <2>1. T \in SUBSET Nat
    OBVIOUS
  <2> HIDE DEF T
  <2>2. QED
    BY <1>1, <1>2, <2>1, SetInduction
<1>4. Cardinality(D) \in Nat
  BY FS_CardinalityType
<1>5. PICK g \in [SUBSET D -> Int] : Correct(g, Cardinality(D))
  BY <1>3, <1>4
<1>6. \A s \in SUBSET D : Cardinality(s) <= Cardinality(D)
  BY FS_Subset
<1>7. g = SumStep(f, g)
  BY <1>5, <1>6 DEF SumStep
<1>8. QED
  BY <1>7

\* Two solutions for functions that differ by d at u differ by d where u is counted.
LEMMA SumsDiffer ==
  ASSUME NEW D, IsFiniteSet(D), NEW f \in [D -> Int], NEW h \in [D -> Int],
         NEW u, NEW d \in Int, DiffersBy(D, f, h, u, d),
         NEW g \in [SUBSET D -> Int], g = SumStep(f, g),
         NEW k, k = SumStep(h, k)
  PROVE  SumsDifferBy(D, g, k, u, d)
<1> DEFINE T == {n \in Nat : \A s \in SUBSET D : Cardinality(s) <= n =>
                                 k[s] = IF u \in s THEN g[s] + d ELSE g[s]}
<1>e. /\ k[{}] = 0 /\ g[{}] = 0
      /\ \A s \in SUBSET D : s # {} => /\ k[s] = h[Pick(s)] + k[s \ {Pick(s)}]
                                       /\ g[s] = f[Pick(s)] + g[s \ {Pick(s)}]
  <2>1. DOMAIN f = D /\ DOMAIN h = D
    OBVIOUS
  <2>2. \A s \in SUBSET D :
          /\ k[s] = IF s = {} THEN 0 ELSE h[Pick(s)] + k[s \ {Pick(s)}]
          /\ g[s] = IF s = {} THEN 0 ELSE f[Pick(s)] + g[s \ {Pick(s)}]
    BY <2>1 DEF SumStep
  <2>3. {} \in SUBSET D
    OBVIOUS
  <2>4. QED
    BY <2>2, <2>3
<1>1. 0 \in T
  <2> SUFFICES ASSUME NEW s \in SUBSET D, Cardinality(s) <= 0
               PROVE  k[s] = IF u \in s THEN g[s] + d ELSE g[s]
    OBVIOUS
  <2>1. s = {}
    BY NothingToPick
  <2>2. QED
    BY <1>e, <2>1
<1>2. ASSUME NEW n \in T PROVE n + 1 \in T
  <2> SUFFICES ASSUME NEW s \in SUBSET D, Cardinality(s) <= n + 1
               PROVE  k[s] = IF u \in s THEN g[s] + d ELSE g[s]
    OBVIOUS
  <2>1. CASE s = {}
    BY <1>e, <2>1
  <2>2. CASE s # {}
    <3> DEFINE x == Pick(s)
               r == s \ {x}
    <3>1. x \in s /\ x \in D /\ r \in SUBSET D /\ Cardinality(r) <= n
      BY <2>2, PickSmaller
    <3>2. k[r] = IF u \in r THEN g[r] + d ELSE g[r]
      BY <3>1
    <3>3. k[s] = h[x] + k[r] /\ g[s] = f[x] + g[r]
      BY <1>e, <2>2
    <3>4. u \in s <=> u = x \/ u \in r
      BY <3>1
    <3>5. u \in r => u # x
      OBVIOUS
    <3>6. h[x] = IF x = u THEN f[x] + d ELSE f[x]
      BY <3>1 DEF DiffersBy
    <3>7. f[x] \in Int /\ g[r] \in Int
      BY <3>1
    <3> HIDE DEF x, r
    <3>8. QED
      BY <3>2, <3>3, <3>4, <3>5, <3>6, <3>7
  <2>3. QED
    BY <2>1, <2>2
<1>3. T = Nat
  <2>1. T \in SUBSET Nat
    OBVIOUS
  <2> HIDE DEF T
  <2>2. QED
    BY <1>1, <1>2, <2>1, SetInduction
<1>4. \A s \in SUBSET D : Cardinality(s) \in Nat
  BY FS_Subset, FS_CardinalityType
<1>5. QED
  BY <1>3, <1>4 DEF SumsDifferBy

\* What SumFunction returns is such a solution, taken at the whole domain.
LEMMA SumIsSolution ==
  ASSUME NEW D, IsFiniteSet(D), NEW f \in [D -> Int]
  PROVE  \E g \in [SUBSET D -> Int] : g = SumStep(f, g) /\ SumFunction(f) = g[D]
<1>1. PICK g \in [SUBSET D -> Int] : g = SumStep(f, g)
  BY SumsExist
<1> DEFINE k == CHOOSE k : k = SumStep(f, k)
<1>2. k = SumStep(f, k)
  BY <1>1
<1>3. SumFunction(f) = k[D]
  <2>1. SumFunction(f) = k[DOMAIN f]
    BY DEF SumFunction, SumFunctionOnSet, FoldFunctionOnSet, MapThenFoldSet, SumStep, Pick
  <2>2. QED
    BY <2>1
<1> HIDE DEF k
<1>4. DiffersBy(D, f, f, f, 0)
  <2> SUFFICES ASSUME NEW x \in D PROVE f[x] = f[x] + 0
    BY DEF DiffersBy
  <2>1. f[x] \in Int
    OBVIOUS
  <2>2. QED
    BY <2>1
<1>5. SumsDifferBy(D, g, k, f, 0)
  BY <1>1, <1>2, <1>4, SumsDiffer
<1>6. g[D] \in Int /\ D \in SUBSET D
  OBVIOUS
<1>7. k[D] = g[D]
  BY <1>5, <1>6 DEF SumsDifferBy
<1>8. QED
  BY <1>1, <1>3, <1>7

\* A finite sum of numbers is a number, ...
THEOREM SumType ==
  ASSUME NEW D, IsFiniteSet(D), NEW f \in [D -> Int]
  PROVE  SumFunction(f) \in Int
<1>1. PICK g \in [SUBSET D -> Int] : g = SumStep(f, g) /\ SumFunction(f) = g[D]
  BY SumIsSolution
<1>2. g[D] \in Int
  OBVIOUS
<1>3. QED
  BY <1>1, <1>2

\* ... the sum of nothing but zeros is zero, ...
THEOREM SumOfZeros ==
  ASSUME NEW D, IsFiniteSet(D), NEW f \in [D -> Int], \A x \in D : f[x] = 0
  PROVE  SumFunction(f) = 0
<1>1. PICK g \in [SUBSET D -> Int] : g = SumStep(f, g) /\ SumFunction(f) = g[D]
  BY SumIsSolution
<1> DEFINE z == [s \in SUBSET D |-> 0]
<1>2. z = SumStep(f, z)
  <2>1. \A s \in SUBSET D : s # {} => f[Pick(s)] = 0 /\ s \ {Pick(s)} \in SUBSET D
    <3> TAKE s \in SUBSET D
    <3> HAVE s # {}
    <3>1. Pick(s) \in s /\ s \ {Pick(s)} \in SUBSET D
      BY PickSmaller
    <3>2. Pick(s) \in D
      BY <3>1
    <3>3. QED
      BY <3>1, <3>2
  <2>2. \A s \in SUBSET D : z[s] = IF s = {} THEN 0 ELSE f[Pick(s)] + z[s \ {Pick(s)}]
    BY <2>1
  <2>3. QED
    BY <2>2 DEF SumStep
<1>3. z \in [SUBSET D -> Int] /\ z[D] = 0
  OBVIOUS
<1> HIDE DEF z
<1>4. DiffersBy(D, f, f, f, 0)
  BY DEF DiffersBy
<1>5. SumsDifferBy(D, z, g, f, 0)
  BY <1>1, <1>2, <1>3, <1>4, SumsDiffer
<1>6. g[D] = IF f \in D THEN z[D] + 0 ELSE z[D]
  <2>1. D \in SUBSET D
    OBVIOUS
  <2>2. QED
    BY <1>5, <2>1 DEF SumsDifferBy
<1>7. QED
  BY <1>1, <1>3, <1>6

\* ... and it changes by what one of its members changes.
THEOREM SumChange ==
  ASSUME NEW D, IsFiniteSet(D), NEW f \in [D -> Int], NEW h \in [D -> Int],
         NEW u \in D, NEW d \in Int, DiffersBy(D, f, h, u, d)
  PROVE  SumFunction(h) = SumFunction(f) + d
<1>1. PICK g \in [SUBSET D -> Int] : g = SumStep(f, g) /\ SumFunction(f) = g[D]
  BY SumIsSolution
<1>2. PICK k \in [SUBSET D -> Int] : k = SumStep(h, k) /\ SumFunction(h) = k[D]
  BY SumIsSolution
<1>3. SumsDifferBy(D, g, k, u, d)
  BY <1>1, <1>2, SumsDiffer
<1>4. k[D] = g[D] + d
  <2>1. D \in SUBSET D /\ u \in D
    OBVIOUS
  <2>2. QED
    BY <1>3, <2>1 DEF SumsDifferBy
<1>5. QED
  BY <1>1, <1>2, <1>4

================================================================================

---------------------------- MODULE NumberLemmas ----------------------------
(***************************************************************************)
(* Least and greatest members of sets of numbers, for the proofs about     *)
(* what a CHOOSE of the models picks; induction stated for sets; and the   *)
(* recursive functions the models sum and join with.                       *)
(***************************************************************************)
EXTENDS Integers, Sequences, SequenceTheorems, FiniteSetTheorems, WellFoundedInduction, TLAPS

(* Every non-empty set of naturals has a least member. *)
LEMMA LeastNat ==
    ASSUME NEW T \in SUBSET Nat, T # {}
    PROVE  \E m \in T : \A j \in T : m <= j
<1> DEFINE R == OpToRel(<, Nat)
<1>1. IsWellFoundedOn(R, Nat)
  BY NatLessThanWellFounded, Zenon
<1>2. \A j, m \in Nat : j < m => <<j, m>> \in R
  BY Zenon DEF OpToRel
<1> HIDE DEF R
<1>3. PICK m \in T : \A j \in T : ~ (<<j, m>> \in R)
  BY <1>1, WFMin, Zenon
<1>4. m \in Nat /\ \A j \in T : j \in Nat /\ ~ (j < m)
  BY <1>2, <1>3
<1>5. \A j \in T : m <= j
  BY <1>4
<1> QED
  BY <1>5

(* A non-empty set of numbers up to n has a greatest member. *)
LEMMA GreatestNat ==
    ASSUME NEW n \in Nat, NEW T \in SUBSET (1..n), T # {}
    PROVE  \E m \in T : \A j \in T : m >= j
<1> DEFINE U == {i \in Nat : n - i \in T}
<1>1. \A j \in T : j \in Nat /\ j <= n /\ n - j \in Nat /\ n - (n - j) = j
  OBVIOUS
<1>2. U \in SUBSET Nat /\ U # {}
  BY <1>1
<1>3. PICK i \in U : \A j \in U : i <= j
  BY <1>2, LeastNat
<1>4. n - i \in T /\ i \in Nat
  BY <1>3
<1>5. ASSUME NEW j \in T PROVE n - i >= j
  <2>1. n - j \in U
    BY <1>1, <1>5
  <2>2. i <= n - j /\ j \in Nat
    BY <1>1, <1>3, <2>1
  <2> QED
    BY <1>4, <2>2
<1> QED
  BY <1>4, <1>5

(* What holds of 0 and of the next number whenever of a number holds of    *)
(* all naturals: induction, for a set in place of a predicate.             *)
LEMMA NatSetInduction ==
    ASSUME NEW T \in SUBSET Nat, 0 \in T, \A n \in T : n + 1 \in T
    PROVE  T = Nat
<1> DEFINE U == Nat \ T
<1> SUFFICES ASSUME U # {} PROVE FALSE
  OBVIOUS
<1>1. PICK m \in U : \A j \in U : m <= j
  BY LeastNat
<1>2. m # 0 /\ m \in Nat
  BY <1>1
<1>3. m - 1 \in Nat /\ m - 1 \notin U
  <2>1. m - 1 \in Nat /\ ~ (m <= m - 1)
    BY <1>2
  <2> QED
    BY <1>1, <2>1
<1>4. (m - 1) + 1 \in T
  BY <1>3
<1> QED
  BY <1>1, <1>2, <1>4
-----------------------------------------------------------------------------
(* A sequence of sequences joined from the last to the first: the function *)
(* defined by this recursion exists.                                       *)

Joins(S, A, n, f) ==
    /\ f \in [0..n -> Seq(S)] /\ f[0] = <<>>
    /\ \A m \in 1..n : f[m] = A[m] \o f[m - 1]

LEMMA JoinsAgree ==
    ASSUME NEW S, NEW A, NEW n \in Nat, NEW k \in Nat, n <= k,
           NEW f, Joins(S, A, n, f), NEW g, Joins(S, A, k, g)
    PROVE  \A m \in 0..n : f[m] = g[m]
<1> DEFINE T == {m \in Nat : m <= n => f[m] = g[m]}
<1>1. 0 \in T
  BY DEF Joins
<1>2. ASSUME NEW m \in T PROVE m + 1 \in T
  <2> SUFFICES ASSUME m + 1 <= n PROVE f[m + 1] = g[m + 1]
    OBVIOUS
  <2>1. m \in Nat /\ m + 1 \in 1..n /\ m + 1 \in 1..k /\ (m + 1) - 1 = m /\ m <= n
    OBVIOUS
  <2>2. f[m + 1] = A[m + 1] \o f[m] /\ g[m + 1] = A[m + 1] \o g[m]
    BY <2>1 DEF Joins
  <2> QED
    BY <2>1, <2>2
<1> HIDE DEF T
<1>3. T = Nat
  <2>1. T \in SUBSET Nat
    BY DEF T
  <2> QED
    BY <1>1, <1>2, <2>1, NatSetInduction
<1> QED
  BY <1>3 DEF T

LEMMA JoinsExist ==
    ASSUME NEW S, NEW A, \A n \in Nat : A[n] \in Seq(S)
    PROVE  \A n \in Nat : \E f : Joins(S, A, n, f)
<1> DEFINE T == {n \in Nat : \E f : Joins(S, A, n, f)}
<1>1. 0 \in T
  <2> DEFINE f == [m \in 0..0 |-> <<>>]
  <2>1. Joins(S, A, 0, f)
    BY EmptySeq DEF Joins
  <2> QED
    BY <2>1
<1>2. ASSUME NEW n \in T PROVE n + 1 \in T
  <2>1. PICK f : Joins(S, A, n, f)
    OBVIOUS
  <2> DEFINE g == [m \in 0..(n + 1) |-> IF m = n + 1 THEN A[n + 1] \o f[n] ELSE f[m]]
  <2>2. n \in Nat /\ n + 1 \in Nat /\ A[n + 1] \in Seq(S) /\ f[n] \in Seq(S)
    BY <2>1 DEF Joins
  <2>3. A[n + 1] \o f[n] \in Seq(S)
    BY <2>2, ConcatProperties
  <2>4. g \in [0..(n + 1) -> Seq(S)]
    BY <2>1, <2>3 DEF Joins
  <2>5. g[0] = <<>>
    BY <2>1, <2>2 DEF Joins
  <2>6. ASSUME NEW m \in 1..(n + 1) PROVE g[m] = A[m] \o g[m - 1]
    <3>1. CASE m = n + 1
      <4>1. m \in 0..(n + 1) /\ m - 1 \in 0..(n + 1) /\ m - 1 = n /\ m - 1 # n + 1
        BY <2>2, <3>1
      <4> QED
        BY <3>1, <4>1
    <3>2. CASE m # n + 1
      <4>1. m \in 1..n /\ m \in 0..(n + 1) /\ m - 1 \in 0..(n + 1) /\ m - 1 # n + 1
        BY <2>2, <3>2
      <4>2. g[m] = f[m] /\ g[m - 1] = f[m - 1]
        BY <3>2, <4>1
      <4> QED
        BY <2>1, <4>1, <4>2 DEF Joins
    <3> QED
      BY <3>1, <3>2
  <2> HIDE DEF g
  <2>7. Joins(S, A, n + 1, g)
    BY <2>4, <2>5, <2>6 DEF Joins
  <2> QED
    BY <2>2, <2>7
<1> HIDE DEF T
<1>3. T = Nat
  <2>1. T \in SUBSET Nat
    BY DEF T
  <2> QED
    BY <1>1, <1>2, <2>1, NatSetInduction
<1> QED
  BY <1>3 DEF T

LEMMA JoinFunction ==
    ASSUME NEW S, NEW A, \A n \in Nat : A[n] \in Seq(S)
    PROVE  \E f \in [Nat -> Seq(S)] :
              f = [n \in Nat |-> IF n = 0 THEN <<>> ELSE A[n] \o f[n - 1]]
<1> DEFINE c(n) == CHOOSE f : Joins(S, A, n, f)
           f == [n \in Nat |-> c(n)[n]]
<1>1. \A n \in Nat : Joins(S, A, n, c(n))
  BY JoinsExist
<1> HIDE DEF c
<1>2. c(0)[0] = <<>>
  BY <1>1 DEF Joins
<1>3. ASSUME NEW n \in Nat, n # 0 PROVE c(n)[n] = A[n] \o c(n - 1)[n - 1]
  <2>1. n - 1 \in Nat /\ n - 1 <= n /\ n \in 1..n /\ n - 1 \in 0..(n - 1)
    BY <1>3
  <2>2. Joins(S, A, n, c(n)) /\ Joins(S, A, n - 1, c(n - 1))
    BY <1>1, <2>1
  <2>3. c(n - 1)[n - 1] = c(n)[n - 1]
    BY <2>1, <2>2, JoinsAgree
  <2>4. c(n)[n] = A[n] \o c(n)[n - 1]
    BY <2>1, <2>2 DEF Joins
  <2> QED
    BY <2>3, <2>4
<1>4. f \in [Nat -> Seq(S)]
  <2>1. \A n \in Nat : n \in 0..n
    OBVIOUS
  <2>2. \A n \in Nat : c(n)[n] \in Seq(S)
    BY <1>1, <2>1, Zenon DEF Joins
  <2> QED
    BY <2>2
<1>5. \A n \in Nat : f[n] = IF n = 0 THEN <<>> ELSE A[n] \o f[n - 1]
  <2> TAKE n \in Nat
  <2>1. n # 0 => n - 1 \in Nat
    OBVIOUS
  <2> QED
    BY <1>2, <1>3, <2>1
<1> HIDE DEF f
<1>6. f = [n \in Nat |-> IF n = 0 THEN <<>> ELSE A[n] \o f[n - 1]]
  BY <1>4, <1>5
<1> QED
  BY <1>4, <1>6
-----------------------------------------------------------------------------
(* A sum over a finite set, one picked member after the other. *)

Pick(s) == CHOOSE x \in s : TRUE

Layer(S, n) == {s \in SUBSET S : Cardinality(s) <= n}

Sums(D, w, f) ==
    f = [s \in D |-> IF s = {} THEN 0 ELSE w[Pick(s)] + f[s \ {Pick(s)}]]

LEMMA PickedOut ==
    ASSUME NEW S, IsFiniteSet(S), NEW n \in Nat, NEW s \in Layer(S, n + 1), s # {}
    PROVE  /\ Pick(s) \in s /\ s \ {Pick(s)} \in Layer(S, n)
           /\ Cardinality(s \ {Pick(s)}) = Cardinality(s) - 1
<1>1. Pick(s) \in s
  BY DEF Pick
<1>2. s \in SUBSET S /\ IsFiniteSet(s) /\ Cardinality(s) \in Nat /\ Cardinality(s) <= n + 1
  BY FS_Subset, FS_CardinalityType DEF Layer
<1>3. Cardinality(s \ {Pick(s)}) = Cardinality(s) - 1
  BY <1>1, <1>2, FS_RemoveElement
<1> QED BY <1>1, <1>2, <1>3 DEF Layer

LEMMA PartialSums ==
    ASSUME NEW S, IsFiniteSet(S), NEW w
    PROVE  \A n \in Nat : \E f : Sums(Layer(S, n), w, f)
<1> DEFINE T == {n \in Nat : \E f : Sums(Layer(S, n), w, f)}
<1>1. 0 \in T
  <2>1. \A s \in Layer(S, 0) : s = {}
    <3> SUFFICES ASSUME NEW s \in Layer(S, 0) PROVE s = {}
      OBVIOUS
    <3>1. s \in SUBSET S /\ IsFiniteSet(s) /\ Cardinality(s) \in Nat /\ Cardinality(s) <= 0
      BY FS_Subset, FS_CardinalityType DEF Layer
    <3>2. Cardinality(s) = 0
      BY <3>1
    <3> QED BY <3>1, <3>2, FS_EmptySet
  <2> DEFINE f == [s \in Layer(S, 0) |-> 0]
  <2>2. Sums(Layer(S, 0), w, f)
    BY <2>1 DEF Sums
  <2> HIDE DEF f
  <2> QED BY <2>2
<1>2. ASSUME NEW n \in T PROVE n + 1 \in T
  <2>1. n \in Nat
    OBVIOUS
  <2>2. PICK f : Sums(Layer(S, n), w, f)
    OBVIOUS
  <2> DEFINE g == [s \in Layer(S, n + 1) |->
                     IF s = {} THEN 0 ELSE w[Pick(s)] + f[s \ {Pick(s)}]]
  <2>3. Layer(S, n) \subseteq Layer(S, n + 1)
    <3>1. ASSUME NEW s \in Layer(S, n) PROVE s \in Layer(S, n + 1)
      <4>1. s \in SUBSET S /\ Cardinality(s) \in Nat /\ Cardinality(s) <= n
        BY FS_Subset, FS_CardinalityType DEF Layer
      <4> QED BY <2>1, <4>1 DEF Layer
    <3> QED BY <3>1
  <2>4. \A t \in Layer(S, n) : g[t] = f[t]
    BY <2>2, <2>3 DEF Sums
  <2>5. \A s \in Layer(S, n + 1) : s # {} => s \ {Pick(s)} \in Layer(S, n)
    BY <2>1, PickedOut
  <2>6. DOMAIN g = Layer(S, n + 1) /\ \A s \in Layer(S, n + 1) :
           g[s] = IF s = {} THEN 0 ELSE w[Pick(s)] + g[s \ {Pick(s)}]
    BY <2>4, <2>5
  <2>7. g = [s \in Layer(S, n + 1) |-> g[s]]
    OBVIOUS
  <2> HIDE DEF g
  <2>8. Sums(Layer(S, n + 1), w, g)
    BY <2>6, <2>7 DEF Sums
  <2> QED BY <2>1, <2>8
<1> HIDE DEF T
<1>3. T \in SUBSET Nat
  BY DEF T
<1>4. T = Nat
  BY <1>1, <1>2, <1>3, NatSetInduction
<1> QED BY <1>4 DEF T

(* The function by which the members of a finite set are summed up exists. *)
LEMMA SumExists ==
    ASSUME NEW S, IsFiniteSet(S), NEW w
    PROVE  \E f : Sums(SUBSET S, w, f)
<1>1. Cardinality(S) \in Nat /\ Layer(S, Cardinality(S)) = SUBSET S
  <2>1. Cardinality(S) \in Nat
    BY FS_CardinalityType
  <2> QED BY <2>1, FS_Subset DEF Layer
<1>2. \A n \in Nat : \E f : Sums(Layer(S, n), w, f)
  BY PartialSums
<1>3. \E f : Sums(Layer(S, Cardinality(S)), w, f)
  BY <1>1, <1>2, Zenon
<1> QED BY <1>1, <1>3

(* Counts of which each is covered by a set of its own add up to no more   *)
(* than a set that holds them all.                                         *)
LEMMA SumBelow ==
    ASSUME NEW S, IsFiniteSet(S), NEW w, NEW B, NEW f, Sums(SUBSET S, w, f),
           NEW U, IsFiniteSet(U), \A x \in S : B[x] \subseteq U,
           \A x \in S : w[x] \in Nat /\ w[x] <= Cardinality(B[x]),
           \A x, y \in S : x # y => B[x] \cap B[y] = {}
    PROVE  f[S] \in Nat /\ f[S] <= Cardinality(U)
<1> DEFINE All(s) == UNION {B[x] : x \in s}
           Below(s) == IsFiniteSet(All(s)) /\ f[s] \in Nat /\ f[s] <= Cardinality(All(s))
           T == {n \in Nat : \A s \in Layer(S, n) : Below(s)}
<1>0. \A s \in SUBSET S : f[s] = IF s = {} THEN 0 ELSE w[Pick(s)] + f[s \ {Pick(s)}]
  BY DEF Sums
<1>1. Below({})
  <2>1. All({}) = {} /\ f[{}] = 0
    BY <1>0
  <2>2. IsFiniteSet({}) /\ Cardinality({}) = 0
    BY FS_EmptySet
  <2> HIDE DEF All
  <2>3. IsFiniteSet(All({})) /\ Cardinality(All({})) = 0
    BY <2>1, <2>2, Zenon
  <2>4. f[{}] \in Nat /\ f[{}] <= 0
    BY <2>1
  <2> QED BY <2>3, <2>4
<1>2. 0 \in T
  <2>1. ASSUME NEW s \in Layer(S, 0) PROVE s = {}
    <3>1. s \in SUBSET S /\ IsFiniteSet(s) /\ Cardinality(s) \in Nat /\ Cardinality(s) <= 0
      BY FS_Subset, FS_CardinalityType DEF Layer
    <3>2. Cardinality(s) = 0
      BY <3>1
    <3> QED BY <3>1, <3>2, FS_EmptySet
  <2> HIDE DEF Below
  <2> QED BY <1>1, <2>1
<1>3. ASSUME NEW n \in T PROVE n + 1 \in T
  <2>1. n \in Nat /\ n + 1 \in Nat /\ \A s \in Layer(S, n) : Below(s)
    <3> HIDE DEF Below
    <3> QED OBVIOUS
  <2>2. ASSUME NEW s \in Layer(S, n + 1), s # {} PROVE Below(s)
    <3> DEFINE x == Pick(s)
               t == s \ {x}
    <3>1. x \in s /\ t \in Layer(S, n) /\ s \in SUBSET S
      BY <2>1, <2>2, PickedOut DEF Layer
    <3>2. Below(t)
      <4> HIDE DEF Below, t
      <4> QED BY <2>1, <3>1
    <3>3. f[s] = w[x] + f[t]
      BY <1>0, <2>2, <3>1
    <3>4. All(s) = All(t) \cup B[x]
      BY <3>1
    <3>5. All(t) \cap B[x] = {}
      BY <3>1
    <3>6. IsFiniteSet(B[x]) /\ w[x] \in Nat /\ w[x] <= Cardinality(B[x])
      BY <3>1, FS_Subset
    <3> DEFINE C == All(t)
               E == B[x]
    <3>7. IsFiniteSet(C) /\ f[t] \in Nat /\ f[t] <= Cardinality(C)
      BY <3>2
    <3>8. All(s) = C \cup E /\ C \cap E = {} /\ IsFiniteSet(E)
      BY <3>4, <3>5, <3>6
    <3>9. w[x] <= Cardinality(E)
      BY <3>6
    <3> HIDE DEF All, x, t, C, E
    <3>10. /\ IsFiniteSet(C \cup E)
           /\ Cardinality(C \cup E) = Cardinality(C) + Cardinality(E) - Cardinality(C \cap E)
      BY <3>7, <3>8, FS_Union
    <3>11. Cardinality(C) \in Nat /\ Cardinality(E) \in Nat /\ Cardinality(C \cap E) = 0
      BY <3>7, <3>8, FS_EmptySet, FS_CardinalityType
    <3> QED BY <3>3, <3>6, <3>7, <3>8, <3>9, <3>10, <3>11
  <2>3. \A s \in Layer(S, n + 1) : Below(s)
    <3> HIDE DEF Below
    <3> QED BY <1>1, <2>2
  <2> HIDE DEF Below
  <2> QED BY <2>1, <2>3
<1> HIDE DEF T
<1>4. T \in SUBSET Nat
  BY DEF T
<1>5. T = Nat
  BY <1>2, <1>3, <1>4, NatSetInduction
<1>6. Cardinality(S) \in T /\ S \in Layer(S, Cardinality(S))
  <2>1. Cardinality(S) \in Nat
    BY FS_CardinalityType
  <2> QED BY <1>5, <2>1 DEF Layer
<1>7. Below(S)
  <2> HIDE DEF Below
  <2> QED BY <1>6 DEF T
<1>8. All(S) \subseteq U
  OBVIOUS
<1> HIDE DEF All
<1>9. Cardinality(All(S)) <= Cardinality(U) /\ Cardinality(All(S)) \in Nat /\ Cardinality(U) \in Nat
  BY <1>8, FS_Subset, FS_CardinalityType
<1> QED BY <1>7, <1>9
=============================================================================

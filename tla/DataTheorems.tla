---------------------------- MODULE DataTheorems ----------------------------
(***************************************************************************)
(* Lemmas about numbers, orders and folds that the proofs of several       *)
(* components rest on.  Every set of numbers has a least one: the form     *)
(* that an induction takes in these proofs.  Counting what comes before    *)
(* each member of a finite ordered set numbers its members: the form that  *)
(* sorting takes in the modules.  And a fold over a sequence is computed   *)
(* from its first elements on.                                             *)
(***************************************************************************)
EXTENDS Integers, FiniteSetsExt, FiniteSetTheorems, FunctionTheorems, WellFoundedInduction, TLAPS

\* A set of numbers that is not empty has a least one: induction, as a set.
LEMMA LeastNumber ==
    ASSUME NEW T, T \subseteq Nat, T # {}
    PROVE  \E n \in T : \A m \in T : n <= m
<1>1. \E x \in T : \A y \in T : ~ (<<y, x>> \in OpToRel(<, Nat))
  BY NatLessThanWellFounded, WFMin
<1>2. PICK x \in T : \A y \in T : ~ (<<y, x>> \in OpToRel(<, Nat))
  BY <1>1
<1>3. ASSUME NEW y \in T PROVE x <= y
  <2>1. x \in Nat /\ y \in Nat
    OBVIOUS
  <2>2. ~ (<<y, x>> \in OpToRel(<, Nat))
    BY <1>2
  <2>3. ~(y < x)
    BY <2>1, <2>2 DEF OpToRel
  <2>4. QED
    BY ONLY <2>1, <2>3
<1>4. QED
  BY <1>3

\* A set that 0 belongs to, and every successor of a member up to n, has all
\* numbers up to n.
LEMMA Upwards ==
    ASSUME NEW n \in Nat, NEW T, 0 \in T, \A m \in 0..(n - 1) : m \in T => m + 1 \in T
    PROVE  \A m \in 0..n : m \in T
<1> DEFINE Missing == {m \in 0..n : m \notin T}
<1>1. SUFFICES ASSUME Missing # {} PROVE FALSE
  OBVIOUS
<1>2. Missing \subseteq Nat
  OBVIOUS
<1>3. PICK m \in Missing : \A k \in Missing : m <= k
  <2> HIDE DEF Missing
  <2> QED
    BY <1>1, <1>2, LeastNumber
<1>4. m \in 1..n /\ m \notin T
  BY <1>3
<1>5. m - 1 \in T
  BY <1>3, <1>4
<1>6. m - 1 \in 0..(n - 1) /\ (m - 1) + 1 = m
  BY <1>4
<1>7. QED
  BY <1>4, <1>5, <1>6

\* A sum of at least n times d, shared by n, is at least d each.
LEMMA Quotient ==
    ASSUME NEW s \in Int, NEW n \in Int, n > 0, NEW d \in Int, s >= n * d
    PROVE  s \div n >= d
OBVIOUS

\* before[e] is what comes before e in a total order of S.
OrdersTotally(before, S) ==
    /\ before \in [S -> SUBSET S]
    /\ \A e \in S : e \notin before[e] /\ \A d \in before[e] : before[d] \subseteq before[e]
    /\ \A d, e \in S : d # e => d \in before[e] \/ e \in before[d]

\* What comes later in an order has more before it.
LEMMA RankGrows ==
    ASSUME NEW S, IsFiniteSet(S), NEW before, OrdersTotally(before, S),
           NEW e \in S, NEW d \in before[e]
    PROVE  Cardinality(before[d]) < Cardinality(before[e])
<1>1. before[d] \subseteq before[e] /\ d \in before[e] /\ d \notin before[d] /\ before[e] \subseteq S
  BY DEF OrdersTotally
<1>2. IsFiniteSet(before[e]) /\ IsFiniteSet(before[d])
  BY <1>1, FS_Subset
<1>3. Cardinality(before[d]) <= Cardinality(before[e])
      /\ Cardinality(before[d]) # Cardinality(before[e])
  BY <1>1, <1>2, FS_Subset
<1>4. QED
  BY <1>2, <1>3, FS_CardinalityType

\* The members of a finite ordered set are numbered from 0 by how many come before.
LEMMA Ranked ==
    ASSUME NEW S, IsFiniteSet(S), NEW before, OrdersTotally(before, S)
    PROVE  [e \in S |-> Cardinality(before[e])] \in Bijection(S, 0..(Cardinality(S) - 1))
<1> DEFINE rank == [e \in S |-> Cardinality(before[e])]
           n == Cardinality(S)
<1>1. n \in Nat
  BY FS_CardinalityType
<1>2. ASSUME NEW e \in S PROVE Cardinality(before[e]) \in 0..(n - 1)
  <2>1. before[e] \subseteq S /\ before[e] # S
    BY DEF OrdersTotally
  <2>2. IsFiniteSet(before[e]) /\ Cardinality(before[e]) <= n /\ Cardinality(before[e]) # n
    BY <2>1, FS_Subset
  <2>3. QED
    BY <1>1, <2>2, FS_CardinalityType
<1>3. rank \in [S -> 0..(n - 1)]
  BY <1>2
<1>4. ASSUME NEW d \in S, NEW e \in S, d # e PROVE rank[d] # rank[e]
  <2>1. d \in before[e] \/ e \in before[d]
    BY <1>4 DEF OrdersTotally
  <2>2. Cardinality(before[d]) \in Int /\ Cardinality(before[e]) \in Int
    BY <1>2
  <2>3. QED
    BY <2>1, <2>2, RankGrows
<1>5. rank \in Injection(S, 0..(n - 1))
  <2> HIDE DEF rank, n
  <2>1. \A d, e \in S : rank[d] = rank[e] => d = e
    BY <1>4
  <2>2. QED
    BY <1>3, <2>1 DEF Injection, IsInjective
<1>6. IsFiniteSet(0..(n - 1)) /\ Cardinality(0..(n - 1)) = n
  <2>1. 0 \in Int /\ n - 1 \in Int
    BY <1>1
  <2>2. Cardinality(0..(n - 1)) = IF 0 > n - 1 THEN 0 ELSE (n - 1) - 0 + 1
    BY <2>1, FS_Interval
  <2>3. QED
    BY <1>1, <2>1, <2>2, FS_Interval
<1>7. rank \in Surjection(S, 0..(n - 1))
  BY <1>5, <1>6, FS_Injection
<1>8. QED
  BY <1>5, <1>7 DEF Bijection

\* A finite ordered set that is not empty has a member that none comes after.
LEMMA HasLast ==
    ASSUME NEW S, IsFiniteSet(S), S # {}, NEW before, OrdersTotally(before, S)
    PROVE  \E e \in S : \A d \in S : d # e => d \in before[e]
<1> DEFINE rank == [e \in S |-> Cardinality(before[e])]
           n == Cardinality(S)
<1>1. n \in Nat \ {0}
  BY FS_CardinalityType, FS_EmptySet
<1>2. rank \in Bijection(S, 0..(n - 1))
  BY Ranked
<1>3. n - 1 \in 0..(n - 1)
  BY <1>1
<1>4. PICK e \in S : rank[e] = n - 1
  BY <1>2, <1>3 DEF Bijection, Surjection
<1>5. ASSUME NEW d \in S, d # e PROVE d \in before[e]
  <2>1. CASE e \in before[d]
    <3>1. Cardinality(before[e]) < Cardinality(before[d])
      BY <2>1, RankGrows
    <3>2. rank[d] \in 0..(n - 1)
      BY <1>2 DEF Bijection, Injection
    <3>3. QED
      BY <1>1, <1>4, <3>1, <3>2
  <2>2. QED
    BY <1>5, <2>1 DEF OrdersTotally
<1>6. QED
  BY <1>5

-----------------------------------------------------------------------------
(* Folds.                                                                  *)

\* A set of the first n numbers that is not empty has a largest one.
LEMMA Largest ==
    ASSUME NEW n \in Nat, NEW s \in SUBSET (1..n), s # {}
    PROVE  Max(s) \in s /\ \A y \in s : y <= Max(s)
<1> DEFINE Above == {m \in Nat : \A y \in s : y <= m}
<1>1. n \in Above
  OBVIOUS
<1>2. PICK m \in Above : \A k \in Above : m <= k
  <2>1. Above \subseteq Nat /\ Above # {}
    BY <1>1
  <2> HIDE DEF Above
  <2>2. QED
    BY <2>1, LeastNumber
<1>3. PICK z \in s : TRUE
  OBVIOUS
<1>4. m \in s
  <2>1. SUFFICES ASSUME m \notin s PROVE FALSE
    OBVIOUS
  <2>2. \A y \in s : y <= m - 1
    BY <1>2, <2>1
  <2>3. m - 1 \in Above
    BY <1>2, <1>3, <2>2
  <2>4. QED
    BY <1>2, <2>3
<1>5. \A y \in s : m >= y
  BY <1>2
<1>6. \A x \in s : (\A y \in s : x >= y) => x = m
  BY <1>4, <1>5
<1>7. Max(s) = m
  BY <1>4, <1>5, <1>6 DEF Max
<1>8. QED
  BY <1>4, <1>5, <1>7

\* The largest number is the last of a prefix.
LEMMA LargestOfPrefix ==
    ASSUME NEW n \in Nat \ {0}
    PROVE  Max(1..n) = n /\ (1..n) \ {n} = 1..(n - 1) /\ 1..n # {}
<1>1. n \in 1..n /\ 1..n \in SUBSET (1..n)
  OBVIOUS
<1>2. Max(1..n) \in 1..n /\ n <= Max(1..n)
  BY <1>1, Largest
<1>3. (1..n) \ {n} = 1..(n - 1)
  OBVIOUS
<1>4. QED
  BY <1>1, <1>2, <1>3

\* What MapThenFoldSet asks of iter, on the sets of the positions of a sequence:
\* step tells what the last of the positions makes of the value of the others.
Folds(g, n, base, step) ==
    \A s \in SUBSET (1..n) :
       g[s] = IF s = {} THEN base ELSE step[<<Max(s), g[s \ {Max(s)}]>>]

\* There is such a function.
LEMMA FoldExists ==
    ASSUME NEW n \in Nat, NEW B, NEW base \in B, NEW step \in [(1..n) \X B -> B]
    PROVE  \E g \in [SUBSET (1..n) -> B] : Folds(g, n, base, step)
<1> DEFINE Solves(m, g) == Folds(g, m, base, step)
           T == {m \in 0..n : \E g \in [SUBSET (1..m) -> B] : Solves(m, g)}
<1>1. 0 \in T
  <2> DEFINE g == [s \in SUBSET (1..0) |-> base]
  <2>1. \A s \in SUBSET (1..0) : s = {}
    OBVIOUS
  <2>2. g \in [SUBSET (1..0) -> B]
    OBVIOUS
  <2>3. \A s \in SUBSET (1..0) : g[s] = base
    OBVIOUS
  <2>4. Solves(0, g)
    <3> HIDE DEF g
    <3> QED
      BY <2>1, <2>3 DEF Folds
  <2>5. 0 \in 0..n
    OBVIOUS
  <2> HIDE DEF g, Solves
  <2>6. QED
    BY <2>2, <2>4, <2>5
<1>2. ASSUME NEW m \in 0..(n - 1), m \in T PROVE m + 1 \in T
  <2>1. PICK g \in [SUBSET (1..m) -> B] : Solves(m, g)
    BY <1>2
  <2>2. /\ m \in Nat /\ m + 1 \in 1..n /\ m + 1 \in 0..n /\ 1..m \subseteq 1..(m + 1)
        /\ m + 1 \in Nat \ {0} /\ 1..(m + 1) \subseteq 1..n
    OBVIOUS
  <2>3. ASSUME NEW s \in SUBSET (1..(m + 1)), m + 1 \in s
        PROVE  Max(s) = m + 1 /\ s \ {m + 1} \in SUBSET (1..m) /\ s # {}
    <3>1. Max(s) \in s /\ m + 1 <= Max(s)
      BY <2>2, <2>3, Largest
    <3>2. Max(s) = m + 1
      <4>1. Max(s) \in 1..(m + 1)
        BY <3>1
      <4>2. QED
        BY ONLY <2>2, <3>1, <4>1
    <3>3. QED
      BY <2>3, <3>2
  <2>4. ASSUME NEW s \in SUBSET (1..(m + 1)), m + 1 \notin s
        PROVE  s \in SUBSET (1..m)
    BY <2>4
  <2> DEFINE h == [s \in SUBSET (1..(m + 1)) |->
                      IF m + 1 \in s THEN step[<<m + 1, g[s \ {m + 1}]>>] ELSE g[s]]
  <2>5. h \in [SUBSET (1..(m + 1)) -> B]
    <3>1. ASSUME NEW s \in SUBSET (1..(m + 1))
          PROVE  (IF m + 1 \in s THEN step[<<m + 1, g[s \ {m + 1}]>>] ELSE g[s]) \in B
      <4>1. CASE m + 1 \in s
        <5>1. g[s \ {m + 1}] \in B
          BY <2>1, <2>3, <4>1
        <5>2. <<m + 1, g[s \ {m + 1}]>> \in (1..n) \X B
          BY <2>2, <5>1
        <5>3. QED
          BY <4>1, <5>2
      <4>2. CASE m + 1 \notin s
        BY <2>1, <2>4, <4>2
      <4>3. QED
        BY <4>1, <4>2
    <3>2. QED
      BY <3>1
  <2>6. ASSUME NEW s \in SUBSET (1..(m + 1))
        PROVE  h[s] = IF s = {} THEN base ELSE step[<<Max(s), h[s \ {Max(s)}]>>]
    <3>1. CASE m + 1 \in s
      <4>1. Max(s) = m + 1 /\ s \ {m + 1} \in SUBSET (1..m) /\ s # {}
        BY <2>3, <3>1
      <4>2. h[s] = step[<<m + 1, g[s \ {m + 1}]>>]
        BY <3>1
      <4>3. s \ {m + 1} \in SUBSET (1..(m + 1)) /\ m + 1 \notin s \ {m + 1}
        OBVIOUS
      <4>4. h[s \ {m + 1}] = g[s \ {m + 1}]
        BY <4>3
      <4> HIDE DEF h
      <4>5. QED
        BY <4>1, <4>2, <4>4
    <3>2. CASE m + 1 \notin s
      <4>1. s \in SUBSET (1..m)
        BY <2>4, <3>2
      <4>2. h[s] = g[s]
        BY <3>2
      <4>3. g[s] = IF s = {} THEN base ELSE step[<<Max(s), g[s \ {Max(s)}]>>]
        BY <2>1, <4>1 DEF Folds
      <4>4. s \ {Max(s)} \in SUBSET (1..(m + 1)) /\ m + 1 \notin s \ {Max(s)}
        BY <3>2
      <4>5. h[s \ {Max(s)}] = g[s \ {Max(s)}]
        BY <4>4
      <4> HIDE DEF h
      <4>6. QED
        BY <4>2, <4>3, <4>5
    <3>3. QED
      BY <3>1, <3>2
  <2> HIDE DEF h
  <2>7. Solves(m + 1, h)
    BY <2>6 DEF Folds
  <2>8. QED
    BY <2>2, <2>5, <2>7
<1>3. n \in T
  <2> HIDE DEF T
  <2>1. \A m \in 0..(n - 1) : m \in T => m + 1 \in T
    BY <1>2
  <2>2. \A m \in 0..n : m \in T
    BY <1>1, <2>1, Upwards
  <2>3. QED
    BY <2>2
<1>4. QED
  BY <1>3

\* t is computed from position to position.
Recurs(t, n, base, step) ==
    t[0] = base /\ \A m \in 1..n : t[m] = step[<<m, t[m - 1]>>]

\* Such a recursion has a solution.
LEMMA Recursion ==
    ASSUME NEW n \in Nat, NEW B, NEW base \in B, NEW step \in [(1..n) \X B -> B]
    PROVE  \E t \in [0..n -> B] : Recurs(t, n, base, step)
<1>1. PICK g \in [SUBSET (1..n) -> B] : Folds(g, n, base, step)
  BY FoldExists
<1> DEFINE t == [m \in 0..n |-> g[1..m]]
<1>2. t \in [0..n -> B]
  <2>1. ASSUME NEW m \in 0..n PROVE 1..m \in SUBSET (1..n)
    OBVIOUS
  <2>2. QED
    BY <1>1, <2>1
<1>3. t[0] = base
  <2>1. 1..0 = {} /\ 0 \in 0..n /\ {} \in SUBSET (1..n)
    OBVIOUS
  <2>2. g[{}] = base
    BY <1>1, <2>1 DEF Folds
  <2>3. QED
    BY <2>1, <2>2
<1>4. ASSUME NEW m \in 1..n PROVE t[m] = step[<<m, t[m - 1]>>]
  <2>1. 1..m \in SUBSET (1..n) /\ m \in Nat \ {0} /\ m \in 0..n /\ m - 1 \in 0..n
    OBVIOUS
  <2>2. Max(1..m) = m /\ (1..m) \ {m} = 1..(m - 1) /\ 1..m # {}
    BY <2>1, LargestOfPrefix
  <2>3. g[1..m] = step[<<m, g[1..(m - 1)]>>]
    BY <1>1, <2>1, <2>2 DEF Folds
  <2>4. QED
    BY <2>1, <2>3
<1> HIDE DEF t
<1>5. QED
  BY <1>2, <1>3, <1>4 DEF Recurs
=============================================================================

----------------------------- MODULE ListLemmas -----------------------------
(***************************************************************************)
(* Lemmas about lists and numbers, for the proofs of every module: Ordered *)
(* puts a finite set in the order of its keys, a set of numbers has its    *)
(* greatest member, what holds of 0 and passes from each number to the     *)
(* next holds of all, and a recursive function exists.                     *)
(***************************************************************************)
EXTENDS Lists, FiniteSetTheorems, FunctionTheorems, SequenceTheorems, TLAPS

Below(S, key, d) == {e \in S : key[e] < key[d]}
IsKey(S, key) == (\A d \in S : key[d] \in Int) /\ (\A d, e \in S : key[d] = key[e] => d = e)

\* How many members of a finite set have a smaller key tells the members apart.
LEMMA RanksDiffer ==
    ASSUME NEW S, IsFiniteSet(S), NEW key, IsKey(S, key), NEW d \in S, NEW e \in S, key[d] < key[e]
    PROVE  Cardinality(Below(S, key, d)) < Cardinality(Below(S, key, e))
<1>1. Below(S, key, d) \subseteq Below(S, key, e)
  BY DEF Below, IsKey
<1>2. d \in Below(S, key, e) /\ d \notin Below(S, key, d)
  BY DEF Below, IsKey
<1>3. IsFiniteSet(Below(S, key, e))
  <2>1. Below(S, key, e) \in SUBSET S
    BY DEF Below
  <2> QED
    BY <2>1, FS_Subset
<1>4. Below(S, key, d) \in SUBSET Below(S, key, e)
  BY <1>1
<1>5. /\ IsFiniteSet(Below(S, key, d))
      /\ Cardinality(Below(S, key, d)) <= Cardinality(Below(S, key, e))
      /\ Cardinality(Below(S, key, e)) # Cardinality(Below(S, key, d))
  BY <1>2, <1>3, <1>4, FS_Subset
<1>6. Cardinality(Below(S, key, d)) \in Nat /\ Cardinality(Below(S, key, e)) \in Nat
  BY <1>3, <1>5, FS_CardinalityType
<1> QED
  BY <1>5, <1>6

\* Every member has a rank, and every rank below the number of members is taken.
LEMMA RanksAreTaken ==
    ASSUME NEW S, IsFiniteSet(S), NEW key, IsKey(S, key)
    PROVE  /\ Cardinality(S) \in Nat
           /\ \A d \in S : Cardinality(Below(S, key, d)) \in 0..Cardinality(S) - 1
           /\ \A i \in 0..Cardinality(S) - 1 : \E d \in S : Cardinality(Below(S, key, d)) = i
<1> DEFINE n == Cardinality(S)
           rank == [d \in S |-> Cardinality(Below(S, key, d))]
<1>1. n \in Nat
  BY FS_CardinalityType
<1>2. ASSUME NEW d \in S PROVE rank[d] \in 0..n - 1
  <2>1. Below(S, key, d) \in SUBSET S /\ d \notin Below(S, key, d)
    BY DEF Below, IsKey
  <2>2. IsFiniteSet(Below(S, key, d)) /\ Cardinality(Below(S, key, d)) <= n
        /\ Cardinality(Below(S, key, d)) # n
    BY <2>1, FS_Subset
  <2>3. Cardinality(Below(S, key, d)) \in Nat
    BY <2>2, FS_CardinalityType
  <2> QED
    BY <1>1, <2>2, <2>3
<1>3. rank \in [S -> 0..n - 1]
  BY <1>2
<1>4. ASSUME NEW d \in S, NEW e \in S, rank[d] = rank[e] PROVE d = e
  <2>1. SUFFICES ASSUME d # e PROVE FALSE
    OBVIOUS
  <2>2. key[d] \in Int /\ key[e] \in Int /\ key[d] # key[e]
    BY <2>1 DEF IsKey
  <2>3. CASE key[d] < key[e]
    BY <1>1, <1>2, <1>4, <2>3, RanksDiffer
  <2>4. CASE key[e] < key[d]
    BY <1>1, <1>2, <1>4, <2>4, RanksDiffer
  <2> QED
    BY <2>2, <2>3, <2>4
<1>5. rank \in Injection(S, 0..n - 1)
  BY <1>3, <1>4, Fun_IsInj
<1>6. IsFiniteSet(0..n - 1) /\ Cardinality(0..n - 1) = n
  <2>1. 0 \in Int /\ n - 1 \in Int
    BY <1>1
  <2>2. IsFiniteSet(0..n - 1) /\ Cardinality(0..n - 1) = IF 0 > n - 1 THEN 0 ELSE (n - 1) - 0 + 1
    BY <2>1, FS_Interval
  <2> QED
    BY <1>1, <2>2
<1>7. rank \in Surjection(S, 0..n - 1)
  BY <1>5, <1>6, FS_Injection
<1>8. \A i \in 0..n - 1 : \E d \in S : rank[d] = i
  <2> HIDE DEF rank, n
  <2> QED
    BY <1>7 DEF Surjection
<1> QED
  BY <1>1, <1>2, <1>8

\* Ordered(S, key) has each member of S once, by increasing key; what comes
\* before a member is what has a smaller key.
THEOREM OrderedBySmallerKeys ==
    ASSUME NEW S, IsFiniteSet(S), NEW key, IsKey(S, key)
    PROVE  LET o == Ordered(S, key)
           IN  /\ Cardinality(S) \in Nat
               /\ o \in Seq(S) /\ Len(o) = Cardinality(S) /\ DOMAIN o = 1..Cardinality(S)
               /\ ToSet(o) = S
               /\ IsInjective(o)
               /\ \A i, j \in DOMAIN o : i < j => key[o[i]] < key[o[j]]
               /\ \A i \in DOMAIN o : Cardinality(Below(S, key, o[i])) = i - 1
<1> DEFINE o == Ordered(S, key)
           n == Cardinality(S)
<1>1. n \in Nat
  BY RanksAreTaken
<1>2. ASSUME NEW i \in 1..n
      PROVE  o[i] \in S /\ Cardinality(Below(S, key, o[i])) = i - 1
  <2>1. \E d \in S : Cardinality(Below(S, key, d)) = i - 1
    BY <1>1, RanksAreTaken
  <2>2. o[i] = CHOOSE d \in S : Cardinality(Below(S, key, d)) = i - 1
    BY DEF Ordered, Below
  <2> HIDE DEF o
  <2> QED
    BY <2>1, <2>2
<1>3. o \in [1..n -> S] /\ DOMAIN o = 1..n
  BY <1>2 DEF Ordered
<1> HIDE DEF o
<1>4. o \in Seq(S) /\ Len(o) = n
  <2> HIDE DEF n
  <2> QED
    BY <1>1, <1>3
<1>5. ASSUME NEW i \in 1..n, NEW j \in 1..n, i < j PROVE key[o[i]] < key[o[j]]
  <2>1. o[i] \in S /\ o[j] \in S /\ Cardinality(Below(S, key, o[i])) = i - 1
        /\ Cardinality(Below(S, key, o[j])) = j - 1
    BY <1>2
  <2>2. i \in Int /\ j \in Int /\ key[o[i]] \in Int /\ key[o[j]] \in Int
    BY <1>1, <2>1 DEF IsKey
  <2>3. key[o[i]] # key[o[j]]
    <3>1. i - 1 # j - 1
      BY <1>5, <2>2
    <3> QED
      BY <2>1, <3>1 DEF IsKey
  <2>4. ASSUME key[o[j]] < key[o[i]] PROVE FALSE
    <3>1. Cardinality(Below(S, key, o[j])) < Cardinality(Below(S, key, o[i]))
      BY <2>1, <2>4, RanksDiffer
    <3> QED
      BY <1>5, <2>1, <2>2, <3>1
  <2> QED
    BY <2>2, <2>3, <2>4
<1>6. ASSUME NEW d \in S PROVE \E i \in 1..n : o[i] = d
  <2> DEFINE k == Cardinality(Below(S, key, d))
  <2>1. k \in 0..n - 1
    BY RanksAreTaken
  <2>2. k + 1 \in 1..n /\ k \in Nat
    BY <1>1, <2>1
  <2>3. o[k + 1] \in S /\ Cardinality(Below(S, key, o[k + 1])) = k
    <3>1. Cardinality(Below(S, key, o[k + 1])) = (k + 1) - 1 /\ o[k + 1] \in S
      BY <1>2, <2>2
    <3> QED
      BY <2>2, <3>1
  <2>4. key[d] \in Int /\ key[o[k + 1]] \in Int
    BY <2>3 DEF IsKey
  <2>5. ~(key[d] < key[o[k + 1]]) /\ ~(key[o[k + 1]] < key[d])
    BY <2>2, <2>3, RanksDiffer
  <2>6. o[k + 1] = d
    BY <2>3, <2>4, <2>5 DEF IsKey
  <2> QED
    BY <2>2, <2>6
<1>7. ToSet(o) = S
  BY <1>2, <1>3, <1>6 DEF ToSet
<1>8. IsInjective(o)
  <2>1. ASSUME NEW i \in 1..n, NEW j \in 1..n, o[i] = o[j] PROVE i = j
    BY <1>1, <1>2, <2>1
  <2> QED
    BY <1>3, <2>1 DEF IsInjective
<1> QED
  BY <1>1, <1>2, <1>3, <1>4, <1>5, <1>7, <1>8 DEF o

\* A finite set of naturals has the maximum that Max chooses.
LEMMA MaxOfNaturals ==
    ASSUME NEW S \in SUBSET Nat, IsFiniteSet(S), S # {}
    PROVE  Max(S) \in S /\ \A x \in S : x <= Max(S)
<1> DEFINE key == [x \in S |-> x]
           o == Ordered(S, key)
           n == Cardinality(S)
<1>1. IsKey(S, key)
  BY DEF IsKey
<1>2. /\ n \in Nat /\ DOMAIN o = 1..n /\ ToSet(o) = S
      /\ \A i, j \in DOMAIN o : i < j => key[o[i]] < key[o[j]]
  BY <1>1, OrderedBySmallerKeys
<1>3. n # 0
  BY FS_EmptySet
<1>4. \A i \in 1..n : o[i] \in S
  BY <1>2 DEF ToSet
<1>5. n \in 1..n
  BY <1>2, <1>3
<1>6. ASSUME NEW x \in S PROVE x <= o[n]
  <2>1. PICK i \in 1..n : o[i] = x
    BY <1>2 DEF ToSet
  <2>2. i = n \/ i < n
    BY <1>2
  <2>3. x \in Nat /\ o[n] \in Nat
    BY <1>4, <1>5
  <2>4. i < n => key[o[i]] < key[o[n]]
    BY <1>2, <1>5
  <2>5. key[o[i]] = x /\ key[o[n]] = o[n]
    BY <1>4, <1>5, <2>1
  <2> HIDE DEF o, key, n
  <2> QED
    BY <2>1, <2>2, <2>3, <2>4, <2>5
<1>7. o[n] \in S /\ \A x \in S : o[n] >= x
  <2>1. o[n] \in S
    BY <1>4, <1>5
  <2> HIDE DEF o, n, key
  <2> QED
    BY <1>6, <2>1
<1>8. Max(S) \in S /\ \A x \in S : Max(S) >= x
  <2> HIDE DEF o, n, key
  <2> QED
    BY <1>7 DEF Max
<1> QED
  BY <1>8

\* The greatest member is what Max chooses.
LEMMA MaxIs ==
    ASSUME NEW S \in SUBSET Int, NEW m \in S, \A x \in S : x <= m
    PROVE  Max(S) = m
<1>1. m \in S /\ \A x \in S : m >= x
  OBVIOUS
<1>2. Max(S) \in S /\ \A x \in S : Max(S) >= x
  BY <1>1 DEF Max
<1>3. Max(S) \in Int /\ m \in Int
  BY <1>2
<1>4. m >= Max(S) /\ Max(S) >= m
  BY <1>2
<1> QED
  BY <1>3, <1>4

\* Min and Max of two numbers.
LEMMA MinMaxOfTwo ==
    ASSUME NEW a \in Int, NEW b \in Int
    PROVE  /\ Min({a, b}) = IF a <= b THEN a ELSE b
           /\ Max({a, b}) = IF a >= b THEN a ELSE b
<1>1. CASE a <= b
  <2>1. a \in {a, b} /\ \A y \in {a, b} : a <= y
    BY <1>1
  <2>2. b \in {a, b} /\ \A y \in {a, b} : b >= y
    BY <1>1
  <2>3. Min({a, b}) \in {a, b} /\ \A y \in {a, b} : Min({a, b}) <= y
    BY <2>1 DEF Min
  <2>4. Max({a, b}) \in {a, b} /\ \A y \in {a, b} : Max({a, b}) >= y
    BY <2>2 DEF Max
  <2> QED
    BY <1>1, <2>3, <2>4
<1>2. CASE b < a
  <2>1. b \in {a, b} /\ \A y \in {a, b} : b <= y
    BY <1>2
  <2>2. a \in {a, b} /\ \A y \in {a, b} : a >= y
    BY <1>2
  <2>3. Min({a, b}) \in {a, b} /\ \A y \in {a, b} : Min({a, b}) <= y
    BY <2>1 DEF Min
  <2>4. Max({a, b}) \in {a, b} /\ \A y \in {a, b} : Max({a, b}) >= y
    BY <2>2 DEF Max
  <2> QED
    BY <1>2, <2>3, <2>4
<1> QED
  BY <1>1, <1>2

\* Quotient and remainder.
LEMMA QuotientAndRemainder ==
    ASSUME NEW a \in Nat, NEW p \in Nat \ {0}, NEW k \in Nat
    PROVE  /\ a \div p = k <=> k * p <= a /\ a < k * p + p
           /\ a \div p = k => a % p = a - k * p
<1> DEFINE x == a \div p
           y == a % p
<1>1. a = p * (a \div p) + (a % p) /\ a % p \in 0..p - 1 /\ a \div p \in Nat
  OBVIOUS
<1>2. \A i, j \in Int : i < j => i * p + p <= j * p
  OBVIOUS
<1> HIDE DEF x, y
<1>3. x \in Nat /\ y \in 0..p - 1 /\ a = p * x + y
  BY <1>1 DEF x, y
<1>4. p * x = x * p
  BY <1>3
<1>5. ASSUME x = k PROVE k * p <= a /\ a < k * p + p /\ y = a - k * p
  BY <1>3, <1>4, <1>5
<1>6. ASSUME k * p <= a, a < k * p + p PROVE x = k
  <2>1. ~(k < x)
    BY <1>2, <1>3, <1>4, <1>6
  <2>2. ~(x < k)
    BY <1>2, <1>3, <1>4, <1>6
  <2> QED
    BY <1>3, <2>1, <2>2
<1> QED
  BY <1>5, <1>6 DEF x, y

(***************************************************************************)
(* Induction and recursion, over sets and functions.                       *)
(***************************************************************************)

\* What is true of 0, and of n + 1 whenever of n, is true of every number.
LEMMA SetInduction ==
    ASSUME NEW T, 0 \in T, \A n \in Nat : n \in T => n + 1 \in T
    PROVE  Nat \subseteq T
<1> SUFFICES ASSUME NEW x \in Nat, x \notin T PROVE FALSE
  OBVIOUS
<1> DEFINE S == {n \in 0..x : n \in T}
<1>1. IsFiniteSet(0..x)
  BY FS_Interval
<1>2. S \in SUBSET (0..x) /\ S \in SUBSET Nat /\ 0 \in S
  OBVIOUS
<1>3. IsFiniteSet(S)
  BY <1>1, <1>2, FS_Subset
<1>4. Max(S) \in S /\ \A n \in S : n <= Max(S)
  <2> HIDE DEF S
  <2> QED
    BY <1>2, <1>3, MaxOfNaturals
<1> DEFINE m == Max(S)
<1> HIDE DEF m
<1>5. m \in 0..x /\ m \in T /\ \A n \in 0..x : n \in T => n <= m
  BY <1>4 DEF m
<1>6. m + 1 \in 0..x /\ m + 1 \in T
  BY <1>5
<1> QED
  BY <1>5, <1>6

\* The same up to n.
LEMMA IntervalInduction ==
    ASSUME NEW n \in Nat, NEW T, 0 \in T, \A k \in 1..n : k - 1 \in T => k \in T
    PROVE  0..n \subseteq T
<1> DEFINE U == {k \in Nat : k <= n => k \in T}
<1>1. 0 \in U
  OBVIOUS
<1>2. ASSUME NEW k \in Nat, k \in U PROVE k + 1 \in U
  <2>1. SUFFICES ASSUME k + 1 <= n PROVE k + 1 \in T
    OBVIOUS
  <2>2. k + 1 \in 1..n /\ (k + 1) - 1 = k /\ k \in T
    BY <1>2, <2>1
  <2> QED
    BY <2>2
<1>3. Nat \subseteq U
  <2> HIDE DEF U
  <2> QED
    BY <1>1, <1>2, SetInduction
<1> QED
  BY <1>3

\* What is true wherever it is true of everything of lower rank.
LEMMA RankedInduction ==
    ASSUME NEW D, NEW T, NEW rank, \A d \in D : rank[d] \in Nat,
           \A d \in D : (\A e \in D : rank[e] < rank[d] => e \in T) => d \in T
    PROVE  D \subseteq T
<1> DEFINE U == {k \in Nat : \A d \in D : rank[d] < k => d \in T}
<1>1. 0 \in U
  BY SMT
<1>2. ASSUME NEW k \in Nat, k \in U PROVE k + 1 \in U
  <2>1. ASSUME NEW d \in D, rank[d] < k + 1 PROVE d \in T
    <3>1. ASSUME NEW e \in D, rank[e] < rank[d] PROVE e \in T
      <4>1. rank[e] < k
        BY <2>1, <3>1
      <4> QED
        BY <1>2, <4>1
    <3> QED
      BY <3>1
  <2> QED
    BY <2>1
<1>3. Nat \subseteq U
  <2> HIDE DEF U
  <2> QED
    BY <1>1, <1>2, SetInduction
<1>4. ASSUME NEW d \in D PROVE d \in T
  <2>1. rank[d] + 1 \in Nat /\ rank[d] < rank[d] + 1
    OBVIOUS
  <2>2. rank[d] + 1 \in U
    BY <1>3, <2>1
  <2> QED
    BY <2>1, <2>2
<1> QED
  BY <1>4

\* step[f] is what a recursive definition makes of f: it looks at f only where
\* the rank is lower.
IsRecursion(step, D, X, rank, b) ==
    /\ rank \in [D -> Nat] /\ \A d \in D : rank[d] <= b
    /\ step \in [[D -> X] -> [D -> X]]
    /\ \A f, g \in [D -> X] : \A d \in D :
           (\A e \in D : rank[e] < rank[d] => f[e] = g[e]) => step[f][d] = step[g][d]

\* Such a definition has a solution.
LEMMA RankedRecursion ==
    ASSUME NEW D, NEW X, NEW first \in [D -> X], NEW b \in Nat, NEW rank, NEW step,
           IsRecursion(step, D, X, rank, b)
    PROVE  \E f \in [D -> X] : f = step[f]
<1> USE DEF IsRecursion
<1> DEFINE T == {k \in Nat : \E f \in [D -> X] : \A d \in D : rank[d] < k => step[f][d] = f[d]}
<1>1. 0 \in T
  <2>1. \A d \in D : ~(rank[d] < 0)
    OBVIOUS
  <2> QED
    BY <2>1
<1>2. ASSUME NEW k \in Nat, k \in T PROVE k + 1 \in T
  <2>1. PICK f \in [D -> X] : \A d \in D : rank[d] < k => step[f][d] = f[d]
    BY <1>2
  <2>2. step[f] \in [D -> X]
    OBVIOUS
  <2> DEFINE g == step[f]
  <2> HIDE DEF g
  <2>3. g \in [D -> X] /\ \A d \in D : g[d] = step[f][d]
    BY <2>2 DEF g
  <2>4. ASSUME NEW d \in D, rank[d] < k + 1 PROVE step[g][d] = g[d]
    <3>1. ASSUME NEW e \in D, rank[e] < rank[d] PROVE f[e] = g[e]
      <4>1. rank[e] \in Nat /\ rank[d] \in Nat
        OBVIOUS
      <4>2. rank[e] < k
        BY <2>4, <3>1, <4>1
      <4> QED
        BY <2>1, <2>3, <4>2
    <3>2. step[f][d] = step[g][d]
      BY <2>3, <3>1
    <3> QED
      BY <2>3, <3>2
  <2> QED
    BY <2>3, <2>4
<1>3. b + 1 \in T
  <2> HIDE DEF T
  <2>1. Nat \subseteq T
    BY <1>1, <1>2, SetInduction
  <2> QED
    BY <2>1
<1>4. PICK f \in [D -> X] : \A d \in D : rank[d] < b + 1 => step[f][d] = f[d]
  BY <1>3
<1>5. \A d \in D : step[f][d] = f[d]
  <2>1. \A d \in D : rank[d] \in Nat /\ rank[d] <= b
    OBVIOUS
  <2> QED
    BY <1>4, <2>1
<1>6. step[f] \in [D -> X]
  OBVIOUS
<1>7. f = step[f]
  BY <1>5, <1>6
<1> QED
  BY <1>7

\* A list of values, each made from the one before it.
IsStep(step, X, n) == step \in [X \X (1..n) -> X]

\* The recursive function that makes the list exists.
LEMMA ListRecursion ==
    ASSUME NEW X, NEW c \in X, NEW n \in Nat, NEW step, IsStep(step, X, n)
    PROVE  \E f \in [0..n -> X] :
               f = [i \in 0..n |-> IF i = 0 THEN c ELSE step[<<f[i - 1], i>>]]
<1> USE DEF IsStep
<1> DEFINE D == 0..n
           rank == [i \in D |-> i]
           next == [f \in [D -> X] |-> [i \in D |-> IF i = 0 THEN c ELSE step[<<f[i - 1], i>>]]]
           first == [i \in D |-> c]
<1>1. first \in [D -> X] /\ rank \in [D -> Nat] /\ \A d \in D : rank[d] <= n
  OBVIOUS
<1>2. next \in [[D -> X] -> [D -> X]]
  <2>1. ASSUME NEW f \in [D -> X], NEW i \in D, i # 0 PROVE step[<<f[i - 1], i>>] \in X
    <3>1. i - 1 \in D /\ i \in 1..n
      BY <2>1
    <3>2. <<f[i - 1], i>> \in X \X (1..n)
      BY <3>1
    <3> QED
      BY <3>2
  <2> QED
    BY <2>1
<1>3. ASSUME NEW f \in [D -> X], NEW g \in [D -> X], NEW d \in D,
             \A e \in D : rank[e] < rank[d] => f[e] = g[e]
      PROVE  next[f][d] = next[g][d]
  <2>1. CASE d = 0
    BY <2>1
  <2>2. CASE d # 0
    <3>1. d - 1 \in D /\ rank[d - 1] < rank[d]
      BY <2>2
    <3>2. f[d - 1] = g[d - 1]
      BY <1>3, <3>1
    <3> QED
      BY <3>2
  <2> QED
    BY <2>1, <2>2
<1>4. \E f \in [D -> X] : f = next[f]
  <2> HIDE DEF D, rank, next, first
  <2>1. IsRecursion(next, D, X, rank, n)
    BY <1>1, <1>2, <1>3 DEF IsRecursion
  <2> QED
    BY <1>1, <2>1, RankedRecursion
<1> QED
  BY <1>4

(***************************************************************************)
(* Finite sets of numbers in order.                                        *)
(***************************************************************************)

\* a lists S from its least member to its greatest.
Lists(a, n, S) ==
    /\ n \in Nat /\ S \in SUBSET Int /\ a \in [1..n -> S]
    /\ \A x \in S : \E i \in 1..n : a[i] = x
    /\ \A i, j \in 1..n : i < j => a[i] < a[j]

\* Increasing lists a finite set of numbers.
LEMMA IncreasingLists ==
    ASSUME NEW S \in SUBSET Int, IsFiniteSet(S)
    PROVE  Cardinality(S) \in Nat /\ Lists(Increasing(S), Cardinality(S), S)
<1> DEFINE key == [i \in S |-> i]
           o == Ordered(S, key)
           n == Cardinality(S)
<1>1. IsKey(S, key)
  BY DEF IsKey
<1>2. /\ n \in Nat /\ o \in Seq(S) /\ DOMAIN o = 1..n /\ ToSet(o) = S /\ Len(o) = n
      /\ \A i, j \in DOMAIN o : i < j => key[o[i]] < key[o[j]]
  BY <1>1, OrderedBySmallerKeys
<1>3. o = Increasing(S)
  BY DEF Increasing
<1> HIDE DEF o, n
<1>4. o \in [1..n -> S]
  BY <1>2
<1>5. \A x \in S : \E i \in 1..n : o[i] = x
  BY <1>2 DEF ToSet
<1>6. \A i, j \in 1..n : i < j => o[i] < o[j]
  BY <1>2, <1>4
<1> QED
  BY <1>2, <1>3, <1>4, <1>5, <1>6 DEF Lists, n

\* There is only one such list.
LEMMA OneList ==
    ASSUME NEW a, NEW b, NEW n, NEW k, NEW S, Lists(a, n, S), Lists(b, k, S), n <= k
    PROVE  a = b /\ n = k
<1> USE DEF Lists
<1> DEFINE T == {x \in Nat : x \in 1..n => a[x] = b[x]}
<1>1. 0 \in T
  OBVIOUS
<1>2. ASSUME NEW x \in Nat, \A y \in 1..x : y \in T PROVE x + 1 \in T
  <2>1. SUFFICES ASSUME x + 1 \in 1..n PROVE a[x + 1] = b[x + 1]
    BY DEF T
  <2>2. x + 1 \in 1..k /\ a[x + 1] \in S /\ b[x + 1] \in S
    BY <2>1
  <2>3. PICK i \in 1..k : b[i] = a[x + 1]
    BY <2>2
  <2>4. PICK j \in 1..n : a[j] = b[x + 1]
    BY <2>2
  <2>5. \A y \in 1..x : a[y] = b[y]
    BY <1>2, <2>1
  <2>6. a[x + 1] \in Int /\ b[x + 1] \in Int
    BY <2>2
  <2>7. ~(i <= x)
    <3>1. ASSUME i <= x PROVE FALSE
      <4>1. i \in 1..x /\ a[i] = b[i] /\ i \in 1..n /\ i < x + 1
        BY <2>1, <2>5, <3>1
      <4>2. a[i] < a[x + 1]
        BY <2>1, <4>1
      <4> QED
        BY <2>3, <2>6, <4>1, <4>2
    <3> QED
      BY <3>1
  <2>8. ~(j <= x)
    <3>1. ASSUME j <= x PROVE FALSE
      <4>1. j \in 1..x /\ a[j] = b[j] /\ j \in 1..k /\ j < x + 1
        BY <2>2, <2>5, <3>1
      <4>2. b[j] < b[x + 1]
        BY <2>2, <4>1
      <4> QED
        BY <2>4, <2>6, <4>1, <4>2
    <3> QED
      BY <3>1
  <2>9. i = x + 1 \/ x + 1 < i
    BY <2>7
  <2>10. j = x + 1 \/ x + 1 < j
    BY <2>8
  <2>11. ~(b[x + 1] < a[x + 1] /\ a[x + 1] < b[x + 1])
    BY <2>6
  <2>12. x + 1 < i => b[x + 1] < a[x + 1]
    BY <2>2, <2>3
  <2>13. x + 1 < j => a[x + 1] < b[x + 1]
    BY <2>1, <2>4
  <2> QED
    BY <2>3, <2>4, <2>9, <2>10, <2>11, <2>12, <2>13
<1>3. \A x \in Nat : x \in T
  <2> DEFINE U == {x \in Nat : \A y \in 0..x : y \in T}
  <2>1. 0 \in U
    BY <1>1
  <2>2. ASSUME NEW x \in Nat, x \in U PROVE x + 1 \in U
    <3>1. x + 1 \in T
      <4> HIDE DEF T
      <4> QED
        BY <1>2, <2>2
    <3>2. \A y \in 0..x + 1 : y \in 0..x \/ y = x + 1
      OBVIOUS
    <3> HIDE DEF T
    <3> QED
      BY <2>2, <3>1, <3>2
  <2>3. Nat \subseteq U
    <3> HIDE DEF U
    <3> QED
      BY <2>1, <2>2, SetInduction
  <2> HIDE DEF T
  <2> QED
    BY <2>3
<1>4. \A x \in 1..n : a[x] = b[x]
  <2>1. \A x \in 1..n : x \in Nat
    OBVIOUS
  <2> QED
    BY <1>3, <2>1
<1>5. ~(n < k)
  <2>1. SUFFICES ASSUME n < k PROVE FALSE
    OBVIOUS
  <2>2. k \in 1..k /\ b[k] \in S
    BY <2>1
  <2>3. PICK i \in 1..n : a[i] = b[k]
    BY <2>2
  <2>4. i \in 1..k /\ i < k /\ b[i] = b[k]
    BY <1>4, <2>1, <2>3
  <2>5. b[i] < b[k]
    BY <2>2, <2>4
  <2>6. b[k] \in Int
    BY <2>2
  <2> QED
    BY <2>4, <2>5, <2>6
<1>6. n = k
  BY <1>5
<1> QED
  BY <1>4, <1>6

\* What lists a set is Increasing, and counts it.
LEMMA ListsIsIncreasing ==
    ASSUME NEW a, NEW n, NEW S, Lists(a, n, S)
    PROVE  IsFiniteSet(S) /\ Cardinality(S) = n /\ Increasing(S) = a
<1>1. /\ n \in Nat /\ S \in SUBSET Int /\ a \in [1..n -> S]
      /\ \A x \in S : \E i \in 1..n : a[i] = x
  BY DEF Lists
<1>2. a \in Surjection(1..n, S)
  BY <1>1, Fun_IsSurj
<1>3. IsFiniteSet(1..n)
  BY <1>1, FS_Interval
<1>4. IsFiniteSet(S)
  BY <1>2, <1>3, FS_Surjection
<1>5. Cardinality(S) \in Nat /\ Lists(Increasing(S), Cardinality(S), S)
  BY <1>1, <1>4, IncreasingLists
<1>6. n <= Cardinality(S) \/ Cardinality(S) <= n
  BY <1>1, <1>5
<1>7. CASE n <= Cardinality(S)
  BY <1>4, <1>5, <1>7, OneList
<1>8. CASE Cardinality(S) <= n
  BY <1>4, <1>5, <1>8, OneList
<1> QED
  BY <1>6, <1>7, <1>8

\* A greater member comes last.
LEMMA ListsMore ==
    ASSUME NEW a, NEW n, NEW S, Lists(a, n, S), NEW y \in Int, \A x \in S : x < y
    PROVE  Lists([k \in 1..n + 1 |-> IF k = n + 1 THEN y ELSE a[k]], n + 1, S \cup {y})
<1> DEFINE b == [k \in 1..n + 1 |-> IF k = n + 1 THEN y ELSE a[k]]
           U == S \cup {y}
<1>1. /\ n \in Nat /\ S \in SUBSET Int /\ a \in [1..n -> S] /\ (\A x \in S : \E i \in 1..n : a[i] = x)
      /\ \A i, j \in 1..n : i < j => a[i] < a[j]
  BY DEF Lists
<1>2. n + 1 \in Nat /\ U \in SUBSET Int
  BY <1>1
<1>3. b \in [1..n + 1 -> U]
  <2>1. ASSUME NEW k \in 1..n + 1 PROVE b[k] \in U
    <3>1. CASE k = n + 1
      BY <3>1
    <3>2. CASE k # n + 1
      <4>1. k \in 1..n
        BY <1>1, <3>2
      <4> QED
        BY <1>1, <3>2, <4>1
    <3> QED
      BY <3>1, <3>2
  <2> QED
    BY <2>1
<1>4. ASSUME NEW x \in U PROVE \E i \in 1..n + 1 : b[i] = x
  <2>1. CASE x = y
    <3>1. n + 1 \in 1..n + 1 /\ b[n + 1] = x
      BY <1>1, <2>1
    <3> QED
      BY <3>1
  <2>2. CASE x \in S
    <3>1. PICK i \in 1..n : a[i] = x
      BY <1>1, <2>2
    <3>2. i \in 1..n + 1 /\ i # n + 1
      BY <1>1
    <3> QED
      BY <3>1, <3>2
  <2> QED
    BY <2>1, <2>2
<1>5. ASSUME NEW i \in 1..n + 1, NEW j \in 1..n + 1, i < j PROVE b[i] < b[j]
  <2>1. i \in 1..n /\ i # n + 1
    BY <1>1, <1>5
  <2>2. CASE j = n + 1
    BY <1>1, <2>1, <2>2
  <2>3. CASE j # n + 1
    <3>1. j \in 1..n
      BY <1>1, <2>3
    <3> QED
      BY <1>1, <1>5, <2>1, <2>3, <3>1
  <2> QED
    BY <2>2, <2>3
<1> HIDE DEF b, U
<1>6. Lists(b, n + 1, U)
  BY <1>2, <1>3, <1>4, <1>5 DEF Lists
<1> QED
  BY <1>6 DEF b, U

(***************************************************************************)
(* Entries of a list.                                                      *)
(***************************************************************************)

\* The entries at places a[1] < a[2] < ... are s[a[1]], s[a[2]], ...
LEMMA EntriesAt ==
    ASSUME NEW s, NEW a, NEW n, NEW S, Lists(a, n, S)
    PROVE  Entries(s, S) = [k \in 1..n |-> s[a[k]]]
BY ListsIsIncreasing DEF Entries

\* Entries of a sequence are a sequence of its values.
LEMMA EntriesIsSeq ==
    ASSUME NEW X, NEW s \in Seq(X), NEW S \in SUBSET DOMAIN s
    PROVE  /\ IsFiniteSet(S) /\ Cardinality(S) \in Nat
           /\ Entries(s, S) \in Seq(X) /\ Len(Entries(s, S)) = Cardinality(S)
           /\ ToSet(Entries(s, S)) = {s[i] : i \in S}
<1>1. DOMAIN s = 1..Len(s) /\ Len(s) \in Nat /\ \A i \in 1..Len(s) : s[i] \in X
  OBVIOUS
<1>2. IsFiniteSet(S)
  <2>1. IsFiniteSet(1..Len(s))
    BY <1>1, FS_Interval
  <2> QED
    BY <1>1, <2>1, FS_Subset
<1>3. S \in SUBSET Int
  BY <1>1
<1> DEFINE n == Cardinality(S)
           a == Increasing(S)
<1>4. n \in Nat /\ Lists(a, n, S)
  BY <1>2, <1>3, IncreasingLists
<1> HIDE DEF n, a
<1>5. a \in [1..n -> S] /\ \A x \in S : \E i \in 1..n : a[i] = x
  BY <1>4 DEF Lists
<1>6. Entries(s, S) = [k \in 1..n |-> s[a[k]]]
  BY DEF Entries, n, a
<1>7. \A k \in 1..n : a[k] \in S /\ s[a[k]] \in X
  BY <1>1, <1>5
<1>8. Entries(s, S) \in Seq(X) /\ Len(Entries(s, S)) = n /\ DOMAIN Entries(s, S) = 1..n
  BY <1>4, <1>6, <1>7
<1>9. ToSet(Entries(s, S)) = {s[i] : i \in S}
  <2>1. ToSet(Entries(s, S)) = {s[a[k]] : k \in 1..n}
    BY <1>6, <1>8 DEF ToSet
  <2>2. \A i \in S : \E k \in 1..n : s[i] = s[a[k]]
    BY <1>5
  <2> QED
    BY <1>7, <2>1, <2>2
<1> QED
  BY <1>2, <1>4, <1>8, <1>9 DEF n

\* What appending a value does to the entries.
LEMMA EntriesAppend ==
    ASSUME NEW X, NEW s \in Seq(X), NEW x \in X, NEW S \in SUBSET (1..Len(s))
    PROVE  /\ Entries(Append(s, x), S) = Entries(s, S)
           /\ Entries(Append(s, x), S \cup {Len(s) + 1}) = Append(Entries(s, S), x)
<1> DEFINE t == Append(s, x)
           m == Len(s)
<1>1. m \in Nat /\ t \in Seq(X) /\ Len(t) = m + 1 /\ t[m + 1] = x /\ \A i \in 1..m : t[i] = s[i]
  OBVIOUS
<1>2. S \in SUBSET DOMAIN s /\ S \in SUBSET Int
  OBVIOUS
<1>3. IsFiniteSet(S) /\ Cardinality(S) \in Nat /\ Entries(s, S) \in Seq(X)
  BY <1>2, EntriesIsSeq
<1> DEFINE n == Cardinality(S)
           a == Increasing(S)
<1>4. Lists(a, n, S) /\ n \in Nat
  BY <1>2, <1>3, IncreasingLists
<1> HIDE DEF n, a, t, m
<1>5. a \in [1..n -> S] /\ (\A y \in S : \E i \in 1..n : a[i] = y) /\ \A i, j \in 1..n : i < j => a[i] < a[j]
  BY <1>4 DEF Lists
<1>6. \A k \in 1..n : a[k] \in 1..m /\ t[a[k]] = s[a[k]]
  BY <1>1, <1>5 DEF m
<1>7. Entries(s, S) = [k \in 1..n |-> s[a[k]]]
  BY <1>4, EntriesAt
<1>8. Entries(t, S) = [k \in 1..n |-> t[a[k]]]
  BY <1>4, EntriesAt
<1>9. Entries(t, S) = Entries(s, S)
  BY <1>6, <1>7, <1>8
<1> DEFINE b == [k \in 1..n + 1 |-> IF k = n + 1 THEN m + 1 ELSE a[k]]
           U == S \cup {m + 1}
<1>10. Lists(b, n + 1, U)
  <2>1. m + 1 \in Int /\ \A y \in S : y < m + 1
    BY <1>1 DEF m
  <2> HIDE DEF m
  <2> QED
    BY <1>4, <2>1, ListsMore
<1>11. Entries(t, U) = [k \in 1..n + 1 |-> t[b[k]]]
  <2> HIDE DEF b, U
  <2> QED
    BY <1>10, EntriesAt
<1>12. \A k \in 1..n + 1 : t[b[k]] = IF k = n + 1 THEN x ELSE s[a[k]]
  <2>1. SUFFICES ASSUME NEW k \in 1..n + 1 PROVE t[b[k]] = IF k = n + 1 THEN x ELSE s[a[k]]
    OBVIOUS
  <2>2. CASE k = n + 1
    BY <1>1, <2>2
  <2>3. CASE k # n + 1
    <3>1. k \in 1..n
      BY <1>4, <2>3
    <3> QED
      BY <1>6, <2>3, <3>1
  <2> QED
    BY <2>2, <2>3
<1>13. Entries(t, U) = Append(Entries(s, S), x)
  <2> DEFINE e == Entries(s, S)
  <2>1. e \in Seq(X) /\ Len(e) = n /\ \A k \in 1..n : e[k] = s[a[k]]
    BY <1>3, <1>4, <1>7
  <2> HIDE DEF e
  <2>2. Append(e, x) = [k \in 1..n + 1 |-> IF k = n + 1 THEN x ELSE e[k]]
    <3> DEFINE f == Append(e, x)
    <3>1. f \in Seq(X) /\ Len(f) = n + 1 /\ f[n + 1] = x /\ \A k \in 1..n : f[k] = e[k]
      BY <2>1, AppendProperties
    <3> HIDE DEF f
    <3>2. DOMAIN f = 1..n + 1 /\ f = [k \in DOMAIN f |-> f[k]]
      BY <3>1
    <3>3. \A k \in 1..n + 1 : k # n + 1 => k \in 1..n
      BY <1>4
    <3> QED
      BY <3>1, <3>2, <3>3 DEF f
  <2>3. \A k \in 1..n + 1 : k # n + 1 => k \in 1..n
    BY <1>4
  <2>4. Entries(t, U) = [k \in 1..n + 1 |-> IF k = n + 1 THEN x ELSE s[a[k]]]
    BY <1>11, <1>12
  <2> QED
    BY <2>1, <2>2, <2>3, <2>4 DEF e
<1> QED
  BY <1>9, <1>13 DEF t, m, U

(***************************************************************************)
(* Sequences: induction over them, what runs over them, their front, their *)
(* prefixes, and a finite set as one of them.                              *)
(***************************************************************************)

\* What holds of the empty sequence, and passes from a sequence to a longer
\* one, holds of all.
LEMMA SeqInduction ==
    ASSUME NEW X, NEW T, <<>> \in T, \A s \in Seq(X) : s \in T => \A x \in X : Append(s, x) \in T
    PROVE  Seq(X) \subseteq T
<1> DEFINE U == {n \in Nat : \A s \in Seq(X) : Len(s) = n => s \in T}
<1>1. 0 \in U
  OBVIOUS
<1>2. ASSUME NEW n \in Nat, n \in U PROVE n + 1 \in U
  <2>1. ASSUME NEW s \in Seq(X), Len(s) = n + 1 PROVE s \in T
    <3>1. SubSeq(s, 1, Len(s) - 1) \in Seq(X) /\ Len(SubSeq(s, 1, Len(s) - 1)) = n
      BY <2>1
    <3>2. SubSeq(s, 1, Len(s) - 1) \in T
      BY <1>2, <3>1
    <3>3. s # <<>> /\ s[Len(s)] \in X
      BY <2>1
    <3>4. s = Append(SubSeq(s, 1, Len(s) - 1), s[Len(s)])
      BY <2>1
    <3> QED
      BY <3>1, <3>2, <3>3, <3>4
  <2> QED
    BY <2>1
<1>3. Nat \subseteq U
  <2> HIDE DEF U
  <2> QED
    BY <1>1, <1>2, SetInduction
<1> QED
  BY <1>3

\* step makes the next value from a value and the next entry; f runs it over s.
IsFold(step, X, Y) == step \in [X \X Y -> X]
Runs(f, step, X, c, s) ==
    /\ f[0] = c
    /\ \A n \in 1..Len(s) : f[n - 1] \in X => f[n] = step[<<f[n - 1], s[n]>>]

\* The recursive function that folds a list exists.
LEMMA RunExists ==
    ASSUME NEW X, NEW Y, NEW c \in X, NEW step, IsFold(step, X, Y), NEW s \in Seq(Y)
    PROVE  \E f \in [0..Len(s) -> X] :
               f = [n \in 0..Len(s) |-> IF n = 0 THEN c ELSE step[<<f[n - 1], s[n]>>]]
<1> DEFINE m == Len(s)
           each == [q \in X \X (1..m) |-> step[<<q[1], s[q[2]]>>]]
<1>1. m \in Nat /\ \A n \in 1..m : s[n] \in Y
  OBVIOUS
<1> HIDE DEF m
<1>2. IsStep(each, X, m)
  <2>1. ASSUME NEW x \in X, NEW n \in 1..m PROVE step[<<x, s[n]>>] \in X
    BY <1>1 DEF IsFold
  <2>2. each \in [X \X (1..m) -> X]
    BY <2>1
  <2> QED
    BY <2>2 DEF IsStep
<1>3. \A x \in X, n \in 1..m : each[<<x, n>>] = step[<<x, s[n]>>]
  OBVIOUS
<1> HIDE DEF each
<1>4. PICK f \in [0..m -> X] : f = [n \in 0..m |-> IF n = 0 THEN c ELSE each[<<f[n - 1], n>>]]
  BY <1>1, <1>2, ListRecursion
<1>5. ASSUME NEW n \in 0..m, n # 0 PROVE each[<<f[n - 1], n>>] = step[<<f[n - 1], s[n]>>]
  <2>1. n \in 1..m /\ n - 1 \in 0..m
    BY <1>1, <1>5
  <2> QED
    BY <1>3, <2>1
<1>6. f = [n \in 0..m |-> IF n = 0 THEN c ELSE step[<<f[n - 1], s[n]>>]]
  BY <1>4, <1>5
<1> QED
  BY <1>6 DEF m

\* Two runs agree as far as their sequences do.
LEMMA RunsMeet ==
    ASSUME NEW X, NEW Y, NEW c \in X, NEW step, IsFold(step, X, Y), NEW s \in Seq(Y), NEW y \in Y,
           NEW f, NEW g, Runs(f, step, X, c, s), Runs(g, step, X, c, Append(s, y))
    PROVE  /\ f[Len(s)] \in X
           /\ g[Len(s) + 1] = step[<<f[Len(s)], y>>]
<1> DEFINE m == Len(s)
           t == Append(s, y)
<1>1. /\ m \in Nat /\ Len(t) = m + 1 /\ t[m + 1] = y
      /\ \A n \in 1..m : t[n] = s[n] /\ s[n] \in Y
  OBVIOUS
<1>2. Runs(g, step, X, c, t)
  OBVIOUS
<1> HIDE DEF m, t
<1> DEFINE T == {n \in 0..m : f[n] \in X /\ g[n] = f[n]}
<1>3. 0 \in T
  BY <1>1, <1>2 DEF Runs
<1>4. ASSUME NEW n \in 1..m, n - 1 \in T PROVE n \in T
  <2>1. n \in 1..m + 1 /\ n \in 0..m /\ f[n - 1] \in X /\ g[n - 1] = f[n - 1] /\ t[n] = s[n] /\ s[n] \in Y
    BY <1>1, <1>4
  <2>2. f[n] = step[<<f[n - 1], s[n]>>]
    BY <2>1 DEF Runs, m
  <2>3. g[n] = step[<<f[n - 1], s[n]>>]
    BY <1>1, <1>2, <2>1 DEF Runs
  <2>4. step[<<f[n - 1], s[n]>>] \in X
    BY <2>1 DEF IsFold
  <2> QED
    BY <2>1, <2>2, <2>3, <2>4
<1>5. m \in T
  <2> HIDE DEF T
  <2>1. 0..m \subseteq T
    BY <1>1, <1>3, <1>4, IntervalInduction
  <2> QED
    BY <1>1, <2>1
<1>6. m + 1 \in 1..m + 1 /\ (m + 1) - 1 = m
  BY <1>1
<1>7. g[m + 1] = step[<<f[m], y>>]
  BY <1>1, <1>2, <1>5, <1>6 DEF Runs
<1> QED
  BY <1>5, <1>7 DEF m

\* The first entries of a sequence.
LEMMA PrefixIs ==
    ASSUME NEW X, NEW s \in Seq(X), NEW n \in 0..Len(s)
    PROVE  /\ SubSeq(s, 1, n) \in Seq(X) /\ Len(SubSeq(s, 1, n)) = n
           /\ \A p \in 1..n : SubSeq(s, 1, n)[p] = s[p]
<1>1. 1 \in Int /\ n \in Int /\ Len(s) \in Nat
  OBVIOUS
<1>2. \A p \in 1..n : s[p] \in X
  OBVIOUS
<1>3. /\ SubSeq(s, 1, n) \in Seq(X)
      /\ Len(SubSeq(s, 1, n)) = IF 1 <= n THEN n - 1 + 1 ELSE 0
      /\ \A p \in 1..n - 1 + 1 : SubSeq(s, 1, n)[p] = s[1 + p - 1]
  BY <1>1, <1>2, SubSeqProperties
<1>4. n - 1 + 1 = n /\ (1 <= n \/ n = 0) /\ \A p \in 1..n : 1 + p - 1 = p
  BY <1>1
<1> QED
  BY <1>3, <1>4

\* A list that is not empty is its front and its last member.
LEMMA FrontIs ==
    ASSUME NEW X, NEW s \in Seq(X), s # <<>>
    PROVE  /\ Front(s) \in Seq(X) /\ Len(Front(s)) = Len(s) - 1
           /\ \A p \in 1..Len(s) - 1 : Front(s)[p] = s[p]
           /\ Last(s) \in X /\ s = Append(Front(s), Last(s))
<1>1. Len(s) \in Nat /\ Len(s) # 0 /\ s[Len(s)] \in X
  OBVIOUS
<1>2. Len(s) - 1 \in 0..Len(s)
  BY <1>1
<1>3. /\ Front(s) \in Seq(X) /\ Len(Front(s)) = Len(s) - 1
      /\ \A p \in 1..Len(s) - 1 : Front(s)[p] = s[p]
  BY <1>2, PrefixIs DEF Front
<1>4. s = Append(Front(s), Last(s))
  <2> DEFINE f == Front(s)
             g == Append(f, s[Len(s)])
             m == Len(s)
  <2>1. m \in Nat /\ m # 0 /\ s[m] \in X /\ f \in Seq(X) /\ Len(f) = m - 1 /\ \A p \in 1..m - 1 : f[p] = s[p]
    BY <1>1, <1>3
  <2> HIDE DEF f, m
  <2>2. Append(f, s[m]) \in Seq(X) /\ Len(Append(f, s[m])) = (m - 1) + 1
        /\ Append(f, s[m])[(m - 1) + 1] = s[m] /\ \A p \in 1..m - 1 : Append(f, s[m])[p] = f[p]
    BY <2>1, AppendProperties
  <2>3. (m - 1) + 1 = m /\ \A p \in 1..m : p = m \/ p \in 1..m - 1
    BY <2>1
  <2>4. Append(f, s[m]) = s
    <3> DEFINE h == Append(f, s[m])
    <3>1. h \in Seq(X) /\ Len(h) = m /\ \A p \in 1..m : h[p] = s[p]
      BY <2>1, <2>2, <2>3
    <3> HIDE DEF h
    <3>2. h = s
      BY <3>1 DEF m
    <3> QED
      BY <3>2 DEF h
  <2> QED
    BY <2>4 DEF f, m, Last
<1> QED
  BY <1>1, <1>3, <1>4 DEF Last

\* Front and Last undo Append.
LEMMA FrontOfAppend ==
    ASSUME NEW X, NEW s \in Seq(X), NEW x \in X
    PROVE  Front(Append(s, x)) = s /\ Last(Append(s, x)) = x
BY DEF Front, Last

\* IsStrictPrefix, member by member.
LEMMA StrictPrefixIs ==
    ASSUME NEW X, NEW s \in Seq(X), NEW t \in Seq(X)
    PROVE  IsStrictPrefix(s, t) <=> Len(s) < Len(t) /\ \A p \in 1..Len(s) : s[p] = t[p]
<1> DEFINE m == Len(s)
           n == Len(t)
<1>1. m \in Nat /\ n \in Nat
  OBVIOUS
<1>2. /\ SubSeq(s, 1, m) \in Seq(X) /\ Len(SubSeq(s, 1, m)) = m
      /\ \A p \in 1..m : SubSeq(s, 1, m)[p] = s[p]
  BY PrefixIs
<1>3. SubSeq(s, 1, m) = s
  BY <1>2
<1>4. ASSUME m <= n
      PROVE  /\ SubSeq(t, 1, m) \in Seq(X) /\ Len(SubSeq(t, 1, m)) = m
             /\ \A p \in 1..m : SubSeq(t, 1, m)[p] = t[p]
  BY <1>1, <1>4, PrefixIs
<1>5. IsStrictPrefix(s, t) <=> m <= n /\ s = SubSeq(t, 1, m) /\ s # t
  BY <1>3 DEF IsStrictPrefix, IsPrefix
<1>6. ASSUME m < n, \A p \in 1..m : s[p] = t[p] PROVE s = SubSeq(t, 1, m)
  <2> DEFINE f == SubSeq(t, 1, m)
  <2>1. f \in Seq(X) /\ Len(f) = m /\ \A p \in 1..m : f[p] = t[p]
    BY <1>1, <1>4, <1>6
  <2> HIDE DEF f
  <2>2. f = s
    BY <1>6, <2>1
  <2> QED
    BY <2>2 DEF f
<1>7. ASSUME m <= n, s = SubSeq(t, 1, m), s # t PROVE m < n /\ \A p \in 1..m : s[p] = t[p]
  <2>1. \A p \in 1..m : s[p] = t[p]
    BY <1>4, <1>7
  <2>2. m # n
    BY <1>7, <2>1
  <2> QED
    BY <1>1, <1>7, <2>1, <2>2
<1>8. ASSUME m < n PROVE s # t /\ m <= n
  BY <1>1, <1>8
<1> QED
  BY <1>5, <1>6, <1>7, <1>8

\* The sequence that SetToSeq chooses has every member once.
LEMMA SetToSeqIs ==
    ASSUME NEW S, IsFiniteSet(S)
    PROVE  /\ Cardinality(S) \in Nat
           /\ SetToSeq(S) \in [1..Cardinality(S) -> S]
           /\ \A x \in S : \E i \in 1..Cardinality(S) : SetToSeq(S)[i] = x
           /\ \A i, j \in 1..Cardinality(S) : SetToSeq(S)[i] = SetToSeq(S)[j] => i = j
<1> DEFINE n == Cardinality(S)
           f == SetToSeq(S)
<1>1. n \in Nat /\ ExistsBijection(1..n, S)
  BY FS_CardinalityType, FS_NatBijection
<1>2. PICK b \in [1..n -> S] : (\A x \in S : \E i \in 1..n : b[i] = x) /\ \A i, j \in 1..n : b[i] = b[j] => i = j
  <2>1. PICK b : b \in Bijection(1..n, S)
    BY <1>1 DEF ExistsBijection
  <2> HIDE DEF n
  <2>2. b \in [1..n -> S] /\ (\A x \in S : \E i \in 1..n : b[i] = x)
    BY <2>1 DEF Bijection, Surjection, Injection
  <2>3. \A i, j \in 1..n : b[i] = b[j] => i = j
    BY <2>1 DEF Bijection, Injection, IsInjective
  <2> QED
    BY <2>2, <2>3
<1>3. f \in [1..n -> S] /\ \A i, j \in 1..n : f[i] = f[j] => i = j
  <2>1. IsInjective(b)
    BY <1>2 DEF IsInjective
  <2>2. f = CHOOSE g \in [1..n -> S] : IsInjective(g)
    BY DEF SetToSeq
  <2> HIDE DEF f, n
  <2>3. f \in [1..n -> S] /\ IsInjective(f)
    BY <2>1, <2>2
  <2> QED
    BY <2>3 DEF IsInjective
<1> HIDE DEF f
<1>4. f \in Injection(1..n, S)
  BY <1>3, Fun_IsInj
<1>5. IsFiniteSet(1..n) /\ Cardinality(1..n) = n
  <2>1. 1 \in Int /\ n \in Int
    BY <1>1
  <2>2. IsFiniteSet(1..n) /\ Cardinality(1..n) = IF 1 > n THEN 0 ELSE n - 1 + 1
    BY <2>1, FS_Interval
  <2> QED
    BY <1>1, <2>2
<1>6. f \in Surjection(1..n, S)
  BY <1>4, <1>5, FS_Injection
<1>7. \A x \in S : \E i \in 1..n : f[i] = x
  <2> HIDE DEF n
  <2> QED
    BY <1>6 DEF Surjection
<1> QED
  BY <1>1, <1>3, <1>7 DEF f

\* How many of the first entries are in a set.
LEMMA CountMore ==
    ASSUME NEW t, NEW A, NEW n \in Nat
    PROVE  /\ Cardinality({i \in 1..n : t[i] \in A}) \in Nat
           /\ Cardinality({i \in 1..n + 1 : t[i] \in A}) =
                  IF t[n + 1] \in A THEN Cardinality({i \in 1..n : t[i] \in A}) + 1
                  ELSE Cardinality({i \in 1..n : t[i] \in A})
<1> DEFINE S == {i \in 1..n : t[i] \in A}
           U == {i \in 1..n + 1 : t[i] \in A}
<1>1. IsFiniteSet(S)
  <2>1. 1 \in Int /\ n \in Int /\ S \in SUBSET (1..n)
    OBVIOUS
  <2>2. IsFiniteSet(1..n)
    BY <2>1, FS_Interval
  <2> HIDE DEF S
  <2> QED
    BY <2>1, <2>2, FS_Subset
<1>2. Cardinality(S) \in Nat
  BY <1>1, FS_CardinalityType
<1>3. n + 1 \notin S
  OBVIOUS
<1>4. CASE t[n + 1] \in A
  <2>1. U = S \cup {n + 1}
    BY <1>4
  <2> HIDE DEF S, U
  <2>2. Cardinality(U) = Cardinality(S) + 1
    BY <1>1, <1>3, <2>1, FS_AddElement
  <2> QED
    BY <1>2, <1>4, <2>2 DEF S, U
<1>5. CASE t[n + 1] \notin A
  <2>1. U = S
    BY <1>5
  <2> QED
    BY <1>2, <1>5, <2>1
<1> QED
  BY <1>4, <1>5

\* Flattening a sequence of sequences, one more at a time.
LEMMA FlattenIs ==
    ASSUME NEW X
    PROVE  /\ FlattenSeq(<<>>) = <<>>
           /\ \A ss \in Seq(Seq(X)) : FlattenSeq(ss) \in Seq(X)
           /\ \A ss \in Seq(Seq(X)), p \in Seq(X) : FlattenSeq(Append(ss, p)) = FlattenSeq(ss) \o p
<1> DEFINE Y == Seq(X)
           step == [q \in Y \X Y |-> q[1] \o q[2]]
           run(ss) == CHOOSE f : f = [i \in 1..Len(ss) |-> IF i = 1 THEN ss[i] ELSE f[i - 1] \o ss[i]]
           whole(ss) == [n \in 0..Len(ss) |-> IF n = 0 THEN <<>> ELSE run(ss)[n]]
<1>1. IsFold(step, Y, Y) /\ \A s, t \in Y : step[<<s, t>>] = s \o t
  <2>1. \A s, t \in Y : s \o t \in Y
    OBVIOUS
  <2> HIDE DEF Y
  <2>2. step \in [Y \X Y -> Y]
    BY <2>1
  <2> QED
    BY <2>2 DEF IsFold
<1>2. <<>> \in Y /\ \A s \in Y : <<>> \o s = s
  OBVIOUS
<1> HIDE DEF step, Y
<1>3. ASSUME NEW ss \in Seq(Y)
      PROVE  Runs(whole(ss), step, Y, <<>>, ss) /\ FlattenSeq(ss) = whole(ss)[Len(ss)]
  <2> DEFINE m == Len(ss)
  <2>1. m \in Nat /\ \A n \in 1..m : ss[n] \in Y
    OBVIOUS
  <2>2. PICK f \in [0..m -> Y] : f = [n \in 0..m |-> IF n = 0 THEN <<>> ELSE step[<<f[n - 1], ss[n]>>]]
    BY <1>1, <1>2, RunExists
  <2> HIDE DEF m
  <2> DEFINE g == [i \in 1..m |-> f[i]]
  <2>3. ASSUME NEW i \in 1..m PROVE g[i] = IF i = 1 THEN ss[i] ELSE g[i - 1] \o ss[i]
    <3>1. i \in 0..m /\ i # 0 /\ i - 1 \in 0..m /\ (i # 1 => i - 1 \in 1..m) /\ 0 \in 0..m
      BY <2>1
    <3>2. f[i] = step[<<f[i - 1], ss[i]>>] /\ f[0] = <<>>
      BY <2>2, <3>1
    <3>3. f[i] = f[i - 1] \o ss[i]
      BY <1>1, <2>1, <3>1, <3>2
    <3>4. i = 1 => f[i] = ss[i]
      <4>1. SUFFICES ASSUME i = 1 PROVE f[i] = ss[i]
        OBVIOUS
      <4>2. f[i - 1] = <<>> /\ ss[i] \in Y
        BY <2>1, <3>2, <4>1
      <4> QED
        BY <1>2, <3>3, <4>2
    <3> QED
      BY <3>1, <3>3, <3>4
  <2>4. g = [i \in 1..m |-> IF i = 1 THEN ss[i] ELSE g[i - 1] \o ss[i]]
    <3>1. g = [i \in 1..m |-> g[i]]
      OBVIOUS
    <3> HIDE DEF g
    <3> QED
      BY <2>3, <3>1
  <2> HIDE DEF g
  <2> DEFINE h == run(ss)
  <2>5. h = [i \in 1..m |-> IF i = 1 THEN ss[i] ELSE h[i - 1] \o ss[i]]
    BY <2>4 DEF m
  <2>6. FlattenSeq(ss) = IF m = 0 THEN ss ELSE h[m]
    BY DEF FlattenSeq, m
  <2>7. m = 0 => ss = <<>>
    BY DEF m
  <2> HIDE DEF h
  <2> DEFINE w == [n \in 0..m |-> IF n = 0 THEN <<>> ELSE h[n]]
  <2>8. w = whole(ss)
    BY DEF m, h
  <2>9. w[0] = <<>> /\ w[m] = IF m = 0 THEN <<>> ELSE h[m]
    <3>1. 0 \in 0..m /\ m \in 0..m
      BY <2>1
    <3> QED
      BY <3>1
  <2>10. ASSUME NEW n \in 1..m, w[n - 1] \in Y PROVE w[n] = step[<<w[n - 1], ss[n]>>]
    <3>1. n \in 0..m /\ n # 0 /\ n - 1 \in 0..m /\ (n = 1 => n - 1 = 0) /\ (n # 1 => n - 1 # 0)
      BY <2>1
    <3>2. w[n] = IF n = 1 THEN ss[n] ELSE h[n - 1] \o ss[n]
      BY <2>5, <3>1
    <3>3. w[n - 1] = IF n = 1 THEN <<>> ELSE h[n - 1]
      BY <3>1
    <3> HIDE DEF w
    <3>4. ss[n] \in Y /\ step[<<w[n - 1], ss[n]>>] = w[n - 1] \o ss[n]
      BY <1>1, <2>1, <2>10
    <3> QED
      BY <1>2, <3>2, <3>3, <3>4
  <2>11. Runs(w, step, Y, <<>>, ss)
    <3> HIDE DEF w
    <3> QED
      BY <2>9, <2>10 DEF Runs, m
  <2>12. FlattenSeq(ss) = w[m]
    BY <2>6, <2>7, <2>9
  <2> HIDE DEF w
  <2> QED
    BY <2>8, <2>11, <2>12 DEF m
<1> HIDE DEF whole
<1>4. FlattenSeq(<<>>) = <<>>
  BY DEF FlattenSeq
<1>5. ASSUME NEW ss \in Seq(Y), NEW p \in Y
      PROVE  FlattenSeq(ss) \in Y /\ FlattenSeq(Append(ss, p)) = FlattenSeq(ss) \o p
  <2>1. Append(ss, p) \in Seq(Y) /\ Len(Append(ss, p)) = Len(ss) + 1
    BY AppendProperties
  <2>2. /\ Runs(whole(ss), step, Y, <<>>, ss) /\ FlattenSeq(ss) = whole(ss)[Len(ss)]
        /\ Runs(whole(Append(ss, p)), step, Y, <<>>, Append(ss, p))
        /\ FlattenSeq(Append(ss, p)) = whole(Append(ss, p))[Len(ss) + 1]
    BY <1>3, <2>1
  <2>3. whole(ss)[Len(ss)] \in Y /\ whole(Append(ss, p))[Len(ss) + 1] = step[<<whole(ss)[Len(ss)], p>>]
    BY <1>1, <1>2, <2>2, RunsMeet
  <2> QED
    BY <1>1, <2>2, <2>3
<1>6. \A ss \in Seq(Y) : FlattenSeq(ss) \in Y
  BY <1>2, <1>5
<1> QED
  BY <1>4, <1>5, <1>6 DEF Y
=============================================================================

----------------------------- MODULE NatLemmas -----------------------------
(***************************************************************************)
(* Induction on natural numbers without operator parameters: the set of    *)
(* counterexamples has a least element.  Chains of handles and of cache    *)
(* blocks are followed by functions defined recursively on 0..n; these are *)
(* the facts their proofs need.                                            *)
(***************************************************************************)
EXTENDS Integers, FiniteSets, FiniteSetTheorems, TLAPS

(* Every nonempty set of natural numbers has a least element.              *)
LEMMA LeastNat ==
  ASSUME NEW T \in SUBSET Nat, T # {}
  PROVE  \E n \in T : \A m \in T : n <= m
<1> DEFINE U == {S \in FiniteSubsetsOf(Nat) : \E n \in T : S = 0..n}
           R == StrictSubsetOrdering(Nat)
<1>1. IsWellFoundedOn(R, FiniteSubsetsOf(Nat))
  BY FS_StrictSubsetOrderingWellFounded
<1>2. \A n \in T : 0..n \in U
  <2>1. TAKE n \in T
  <2>2. n \in Nat /\ 0 \in Int /\ n \in Int
    OBVIOUS
  <2>3. IsFiniteSet(0..n)
    BY <2>2, FS_Interval
  <2>4. QED
    BY <2>2, <2>3 DEF FiniteSubsetsOf
<1>3. U \subseteq FiniteSubsetsOf(Nat) /\ U # {}
  BY <1>2
<1> HIDE DEF R
<1>4. PICK x \in U : \A y \in U : ~(<<y, x>> \in R)
  <2> HIDE DEF U
  <2> QED
    BY <1>1, <1>3, WFMin
<1>5. PICK n \in T : x = 0..n
  BY <1>4
<1>6. ASSUME NEW m \in T, ~(n <= m)
      PROVE  FALSE
  <2>1. 0..m \in U
    BY <1>2
  <2>2. n \in Nat /\ m \in Nat /\ m < n
    BY <1>6
  <2>3. 0..m \subseteq 0..n /\ 0..m # 0..n
    BY <2>2
  <2>4. <<0..m, x>> \in R
    BY <1>5, <2>2, <2>3 DEF R, StrictSubsetOrdering
  <2>5. QED
    BY <1>4, <2>1, <2>4
<1>7. QED
  BY <1>6

(* A set that has 0, and i + 1 for every i < n it has, contains 0..n.      *)
LEMMA UpTo ==
  ASSUME NEW n \in Nat, NEW S, 0 \in S, \A i \in 0..(n - 1) : i \in S => i + 1 \in S
  PROVE  \A i \in 0..n : i \in S
<1> DEFINE T == (0..n) \ S
<1>1. SUFFICES ASSUME T # {} PROVE FALSE
  OBVIOUS
<1>2. PICK m \in T : \A k \in T : m <= k
  <2>1. T \in SUBSET Nat
    OBVIOUS
  <2> HIDE DEF T
  <2>2. QED
    BY <1>1, <2>1, LeastNat
<1>3. m \in 0..n /\ m \notin S /\ m # 0
  BY <1>2
<1>4. m - 1 \in 0..(n - 1) /\ (m - 1) + 1 = m
  BY <1>3
<1>5. m - 1 \in S
  <2>1. m - 1 \in 0..n /\ ~(m <= m - 1)
    BY <1>3, <1>4
  <2>2. QED
    BY <1>2, <2>1
<1>6. QED
  BY <1>3, <1>4, <1>5

(* The functions on 0..n that begin with a and go on with g, whose i-th    *)
(* step may depend on i.                                                   *)
Courses(n, T, a, g) ==
    {s \in [0..n -> T] : \A i \in 0..n : s[i] = IF i = 0 THEN a ELSE g[i][s[i - 1]]}

(* There is one.                                                           *)
LEMMA Iterated ==
  ASSUME NEW n \in Nat, NEW T, NEW a \in T, NEW g \in [1..n -> [T -> T]]
  PROVE  Courses(n, T, a, g) # {}
<1> DEFINE Is(s, k) == \A i \in 0..k : s[i] = IF i = 0 THEN a ELSE g[i][s[i - 1]]
           S == {k \in 0..n : \E s \in [0..n -> T] : Is(s, k)}
<1>1. 0 \in S
  <2> DEFINE r == [i \in 0..n |-> a]
  <2>1. r \in [0..n -> T] /\ 0 \in 0..n /\ Is(r, 0)
    OBVIOUS
  <2> HIDE DEF r, Is
  <2>2. QED
    BY <2>1
<1>2. ASSUME NEW k \in 0..(n - 1), k \in S
      PROVE  k + 1 \in S
  <2>1. PICK s \in [0..n -> T] : Is(s, k)
    BY <1>2
  <2>2. k \in 0..n /\ k + 1 \in 1..n /\ s[k] \in T /\ k + 1 \in 0..n
    OBVIOUS
  <2>3. g[k + 1][s[k]] \in T
    <3>1. k + 1 \in 1..n
      BY <2>2
    <3>2. QED
      BY <2>2, <3>1
  <2> DEFINE r == [i \in 0..n |-> IF i = k + 1 THEN g[k + 1][s[k]] ELSE s[i]]
  <2>4. r \in [0..n -> T]
    BY <2>3
  <2>5. ASSUME NEW i \in 0..(k + 1)
        PROVE  r[i] = IF i = 0 THEN a ELSE g[i][r[i - 1]]
    <3>1. CASE i = k + 1
      <4>1. i # 0 /\ i - 1 = k /\ r[i] = g[k + 1][s[k]]
        BY <2>2, <3>1
      <4>2. r[k] = s[k]
        BY <2>2
      <4>3. QED
        BY <3>1, <4>1, <4>2
    <3>2. CASE i # k + 1
      <4>1. i \in 0..k /\ i \in 0..n /\ r[i] = s[i]
        BY <2>2, <3>2
      <4>2. i # 0 => i - 1 \in 0..n /\ r[i - 1] = s[i - 1]
        BY <2>2, <4>1
      <4>3. s[i] = IF i = 0 THEN a ELSE g[i][s[i - 1]]
        BY <2>1, <4>1
      <4>4. QED
        BY <4>1, <4>2, <4>3
    <3>3. QED
      BY <3>1, <3>2
  <2>6. Is(r, k + 1)
    BY <2>5
  <2> HIDE DEF r, Is
  <2>7. QED
    BY <2>2, <2>4, <2>6
<1>3. n \in S
  <2>1. n \in 0..n
    OBVIOUS
  <2> HIDE DEF S
  <2>2. \A i \in 0..n : i \in S
    BY <1>1, <1>2, UpTo
  <2>3. QED
    BY <2>1, <2>2
<1>4. PICK s \in [0..n -> T] : Is(s, n)
  BY <1>3
<1>5. QED
  BY <1>4 DEF Courses

(* The same when every step is g.                                          *)
Orbits(n, T, a, g) ==
    {s \in [0..n -> T] : \A i \in 0..n : s[i] = IF i = 0 THEN a ELSE g[s[i - 1]]}

(* There is one, too.                                                      *)
LEMMA Orbit ==
  ASSUME NEW n \in Nat, NEW T, NEW a \in T, NEW g \in [T -> T]
  PROVE  Orbits(n, T, a, g) # {}
<1> DEFINE h == [i \in 1..n |-> g]
<1>1. h \in [1..n -> [T -> T]]
  OBVIOUS
<1>2. Courses(n, T, a, h) # {}
  <2> HIDE DEF h
  <2> QED
    BY <1>1, Iterated
<1>3. PICK s \in [0..n -> T] :
        \A i \in 0..n : s[i] = IF i = 0 THEN a ELSE h[i][s[i - 1]]
  BY <1>2 DEF Courses
<1>4. \A i \in 0..n : s[i] = IF i = 0 THEN a ELSE g[s[i - 1]]
  <2>1. TAKE i \in 0..n
  <2>2. i # 0 => i \in 1..n /\ i - 1 \in 0..n
    OBVIOUS
  <2>3. i # 0 => h[i][s[i - 1]] = g[s[i - 1]]
    BY <2>2
  <2> HIDE DEF h
  <2>4. QED
    BY <1>3, <2>3
<1>5. QED
  BY <1>4 DEF Orbits

(* One element of every set of a family that is without duplicates: as     *)
(* many as there are.                                                      *)
LEMMA BoundedIndex ==
  ASSUME NEW n \in Nat, NEW S, IsFiniteSet(S), NEW f \in [0..n -> S],
         \A i, j \in 0..n : f[i] = f[j] => i = j
  PROVE  n < Cardinality(S)
<1>1. f \in Injection(0..n, S)
  BY DEF Injection, IsInjective
<1>2. Cardinality(0..n) <= Cardinality(S)
  BY <1>1, FS_Injection
<1>3. Cardinality(0..n) = n + 1
  <2>1. 0 \in Int /\ n \in Int /\ ~(0 > n)
    OBVIOUS
  <2>2. QED
    BY <2>1, FS_Interval
<1>4. Cardinality(S) \in Nat
  BY FS_CardinalityType
<1>5. QED
  BY <1>2, <1>3, <1>4

(* Every nonempty finite set of natural numbers has a greatest element.    *)
LEMMA GreatestNat ==
  ASSUME NEW T \in SUBSET Nat, T # {}, NEW b \in Nat, \A m \in T : m <= b
  PROVE  \E n \in T : \A m \in T : m <= n
<1> DEFINE U == {k \in Nat : \A m \in T : m <= k}
<1>1. U \in SUBSET Nat /\ b \in U
  OBVIOUS
<1>2. PICK n \in U : \A k \in U : n <= k
  <2> HIDE DEF U
  <2> QED
    BY <1>1, LeastNat
<1>3. n \in T
  <2>1. SUFFICES ASSUME n \notin T PROVE FALSE
    OBVIOUS
  <2>2. n \in Nat /\ \A m \in T : m \in Nat /\ m <= n /\ m # n
    BY <1>2, <2>1
  <2>3. n > 0
    <3>1. PICK m \in T : TRUE
      OBVIOUS
    <3>2. QED
      BY <2>2, <3>1
  <2>4. n - 1 \in U
    BY <2>2, <2>3
  <2>5. n <= n - 1
    BY <1>2, <2>4
  <2>6. QED
    BY <2>2, <2>5
<1>4. QED
  BY <1>2, <1>3

(* Division, for a block of n sectors.                                     *)
LEMMA DivMod ==
  ASSUME NEW a \in Nat, NEW n \in Nat \ {0}
  PROVE  /\ a \div n \in Nat
         /\ a % n \in 0..(n - 1)
         /\ a = n * (a \div n) + (a % n)
OBVIOUS

(* Sector r of location q is in location q.                                *)
LEMMA DivUnique ==
  ASSUME NEW q \in Nat, NEW n \in Nat \ {0}, NEW r \in 0..(n - 1)
  PROVE  (n * q + r) \div n = q
OBVIOUS

(* A later sector is not in an earlier location.                           *)
LEMMA DivMono ==
  ASSUME NEW a \in Nat, NEW b \in Nat, a <= b, NEW n \in Nat \ {0}
  PROVE  a \div n <= b \div n
OBVIOUS
=============================================================================

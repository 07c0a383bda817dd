-------------------------- MODULE DiskCacheProofs --------------------------
(***************************************************************************)
(* Proofs about DiskCache: the removal queue, the circles of snext, the    *)
(* lookup, and that a copy is what the disk holds for as long as none of   *)
(* the three causes has occurred.                                          *)
(*                                                                         *)
(* The circles are the heart of it.  A circle is the set of blocks the     *)
(* walk along snext meets; the walk is long enough to come back to one of  *)
(* them, so the set is closed under snext, and it is the least one that    *)
(* is (CircleClosed, CircleLeast).  As snext is injective on the blocks    *)
(* that have a successor, circles are disjoint (CircleSym) and lead back   *)
(* to where they start (CirclePred).  With these four facts no proof below *)
(* follows a walk again.                                                   *)
(***************************************************************************)
EXTENDS DiskCache, NatLemmas, SequenceTheorems, TLAPS

(* The blocks are finitely many, fewer than a walk has steps.              *)
LEMMA BlockFacts ==
  /\ NBlocks \in Nat /\ NBlocks >= 4
  /\ Blocks \subseteq Nat \ {0} /\ Blocks # {}
  /\ IsFiniteSet(Blocks) /\ Cardinality(Blocks) = NBlocks - 1
  /\ NoLoc \notin Nat
<1>1. NBlocks \in Nat /\ NBlocks >= 4
  BY CacheConstants
<1>2. Blocks \subseteq Nat \ {0} /\ 1 \in Blocks
  BY <1>1 DEF Blocks
<1>3. IsFiniteSet(Blocks) /\ Cardinality(Blocks) = NBlocks - 1
  <2>1. 1 \in Int /\ NBlocks - 1 \in Int /\ ~(1 > NBlocks - 1)
    BY <1>1
  <2>2. IsFiniteSet(1..(NBlocks - 1)) /\
        Cardinality(1..(NBlocks - 1)) = IF 1 > NBlocks - 1 THEN 0 ELSE NBlocks - 1 - 1 + 1
    BY <2>1, FS_Interval
  <2>3. QED
    BY <1>1, <2>1, <2>2 DEF Blocks
<1>4. QED
  BY <1>1, <1>2, <1>3 DEF NoLoc

(* Pointers to blocks, 0 for none.                                         *)
Ptrs == [Blocks -> Blocks \cup {0}]

(* The walk is a function.                                                 *)
LEMMA WalkIs ==
  ASSUME NEW f \in Ptrs, NEW b \in Blocks
  PROVE  LET w == Walk(f, b)
         IN  /\ w \in [0..NBlocks -> Blocks \cup {0}]
             /\ w[0] = b
             /\ \A i \in 0..(NBlocks - 1) :
                  w[i + 1] = IF w[i] = 0 THEN 0 ELSE f[w[i]]
<1> DEFINE T == Blocks \cup {0}
           N == NBlocks
           g == [x \in T |-> IF x = 0 THEN 0 ELSE f[x]]
           Eq(s) == s = [i \in 0..N |-> IF i = 0 THEN b
                                        ELSE IF s[i - 1] = 0 THEN 0 ELSE f[s[i - 1]]]
<1>1. N \in Nat /\ f \in [Blocks -> T]
  BY BlockFacts DEF Ptrs
<1>2. g \in [T -> T]
  BY <1>1
<1>3. Orbits(N, T, b, g) # {}
  <2> HIDE DEF g, T, N
  <2>1. b \in T
    BY DEF T
  <2>2. QED
    BY <1>1, <1>2, <2>1, Orbit
<1>4. \E s : Eq(s)
  <2>1. PICK s \in [0..N -> T] :
          \A i \in 0..N : s[i] = IF i = 0 THEN b ELSE g[s[i - 1]]
    BY <1>3 DEF Orbits
  <2>2. ASSUME NEW i \in 0..N, i # 0
        PROVE  g[s[i - 1]] = IF s[i - 1] = 0 THEN 0 ELSE f[s[i - 1]]
    <3>1. i \in 1..N /\ i - 1 \in 0..N
      BY <1>1, <2>2
    <3>2. QED
      BY <3>1
  <2> HIDE DEF g
  <2>3. Eq(s)
    BY <2>1, <2>2
  <2>4. QED
    BY <2>3
<1> DEFINE w == Walk(f, b)
<1>5. Eq(w)
  <2>1. w = CHOOSE s : Eq(s)
    BY DEF Walk
  <2> HIDE DEF w, Eq
  <2>2. QED
    BY <1>4, <2>1
<1> HIDE DEF w
<1>6. w[0] = b
  BY <1>1, <1>5
<1>7. \A i \in 0..(N - 1) : w[i + 1] = IF w[i] = 0 THEN 0 ELSE f[w[i]]
  <2>1. TAKE i \in 0..(N - 1)
  <2>2. i + 1 \in 0..N /\ i + 1 # 0 /\ (i + 1) - 1 = i
    BY <1>1
  <2>3. QED
    BY <1>5, <2>2
<1>8. w \in [0..N -> T]
  <2> DEFINE S == {i \in 0..N : w[i] \in T}
  <2>1. 0 \in S
    BY <1>1, <1>6
  <2>2. \A i \in 0..(N - 1) : i \in S => i + 1 \in S
    BY <1>1, <1>7
  <2>3. \A i \in 0..N : i \in S
    <3> HIDE DEF S
    <3> QED
      BY <1>1, <2>1, <2>2, UpTo
  <2>4. QED
    BY <1>5, <2>3
<1>9. QED
  BY <1>6, <1>7, <1>8 DEF w

(* A walk comes back to a block it has met, or to its end.                 *)
LEMMA WalkRepeats ==
  ASSUME NEW f \in Ptrs, NEW b \in Blocks
  PROVE  \E i, j \in 0..NBlocks : i < j /\ Walk(f, b)[i] = Walk(f, b)[j]
<1> DEFINE w == Walk(f, b)
           T == Blocks \cup {0}
<1>1. NBlocks \in Nat /\ w \in [0..NBlocks -> T]
  BY BlockFacts, WalkIs
<1>2. IsFiniteSet(T) /\ Cardinality(T) = NBlocks
  <2>1. IsFiniteSet(T) /\ Cardinality(T) =
          IF 0 \in Blocks THEN Cardinality(Blocks) ELSE Cardinality(Blocks) + 1
    BY BlockFacts, FS_AddElement
  <2>2. QED
    BY BlockFacts, <2>1
<1> HIDE DEF w, T
<1>3. ~(\A i, j \in 0..NBlocks : w[i] = w[j] => i = j)
  <2>1. ~(NBlocks < NBlocks)
    BY <1>1
  <2>2. QED
    BY <1>1, <1>2, <2>1, BoundedIndex
<1>4. PICK i \in 0..NBlocks, j \in 0..NBlocks : w[i] = w[j] /\ i # j
  BY <1>3
<1>5. i < j \/ j < i
  BY <1>1, <1>4
<1>6. QED
  BY <1>4, <1>5 DEF w

(* Every block of a circle is met before the last step of the walk.        *)
LEMMA CircleMet ==
  ASSUME NEW f \in Ptrs, NEW b \in Blocks, NEW x \in Circle(f, b)
  PROVE  \E l \in 0..(NBlocks - 1) : x = Walk(f, b)[l]
<1> DEFINE w == Walk(f, b)
           N == NBlocks
<1>1. /\ N \in Nat /\ w \in [0..N -> Blocks \cup {0}] /\ w[0] = b
      /\ \A i \in 0..(N - 1) : w[i + 1] = IF w[i] = 0 THEN 0 ELSE f[w[i]]
  BY BlockFacts, WalkIs
<1>2. Circle(f, b) = {w[i] : i \in 0..N} \ {0}
  BY DEF Circle
<1>3. PICK i \in 0..N, j \in 0..N : i < j /\ w[i] = w[j]
  BY WalkRepeats
<1> HIDE DEF w
<1>4. \E k \in 0..(N - 1) : w[k] = w[N]
  <2> DEFINE S == {k \in 0..(N - j) : w[i + k] = w[j + k]}
  <2>1. 0 \in S
    BY <1>1, <1>3
  <2>2. ASSUME NEW k \in 0..((N - j) - 1), k \in S
        PROVE  k + 1 \in S
    <3>1. i + k \in 0..(N - 1) /\ j + k \in 0..(N - 1) /\ k + 1 \in 0..(N - j)
      BY <1>1, <1>3
    <3>2. w[(i + k) + 1] = w[(j + k) + 1]
      BY <1>1, <2>2, <3>1
    <3>3. (i + k) + 1 = i + (k + 1) /\ (j + k) + 1 = j + (k + 1)
      BY <1>1, <3>1
    <3>4. QED
      BY <3>1, <3>2, <3>3
  <2>3. N - j \in S
    <3>1. N - j \in Nat /\ N - j \in 0..(N - j)
      BY <1>1
    <3> HIDE DEF S
    <3>2. \A k \in 0..(N - j) : k \in S
      BY <2>1, <2>2, <3>1, UpTo
    <3>3. QED
      BY <3>1, <3>2
  <2>4. i + (N - j) \in 0..(N - 1) /\ j + (N - j) = N
    BY <1>1, <1>3
  <2>5. QED
    BY <2>3, <2>4
<1>5. PICK k \in 0..N : x = w[k]
  BY <1>2
<1>6. k \in 0..(N - 1) \/ k = N
  BY <1>1
<1>7. QED
  BY <1>4, <1>5, <1>6 DEF w

(* A circle holds its block, and the successor of every block in it.       *)
LEMMA CircleClosed ==
  ASSUME NEW f \in Ptrs, NEW b \in Blocks
  PROVE  /\ b \in Circle(f, b) /\ Circle(f, b) \subseteq Blocks
         /\ \A x \in Circle(f, b) : f[x] # 0 => f[x] \in Circle(f, b)
<1> DEFINE w == Walk(f, b)
           N == NBlocks
<1>1. /\ N \in Nat /\ w \in [0..N -> Blocks \cup {0}] /\ w[0] = b
      /\ \A i \in 0..(N - 1) : w[i + 1] = IF w[i] = 0 THEN 0 ELSE f[w[i]]
  BY BlockFacts, WalkIs
<1>2. Circle(f, b) = {w[i] : i \in 0..N} \ {0}
  BY DEF Circle
<1>3. \A x \in Circle(f, b) : \E l \in 0..(N - 1) : x = w[l]
  BY CircleMet
<1> HIDE DEF w
<1>4. b \in Circle(f, b) /\ Circle(f, b) \subseteq Blocks
  <2>1. 0 \in 0..N /\ b # 0
    BY <1>1, BlockFacts
  <2>2. QED
    BY <1>1, <1>2, <2>1
<1>5. ASSUME NEW x \in Circle(f, b), f[x] # 0
      PROVE  f[x] \in Circle(f, b)
  <2>1. PICK l \in 0..(N - 1) : x = w[l]
    BY <1>3
  <2>2. l + 1 \in 0..N /\ x # 0
    BY <1>1, <1>2
  <2>3. w[l + 1] = f[x]
    BY <1>1, <2>1, <2>2
  <2>4. QED
    BY <1>2, <1>5, <2>2, <2>3
<1>6. QED
  BY <1>4, <1>5

(* It is the least set that does.                                          *)
LEMMA CircleLeast ==
  ASSUME NEW f \in Ptrs, NEW b \in Blocks, NEW X, b \in X,
         \A x \in X \cap Blocks : f[x] # 0 => f[x] \in X
  PROVE  Circle(f, b) \subseteq X
<1> DEFINE w == Walk(f, b)
           N == NBlocks
           S == {i \in 0..N : w[i] # 0 => w[i] \in X}
<1>1. /\ N \in Nat /\ w \in [0..N -> Blocks \cup {0}] /\ w[0] = b
      /\ \A i \in 0..(N - 1) : w[i + 1] = IF w[i] = 0 THEN 0 ELSE f[w[i]]
  BY BlockFacts, WalkIs
<1>2. Circle(f, b) = {w[i] : i \in 0..N} \ {0}
  BY DEF Circle
<1> HIDE DEF w
<1>3. 0 \in S
  BY <1>1
<1>4. ASSUME NEW i \in 0..(N - 1), i \in S
      PROVE  i + 1 \in S
  <2>1. i \in 0..N /\ i + 1 \in 0..N /\ w[i] \in Blocks \cup {0}
    BY <1>1
  <2>2. QED
    BY <1>1, <1>4, <2>1
<1>5. \A i \in 0..N : i \in S
  <2> HIDE DEF S
  <2> QED
    BY <1>1, <1>3, <1>4, UpTo
<1>6. QED
  BY <1>2, <1>5

(* Pointers that form circles: a successor has a successor, and no two     *)
(* blocks have the same one.                                               *)
Loops(f) ==
    /\ f \in Ptrs
    /\ \A x \in Blocks : f[x] # 0 => f[f[x]] # 0
    /\ \A x, y \in Blocks : f[x] # 0 /\ f[x] = f[y] => x = y

(* A block without a successor is alone.                                   *)
LEMMA CircleSingle ==
  ASSUME NEW f \in Ptrs, NEW b \in Blocks, f[b] = 0
  PROVE  Circle(f, b) = {b}
<1>1. Circle(f, b) \subseteq {b}
  <2>1. \A x \in {b} \cap Blocks : f[x] # 0 => f[x] \in {b}
    OBVIOUS
  <2>2. QED
    BY <2>1, CircleLeast
<1>2. QED
  BY <1>1, CircleClosed

(* Nobody in the circle of a block that has a successor is without one.    *)
LEMMA CircleLinked ==
  ASSUME NEW f, Loops(f), NEW b \in Blocks, f[b] # 0
  PROVE  \A x \in Circle(f, b) : x \in Blocks /\ f[x] # 0
<1> DEFINE X == {x \in Blocks : f[x] # 0}
<1>1. f \in Ptrs /\ b \in X
  BY DEF Loops
<1>2. \A x \in X \cap Blocks : f[x] # 0 => f[x] \in X
  BY DEF Loops, Ptrs
<1>3. Circle(f, b) \subseteq X
  <2> HIDE DEF X
  <2> QED
    BY <1>1, <1>2, CircleLeast
<1>4. QED
  BY <1>3

(* Every block of a circle has a predecessor in it.                        *)
LEMMA CirclePred ==
  ASSUME NEW f, Loops(f), NEW b \in Blocks, f[b] # 0, NEW c \in Circle(f, b)
  PROVE  \E x \in Circle(f, b) : f[x] = c
<1> DEFINE C == Circle(f, b)
<1>1. f \in Ptrs /\ C \subseteq Blocks /\ \A x \in C : f[x] # 0 /\ f[x] \in C
  BY CircleLinked, CircleClosed DEF Loops
<1>2. IsFiniteSet(C) /\ Cardinality(C) \in Nat
  BY <1>1, BlockFacts, FS_Subset, FS_CardinalityType
<1>3. SUFFICES ASSUME \A x \in C : f[x] # c
               PROVE  FALSE
  OBVIOUS
<1> DEFINE h == [x \in C |-> f[x]]
<1> HIDE DEF C
<1>4. h \in [C -> C \ {c}]
  BY <1>1, <1>3
<1>5. IsFiniteSet(C \ {c}) /\ Cardinality(C \ {c}) < Cardinality(C)
  <2>1. c \in C
    BY DEF C
  <2>2. /\ IsFiniteSet(C \ {c})
        /\ Cardinality(C \ {c}) = IF c \in C THEN Cardinality(C) - 1 ELSE Cardinality(C)
    BY <1>2, FS_RemoveElement
  <2>3. QED
    BY <1>2, <2>1, <2>2
<1> HIDE DEF h
<1>6. PICK x \in C, y \in C : x # y /\ h[x] = h[y]
  BY <1>2, <1>4, <1>5, FS_PigeonHole
<1>7. f[x] = f[y] /\ f[x] # 0
  BY <1>1, <1>6 DEF h
<1>8. QED
  BY <1>1, <1>6, <1>7 DEF Loops

(* Each block of a circle has the same circle.                             *)
LEMMA CircleSym ==
  ASSUME NEW f, Loops(f), NEW b \in Blocks, NEW y \in Circle(f, b)
  PROVE  y \in Blocks /\ Circle(f, y) = Circle(f, b)
<1>1. f \in Ptrs
  BY DEF Loops
<1>2. CASE f[b] = 0
  BY <1>1, <1>2, CircleSingle
<1>3. CASE f[b] # 0
  <2> DEFINE C == Circle(f, b)
             D == Circle(f, y)
  <2>1. y \in Blocks /\ C \subseteq Blocks /\ b \in C /\ \A x \in C : f[x] # 0 /\ f[x] \in C
    BY <1>1, <1>3, CircleLinked, CircleClosed
  <2>2. D \subseteq C
    BY <1>1, <2>1, CircleLeast
  <2>3. y \in D /\ \A x \in D : f[x] # 0 => f[x] \in D
    BY <1>1, <2>1, CircleClosed
  <2>4. ASSUME b \notin D
        PROVE  FALSE
    <3> DEFINE X == C \ D
    <3>1. b \in X
      BY <2>1, <2>4
    <3>2. ASSUME NEW x \in X
          PROVE  f[x] \in X
      <4>1. SUFFICES ASSUME f[x] \in D PROVE FALSE
        BY <2>1
      <4>2. f[y] # 0
        BY <2>1
      <4>3. PICK d \in D : f[d] = f[x]
        BY <2>1, <4>1, <4>2, CirclePred
      <4>4. d \in Blocks /\ x \in Blocks /\ f[x] # 0 /\ x # d
        BY <2>1, <2>2
      <4>5. QED
        BY <4>3, <4>4 DEF Loops
    <3>3. C \subseteq X
      <4> HIDE DEF X
      <4> QED
        BY <1>1, <3>1, <3>2, CircleLeast
    <3>4. QED
      BY <2>3, <3>3
  <2>5. C \subseteq D
    <3>1. b \in D
      BY <2>4
    <3> HIDE DEF D
    <3>2. QED
      BY <1>1, <2>3, <3>1, CircleLeast
  <2>6. QED
    BY <2>1, <2>2, <2>5
<1>4. QED
  BY <1>2, <1>3

------------------------------------------------------------------------------
(***************************************************************************)
(* free_bi_entry(): what remains of a circle                               *)
(***************************************************************************)
(* n is the first step of the walk from b that meets no block of set       *)
Hop(f, b, set, n) ==
    /\ n \in 1..NBlocks
    /\ Walk(f, b)[n] \notin set
    /\ \A j \in 1..(n - 1) : Walk(f, b)[j] \in set

(* The walk from a block with a successor stays on the circle and comes    *)
(* back to the block.                                                      *)
LEMMA WalkOn ==
  ASSUME NEW f, Loops(f), NEW b \in Blocks, f[b] # 0
  PROVE  LET w == Walk(f, b)
         IN  /\ w[0] = b
             /\ \A i \in 0..NBlocks : w[i] \in Circle(f, b) /\ w[i] \in Blocks /\ f[w[i]] # 0
             /\ \A i \in 0..(NBlocks - 1) : w[i + 1] = f[w[i]]
             /\ \E j \in 1..NBlocks : w[j] = b
<1> DEFINE w == Walk(f, b)
           N == NBlocks
           C == Circle(f, b)
<1>1. f \in Ptrs
  BY DEF Loops
<1>2. /\ N \in Nat /\ N >= 4 /\ w \in [0..N -> Blocks \cup {0}] /\ w[0] = b
      /\ \A i \in 0..(N - 1) : w[i + 1] = IF w[i] = 0 THEN 0 ELSE f[w[i]]
  BY <1>1, BlockFacts, WalkIs
<1>3. /\ b \in C /\ 0 \notin Blocks
      /\ \A x \in C : x \in Blocks /\ f[x] # 0 /\ f[x] \in C
  BY <1>1, BlockFacts, CircleClosed, CircleLinked
<1>4. \E x \in C : f[x] = b
  BY <1>3, CirclePred
<1>5. \A x \in C : \E l \in 0..(N - 1) : x = w[l]
  BY <1>1, CircleMet
<1> HIDE DEF w, C
<1>6. \A i \in 0..N : w[i] \in C
  <2> DEFINE S == {i \in 0..N : w[i] \in C}
  <2>1. 0 \in S
    BY <1>2, <1>3
  <2>2. \A i \in 0..(N - 1) : i \in S => i + 1 \in S
    BY <1>2, <1>3
  <2> HIDE DEF S
  <2>3. \A i \in 0..N : i \in S
    BY <1>2, <2>1, <2>2, UpTo
  <2>4. QED
    BY <2>3 DEF S
<1>7. \A i \in 0..(N - 1) : w[i + 1] = f[w[i]]
  BY <1>2, <1>3, <1>6
<1>8. \E j \in 1..N : w[j] = b
  <2>1. PICK x \in C : f[x] = b
    BY <1>4
  <2>2. PICK l \in 0..(N - 1) : x = w[l]
    BY <1>5
  <2>3. l + 1 \in 1..N /\ w[l + 1] = b
    BY <1>2, <1>7, <2>1, <2>2
  <2>4. QED
    BY <2>3
<1>9. QED
  BY <1>2, <1>3, <1>6, <1>7, <1>8 DEF w, C

(* There is one first step, and NextKept() leads to its block.             *)
LEMMA HopIs ==
  ASSUME Loops(snext), NEW set, NEW b \in Blocks \ set, snext[b] # 0
  PROVE  \E n \in 1..NBlocks :
           /\ Hop(snext, b, set, n)
           /\ NextKept(b, set) = IF Walk(snext, b)[n] = b THEN 0 ELSE Walk(snext, b)[n]
<1> DEFINE w == Walk(snext, b)
           kept == {i \in 1..NBlocks : w[i] \notin set}
           n == CHOOSE i \in kept : \A j \in kept : i <= j
<1>1. NBlocks \in Nat
  BY BlockFacts
<1>2. kept \in SUBSET Nat /\ kept # {}
  <2>1. \E j \in 1..NBlocks : w[j] = b
    BY WalkOn
  <2> HIDE DEF w
  <2>2. QED
    BY <1>1, <2>1
<1>3. n \in kept /\ \A j \in kept : n <= j
  <2> HIDE DEF kept
  <2>1. \E i \in kept : \A j \in kept : i <= j
    BY <1>2, LeastNat
  <2>2. QED
    BY <2>1
<1>4. NextKept(b, set) = IF w[n] = b THEN 0 ELSE w[n]
  BY DEF NextKept
<1> HIDE DEF n, w
<1>5. Hop(snext, b, set, n)
  <2>1. n \in 1..NBlocks /\ w[n] \notin set
    BY <1>3
  <2>2. ASSUME NEW j \in 1..(n - 1)
        PROVE  w[j] \in set
    <3>1. j \in 1..NBlocks /\ ~(n <= j)
      BY <1>1, <2>1
    <3>2. QED
      BY <1>3, <3>1
  <2>3. QED
    BY <2>1, <2>2 DEF Hop, w
<1>6. n \in 1..NBlocks
  BY <1>3
<1>7. QED
  BY <1>4, <1>5, <1>6 DEF w

(* No two blocks that stay get the same successor.                         *)
LEMMA HopInjective ==
  ASSUME NEW f, Loops(f), NEW set,
         NEW b \in Blocks \ set, f[b] # 0, NEW n, Hop(f, b, set, n),
         NEW c \in Blocks \ set, f[c] # 0, NEW m, Hop(f, c, set, m),
         n <= m, Walk(f, b)[n] = Walk(f, c)[m]
  PROVE  b = c /\ n = m
<1> DEFINE v == Walk(f, b)
           w == Walk(f, c)
           N == NBlocks
<1>1. /\ N \in Nat /\ v[0] = b /\ w[0] = c
      /\ \A i \in 0..N : v[i] \in Blocks /\ f[v[i]] # 0
      /\ \A i \in 0..N : w[i] \in Blocks /\ f[w[i]] # 0
      /\ \A i \in 0..(N - 1) : v[i + 1] = f[v[i]]
      /\ \A i \in 0..(N - 1) : w[i + 1] = f[w[i]]
  BY BlockFacts, WalkOn
<1>2. /\ n \in 1..N /\ m \in 1..N /\ n <= m /\ v[n] = w[m]
      /\ \A j \in 1..(m - 1) : w[j] \in set
  BY DEF Hop
<1> HIDE DEF v, w
<1> DEFINE S == {k \in 0..n : v[n - k] = w[m - k]}
<1>3. 0 \in S
  BY <1>1, <1>2
<1>4. ASSUME NEW k \in 0..(n - 1), k \in S
      PROVE  k + 1 \in S
  <2> DEFINE i == n - (k + 1)
             j == m - (k + 1)
  <2>1. i \in 0..(N - 1) /\ j \in 0..(N - 1) /\ i + 1 = n - k /\ j + 1 = m - k /\ k + 1 \in 0..n
    BY <1>1, <1>2
  <2>2. i \in 0..N /\ j \in 0..N
    BY <1>1, <2>1
  <2>3. v[n - k] = w[m - k]
    BY <1>4
  <2> HIDE DEF i, j
  <2>4. f[v[i]] = f[w[j]] /\ f[v[i]] # 0
    BY <1>1, <2>1, <2>2, <2>3
  <2>5. v[i] = w[j]
    BY <1>1, <2>2, <2>4 DEF Loops
  <2>6. QED
    BY <2>1, <2>5 DEF i, j
<1>5. n \in S
  <2>1. n \in Nat /\ n \in 0..n
    BY <1>2
  <2> HIDE DEF S
  <2>2. \A k \in 0..n : k \in S
    BY <1>3, <1>4, <2>1, UpTo
  <2>3. QED
    BY <2>1, <2>2
<1>6. b = w[m - n]
  <2>1. n - n = 0
    BY <1>2
  <2>2. QED
    BY <1>1, <1>5, <2>1
<1>7. m = n
  <2>1. SUFFICES ASSUME m # n PROVE FALSE
    OBVIOUS
  <2>2. m - n \in 1..(m - 1)
    BY <1>1, <1>2, <2>1
  <2>3. QED
    BY <1>2, <1>6, <2>2
<1>8. QED
  <2>1. m - n = 0
    BY <1>2, <1>7
  <2>2. QED
    BY <1>1, <1>6, <1>7, <2>1

(* What a block points to afterwards.                                      *)
LEMMA UnlinkedAt ==
  ASSUME Loops(snext), NEW set, NEW b \in Blocks
  PROVE  /\ b \in set \/ snext[b] = 0 => Unlinked(set)[b] = 0
         /\ b \notin set /\ snext[b] # 0 =>
              \E n \in 1..NBlocks :
                /\ Hop(snext, b, set, n)
                /\ \/ Unlinked(set)[b] = Walk(snext, b)[n]
                   \/ Unlinked(set)[b] = 0 /\ Walk(snext, b)[n] = b
<1>1. snext \in Ptrs
  BY DEF Loops
<1>2. Unlinked(set)[b] = IF b \in set THEN 0
                         ELSE IF Circle(snext, b) \cap set = {} THEN snext[b]
                         ELSE NextKept(b, set)
  BY DEF Unlinked
<1>3. CASE b \in set
  BY <1>2, <1>3
<1>4. CASE b \notin set /\ snext[b] = 0
  <2>1. Circle(snext, b) \cap set = {}
    BY <1>1, <1>4, CircleSingle
  <2>2. QED
    BY <1>2, <1>4, <2>1
<1>5. CASE b \notin set /\ snext[b] # 0 /\ Circle(snext, b) \cap set = {}
  <2>1. 1 \in 1..NBlocks /\ 0 \in 0..(NBlocks - 1) /\ 0 + 1 = 1
    BY BlockFacts
  <2>2. Walk(snext, b)[1] = snext[b]
    BY <1>5, <2>1, WalkOn
  <2>3. snext[b] \notin set
    BY <1>1, <1>5, CircleClosed
  <2>4. Hop(snext, b, set, 1)
    BY <2>1, <2>2, <2>3 DEF Hop
  <2>5. QED
    BY <1>2, <1>5, <2>1, <2>2, <2>4
<1>6. CASE b \notin set /\ snext[b] # 0 /\ Circle(snext, b) \cap set # {}
  <2>1. Unlinked(set)[b] = NextKept(b, set)
    BY <1>2, <1>6
  <2>2. QED
    BY <1>6, <2>1, HopIs
<1>7. QED
  BY <1>3, <1>4, <1>5, <1>6

(* The blocks that stay form circles again.                                *)
LEMMA UnlinkedLoops ==
  ASSUME Loops(snext), NEW set
  PROVE  Loops(Unlinked(set))
<1> DEFINE U == Unlinked(set)
           w(b) == Walk(snext, b)
           Stays(b) == b \notin set /\ snext[b] # 0
<1>1. \A b \in Blocks : ~Stays(b) => U[b] = 0
  BY UnlinkedAt
<1>2. \A b \in Blocks : Stays(b) =>
        \E n \in 1..NBlocks : /\ Hop(snext, b, set, n)
                              /\ U[b] = w(b)[n] \/ (U[b] = 0 /\ w(b)[n] = b)
  BY UnlinkedAt
<1>3. ASSUME NEW b \in Blocks, Stays(b), NEW n, Hop(snext, b, set, n)
      PROVE  w(b)[n] \in Blocks /\ Stays(w(b)[n])
  <2>1. n \in 0..NBlocks
    BY <1>3, BlockFacts DEF Hop
  <2>2. QED
    BY <1>3, <2>1, WalkOn DEF Hop
<1>4. ASSUME NEW b \in Blocks, Stays(b), NEW n, Hop(snext, b, set, n),
             NEW c \in Blocks, Stays(c), NEW m, Hop(snext, c, set, m),
             w(b)[n] = w(c)[m]
      PROVE  b = c
  <2>1. n \in Int /\ m \in Int
    BY <1>4, BlockFacts DEF Hop
  <2>2. n <= m \/ m <= n
    BY <2>1
  <2>3. QED
    BY <1>4, <2>2, HopInjective
<1>5. U = [b \in Blocks |-> U[b]]
  BY DEF Unlinked
<1>6. 0 \notin Blocks
  BY BlockFacts
<1> HIDE DEF U, w
<1>7. ASSUME NEW b \in Blocks
      PROVE  U[b] \in Blocks \cup {0}
  BY <1>1, <1>2, <1>3
<1>8. U \in Ptrs
  BY <1>5, <1>7 DEF Ptrs
<1>9. ASSUME NEW b \in Blocks, U[b] # 0
      PROVE  U[U[b]] # 0
  <2>1. Stays(b)
    BY <1>1, <1>9
  <2>2. PICK n \in 1..NBlocks : Hop(snext, b, set, n) /\ U[b] = w(b)[n]
    BY <1>2, <1>9, <2>1
  <2> DEFINE c == w(b)[n]
  <2>3. c \in Blocks /\ Stays(c)
    BY <1>3, <2>1, <2>2
  <2> HIDE DEF Stays
  <2>4. PICK m \in 1..NBlocks : /\ Hop(snext, c, set, m)
                                /\ U[c] = w(c)[m] \/ (U[c] = 0 /\ w(c)[m] = c)
    BY <1>2, <2>3
  <2>5. SUFFICES ASSUME U[c] = 0 PROVE FALSE
    BY <2>2
  <2>6. w(c)[m] \in Blocks
    BY <1>3, <2>3, <2>4
  <2>7. w(c)[m] = c
    BY <1>6, <2>4, <2>5, <2>6
  <2>8. b = c
    BY <1>4, <2>1, <2>2, <2>3, <2>4, <2>7
  <2>9. QED
    BY <1>9, <2>5, <2>8
<1>10. ASSUME NEW b \in Blocks, NEW c \in Blocks, U[b] # 0, U[b] = U[c]
       PROVE  b = c
  <2>1. Stays(b) /\ Stays(c)
    BY <1>1, <1>10
  <2> HIDE DEF Stays
  <2>2. PICK n \in 1..NBlocks : Hop(snext, b, set, n) /\ U[b] = w(b)[n]
    BY <1>2, <1>10, <2>1
  <2>3. PICK m \in 1..NBlocks : Hop(snext, c, set, m) /\ U[c] = w(c)[m]
    BY <1>2, <1>10, <2>1
  <2>4. QED
    BY <1>4, <1>10, <2>1, <2>2, <2>3
<1>11. QED
  BY <1>8, <1>9, <1>10 DEF Loops, U

(* The circle of a block that stays loses the blocks that go, and no       *)
(* other.                                                                  *)
LEMMA UnlinkedCircle ==
  ASSUME Loops(snext), NEW set, NEW b \in Blocks \ set
  PROVE  Circle(Unlinked(set), b) = Circle(snext, b) \ set
<1> DEFINE U == Unlinked(set)
           C == Circle(snext, b)
           D == Circle(U, b)
           w(x) == Walk(snext, x)
<1>1. snext \in Ptrs /\ U \in Ptrs /\ Loops(U)
  BY UnlinkedLoops DEF Loops
<1>2. b \in C /\ C \subseteq Blocks /\ \A x \in C : snext[x] # 0 => snext[x] \in C
  BY <1>1, CircleClosed
<1>3. b \in D /\ D \subseteq Blocks /\ \A x \in D : U[x] # 0 => U[x] \in D
  <2> HIDE DEF U
  <2> QED
    BY <1>1, CircleClosed
<1>4. \A x \in Blocks : x \in set \/ snext[x] = 0 => U[x] = 0
  BY UnlinkedAt
<1>5. \A x \in Blocks : x \notin set /\ snext[x] # 0 =>
        \E n \in 1..NBlocks : /\ Hop(snext, x, set, n)
                              /\ U[x] = w(x)[n] \/ (U[x] = 0 /\ w(x)[n] = x)
  BY UnlinkedAt
<1>6. \A x \in Blocks : snext[x] # 0 =>
        /\ w(x)[0] = x
        /\ \A i \in 0..NBlocks : w(x)[i] \in Circle(snext, x) /\ w(x)[i] \in Blocks
        /\ \A i \in 0..(NBlocks - 1) : w(x)[i + 1] = snext[w(x)[i]]
  BY WalkOn
<1>7. NBlocks \in Nat /\ NBlocks >= 4
  BY BlockFacts
<1> HIDE DEF U, w
<1>8. D \subseteq C \ set
  <2> DEFINE X == C \ set
  <2>1. b \in X
    BY <1>2
  <2>2. ASSUME NEW x \in X, U[x] # 0
        PROVE  U[x] \in X
    <3>1. x \in Blocks /\ x \notin set /\ snext[x] # 0
      BY <1>2, <1>4, <2>2
    <3>2. PICK n \in 1..NBlocks : Hop(snext, x, set, n) /\ U[x] = w(x)[n]
      BY <1>5, <2>2, <3>1
    <3>3. n \in 0..NBlocks
      OBVIOUS
    <3>4. U[x] \in Circle(snext, x) /\ U[x] \notin set
      BY <1>6, <3>1, <3>2, <3>3 DEF Hop, w
    <3>5. Circle(snext, x) = C
      BY <2>2, CircleSym
    <3>6. QED
      BY <3>4, <3>5
  <2>3. QED
    <3> HIDE DEF X
    <3>1. D \subseteq X
      BY <1>1, <2>1, <2>2, CircleLeast
    <3>2. QED
      BY <3>1 DEF X
<1> DEFINE On(z, x, n, i) == /\ Hop(snext, x, set, n) /\ snext[x] # 0
                             /\ i \in 0..n /\ z = w(x)[i]
           X == D \cup {z \in Blocks : \E x \in D, n \in 1..NBlocks, i \in 0..NBlocks : On(z, x, n, i)}
<1>9. ASSUME NEW x \in D, snext[x] # 0, NEW n \in 1..NBlocks, Hop(snext, x, set, n)
      PROVE  w(x)[n] \in D
  <2>1. x \in Blocks /\ x \notin set
    BY <1>3, <1>8
  <2>2. PICK m \in 1..NBlocks : /\ Hop(snext, x, set, m)
                                /\ U[x] = w(x)[m] \/ (U[x] = 0 /\ w(x)[m] = x)
    BY <1>5, <1>9, <2>1
  <2>3. n = m
    <3>1. n \in Int /\ m \in Int
      OBVIOUS
    <3>2. n < m => n \in 1..(m - 1)
      BY <3>1
    <3>3. m < n => m \in 1..(n - 1)
      BY <3>1
    <3>4. ~(n < m) /\ ~(m < n)
      BY <1>9, <2>2, <3>2, <3>3 DEF Hop
    <3>5. QED
      BY <3>1, <3>4
  <2>4. w(x)[n] \in Blocks /\ 0 \notin Blocks
    <3>1. n \in 0..NBlocks
      OBVIOUS
    <3>2. QED
      BY <1>6, <1>9, <2>1, <3>1, BlockFacts
  <2>5. QED
    BY <1>3, <2>2, <2>3, <2>4
<1>10. ASSUME NEW z \in X, snext[z] # 0
       PROVE  snext[z] \in X
  <2>1. ASSUME NEW x \in D, NEW n \in 1..NBlocks, Hop(snext, x, set, n), snext[x] # 0,
               NEW i \in 0..(n - 1), z = w(x)[i]
        PROVE  snext[z] \in X
    <3>1. i \in 0..(NBlocks - 1) /\ i + 1 \in 0..n /\ i + 1 \in 0..NBlocks
      BY <1>7
    <3> x \in Blocks
      BY <1>3
    <3>2. snext[z] = w(x)[i + 1] /\ w(x)[i + 1] \in Blocks
      BY <1>6, <2>1, <3>1
    <3>3. On(snext[z], x, n, i + 1)
      BY <2>1, <3>1, <3>2
    <3> HIDE DEF On
    <3>4. QED
      BY <3>1, <3>2, <3>3
  <2>2. CASE z \in D
    <3>1. z \in Blocks /\ z \notin set
      BY <1>3, <1>8, <2>2
    <3>2. PICK n \in 1..NBlocks : Hop(snext, z, set, n)
      BY <1>5, <1>10, <3>1
    <3>3. 0 \in 0..(n - 1)
      BY <1>7
    <3>5. z = w(z)[0]
      BY <1>6, <1>10, <3>1
    <3> HIDE DEF X
    <3>4. QED
      BY <1>10, <2>1, <2>2, <3>2, <3>3, <3>5
  <2>3. CASE z \notin D
    <3>1. PICK x \in D, n \in 1..NBlocks, i \in 0..NBlocks : On(z, x, n, i)
      BY <2>3
    <3>2. i # n
      BY <1>9, <2>3, <3>1
    <3>3. i \in 0..(n - 1)
      BY <3>1, <3>2
    <3>4. Hop(snext, x, set, n) /\ snext[x] # 0 /\ z = w(x)[i]
      BY <3>1
    <3> HIDE DEF X, On
    <3>5. QED
      BY <2>1, <3>3, <3>4
  <2>4. QED
    BY <2>2, <2>3
<1>11. C \subseteq X
  <2>1. b \in X
    BY <1>3
  <2> HIDE DEF X
  <2>2. QED
    BY <1>1, <1>10, <2>1, CircleLeast
<1>12. ASSUME NEW y \in C, y \notin set
       PROVE  y \in D
  <2>1. SUFFICES ASSUME y \notin D PROVE FALSE
    OBVIOUS
  <2>2. PICK x \in D, n \in 1..NBlocks, i \in 0..NBlocks : On(y, x, n, i)
    BY <1>11, <2>1
  <2>3. i # n
    BY <1>9, <2>1, <2>2
  <2>4. i # 0
    BY <1>3, <1>6, <2>1, <2>2
  <2>5. i \in 1..(n - 1)
    BY <2>2, <2>3, <2>4
  <2>6. QED
    BY <1>12, <2>2, <2>5 DEF Hop, w
<1>13. QED
  BY <1>8, <1>12 DEF U

------------------------------------------------------------------------------
(***************************************************************************)
(* cache_io(): a block joins the circle of slblock                         *)
(***************************************************************************)
(* p is the block before s on its circle, or s itself when it is alone     *)
Before(f, s, p) ==
    /\ p \in Circle(f, s)
    /\ (f[s] = 0 /\ p = s) \/ (f[s] # 0 /\ f[p] = s)

(* Block b, in no circle so far, is put between s and the block before.    *)
LEMMA LinkedIs ==
  ASSUME NEW f, Loops(f), NEW b \in Blocks, f[b] = 0, NEW s \in Blocks, s # b
  PROVE  \E p \in Blocks : /\ Before(f, s, p) /\ p # b
                           /\ Linked(f, b, s) = [f EXCEPT ![b] = s, ![p] = b]
<1> DEFINE g == [f EXCEPT ![b] = s]
<1>1. f \in Ptrs /\ g \in Ptrs /\ s # 0 /\ g[s] = f[s]
  BY BlockFacts DEF Loops, Ptrs
<1>2. Circle(f, s) \subseteq Blocks /\ s \in Circle(f, s)
  BY <1>1, CircleClosed
<1>3. CASE f[s] = 0
  <2>1. Linked(f, b, s) = [g EXCEPT ![s] = b]
    BY <1>1, <1>3 DEF Linked
  <2>2. Linked(f, b, s) = [f EXCEPT ![b] = s, ![s] = b]
    BY <1>1, <2>1
  <2>3. QED
    BY <1>2, <1>3, <2>2 DEF Before
<1>4. CASE f[s] # 0
  <2>1. \A x \in Circle(f, s) : x \in Blocks /\ f[x] # 0 /\ x # b
    BY <1>4, CircleLinked
  <2>2. Circle(g, s) = Circle(f, s)
    <3>1. \A x \in Circle(f, s) : g[x] = f[x]
      BY <1>1, <2>1 DEF Ptrs
    <3>2. Circle(g, s) \subseteq Circle(f, s)
      <4>1. \A x \in Circle(f, s) \cap Blocks : g[x] # 0 => g[x] \in Circle(f, s)
        BY <1>1, <3>1, CircleClosed
      <4> HIDE DEF g
      <4>2. QED
        BY <1>1, <1>2, <4>1, CircleLeast
    <3>3. Circle(f, s) \subseteq Circle(g, s)
      <4> HIDE DEF g
      <4>1. s \in Circle(g, s) /\ \A x \in Circle(g, s) : g[x] # 0 => g[x] \in Circle(g, s)
        BY <1>1, CircleClosed
      <4>2. \A x \in Circle(g, s) \cap Blocks : f[x] # 0 => f[x] \in Circle(g, s)
        BY <3>1, <3>2, <4>1
      <4>3. QED
        BY <1>1, <4>1, <4>2, CircleLeast
    <3>4. QED
      BY <3>2, <3>3
  <2> DEFINE p == CHOOSE x \in Circle(g, s) : g[x] = s
  <2>3. p \in Circle(f, s) /\ f[p] = s
    <3>1. PICK x \in Circle(f, s) : f[x] = s
      BY <1>2, <1>4, CirclePred
    <3>2. x \in Circle(g, s) /\ g[x] = s
      BY <1>1, <2>1, <2>2, <3>1 DEF Ptrs
    <3>3. p \in Circle(g, s) /\ g[p] = s
      <4> HIDE DEF g
      <4> QED
        BY <3>2
    <3>4. QED
      BY <1>1, <2>1, <2>2, <3>3 DEF Ptrs
  <2>4. Linked(f, b, s) = [g EXCEPT ![p] = b]
    BY <1>1, <1>4 DEF Linked
  <2> HIDE DEF p
  <2>5. Linked(f, b, s) = [f EXCEPT ![b] = s, ![p] = b]
    BY <1>1, <2>4
  <2>6. QED
    BY <1>4, <2>1, <2>3, <2>5 DEF Before
<1>5. QED
  BY <1>3, <1>4

(* The pointers form circles again.                                        *)
LEMMA LinkedLoops ==
  ASSUME NEW f, Loops(f), NEW b \in Blocks, f[b] = 0, NEW s \in Blocks, s # b
  PROVE  Loops(Linked(f, b, s))
<1>1. PICK p \in Blocks : /\ Before(f, s, p) /\ p # b
                         /\ Linked(f, b, s) = [f EXCEPT ![b] = s, ![p] = b]
  BY LinkedIs
<1> DEFINE L == Linked(f, b, s)
<1>2. f \in Ptrs /\ 0 \notin Blocks
  BY BlockFacts DEF Loops
<1>3. /\ L \in Ptrs /\ L[b] = s /\ L[p] = b
      /\ \A x \in Blocks \ {b, p} : L[x] = f[x]
  BY <1>1, <1>2 DEF Ptrs
<1>4. \A x \in Blocks : f[x] # b
  BY <1>2 DEF Loops
<1>5. \A x \in Blocks \ {p} : f[x] # s
  BY <1>1, <1>2 DEF Loops, Before
<1> HIDE DEF L
<1>6. ASSUME NEW x \in Blocks, L[x] # 0
      PROVE  L[L[x]] # 0
  <2>1. CASE x = b
    <3>1. CASE s = p
      BY <1>2, <1>3, <2>1, <3>1
    <3>2. CASE s # p
      BY <1>1, <1>2, <1>3, <2>1, <3>2 DEF Before
    <3>3. QED
      BY <3>1, <3>2
  <2>2. CASE x = p
    BY <1>2, <1>3, <2>2
  <2>3. CASE x \notin {b, p}
    <3>1. L[x] = f[x] /\ f[x] \in Blocks /\ f[x] # b /\ f[f[x]] # 0
      BY <1>2, <1>3, <1>4, <1>6, <2>3 DEF Loops, Ptrs
    <3>2. QED
      BY <1>2, <1>3, <3>1
  <2>4. QED
    BY <2>1, <2>2, <2>3
<1>7. ASSUME NEW x \in Blocks, NEW y \in Blocks, L[x] # 0, L[x] = L[y]
      PROVE  x = y
  <2>1. \A z \in Blocks :
          \/ z = b /\ L[z] = s
          \/ z = p /\ L[z] = b
          \/ z \notin {b, p} /\ L[z] = f[z] /\ f[z] # b /\ f[z] # s
    BY <1>3, <1>4, <1>5
  <2>2. QED
    BY <1>7, <2>1 DEF Loops
<1>8. QED
  BY <1>3, <1>6, <1>7 DEF Loops, L

(* The circle of s holds b now; the other circles are as they were.        *)
LEMMA LinkedCircle ==
  ASSUME NEW f, Loops(f), NEW b \in Blocks, f[b] = 0, NEW s \in Blocks, s # b,
         NEW x \in Blocks
  PROVE  Circle(Linked(f, b, s), x) =
           IF x \in Circle(f, s) \cup {b} THEN Circle(f, s) \cup {b} ELSE Circle(f, x)
<1>1. PICK p \in Blocks : /\ Before(f, s, p) /\ p # b
                         /\ Linked(f, b, s) = [f EXCEPT ![b] = s, ![p] = b]
  BY LinkedIs
<1> DEFINE L == Linked(f, b, s)
           C == Circle(f, s)
<1>2. f \in Ptrs /\ 0 \notin Blocks /\ Loops(L) /\ L \in Ptrs
  BY BlockFacts, LinkedLoops DEF Loops
<1>3. /\ L[b] = s /\ L[p] = b
      /\ \A y \in Blocks \ {b, p} : L[y] = f[y]
  BY <1>1, <1>2 DEF Ptrs
<1>4. /\ s \in C /\ C \subseteq Blocks /\ p \in C
      /\ \A y \in C : f[y] # 0 => f[y] \in C
  BY <1>1, <1>2, CircleClosed DEF Before
<1>5. Circle(f, b) = {b}
  BY <1>2, CircleSingle
<1>6. \A y \in Blocks : Circle(L, y) \subseteq Blocks /\ y \in Circle(L, y) /\
                         \A z \in Circle(L, y) : L[z] # 0 => L[z] \in Circle(L, y)
  <2> HIDE DEF L
  <2> QED
    BY <1>2, CircleClosed
<1> HIDE DEF L
<1>7. Circle(L, b) = C \cup {b}
  <2>1. Circle(L, b) \subseteq C \cup {b}
    <3> DEFINE X == C \cup {b}
    <3>1. b \in X /\ \A y \in X \cap Blocks : L[y] # 0 => L[y] \in X
      BY <1>3, <1>4
    <3>2. Circle(L, b) \subseteq X
      <4> HIDE DEF X
      <4> QED
        BY <1>2, <3>1, CircleLeast
    <3>3. QED
      BY <3>2
  <2>2. C \subseteq Circle(L, b)
    <3>1. b \in Circle(L, b) /\ s \in Circle(L, b)
      BY <1>2, <1>3, <1>6
    <3>2. \A y \in Circle(L, b) \cap Blocks : f[y] # 0 => f[y] \in Circle(L, b)
      BY <1>1, <1>3, <1>6, <3>1 DEF Before
    <3>3. QED
      BY <1>2, <3>1, <3>2, CircleLeast
  <2>3. QED
    BY <2>1, <2>2, <1>6
<1>8. CASE x \in C \cup {b}
  <2>1. Circle(L, x) = Circle(L, b)
    BY <1>2, <1>7, <1>8, CircleSym
  <2>2. QED
    BY <1>7, <1>8, <2>1 DEF L
<1>9. CASE x \notin C \cup {b}
  <2> DEFINE X == Circle(f, x)
  <2>1. x \in X /\ X \subseteq Blocks /\ \A y \in X : f[y] # 0 => f[y] \in X
    BY <1>2, CircleClosed
  <2>2. ASSUME NEW y \in X
        PROVE  y # b /\ y # p
    <3>1. Circle(f, y) = X
      BY CircleSym
    <3>2. y # b
      BY <1>5, <1>9, <2>1, <3>1
    <3>3. y \in C => Circle(f, y) = C
      BY CircleSym
    <3>4. y \notin C
      BY <1>9, <2>1, <3>1, <3>3
    <3>5. QED
      BY <1>4, <3>2, <3>4
  <2>3. \A y \in X : L[y] = f[y]
    BY <1>3, <2>1, <2>2
  <2> HIDE DEF X
  <2>4. Circle(L, x) \subseteq X
    BY <1>2, <2>1, <2>3, CircleLeast
  <2>5. X \subseteq Circle(L, x)
    <3>1. \A y \in Circle(L, x) \cap Blocks : f[y] # 0 => f[y] \in Circle(L, x)
      BY <1>6, <2>3, <2>4
    <3>2. QED
      BY <1>2, <1>6, <3>1, CircleLeast DEF X
  <2>6. QED
    BY <1>9, <2>4, <2>5 DEF X, L
<1>10. QED
  BY <1>8, <1>9 DEF L

------------------------------------------------------------------------------
(***************************************************************************)
(* Locations and circles together.  Shape is what holds whatever happens,  *)
(* Gathered and BitsOn what the lookup needs, for as long as cause = {}.   *)
(***************************************************************************)
Shape(l, f) ==
    /\ l \in [Blocks -> Locs \cup {NoLoc}]
    /\ Loops(f)
    /\ \A x \in Blocks :
         f[x] # 0 => l[x] # NoLoc /\ l[f[x]] # NoLoc /\ GroupOf(l[f[x]]) = GroupOf(l[x])
    /\ \A b \in Blocks : l[b] # NoLoc =>
         \A x \in Circle(f, b) : x # b => l[x] # l[b]
Gathered(l, f) ==
    \A b, c \in Blocks : l[b] # NoLoc /\ l[c] # NoLoc /\ GroupOf(l[b]) = GroupOf(l[c])
                           => c \in Circle(f, b)
BitsOn(l, m) == \A b \in Blocks : l[b] # NoLoc => GroupOf(l[b]) \in m

(* Locations are numbers, NoLoc is none.                                   *)
LEMMA LocFacts ==
  /\ NoLoc \notin Locs /\ Locs \subseteq Nat
  /\ \A l \in Locs : GroupOf(l) \in Groups
<1>1. DiskSize \in Nat \ {0} /\ Sin32k \in Nat \ {0}
  BY CacheConstants
<1>2. (DiskSize - 1) \div Sin32k \in Nat
  <2>1. DiskSize - 1 \in Nat
    BY <1>1
  <2>2. QED
    BY <1>1, <2>1, DivMod
<1>3. QED
  BY <1>2 DEF NoLoc, Locs, Groups

(* A circle holds blocks in use, of one group.                             *)
LEMMA ShapeCircle ==
  ASSUME NEW l, NEW f, Shape(l, f), NEW b \in Blocks, l[b] # NoLoc
  PROVE  \A x \in Circle(f, b) :
           x \in Blocks /\ l[x] # NoLoc /\ GroupOf(l[x]) = GroupOf(l[b])
<1> DEFINE X == {x \in Blocks : l[x] # NoLoc /\ GroupOf(l[x]) = GroupOf(l[b])}
<1>1. f \in Ptrs
  BY DEF Shape, Loops
<1>2. b \in X /\ \A x \in X \cap Blocks : f[x] # 0 => f[x] \in X
  BY <1>1 DEF Shape, Ptrs
<1>3. Circle(f, b) \subseteq X
  <2> HIDE DEF X
  <2> QED
    BY <1>1, <1>2, CircleLeast
<1>4. QED
  BY <1>3

(* An unused block points nowhere.                                         *)
LEMMA ShapeUnused ==
  ASSUME NEW l, NEW f, Shape(l, f), NEW b \in Blocks, l[b] = NoLoc
  PROVE  f[b] = 0 /\ Circle(f, b) = {b}
<1>1. f \in Ptrs /\ f[b] = 0
  BY DEF Shape, Loops
<1>2. QED
  BY <1>1, CircleSingle

(* free_bi_entry() for the blocks of set.                                  *)
LEMMA UnlinkShape ==
  ASSUME Shape(loc, snext), NEW set
  PROVE  Shape(Blank(loc, set, NoLoc), Unlinked(set))
<1> DEFINE l == Blank(loc, set, NoLoc)
           U == Unlinked(set)
<1>1. Loops(snext) /\ snext \in Ptrs /\ Loops(U) /\ U \in Ptrs
  BY UnlinkedLoops DEF Shape, Loops
<1>2. loc \in [Blocks -> Locs \cup {NoLoc}]
  BY DEF Shape
<1>3. /\ l \in [Blocks -> Locs \cup {NoLoc}]
      /\ \A b \in Blocks : l[b] = IF b \in set THEN NoLoc ELSE loc[b]
  BY <1>2 DEF Blank
<1>4. \A b \in Blocks : b \in set \/ snext[b] = 0 => U[b] = 0
  BY <1>1, UnlinkedAt
<1>5. \A b \in Blocks \ set : Circle(U, b) = Circle(snext, b) \ set
  BY <1>1, UnlinkedCircle
<1>6. \A b \in Blocks : b \in Circle(U, b) /\ (U[b] # 0 => U[b] \in Circle(U, b))
  <2> HIDE DEF U
  <2> QED
    BY <1>1, CircleClosed
<1>7. \A b \in Blocks : loc[b] # NoLoc => \A x \in Circle(snext, b) :
         x \in Blocks /\ loc[x] # NoLoc /\ GroupOf(loc[x]) = GroupOf(loc[b])
  BY ShapeCircle
<1> HIDE DEF l, U
<1>8. ASSUME NEW x \in Blocks, U[x] # 0
      PROVE  l[x] # NoLoc /\ l[U[x]] # NoLoc /\ GroupOf(l[U[x]]) = GroupOf(l[x])
  <2>1. x \notin set /\ snext[x] # 0
    BY <1>4, <1>8
  <2>2. loc[x] # NoLoc
    BY <2>1 DEF Shape
  <2>3. U[x] \in Circle(snext, x) /\ U[x] \notin set
    BY <1>5, <1>6, <1>8, <2>1
  <2>4. U[x] \in Blocks /\ loc[U[x]] # NoLoc /\ GroupOf(loc[U[x]]) = GroupOf(loc[x])
    BY <1>7, <2>2, <2>3
  <2>5. l[x] = loc[x] /\ l[U[x]] = loc[U[x]]
    BY <1>3, <2>1, <2>3, <2>4
  <2>6. QED
    BY <2>2, <2>4, <2>5
<1>9. ASSUME NEW b \in Blocks, l[b] # NoLoc, NEW x \in Circle(U, b), x # b
      PROVE  l[x] # l[b]
  <2>1. b \notin set /\ l[b] = loc[b]
    BY <1>3, <1>9
  <2>2. x \in Circle(snext, b) /\ x \notin set
    BY <1>5, <1>9, <2>1
  <2>3. x \in Blocks
    BY <1>7, <1>9, <2>1, <2>2
  <2>4. l[x] = loc[x]
    BY <1>3, <2>2, <2>3
  <2>5. loc[x] # loc[b]
    BY <1>9, <2>1, <2>2 DEF Shape
  <2>6. QED
    BY <2>1, <2>4, <2>5
<1>10. QED
  BY <1>1, <1>3, <1>8, <1>9 DEF Shape, l, U

(* The blocks of a group that stay are still in one circle, and their bit  *)
(* is still on.                                                            *)
LEMMA UnlinkGathered ==
  ASSUME Shape(loc, snext), Gathered(loc, snext), NEW set \in SUBSET Cached
  PROVE  /\ Gathered(Blank(loc, set, NoLoc), Unlinked(set))
         /\ BitsOn(loc, bitmap) => BitsOn(Blank(loc, set, NoLoc), bitmap \ BitsOff(set))
<1> DEFINE l == Blank(loc, set, NoLoc)
           U == Unlinked(set)
<1>1. Loops(snext)
  BY DEF Shape
<1>2. \A b \in Blocks : l[b] = IF b \in set THEN NoLoc ELSE loc[b]
  BY DEF Blank
<1>3. \A b \in Blocks \ set : Circle(U, b) = Circle(snext, b) \ set
  BY <1>1, UnlinkedCircle
<1> HIDE DEF l, U
<1>4. Gathered(l, U)
  BY <1>2, <1>3 DEF Gathered
<1>5. ASSUME BitsOn(loc, bitmap), NEW b \in Blocks, l[b] # NoLoc
      PROVE  GroupOf(l[b]) \in bitmap \ BitsOff(set)
  <2>1. b \notin set /\ l[b] = loc[b] /\ loc[b] # NoLoc
    BY <1>2, <1>5
  <2>2. GroupOf(loc[b]) \in bitmap
    BY <1>5, <2>1 DEF BitsOn
  <2>3. ASSUME NEW c \in set, Circle(snext, c) \subseteq set,
               c \in Blocks, loc[c] # NoLoc, GroupOf(loc[c]) = GroupOf(loc[b])
        PROVE  FALSE
    BY <2>1, <2>3 DEF Gathered
  <2>4. GroupOf(loc[b]) \notin BitsOff(set)
    BY <2>3 DEF BitsOff, Cached
  <2>5. QED
    BY <2>1, <2>2, <2>4
<1>6. QED
  BY <1>4, <1>5 DEF BitsOn, l, U

(* Block b takes location W in: alone, ...                                 *)
LEMMA AloneShape ==
  ASSUME NEW l, NEW f, Shape(l, f), NEW b \in Blocks, l[b] = NoLoc, NEW W \in Locs
  PROVE  /\ Linked(f, b, 0) = f
         /\ Shape([l EXCEPT ![b] = W], f)
         /\ Gathered(l, f) /\ (\A c \in Blocks : l[c] # NoLoc => GroupOf(l[c]) # GroupOf(W))
              => Gathered([l EXCEPT ![b] = W], f)
<1> DEFINE m == [l EXCEPT ![b] = W]
<1>1. Loops(f) /\ f \in Ptrs /\ l \in [Blocks -> Locs \cup {NoLoc}] /\ W # NoLoc
  BY LocFacts DEF Shape, Loops
<1>2. f[b] = 0 /\ Circle(f, b) = {b}
  BY ShapeUnused
<1>3. Linked(f, b, 0) = f
  <2>1. [f EXCEPT ![b] = 0] = f
    BY <1>1, <1>2 DEF Ptrs
  <2>2. QED
    BY <2>1 DEF Linked
<1>4. /\ m \in [Blocks -> Locs \cup {NoLoc}] /\ m[b] = W
      /\ \A x \in Blocks \ {b} : m[x] = l[x]
  BY <1>1
<1> HIDE DEF m
<1>5. \A x \in Blocks \ {b} : l[x] # NoLoc => b \notin Circle(f, x) /\ Circle(f, x) \subseteq Blocks
  <2>1. TAKE x \in Blocks \ {b}
  <2>2. l[x] # NoLoc => \A y \in Circle(f, x) : y \in Blocks /\ l[y] # NoLoc
    BY ShapeCircle
  <2>3. QED
    BY <2>2
<1>6. ASSUME NEW x \in Blocks, f[x] # 0
      PROVE  m[x] # NoLoc /\ m[f[x]] # NoLoc /\ GroupOf(m[f[x]]) = GroupOf(m[x])
  <2>1. x # b /\ f[x] \in Blocks /\ f[x] # b
    BY <1>1, <1>2, <1>6 DEF Loops, Ptrs
  <2>2. QED
    BY <1>4, <1>6, <2>1 DEF Shape
<1>7. ASSUME NEW c \in Blocks, m[c] # NoLoc, NEW x \in Circle(f, c), x # c
      PROVE  m[x] # m[c]
  <2>1. c # b
    BY <1>2, <1>7
  <2>2. l[c] # NoLoc /\ x \in Blocks /\ x # b
    BY <1>4, <1>5, <1>7, <2>1
  <2>3. QED
    BY <1>4, <1>7, <2>1, <2>2 DEF Shape
<1>8. Shape(m, f)
  BY <1>1, <1>4, <1>6, <1>7 DEF Shape
<1>9. ASSUME Gathered(l, f), \A c \in Blocks : l[c] # NoLoc => GroupOf(l[c]) # GroupOf(W)
      PROVE  Gathered(m, f)
  BY <1>2, <1>4, <1>9 DEF Gathered
<1>10. QED
  BY <1>3, <1>8, <1>9 DEF m

(* ... in the circle of slblock, which holds no copy of W, ...             *)
LEMMA JoinShape ==
  ASSUME NEW l, NEW f, Shape(l, f), NEW b \in Blocks, l[b] = NoLoc, NEW W \in Locs,
         NEW s \in Blocks, l[s] # NoLoc, GroupOf(l[s]) = GroupOf(W),
         \A x \in Circle(f, s) : l[x] # W
  PROVE  /\ Shape([l EXCEPT ![b] = W], Linked(f, b, s))
         /\ Gathered(l, f) => Gathered([l EXCEPT ![b] = W], Linked(f, b, s))
<1> DEFINE m == [l EXCEPT ![b] = W]
           L == Linked(f, b, s)
           C == Circle(f, s)
<1>1. Loops(f) /\ f \in Ptrs /\ l \in [Blocks -> Locs \cup {NoLoc}] /\ W # NoLoc /\ s # b
  BY LocFacts DEF Shape, Loops
<1>2. f[b] = 0 /\ Circle(f, b) = {b}
  BY ShapeUnused
<1>3. Loops(L) /\ L \in Ptrs
  BY <1>1, <1>2, LinkedLoops DEF Loops
<1>4. /\ m \in [Blocks -> Locs \cup {NoLoc}] /\ m[b] = W
      /\ \A x \in Blocks \ {b} : m[x] = l[x]
  BY <1>1
<1>5. \A x \in C : x \in Blocks /\ l[x] # NoLoc /\ GroupOf(l[x]) = GroupOf(W) /\ l[x] # W /\ x # b
  BY ShapeCircle
<1>6. \A x \in Blocks :
        Circle(L, x) = IF x \in C \cup {b} THEN C \cup {b} ELSE Circle(f, x)
  BY <1>1, <1>2, LinkedCircle
<1>7. \A x \in Blocks : x \in Circle(L, x) /\ (L[x] # 0 => L[x] \in Circle(L, x))
  <2> HIDE DEF L
  <2> QED
    BY <1>3, CircleClosed
<1>8. \A c \in Blocks : l[c] # NoLoc => \A x \in Circle(f, c) :
         x \in Blocks /\ l[x] # NoLoc /\ GroupOf(l[x]) = GroupOf(l[c]) /\ (x # c => l[x] # l[c])
  BY ShapeCircle DEF Shape
<1>9. \A c \in Blocks : l[c] = NoLoc /\ c # b => Circle(L, c) = {c}
  <2>1. TAKE c \in Blocks
  <2>2. l[c] = NoLoc => Circle(f, c) = {c}
    BY ShapeUnused
  <2>3. QED
    BY <1>5, <1>6, <2>2
<1>10. s \in C
  BY <1>1, CircleClosed
<1>11. \A c \in C : Circle(f, c) = C
  BY <1>1, CircleSym
<1> HIDE DEF m, L, C
<1>12. \A c \in Blocks : m[c] # NoLoc => \A x \in Circle(L, c) :
          x \in Blocks /\ m[x] # NoLoc /\ GroupOf(m[x]) = GroupOf(m[c]) /\ (x # c => m[x] # m[c])
  <2>1. TAKE c \in Blocks
  <2>2. HAVE m[c] # NoLoc
  <2>3. CASE c \in C \cup {b}
    <3>1. Circle(L, c) = C \cup {b}
      BY <1>6, <2>3
    <3>2. \A x \in C \cup {b} : x \in Blocks /\ m[x] # NoLoc /\ GroupOf(m[x]) = GroupOf(W)
      BY <1>1, <1>4, <1>5
    <3>3. ASSUME NEW x \in C \cup {b}, x # c
          PROVE  m[x] # m[c]
      <4>1. CASE x = b \/ c = b
        BY <1>4, <1>5, <2>3, <3>3, <4>1
      <4>2. CASE x \in C /\ c \in C
        <5>1. x \in Circle(f, c) /\ l[c] # NoLoc
          BY <1>5, <1>11, <4>2
        <5>2. l[x] # l[c]
          BY <1>8, <3>3, <5>1
        <5>3. QED
          BY <1>4, <1>5, <4>2, <5>2
      <4>3. QED
        BY <2>3, <3>3, <4>1, <4>2
    <3>4. QED
      BY <2>3, <3>1, <3>2, <3>3
  <2>4. CASE c \notin C \cup {b}
    <3>1. Circle(L, c) = Circle(f, c) /\ m[c] = l[c] /\ l[c] # NoLoc
      BY <1>4, <1>6, <2>2, <2>4
    <3>2. \A x \in Circle(f, c) : x # b
      BY <1>8, <3>1
    <3>3. QED
      BY <1>4, <1>8, <3>1, <3>2
  <2>5. QED
    BY <2>3, <2>4
<1>13. ASSUME NEW x \in Blocks, L[x] # 0
       PROVE  m[x] # NoLoc /\ m[L[x]] # NoLoc /\ GroupOf(m[L[x]]) = GroupOf(m[x])
  <2>1. L[x] \in Circle(L, x)
    BY <1>7, <1>13
  <2>2. m[x] # NoLoc
    <3>1. SUFFICES ASSUME m[x] = NoLoc PROVE FALSE
      OBVIOUS
    <3>2. x # b /\ l[x] = NoLoc
      BY <1>1, <1>4, <3>1
    <3>3. L[x] = x
      BY <1>9, <2>1, <3>2
    <3>4. \A y \in Blocks : l[y] = NoLoc /\ y # b => L[y] = 0
      <4>1. TAKE y \in Blocks
      <4>2. HAVE l[y] = NoLoc /\ y # b
      <4>3. f[y] = 0 /\ Circle(f, y) = {y} /\ y \notin C
        BY <1>5, <4>2, ShapeUnused
      <4>4. PICK p \in Blocks : Before(f, s, p) /\ p # b /\ L = [f EXCEPT ![b] = s, ![p] = b]
        BY <1>1, <1>2, LinkedIs DEF L
      <4>5. p \in C
        BY <4>4 DEF Before, C
      <4>6. QED
        BY <1>1, <4>2, <4>3, <4>4, <4>5 DEF Ptrs
    <3>5. QED
      BY <1>13, <3>2, <3>4
  <2>3. QED
    BY <1>12, <2>1, <2>2
<1>14. Shape(m, L)
  <2>1. \A c \in Blocks : m[c] # NoLoc => \A x \in Circle(L, c) : x # c => m[x] # m[c]
    BY <1>12
  <2>2. QED
    BY <1>3, <1>4, <1>13, <2>1 DEF Shape
<1>15. ASSUME Gathered(l, f)
       PROVE  Gathered(m, L)
  <2>1. SUFFICES ASSUME NEW c \in Blocks, NEW d \in Blocks, m[c] # NoLoc, m[d] # NoLoc,
                        GroupOf(m[c]) = GroupOf(m[d])
                 PROVE  d \in Circle(L, c)
    BY DEF Gathered
  <2>2. \A x \in Blocks : l[x] # NoLoc /\ GroupOf(l[x]) = GroupOf(W) => x \in C
    BY <1>15 DEF Gathered, C
  <2>3. \A x \in Blocks : m[x] # NoLoc /\ GroupOf(m[x]) = GroupOf(W) => x \in C \cup {b}
    BY <1>4, <2>2
  <2>4. CASE c \in C \cup {b}
    <3>1. GroupOf(m[c]) = GroupOf(W)
      BY <1>4, <1>5, <2>4
    <3>2. d \in C \cup {b}
      BY <2>1, <2>3, <3>1
    <3>3. QED
      BY <1>6, <2>4, <3>2
  <2>5. CASE c \notin C \cup {b}
    <3>1. GroupOf(m[c]) # GroupOf(W)
      BY <2>1, <2>3, <2>5
    <3>2. d # b /\ m[c] = l[c] /\ m[d] = l[d]
      BY <1>4, <2>1, <2>5, <3>1
    <3>3. d \in Circle(f, c)
      BY <1>15, <2>1, <3>2 DEF Gathered
    <3>4. QED
      BY <1>6, <2>5, <3>3
  <2>6. QED
    BY <2>4, <2>5
<1>16. QED
  BY <1>14, <1>15 DEF m, L

(* ... or, when it is slblock itself, in a circle of its own.              *)
LEMMA SelfShape ==
  ASSUME NEW l, NEW f, Shape(l, f), NEW b \in Blocks, l[b] = NoLoc, NEW W \in Locs
  PROVE  Shape([l EXCEPT ![b] = W], Linked(f, b, b))
<1> DEFINE m == [l EXCEPT ![b] = W]
           g == [f EXCEPT ![b] = b]
<1>1. Loops(f) /\ f \in Ptrs /\ l \in [Blocks -> Locs \cup {NoLoc}] /\ W # NoLoc
  BY LocFacts DEF Shape, Loops
<1>2. f[b] = 0 /\ 0 \notin Blocks
  BY ShapeUnused, BlockFacts
<1>3. g \in Ptrs /\ g[b] = b /\ \A x \in Blocks \ {b} : g[x] = f[x] /\ g[x] # b
  BY <1>1, <1>2 DEF Loops, Ptrs
<1>4. /\ m \in [Blocks -> Locs \cup {NoLoc}] /\ m[b] = W
      /\ \A x \in Blocks \ {b} : m[x] = l[x]
  BY <1>1
<1>5. Circle(g, b) = {b}
  <2> HIDE DEF g
  <2>1. \A x \in {b} \cap Blocks : g[x] # 0 => g[x] \in {b}
    BY <1>3
  <2>2. Circle(g, b) \subseteq {b}
    BY <1>3, <2>1, CircleLeast
  <2>3. QED
    BY <1>3, <2>2, CircleClosed
<1>6. Linked(f, b, b) = g
  <2>1. b # 0 /\ g[b] # 0
    BY <1>2, <1>3
  <2>2. Linked(f, b, b) = [g EXCEPT ![CHOOSE x \in Circle(g, b) : g[x] = b] = b]
    BY <2>1 DEF Linked
  <2>3. (CHOOSE x \in Circle(g, b) : g[x] = b) = b
    <3> HIDE DEF g
    <3> QED
      BY <1>3, <1>5
  <2>4. [g EXCEPT ![b] = b] = g
    <3> HIDE DEF g
    <3> QED
      BY <1>3 DEF Ptrs
  <2> HIDE DEF g
  <2>5. QED
    BY <2>2, <2>3, <2>4
<1> HIDE DEF g, m
<1>7. Loops(g)
  <2>1. \A x \in Blocks : g[x] # 0 => g[g[x]] # 0
    <3>1. TAKE x \in Blocks
    <3>2. HAVE g[x] # 0
    <3>3. x # b => g[x] = f[x] /\ f[x] \in Blocks /\ f[x] # b /\ f[f[x]] # 0
      BY <1>1, <1>3, <3>2 DEF Loops, Ptrs
    <3>4. QED
      BY <1>2, <1>3, <3>3
  <2>2. \A x, y \in Blocks : g[x] # 0 /\ g[x] = g[y] => x = y
    BY <1>1, <1>3 DEF Loops
  <2>3. QED
    BY <1>3, <2>1, <2>2 DEF Loops
<1>8. ASSUME NEW x \in Blocks, x # b, l[x] # NoLoc
      PROVE  \A y \in Circle(g, x) : y \in Circle(f, x) /\ y # b /\ y \in Blocks
  <2>1. \A y \in Circle(f, x) : y \in Blocks /\ l[y] # NoLoc
    BY <1>8, ShapeCircle
  <2>2. x \in Circle(f, x) /\ \A y \in Circle(f, x) : f[y] # 0 => f[y] \in Circle(f, x)
    BY <1>1, CircleClosed
  <2>3. \A y \in Circle(f, x) \cap Blocks : g[y] # 0 => g[y] \in Circle(f, x)
    BY <1>3, <2>1, <2>2
  <2>4. Circle(g, x) \subseteq Circle(f, x)
    BY <1>3, <2>2, <2>3, CircleLeast
  <2>5. QED
    BY <2>1, <2>4
<1>9. ASSUME NEW x \in Blocks, g[x] # 0
      PROVE  m[x] # NoLoc /\ m[g[x]] # NoLoc /\ GroupOf(m[g[x]]) = GroupOf(m[x])
  <2>1. CASE x = b
    BY <1>1, <1>3, <1>4, <2>1
  <2>2. CASE x # b
    <3>1. g[x] = f[x] /\ f[x] \in Blocks /\ f[x] # b
      BY <1>1, <1>3, <1>9, <2>2 DEF Ptrs
    <3>2. l[x] # NoLoc /\ l[f[x]] # NoLoc /\ GroupOf(l[f[x]]) = GroupOf(l[x])
      BY <1>9, <3>1 DEF Shape
    <3>3. QED
      BY <1>4, <2>2, <3>1, <3>2
  <2>3. QED
    BY <2>1, <2>2
<1>10. ASSUME NEW c \in Blocks, m[c] # NoLoc, NEW x \in Circle(g, c), x # c
       PROVE  m[x] # m[c]
  <2>1. c # b
    BY <1>5, <1>10
  <2>2. l[c] # NoLoc /\ m[c] = l[c]
    BY <1>4, <1>10, <2>1
  <2>3. x \in Circle(f, c) /\ x # b /\ x \in Blocks
    BY <1>8, <1>10, <2>1, <2>2
  <2>4. l[x] # l[c]
    BY <1>10, <2>2, <2>3 DEF Shape
  <2>5. QED
    BY <1>4, <2>2, <2>3, <2>4
<1>11. Shape(m, g)
  BY <1>4, <1>7, <1>9, <1>10 DEF Shape
<1>12. QED
  BY <1>6, <1>11 DEF m

------------------------------------------------------------------------------
(***************************************************************************)
(* The removal queue                                                       *)
(***************************************************************************)
(* q holds every block of set once, and nothing else                       *)
Queue(q, set) ==
    /\ q \in Seq(Blocks)
    /\ \A i, j \in 1..Len(q) : q[i] = q[j] => i = j
    /\ \A x : x \in set <=> \E i \in 1..Len(q) : q[i] = x

(* Such a queue is as long as set is large.                                *)
LEMMA QueueSize ==
  ASSUME NEW q, NEW set, Queue(q, set)
  PROVE  /\ q \in Seq(Blocks) /\ set \subseteq Blocks
         /\ {q[i] : i \in 1..Len(q)} = set /\ Len(q) = Cardinality(set)
<1> DEFINE f == [i \in 1..Len(q) |-> q[i]]
<1>1. q \in Seq(Blocks) /\ Len(q) \in Nat /\ \A i \in 1..Len(q) : q[i] \in Blocks
  BY DEF Queue
<1>2. {q[i] : i \in 1..Len(q)} = set /\ set \subseteq Blocks
  BY <1>1 DEF Queue
<1>3. f \in Surjection(1..Len(q), set) /\ f \in Injection(1..Len(q), set)
  BY <1>1, <1>2 DEF Queue, Surjection, Injection, IsInjective
<1>4. IsFiniteSet(1..Len(q)) /\ Cardinality(1..Len(q)) = Len(q)
  <2>1. 1 \in Int /\ Len(q) \in Int
    BY <1>1
  <2>2. IsFiniteSet(1..Len(q)) /\
        Cardinality(1..Len(q)) = IF 1 > Len(q) THEN 0 ELSE Len(q) - 1 + 1
    BY <2>1, FS_Interval
  <2>3. QED
    BY <1>1, <2>2
<1> HIDE DEF f
<1>5. Cardinality(set) = Cardinality(1..Len(q))
  BY <1>3, <1>4, FS_Surjection
<1>6. QED
  BY <1>1, <1>2, <1>4, <1>5

(* A block comes to the tail.                                              *)
LEMMA QueueAppend ==
  ASSUME NEW q, NEW set, Queue(q, set), NEW b \in Blocks \ set
  PROVE  Queue(Append(q, b), set \cup {b})
<1> DEFINE r == Append(q, b)
<1>1. q \in Seq(Blocks) /\ Len(q) \in Nat
  BY DEF Queue
<1>2. /\ r \in Seq(Blocks) /\ Len(r) = Len(q) + 1 /\ r[Len(q) + 1] = b
      /\ \A i \in 1..Len(q) : r[i] = q[i]
  BY <1>1
<1>3. \A i \in 1..Len(r) : i \in 1..Len(q) \/ i = Len(q) + 1
  BY <1>1, <1>2
<1>4. \A i \in 1..Len(q) : i \in 1..Len(r) /\ q[i] # b /\ i # Len(q) + 1
  BY <1>1, <1>2 DEF Queue
<1>5. Len(q) + 1 \in 1..Len(r)
  BY <1>1, <1>2
<1> HIDE DEF r
<1>6. \A i, j \in 1..Len(r) : r[i] = r[j] => i = j
  BY <1>2, <1>3, <1>4 DEF Queue
<1>7. \A x : x \in set \cup {b} <=> \E i \in 1..Len(r) : r[i] = x
  BY <1>2, <1>3, <1>4, <1>5 DEF Queue
<1>8. QED
  BY <1>2, <1>6, <1>7 DEF Queue, r

(* Blocks leave it.                                                        *)
LEMMA QueueWithout ==
  ASSUME NEW q, NEW S, Queue(q, S), NEW set
  PROVE  Queue(Without(q, set), S \ set)
<1> DEFINE n == Len(q)
           T == Seq(Blocks)
           g == [i \in 1..n |-> [s \in T |-> IF q[i] \in set THEN s ELSE Append(s, q[i])]]
           Eq(s) == s = [i \in 0..n |-> IF i = 0 THEN <<>>
                                        ELSE IF q[i] \in set THEN s[i - 1]
                                        ELSE Append(s[i - 1], q[i])]
<1>1. q \in T /\ n \in Nat /\ \A i \in 1..n : q[i] \in Blocks
  BY DEF Queue
<1>2. g \in [1..n -> [T -> T]]
  <2>1. \A i \in 1..n : \A s \in T : Append(s, q[i]) \in T
    BY <1>1
  <2> HIDE DEF T, n
  <2>2. QED
    BY <2>1
<1>3. <<>> \in T
  OBVIOUS
<1>4. PICK s \in [0..n -> T] :
        \A i \in 0..n : s[i] = IF i = 0 THEN <<>> ELSE g[i][s[i - 1]]
  <2> HIDE DEF g, T, n
  <2>1. Courses(n, T, <<>>, g) # {}
    BY <1>1, <1>2, <1>3, Iterated
  <2>2. QED
    BY <2>1 DEF Courses
<1> HIDE DEF T
<1>5. Eq(s)
  <2>1. ASSUME NEW i \in 0..n, i # 0
        PROVE  s[i] = IF q[i] \in set THEN s[i - 1] ELSE Append(s[i - 1], q[i])
    <3>1. i \in 1..n /\ i - 1 \in 0..n
      BY <1>1, <2>1
    <3>2. s[i] = g[i][s[i - 1]] /\ s[i - 1] \in T
      <4> HIDE DEF g, n
      <4> QED
        BY <1>4, <2>1, <3>1
    <3>3. QED
      BY <3>1, <3>2
  <2> HIDE DEF g
  <2>2. s[0] = <<>>
    BY <1>1, <1>4
  <2>3. \A i \in 0..n : s[i] = IF i = 0 THEN <<>>
                              ELSE IF q[i] \in set THEN s[i - 1]
                              ELSE Append(s[i - 1], q[i])
    BY <2>1, <2>2
  <2>4. s = [i \in 0..n |-> s[i]]
    OBVIOUS
  <2>5. QED
    BY <2>3, <2>4
<1> DEFINE w == CHOOSE v : Eq(v)
<1>6. Without(q, set) = w[n]
  BY DEF Without
<1>7. Eq(w)
  <2> HIDE DEF Eq
  <2> QED
    BY <1>5
<1> HIDE DEF w
<1>8. w[0] = <<>>
  BY <1>1, <1>7
<1>9. \A i \in 0..(n - 1) : w[i + 1] = IF q[i + 1] \in set THEN w[i] ELSE Append(w[i], q[i + 1])
  <2>1. TAKE i \in 0..(n - 1)
  <2>2. i + 1 \in 0..n /\ i + 1 # 0 /\ (i + 1) - 1 = i
    BY <1>1
  <2>3. QED
    BY <1>7, <2>2
<1> DEFINE Upto(i) == {q[k] : k \in 1..i} \ set
           Good == {i \in 0..n : Queue(w[i], Upto(i))}
<1>10. 0 \in Good
  <2>1. Len(<<>>) = 0 /\ <<>> \in Seq(Blocks) /\ 1..0 = {}
    OBVIOUS
  <2>2. Upto(0) = {}
    BY <2>1
  <2>3. Queue(<<>>, {})
    BY <2>1 DEF Queue
  <2>4. 0 \in 0..n
    BY <1>1
  <2>5. QED
    BY <1>8, <2>2, <2>3, <2>4
<1>11. ASSUME NEW i \in 0..(n - 1), i \in Good
       PROVE  i + 1 \in Good
  <2>1. i + 1 \in 1..n /\ i + 1 \in 0..n /\ i \in 0..n
    BY <1>1
  <2>2. {q[k] : k \in 1..(i + 1)} = {q[k] : k \in 1..i} \cup {q[i + 1]}
    <3>1. 1..(i + 1) = (1..i) \cup {i + 1}
      BY <1>1
    <3>2. QED
      BY <3>1
  <2>3. Queue(w[i], Upto(i))
    BY <1>11
  <2>4. CASE q[i + 1] \in set
    <3>1. Upto(i + 1) = Upto(i) /\ w[i + 1] = w[i]
      BY <1>9, <2>2, <2>4
    <3> HIDE DEF Upto
    <3>2. QED
      BY <2>1, <2>3, <3>1
  <2>5. CASE q[i + 1] \notin set
    <3>1. Upto(i + 1) = Upto(i) \cup {q[i + 1]} /\ w[i + 1] = Append(w[i], q[i + 1])
      BY <1>9, <2>2, <2>5
    <3>2. q[i + 1] \in Blocks \ Upto(i)
      <4>1. ASSUME NEW k \in 1..i
            PROVE  q[k] # q[i + 1]
        <5>1. k \in 1..n /\ k # i + 1
          BY <1>1, <2>1
        <5>2. QED
          BY <2>1, <5>1 DEF Queue
      <4>2. QED
        BY <1>1, <2>1, <4>1
    <3> HIDE DEF Upto
    <3>3. Queue(Append(w[i], q[i + 1]), Upto(i) \cup {q[i + 1]})
      BY <2>3, <3>2, QueueAppend
    <3>4. QED
      BY <2>1, <3>1, <3>3
  <2>6. QED
    BY <2>4, <2>5
<1>12. n \in Good
  <2>1. n \in 0..n
    BY <1>1
  <2> HIDE DEF Good
  <2>2. \A i \in 0..n : i \in Good
    BY <1>1, <1>10, <1>11, UpTo
  <2>3. QED
    BY <2>1, <2>2
<1>13. Upto(n) = S \ set
  BY DEF Queue
<1> HIDE DEF Upto
<1>14. QED
  BY <1>6, <1>12, <1>13

(* expand_free(): the blocks before place v go to the tail, the one at v   *)
(* leaves.                                                                 *)
LEMMA QueueRotate ==
  ASSUME NEW q, NEW S, Queue(q, S), NEW v \in 1..Len(q)
  PROVE  Queue(SubSeq(q, v + 1, Len(q)) \o SubSeq(q, 1, v - 1), S \ {q[v]})
<1> DEFINE a == SubSeq(q, v + 1, Len(q))
           b == SubSeq(q, 1, v - 1)
           r == a \o b
           n == Len(q)
           from(i) == IF i <= n - v THEN v + i ELSE i - (n - v)
<1>1. q \in Seq(Blocks) /\ n \in Nat /\ v \in Int /\ v >= 1 /\ v <= n
  BY DEF Queue
<1>2. a \in Seq(Blocks) /\ Len(a) = n - v /\ \A i \in 1..(n - v) : a[i] = q[v + i]
  BY <1>1
<1>3. b \in Seq(Blocks) /\ Len(b) = v - 1 /\ \A i \in 1..(v - 1) : b[i] = q[i]
  BY <1>1
<1> HIDE DEF a, b
<1>4. r \in Seq(Blocks) /\ Len(r) = n - 1
  <2>1. r \in Seq(Blocks) /\ Len(r) = Len(a) + Len(b)
    BY <1>2, <1>3, ConcatProperties
  <2>2. QED
    BY <1>1, <1>2, <1>3, <2>1
<1>5. ASSUME NEW i \in 1..(n - 1)
      PROVE  r[i] = q[from(i)] /\ from(i) \in 1..n /\ from(i) # v
  <2>1. CASE i <= n - v
    <3>1. i \in 1..(n - v) /\ i \in 1..Len(a)
      BY <1>1, <1>2, <2>1
    <3>2. r[i] = a[i]
      BY <1>2, <1>3, <3>1
    <3>3. QED
      BY <1>1, <1>2, <2>1, <3>1, <3>2
  <2>2. CASE ~(i <= n - v)
    <3>1. i - (n - v) \in 1..(v - 1)
      BY <1>1, <2>2
    <3>2. r[i] = b[i - Len(a)]
      BY <1>1, <1>2, <1>3, <2>2
    <3>3. QED
      BY <1>1, <1>2, <1>3, <2>2, <3>1, <3>2
  <2>3. QED
    BY <2>1, <2>2
<1>6. ASSUME NEW i \in 1..(n - 1), NEW j \in 1..(n - 1), from(i) = from(j)
      PROVE  i = j
  BY <1>1, <1>6
<1>7. ASSUME NEW k \in 1..n, k # v
      PROVE  \E i \in 1..(n - 1) : from(i) = k
  <2>1. CASE k > v
    <3>1. k - v \in 1..(n - 1) /\ from(k - v) = k
      BY <1>1, <2>1
    <3>2. QED
      BY <3>1
  <2>2. CASE k < v
    <3>1. k + (n - v) \in 1..(n - 1) /\ from(k + (n - v)) = k
      BY <1>1, <2>2
    <3>2. QED
      BY <3>1
  <2>3. QED
    BY <1>1, <1>7, <2>1, <2>2
<1>8. n - 1 = Len(r)
  BY <1>4
<1> HIDE DEF r, from
<1>9. \A i, j \in 1..Len(r) : r[i] = r[j] => i = j
  BY <1>5, <1>6, <1>8 DEF Queue
<1>10. \A x : x \in S \ {q[v]} <=> \E i \in 1..Len(r) : r[i] = x
  <2>1. TAKE x
  <2>2. ASSUME x \in S \ {q[v]}
        PROVE  \E i \in 1..Len(r) : r[i] = x
    <3>1. PICK k \in 1..n : q[k] = x
      BY <2>2 DEF Queue
    <3>2. PICK i \in 1..(n - 1) : from(i) = k
      BY <1>7, <2>2, <3>1
    <3>3. QED
      BY <1>5, <1>8, <3>1, <3>2
  <2>3. ASSUME NEW i \in 1..Len(r), r[i] = x
        PROVE  x \in S \ {q[v]}
    <3>1. r[i] = q[from(i)] /\ from(i) \in 1..n /\ from(i) # v
      BY <1>5, <1>8
    <3>2. QED
      BY <2>3, <3>1 DEF Queue
  <2>4. QED
    BY <2>2, <2>3
<1>11. QED
  BY <1>4, <1>9, <1>10 DEF Queue, r, a, b

------------------------------------------------------------------------------
(***************************************************************************)
(* The invariants.  CInv holds whatever happens.  FInv is about the        *)
(* lookup and the data: a sector that differs from the disk belongs to the *)
(* part of a write that cache_io() has not come to yet.                    *)
(***************************************************************************)
Requests32k == [phase : {"io"}, mode : {"read", "write", "direct"},
                first : Nat, pos : Nat, end : Nat]
ReqOK == \/ req = Idle
         \/ /\ req \in Requests32k
            /\ req.first <= req.pos /\ req.pos < req.end /\ req.end <= DiskSize
Sectors == 0..(Sin32k - 1)

CInv == /\ on \in BOOLEAN /\ enabled \in BOOLEAN /\ mounted \in BOOLEAN
        /\ Queue(ring, Cached)
        /\ Shape(loc, snext)
        /\ marks \subseteq Cached
        /\ bitmap \subseteq Groups /\ prio \subseteq Groups
        /\ stale \in [Blocks -> SUBSET Sectors]
        /\ ReqOK
        /\ served \in BOOLEAN /\ cause \subseteq Causes

(* sector s of location l is still to be written to its copy by request r  *)
ToCome(r, l, s) == /\ l # NoLoc /\ r.phase = "io" /\ r.mode # "read"
                   /\ r.pos <= l * Sin32k + s /\ l * Sin32k + s < r.end
Behind(l, d, r) == \A b \in Blocks : \A s \in d[b] : ToCome(r, l[b], s)

FInv == /\ \A b \in Blocks : loc[b] # NoLoc => on /\ enabled
        /\ req # Idle => on /\ enabled
        /\ cause = {} => /\ Gathered(loc, snext) /\ BitsOn(loc, bitmap)
                         /\ Behind(loc, stale, req)

(* The blocks of set are freed.                                            *)
LEMMA FreeStep ==
  ASSUME CInv, NEW set \in SUBSET Cached, FreeBlocks(set)
  PROVE  /\ Cached' = Cached \ set
         /\ Queue(ring', Cached')
         /\ Shape(loc', snext')
         /\ marks' \subseteq Cached'
         /\ \A b \in Blocks : loc'[b] = IF b \in set THEN NoLoc ELSE loc[b]
<1>1. /\ ring' = Without(ring, set) /\ loc' = Blank(loc, set, NoLoc)
      /\ snext' = Unlinked(set) /\ marks' = marks \ set
  BY DEF FreeBlocks
<1>2. Shape(loc, snext) /\ Queue(ring, Cached) /\ marks \subseteq Cached
  BY DEF CInv
<1>3. \A b \in Blocks : loc'[b] = IF b \in set THEN NoLoc ELSE loc[b]
  BY <1>1 DEF Blank
<1>4. Cached' = Cached \ set
  BY <1>3 DEF Cached
<1>5. Queue(Without(ring, set), Cached \ set)
  BY <1>2, QueueWithout
<1>6. Shape(Blank(loc, set, NoLoc), Unlinked(set))
  BY <1>2, UnlinkShape
<1>7. QED
  BY <1>1, <1>2, <1>3, <1>4, <1>5, <1>6

(* The block that expand_free() frees is one of the queue.                 *)
LEMMA VictimIs ==
  ASSUME CInv, Cached = Blocks
  PROVE  Victim \in 1..Len(ring) /\ ring[Victim] \in Blocks
<1>1. ring \in Seq(Blocks) /\ Len(ring) \in Nat
  BY DEF CInv, Queue
<1>2. 1 \in 1..Len(ring)
  <2>1. PICK x \in Blocks : TRUE
    BY BlockFacts
  <2>2. PICK i \in 1..Len(ring) : ring[i] = x
    BY DEF CInv, Queue
  <2>3. QED
    BY <1>1, <2>2
<1> DEFINE plain == {i \in 1..Len(ring) : ring[i] \notin marks}
<1>3. CASE plain = {}
  BY <1>1, <1>2, <1>3 DEF Victim
<1>4. CASE plain # {}
  <2>1. plain \in SUBSET Nat
    BY <1>1
  <2>2. Victim = CHOOSE i \in plain : \A j \in plain : i <= j
    BY <1>4 DEF Victim
  <2>3. \E i \in plain : \A j \in plain : i <= j
    <3> HIDE DEF plain
    <3> QED
      BY <1>4, <2>1, LeastNat
  <2>4. Victim \in plain
    <3> HIDE DEF plain
    <3> QED
      BY <2>2, <2>3
  <2>5. QED
    BY <1>1, <2>4
<1>5. QED
  BY <1>3, <1>4

(* What is left of the cache when there is room for one more block.        *)
Left == Blank(loc, Room.free, NoLoc)

LEMMA RoomIs ==
  ASSUME CInv
  PROVE  /\ Room.free \subseteq Blocks
         /\ Left \in [Blocks -> Locs \cup {NoLoc}]
         /\ \A b \in Blocks : Left[b] = IF b \in Room.free THEN NoLoc ELSE loc[b]
         /\ \A b \in Room.free : Left = loc \/ Room.free = {b}
         /\ Queue(Room.ring, Cached \ Room.free)
         /\ Shape(Left, Room.snext)
         /\ Room.marks \subseteq Cached \ Room.free
         /\ Room.bitmap \subseteq bitmap
         /\ \A s \in Blocks \ Room.free : Circle(Room.snext, s) \subseteq Circle(snext, s)
         /\ Gathered(loc, snext) =>
              /\ Gathered(Left, Room.snext)
              /\ BitsOn(loc, bitmap) => BitsOn(Left, Room.bitmap)
<1>1. /\ Shape(loc, snext) /\ Queue(ring, Cached) /\ marks \subseteq Cached
      /\ loc \in [Blocks -> Locs \cup {NoLoc}] /\ Cached \subseteq Blocks
  BY DEF CInv, Shape, Cached
<1>2. /\ Left \in [Blocks -> Locs \cup {NoLoc}]
      /\ \A b \in Blocks : Left[b] = IF b \in Room.free THEN NoLoc ELSE loc[b]
  BY <1>1 DEF Left, Blank
<1>3. CASE Cached # Blocks
  <2>1. /\ Room.free = Blocks \ Cached /\ Room.ring = ring /\ Room.marks = marks
        /\ Room.snext = snext /\ Room.bitmap = bitmap
    BY <1>3 DEF Room
  <2>2. Left = loc
    <3>1. \A b \in Blocks : Left[b] = loc[b]
      BY <1>2, <2>1 DEF Cached
    <3>2. QED
      BY <1>1, <1>2, <3>1
  <2>3. Cached \ Room.free = Cached
    BY <1>1, <2>1
  <2>4. QED
    BY <1>1, <1>2, <2>1, <2>2, <2>3
<1>4. CASE Cached = Blocks
  <2> DEFINE v == ring[Victim]
  <2>1. Victim \in 1..Len(ring) /\ v \in Blocks
    BY <1>4, VictimIs
  <2>2. /\ Room.free = {v} /\ Room.marks = (marks \ Spared) \ {v}
        /\ Room.ring = SubSeq(ring, Victim + 1, Len(ring)) \o SubSeq(ring, 1, Victim - 1)
        /\ Room.snext = Unlinked({v}) /\ Room.bitmap = bitmap \ BitsOff({v})
    BY <1>4 DEF Room
  <2>3. Queue(Room.ring, Cached \ {v})
    <3> HIDE DEF v
    <3>1. Queue(SubSeq(ring, Victim + 1, Len(ring)) \o SubSeq(ring, 1, Victim - 1),
                Cached \ {ring[Victim]})
      BY <1>1, <2>1, QueueRotate
    <3>2. QED
      BY <2>2, <3>1 DEF v
  <2> HIDE DEF v
  <2>4. Shape(Left, Room.snext)
    <3>1. Shape(Blank(loc, {v}, NoLoc), Unlinked({v}))
      BY <1>1, UnlinkShape
    <3>2. QED
      BY <2>2, <3>1 DEF Left
  <2>5. \A s \in Blocks \ {v} : Circle(Room.snext, s) \subseteq Circle(snext, s)
    <3>1. TAKE s \in Blocks \ {v}
    <3>2. Circle(Unlinked({v}), s) = Circle(snext, s) \ {v}
      BY <1>1, UnlinkedCircle DEF Shape
    <3>3. QED
      BY <2>2, <3>2
  <2>6. ASSUME Gathered(loc, snext)
        PROVE  /\ Gathered(Left, Room.snext)
               /\ BitsOn(loc, bitmap) => BitsOn(Left, Room.bitmap)
    <3>1. {v} \in SUBSET Cached
      BY <1>4, <2>1
    <3>2. /\ Gathered(Blank(loc, {v}, NoLoc), Unlinked({v}))
          /\ BitsOn(loc, bitmap) => BitsOn(Blank(loc, {v}, NoLoc), bitmap \ BitsOff({v}))
      BY <1>1, <2>6, <3>1, UnlinkGathered
    <3>3. QED
      BY <2>2, <3>2 DEF Left
  <2>7. QED
    BY <1>1, <1>2, <2>1, <2>2, <2>3, <2>4, <2>5, <2>6
<1>5. QED
  BY <1>3, <1>4

(***************************************************************************)
(* The lookup                                                              *)
(***************************************************************************)
(* slblock is a block of the group, with the bit on; there is one when     *)
(* both are there.                                                         *)
LEMMA SlBlockIs ==
  ASSUME CInv, NEW g
  PROVE  /\ SlBlock(g) # 0 => SlBlock(g) \in Cached /\ GroupOf(loc[SlBlock(g)]) = g /\ g \in bitmap
         /\ SlBlock(g) = 0 => g \notin bitmap \/ \A b \in Cached : GroupOf(loc[b]) # g
<1> DEFINE keyed == {b \in Cached : GroupOf(loc[b]) = g}
           below == IF ring = <<>> THEN {} ELSE {b \in keyed : b < Head(ring)}
<1>1. NBlocks \in Nat /\ keyed \subseteq Blocks /\ below \subseteq keyed /\ Blocks = 1..(NBlocks - 1)
  BY BlockFacts DEF Cached, Blocks
<1>2. ASSUME NEW S \in SUBSET keyed, S # {}
      PROVE  MaxOf(S) \in keyed
  <2>1. S \in SUBSET Nat /\ \A m \in S : m <= NBlocks
    BY <1>1
  <2> HIDE DEF keyed
  <2>2. \E x \in S : \A y \in S : y <= x
    BY <1>1, <1>2, <2>1, GreatestNat
  <2>3. MaxOf(S) \in S
    BY <2>2 DEF MaxOf
  <2>4. QED
    BY <2>3
<1>3. SlBlock(g) = IF g \notin bitmap \/ keyed = {} THEN 0
                   ELSE IF below # {} THEN MaxOf(below) ELSE MaxOf(keyed)
  BY DEF SlBlock
<1>4. 0 \notin Blocks
  BY BlockFacts
<1> HIDE DEF below
<1>5. CASE g \notin bitmap \/ keyed = {}
  BY <1>3, <1>5
<1>6. CASE g \in bitmap /\ keyed # {}
  <2>1. SlBlock(g) \in keyed
    <3> HIDE DEF keyed
    <3> QED
      BY <1>1, <1>2, <1>3, <1>6
  <2>2. QED
    BY <1>1, <1>4, <1>6, <2>1
<1>7. QED
  BY <1>5, <1>6

(* A block that is found holds the location; when none is, the circle of   *)
(* slblock holds no copy.                                                  *)
LEMMA FindIs ==
  ASSUME CInv, NEW l \in Locs
  PROVE  /\ Find(l) # 0 => Find(l) \in Cached /\ loc[Find(l)] = l
         /\ Find(l) = 0 /\ SlBlock(GroupOf(l)) # 0 =>
              \A b \in Circle(snext, SlBlock(GroupOf(l))) : loc[b] # l
<1> DEFINE s == SlBlock(GroupOf(l))
           found == IF s = 0 THEN {} ELSE {b \in Circle(snext, s) : loc[b] = l}
<1>1. Find(l) = IF found = {} THEN 0 ELSE CHOOSE b \in found : TRUE
  BY DEF Find
<1>2. s # 0 => s \in Blocks
  BY SlBlockIs DEF Cached
<1>3. snext \in Ptrs /\ l # NoLoc /\ 0 \notin Blocks
  BY LocFacts, BlockFacts DEF CInv, Shape, Loops
<1>4. s # 0 => Circle(snext, s) \subseteq Blocks
  BY <1>2, <1>3, CircleClosed
<1> HIDE DEF s
<1>5. found \subseteq Blocks /\ \A b \in found : loc[b] = l
  BY <1>4
<1>6. CASE found = {}
  BY <1>1, <1>6 DEF s
<1>7. CASE found # {}
  <2>1. Find(l) \in found
    <3> HIDE DEF found
    <3> QED
      BY <1>1, <1>7
  <2>2. QED
    BY <1>3, <1>5, <2>1 DEF Cached
<1>8. QED
  BY <1>6, <1>7

(* While every group is in one circle and has its bit, every block in use  *)
(* is found by its location.                                               *)
LEMMA FoundIs ==
  ASSUME CInv, Gathered(loc, snext), BitsOn(loc, bitmap), NEW b \in Cached
  PROVE  Find(loc[b]) = b
<1> DEFINE s == SlBlock(GroupOf(loc[b]))
           found == IF s = 0 THEN {} ELSE {c \in Circle(snext, s) : loc[c] = loc[b]}
<1>1. Find(loc[b]) = IF found = {} THEN 0 ELSE CHOOSE c \in found : TRUE
  BY DEF Find
<1>2. b \in Blocks /\ loc[b] # NoLoc
  BY DEF Cached
<1>3. s # 0
  BY <1>2, SlBlockIs DEF BitsOn
<1>4. s \in Blocks /\ loc[s] # NoLoc /\ GroupOf(loc[s]) = GroupOf(loc[b])
  BY <1>3, SlBlockIs DEF Cached
<1> HIDE DEF s
<1>5. b \in Circle(snext, s)
  BY <1>2, <1>4 DEF Gathered
<1>6. Shape(loc, snext) /\ Loops(snext)
  BY DEF CInv, Shape
<1>7. Circle(snext, s) = Circle(snext, b)
  BY <1>4, <1>5, <1>6, CircleSym
<1>8. found = {b}
  BY <1>2, <1>3, <1>5, <1>6, <1>7 DEF Shape
<1> HIDE DEF found
<1>9. QED
  BY <1>1, <1>8

------------------------------------------------------------------------------
(***************************************************************************)
(* Requests                                                                *)
(***************************************************************************)
(* A step of cache_io() deals with the sectors of one location, from pos   *)
(* on.                                                                     *)
LEMMA PieceIs ==
  ASSUME ReqOK, req.phase = "io"
  PROVE  /\ req \in Requests32k
         /\ Where \in Locs /\ Cardinality(Piece) \in Nat \ {0} /\ Piece \subseteq Sectors
         /\ req.pos + Cardinality(Piece) <= req.end
         /\ \A l \in Locs, s \in Sectors :
              req.pos <= l * Sin32k + s /\ l * Sin32k + s < req.pos + Cardinality(Piece)
                <=> l = Where /\ s \in Piece
<1> DEFINE off  == req.pos % Sin32k
           room == Sin32k - off
           left == req.end - req.pos
           n    == IF left < room THEN left ELSE room
           S    == Sin32k
           q    == req.pos \div S
<1>1. req \in Requests32k /\ req.pos < req.end /\ req.end <= DiskSize
  BY DEF ReqOK, Idle
<1>2. S \in Nat \ {0} /\ DiskSize \in Nat \ {0} /\ req.pos \in Nat /\ req.end \in Nat
  BY <1>1, CacheConstants DEF Requests32k
<1>3. q \in Nat /\ off \in 0..(S - 1) /\ req.pos = S * q + off
  BY <1>2, DivMod
<1> HIDE DEF off, q
<1>4. n \in Nat \ {0} /\ off + n <= S /\ req.pos + n <= req.end
  BY <1>1, <1>2, <1>3
<1>5. Piece = off..(off + n - 1)
  BY DEF Piece, off
<1> HIDE DEF n
<1>6. Cardinality(Piece) = n
  <2>1. off \in Int /\ off + n - 1 \in Int /\ ~(off > off + n - 1)
    BY <1>3, <1>4
  <2>2. Cardinality(off..(off + n - 1)) =
          IF off > off + n - 1 THEN 0 ELSE (off + n - 1) - off + 1
    BY <2>1, FS_Interval
  <2>3. (off + n - 1) - off + 1 = n
    BY <1>3, <1>4
  <2>4. QED
    BY <1>5, <2>1, <2>2, <2>3
<1>7. Where = q /\ q \in Locs
  <2>1. q <= (DiskSize - 1) \div S
    <3>1. DiskSize - 1 \in Nat /\ req.pos <= DiskSize - 1
      BY <1>1, <1>2
    <3>2. QED
      BY <1>2, <3>1, DivMono DEF q
  <2>2. (DiskSize - 1) \div S \in Nat
    <3>1. DiskSize - 1 \in Nat
      BY <1>2
    <3>2. QED
      BY <1>2, <3>1, DivMod
  <2>3. QED
    BY <1>3, <2>1, <2>2 DEF Where, LocOf, Locs, q
<1>8. Piece \subseteq Sectors
  <2>1. ASSUME NEW x \in off..(off + n - 1)
        PROVE  x \in 0..(S - 1)
    <3>1. x \in Int /\ off <= x /\ x <= off + n - 1 /\ off \in Nat /\ n \in Nat /\ S \in Nat
      BY <1>2, <1>3, <1>4
    <3>2. QED
      BY <1>4, <3>1
  <2>2. QED
    BY <1>5, <2>1 DEF Sectors
<1>9. ASSUME NEW l \in Locs, NEW s \in Sectors
      PROVE  req.pos <= l * S + s /\ l * S + s < req.pos + n <=> l = q /\ s \in Piece
  <2>1. l \in Nat /\ s \in 0..(S - 1) /\ l * S = S * l /\ S * l \in Nat
    BY <1>2, LocFacts DEF Sectors
  <2>2. ASSUME req.pos <= l * S + s, l * S + s < req.pos + n
        PROVE  l = q
    <3> DEFINE a == S * l + s
               b == S * q + (off + n - 1)
    <3>1. off + n - 1 \in 0..(S - 1) /\ S * q \in Nat
      BY <1>2, <1>3, <1>4
    <3>2. a \in Nat /\ b \in Nat /\ req.pos <= a /\ a <= b
      BY <1>2, <1>3, <1>4, <2>1, <2>2, <3>1
    <3>3. a \div S = l /\ b \div S = q
      BY <1>2, <1>3, <2>1, <3>1, DivUnique
    <3> HIDE DEF a, b
    <3>4. q <= l /\ l <= q
      BY <1>2, <3>2, <3>3, DivMono DEF q
    <3>5. QED
      BY <1>3, <2>1, <3>4
  <2>3. l = q => (req.pos <= l * S + s /\ l * S + s < req.pos + n <=> off <= s /\ s < off + n)
    <3>1. S * q \in Nat
      BY <1>2, <1>3
    <3>2. ASSUME l = q
          PROVE  l * S + s = S * q + s
      BY <2>1, <3>2
    <3> DEFINE k == S * q
    <3>3. k \in Nat /\ req.pos = k + off /\ (l = q => l * S + s = k + s)
      BY <1>3, <3>1, <3>2
    <3> HIDE DEF k
    <3>4. ASSUME l = q, NEW x, x = l * S + s
          PROVE  req.pos <= x /\ x < req.pos + n <=> off <= s /\ s < off + n
      <4>1. x = k + s
        BY <3>3, <3>4
      <4>2. s \in Int /\ off \in Int /\ n \in Int
        BY <1>3, <1>4, <2>1
      <4>3. QED
        BY <3>3, <4>1, <4>2
    <3>5. QED
      BY <3>4
  <2>4. s \in Piece <=> off <= s /\ s < off + n
    BY <1>3, <1>4, <1>5, <2>1
  <2>5. QED
    BY <2>2, <2>3, <2>4
<1>10. QED
  BY <1>1, <1>4, <1>6, <1>7, <1>8, <1>9

(* The request goes on behind the piece, or is over.                       *)
LEMMA AdvanceIs ==
  ASSUME ReqOK, req.phase = "io", Advance
  PROVE  /\ ReqOK'
         /\ \/ req' = Idle /\ req.pos + Cardinality(Piece) = req.end
            \/ /\ req'.phase = "io" /\ req'.mode = req.mode /\ req'.end = req.end
               /\ req'.pos = req.pos + Cardinality(Piece)
<1> DEFINE p == req.pos + Cardinality(Piece)
<1>1. req \in Requests32k /\ Cardinality(Piece) \in Nat \ {0} /\ p <= req.end
  BY PieceIs
<1>2. req' = IF p = req.end THEN Idle ELSE [req EXCEPT !.pos = p]
  BY DEF Advance
<1>3. /\ p \in Nat /\ req.first <= p /\ req.end <= DiskSize /\ req.end \in Nat
      /\ req.pos \in Nat /\ req.first \in Nat
  BY <1>1 DEF ReqOK, Idle, Requests32k
<1> HIDE DEF p
<1>4. CASE p = req.end
  BY <1>2, <1>4 DEF ReqOK, p
<1>5. CASE p # req.end
  <2>1. req' = [req EXCEPT !.pos = p]
    BY <1>2, <1>5
  <2>2. /\ req' \in Requests32k /\ req'.pos = p /\ req'.first = req.first
        /\ req'.end = req.end /\ req'.mode = req.mode /\ req'.phase = "io"
    BY <1>1, <1>3, <2>1 DEF Requests32k
  <2>3. p < req.end
    BY <1>1, <1>3, <1>5 DEF p
  <2>4. ReqOK'
    BY <1>3, <2>2, <2>3 DEF ReqOK
  <2>5. QED
    BY <2>2, <2>4 DEF p
<1>6. QED
  BY <1>4, <1>5

(* What is still to come, but is not in the piece, is to come afterwards.  *)
LEMMA ComesLater ==
  ASSUME ReqOK, req.phase = "io", Advance, NEW l \in Locs \cup {NoLoc}, NEW s \in Sectors,
         ToCome(req, l, s), ~(l = Where /\ s \in Piece)
  PROVE  ToCome(req', l, s)
<1>1. /\ l \in Locs /\ req.mode # "read"
      /\ req.pos <= l * Sin32k + s /\ l * Sin32k + s < req.end
  BY DEF ToCome
<1>2. ~(req.pos <= l * Sin32k + s /\ l * Sin32k + s < req.pos + Cardinality(Piece))
  BY <1>1, PieceIs
<1>3. /\ l * Sin32k + s \in Nat /\ req.pos \in Nat /\ req.end \in Nat
      /\ Cardinality(Piece) \in Nat
  <2>1. l \in Nat /\ Sin32k \in Nat /\ s \in Nat
    BY <1>1, LocFacts, CacheConstants DEF Sectors
  <2>2. l * Sin32k \in Nat
    BY <2>1
  <2>3. QED
    BY <2>1, <2>2, PieceIs DEF Requests32k
<1> DEFINE x == l * Sin32k + s
           c == Cardinality(Piece)
<1>4. x >= req.pos + c
  <2> HIDE DEF x, c
  <2> QED
    BY <1>1, <1>2, <1>3 DEF x, c
<1>5. req' # Idle
  <2>1. req.pos + c # req.end
    <3> HIDE DEF x, c
    <3> QED
      BY <1>1, <1>3, <1>4 DEF x, c
  <2>2. QED
    BY <2>1, AdvanceIs DEF Idle
<1>6. QED
  BY <1>1, <1>4, <1>5, AdvanceIs DEF ToCome

(* A copy of the location is the block that is found.                      *)
LEMMA OnlyCopy ==
  ASSUME CInv, FInv, cause = {}, NEW c \in Blocks, loc[c] # NoLoc, NEW l, loc[c] = l
  PROVE  Find(l) = c
<1>1. c \in Cached /\ Gathered(loc, snext) /\ BitsOn(loc, bitmap)
  BY DEF Cached, FInv
<1>2. QED
  BY <1>1, FoundIs

(* cache_io(): the block is present.                                       *)
LEMMA HitStep ==
  ASSUME CInv, FInv, Hit
  PROVE  CInv' /\ FInv'
<1> DEFINE b == Find(Where)
<1>1. /\ req.phase = "io" /\ b # 0 /\ ReqOK /\ Advance
      /\ ring' = ToTail(ring, b) /\ marks' = Marked(marks, b)
      /\ stale' = [stale EXCEPT ![b] = Copied(@)]
      /\ served' = (served \/ (req.mode = "read" /\ stale[b] \cap Piece # {}))
      /\ UNCHANGED <<on, enabled, mounted, loc, snext, bitmap, prio, cause>>
  BY DEF Hit, CInv
<1>2. Where \in Locs /\ Piece \subseteq Sectors
  BY <1>1, PieceIs
<1>3. b \in Cached /\ loc[b] = Where /\ b \in Blocks
  BY <1>1, <1>2, FindIs DEF Cached
<1> HIDE DEF b
<1>4. Cached' = Cached
  BY <1>1 DEF Cached
<1>5. Queue(ring', Cached')
  <2>1. Queue(Without(ring, {b}), Cached \ {b})
    BY QueueWithout DEF CInv
  <2>2. b \in Blocks \ (Cached \ {b}) /\ (Cached \ {b}) \cup {b} = Cached
    BY <1>3
  <2>3. Queue(Append(Without(ring, {b}), b), (Cached \ {b}) \cup {b})
    BY <2>1, <2>2, QueueAppend
  <2>4. QED
    BY <1>1, <1>4, <2>2, <2>3 DEF ToTail
<1>6. /\ stale' \in [Blocks -> SUBSET Sectors]
      /\ \A c \in Blocks : stale'[c] = IF c = b THEN Copied(stale[c]) ELSE stale[c]
      /\ \A c \in Blocks : stale'[c] \subseteq stale[c] /\ stale[c] \subseteq Sectors
  BY <1>1, <1>3 DEF CInv, Copied
<1>7. marks' \subseteq Cached'
  BY <1>1, <1>3, <1>4 DEF Marked, CInv
<1>8. served' \in BOOLEAN
  BY <1>1 DEF CInv
<1>9. ReqOK'
  BY <1>1, AdvanceIs
<1>10. Shape(loc', snext')
  BY <1>1 DEF CInv
<1>11. CInv'
  BY <1>1, <1>5, <1>6, <1>7, <1>8, <1>9, <1>10 DEF CInv
<1>12. ASSUME cause = {}, NEW c \in Blocks, NEW s \in stale'[c]
       PROVE  ToCome(req', loc[c], s)
  <2>1. s \in stale[c] /\ s \in Sectors /\ loc[c] \in Locs \cup {NoLoc}
    BY <1>6, <1>12 DEF CInv, Shape
  <2>2. ToCome(req, loc[c], s)
    BY <1>12, <2>1 DEF FInv, Behind
  <2>3. ~(loc[c] = Where /\ s \in Piece)
    <3>1. SUFFICES ASSUME loc[c] = Where, s \in Piece PROVE FALSE
      OBVIOUS
    <3>2. c = b
      BY <1>12, <2>2, <3>1, OnlyCopy DEF ToCome, b
    <3>3. stale'[c] = stale[c] \ Piece
      BY <1>6, <2>2, <3>2 DEF Copied, ToCome
    <3>4. QED
      BY <1>12, <3>1, <3>3
  <2>4. QED
    BY <1>1, <2>1, <2>2, <2>3, ComesLater
<1>13. FInv'
  <2>1. on /\ enabled
    BY <1>1 DEF FInv, Idle
  <2>2. cause' = {} => Gathered(loc', snext') /\ BitsOn(loc', bitmap')
    BY <1>1 DEF FInv
  <2>3. cause' = {} => Behind(loc', stale', req')
    BY <1>1, <1>12 DEF Behind
  <2>4. QED
    BY <1>1, <2>1, <2>2, <2>3 DEF FInv
<1>14. QED
  BY <1>11, <1>13

(* cache_io(): nothing is cached.                                          *)
LEMMA SkipStep ==
  ASSUME CInv, FInv, Skip
  PROVE  CInv' /\ FInv'
<1>1. /\ req.phase = "io" /\ Find(Where) = 0 /\ ReqOK /\ Advance
      /\ UNCHANGED <<on, enabled, mounted, ring, loc, snext, marks, bitmap, prio,
                     stale, served, cause>>
  BY DEF Skip, CInv
<1>2. Cached' = Cached
  BY <1>1 DEF Cached
<1>3. ReqOK'
  BY <1>1, AdvanceIs
<1>4. Shape(loc', snext') /\ Queue(ring', Cached')
  BY <1>1, <1>2 DEF CInv
<1>5. CInv'
  BY <1>1, <1>2, <1>3, <1>4 DEF CInv
<1>6. ASSUME cause = {}, NEW c \in Blocks, NEW s \in stale[c]
      PROVE  ToCome(req', loc[c], s)
  <2>1. s \in Sectors /\ loc[c] \in Locs \cup {NoLoc}
    BY <1>6 DEF CInv, Shape
  <2>2. ToCome(req, loc[c], s)
    BY <1>6 DEF FInv, Behind
  <2>3. loc[c] # Where
    BY <1>1, <1>6, <2>2, BlockFacts, OnlyCopy DEF ToCome
  <2>4. QED
    BY <1>1, <2>1, <2>2, <2>3, ComesLater
<1>7. FInv'
  <2>1. on /\ enabled
    BY <1>1 DEF FInv, Idle
  <2>2. cause' = {} => Gathered(loc', snext') /\ BitsOn(loc', bitmap')
    BY <1>1 DEF FInv
  <2>3. cause' = {} => Behind(loc', stale', req')
    BY <1>1, <1>6 DEF Behind
  <2>4. QED
    BY <1>1, <2>1, <2>2, <2>3 DEF FInv
<1>8. QED
  BY <1>5, <1>7

(* cache_io(): a free block takes the location in.                         *)
LEMMA LoadStep ==
  ASSUME CInv, FInv, Load
  PROVE  CInv' /\ FInv'
<1> DEFINE W == Where
           s == SlBlock(GroupOf(W))
<1>1. /\ req.phase = "io" /\ ReqOK /\ Find(W) = 0 /\ Advance
      /\ UNCHANGED <<on, enabled, mounted, prio, served>>
  BY DEF Load, Wanted, CInv
<1>2. PICK b \in Room.free :
             /\ ring' = Append(Room.ring, b)
             /\ loc' = [loc EXCEPT ![b] = W]
             /\ snext' = Linked(Room.snext, b, s)
             /\ marks' = Marked(Room.marks, b)
             /\ bitmap' = IF s = 0 THEN Room.bitmap \cup {GroupOf(W)} ELSE Room.bitmap
             /\ stale' = [stale EXCEPT ![b] = {}]
             /\ cause' = IF s = b THEN cause \cup {"evict"} ELSE cause
  BY DEF Load
<1>3. W \in Locs /\ W # NoLoc /\ GroupOf(W) \in Groups
  BY <1>1, PieceIs, LocFacts
<1>4. /\ s # 0 => s \in Cached /\ GroupOf(loc[s]) = GroupOf(W)
      /\ s = 0 => GroupOf(W) \notin bitmap \/ \A c \in Cached : GroupOf(loc[c]) # GroupOf(W)
      /\ s # 0 => \A x \in Circle(snext, s) : loc[x] # W
  BY <1>1, <1>3, SlBlockIs, FindIs
<1> HIDE DEF s, W
<1>5. /\ b \in Blocks /\ b # 0
      /\ Left \in [Blocks -> Locs \cup {NoLoc}]
      /\ \A c \in Blocks : Left[c] = IF c \in Room.free THEN NoLoc ELSE loc[c]
      /\ Left = loc \/ Room.free = {b}
      /\ Queue(Room.ring, Cached \ Room.free)
      /\ Shape(Left, Room.snext)
      /\ Room.marks \subseteq Cached \ Room.free
      /\ Room.bitmap \subseteq bitmap
      /\ \A c \in Blocks \ Room.free : Circle(Room.snext, c) \subseteq Circle(snext, c)
      /\ Gathered(loc, snext) =>
              /\ Gathered(Left, Room.snext)
              /\ BitsOn(loc, bitmap) => BitsOn(Left, Room.bitmap)
  BY <1>2, RoomIs, BlockFacts
<1>6. Left[b] = NoLoc
  BY <1>2, <1>5
<1>7. loc \in [Blocks -> Locs \cup {NoLoc}]
  BY DEF CInv, Shape
<1>8. loc' = [Left EXCEPT ![b] = W]
  <2>1. \A c \in Blocks \ {b} : Left[c] = loc[c]
    BY <1>5
  <2>2. QED
    BY <1>2, <1>5, <1>7, <2>1
<1>9. /\ loc'[b] = W
      /\ \A c \in Blocks \ {b} : loc'[c] = loc[c] /\ loc'[c] = Left[c]
  BY <1>2, <1>5, <1>7, <1>8
<1>10. Cached' = (Cached \ Room.free) \cup {b}
  <2>1. \A c \in Blocks : c \in Cached' <=> c \in (Cached \ Room.free) \cup {b}
    <3>1. TAKE c \in Blocks
    <3>2. c \in Cached' <=> loc'[c] # NoLoc
      BY DEF Cached
    <3>3. c # b => (c \in Cached \ Room.free <=> Left[c] # NoLoc)
      BY <1>5 DEF Cached
    <3>4. QED
      BY <1>3, <1>9, <3>2, <3>3
  <2>2. Cached' \subseteq Blocks /\ (Cached \ Room.free) \cup {b} \subseteq Blocks
    BY <1>5 DEF Cached
  <2>3. QED
    BY <2>1, <2>2
<1>11. Queue(ring', Cached')
  <2>1. b \in Blocks \ (Cached \ Room.free)
    BY <1>2, <1>5
  <2>2. Queue(Append(Room.ring, b), (Cached \ Room.free) \cup {b})
    BY <1>5, <2>1, QueueAppend
  <2>3. QED
    BY <1>2, <1>10, <2>2
<1>12. s \notin {0, b} => /\ s \in Blocks /\ Left[s] # NoLoc /\ GroupOf(Left[s]) = GroupOf(W)
                         /\ \A x \in Circle(Room.snext, s) : Left[x] # W
  <2>1. HAVE s \notin {0, b}
  <2>2. s \in Blocks /\ loc[s] # NoLoc /\ GroupOf(loc[s]) = GroupOf(W)
    BY <1>4, <2>1 DEF Cached
  <2>3. s \notin Room.free
    BY <1>5, <2>1, <2>2
  <2>4. Left[s] = loc[s]
    BY <1>5, <2>2, <2>3
  <2>5. Circle(Room.snext, s) \subseteq Circle(snext, s)
    BY <1>5, <2>2, <2>3
  <2>6. \A x \in Circle(snext, s) : x \in Blocks /\ loc[x] # W
    <3>1. snext \in Ptrs
      BY DEF CInv, Shape, Loops
    <3>2. QED
      BY <1>4, <2>1, <2>2, <3>1, CircleClosed
  <2>7. QED
    BY <1>3, <1>5, <2>2, <2>4, <2>5, <2>6
<1>13. Shape(loc', snext')
  <2>1. CASE s = 0
    <3>1. Linked(Room.snext, b, 0) = Room.snext /\ Shape([Left EXCEPT ![b] = W], Room.snext)
      BY <1>3, <1>5, <1>6, AloneShape
    <3>2. QED
      BY <1>2, <1>8, <2>1, <3>1
  <2>2. CASE s = b
    <3>1. Shape([Left EXCEPT ![b] = W], Linked(Room.snext, b, b))
      BY <1>3, <1>5, <1>6, SelfShape
    <3>2. QED
      BY <1>2, <1>8, <2>2, <3>1
  <2>3. CASE s \notin {0, b}
    <3>1. Shape([Left EXCEPT ![b] = W], Linked(Room.snext, b, s))
      BY <1>3, <1>5, <1>6, <1>12, <2>3, JoinShape
    <3>2. QED
      BY <1>2, <1>8, <3>1
  <2>4. QED
    BY <2>1, <2>2, <2>3
<1>14. /\ marks' \subseteq Cached' /\ bitmap' \subseteq Groups /\ prio' \subseteq Groups
       /\ stale' \in [Blocks -> SUBSET Sectors] /\ cause' \subseteq Causes
  <2>1. marks' \subseteq Cached'
    BY <1>2, <1>5, <1>10 DEF Marked
  <2>2. bitmap' \subseteq Groups /\ prio' \subseteq Groups
    BY <1>1, <1>2, <1>3, <1>5 DEF CInv
  <2>3. stale' \in [Blocks -> SUBSET Sectors]
    BY <1>2 DEF CInv
  <2>4. cause' \subseteq Causes
    BY <1>2 DEF CInv, Causes
  <2>5. QED
    BY <2>1, <2>2, <2>3, <2>4
<1>15. CInv'
  <2>1. ReqOK'
    BY <1>1, AdvanceIs
  <2>2. /\ on' \in BOOLEAN /\ enabled' \in BOOLEAN /\ mounted' \in BOOLEAN
        /\ served' \in BOOLEAN
    BY <1>1 DEF CInv
  <2>3. QED
    BY <1>11, <1>13, <1>14, <2>1, <2>2 DEF CInv
<1>16. ASSUME cause' = {}
       PROVE  Gathered(loc', snext') /\ BitsOn(loc', bitmap')
  <2>1. cause = {} /\ s # b
    BY <1>2, <1>16
  <2>2. Gathered(loc, snext) /\ BitsOn(loc, bitmap)
    BY <2>1 DEF FInv
  <2>3. Gathered(Left, Room.snext) /\ BitsOn(Left, Room.bitmap)
    BY <1>5, <2>2
  <2>4. CASE s = 0
    <3>1. \A c \in Blocks : loc[c] # NoLoc => GroupOf(loc[c]) # GroupOf(W)
      BY <1>4, <2>2, <2>4 DEF BitsOn, Cached
    <3>2. \A c \in Blocks : Left[c] # NoLoc => GroupOf(Left[c]) # GroupOf(W)
      BY <1>5, <3>1
    <3>3. Linked(Room.snext, b, 0) = Room.snext /\ Gathered([Left EXCEPT ![b] = W], Room.snext)
      BY <1>3, <1>5, <1>6, <2>3, <3>2, AloneShape
    <3>4. Gathered(loc', snext')
      BY <1>2, <1>8, <2>4, <3>3
    <3>5. BitsOn(loc', bitmap')
      BY <1>2, <1>9, <2>3, <2>4 DEF BitsOn
    <3>6. QED
      BY <3>4, <3>5
  <2>5. CASE s # 0
    <3>1. Gathered([Left EXCEPT ![b] = W], Linked(Room.snext, b, s))
      BY <1>3, <1>5, <1>6, <1>12, <2>1, <2>3, <2>5, JoinShape
    <3>2. Gathered(loc', snext')
      BY <1>2, <1>8, <3>1
    <3>3. GroupOf(W) \in Room.bitmap
      BY <1>12, <2>1, <2>3, <2>5 DEF BitsOn
    <3>4. BitsOn(loc', bitmap')
      BY <1>2, <1>9, <2>3, <2>5, <3>3 DEF BitsOn
    <3>5. QED
      BY <3>2, <3>4
  <2>6. QED
    BY <2>4, <2>5
<1>17. ASSUME cause' = {}, NEW c \in Blocks, NEW x \in stale'[c]
       PROVE  ToCome(req', loc'[c], x)
  <2>1. cause = {}
    BY <1>2, <1>17
  <2>2. stale \in [Blocks -> SUBSET Sectors]
    BY DEF CInv
  <2>3. c # b
    BY <1>2, <1>5, <1>17, <2>2
  <2>4. x \in stale[c] /\ x \in Sectors /\ loc[c] \in Locs \cup {NoLoc} /\ loc'[c] = loc[c]
    BY <1>2, <1>5, <1>7, <1>9, <1>17, <2>2, <2>3
  <2>5. ToCome(req, loc[c], x)
    BY <2>1, <2>4 DEF FInv, Behind
  <2>6. loc[c] # W
    <3>1. 0 \notin Blocks /\ loc[c] # NoLoc
      BY <2>5, BlockFacts DEF ToCome
    <3>2. QED
      BY <1>1, <2>1, <3>1, OnlyCopy
  <2>7. ToCome(req', loc[c], x)
    BY <1>1, <2>4, <2>5, <2>6, ComesLater DEF W
  <2>8. QED
    BY <2>4, <2>7
<1>18. FInv'
  <2>1. on' /\ enabled'
    BY <1>1 DEF FInv, Idle
  <2>2. cause' = {} => Behind(loc', stale', req')
    BY <1>17 DEF Behind
  <2>3. QED
    BY <1>16, <2>1, <2>2 DEF FInv
<1>19. QED
  BY <1>15, <1>18

(* cache_io(): the disk refuses to read the location.                      *)
LEMMA LoadFailsStep ==
  ASSUME CInv, FInv, LoadFails
  PROVE  CInv' /\ FInv'
<1>1. /\ req.phase = "io" /\ req.mode = "read" /\ req' = Idle
      /\ ring' = Room.ring /\ loc' = Left /\ snext' = Room.snext
      /\ marks' = Room.marks /\ bitmap' = Room.bitmap
      /\ stale' = Blank(stale, Room.free, {})
      /\ UNCHANGED <<on, enabled, mounted, prio, served, cause>>
  BY DEF LoadFails, Wanted, Left
<1>2. /\ Left \in [Blocks -> Locs \cup {NoLoc}]
      /\ \A c \in Blocks : Left[c] = IF c \in Room.free THEN NoLoc ELSE loc[c]
      /\ Queue(Room.ring, Cached \ Room.free)
      /\ Shape(Left, Room.snext)
      /\ Room.marks \subseteq Cached \ Room.free
      /\ Room.bitmap \subseteq bitmap
      /\ Gathered(loc, snext) =>
              /\ Gathered(Left, Room.snext)
              /\ BitsOn(loc, bitmap) => BitsOn(Left, Room.bitmap)
  BY RoomIs
<1>3. Cached' = Cached \ Room.free
  BY <1>1, <1>2 DEF Cached
<1>4. /\ stale' \in [Blocks -> SUBSET Sectors]
      /\ \A c \in Blocks : stale'[c] \subseteq stale[c]
  BY <1>1 DEF CInv, Blank
<1>5. CInv'
  <2>1. ReqOK'
    BY <1>1 DEF ReqOK
  <2>2. /\ on' \in BOOLEAN /\ enabled' \in BOOLEAN /\ mounted' \in BOOLEAN
        /\ served' \in BOOLEAN /\ cause' \subseteq Causes
    BY <1>1 DEF CInv
  <2>3. bitmap' \subseteq Groups /\ prio' \subseteq Groups
    BY <1>1, <1>2 DEF CInv
  <2>4. Queue(ring', Cached') /\ Shape(loc', snext') /\ marks' \subseteq Cached'
    BY <1>1, <1>2, <1>3
  <2>5. QED
    BY <1>4, <2>1, <2>2, <2>3, <2>4 DEF CInv
<1>6. FInv'
  <2>1. on' /\ enabled'
    BY <1>1 DEF FInv, Idle
  <2>2. cause' = {} => Gathered(loc', snext') /\ BitsOn(loc', bitmap')
    BY <1>1, <1>2 DEF FInv
  <2>3. cause = {} => \A c \in Blocks : stale[c] = {}
    BY <1>1 DEF FInv, Behind, ToCome
  <2>4. cause' = {} => Behind(loc', stale', req')
    BY <1>1, <1>4, <2>3 DEF Behind
  <2>5. QED
    BY <1>1, <2>1, <2>2, <2>4 DEF FInv
<1>7. QED
  BY <1>5, <1>6

------------------------------------------------------------------------------
(***************************************************************************)
(* The calls                                                               *)
(***************************************************************************)
(* A write on the disk makes sectors of the copies stale, nothing else.    *)
LEMMA OnDiskIs ==
  ASSUME CInv, NEW lo, NEW hi
  PROVE  /\ OnDisk(lo, hi) \in [Blocks -> SUBSET Sectors]
         /\ \A b \in Blocks : loc[b] = NoLoc => OnDisk(lo, hi)[b] = {}
         /\ \A b \in Blocks : loc[b] # NoLoc =>
              OnDisk(lo, hi)[b] = stale[b] \cup {s \in Sectors : loc[b] * Sin32k + s \in lo..(hi - 1)}
<1>1. stale \in [Blocks -> SUBSET Sectors]
  BY DEF CInv
<1>2. \A b \in Blocks :
        OnDisk(lo, hi)[b] = IF loc[b] = NoLoc THEN {}
          ELSE stale[b] \cup {s \in Sectors : loc[b] * Sin32k + s \in lo..(hi - 1)}
  BY DEF OnDisk, Sectors
<1>3. OnDisk(lo, hi) = [b \in Blocks |-> OnDisk(lo, hi)[b]]
  BY DEF OnDisk
<1>4. \A b \in Blocks : OnDisk(lo, hi)[b] \subseteq Sectors
  BY <1>1, <1>2
<1>5. QED
  BY <1>2, <1>3, <1>4

(* Between requests no copy is stale, as long as cause = {}.               *)
LEMMA IdleFresh ==
  ASSUME CInv, FInv, req = Idle, cause = {}
  PROVE  \A b \in Blocks : stale[b] = {}
BY DEF FInv, Behind, ToCome, Idle

(* hlp_diskread(), hlp_diskwrite(): a request begins.                      *)
LEMMA BeginStep ==
  ASSUME CInv, FInv, NEW h, NEW p \in 0..(DiskSize - 1), NEW n \in 1..DiskSize,
         Read(h, p, n) \/ Write(h, p, n)
  PROVE  CInv' /\ FInv'
<1>1. /\ req = Idle /\ p + n <= DiskSize /\ on /\ enabled
      /\ UNCHANGED <<on, enabled, mounted, ring, loc, snext, marks, bitmap, prio, served, cause>>
  BY DEF Read, Write, Ready, Serves
<1>2. \/ stale' = stale /\ req' = Io("read", p, n)
      \/ stale' = OnDisk(p, p + n) /\ req' \in {Io("write", p, n), Io("direct", p, n)}
  BY DEF Read, Write
<1>3. p \in Nat /\ n \in Nat \ {0} /\ p + n \in Nat /\ DiskSize \in Nat
  BY CacheConstants
<1>4. ReqOK' /\ req'.phase = "io" /\ req'.pos = p /\ req'.end = p + n
  <2>1. PICK m \in {"read", "write", "direct"} : req' = Io(m, p, n)
    BY <1>2
  <2>2. req' \in Requests32k
    BY <1>3, <2>1 DEF Io, Requests32k
  <2>3. req'.first = p /\ req'.pos = p /\ req'.end = p + n /\ req'.phase = "io"
    BY <2>1 DEF Io
  <2>4. p <= p /\ p < p + n
    BY <1>3
  <2>5. QED
    BY <1>1, <2>2, <2>3, <2>4 DEF ReqOK
<1>5. stale' \in [Blocks -> SUBSET Sectors]
  BY <1>2, OnDiskIs DEF CInv
<1>6. Cached' = Cached
  BY <1>1 DEF Cached
<1>7. CInv'
  <2>1. Queue(ring', Cached') /\ Shape(loc', snext') /\ marks' \subseteq Cached'
    BY <1>1, <1>6 DEF CInv
  <2>2. QED
    BY <1>1, <1>4, <1>5, <2>1 DEF CInv
<1>8. ASSUME cause = {}, NEW b \in Blocks, NEW s \in stale'[b]
      PROVE  ToCome(req', loc[b], s)
  <2>1. stale[b] = {}
    BY <1>1, <1>8, IdleFresh
  <2>2. stale' = OnDisk(p, p + n) /\ req' \in {Io("write", p, n), Io("direct", p, n)}
    BY <1>2, <1>8, <2>1
  <2>3. loc[b] # NoLoc /\ s \in Sectors /\ loc[b] * Sin32k + s \in p..(p + n - 1)
    BY <1>8, <2>1, <2>2, OnDiskIs
  <2>4. req'.mode # "read"
    BY <2>2 DEF Io
  <2>5. p <= loc[b] * Sin32k + s /\ loc[b] * Sin32k + s < p + n
    <3> DEFINE x == loc[b] * Sin32k + s
    <3>1. x \in p..(p + n - 1)
      BY <2>3
    <3> HIDE DEF x
    <3>2. p <= x /\ x < p + n
      BY <1>3, <3>1
    <3>3. QED
      BY <3>2 DEF x
  <2>6. QED
    BY <1>4, <2>3, <2>4, <2>5 DEF ToCome
<1>9. FInv'
  <2>1. cause' = {} => Gathered(loc', snext') /\ BitsOn(loc', bitmap')
    BY <1>1 DEF FInv
  <2>2. cause' = {} => Behind(loc', stale', req')
    BY <1>1, <1>8 DEF Behind
  <2>3. QED
    BY <1>1, <2>1, <2>2 DEF FInv
<1>10. QED
  BY <1>7, <1>9

(* hlp_diskwrite() when the disk or the cache does not take part.          *)
LEMMA AsideStep ==
  ASSUME CInv, FInv, NEW h, NEW p \in 0..(DiskSize - 1), NEW n \in 1..DiskSize,
         WriteFails(h, p, n) \/ WriteThrough(h, p, n)
  PROVE  CInv' /\ FInv'
<1>1. /\ req = Idle
      /\ UNCHANGED <<on, enabled, mounted, ring, loc, snext, marks, bitmap, prio, req, served>>
  BY DEF WriteFails, WriteThrough, Ready
<1>2. \E hi : stale' = OnDisk(p, hi)
  BY DEF WriteFails, WriteThrough
<1>3. stale' \in [Blocks -> SUBSET Sectors]
  BY <1>2, OnDiskIs
<1>4. cause' \subseteq Causes
  BY DEF WriteFails, WriteThrough, CInv, Causes
<1>5. cause' = {} => cause = {} /\ \A b \in Blocks : stale'[b] = {}
  <2>1. HAVE cause' = {}
  <2>2. CASE WriteFails(h, p, n)
    <3>1. cause = {} /\ stale' = stale
      BY <2>1, <2>2 DEF WriteFails
    <3>2. QED
      BY <1>1, <3>1, IdleFresh
  <2>3. CASE WriteThrough(h, p, n)
    <3>1. cause = {} /\ ~enabled
      BY <2>1, <2>3 DEF WriteThrough
    <3>2. \A b \in Blocks : loc[b] = NoLoc
      BY <3>1 DEF FInv
    <3>3. QED
      BY <1>2, <3>1, <3>2, OnDiskIs
  <2>4. QED
    BY <2>2, <2>3
<1>6. Cached' = Cached
  BY <1>1 DEF Cached
<1>7. CInv'
  <2>1. Queue(ring', Cached') /\ Shape(loc', snext') /\ marks' \subseteq Cached' /\ ReqOK'
    BY <1>1, <1>6 DEF CInv, ReqOK
  <2>2. QED
    BY <1>1, <1>3, <1>4, <2>1 DEF CInv
<1>8. FInv'
  <2>1. cause' = {} => Gathered(loc', snext') /\ BitsOn(loc', bitmap')
    BY <1>1, <1>5 DEF FInv
  <2>2. cause' = {} => Behind(loc', stale', req')
    BY <1>5 DEF Behind
  <2>3. QED
    BY <1>1, <2>1, <2>2 DEF FInv
<1>9. QED
  BY <1>7, <1>8

(* cc_invalidate(): what stays is a cache in order.  When the call names   *)
(* the disk with flags no block is freed, but a full clear switches every  *)
(* bit off.                                                                *)
LEMMA ClearedIs ==
  ASSUME CInv, NEW h, NEW p \in 0..(DiskSize - 1), NEW n \in 1..DiskSize, p + n <= DiskSize,
         Cleared(h, p, n)
  PROVE  /\ Queue(ring', Cached') /\ Shape(loc', snext') /\ marks' \subseteq Cached'
         /\ bitmap' \subseteq Groups /\ prio' \subseteq Groups
         /\ \A b \in Blocks : loc'[b] \in {loc[b], NoLoc}
         /\ \A b \in Blocks : loc'[b] # NoLoc =>
              h # "plain" \/ (n # DiskSize /\ loc[b] \notin LocOf(p)..LocOf(p + n - 1))
         /\ Gathered(loc, snext) /\ BitsOn(loc, bitmap) =>
              /\ Gathered(loc', snext')
              /\ BitsOn(loc', bitmap') \/ (p = 0 /\ n = DiskSize)
<1>1. DiskSize \in Nat \ {0} /\ Sin32k \in Nat \ {0} /\ p \in Nat /\ n \in Nat
  BY CacheConstants
<1>2. loc \in [Blocks -> Locs \cup {NoLoc}] /\ bitmap \subseteq Groups /\ prio \subseteq Groups
      /\ Shape(loc, snext)
  BY DEF CInv, Shape
<1>3. Mine(h) \in SUBSET Cached
  BY DEF Mine
<1>4. \A set \in SUBSET Cached : FreeBlocks(set) =>
        /\ Queue(ring', Cached') /\ Shape(loc', snext') /\ marks' \subseteq Cached'
        /\ \A b \in Blocks : loc'[b] = IF b \in set THEN NoLoc ELSE loc[b]
        /\ Gathered(loc, snext) =>
             /\ Gathered(loc', snext')
             /\ BitsOn(loc, bitmap) => BitsOn(loc', bitmap \ BitsOff(set))
  <2>1. TAKE set \in SUBSET Cached
  <2>2. HAVE FreeBlocks(set)
  <2>3. /\ Queue(ring', Cached') /\ Shape(loc', snext') /\ marks' \subseteq Cached'
        /\ \A b \in Blocks : loc'[b] = IF b \in set THEN NoLoc ELSE loc[b]
    BY <2>2, FreeStep
  <2>4. loc' = Blank(loc, set, NoLoc) /\ snext' = Unlinked(set)
    BY <2>2 DEF FreeBlocks
  <2>5. Gathered(loc, snext) =>
          /\ Gathered(Blank(loc, set, NoLoc), Unlinked(set))
          /\ BitsOn(loc, bitmap) => BitsOn(Blank(loc, set, NoLoc), bitmap \ BitsOff(set))
    BY <1>2, UnlinkGathered
  <2>6. QED
    BY <2>3, <2>4, <2>5
<1>5. CASE n = DiskSize
  <2>1. FreeBlocks(Mine(h)) /\ bitmap' = {} /\ prio' = {} /\ p = 0
    BY <1>1, <1>5 DEF Cleared, InvalidateAll
  <2>2. \A b \in Blocks : loc'[b] # NoLoc => h # "plain"
    BY <1>3, <1>4, <2>1 DEF Mine, Cached
  <2>3. \A b \in Blocks : loc'[b] \in {loc[b], NoLoc}
    BY <1>3, <1>4, <2>1
  <2>4. QED
    BY <1>3, <1>4, <1>5, <2>1, <2>2, <2>3
<1>6. CASE n # DiskSize
  <2> DEFINE set == {b \in Mine(h) : loc[b] \in LocOf(p)..LocOf(p + n - 1)}
  <2>1. FreeBlocks(set) /\ bitmap' = bitmap \ BitsOff(set) /\ prio' = prio
    BY <1>6 DEF Cleared, InvalidatePart
  <2>2. set \in SUBSET Cached
    BY <1>3
  <2>3. \A b \in Blocks : b \notin set /\ loc[b] # NoLoc =>
           h # "plain" \/ loc[b] \notin LocOf(p)..LocOf(p + n - 1)
    BY DEF Mine, Cached
  <2> HIDE DEF set
  <2>4. \A b \in Blocks : loc'[b] = IF b \in set THEN NoLoc ELSE loc[b]
    BY <1>4, <2>1, <2>2
  <2>5. QED
    BY <1>2, <1>4, <1>6, <2>1, <2>2, <2>3, <2>4
<1>7. QED
  BY <1>5, <1>6

(* A location lies on the disk.                                            *)
LEMMA LocOnDisk ==
  ASSUME NEW l \in Locs
  PROVE  0 \in Sectors /\ l * Sin32k + 0 \in 0..(DiskSize - 1)
<1>1. DiskSize \in Nat \ {0} /\ Sin32k \in Nat \ {0} /\ l \in Nat
  BY CacheConstants, LocFacts
<1>2. DiskSize - 1 \in Nat
  BY <1>1
<1> DEFINE q == (DiskSize - 1) \div Sin32k
<1>3. /\ q \in Nat /\ (DiskSize - 1) % Sin32k \in Nat
      /\ DiskSize - 1 = q * Sin32k + ((DiskSize - 1) % Sin32k)
  BY <1>1, <1>2, DivMod
<1>4. l \in 0..q
  BY DEF Locs
<1> HIDE DEF q
<1>5. l * Sin32k <= q * Sin32k
  BY <1>1, <1>3, <1>4
<1>6. l * Sin32k \in Nat /\ q * Sin32k \in Nat
  BY <1>1, <1>3
<1>7. l * Sin32k <= DiskSize - 1
  BY <1>3, <1>5, <1>6, <1>2
<1>8. QED
  BY <1>1, <1>6, <1>7 DEF Sectors

(* A write that is not cached, only invalidates.                           *)
LEMMA LongWriteStep ==
  ASSUME CInv, FInv, NEW h, NEW p \in 0..(DiskSize - 1), NEW n \in 1..DiskSize,
         LongWrite(h, p, n)
  PROVE  CInv' /\ FInv'
<1>1. /\ req = Idle /\ p + n <= DiskSize /\ on /\ enabled
      /\ UNCHANGED <<on, enabled, mounted, req, served>>
      /\ Cleared(h, p, n)
      /\ stale' = [b \in Blocks |-> IF loc'[b] = NoLoc THEN {} ELSE OnDisk(p, p + n)[b]]
      /\ cause' = IF \E b \in Cached : loc'[b] # NoLoc /\ stale'[b] # stale[b]
                  THEN cause \cup {"flags"} ELSE cause
  BY DEF LongWrite, Ready, Serves
<1>2. /\ Queue(ring', Cached') /\ Shape(loc', snext') /\ marks' \subseteq Cached'
      /\ bitmap' \subseteq Groups /\ prio' \subseteq Groups
      /\ \A b \in Blocks : loc'[b] \in {loc[b], NoLoc}
      /\ Gathered(loc, snext) /\ BitsOn(loc, bitmap) =>
           /\ Gathered(loc', snext')
           /\ BitsOn(loc', bitmap') \/ (p = 0 /\ n = DiskSize)
  BY <1>1, ClearedIs
<1>3. \A b \in Blocks : stale'[b] = IF loc'[b] = NoLoc THEN {} ELSE OnDisk(p, p + n)[b]
  BY <1>1
<1>4. OnDisk(p, p + n) \in [Blocks -> SUBSET Sectors]
  BY OnDiskIs
<1>5. stale' \in [Blocks -> SUBSET Sectors]
  <2>1. \A b \in Blocks : stale'[b] \subseteq Sectors
    BY <1>3, <1>4
  <2>2. stale' = [b \in Blocks |-> stale'[b]]
    BY <1>1
  <2>3. QED
    BY <2>1, <2>2
<1>6. CInv'
  <2>1. ReqOK' /\ cause' \subseteq Causes
    BY <1>1 DEF CInv, ReqOK, Causes
  <2>2. QED
    BY <1>1, <1>2, <1>5, <2>1 DEF CInv
<1>7. ASSUME cause' = {}
      PROVE  cause = {} /\ \A b \in Blocks : stale'[b] = {}
  <2>1. cause = {} /\ \A b \in Cached : loc'[b] # NoLoc => stale'[b] = stale[b]
    BY <1>1, <1>7
  <2>2. \A b \in Blocks : stale[b] = {}
    BY <1>1, <2>1, IdleFresh
  <2>3. \A b \in Blocks : loc'[b] # NoLoc => b \in Cached
    BY <1>2 DEF Cached
  <2>4. QED
    BY <1>3, <2>1, <2>2, <2>3
<1>8. ASSUME cause' = {}, p = 0, n = DiskSize
      PROVE  BitsOn(loc', bitmap')
  <2>1. SUFFICES ASSUME NEW b \in Blocks, loc'[b] # NoLoc
                 PROVE  FALSE
    BY DEF BitsOn
  <2>2. loc[b] # NoLoc /\ loc[b] \in Locs
    BY <1>2, <2>1 DEF CInv, Shape
  <2>3. 0 \in Sectors /\ loc[b] * Sin32k + 0 \in 0..(DiskSize - 1)
    BY <2>2, LocOnDisk
  <2>4. p + n = DiskSize
    BY <1>8, CacheConstants
  <2>5. 0 \in OnDisk(0, DiskSize)[b]
    BY <2>2, <2>3, OnDiskIs
  <2>6. 0 \in stale'[b]
    BY <1>3, <1>8, <2>1, <2>4, <2>5
  <2>7. QED
    BY <1>7, <1>8, <2>6
<1>9. FInv'
  <2>1. cause' = {} => Gathered(loc', snext') /\ BitsOn(loc', bitmap')
    BY <1>2, <1>7, <1>8 DEF FInv
  <2>2. cause' = {} => Behind(loc', stale', req')
    BY <1>7 DEF Behind
  <2>3. QED
    BY <1>1, <1>2, <2>1, <2>2 DEF FInv
<1>10. QED
  BY <1>6, <1>9

(* cc_invalidate() of the disk, by its plain number.                       *)
LEMMA InvalidateStep ==
  ASSUME CInv, FInv, NEW p \in 0..(DiskSize - 1), NEW n \in 1..DiskSize,
         Invalidate(p, n)
  PROVE  CInv' /\ FInv'
<1>1. /\ req = Idle /\ p + n <= DiskSize
      /\ UNCHANGED <<on, enabled, mounted, req, served, cause>>
      /\ Cleared("plain", p, n)
      /\ stale' = [b \in Blocks |-> IF loc'[b] = NoLoc THEN {} ELSE stale[b]]
  BY DEF Invalidate, Ready
<1>2. /\ Queue(ring', Cached') /\ Shape(loc', snext') /\ marks' \subseteq Cached'
      /\ bitmap' \subseteq Groups /\ prio' \subseteq Groups
      /\ \A b \in Blocks : loc'[b] \in {loc[b], NoLoc}
      /\ \A b \in Blocks : loc'[b] # NoLoc => n # DiskSize
      /\ Gathered(loc, snext) /\ BitsOn(loc, bitmap) =>
           /\ Gathered(loc', snext')
           /\ BitsOn(loc', bitmap') \/ (p = 0 /\ n = DiskSize)
  BY <1>1, ClearedIs
<1>3. \A b \in Blocks : stale'[b] = IF loc'[b] = NoLoc THEN {} ELSE stale[b]
  BY <1>1
<1>4. stale' \in [Blocks -> SUBSET Sectors]
  <2>1. \A b \in Blocks : stale'[b] \subseteq Sectors
    BY <1>3 DEF CInv
  <2>2. stale' = [b \in Blocks |-> stale'[b]]
    BY <1>1
  <2>3. QED
    BY <2>1, <2>2
<1>5. CInv'
  <2>1. ReqOK'
    BY <1>1 DEF CInv, ReqOK
  <2>2. QED
    BY <1>1, <1>2, <1>4, <2>1 DEF CInv
<1>6. cause' = {} => Gathered(loc', snext') /\ BitsOn(loc', bitmap')
  BY <1>1, <1>2 DEF FInv, BitsOn
<1>7. cause' = {} => Behind(loc', stale', req')
  <2>1. HAVE cause' = {}
  <2>2. \A b \in Blocks : stale[b] = {}
    BY <1>1, <2>1, IdleFresh
  <2>3. QED
    BY <1>3, <2>2 DEF Behind
<1>8. FInv'
  BY <1>1, <1>2, <1>6, <1>7 DEF FInv
<1>9. QED
  BY <1>5, <1>8

(* A cache without blocks is in order.                                     *)
LEMMA EmptyIs ==
  ASSUME NEW q, q = <<>>, NEW l, l = [b \in Blocks |-> NoLoc],
         NEW f, f = [b \in Blocks |-> 0]
  PROVE  Queue(q, {}) /\ Shape(l, f) /\ f \in Ptrs
<1>1. Queue(q, {})
  BY DEF Queue
<1>2. f \in Ptrs /\ \A b \in Blocks : f[b] = 0 /\ l[b] = NoLoc
  BY DEF Ptrs
<1>3. l \in [Blocks -> Locs \cup {NoLoc}]
  OBVIOUS
<1>4. Loops(f)
  BY <1>2 DEF Loops
<1>5. QED
  BY <1>1, <1>2, <1>3, <1>4 DEF Shape

(* cc_setsize()                                                            *)
LEMMA SizeStep ==
  ASSUME CInv, FInv, SizeOn \/ SizeOff
  PROVE  CInv' /\ FInv'
<1>1. /\ req = Idle /\ NewLists /\ on' \in BOOLEAN
      /\ UNCHANGED <<enabled, mounted, bitmap, req, served, cause>>
      /\ prio' \in {prio, prio \cup SysGroups}
  BY DEF SizeOn, SizeOff
<1>2. ring' = <<>> /\ loc' = [b \in Blocks |-> NoLoc] /\ snext' = [b \in Blocks |-> 0]
  BY <1>1 DEF NewLists
<1>3. marks' = {} /\ stale' = [b \in Blocks |-> {}]
  BY <1>1 DEF NewLists
<1>4. Queue(ring', {}) /\ Shape(loc', snext')
  BY <1>2, EmptyIs
<1>5. \A b \in Blocks : loc'[b] = NoLoc /\ stale'[b] = {}
  BY <1>2, <1>3
<1>6. Cached' = {}
  BY <1>5 DEF Cached
<1>7. CInv'
  <2>1. ReqOK' /\ prio' \subseteq Groups
    BY <1>1 DEF CInv, ReqOK, SysGroups
  <2>2. stale' \in [Blocks -> SUBSET Sectors]
    BY <1>3
  <2>3. QED
    BY <1>1, <1>3, <1>4, <1>6, <2>1, <2>2 DEF CInv
<1>8. FInv'
  BY <1>1, <1>5 DEF FInv, Gathered, BitsOn, Behind
<1>9. QED
  BY <1>7, <1>8

(* cc_enable()                                                             *)
LEMMA EnableStep ==
  ASSUME CInv, FInv, Enable \/ Disable
  PROVE  CInv' /\ FInv'
<1>1. /\ req = Idle /\ enabled' \in BOOLEAN
      /\ UNCHANGED <<on, mounted, req, served, cause>>
  BY DEF Enable, Disable
<1>2. ReqOK'
  BY <1>1 DEF CInv, ReqOK
<1>3. CASE Enable
  <2>1. UNCHANGED <<ring, loc, snext, marks, bitmap, prio, stale>> /\ enabled'
    BY <1>3 DEF Enable
  <2>2. Cached' = Cached
    BY <2>1 DEF Cached
  <2>3. Queue(ring', Cached') /\ Shape(loc', snext') /\ marks' \subseteq Cached'
    BY <2>1, <2>2 DEF CInv
  <2>4. CInv'
    BY <1>1, <1>2, <2>1, <2>3 DEF CInv
  <2>5. FInv'
    BY <1>1, <2>1 DEF FInv
  <2>6. QED
    BY <2>4, <2>5
<1>4. CASE Disable
  <2>1. stale' = [b \in Blocks |-> {}]
    BY <1>4 DEF Disable
  <2>2. /\ Queue(ring', Cached') /\ Shape(loc', snext') /\ marks' \subseteq Cached'
        /\ bitmap' \subseteq Groups /\ prio' \subseteq Groups
        /\ \A b \in Blocks : loc'[b] = NoLoc
    <3>1. CASE on
      <4>1. FreeBlocks(Mine("plain")) /\ bitmap' = {} /\ prio' = {}
        BY <1>4, <3>1 DEF Disable, InvalidateAll
      <4>2. Mine("plain") = Cached
        BY DEF Mine
      <4>3. \A b \in Blocks : b \notin Cached => loc[b] = NoLoc
        BY DEF Cached
      <4>4. QED
        BY <4>1, <4>2, <4>3, FreeStep
    <3>2. CASE ~on
      <4>1. UNCHANGED <<ring, loc, snext, marks, bitmap, prio>>
        BY <1>4, <3>2 DEF Disable
      <4>2. Cached' = Cached
        BY <4>1 DEF Cached
      <4>3. QED
        BY <3>2, <4>1, <4>2 DEF CInv, FInv
    <3>3. QED
      BY <3>1, <3>2
  <2>3. CInv'
    <3>1. stale' \in [Blocks -> SUBSET Sectors]
      BY <2>1
    <3>2. QED
      BY <1>1, <1>2, <2>2, <3>1 DEF CInv
  <2>4. FInv'
    BY <1>1, <2>1, <2>2 DEF FInv, Gathered, BitsOn, Behind
  <2>5. QED
    BY <2>3, <2>4
<1>5. QED
  BY <1>3, <1>4

(* Mounting, unmounting, cc_setprio(), and what changes nothing.           *)
LEMMA MarkStep ==
  ASSUME CInv, FInv, Mount \/ Unmount \/ SetPrio \/ UNCHANGED vars
  PROVE  CInv' /\ FInv'
<1>1. /\ mounted' \in BOOLEAN
      /\ UNCHANGED <<on, enabled, ring, loc, snext, marks, bitmap, stale, req, served, cause>>
  BY DEF Mount, Unmount, SetPrio, vars, CInv
<1>2. prio' \in {prio, prio \cup SysGroups, prio \ SysGroups}
  BY DEF Mount, Unmount, SetPrio, vars
<1>3. prio' \subseteq Groups
  BY <1>2 DEF CInv, SysGroups
<1>4. Cached' = Cached
  BY <1>1 DEF Cached
<1>5. Queue(ring', Cached') /\ Shape(loc', snext') /\ marks' \subseteq Cached' /\ ReqOK'
  BY <1>1, <1>4 DEF CInv, ReqOK
<1>6. CInv'
  BY <1>1, <1>3, <1>5 DEF CInv
<1>7. FInv'
  BY <1>1 DEF FInv
<1>8. QED
  BY <1>6, <1>7

------------------------------------------------------------------------------
(***************************************************************************)
(* The theorems                                                            *)
(***************************************************************************)
(* The cache is not installed yet.                                         *)
LEMMA InitIs ==
  Init => CInv /\ FInv
<1> SUFFICES ASSUME Init PROVE CInv /\ FInv
  OBVIOUS
<1>1. ring = <<>> /\ loc = [b \in Blocks |-> NoLoc] /\ snext = [b \in Blocks |-> 0]
  BY DEF Init
<1>2. Queue(ring, {}) /\ Shape(loc, snext)
  BY <1>1, EmptyIs
<1>3. stale = [b \in Blocks |-> {}] /\ req = Idle
  BY DEF Init
<1>4. \A b \in Blocks : loc[b] = NoLoc /\ stale[b] = {}
  BY <1>1, <1>3
<1>5. Cached = {}
  BY <1>4 DEF Cached
<1>6. stale \in [Blocks -> SUBSET Sectors]
  BY <1>3
<1>7. CInv
  BY <1>2, <1>3, <1>5, <1>6 DEF CInv, Init, ReqOK
<1>8. FInv
  BY <1>3, <1>4 DEF FInv, Gathered, BitsOn, Behind
<1>9. QED
  BY <1>7, <1>8

(* Every step keeps both invariants.                                       *)
LEMMA NextIs ==
  CInv /\ FInv /\ [Next]_vars => CInv' /\ FInv'
<1> SUFFICES ASSUME CInv, FInv, [Next]_vars PROVE CInv' /\ FInv'
  OBVIOUS
<1>1. CASE Hit
  BY <1>1, HitStep
<1>2. CASE Skip
  BY <1>2, SkipStep
<1>3. CASE Load
  BY <1>3, LoadStep
<1>4. CASE LoadFails
  BY <1>4, LoadFailsStep
<1>5. CASE Requests
  <2>1. PICK p \in 0..(DiskSize - 1), n \in 1..DiskSize :
          \/ \E h \in Handles : \/ Read(h, p, n) \/ Write(h, p, n) \/ WriteFails(h, p, n)
                                \/ LongWrite(h, p, n) \/ WriteThrough(h, p, n)
          \/ Invalidate(p, n)
    BY <1>5 DEF Requests
  <2>2. CASE Invalidate(p, n)
    BY <2>2, InvalidateStep
  <2>3. ASSUME NEW h \in Handles,
               \/ Read(h, p, n) \/ Write(h, p, n) \/ WriteFails(h, p, n)
               \/ LongWrite(h, p, n) \/ WriteThrough(h, p, n)
        PROVE  CInv' /\ FInv'
    BY <2>3, BeginStep, AsideStep, LongWriteStep
  <2>4. QED
    BY <2>1, <2>2, <2>3
<1>6. CASE Enable \/ Disable
  BY <1>6, EnableStep
<1>7. CASE Mount \/ Unmount \/ SetPrio \/ UNCHANGED vars
  BY <1>7, MarkStep
<1>8. CASE SizeOn \/ SizeOff
  BY <1>8, SizeStep
<1>9. QED
  BY <1>1, <1>2, <1>3, <1>4, <1>5, <1>6, <1>7, <1>8 DEF Next

(* So they hold of every state.                                            *)
LEMMA AlwaysInv ==
  Spec => [](CInv /\ FInv)
<1>1. Init => CInv /\ FInv
  BY InitIs
<1>2. CInv /\ FInv /\ [Next]_vars => (CInv /\ FInv)'
  BY NextIs
<1>3. QED
  BY <1>1, <1>2, PTL DEF Spec

(* The type invariant: in particular a block is in the removal queue,      *)
(* once, exactly when it holds a location, through every loop that frees,  *)
(* moves and inserts blocks (cproc.c:34, :469).                            *)
THEOREM CacheTyped ==
  Spec => []TypeOK
<1>1. CInv => TypeOK
  <2> SUFFICES ASSUME CInv PROVE TypeOK
    OBVIOUS
  <2>1. /\ ring \in Seq(Blocks) /\ {ring[i] : i \in 1..Len(ring)} = Cached
        /\ Len(ring) = Cardinality(Cached)
    BY QueueSize DEF CInv
  <2>2. loc \in [Blocks -> Locs \cup {NoLoc}] /\ snext \in [Blocks -> Blocks \cup {0}]
    BY DEF CInv, Shape, Loops, Ptrs
  <2>3. \/ req = Idle
        \/ req.phase = "io" /\ req.first <= req.pos /\ req.pos < req.end /\ req.end <= DiskSize
    BY DEF CInv, ReqOK, Requests32k
  <2>4. QED
    BY <2>1, <2>2, <2>3 DEF CInv, TypeOK, Sectors
<1>2. QED
  BY <1>1, AlwaysInv, PTL

(* Whatever is evicted, invalidated or relinked, the circles of snext      *)
(* close and hold blocks of one group: the loops of free_bi_entry() and    *)
(* cache_io() (cproc.c:361, :441, :498) end.                               *)
THEOREM CirclesCorrect ==
  Spec => []CirclesClose
<1>1. CInv => CirclesClose
  <2> SUFFICES ASSUME CInv, NEW b \in Cached
               PROVE  /\ Circle(snext, b) \subseteq Cached
                      /\ snext[b] # 0 => \E x \in Circle(snext, b) : snext[x] = b
                      /\ \A x \in Circle(snext, b) :
                           /\ GroupOf(loc[x]) = GroupOf(loc[b])
                           /\ x # b => loc[x] # loc[b]
    BY DEF CirclesClose
  <2>1. b \in Blocks /\ loc[b] # NoLoc /\ Shape(loc, snext) /\ Loops(snext)
    BY DEF Cached, CInv, Shape
  <2>2. \A x \in Circle(snext, b) :
          x \in Blocks /\ loc[x] # NoLoc /\ GroupOf(loc[x]) = GroupOf(loc[b])
    BY <2>1, ShapeCircle
  <2>3. snext[b] # 0 => \E x \in Circle(snext, b) : snext[x] = b
    <3>1. snext \in Ptrs /\ b \in Circle(snext, b)
      BY <2>1, CircleClosed DEF Loops
    <3>2. QED
      BY <2>1, <3>1, CirclePred
  <2>4. QED
    BY <2>1, <2>2, <2>3 DEF Cached, Shape
<1>2. QED
  BY <1>1, AlwaysInv, PTL

(* While none of the causes has occurred, every block in use is found by   *)
(* the lookup of its location (cproc.c:429-445): no bit and no circle      *)
(* loses it, and no second copy answers instead.                           *)
THEOREM LookupCorrect ==
  Spec => []Findable
<1>1. CInv /\ FInv => Findable
  BY FoundIs DEF FInv, Findable
<1>2. QED
  BY <1>1, AlwaysInv, PTL

(* Between requests every copy is what the disk holds, while none of the   *)
(* causes has occurred.                                                    *)
THEOREM CopiesCorrect ==
  Spec => []CopiesFresh
<1>1. CInv /\ FInv => CopiesFresh
  BY IdleFresh DEF CopiesFresh, Cached
<1>2. QED
  BY <1>1, AlwaysInv, PTL
=============================================================================

----------------------------- MODULE SeqLemmas -----------------------------
(***************************************************************************)
(* What the community modules' RemoveAt() does to a sequence: both the     *)
(* wait list of mtlib and the pointer lists of START lose entries this way.*)
(***************************************************************************)
EXTENDS Integers, Sequences, SequencesExt, SequenceTheorems, TLAPS

(* RemoveAt(s, k), its length and items.                                  *)
LEMMA RemoveAtProps ==
  ASSUME NEW S, NEW s \in Seq(S), NEW k \in 1..Len(s)
  PROVE  /\ RemoveAt(s, k) \in Seq(S)
         /\ Len(RemoveAt(s, k)) = Len(s) - 1
         /\ \A i \in 1..(Len(s) - 1) :
              RemoveAt(s, k)[i] = IF i < k THEN s[i] ELSE s[i + 1]
<1> DEFINE a == SubSeq(s, 1, k - 1)
           b == SubSeq(s, k + 1, Len(s))
<1>1. Len(s) \in Nat
  OBVIOUS
<1>2. a \in Seq(S) /\ Len(a) = k - 1 /\ \A i \in 1..(k - 1) : a[i] = s[i]
  BY <1>1
<1>3. b \in Seq(S) /\ Len(b) = Len(s) - k /\ \A i \in 1..(Len(s) - k) : b[i] = s[k + i]
  BY <1>1
<1>4. RemoveAt(s, k) = a \o b
  BY DEF RemoveAt
<1> HIDE DEF a, b
<1>5. a \o b \in Seq(S) /\ Len(a \o b) = Len(s) - 1
  <2>1. a \o b \in Seq(S) /\ Len(a \o b) = Len(a) + Len(b)
    BY <1>2, <1>3, ConcatProperties
  <2>2. QED
    BY <1>1, <1>2, <1>3, <2>1
<1>6. ASSUME NEW i \in 1..(Len(s) - 1)
      PROVE  (a \o b)[i] = IF i < k THEN s[i] ELSE s[i + 1]
  <2>0. i \in Int /\ k \in Int /\ (i < k \/ i >= k)
    BY <1>1
  <2>1. CASE i < k
    BY <1>1, <1>2, <1>3, <2>1
  <2>2. CASE i >= k
    <3>1. (a \o b)[i] = b[i - (k - 1)]
      BY <1>1, <1>2, <1>3, <2>2
    <3>2. i - (k - 1) \in 1..(Len(s) - k)
      BY <1>1, <2>2
    <3>3. QED
      BY <1>1, <1>3, <2>2, <3>1, <3>2
  <2>3. QED
    BY <2>0, <2>1, <2>2
<1>7. QED
  BY <1>4, <1>5, <1>6

(* Taking entry k out of a list without duplicates.                        *)
LEMMA RemoveAtDistinct ==
  ASSUME NEW S, NEW s \in Seq(S), NEW k \in DOMAIN s,
         \A i, j \in DOMAIN s : s[i] = s[j] => i = j
  PROVE  LET r == RemoveAt(s, k) IN
         /\ r \in Seq(S)
         /\ \A i, j \in DOMAIN r : r[i] = r[j] => i = j
         /\ \A x : (\E i \in DOMAIN r : r[i] = x)
                      <=> x # s[k] /\ \E i \in DOMAIN s : s[i] = x
         /\ \A i \in DOMAIN r : i < k => i \in DOMAIN s /\ r[i] = s[i]
<1> DEFINE r == RemoveAt(s, k)
<1>1. Len(s) \in Nat /\ DOMAIN s = 1..Len(s)
  OBVIOUS
<1>2. /\ r \in Seq(S) /\ Len(r) = Len(s) - 1 /\ DOMAIN r = 1..(Len(s) - 1)
      /\ \A i \in 1..(Len(s) - 1) : r[i] = IF i < k THEN s[i] ELSE s[i + 1]
  <2>1. k \in 1..Len(s)
    BY <1>1
  <2>2. /\ r \in Seq(S) /\ Len(r) = Len(s) - 1
        /\ \A i \in 1..(Len(s) - 1) : r[i] = IF i < k THEN s[i] ELSE s[i + 1]
    BY <2>1, RemoveAtProps
  <2> HIDE DEF r
  <2>3. QED
    BY <2>2
<1> HIDE DEF r
<1>3. ASSUME NEW i \in DOMAIN r, NEW j \in DOMAIN r, r[i] = r[j]
      PROVE  i = j
  <2> DEFINE up(n) == IF n < k THEN n ELSE n + 1
  <2>1. k \in Int /\ i \in Int /\ j \in Int
    BY <1>1, <1>2
  <2>2. /\ up(i) \in DOMAIN s /\ up(j) \in DOMAIN s
        /\ r[i] = s[up(i)] /\ r[j] = s[up(j)]
    BY <1>1, <1>2, <2>1
  <2>3. up(i) = up(j)
    BY <1>3, <2>2
  <2>4. QED
    BY <2>1, <2>3
<1>4. ASSUME NEW x
      PROVE  (\E i \in DOMAIN r : r[i] = x) <=> x # s[k] /\ \E i \in DOMAIN s : s[i] = x
  <2>1. ASSUME NEW i \in DOMAIN r, r[i] = x
        PROVE  x # s[k] /\ \E j \in DOMAIN s : s[j] = x
    BY <1>1, <1>2, <2>1
  <2>2. ASSUME NEW i \in DOMAIN s, s[i] = x, x # s[k]
        PROVE  \E j \in DOMAIN r : r[j] = x
    <3>1. CASE i < k
      BY <1>1, <1>2, <2>2, <3>1
    <3>2. CASE i > k
      <4>1. i - 1 \in DOMAIN r /\ r[i - 1] = s[i]
        BY <1>1, <1>2, <3>2
      <4>2. QED
        BY <2>2, <4>1
    <3>3. i \in Int /\ k \in Int /\ i # k
      BY <1>1, <2>2
    <3>4. QED
      BY <3>1, <3>2, <3>3
  <2>3. QED
    BY <2>1, <2>2
<1>5. \A i \in DOMAIN r : i < k => i \in DOMAIN s /\ r[i] = s[i]
  BY <1>1, <1>2
<1>6. QED
  BY <1>2, <1>3, <1>4, <1>5 DEF r
=============================================================================

--------------------------- MODULE IoHandleProofs ---------------------------
(***************************************************************************)
(* The invariants of IoHandle, for any number of processes, files, handles *)
(* and modes, and the refinement of FilePos.  First the chains, then the   *)
(* new table of each operation, then the steps.                            *)
(***************************************************************************)
EXTENDS IoHandle, NatLemmas

HandleType == [pid : Proc \cup {NoPid}, file : Name \cup {NoFile},
               share : SUBSET Access, pos : 0..MaxPos,
               main : Slot \cup {0}, next : Slot \cup {0}]
EntryType == [list : SUBSET Slot, sbits : SUBSET Access,
              fh : Fh \cup {0}, broken : BOOLEAN]

(* A table of handles: references lead to handles in use, and a slot       *)
(* without a file is free.                                                 *)
Table(f) ==
    /\ f \in [Slot -> HandleType]
    /\ \A h \in Slot : f[h].main \in Used(f) \cup {0} /\ f[h].next \in Used(f) \cup {0}
    /\ \A h \in Slot : f[h].file = NoFile <=> f[h] = Free

(* The chains of a table: r counts the handles of a chain from its first   *)
(* one, which is the main handle of all; inh_next leads from one to the    *)
(* next.                                                                   *)
Ranked(f, r) ==
    /\ \A h \in Used(f) :
         /\ f[h].main = 0 => f[h].next = 0 /\ r[h] = 0
         /\ f[h].main # 0 => /\ f[f[h].main].main = f[h].main
                             /\ r[h] = 0 <=> f[h].main = h
         /\ f[h].next # 0 => /\ f[f[h].next].main = f[h].main
                             /\ r[f[h].next] = r[h] + 1
         /\ f[h].main \notin {0, h} => \E g \in Used(f) : f[g].next = h
    /\ \A g, h \in Used(f) :
         f[g].main = f[h].main /\ f[g].main # 0 /\ r[g] = r[h] => g = h
Chains(f) == \E r \in [Slot -> Nat] : Ranked(f, r)

(* Handles with one position.                                              *)
Mate(f, x, y) ==
    /\ {x, y} \subseteq Used(f)
    /\ x = y \/ (f[x].main # 0 /\ f[x].main = f[y].main)

-----------------------------------------------------------------------------
(***************************************************************************)
(* Chains.                                                                 *)
(***************************************************************************)
(* Bounds of slots.                                                        *)
LEMMA SlotFacts ==
  /\ MaxHandles \in Nat /\ Slot \subseteq Nat /\ 0 \notin Slot
  /\ IsFiniteSet(Slot) /\ Cardinality(Slot) = MaxHandles
<1>1. MaxHandles \in Nat
  BY HandleConstants
<1>2. IsFiniteSet(Slot) /\ Cardinality(Slot) = MaxHandles
  <2>1. 1 \in Int /\ MaxHandles \in Int
    BY <1>1
  <2>2. IsFiniteSet(Slot) /\ Cardinality(Slot) = IF 1 > MaxHandles THEN 0 ELSE MaxHandles - 1 + 1
    BY <2>1, FS_Interval DEF Slot
  <2>3. QED
    BY <1>1, <2>2
<1>3. QED
  BY <1>1, <1>2 DEF Slot

(* The walk along inh_next is a function.                                  *)
LEMMA WalkIs ==
  ASSUME NEW f, Table(f), NEW h \in Slot \cup {0}
  PROVE  LET w == ChainWalk(f, h)
         IN  /\ w \in [0..MaxHandles -> Slot \cup {0}]
             /\ w[0] = h
             /\ \A i \in 0..(MaxHandles - 1) :
                  w[i + 1] = IF w[i] = 0 THEN 0 ELSE f[w[i]].next
<1> DEFINE T == Slot \cup {0}
           N == MaxHandles
           g == [x \in T |-> IF x = 0 THEN 0 ELSE f[x].next]
           Eq(s) == s = [i \in 0..N |-> IF i = 0 THEN h
                                        ELSE IF s[i - 1] = 0 THEN 0 ELSE f[s[i - 1]].next]
<1>1. N \in Nat /\ f \in [Slot -> HandleType]
  BY SlotFacts DEF Table
<1>2. g \in [T -> T]
  <2>1. \A x \in Slot : f[x].next \in T
    BY <1>1 DEF HandleType
  <2>2. QED
    BY <2>1
<1>3. Orbits(N, T, h, g) # {}
  <2> HIDE DEF g, T, N
  <2>1. h \in T
    BY DEF T
  <2>2. QED
    BY <1>1, <1>2, <2>1, Orbit
<1>4. \E s : Eq(s)
  <2>1. PICK s \in [0..N -> T] :
          \A i \in 0..N : s[i] = IF i = 0 THEN h ELSE g[s[i - 1]]
    BY <1>3 DEF Orbits
  <2>2. ASSUME NEW i \in 0..N, i # 0
        PROVE  g[s[i - 1]] = IF s[i - 1] = 0 THEN 0 ELSE f[s[i - 1]].next
    <3>1. i \in 1..N /\ i - 1 \in 0..N
      BY <1>1, <2>2
    <3>2. QED
      BY <3>1
  <2> HIDE DEF g
  <2>3. Eq(s)
    BY <2>1, <2>2
  <2>4. QED
    BY <2>3
<1> DEFINE w == ChainWalk(f, h)
<1>5. Eq(w)
  <2>1. w = CHOOSE s : Eq(s)
    BY DEF ChainWalk
  <2> HIDE DEF w, Eq
  <2>2. QED
    BY <1>4, <2>1
<1> HIDE DEF w
<1>6. w[0] = h
  BY <1>1, <1>5
<1>7. \A i \in 0..(N - 1) : w[i + 1] = IF w[i] = 0 THEN 0 ELSE f[w[i]].next
  <2>1. TAKE i \in 0..(N - 1)
  <2>2. i + 1 \in 0..N /\ i + 1 # 0 /\ (i + 1) - 1 = i
    BY <1>1
  <2>3. QED
    BY <1>5, <2>2
<1>8. w \in [0..N -> T]
  <2> DEFINE S == {i \in 0..N : w[i] \in T}
  <2>1. 0 \in S
    BY <1>1, <1>6
  <2>2. \A i \in 0..(N - 1) : i \in S => i + 1 \in S
    <3>1. \A x \in Slot : f[x].next \in T
      BY <1>1 DEF HandleType
    <3>2. QED
      BY <1>1, <1>7, <3>1
  <2>3. \A i \in 0..N : i \in S
    <3> HIDE DEF S
    <3> QED
      BY <1>1, <2>1, <2>2, UpTo
  <2>4. QED
    BY <1>5, <2>3
<1>9. QED
  BY <1>6, <1>7, <1>8 DEF w

(* A rank is the position in a chain: there are fewer than MaxHandles.     *)
LEMMA RankBound ==
  ASSUME NEW f, Table(f), NEW r \in [Slot -> Nat], Ranked(f, r),
         NEW x \in Used(f), f[x].main # 0
  PROVE  r[x] < MaxHandles
<1> DEFINE n == r[x]
           At(i) == {y \in Used(f) : f[y].main = f[x].main /\ r[y] = n - i}
           S == {i \in 0..n : At(i) # {}}
<1>1. n \in Nat /\ Used(f) \subseteq Slot /\ x \in Slot
  BY DEF Used
<1>2. 0 \in S
  BY <1>1
<1>3. ASSUME NEW i \in 0..(n - 1), i \in S
      PROVE  i + 1 \in S
  <2>1. PICK y \in At(i) : TRUE
    BY <1>3
  <2>2. /\ y \in Used(f) /\ f[y].main = f[x].main /\ r[y] = n - i /\ r[y] # 0
        /\ i \in Nat /\ i + 1 \in 0..n
    BY <1>1, <2>1
  <2>3. PICK z \in Used(f) : f[z].next = y
    BY <2>2 DEF Ranked
  <2>4. y # 0
    BY <1>1, <2>2, SlotFacts
  <2>5. f[z].main = f[x].main /\ r[y] = r[z] + 1 /\ r[z] \in Nat
    BY <1>1, <2>2, <2>3, <2>4 DEF Ranked
  <2>6. z \in At(i + 1)
    BY <1>1, <2>2, <2>5
  <2>7. QED
    BY <2>2, <2>6
<1>4. \A i \in 0..n : i \in S
  <2> HIDE DEF S
  <2> QED
    BY <1>1, <1>2, <1>3, UpTo
<1>5. \A i \in 0..n : At(i) # {}
  BY <1>4
<1> DEFINE c == [i \in 0..n |-> CHOOSE y \in At(i) : TRUE]
<1>6. \A i \in 0..n : c[i] \in Slot /\ r[c[i]] = n - i
  <2>1. TAKE i \in 0..n
  <2>2. c[i] \in At(i)
    BY <1>5
  <2>3. QED
    BY <1>1, <2>2
<1> HIDE DEF c
<1>7. c \in [0..n -> Slot]
  <2>1. c = [i \in 0..n |-> c[i]]
    BY DEF c
  <2>2. QED
    BY <1>6, <2>1
<1>8. \A i, j \in 0..n : c[i] = c[j] => i = j
  BY <1>1, <1>6
<1>9. n < Cardinality(Slot)
  BY <1>1, <1>7, <1>8, SlotFacts, BoundedIndex
<1>10. QED
  BY <1>9, SlotFacts

(* What io_inherit'ed handles ioh_unlink() finds from h on: those of the   *)
(* chain that are not before h.                                            *)
LEMMA ChainSet ==
  ASSUME NEW f, Table(f), NEW r \in [Slot -> Nat], Ranked(f, r),
         NEW h \in Used(f), f[h].main # 0
  PROVE  ChainFrom(f, h) = {x \in Used(f) : f[x].main = f[h].main /\ r[x] >= r[h]}
<1> DEFINE w == ChainWalk(f, h)
           N == MaxHandles
           C == {x \in Used(f) : f[x].main = f[h].main /\ r[x] >= r[h]}
<1>1. h \in Slot /\ Used(f) \subseteq Slot /\ N \in Nat /\ 0 \notin Slot /\ N > 0
  BY SlotFacts DEF Used, Slot
<1>2. /\ w \in [0..N -> Slot \cup {0}] /\ w[0] = h
      /\ \A i \in 0..(N - 1) : w[i + 1] = IF w[i] = 0 THEN 0 ELSE f[w[i]].next
  BY <1>1, WalkIs
<1> HIDE DEF w
<1>3. \A i \in 0..N : w[i] # 0 => w[i] \in C /\ r[w[i]] = r[h] + i
  <2> DEFINE S == {i \in 0..N : w[i] # 0 => w[i] \in C /\ r[w[i]] = r[h] + i}
  <2>1. 0 \in S
    <3>1. r[h] \in Nat
      BY <1>1
    <3>2. QED
      BY <1>1, <1>2, <3>1
  <2>2. ASSUME NEW i \in 0..(N - 1), i \in S
        PROVE  i + 1 \in S
    <3>1. i \in Nat /\ i + 1 \in 0..N /\ i \in 0..N
      BY <1>1
    <3>2. CASE w[i + 1] # 0
      <4>1. w[i] # 0 /\ w[i + 1] = f[w[i]].next
        BY <1>2, <3>2
      <4>2. w[i] \in C /\ r[w[i]] = r[h] + i
        BY <2>2, <4>1
      <4>3. w[i + 1] \in Used(f)
        BY <1>1, <3>2, <4>1, <4>2 DEF Table
      <4>4. f[w[i + 1]].main = f[h].main /\ r[w[i + 1]] = r[w[i]] + 1
        BY <3>2, <4>1, <4>2 DEF Ranked
      <4>5. r[h] \in Nat
        BY <1>1
      <4>6. QED
        BY <3>1, <4>2, <4>3, <4>4, <4>5
    <3>3. QED
      BY <3>1, <3>2
  <2>3. \A i \in 0..N : i \in S
    <3> HIDE DEF S
    <3> QED
      BY <1>1, <2>1, <2>2, UpTo
  <2>4. QED
    BY <2>3
<1>4. ASSUME NEW x \in C
      PROVE  \E i \in 0..N : w[i] = x
  <2> DEFINE S == {i \in 0..N : \A y \in C : r[y] = r[h] + i => w[i] = y}
  <2>1. 0 \in S
    <3>1. \A y \in C : r[y] = r[h] + 0 => y = h
      BY <1>1 DEF Ranked
    <3>2. QED
      BY <1>1, <1>2, <3>1
  <2>2. ASSUME NEW i \in 0..(N - 1), i \in S
        PROVE  i + 1 \in S
    <3>1. i \in Nat /\ i + 1 \in 0..N /\ i \in 0..N
      BY <1>1
    <3>2. ASSUME NEW y \in C, r[y] = r[h] + (i + 1)
          PROVE  w[i + 1] = y
      <4>1. y \in Slot /\ r[h] \in Nat /\ r[y] # 0 /\ y # 0
        BY <1>1, <3>1, <3>2
      <4>2. PICK z \in Used(f) : f[z].next = y
        BY <4>1 DEF Ranked
      <4>3. f[z].main = f[h].main /\ r[y] = r[z] + 1 /\ r[z] \in Nat /\ z # 0
        BY <1>1, <4>1, <4>2 DEF Ranked
      <4>4. z \in C /\ r[z] = r[h] + i
        BY <3>1, <3>2, <4>1, <4>3
      <4>5. w[i] = z
        BY <2>2, <4>4
      <4>6. QED
        BY <1>2, <4>2, <4>3, <4>5
    <3>3. QED
      BY <3>1, <3>2
  <2>3. \A i \in 0..N : i \in S
    <3> HIDE DEF S
    <3> QED
      BY <1>1, <2>1, <2>2, UpTo
  <2>4. x \in Slot /\ r[x] \in Nat /\ r[h] \in Nat /\ r[x] < N
    BY <1>1, RankBound
  <2>5. r[x] - r[h] \in 0..N /\ r[x] = r[h] + (r[x] - r[h])
    BY <1>1, <2>4
  <2>6. w[r[x] - r[h]] = x
    BY <2>3, <2>5
  <2>7. QED
    BY <2>5, <2>6
<1>5. ChainFrom(f, h) = {w[i] : i \in 0..N} \ {0}
  BY DEF ChainFrom, w
<1>6. 0 \notin C
  BY <1>1
<1> HIDE DEF C
<1>7. \A x : x \in ChainFrom(f, h) <=> x \in C
  BY <1>3, <1>4, <1>5, <1>6
<1>8. QED
  BY <1>7 DEF C

(* Nothing is found from an empty link.                                    *)
LEMMA ChainNone ==
  ASSUME NEW f, Table(f)
  PROVE  ChainFrom(f, 0) = {}
<1> DEFINE w == ChainWalk(f, 0)
           N == MaxHandles
           S == {i \in 0..N : w[i] = 0}
<1>1. N \in Nat
  BY SlotFacts
<1>2. w[0] = 0 /\ \A i \in 0..(N - 1) : w[i + 1] = IF w[i] = 0 THEN 0 ELSE f[w[i]].next
  BY WalkIs
<1> HIDE DEF w
<1>3. 0 \in S /\ \A i \in 0..(N - 1) : i \in S => i + 1 \in S
  BY <1>1, <1>2
<1>4. \A i \in 0..N : i \in S
  <2> HIDE DEF S
  <2> QED
    BY <1>1, <1>3, UpTo
<1>5. ChainFrom(f, 0) = {w[i] : i \in 0..N} \ {0}
  BY DEF ChainFrom, w
<1>6. QED
  BY <1>4, <1>5

(* The handles that ioh_unlink() and get_main() treat as one position.     *)
MatesIn(f, h) == IF f[h] = Free THEN {}
                 ELSE IF f[h].main = 0 THEN {h} ELSE ChainFrom(f, f[h].main)

LEMMA MatesIs ==
  ASSUME NEW f, Table(f), Chains(f), NEW h \in Slot
  PROVE  MatesIn(f, h) = {x \in Slot : Mate(f, h, x)}
<1>1. PICK r \in [Slot -> Nat] : Ranked(f, r)
  BY DEF Chains
<1>2. Used(f) \subseteq Slot /\ 0 \notin Slot
  BY SlotFacts DEF Used
<1>3. CASE f[h] = Free
  BY <1>3 DEF MatesIn, Mate, Used
<1>4. CASE f[h] # Free /\ f[h].main = 0
  BY <1>4 DEF MatesIn, Mate, Used
<1>5. CASE f[h] # Free /\ f[h].main # 0
  <2> DEFINE m == f[h].main
  <2>1. h \in Used(f)
    BY <1>5 DEF Used
  <2>2. m \in Used(f) /\ m # 0 /\ f[m].main = m
    BY <1>1, <1>5, <2>1 DEF Table, Ranked
  <2>3. r[m] = 0
    BY <1>1, <2>2 DEF Ranked
  <2>4. ChainFrom(f, m) = {x \in Used(f) : f[x].main = m /\ r[x] >= r[m]}
    BY <1>1, <2>2, ChainSet
  <2>5. \A x \in Used(f) : r[x] >= 0
    BY <1>1, <1>2
  <2>6. QED
    BY <1>2, <1>5, <2>1, <2>3, <2>4, <2>5 DEF MatesIn, Mate
<1>6. QED
  BY <1>3, <1>4, <1>5

-----------------------------------------------------------------------------
(***************************************************************************)
(* What each operation makes of the table.                                 *)
(***************************************************************************)
(* The position a handle reads and moves.                                  *)
Pos(f, x) == f[MainOf(f, x)].pos

(* Owner, sharing and position of handles may change, links may not.       *)
LEMMA Relabel ==
  ASSUME NEW f, Table(f), Chains(f), NEW f2 \in [Slot -> HandleType],
         \A x \in Slot : /\ f2[x].main = f[x].main /\ f2[x].next = f[x].next
                         /\ f2[x].file = f[x].file
                         /\ f2[x] = Free <=> f[x] = Free
  PROVE  /\ Table(f2) /\ Chains(f2) /\ Used(f2) = Used(f)
         /\ \A x, y \in Slot : Mate(f2, x, y) <=> Mate(f, x, y)
<1>1. Used(f2) = Used(f) /\ Used(f) \subseteq Slot
  BY DEF Used
<1>2. Table(f2)
  BY <1>1 DEF Table
<1>3. PICK r \in [Slot -> Nat] : Ranked(f, r)
  BY DEF Chains
<1>4. Ranked(f2, r)
  <2>1. \A x \in Used(f) : f[x].main # 0 => f[x].main \in Slot
    BY <1>1 DEF Table
  <2>2. \A x \in Used(f) : f[x].next # 0 => f[x].next \in Slot
    BY <1>1 DEF Table
  <2>3. QED
    BY <1>1, <1>3, <2>1, <2>2 DEF Ranked
<1>5. QED
  BY <1>1, <1>2, <1>4 DEF Chains, Mate

(* A handle with a position of its own takes a free slot.                  *)
Put(f, h, e) == [f EXCEPT ![h] = e]

LEMMA AddPlain ==
  ASSUME NEW f, Table(f), Chains(f), NEW h \in Slot \ Used(f), NEW e \in HandleType,
         e.main = 0, e.next = 0, e.file \in Name
  PROVE  LET f2 == Put(f, h, e)
         IN  /\ Table(f2) /\ Chains(f2) /\ Used(f2) = Used(f) \cup {h}
             /\ \A x, y \in Used(f) : Mate(f2, x, y) <=> Mate(f, x, y)
             /\ \A x \in Slot : Mate(f2, h, x) <=> x = h
             /\ \A x \in Used(f) : Pos(f2, x) = Pos(f, x)
             /\ Pos(f2, h) = e.pos
<1> DEFINE f2 == Put(f, h, e)
<1>1. /\ f \in [Slot -> HandleType] /\ f2 \in [Slot -> HandleType] /\ f2[h] = e
      /\ \A x \in Slot : x # h => f2[x] = f[x]
      /\ Used(f) \subseteq Slot /\ h \in Slot /\ h \notin Used(f) /\ 0 \notin Slot
  BY SlotFacts DEF Table, Used, Put
<1>2. e # Free
  <2>1. Free.file = NoFile /\ e.file # NoFile
    BY HandleConstants DEF Free
  <2>2. QED
    BY <2>1
<1> HIDE DEF f2
<1>3. Used(f2) = Used(f) \cup {h}
  BY <1>1, <1>2 DEF Used
<1>4. \A x \in Used(f) : /\ f[x].main \in Used(f) \cup {0} /\ f[x].next \in Used(f) \cup {0}
                         /\ f2[x] = f[x]
  BY <1>1 DEF Table
<1>5. Table(f2)
  <2>1. \A x \in Slot : f2[x].main \in Used(f2) \cup {0} /\ f2[x].next \in Used(f2) \cup {0}
    BY <1>1, <1>3 DEF Table
  <2>2. \A x \in Slot : f2[x].file = NoFile <=> f2[x] = Free
    BY <1>1, <1>2, HandleConstants DEF Table
  <2>3. QED
    BY <1>1, <2>1, <2>2 DEF Table
<1>6. Chains(f2)
  <2>1. PICK r \in [Slot -> Nat] : Ranked(f, r)
    BY DEF Chains
  <2> DEFINE r2 == [r EXCEPT ![h] = 0]
  <2>2. /\ r2 \in [Slot -> Nat] /\ r2[h] = 0
        /\ \A x \in Used(f) : r2[x] = r[x]
    BY <1>1
  <2> HIDE DEF r2
  <2>3. Ranked(f2, r2)
    BY <1>1, <1>3, <1>4, <2>1, <2>2 DEF Ranked
  <2>4. QED
    BY <2>2, <2>3 DEF Chains
<1>7. \A x, y \in Used(f) : Mate(f2, x, y) <=> Mate(f, x, y)
  BY <1>3, <1>4 DEF Mate
<1>8. \A x \in Slot : Mate(f2, h, x) <=> x = h
  BY <1>1, <1>3 DEF Mate
<1>9. \A x \in Used(f) : Pos(f2, x) = Pos(f, x)
  BY <1>4 DEF Pos, MainOf
<1>10. Pos(f2, h) = e.pos
  BY <1>1 DEF Pos, MainOf
<1>11. QED
  BY <1>3, <1>5, <1>6, <1>7, <1>8, <1>9, <1>10 DEF f2

(* f2 is f with copies of some of its handles: root tells of which; a copy *)
(* has the position of its root.                                           *)
Copied(f, f2, root) ==
    /\ Table(f2) /\ Chains(f2)
    /\ Used(f) \subseteq Used(f2)
    /\ root \in [Used(f2) -> Used(f)]
    /\ \A x \in Used(f) : root[x] = x /\ f2[x].pid = f[x].pid
    /\ \A x \in Used(f2) : /\ f2[x].file = f[root[x]].file
                           /\ f2[x].share = f[root[x]].share
                           /\ Pos(f2, x) = Pos(f, root[x])
    /\ \A x, y \in Used(f2) : Mate(f2, x, y) <=> Mate(f, root[x], root[y])

(* h is a copy of g, the others are themselves.                            *)
RootOf(f, g, h) == [x \in Used(f) \cup {h} |-> IF x = h THEN g ELSE x]

(* dup_handle() with IODH_SHAREPOS, io_inherit(): the new handle follows   *)
(* its source in the chain.                                                *)
LEMMA CopyOne ==
  ASSUME NEW f, Table(f), Chains(f), NEW g \in Used(f), NEW h \in Slot \ Used(f),
         NEW pid \in Proc \cup {NoPid}
  PROVE  LET f2 == Dupped(f, g, h, pid, TRUE)
         IN  /\ Used(f2) = Used(f) \cup {h} /\ f2[h].pid = pid
             /\ Copied(f, f2, RootOf(f, g, h))
<1> DEFINE f2 == Dupped(f, g, h, pid, TRUE)
           c == f[g].main # 0
           M == IF c THEN f[g].main ELSE g
           root == RootOf(f, g, h)
<1>1. /\ f \in [Slot -> HandleType] /\ Used(f) \subseteq Slot /\ 0 \notin Slot
      /\ g \in Slot /\ h \in Slot /\ h # g /\ h \notin Used(f)
  BY SlotFacts DEF Table, Used
<1>2. /\ f2 \in [Slot -> HandleType]
      /\ f2[h] = [f[g] EXCEPT !.pid = pid, !.main = M, !.next = IF c THEN f[g].next ELSE 0]
      /\ f2[g] = [f[g] EXCEPT !.main = M, !.next = h]
      /\ \A x \in Slot : x # g /\ x # h => f2[x] = f[x]
  <2>1. /\ f[g] \in HandleType
        /\ M \in Slot \cup {0}
    BY <1>1 DEF HandleType
  <2> DEFINE new == [f[g] EXCEPT !.pid = pid, !.main = M, !.next = IF c THEN f[g].next ELSE 0]
  <2>2. new \in HandleType /\ new.main = M
    BY <2>1 DEF HandleType
  <2>3. [f[g] EXCEPT !.main = M, !.next = h] \in HandleType
    BY <1>1, <2>1 DEF HandleType
  <2>4. new = [f[g] EXCEPT !.pid = pid,
                           !.main = IF ~TRUE THEN 0 ELSE IF c THEN @ ELSE g,
                           !.next = IF TRUE /\ c THEN @ ELSE 0]
    BY <2>1 DEF HandleType
  <2>5. f2 = [f EXCEPT ![h] = new, ![g].main = M, ![g].next = h]
    BY <2>2, <2>4 DEF Dupped
  <2> HIDE DEF f2, new, M
  <2>6. f2 = [x \in Slot |-> IF x = g THEN [f[g] EXCEPT !.main = M, !.next = h]
                             ELSE IF x = h THEN new ELSE f[x]]
    BY <1>1, <2>1, <2>5 DEF HandleType
  <2>7. QED
    BY <1>1, <2>2, <2>3, <2>6 DEF new
<1>3. /\ f2[h].pid = pid /\ f2[h].file = f[g].file /\ f2[h].share = f[g].share
      /\ f2[h].pos = f[g].pos
      /\ f2[h].main = M /\ f2[h].next = (IF c THEN f[g].next ELSE 0)
      /\ f2[g].pid = f[g].pid /\ f2[g].file = f[g].file /\ f2[g].share = f[g].share
      /\ f2[g].pos = f[g].pos
      /\ f2[g].main = M /\ f2[g].next = h
  <2>1. f[g] \in HandleType
    BY <1>1
  <2> HIDE DEF M, c, f2
  <2>2. QED
    BY <1>2, <2>1 DEF HandleType
<1> HIDE DEF f2
<1>4. f[g].file # NoFile
  BY <1>1 DEF Table, Used
<1>5. Used(f2) = Used(f) \cup {h}
  <2>1. f2[g] # Free /\ f2[h] # Free
    BY <1>3, <1>4 DEF Free
  <2>2. QED
    BY <1>1, <1>2, <2>1 DEF Used
<1>6. \A x \in Used(f) : f[x].main \in Used(f) \cup {0} /\ f[x].next \in Used(f) \cup {0}
  BY <1>1 DEF Table
<1>7. M \in Used(f)
  BY <1>6
<1>8. Table(f2)
  <2>1. \A x \in Slot : f2[x].main \in Used(f2) \cup {0} /\ f2[x].next \in Used(f2) \cup {0}
    <3> HIDE DEF M
    <3> QED
      BY <1>1, <1>2, <1>3, <1>5, <1>6, <1>7 DEF Table
  <2>2. \A x \in Slot : f2[x].file = NoFile <=> f2[x] = Free
    <3>1. TAKE x \in Slot
    <3>2. CASE x \in {g, h}
      BY <1>3, <1>4, <3>2 DEF Free
    <3>3. CASE x \notin {g, h}
      BY <1>2, <3>3 DEF Table
    <3>4. QED
      BY <3>2, <3>3
  <2>3. QED
    BY <1>2, <2>1, <2>2 DEF Table
<1>9. PICK r \in [Slot -> Nat] : Ranked(f, r)
  BY DEF Chains
<1>10. f2[M].main = M
  <2>1. CASE M = g
    BY <1>3, <2>1
  <2>2. CASE M # g
    <3>1. f[M].main = M
      BY <1>9, <2>2 DEF Ranked
    <3>2. M \in Slot /\ M # h
      BY <1>1, <1>7
    <3>3. QED
      BY <1>2, <2>2, <3>1, <3>2
  <2>3. QED
    BY <2>1, <2>2
<1>11. Chains(f2)
  <2> DEFINE Behind(x) == c /\ x \in Used(f) /\ f[x].main = f[g].main /\ r[x] > r[g]
             r2 == [x \in Slot |-> IF x = h THEN r[g] + 1
                                   ELSE IF Behind(x) THEN r[x] + 1 ELSE r[x]]
  <2>1. r2 \in [Slot -> Nat]
    BY <1>1
  <2>2. /\ r2[h] = r[g] + 1 /\ r2[g] = r[g] /\ r[g] \in Nat
        /\ \A x \in Used(f) : r2[x] = IF Behind(x) THEN r[x] + 1 ELSE r[x]
    BY <1>1
  <2>n. \A x \in Used(f) : r[x] \in Nat
    BY <1>1
  <2> HIDE DEF r2
  <2>3. ASSUME NEW x \in Used(f2), f2[x].main = 0
        PROVE  f2[x].next = 0 /\ r2[x] = 0
    <3>1. M # 0
      BY <1>1, <1>7
    <3>2. x # h /\ x # g /\ x \in Used(f)
      BY <1>3, <1>5, <2>3, <3>1
    <3>3. f2[x] = f[x]
      BY <1>1, <1>2, <3>2
    <3>4. f[x].next = 0 /\ r[x] = 0 /\ ~Behind(x)
      BY <1>9, <2>3, <3>2, <3>3 DEF Ranked
    <3>5. QED
      BY <2>2, <3>2, <3>3, <3>4
  <2>4. ASSUME NEW x \in Used(f2), f2[x].main # 0
        PROVE  /\ f2[f2[x].main].main = f2[x].main
               /\ r2[x] = 0 <=> f2[x].main = x
    <3>1. CASE x = h
      <4>1. M # h /\ r2[h] # 0
        BY <1>1, <1>7, <2>2
      <4>2. QED
        BY <1>3, <1>10, <3>1, <4>1
    <3>2. CASE x = g
      <4>1. r[g] = 0 <=> M = g
        BY <1>9 DEF Ranked
      <4>2. QED
        BY <1>3, <1>10, <2>2, <3>2, <4>1
    <3>3. CASE x # h /\ x # g
      <4>1. x \in Used(f) /\ f2[x] = f[x] /\ f[x].main \in Used(f) /\ f[x].main # 0
        BY <1>1, <1>2, <1>5, <1>6, <2>4, <3>3
      <4>2. f[f[x].main].main = f[x].main /\ (r[x] = 0 <=> f[x].main = x)
        BY <1>9, <4>1 DEF Ranked
      <4>3. f2[f[x].main].main = f[x].main
        BY <1>1, <1>2, <1>3, <4>1, <4>2
      <4>4. r2[x] = 0 <=> r[x] = 0
        BY <1>1, <2>2, <4>1
      <4>5. QED
        BY <4>1, <4>2, <4>3, <4>4
    <3>4. QED
      BY <3>1, <3>2, <3>3
  <2>5. ASSUME NEW x \in Used(f2), f2[x].next # 0
        PROVE  /\ f2[f2[x].next].main = f2[x].main
               /\ r2[f2[x].next] = r2[x] + 1
    <3>1. CASE x = h
      <4> DEFINE z == f[g].next
      <4>1. c /\ z # 0 /\ z \in Used(f) /\ f2[x].next = z
        BY <1>3, <1>6, <2>5, <3>1
      <4>2. f[z].main = f[g].main /\ r[z] = r[g] + 1
        BY <1>9, <4>1 DEF Ranked
      <4>3. z # g /\ z # h /\ Behind(z)
        BY <1>1, <2>2, <4>1, <4>2
      <4>4. r[z] \in Nat /\ r2[z] = r[z] + 1
        BY <2>2, <2>n, <4>1, <4>3
      <4>5. f2[z] = f[z] /\ f[g].main = M
        BY <1>1, <1>2, <4>1, <4>3
      <4>6. QED
        BY <1>3, <2>2, <2>n, <3>1, <4>1, <4>2, <4>4, <4>5
    <3>2. CASE x = g
      BY <1>3, <2>2, <3>2
    <3>3. CASE x # h /\ x # g
      <4> DEFINE z == f[x].next
      <4>1. x \in Used(f) /\ f2[x] = f[x] /\ z # 0 /\ z \in Used(f) /\ z # h
        BY <1>1, <1>2, <1>5, <1>6, <2>5, <3>3
      <4>2. f[z].main = f[x].main /\ r[z] = r[x] + 1 /\ f[x].main # 0
        BY <1>9, <4>1 DEF Ranked
      <4>3. f2[z].main = f[z].main
        BY <1>1, <1>2, <1>3, <4>1, <4>2
      <4>4. r[x] = r[g] => ~(c /\ f[x].main = f[g].main)
        BY <1>9, <3>3, <4>1 DEF Ranked
      <4>5. r[x] \in Nat /\ r[z] \in Nat /\ r[g] \in Nat
        BY <2>n, <4>1
      <4>6. Behind(z) <=> Behind(x)
        BY <4>1, <4>2, <4>4, <4>5
      <4> HIDE DEF Behind
      <4>7. /\ r2[x] = IF Behind(x) THEN r[x] + 1 ELSE r[x]
            /\ r2[z] = IF Behind(z) THEN r[z] + 1 ELSE r[z]
        BY <2>2, <4>1
      <4>8. QED
        BY <4>1, <4>2, <4>3, <4>5, <4>6, <4>7
    <3>4. QED
      BY <3>1, <3>2, <3>3
  <2>6. ASSUME NEW x \in Used(f2), f2[x].main \notin {0, x}
        PROVE  \E y \in Used(f2) : f2[y].next = x
    <3>1. CASE x = h
      BY <1>3, <1>5, <3>1
    <3>2. CASE x # h
      <4>1. x \in Used(f) /\ f[x].main \notin {0, x}
        BY <1>1, <1>2, <1>3, <1>5, <2>6, <3>2
      <4>2. PICK y \in Used(f) : f[y].next = x
        BY <1>9, <4>1 DEF Ranked
      <4>3. CASE y = g
        <5>1. c
          BY <1>1, <1>9, <4>1, <4>2, <4>3 DEF Ranked
        <5>2. QED
          BY <1>3, <1>5, <4>2, <4>3, <5>1
      <4>4. CASE y # g
        BY <1>1, <1>2, <1>5, <4>2, <4>4
      <4>5. QED
        BY <4>3, <4>4
    <3>3. QED
      BY <3>1, <3>2
  <2>7. ASSUME NEW x \in Used(f2), NEW y \in Used(f2),
               f2[x].main = f2[y].main, f2[x].main # 0, r2[x] = r2[y]
        PROVE  x = y
    <3>1. ASSUME NEW u \in Used(f), NEW v \in Used(f),
                 f2[u].main = f2[v].main, f2[u].main # 0, r2[u] = r2[v]
          PROVE  u = v
      <4>1. /\ u # g => f2[u] = f[u]
            /\ v # g => f2[v] = f[v]
        BY <1>1, <1>2
      <4>2. c => f[u].main = f[v].main /\ f[u].main # 0
        BY <1>3, <3>1, <4>1
      <4>r. /\ r[u] \in Nat /\ r[v] \in Nat
            /\ r2[u] = IF Behind(u) THEN r[u] + 1 ELSE r[u]
            /\ r2[v] = IF Behind(v) THEN r[v] + 1 ELSE r[v]
        <5> HIDE DEF Behind
        <5>1. QED
          BY <2>2, <2>n
      <4>3. c => u = v
        <5>1. CASE c /\ f[u].main = f[g].main
          <6>1. r[u] = r[v]
            <7>1. /\ r[g] \in Nat /\ r[u] \in Nat /\ r[v] \in Nat
                  /\ r[u] > r[g] => r2[u] = r[u] + 1
                  /\ ~(r[u] > r[g]) => r2[u] = r[u]
                  /\ r[v] > r[g] => r2[v] = r[v] + 1
                  /\ ~(r[v] > r[g]) => r2[v] = r[v]
              BY <2>2, <4>2, <4>r, <5>1
            <7>2. r2[u] = r2[v]
              BY <3>1
            <7>3. QED
              BY <7>1, <7>2
          <6>2. QED
            BY <1>9, <4>2, <5>1, <6>1 DEF Ranked
        <5>2. CASE c /\ f[u].main # f[g].main
          <6>1. r[u] = r[v]
            BY <3>1, <4>2, <4>r, <5>2
          <6>2. QED
            BY <1>9, <4>2, <5>2, <6>1 DEF Ranked
        <5>3. QED
          BY <5>1, <5>2
      <4>4. ASSUME ~c PROVE u = v
        <5>1. r[u] = r[v]
          BY <3>1, <4>4, <4>r
        <5>2. \A w \in Used(f) : f[w].main # g
          BY <1>9, <4>4, <1>1 DEF Ranked
        <5>3. (u = g) <=> (v = g)
          BY <1>3, <3>1, <4>1, <4>4, <5>2
        <5>4. QED
          BY <1>9, <3>1, <4>1, <5>1, <5>3 DEF Ranked
      <4>5. QED
        BY <4>3, <4>4
    <3>2. ASSUME NEW u \in Used(f), f2[u].main = f2[h].main, r2[u] = r2[h]
          PROVE  FALSE
      <4>1. f2[u].main = M /\ r2[u] = r[g] + 1
        BY <1>3, <2>2, <3>2
      <4>2. u # g
        BY <2>2, <4>1
      <4>3. f[u].main = M /\ M # 0
        BY <1>1, <1>2, <1>7, <4>1, <4>2
      <4>4. c
        BY <1>1, <1>9, <4>3 DEF Ranked
      <4>5. /\ r[u] \in Nat /\ f[u].main = f[g].main
            /\ r2[u] = IF Behind(u) THEN r[u] + 1 ELSE r[u]
        <5> HIDE DEF Behind
        <5>1. QED
          BY <2>2, <2>n, <4>3, <4>4 DEF M
      <4>6. QED
        BY <2>2, <4>1, <4>4, <4>5
    <3>3. QED
      BY <1>5, <2>7, <3>1, <3>2
  <2>8. Ranked(f2, r2)
    BY <2>3, <2>4, <2>5, <2>6, <2>7 DEF Ranked
  <2>9. QED
    BY <2>1, <2>8 DEF Chains
<1>12. /\ root \in [Used(f2) -> Used(f)]
       /\ \A x \in Used(f2) : \/ x = h /\ root[x] = g
                              \/ x \in Used(f) /\ x # h /\ root[x] = x
  <2>1. root = [x \in Used(f2) |-> IF x = h THEN g ELSE x]
    BY <1>5 DEF RootOf
  <2>2. \A x \in Used(f2) : x = h \/ x \in Used(f)
    BY <1>5
  <2> HIDE DEF root
  <2>3. QED
    BY <2>1, <2>2
<1> HIDE DEF root, M
<1>13. \A x \in Used(f2) : f2[x].file = f[root[x]].file /\ f2[x].share = f[root[x]].share
  <2>1. TAKE x \in Used(f2)
  <2>2. CASE x = h
    BY <1>1, <1>3, <1>12, <2>2
  <2>3. CASE x = g
    BY <1>1, <1>3, <1>12, <2>3
  <2>4. CASE x # h /\ x # g
    <3>1. x \in Slot /\ root[x] = x
      BY <1>1, <1>12, <2>4
    <3>2. QED
      BY <1>2, <2>4, <3>1
  <2>5. QED
    BY <2>2, <2>3, <2>4
<1>14. ASSUME NEW x \in Used(f2)
       PROVE  f2[x].main = IF root[x] = g THEN M ELSE f[root[x]].main
  <2>1. CASE x = h
    BY <1>1, <1>3, <1>12, <2>1
  <2>2. CASE x = g
    BY <1>1, <1>3, <1>12, <2>2
  <2>3. CASE x # h /\ x # g
    <3>1. x \in Slot /\ root[x] = x
      BY <1>1, <1>12, <2>3
    <3>2. QED
      BY <1>2, <2>3, <3>1
  <2>4. QED
    BY <2>1, <2>2, <2>3
<1>15. ASSUME NEW x \in Used(f2)
       PROVE  Pos(f2, x) = Pos(f, root[x])
  <2>1. \A y \in Used(f) : f2[y].pos = f[y].pos
    BY <1>1, <1>2, <1>3
  <2>2. root[x] \in Used(f) /\ M # 0
    BY <1>1, <1>7, <1>12
  <2>3. MainOf(f, root[x]) \in Used(f)
    BY <1>6, <2>2 DEF MainOf
  <2>4. MainOf(f2, x) = MainOf(f, root[x])
    <3>1. CASE root[x] = g
      BY <1>14, <2>2, <3>1 DEF MainOf, M
    <3>2. CASE root[x] # g
      BY <1>12, <1>14, <3>2 DEF MainOf
    <3>3. QED
      BY <3>1, <3>2
  <2>5. QED
    BY <2>1, <2>3, <2>4 DEF Pos
<1>16. ASSUME NEW x \in Used(f2), NEW y \in Used(f2)
       PROVE  Mate(f2, x, y) <=> Mate(f, root[x], root[y])
  <2>1. ~c => \A w \in Used(f) : f[w].main # g
    BY <1>1, <1>9 DEF Ranked
  <2>2. /\ f2[x].main = IF root[x] = g THEN M ELSE f[root[x]].main
        /\ f2[y].main = IF root[y] = g THEN M ELSE f[root[y]].main
    BY <1>14
  <2>3. root[x] \in Used(f) /\ root[y] \in Used(f) /\ M # 0
    BY <1>1, <1>7, <1>12
  <2>4. root[x] = root[y] => x = y \/ (root[x] = g /\ root[y] = g)
    BY <1>12
  <2>5. x = y => root[x] = root[y]
    OBVIOUS
  <2>6. /\ c => M = f[g].main
        /\ ~c => M = g /\ f[g].main = 0
    BY DEF M
  <2> HIDE DEF c
  <2>7. QED
    BY <2>1, <2>2, <2>3, <2>4, <2>5, <2>6 DEF Mate
<1>17. \A x \in Used(f) : root[x] = x /\ f2[x].pid = f[x].pid
  <2>1. TAKE x \in Used(f)
  <2>2. root[x] = x
    BY <1>1, <1>5, <1>12
  <2>3. QED
    BY <1>1, <1>2, <1>3, <2>2
<1>18. Copied(f, f2, root)
  BY <1>5, <1>8, <1>11, <1>12, <1>13, <1>15, <1>16, <1>17 DEF Copied
<1>19. QED
  BY <1>3, <1>5, <1>18 DEF f2, root

(* A copy of a copy is a copy.                                             *)
Via(f3, a, b) == [x \in Used(f3) |-> a[b[x]]]

LEMMA CopyTrans ==
  ASSUME NEW f, NEW f2, NEW f3, NEW a, NEW b, Copied(f, f2, a), Copied(f2, f3, b)
  PROVE  Copied(f, f3, Via(f3, a, b))
<1> DEFINE root == Via(f3, a, b)
<1>1. /\ a \in [Used(f2) -> Used(f)] /\ b \in [Used(f3) -> Used(f2)]
      /\ Used(f) \subseteq Used(f2) /\ Used(f2) \subseteq Used(f3)
  BY DEF Copied
<1>2. root \in [Used(f3) -> Used(f)] /\ \A x \in Used(f3) : root[x] = a[b[x]]
  BY <1>1 DEF Via
<1>3. \A x \in Used(f) : root[x] = x /\ f3[x].pid = f[x].pid
  BY <1>1, <1>2 DEF Copied
<1> HIDE DEF root
<1>4. \A x \in Used(f3) : /\ f3[x].file = f[root[x]].file
                         /\ f3[x].share = f[root[x]].share
                         /\ Pos(f3, x) = Pos(f, root[x])
  BY <1>1, <1>2 DEF Copied
<1>5. \A x, y \in Used(f3) : Mate(f3, x, y) <=> Mate(f, root[x], root[y])
  BY <1>1, <1>2 DEF Copied
<1>6. QED
  BY <1>1, <1>2, <1>3, <1>4, <1>5 DEF Copied, root

(* The first handle of a chain of several has a successor.                 *)
LEMMA FirstNext ==
  ASSUME NEW f, Table(f), NEW r \in [Slot -> Nat], Ranked(f, r), NEW h \in Used(f),
         f[h].main = h, NEW x \in Used(f), x # h, f[x].main = h
  PROVE  f[h].next # 0
<1> DEFINE C == {y \in Used(f) : y # h /\ f[y].main = h}
           T == {r[y] : y \in C}
<1>1. Used(f) \subseteq Slot /\ 0 \notin Slot /\ h # 0 /\ x # 0
  BY SlotFacts DEF Used
<1>2. \A y \in C : r[y] \in Nat
  BY <1>1
<1>3. T \in SUBSET Nat /\ T # {}
  BY <1>2
<1>4. PICK n \in T : \A k \in T : n <= k
  <2> HIDE DEF T
  <2> QED
    BY <1>3, LeastNat
<1>5. PICK y \in C : r[y] = n
  BY <1>4
<1>6. y \in Used(f) /\ y # 0 /\ y # h /\ f[y].main = h
  BY <1>1, <1>5
<1>7. PICK g \in Used(f) : f[g].next = y
  BY <1>1, <1>6 DEF Ranked
<1>8. f[g].main = h /\ r[y] = r[g] + 1
  BY <1>6, <1>7 DEF Ranked
<1>9. g \notin C
  <2>1. ASSUME g \in C PROVE FALSE
    <3>1. n <= r[g] /\ r[g] \in Nat
      BY <1>2, <1>4, <2>1
    <3>2. QED
      BY <1>5, <1>8, <3>1
  <2>2. QED
    BY <2>1
<1>10. QED
  BY <1>6, <1>7, <1>8, <1>9

(* ioh_unlink(): the other handles of the chain keep their position.       *)
LEMMA Unlinked ==
  ASSUME NEW f, Table(f), Chains(f), NEW h \in Used(f)
  PROVE  LET f2 == Unchained(f, h)
         IN  /\ Table(f2) /\ Chains(f2) /\ Used(f2) = Used(f) \ {h} /\ f2[h] = Free
             /\ \A x \in Used(f2) :
                  /\ f2[x].pid = f[x].pid /\ f2[x].file = f[x].file
                  /\ f2[x].share = f[x].share /\ Pos(f2, x) = Pos(f, x)
             /\ \A x, y \in Used(f2) : Mate(f2, x, y) <=> Mate(f, x, y)
<1> DEFINE f2 == Unchained(f, h)
           m == IF f[h].main = h THEN f[h].next ELSE f[h].main
           M == {x \in Used(f) : x # h /\ f[h].main # 0 /\ f[x].main = f[h].main}
<1>1. /\ f \in [Slot -> HandleType] /\ Used(f) \subseteq Slot /\ 0 \notin Slot
      /\ h \in Slot /\ h # 0
      /\ \A x \in Used(f) : /\ f[x].main \in Used(f) \cup {0}
                           /\ f[x].next \in Used(f) \cup {0}
  BY SlotFacts DEF Table, Used
<1>2. PICK r \in [Slot -> Nat] : Ranked(f, r)
  BY DEF Chains
<1>3. \A x \in Used(f) : r[x] \in Nat
  BY <1>1
<1>4. /\ f[h].main = h /\ M # {} => m \in M /\ r[h] = 0 /\ r[m] = 1
      /\ f[h].main = h /\ M = {} => m = 0
      /\ f[h].main \notin {0, h} => m \in M /\ f[m].main = m /\ r[m] = 0
      /\ f[h].main = 0 => m = 0 /\ M = {}
  <2>1. CASE f[h].main = h
    <3>1. M # {} => f[h].next # 0
      BY <1>2, <2>1, FirstNext
    <3>2. r[h] = 0
      BY <1>1, <1>2, <2>1 DEF Ranked
    <3>3. ASSUME f[h].next # 0
          PROVE  m \in M /\ r[m] = 1
      <4>1. m = f[h].next /\ m \in Used(f)
        BY <1>1, <2>1, <3>3
      <4>2. f[m].main = h /\ r[m] = r[h] + 1
        BY <1>2, <2>1, <3>3, <4>1 DEF Ranked
      <4>3. QED
        BY <1>1, <2>1, <3>2, <4>1, <4>2
    <3>4. QED
      BY <1>1, <2>1, <3>1, <3>2, <3>3
  <2>2. CASE f[h].main \notin {0, h}
    <3>1. m = f[h].main /\ m \in Used(f) /\ m # h
      BY <1>1, <2>2
    <3>2. f[m].main = m
      BY <1>2, <2>2, <3>1 DEF Ranked
    <3>3. m # 0 /\ r[m] = 0
      BY <1>2, <2>2, <3>1, <3>2 DEF Ranked
    <3>4. QED
      BY <2>2, <3>1, <3>2, <3>3
  <2>3. CASE f[h].main = 0
    BY <1>1, <2>3
  <2>4. QED
    BY <2>1, <2>2, <2>3
<1>5. ChainFrom(f, m) \ {h} = M
  <2>1. CASE m = 0
    <3>1. M = {}
      BY <1>1, <1>4, <2>1
    <3>2. QED
      BY <2>1, <3>1, ChainNone
  <2>2. CASE m # 0
    <3>1. m \in M /\ m \in Used(f) /\ f[m].main = f[h].main /\ f[m].main # 0
      BY <1>4, <2>2
    <3>2. ChainFrom(f, m) = {x \in Used(f) : f[x].main = f[m].main /\ r[x] >= r[m]}
      <4> HIDE DEF m, M
      <4> QED
        BY <1>2, <3>1, ChainSet
    <3>3. ASSUME NEW x \in M
          PROVE  r[x] >= r[m]
      <4>1. CASE f[h].main = h
        <5>1. r[m] = 1 /\ r[x] # 0
          BY <1>2, <1>4, <3>1, <3>3, <4>1 DEF Ranked
        <5>2. QED
          BY <1>3, <3>3, <5>1
      <4>2. CASE f[h].main \notin {0, h}
        BY <1>3, <1>4, <3>3, <4>2
      <4>3. QED
        BY <1>4, <3>1, <4>1, <4>2
    <3>4. QED
      BY <3>1, <3>2, <3>3
  <2>3. QED
    BY <2>1, <2>2
<1>6. M # {} => m \in M
  BY <1>4
<1>7. M \subseteq Used(f) /\ M \subseteq Slot
  BY <1>1
<1>8. f2 = [x \in Slot |->
              IF x = h THEN Free
              ELSE IF x \notin M THEN f[x]
              ELSE [f[x] EXCEPT !.main = m, !.next = NextOf(f, h, x),
                                !.pos = IF TakesOver(f, h, x) THEN f[h].pos ELSE @]]
  BY <1>5 DEF Unchained
<1>9. /\ f2 \in [Slot -> HandleType] /\ f2[h] = Free
      /\ \A x \in Slot : x \notin M /\ x # h => f2[x] = f[x]
      /\ \A x \in M : /\ f2[x].main = m /\ f2[x].next = NextOf(f, h, x)
                      /\ f2[x].pos = IF TakesOver(f, h, x) THEN f[h].pos ELSE f[x].pos
                      /\ f2[x].pid = f[x].pid /\ f2[x].file = f[x].file
                      /\ f2[x].share = f[x].share
  <2>1. Free \in HandleType
    BY HandleConstants DEF Free, HandleType
  <2>2. \A x \in M : f[x] \in HandleType /\ x # h
    BY <1>1
  <2>3. f[h] \in HandleType /\ m \in Slot \cup {0}
    BY <1>1
  <2>4. \A x \in M : NextOf(f, h, x) \in Slot \cup {0}
    BY <2>2, <2>3 DEF NextOf, HandleType
  <2> DEFINE e(x) == [f[x] EXCEPT !.main = m, !.next = NextOf(f, h, x),
                                  !.pos = IF TakesOver(f, h, x) THEN f[h].pos ELSE @]
  <2>5. ASSUME NEW x \in M
        PROVE  /\ e(x) \in HandleType
               /\ e(x).main = m /\ e(x).next = NextOf(f, h, x)
               /\ e(x).pos = IF TakesOver(f, h, x) THEN f[h].pos ELSE f[x].pos
               /\ e(x).pid = f[x].pid /\ e(x).file = f[x].file
               /\ e(x).share = f[x].share
    <3>1. f[x] \in HandleType /\ NextOf(f, h, x) \in Slot \cup {0}
      BY <2>2, <2>4
    <3> HIDE DEF m
    <3>2. QED
      BY <2>3, <3>1 DEF HandleType
  <2> HIDE DEF e, m, M
  <2>6. \A x \in Slot : f2[x] = IF x = h THEN Free ELSE IF x \notin M THEN f[x] ELSE e(x)
    BY <1>8 DEF e
  <2>7. \A x \in M : x \in Slot /\ x # h /\ f2[x] = e(x)
    BY <1>7, <2>2, <2>6
  <2>8. \A x \in Slot : f2[x] \in HandleType
    BY <1>1, <2>1, <2>5, <2>6
  <2>9. f2 \in [Slot -> HandleType]
    <3>1. f2 = [x \in Slot |-> f2[x]]
      BY <1>8
    <3> HIDE DEF f2
    <3>2. QED
      BY <2>8, <3>1
  <2> HIDE DEF f2
  <2>10. QED
    BY <1>1, <2>5, <2>6, <2>7, <2>9
<1> HIDE DEF f2
<1>10. \A x \in Used(f) : f[x].file # NoFile
  BY <1>1 DEF Table, Used
<1>11. \A x \in Used(f) : x # h /\ x \notin M => f2[x] = f[x]
  BY <1>1, <1>9
<1>12. Used(f2) = Used(f) \ {h}
  <2>1. \A x \in M : f2[x] # Free
    BY <1>7, <1>9, <1>10 DEF Free
  <2>2. \A x \in M : x \in Used(f) /\ x # h
    OBVIOUS
  <2> HIDE DEF M
  <2>3. QED
    BY <1>1, <1>9, <2>1, <2>2 DEF Used
(* who refers to h is in M                                                 *)
<1>13. ASSUME NEW x \in Used(f), x # h, x \notin M
       PROVE  f[x].main # h /\ f[x].next # h
  <2>1. f[x].main = h => f[h].main = h
    BY <1>1, <1>2, <1>13 DEF Ranked
  <2>2. f[x].next = h => f[h].main = f[x].main /\ f[x].main # 0
    BY <1>1, <1>2, <1>13 DEF Ranked
  <2>3. QED
    BY <1>1, <1>13, <2>1, <2>2
(* links from M                                                            *)
<1>14. ASSUME NEW x \in M, f2[x].next # 0
       PROVE  LET z == f2[x].next
              IN  /\ z \in M
                  /\ \/ f[x].next = z /\ r[z] = r[x] + 1
                     \/ f[x].next = h /\ r[z] = r[h] + 1 /\ r[h] = r[x] + 1
  <2>1. f2[x].next = NextOf(f, h, x) /\ x \in Used(f) /\ f[x].main = f[h].main /\ f[h].main # 0
    BY <1>9
  <2>2. CASE f[x].next = h
    <3>1. f2[x].next = f[h].next /\ r[h] = r[x] + 1
      BY <1>1, <1>2, <2>1, <2>2 DEF NextOf, Ranked
    <3> DEFINE z == f[h].next
    <3>2. z \in Used(f) /\ f[z].main = f[h].main /\ r[z] = r[h] + 1
      BY <1>1, <1>2, <1>14, <3>1 DEF Ranked
    <3>3. z # h
      BY <1>3, <3>2
    <3>4. QED
      BY <2>1, <2>2, <3>1, <3>2, <3>3
  <2>3. CASE f[x].next # h
    <3> DEFINE z == f[x].next
    <3>1. f2[x].next = z
      BY <2>1, <2>3 DEF NextOf
    <3>2. z \in Used(f) /\ f[z].main = f[x].main /\ r[z] = r[x] + 1
      BY <1>1, <1>2, <1>14, <2>1, <3>1 DEF Ranked
    <3>3. QED
      BY <2>1, <2>3, <3>1, <3>2
  <2>4. QED
    BY <2>2, <2>3
<1>15. Table(f2)
  <2>1. ASSUME NEW x \in Slot
        PROVE  f2[x].main \in Used(f2) \cup {0} /\ f2[x].next \in Used(f2) \cup {0}
    <3>1. CASE x = h \/ x \notin Used(f)
      <4>1. f2[x] = Free
        BY <1>9, <3>1 DEF Used
      <4>2. QED
        BY <4>1 DEF Free
    <3>2. CASE x \in Used(f) /\ x # h /\ x \notin M
      <4>1. f2[x] = f[x] /\ f[x].main # h /\ f[x].next # h
        BY <1>11, <1>13, <3>2
      <4>2. QED
        BY <1>1, <1>12, <3>2, <4>1
    <3>3. CASE x \in M
      <4>1. f2[x].main = m /\ m \in M
        BY <1>6, <1>9, <3>3
      <4>2. f2[x].next = 0 \/ f2[x].next \in M
        BY <1>14, <3>3
      <4>3. M \subseteq Used(f2)
        BY <1>12
      <4> HIDE DEF m, M
      <4>4. QED
        BY <4>1, <4>2, <4>3
    <3>4. QED
      BY <3>1, <3>2, <3>3
  <2>2. ASSUME NEW x \in Slot
        PROVE  f2[x].file = NoFile <=> f2[x] = Free
    <3>1. CASE x \in M
      BY <1>7, <1>9, <1>10, <3>1 DEF Free
    <3>2. CASE x = h
      BY <1>9, <3>2 DEF Free
    <3>3. CASE x \notin M /\ x # h
      BY <1>9, <3>3 DEF Table
    <3>4. QED
      BY <3>1, <3>2, <3>3
  <2>3. QED
    BY <1>9, <2>1, <2>2 DEF Table
<1> DEFINE r2 == [x \in Slot |-> IF x \in M /\ r[x] > r[h] THEN r[x] - 1 ELSE r[x]]
<1>16. r2 \in [Slot -> Nat]
  <2>1. \A x \in Slot : r[x] \in Nat /\ r[h] \in Nat
    BY <1>1
  <2>2. \A x \in Slot : x \in M /\ r[x] > r[h] => r[x] - 1 \in Nat
    BY <2>1
  <2> HIDE DEF M
  <2>3. QED
    BY <2>1, <2>2
<1>17. /\ \A x \in Used(f) : x \notin M => r2[x] = r[x]
       /\ \A x \in M : /\ r[x] \in Nat /\ r[h] \in Nat /\ r[x] # r[h]
                       /\ r[x] > r[h] => r2[x] = r[x] - 1
                       /\ ~(r[x] > r[h]) => r2[x] = r[x]
  <2>1. \A x \in M : r[x] # r[h]
    BY <1>2 DEF Ranked
  <2>2. r[h] \in Nat /\ \A x \in M : r[x] \in Nat
    BY <1>3
  <2> HIDE DEF M
  <2>3. QED
    BY <1>1, <1>7, <2>1, <2>2
<1> HIDE DEF r2
<1>18. ASSUME NEW x \in M, NEW y \in M, r2[x] = r2[y]
       PROVE  x = y
  <2>1. r[x] = r[y]
    <3>1. /\ r[x] \in Nat /\ r[y] \in Nat /\ r[h] \in Nat /\ r[x] # r[h] /\ r[y] # r[h]
          /\ r[x] > r[h] => r2[x] = r[x] - 1
          /\ ~(r[x] > r[h]) => r2[x] = r[x]
          /\ r[y] > r[h] => r2[y] = r[y] - 1
          /\ ~(r[y] > r[h]) => r2[y] = r[y]
      BY <1>17
    <3>2. r2[x] = r2[y]
      BY <1>18
    <3>3. QED
      BY <3>1, <3>2
  <2>2. QED
    BY <1>2, <2>1 DEF Ranked
<1>19. M # {} => m \in M /\ f2[m].main = m /\ r2[m] = 0
  <2>1. ASSUME M # {} PROVE m \in M
    BY <1>6, <2>1
  <2>2. ASSUME M # {} PROVE f2[m].main = m
    BY <1>9, <2>1, <2>2
  <2>3. ASSUME M # {} PROVE r2[m] = 0
    <3>1. CASE f[h].main = h
      <4>1. r[h] = 0 /\ r[m] = 1
        BY <1>4, <2>3, <3>1
      <4>2. QED
        BY <1>17, <2>1, <2>3, <4>1
    <3>2. CASE f[h].main \notin {0, h}
      <4>1. r[m] = 0
        BY <1>4, <3>2
      <4>2. QED
        BY <1>17, <2>1, <2>3, <4>1
    <3>3. QED
      BY <1>4, <2>3, <3>1, <3>2
  <2>4. QED
    BY <2>1, <2>2, <2>3
(* chains other than that of h                                             *)
<1>20. ASSUME NEW x \in Used(f), x # h, x \notin M, f[x].main # 0
       PROVE  LET k == f[x].main
              IN  k \in Used(f) /\ k # h /\ k \notin M /\ k # f[h].main /\ f2[k] = f[k]
  <2> DEFINE k == f[x].main
  <2>1. k \in Used(f) /\ f[k].main = k /\ k # f[h].main
    BY <1>1, <1>2, <1>20 DEF Ranked
  <2>2. k # h /\ k \notin M
    BY <1>13, <1>20, <2>1
  <2>3. QED
    BY <1>11, <2>1, <2>2
<1>21. Ranked(f2, r2)
  <2>1. ASSUME NEW x \in Used(f2), f2[x].main = 0
        PROVE  f2[x].next = 0 /\ r2[x] = 0
    <3>1. x \in Used(f) /\ x # h
      BY <1>12
    <3>2. x \notin M
      BY <1>1, <1>9, <1>19, <2>1
    <3>3. f2[x] = f[x] /\ r2[x] = r[x]
      BY <1>11, <1>17, <3>1, <3>2
    <3>4. QED
      BY <1>2, <2>1, <3>1, <3>3 DEF Ranked
  <2>2. ASSUME NEW x \in Used(f2), f2[x].main # 0
        PROVE  f2[f2[x].main].main = f2[x].main /\ (r2[x] = 0 <=> f2[x].main = x)
    <3>1. x \in Used(f) /\ x # h
      BY <1>12
    <3>2. CASE x \in M
      <4>1. f2[x].main = m /\ m \in M /\ f2[m].main = m /\ r2[m] = 0
        BY <1>9, <1>19, <3>2
      <4>2. r2[x] = 0 => x = m
        BY <1>18, <3>2, <4>1
      <4> HIDE DEF m, M
      <4>3. QED
        BY <4>1, <4>2
    <3>3. CASE x \notin M
      <4>1. f2[x] = f[x] /\ r2[x] = r[x] /\ f[x].main # 0
        BY <1>11, <1>17, <2>2, <3>1, <3>3
      <4>2. f2[f[x].main] = f[f[x].main]
        BY <1>20, <3>1, <3>3, <4>1
      <4>3. f[f[x].main].main = f[x].main /\ (r[x] = 0 <=> f[x].main = x)
        BY <1>2, <3>1, <4>1 DEF Ranked
      <4>4. QED
        BY <4>1, <4>2, <4>3
    <3>4. QED
      BY <3>2, <3>3
  <2>3. ASSUME NEW x \in Used(f2), f2[x].next # 0
        PROVE  f2[f2[x].next].main = f2[x].main /\ r2[f2[x].next] = r2[x] + 1
    <3>1. x \in Used(f) /\ x # h
      BY <1>12
    <3>2. CASE x \in M
      <4> DEFINE z == f2[x].next
      <4>1. /\ z \in M
            /\ \/ r[z] = r[x] + 1
               \/ r[z] = r[h] + 1 /\ r[h] = r[x] + 1
        BY <1>14, <2>3, <3>2
      <4>2. f2[z].main = m /\ f2[x].main = m
        BY <1>9, <3>2, <4>1
      <4>3. /\ r[x] \in Nat /\ r[z] \in Nat /\ r[h] \in Nat /\ r[x] # r[h] /\ r[z] # r[h]
            /\ r[x] > r[h] => r2[x] = r[x] - 1
            /\ ~(r[x] > r[h]) => r2[x] = r[x]
            /\ r[z] > r[h] => r2[z] = r[z] - 1
            /\ ~(r[z] > r[h]) => r2[z] = r[z]
        BY <1>17, <3>2, <4>1
      <4>4. r2[z] = r2[x] + 1
        <5> HIDE DEF z, M
        <5>1. QED
          BY <4>1, <4>3
      <4>5. QED
        BY <4>2, <4>4
    <3>3. CASE x \notin M
      <4> DEFINE z == f[x].next
      <4>1. f2[x] = f[x] /\ r2[x] = r[x] /\ z # 0 /\ z \in Used(f) /\ z # h
        BY <1>1, <1>11, <1>13, <1>17, <2>3, <3>1, <3>3
      <4>2. f[z].main = f[x].main /\ r[z] = r[x] + 1 /\ f[x].main # 0
        BY <1>2, <3>1, <4>1 DEF Ranked
      <4>3. z \notin M
        BY <3>1, <3>3, <4>2
      <4>4. f2[z] = f[z] /\ r2[z] = r[z]
        BY <1>11, <1>17, <4>1, <4>3
      <4>5. QED
        BY <4>1, <4>2, <4>4
    <3>4. QED
      BY <3>2, <3>3
  <2>4. ASSUME NEW x \in Used(f2), f2[x].main \notin {0, x}
        PROVE  \E y \in Used(f2) : f2[y].next = x
    <3>1. x \in Used(f) /\ x # h /\ M \subseteq Used(f2)
      BY <1>12
    <3>2. CASE x \in M
      <4>1. f2[x].main = m /\ x # m
        BY <1>9, <2>4, <3>2
      <4>2. f[x].main \notin {0, x} /\ f[x].main = f[h].main
        BY <1>2, <3>2, <4>1 DEF Ranked
      <4>3. PICK y \in Used(f) : f[y].next = x
        BY <1>2, <3>1, <4>2 DEF Ranked
      <4>4. f[y].main = f[h].main /\ f[h].main # 0 /\ r[x] = r[y] + 1
        BY <1>1, <1>2, <3>1, <4>2, <4>3 DEF Ranked
      <4>5. CASE y # h
        <5>1. y \in M /\ f2[y].next = x
          BY <1>9, <3>1, <4>3, <4>4, <4>5 DEF NextOf
        <5>2. QED
          BY <3>1, <5>1
      <4>6. CASE y = h
        <5>1. f[h].main \notin {0, h}
          BY <4>1, <4>3, <4>4, <4>6
        <5>2. PICK g \in Used(f) : f[g].next = h
          BY <1>2, <5>1 DEF Ranked
        <5>3. f[g].main = f[h].main /\ r[h] = r[g] + 1
          BY <1>1, <1>2, <5>2 DEF Ranked
        <5>4. g # h
          BY <1>3, <5>3
        <5>5. g \in M /\ f2[g].next = x
          BY <1>9, <4>3, <4>4, <4>6, <5>2, <5>3, <5>4 DEF NextOf
        <5>6. QED
          BY <3>1, <5>5
      <4>7. QED
        BY <4>5, <4>6
    <3>3. CASE x \notin M
      <4>1. f2[x] = f[x]
        BY <1>11, <3>1, <3>3
      <4>2. PICK y \in Used(f) : f[y].next = x
        BY <1>2, <2>4, <3>1, <4>1 DEF Ranked
      <4>3. f[y].main = f[x].main /\ f[x].main # 0
        BY <1>1, <1>2, <2>4, <3>1, <4>1, <4>2 DEF Ranked
      <4>4. y # h /\ y \notin M
        BY <3>1, <3>3, <4>3
      <4>5. f2[y] = f[y] /\ y \in Used(f2)
        BY <1>11, <1>12, <4>4
      <4>6. QED
        BY <4>2, <4>5
    <3>4. QED
      BY <3>2, <3>3
  <2>5. ASSUME NEW x \in Used(f2), NEW y \in Used(f2),
               f2[x].main = f2[y].main, f2[x].main # 0, r2[x] = r2[y]
        PROVE  x = y
    <3>1. x \in Used(f) /\ x # h /\ y \in Used(f) /\ y # h
      BY <1>12
    <3>2. CASE x \in M /\ y \in M
      BY <1>18, <2>5, <3>2
    <3>3. CASE x \notin M /\ y \notin M
      <4>1. f2[x] = f[x] /\ f2[y] = f[y] /\ r2[x] = r[x] /\ r2[y] = r[y]
        BY <1>11, <1>17, <3>1, <3>3
      <4>2. QED
        BY <1>2, <2>5, <3>1, <4>1 DEF Ranked
    <3>4. ASSUME NEW u \in M, NEW v \in Used(f), v # h, v \notin M, f2[v].main = f2[u].main,
                 f2[v].main # 0
          PROVE  FALSE
      <4>1. f2[u].main = m /\ m \in M /\ f2[v] = f[v]
        BY <1>9, <1>11, <1>19, <3>4
      <4>2. f[v].main \notin M
        BY <1>20, <3>4, <4>1
      <4>3. QED
        BY <3>4, <4>1, <4>2
    <3>5. QED
      BY <2>5, <3>1, <3>2, <3>3, <3>4
  <2>6. QED
    BY <2>1, <2>2, <2>3, <2>4, <2>5 DEF Ranked
<1>22. ASSUME NEW x \in Used(f2)
       PROVE  /\ f2[x].pid = f[x].pid /\ f2[x].file = f[x].file
              /\ f2[x].share = f[x].share /\ Pos(f2, x) = Pos(f, x)
  <2>1. x \in Used(f) /\ x # h
    BY <1>12
  <2>2. CASE x \in M
    <3>1. /\ f2[x].pid = f[x].pid /\ f2[x].file = f[x].file /\ f2[x].share = f[x].share
          /\ f2[x].main = m /\ m \in M /\ f[x].main = f[h].main /\ f[h].main # 0
          /\ f2[m].pos = IF TakesOver(f, h, m) THEN f[h].pos ELSE f[m].pos
      BY <1>9, <1>19, <2>2
    <3>2. m # 0
      BY <1>1, <1>7, <3>1
    <3>3. Pos(f2, x) = f2[m].pos
      BY <3>1, <3>2 DEF Pos, MainOf
    <3>4. Pos(f, x) = f[f[h].main].pos
      BY <3>1 DEF Pos, MainOf
    <3>5. f2[m].pos = f[f[h].main].pos
      BY <3>1 DEF TakesOver
    <3>6. QED
      BY <3>1, <3>3, <3>4, <3>5
  <2>3. CASE x \notin M
    <3>1. f2[x] = f[x]
      BY <1>11, <2>1, <2>3
    <3>2. f2[MainOf(f, x)] = f[MainOf(f, x)]
      BY <1>20, <2>1, <2>3, <3>1 DEF MainOf
    <3>3. QED
      BY <3>1, <3>2 DEF Pos, MainOf
  <2>4. QED
    BY <2>2, <2>3
<1>23. ASSUME NEW x \in Used(f2), NEW y \in Used(f2)
       PROVE  Mate(f2, x, y) <=> Mate(f, x, y)
  <2>1. x \in Used(f) /\ x # h /\ y \in Used(f) /\ y # h
    BY <1>12
  <2>2. CASE x \in M /\ y \in M
    <3>1. /\ f2[x].main = m /\ f2[y].main = m /\ m # 0
          /\ f[x].main = f[y].main /\ f[x].main # 0
      BY <1>1, <1>7, <1>9, <1>19, <2>2
    <3>2. QED
      BY <2>1, <3>1 DEF Mate
  <2>3. CASE x \notin M /\ y \notin M
    <3>1. f2[x] = f[x] /\ f2[y] = f[y]
      BY <1>11, <2>1, <2>3
    <3>2. QED
      BY <2>1, <3>1 DEF Mate
  <2>4. ASSUME NEW u \in M, NEW v \in Used(f), v # h, v \notin M
        PROVE  /\ u # v /\ f[u].main # f[v].main
               /\ f2[v].main # 0 => f2[u].main # f2[v].main
               /\ f2[u].main # 0
    <3>1. f2[u].main = m /\ m \in M /\ m # 0 /\ f2[v] = f[v]
      BY <1>1, <1>7, <1>9, <1>11, <1>19, <2>4
    <3>2. f[v].main # 0 => f[v].main \notin M
      BY <1>20, <2>4
    <3>3. f[u].main = f[h].main /\ f[v].main # f[h].main
      BY <2>4
    <3> HIDE DEF m, M
    <3>4. QED
      BY <2>4, <3>1, <3>2, <3>3
  <2>5. QED
    BY <2>1, <2>2, <2>3, <2>4 DEF Mate
<1>24. Chains(f2)
  BY <1>16, <1>21 DEF Chains
<1>25. QED
  BY <1>9, <1>12, <1>15, <1>22, <1>23, <1>24 DEF f2

-----------------------------------------------------------------------------
(***************************************************************************)
(* The inductive invariant.                                                *)
(***************************************************************************)
Typed == /\ sft \in [Name -> EntryType] /\ volopen \subseteq Fh /\ alive \subseteq Proc
         /\ detached \subseteq Slot /\ job \in [Proc -> SUBSET Slot]
         /\ mounted \in BOOLEAN /\ misuse \in BOOLEAN

(* sft_entry.ioh_first lists the handles of a file, and no other entry is  *)
(* left.                                                                   *)
Listed == \A n \in Name : /\ sft[n].list = {h \in Slot : ft[h].file = n}
                          /\ n \in Opened <=> sft[n].list # {}
(* sft_entry.open_mode is what all handles of the file share.              *)
BitsShared == \A n \in Opened :
                 sft[n].sbits = {a \in Access : \A h \in sft[n].list : a \in ft[h].share}
(* The volume has the unbroken files open, each with a handle of its own.  *)
Whole == {n \in Opened : ~sft[n].broken}
VolumeOpen == /\ volopen = {sft[n].fh : n \in Whole}
              /\ \A m, n \in Whole : sft[m].fh = sft[n].fh => m = n
(* io_close_as() has handles in use to close, of processes that ended.     *)
JobsOpen == /\ \A p \in Proc : job[p] \subseteq Used(ft)
            /\ \A p \in alive : job[p] = {}

TableInv == /\ Typed /\ Table(ft) /\ Chains(ft) /\ Listed /\ BitsShared /\ VolumeOpen
            /\ JobsOpen /\ NothingLeft

(* The lowest of some slots.                                               *)
LEMMA LowestIs ==
  ASSUME NEW S, S \subseteq Slot, S # {}
  PROVE  Lowest(S) \in S
<1>1. S \in SUBSET Nat
  BY SlotFacts
<1>2. \E h \in S : \A g \in S : h <= g
  BY <1>1, LeastNat
<1>3. QED
  BY <1>2 DEF Lowest

(* common_alloc() finds a free slot if there is one.                       *)
LEMMA FirstFreeIs ==
  ASSUME NEW f, Used(f) # Slot
  PROVE  FirstFree(f) \in Slot \ Used(f)
<1>1. Slot \ Used(f) # {}
  BY DEF Used
<1>2. QED
  BY <1>1, LowestIs DEF FirstFree

(* The volume has a handle for one file more.                              *)
LEMMA NewFh ==
  ASSUME Typed, VolumeOpen
  PROVE  (CHOOSE x \in Fh : x \notin volopen) \in Fh \ volopen
<1> DEFINE k == Cardinality(Name)
           fhOf == [n \in Whole |-> sft[n].fh]
<1>1. IsFiniteSet(Name) /\ k \in Nat
  BY HandleConstants, FS_CardinalityType
<1>2. Whole \in SUBSET Name
  BY DEF Whole, Opened
<1>3. IsFiniteSet(Whole) /\ Cardinality(Whole) <= k
  BY <1>1, <1>2, FS_Subset
<1>4. fhOf \in Surjection(Whole, volopen)
  BY DEF VolumeOpen, Surjection
<1>5. IsFiniteSet(volopen) /\ Cardinality(volopen) <= Cardinality(Whole)
  <2> HIDE DEF fhOf
  <2> QED
    BY <1>3, <1>4, FS_Surjection
<1>6. IsFiniteSet(Fh) /\ Cardinality(Fh) = k + 1
  <2>1. 1 \in Int /\ k + 1 \in Int /\ ~(1 > k + 1)
    BY <1>1
  <2>2. IsFiniteSet(1..(k + 1)) /\ Cardinality(1..(k + 1)) = (k + 1) - 1 + 1
    <3> HIDE DEF k
    <3> QED
      BY <2>1, FS_Interval
  <2>3. QED
    BY <1>1, <2>2 DEF Fh
<1>7. volopen # Fh
  <2>1. Cardinality(Whole) \in Nat /\ Cardinality(volopen) \in Nat
    BY <1>3, <1>5, FS_CardinalityType
  <2>2. Cardinality(volopen) # Cardinality(Fh)
    <3> HIDE DEF k
    <3> QED
      BY <1>1, <1>3, <1>5, <1>6, <2>1
  <2>3. QED
    BY <2>2
<1>8. \E x \in Fh : x \notin volopen
  BY <1>7 DEF Typed
<1>9. QED
  BY <1>8

(* The volume has as many files open as the table.                         *)
LEMMA AsMany ==
  ASSUME VolumeOpen
  PROVE  Cardinality(volopen) = Cardinality(Whole)
<1> DEFINE fhOf == [n \in Whole |-> sft[n].fh]
<1>1. IsFiniteSet(Whole)
  <2>1. Whole \in SUBSET Name
    BY DEF Whole, Opened
  <2>2. QED
    BY <2>1, HandleConstants, FS_Subset
<1>2. fhOf \in Bijection(Whole, volopen)
  BY DEF VolumeOpen, Bijection, Injection, IsInjective, Surjection
<1>3. ExistsBijection(Whole, volopen)
  BY <1>2 DEF ExistsBijection
<1>4. QED
  BY <1>1, <1>3, FS_Bijection

(* The invariants follow.                                                  *)
LEMMA TypeFollows == TableInv => TypeOK
<1> SUFFICES ASSUME TableInv PROVE TypeOK
  OBVIOUS
<1>1. Table(ft) /\ Typed
  BY DEF TableInv
<1>2. ft \in [Slot -> HandleType]
  BY <1>1 DEF Table
<1>3. \A h \in Slot : {ft[h].main, ft[h].next} \subseteq Used(ft) \cup {0}
  BY <1>1 DEF Table
<1>4. QED
  BY <1>1, <1>2, <1>3 DEF Typed, TypeOK, HandleType, EntryType

LEMMA AgreeFollows == TableInv /\ ~misuse => TablesAgree
<1> SUFFICES ASSUME TableInv, ~misuse PROVE TablesAgree
  OBVIOUS
<1>1. Listed /\ BitsShared /\ VolumeOpen
  BY DEF TableInv
<1>2. Cardinality(volopen) = Cardinality(Whole)
  BY <1>1, AsMany
<1>3. QED
  BY <1>1, <1>2 DEF Listed, BitsShared, VolumeOpen, Whole, TablesAgree

(* Nothing is open at first.                                               *)
LEMMA InitTable == Init => TableInv /\ ~misuse
<1> SUFFICES ASSUME Init PROVE TableInv /\ ~misuse
  OBVIOUS
<1>1. /\ Free \in HandleType /\ Free.main = 0 /\ Free.next = 0 /\ Free.file = NoFile
      /\ Shut \in EntryType /\ Shut.list = {}
  BY HandleConstants DEF Free, Shut, HandleType, EntryType
<1>2. /\ \A h \in Slot : ft[h] = Free
      /\ \A n \in Name : sft[n] = Shut
      /\ Used(ft) = {} /\ Opened = {} /\ Whole = {}
  BY DEF Init, Used, Opened, Whole
<1>3. Typed
  <2>1. alive \subseteq Proc
    BY DEF Init
  <2>2. QED
    BY <1>1, <2>1 DEF Init, Typed
<1>4. Table(ft)
  BY <1>1, <1>2 DEF Init, Table
<1>5. Chains(ft)
  <2>1. [x \in Slot |-> 0] \in [Slot -> Nat]
    OBVIOUS
  <2>2. Ranked(ft, [x \in Slot |-> 0])
    BY <1>2 DEF Ranked
  <2>3. QED
    BY <2>1, <2>2 DEF Chains
<1>6. Listed
  <2>1. \A n \in Name : n # NoFile
    BY HandleConstants
  <2>2. QED
    BY <1>1, <1>2, <2>1 DEF Listed
<1>7. BitsShared /\ VolumeOpen
  BY <1>2 DEF BitsShared, VolumeOpen, Init
<1>8. JobsOpen
  <2>1. alive \subseteq Proc
    BY DEF Init
  <2>2. QED
    BY <2>1 DEF JobsOpen, Init
<1>9. NothingLeft
  BY <1>2 DEF NothingLeft
<1>10. QED
  BY <1>3, <1>4, <1>5, <1>6, <1>7, <1>8, <1>9 DEF TableInv, Init

(* io_open()                                                               *)
LEMMA OpenStep ==
  ASSUME TableInv, NEW p \in Proc, NEW n \in Name, NEW m \in Modes, Open(p, n, m)
  PROVE  TableInv'
<1> DEFINE h == FirstFree(ft)
           e == Handle(p, n, m)
           fh == CHOOSE x \in Fh : x \notin volopen
<1>1. /\ h \in Slot \ Used(ft) /\ p \in alive
      /\ ft' = [ft EXCEPT ![h] = e]
      /\ UNCHANGED <<mounted, alive, job, detached>>
  BY FirstFreeIs DEF Open, OpenAgain, OpenFirst
<1>2. /\ Typed /\ Table(ft) /\ Chains(ft) /\ Listed /\ BitsShared /\ VolumeOpen
      /\ JobsOpen /\ NothingLeft
  BY DEF TableInv
<1>3. /\ e \in HandleType /\ e.main = 0 /\ e.next = 0 /\ e.file = n /\ e.pid = p
      /\ e.share = m.share /\ m.share \subseteq Access
  <2>1. m \in AllModes
    BY HandleConstants
  <2>2. m.share \subseteq Access
    BY <2>1 DEF AllModes
  <2>3. MaxPos \in Nat
    BY HandleConstants
  <2>4. Free \in HandleType /\ Free.main = 0 /\ Free.next = 0
    BY <2>3, HandleConstants DEF Free, HandleType
  <2>5. QED
    BY <2>2, <2>4 DEF Handle, HandleType
<1> HIDE DEF h, e
<1>4. Table(ft') /\ Chains(ft') /\ Used(ft') = Used(ft) \cup {h}
  <2>1. ft' = Put(ft, h, e)
    BY <1>1 DEF Put
  <2>2. Table(ft) /\ Chains(ft) /\ h \in Slot \ Used(ft) /\ e.file \in Name
    BY <1>1, <1>2, <1>3
  <2>3. QED
    BY <1>3, <2>1, <2>2, AddPlain
<1>5. /\ ft'[h] = e /\ ft[h].file = NoFile
      /\ \A x \in Slot : x # h => ft'[x] = ft[x]
  BY <1>1, <1>2 DEF Table, Used
<1>6. n # NoFile /\ h \in Slot /\ h \notin Used(ft)
  BY <1>1, HandleConstants
<1>7. {x \in Slot : ft'[x].file = n} = {x \in Slot : ft[x].file = n} \cup {h}
  BY <1>3, <1>5, <1>6
<1>8. \A k \in Name : k # n => {x \in Slot : ft'[x].file = k} = {x \in Slot : ft[x].file = k}
  BY <1>3, <1>5, <1>6, HandleConstants
<1>9. /\ sft' \in [Name -> EntryType] /\ \A k \in Name : k # n => sft'[k] = sft[k]
      /\ sft'[n].list = sft[n].list \cup {h}
      /\ \/ /\ n \in Opened /\ sft'[n].fh = sft[n].fh /\ sft'[n].broken = sft[n].broken
            /\ sft'[n].sbits = sft[n].sbits \cap m.share
            /\ UNCHANGED volopen
         \/ /\ n \notin Opened /\ sft'[n].fh = fh /\ sft'[n].broken = FALSE
            /\ sft'[n].sbits = m.share
            /\ volopen' = volopen \cup {fh}
  <2>1. CASE OpenAgain(p, n, m)
    <3>1. sft' = [sft EXCEPT ![n].list = @ \cup {h}, ![n].sbits = sft[n].sbits \cap m.share]
      BY <2>1 DEF OpenAgain, NewBits, h
    <3>2. sft[n] \in EntryType /\ sft \in [Name -> EntryType]
      BY <1>2 DEF Typed
    <3>3. sft' = [sft EXCEPT ![n] = [sft[n] EXCEPT !.list = @ \cup {h},
                                                   !.sbits = sft[n].sbits \cap m.share]]
      BY <3>1, <3>2
    <3>4. [sft[n] EXCEPT !.list = @ \cup {h}, !.sbits = sft[n].sbits \cap m.share] \in EntryType
      BY <1>6, <3>2 DEF EntryType
    <3>5. n \in Opened /\ UNCHANGED volopen
      BY <2>1 DEF OpenAgain
    <3>6. QED
      BY <3>2, <3>3, <3>4, <3>5 DEF EntryType
  <2>2. CASE OpenFirst(p, n, m)
    <3>1. /\ n \notin Opened /\ volopen' = volopen \cup {fh}
          /\ sft' = [sft EXCEPT ![n] = [list |-> {h}, sbits |-> m.share, fh |-> fh,
                                        broken |-> FALSE]]
      BY <2>2 DEF OpenFirst, h
    <3>2. sft \in [Name -> EntryType] /\ fh \in Fh
      BY <1>2, NewFh DEF Typed
    <3>3. sft[n].list = {}
      BY <1>2, <3>1 DEF Listed
    <3> HIDE DEF fh
    <3>4. QED
      BY <1>3, <1>6, <3>1, <3>2, <3>3 DEF EntryType
  <2>3. QED
    BY <2>1, <2>2 DEF Open
<1>10. Opened' = Opened \cup {n}
  <2>1. sft'[n] # Shut
    BY <1>9 DEF Shut
  <2>2. QED
    BY <1>9, <2>1 DEF Opened
<1>11. Typed'
  <2>1. volopen' \subseteq Fh
    BY <1>2, <1>9, NewFh DEF Typed
  <2>2. misuse' \in BOOLEAN
    BY <1>2 DEF Typed, Open, OpenAgain, OpenFirst
  <2>3. QED
    BY <1>1, <1>2, <1>9, <2>1, <2>2 DEF Typed
<1>12. Listed'
  <2>1. ASSUME NEW k \in Name
        PROVE  /\ sft'[k].list = {x \in Slot : ft'[x].file = k}
               /\ k \in Opened' <=> sft'[k].list # {}
    <3>1. CASE k = n
      BY <1>2, <1>7, <1>9, <1>10, <3>1 DEF Listed
    <3>2. CASE k # n
      BY <1>2, <1>8, <1>9, <1>10, <3>2 DEF Listed
    <3>3. QED
      BY <3>1, <3>2
  <2>2. QED
    BY <2>1 DEF Listed
<1>13. BitsShared'
  <2>1. ASSUME NEW k \in Opened'
        PROVE  sft'[k].sbits = {a \in Access : \A x \in sft'[k].list : a \in ft'[x].share}
    <3>1. k \in Name /\ sft[k].list \subseteq Slot \ {h}
      BY <1>2, <1>5, <1>6, <2>1, HandleConstants DEF Opened, Listed
    <3>2. \A x \in sft[k].list : ft'[x].share = ft[x].share
      BY <1>5, <3>1
    <3>3. CASE k # n
      <4>1. k \in Opened /\ sft'[k] = sft[k]
        BY <1>9, <1>10, <2>1, <3>1, <3>3
      <4>2. QED
        BY <1>2, <3>2, <4>1 DEF BitsShared
    <3>4. CASE k = n /\ n \in Opened
      <4>1. sft[n].sbits = {a \in Access : \A x \in sft[n].list : a \in ft'[x].share}
        BY <1>2, <3>2, <3>4 DEF BitsShared
      <4>2. ft'[h].share = m.share
        BY <1>3, <1>5
      <4>3. QED
        BY <1>9, <3>4, <4>1, <4>2
    <3>5. CASE k = n /\ n \notin Opened
      <4>1. sft'[n].list = {h} /\ sft'[n].sbits = m.share /\ ft'[h].share = m.share
        BY <1>2, <1>3, <1>5, <1>9, <3>5 DEF Listed
      <4>2. QED
        BY <1>3, <3>5, <4>1
    <3>6. QED
      BY <3>3, <3>4, <3>5
  <2>2. QED
    BY <2>1 DEF BitsShared
<1>14. VolumeOpen'
  <2>1. CASE n \in Opened
    <3>1. /\ volopen' = volopen
          /\ \A k \in Name : sft'[k].fh = sft[k].fh /\ sft'[k].broken = sft[k].broken
      BY <1>9, <2>1
    <3>2. Whole' = Whole /\ Whole \subseteq Name
      BY <1>10, <2>1, <3>1 DEF Whole, Opened
    <3>3. QED
      BY <1>2, <3>1, <3>2 DEF VolumeOpen
  <2>2. CASE n \notin Opened
    <3>1. fh \notin volopen
      BY <1>2, NewFh
    <3> HIDE DEF fh
    <3>2. /\ volopen' = volopen \cup {fh} /\ sft'[n].fh = fh /\ ~sft'[n].broken
          /\ \A k \in Name : k # n => sft'[k] = sft[k]
      BY <1>9, <2>2
    <3>3. Whole' = Whole \cup {n} /\ n \notin Whole /\ Whole \subseteq Name
      BY <1>10, <2>2, <3>2 DEF Whole, Opened
    <3>4. \A k \in Whole : sft'[k].fh = sft[k].fh /\ sft[k].fh \in volopen
      BY <1>2, <3>2, <3>3 DEF VolumeOpen
    <3>5. volopen' = {sft'[k].fh : k \in Whole'}
      BY <1>2, <3>2, <3>3, <3>4 DEF VolumeOpen
    <3>6. \A j, k \in Whole' : sft'[j].fh = sft'[k].fh => j = k
      BY <1>2, <3>1, <3>2, <3>3, <3>4 DEF VolumeOpen
    <3>7. QED
      BY <3>5, <3>6 DEF VolumeOpen
  <2>3. QED
    BY <2>1, <2>2
<1>15. JobsOpen'
  BY <1>1, <1>2, <1>4 DEF JobsOpen
<1>16. NothingLeft'
  <2>1. \A x \in Used(ft') : x # h => x \in Used(ft) /\ ft'[x] = ft[x]
    BY <1>4, <1>5 DEF Used
  <2>2. ft'[h].pid = p /\ p # NoPid
    BY <1>3, <1>5, HandleConstants
  <2>3. QED
    BY <1>1, <1>2, <2>1, <2>2 DEF NothingLeft
<1>17. QED
  BY <1>4, <1>11, <1>12, <1>13, <1>14, <1>15, <1>16 DEF TableInv

(* io_close(): of a handle that is open                                    *)
LEMMA ClosedStep ==
  ASSUME TableInv, NEW h \in Used(ft), Closed(h),
         job' = [q \in Proc |-> job[q] \ {h}], UNCHANGED <<mounted, alive>>
  PROVE  /\ TableInv'
         /\ ~misuse => ~misuse'
<1> DEFINE n == ft[h].file
           left == sft[n].list \ {h}
<1>1. /\ Typed /\ Table(ft) /\ Chains(ft) /\ Listed /\ BitsShared /\ VolumeOpen
      /\ JobsOpen /\ NothingLeft
  BY DEF TableInv
<1>2. /\ h \in Slot /\ Used(ft) \subseteq Slot /\ n \in Name
      /\ ft \in [Slot -> HandleType]
  <2>1. h \in Slot /\ ft[h].file # NoFile /\ ft \in [Slot -> HandleType]
    BY <1>1 DEF Table, Used
  <2>2. ft[h].file \in Name \cup {NoFile}
    BY <2>1 DEF HandleType
  <2>3. QED
    BY <2>1, <2>2 DEF Used
<1>3. ft' = Unchained(ft, h)
  BY DEF Closed
<1>4. /\ Table(ft') /\ Chains(ft') /\ Used(ft') = Used(ft) \ {h} /\ ft'[h] = Free
      /\ \A x \in Used(ft') : /\ ft'[x].pid = ft[x].pid /\ ft'[x].file = ft[x].file
                              /\ ft'[x].share = ft[x].share
  BY <1>1, <1>3, Unlinked
<1>5. \A x \in Slot : /\ x # h => ft'[x].file = ft[x].file /\ ft'[x].share = ft[x].share
                      /\ x = h => ft'[x].file = NoFile
  <2>1. TAKE x \in Slot
  <2>2. CASE x \in Used(ft')
    BY <1>4, <2>2
  <2>3. CASE x \notin Used(ft')
    <3>1. ft'[x] = Free /\ (x # h => ft[x] = Free)
      BY <1>4, <2>3 DEF Used
    <3>2. QED
      BY <3>1 DEF Free
  <2>4. QED
    BY <2>2, <2>3
<1>6. h \in sft[n].list /\ n \in Opened
  BY <1>1, <1>2 DEF Listed
<1>7. /\ sft' \in [Name -> EntryType] /\ \A k \in Name : k # n => sft'[k] = sft[k]
      /\ sft'[n].list = left
      /\ left # {} => /\ sft'[n].fh = sft[n].fh /\ sft'[n].broken = sft[n].broken
                      /\ sft'[n].sbits = Bits(n, ft, left)
                      /\ UNCHANGED <<volopen, misuse>>
      /\ left = {} => /\ sft'[n] = Shut
                      /\ sft[n].broken => UNCHANGED <<volopen, misuse>>
                      /\ ~sft[n].broken => /\ volopen' = volopen \ {sft[n].fh}
                                           /\ misuse' = (misuse \/ sft[n].fh \notin volopen)
  <2>1. sft[n] \in EntryType /\ sft \in [Name -> EntryType]
    BY <1>1, <1>2 DEF Typed
  <2>2. Bits(n, ft, left) \subseteq Access /\ left \subseteq Slot
    BY <2>1 DEF Bits, EntryType
  <2>3. CASE left # {}
    <3> DEFINE b == Bits(n, ft, left)
    <3>1. /\ sft' = [sft EXCEPT ![n].list = left, ![n].sbits = b]
          /\ UNCHANGED <<volopen, misuse>>
      BY <2>3 DEF Closed
    <3> HIDE DEF left, b, n
    <3>2. sft' = [sft EXCEPT ![n] = [sft[n] EXCEPT !.list = left, !.sbits = b]]
      BY <1>2, <2>1, <3>1
    <3>3. [sft[n] EXCEPT !.list = left, !.sbits = b] \in EntryType
      BY <2>1, <2>2 DEF EntryType, b
    <3>4. QED
      BY <1>2, <2>1, <2>3, <3>1, <3>2, <3>3 DEF EntryType, b
  <2>4. CASE left = {}
    <3>1. sft' = [sft EXCEPT ![n] = Shut]
      BY <2>4 DEF Closed
    <3>2. Shut \in EntryType /\ Shut.list = {}
      BY DEF Shut, EntryType
    <3>3. /\ sft[n].broken => UNCHANGED <<volopen, misuse>>
          /\ ~sft[n].broken => /\ volopen' = volopen \ {sft[n].fh}
                               /\ misuse' = (misuse \/ sft[n].fh \notin volopen)
      BY <2>4 DEF Closed
    <3> HIDE DEF n
    <3>4. QED
      BY <1>2, <2>1, <2>4, <3>1, <3>2, <3>3
  <2>5. QED
    BY <2>3, <2>4
<1> HIDE DEF n
<1>8. Opened' = IF left # {} THEN Opened ELSE Opened \ {n}
  <2>1. left # {} => sft'[n] # Shut
    BY <1>7 DEF Shut
  <2> HIDE DEF left
  <2>2. QED
    BY <1>2, <1>6, <1>7, <2>1 DEF Opened
<1>9. Typed'
  <2>1. volopen' \subseteq Fh /\ misuse' \in BOOLEAN
    BY <1>1, <1>7 DEF Typed
  <2>2. detached' \subseteq Slot /\ job' \in [Proc -> SUBSET Slot]
    BY <1>1 DEF Typed, Closed
  <2>3. QED
    BY <1>1, <1>7, <2>1, <2>2 DEF Typed
<1>10. Listed'
  <2>1. ASSUME NEW k \in Name
        PROVE  /\ sft'[k].list = {x \in Slot : ft'[x].file = k}
               /\ k \in Opened' <=> sft'[k].list # {}
    <3>1. k # NoFile
      BY HandleConstants
    <3>2. CASE k = n
      <4>1. sft'[n].list = {x \in Slot : ft'[x].file = n}
        BY <1>1, <1>2, <1>5, <1>7, <3>1, <3>2 DEF Listed
      <4>2. QED
        BY <1>6, <1>7, <1>8, <3>2, <4>1
    <3>3. CASE k # n
      <4>1. sft'[k] = sft[k] /\ (k \in Opened' <=> k \in Opened)
        BY <1>7, <1>8, <3>3
      <4>2. {x \in Slot : ft'[x].file = k} = {x \in Slot : ft[x].file = k}
        BY <1>5, <3>1, <3>3 DEF n
      <4>3. QED
        BY <1>1, <4>1, <4>2 DEF Listed
    <3>4. QED
      BY <3>2, <3>3
  <2>2. QED
    BY <2>1 DEF Listed
<1>11. BitsShared'
  <2>1. ASSUME NEW k \in Opened'
        PROVE  sft'[k].sbits = {a \in Access : \A x \in sft'[k].list : a \in ft'[x].share}
    <3>1. k \in Name /\ k \in Opened /\ sft[k].list \subseteq Slot
      BY <1>1, <1>8, <2>1 DEF Opened, Listed
    <3>2. CASE k = n
      <4>1. left # {}
        BY <1>8, <2>1, <3>2
      <4>2. \A x \in left : ft'[x].share = ft[x].share
        BY <1>5, <3>1, <3>2
      <4>3. QED
        BY <1>7, <3>2, <4>1, <4>2 DEF Bits
    <3>3. CASE k # n
      <4>1. sft'[k] = sft[k] /\ h \notin sft[k].list
        BY <1>1, <1>7, <3>1, <3>3 DEF Listed, n
      <4>2. \A x \in sft[k].list : ft'[x].share = ft[x].share
        BY <1>5, <3>1, <4>1
      <4>3. QED
        BY <1>1, <3>1, <4>1, <4>2 DEF BitsShared
    <3>4. QED
      BY <3>2, <3>3
  <2>2. QED
    BY <2>1 DEF BitsShared
<1>12. VolumeOpen' /\ (~misuse => ~misuse')
  <2>1. CASE left # {}
    <3>1. /\ volopen' = volopen /\ misuse' = misuse
          /\ \A k \in Name : sft'[k].fh = sft[k].fh /\ sft'[k].broken = sft[k].broken
      BY <1>7, <2>1
    <3>2. Whole' = Whole /\ Whole \subseteq Name
      BY <1>8, <2>1, <3>1 DEF Whole, Opened
    <3>3. QED
      BY <1>1, <3>1, <3>2 DEF VolumeOpen
  <2>2. CASE left = {}
    <3>1. Whole' = Whole \ {n} /\ Whole \subseteq Name
      BY <1>7, <1>8, <2>2 DEF Whole, Opened
    <3>2. \A k \in Whole : k # n => sft'[k].fh = sft[k].fh
      BY <1>7, <3>1
    <3>3. CASE sft[n].broken
      <4>1. n \notin Whole /\ volopen' = volopen /\ misuse' = misuse
        BY <1>7, <2>2, <3>3 DEF Whole
      <4>2. QED
        BY <1>1, <3>1, <3>2, <4>1 DEF VolumeOpen
    <3>4. CASE ~sft[n].broken
      <4>1. n \in Whole
        BY <1>6, <3>4 DEF Whole
      <4>2. sft[n].fh \in volopen
        BY <1>1, <4>1 DEF VolumeOpen
      <4>3. volopen' = volopen \ {sft[n].fh} /\ misuse' = misuse
        BY <1>1, <1>7, <2>2, <3>4, <4>2 DEF Typed
      <4>4. volopen' = {sft'[k].fh : k \in Whole'}
        BY <1>1, <3>1, <3>2, <4>1, <4>3 DEF VolumeOpen
      <4>5. \A j, k \in Whole' : sft'[j].fh = sft'[k].fh => j = k
        BY <1>1, <3>1, <3>2 DEF VolumeOpen
      <4>6. VolumeOpen'
        BY <4>4, <4>5 DEF VolumeOpen
      <4>7. QED
        BY <4>3, <4>6
    <3>5. QED
      BY <3>3, <3>4
  <2>3. QED
    BY <2>1, <2>2
<1>13. JobsOpen'
  <2>1. alive \subseteq Proc
    BY <1>1 DEF Typed
  <2>2. QED
    BY <1>1, <1>4, <2>1 DEF JobsOpen
<1>14. NothingLeft'
  <2>1. ASSUME NEW x \in Used(ft'), ft'[x].pid = NoPid
        PROVE  x \in detached' \/ \E q \in Proc : x \in job'[q]
    <3>1. x # h /\ x \in Used(ft) /\ ft[x].pid = NoPid
      BY <1>4, <2>1
    <3>2. x \in detached \/ \E q \in Proc : x \in job[q]
      BY <1>1, <3>1 DEF NothingLeft
    <3>3. detached' = detached \ {h}
      BY DEF Closed
    <3>4. QED
      BY <3>1, <3>2, <3>3
  <2>2. \A x \in Used(ft') : ft'[x].pid # NoPid => ft'[x].pid \in alive'
    BY <1>1, <1>4 DEF NothingLeft
  <2>3. QED
    BY <2>1, <2>2 DEF NothingLeft
<1>15. QED
  BY <1>4, <1>9, <1>10, <1>11, <1>12, <1>13, <1>14 DEF TableInv

(* Entries of files whose handles are duplicated.                          *)
LEMMA CopyEntries ==
  ASSUME TableInv, Table(ft'), Used(ft) \subseteq Used(ft'),
         NEW root \in [Used(ft') -> Used(ft)],
         \A x \in Used(ft) : root[x] = x,
         \A x \in Used(ft') : /\ ft'[x].file = ft[root[x]].file
                             /\ ft'[x].share = ft[root[x]].share,
         sft' \in [Name -> EntryType],
         \A n \in Name : /\ sft'[n].list = {x \in Slot : ft'[x].file = n}
                        /\ sft'[n].sbits = sft[n].sbits /\ sft'[n].fh = sft[n].fh
                        /\ sft'[n].broken = sft[n].broken,
         UNCHANGED volopen
  PROVE  Listed' /\ BitsShared' /\ VolumeOpen'
<1>1. Typed /\ Table(ft) /\ Listed /\ BitsShared /\ VolumeOpen
  BY DEF TableInv
<1>2. ASSUME NEW n \in Name
      PROVE  /\ sft[n].list = {x \in Used(ft) : ft[x].file = n}
             /\ sft'[n].list = {x \in Used(ft') : ft'[x].file = n}
  <2>1. n # NoFile
    BY HandleConstants
  <2>2. sft[n].list = {x \in Slot : ft[x].file = n}
    BY <1>1 DEF Listed
  <2>3. \A x \in Slot : ft[x].file = n => x \in Used(ft)
    BY <1>1, <2>1 DEF Table, Used
  <2>4. \A x \in Slot : ft'[x].file = n => x \in Used(ft')
    BY <2>1 DEF Table, Used
  <2>5. Used(ft) \subseteq Slot /\ Used(ft') \subseteq Slot
    BY DEF Used
  <2>6. sft'[n].list = {x \in Slot : ft'[x].file = n}
    OBVIOUS
  <2>7. QED
    BY <2>2, <2>3, <2>4, <2>5, <2>6
<1>3. ASSUME NEW n \in Name
      PROVE  /\ sft[n].list \subseteq sft'[n].list
             /\ \A x \in sft'[n].list : root[x] \in sft[n].list
  BY <1>2
<1>4. ASSUME NEW n \in Name
      PROVE  n \in Opened' <=> n \in Opened
  <2>1. CASE n \in Opened
    <3>1. sft'[n].list # {}
      BY <1>1, <1>3, <2>1 DEF Listed
    <3>2. sft'[n] # Shut
      BY <3>1 DEF Shut
    <3>3. QED
      BY <2>1, <3>2 DEF Opened
  <2>2. CASE n \notin Opened
    <3>1. sft[n] = Shut /\ sft[n].list = {}
      BY <1>1, <2>2 DEF Listed, Opened
    <3>2. sft'[n].list = {}
      BY <1>3, <3>1
    <3>3. sft'[n] \in EntryType /\ Shut \in EntryType
      BY DEF Shut, EntryType
    <3>4. /\ sft'[n].list = Shut.list /\ sft'[n].sbits = Shut.sbits
          /\ sft'[n].fh = Shut.fh /\ sft'[n].broken = Shut.broken
      BY <3>1, <3>2
    <3>5. sft'[n] = Shut
      BY <3>3, <3>4 DEF EntryType
    <3>6. QED
      BY <2>2, <3>5 DEF Opened
  <2>3. QED
    BY <2>1, <2>2
<1>5. Opened' = Opened /\ Opened \subseteq Name
  BY <1>4 DEF Opened
<1>6. Listed'
  BY <1>1, <1>3, <1>4 DEF Listed
<1>7. BitsShared'
  <2>1. ASSUME NEW n \in Opened
        PROVE  sft'[n].sbits = {a \in Access : \A x \in sft'[n].list : a \in ft'[x].share}
    <3>1. \A x \in sft'[n].list : ft'[x].share = ft[root[x]].share /\ root[x] \in sft[n].list
      BY <1>2, <1>3, <1>5
    <3>2. \A x \in sft[n].list : x \in sft'[n].list /\ root[x] = x
      BY <1>2, <1>3, <1>5
    <3>3. sft[n].sbits = {a \in Access : \A x \in sft[n].list : a \in ft[x].share}
      BY <1>1 DEF BitsShared
    <3>4. \A a \in Access : (\A x \in sft'[n].list : a \in ft'[x].share)
                            <=> (\A x \in sft[n].list : a \in ft[x].share)
      BY <3>1, <3>2
    <3>5. sft'[n].sbits = sft[n].sbits
      BY <1>5
    <3>6. QED
      BY <3>3, <3>4, <3>5
  <2>2. QED
    BY <1>5, <2>1 DEF BitsShared
<1>8. VolumeOpen'
  <2>1. Whole' = Whole /\ Whole \subseteq Name
    BY <1>5 DEF Whole
  <2>2. \A n \in Whole : sft'[n].fh = sft[n].fh
    BY <2>1
  <2>3. QED
    BY <1>1, <2>1, <2>2 DEF VolumeOpen
<1>9. QED
  BY <1>6, <1>7, <1>8

(* An entry lists one handle more.                                         *)
Listing(s, n, h) == [s EXCEPT ![n].list = @ \cup {h}]

LEMMA ListOne ==
  ASSUME NEW s \in [Name -> EntryType], NEW n \in Name, NEW h \in Slot
  PROVE  LET s2 == Listing(s, n, h)
         IN  /\ s2 \in [Name -> EntryType]
             /\ \A k \in Name : /\ s2[k].list = IF k = n THEN s[n].list \cup {h} ELSE s[k].list
                                /\ s2[k].sbits = s[k].sbits /\ s2[k].fh = s[k].fh
                                /\ s2[k].broken = s[k].broken
<1> DEFINE e == [s[n] EXCEPT !.list = @ \cup {h}]
           s2 == Listing(s, n, h)
<1>1. s[n] \in EntryType
  OBVIOUS
<1>2. /\ e \in EntryType /\ e.list = s[n].list \cup {h}
      /\ e.sbits = s[n].sbits /\ e.fh = s[n].fh /\ e.broken = s[n].broken
  BY <1>1 DEF EntryType
<1>3. s2 = [s EXCEPT ![n] = e]
  BY DEF Listing
<1> HIDE DEF e, s2
<1>4. QED
  BY <1>2, <1>3 DEF s2

(* dup_handle() for io_duphandle()                                         *)
LEMMA DupStep ==
  ASSUME TableInv, NEW p \in Proc, NEW g \in Slot, NEW private \in BOOLEAN,
         NEW share \in BOOLEAN, Dup(p, g, private, share)
  PROVE  TableInv'
<1> DEFINE h == FirstFree(ft)
           pid == IF private /\ ft[g].pid = NoPid THEN p ELSE ft[g].pid
           n == ft[g].file
<1>1. /\ Typed /\ Table(ft) /\ Chains(ft) /\ Listed /\ BitsShared /\ VolumeOpen
      /\ JobsOpen /\ NothingLeft
  BY DEF TableInv
<1>2. /\ g \in Used(ft) /\ h \in Slot \ Used(ft) /\ p \in alive /\ ft[g].pid \in {p, NoPid}
  BY FirstFreeIs DEF Dup, Mine, Used
<1>3. /\ ft' = Dupped(ft, g, h, pid, share)
      /\ sft' = [sft EXCEPT ![n].list = @ \cup {h}]
      /\ detached' = (IF pid = NoPid THEN detached \cup {h} ELSE detached)
      /\ UNCHANGED <<volopen, mounted, alive, job, misuse>>
  BY DEF Dup
<1>4. /\ ft \in [Slot -> HandleType] /\ ft[g] \in HandleType
      /\ n \in Name /\ pid \in Proc \cup {NoPid} /\ pid \in {p, NoPid}
  <2>1. ft \in [Slot -> HandleType] /\ ft[g].file # NoFile
    BY <1>1, <1>2 DEF Table, Used
  <2>2. ft[g] \in HandleType
    BY <2>1
  <2>3. QED
    BY <1>2, <2>1, <2>2 DEF HandleType
<1> HIDE DEF h, pid, n
<1> DEFINE root == RootOf(ft, g, h)
<1>5. /\ Table(ft') /\ Chains(ft') /\ Used(ft') = Used(ft) \cup {h} /\ ft'[h].pid = pid
      /\ \A x \in Used(ft) : /\ ft'[x].pid = ft[x].pid /\ ft'[x].file = ft[x].file
                             /\ ft'[x].share = ft[x].share
      /\ ft'[h].file = n /\ ft'[h].share = ft[g].share
  <2>1. CASE share
    <3>1. /\ Used(ft') = Used(ft) \cup {h} /\ ft'[h].pid = pid
          /\ Copied(ft, ft', root)
      <4>1. ft' = Dupped(ft, g, h, pid, TRUE)
        BY <1>3, <2>1
      <4> DEFINE d == Dupped(ft, g, h, pid, TRUE)
      <4>2. Used(d) = Used(ft) \cup {h} /\ d[h].pid = pid /\ Copied(ft, d, root)
        BY <1>1, <1>2, <1>4, CopyOne
      <4> HIDE DEF root
      <4>3. QED
        BY <4>1, <4>2
    <3>2. root[h] = g /\ \A x \in Used(ft) : root[x] = x
      BY <1>2 DEF RootOf
    <3> HIDE DEF root
    <3>3. QED
      BY <3>1, <3>2 DEF Copied, n
  <2>2. CASE ~share
    <3> DEFINE e == [ft[g] EXCEPT !.pid = pid, !.main = 0, !.next = 0]
    <3>1. ft' = [ft EXCEPT ![h] = e]
      BY <1>3, <1>4, <2>2 DEF Dupped, HandleType
    <3>2. /\ e \in HandleType /\ e.main = 0 /\ e.next = 0 /\ e.file = n /\ e.pid = pid
          /\ e.share = ft[g].share
      BY <1>4 DEF HandleType, n
    <3> HIDE DEF e
    <3>3. Table(ft') /\ Chains(ft') /\ Used(ft') = Used(ft) \cup {h}
      <4>1. ft' = Put(ft, h, e)
        BY <3>1 DEF Put
      <4>2. Table(ft) /\ Chains(ft) /\ h \in Slot \ Used(ft) /\ e.file \in Name
        BY <1>1, <1>2, <1>4, <3>2
      <4>3. QED
        BY <3>2, <4>1, <4>2, AddPlain
    <3>4. ft'[h] = e /\ \A x \in Used(ft) : ft'[x] = ft[x]
      BY <1>2, <1>4, <3>1 DEF Used
    <3>5. QED
      BY <3>2, <3>3, <3>4
  <2>3. QED
    BY <2>1, <2>2
<1>6. /\ root \in [Used(ft') -> Used(ft)]
      /\ root[h] = g /\ \A x \in Used(ft) : root[x] = x
  BY <1>2, <1>5 DEF RootOf
<1> HIDE DEF root
<1>7. \A x \in Used(ft') : ft'[x].file = ft[root[x]].file /\ ft'[x].share = ft[root[x]].share
  BY <1>5, <1>6 DEF n
<1>8. /\ sft' \in [Name -> EntryType]
      /\ \A k \in Name : /\ sft'[k].list = IF k = n THEN sft[n].list \cup {h} ELSE sft[k].list
                         /\ sft'[k].sbits = sft[k].sbits /\ sft'[k].fh = sft[k].fh
                         /\ sft'[k].broken = sft[k].broken
  <2>1. sft \in [Name -> EntryType] /\ h \in Slot
    BY <1>1, <1>2 DEF Typed
  <2> DEFINE s2 == Listing(sft, n, h)
  <2>2. /\ s2 \in [Name -> EntryType]
        /\ \A k \in Name : /\ s2[k].list = IF k = n THEN sft[n].list \cup {h} ELSE sft[k].list
                           /\ s2[k].sbits = sft[k].sbits /\ s2[k].fh = sft[k].fh
                           /\ s2[k].broken = sft[k].broken
    BY <1>4, <2>1, ListOne
  <2>3. sft' = s2
    BY <1>3 DEF Listing
  <2> HIDE DEF s2
  <2>4. QED
    BY <2>2, <2>3
<1>9. \A x \in Slot : x # h => ft'[x].file = ft[x].file
  BY <1>5 DEF Used
<1>10. ASSUME NEW k \in Name
       PROVE  sft'[k].list = {x \in Slot : ft'[x].file = k}
  <2>1. sft[k].list = {x \in Slot : ft[x].file = k}
    BY <1>1 DEF Listed
  <2>2. ft[h].file = NoFile /\ k # NoFile /\ h \in Slot
    BY <1>1, <1>2, HandleConstants DEF Table, Used
  <2>3. sft'[k].list = IF k = n THEN sft[k].list \cup {h} ELSE sft[k].list
    BY <1>8
  <2>4. QED
    BY <1>5, <1>9, <2>1, <2>2, <2>3
<1>11. Listed' /\ BitsShared' /\ VolumeOpen'
  <2>1. Used(ft) \subseteq Used(ft') /\ UNCHANGED volopen
    BY <1>3, <1>5
  <2>2. QED
    BY <1>5, <1>6, <1>7, <1>8, <1>10, <2>1, CopyEntries
<1>12. Typed'
  BY <1>1, <1>2, <1>3, <1>8 DEF Typed
<1>13. JobsOpen'
  BY <1>1, <1>3, <1>5 DEF JobsOpen
<1>14. NothingLeft'
  <2>1. p # NoPid
    BY HandleConstants
  <2>2. ft'[h].pid # NoPid => ft'[h].pid \in alive
    BY <1>2, <1>4, <1>5
  <2>3. ft'[h].pid = NoPid => h \in detached'
    BY <1>3, <1>5
  <2>4. detached \subseteq detached'
    BY <1>3
  <2>5. QED
    BY <1>1, <1>3, <1>5, <2>2, <2>3, <2>4 DEF NothingLeft
<1>15. QED
  BY <1>5, <1>11, <1>12, <1>13, <1>14 DEF TableInv

(* io_inherit(): the tables after k of the marked handles were copied for  *)
(* process c.                                                              *)
Heir(t, c, k) ==
    /\ \E root : /\ Copied(ft, t.ft, root)
                 /\ \A x \in Used(t.ft) \ Used(ft) : t.ft[x].pid = c
    /\ t.sft \in [Name -> EntryType]
    /\ \A n \in Name : /\ t.sft[n].list = {x \in Slot : t.ft[x].file = n}
                       /\ t.sft[n].sbits = sft[n].sbits /\ t.sft[n].fh = sft[n].fh
                       /\ t.sft[n].broken = sft[n].broken
    /\ Cardinality(Used(t.ft)) = Cardinality(Used(ft)) + k

(* One handle more, while a slot is free.                                  *)
LEMMA InheritOne ==
  ASSUME TableInv, NEW c \in Proc, NEW k \in Nat, NEW t, Heir(t, c, k),
         NEW g \in Used(ft), k < Cardinality(Slot \ Used(ft))
  PROVE  Heir(Inherit(t, g, c), c, k + 1)
<1> DEFINE f == t.ft
           h == FirstFree(f)
           f2 == Dupped(f, g, h, c, TRUE)
           n == ft[g].file
           u == Inherit(t, g, c)
<1>1. PICK root : Copied(ft, f, root) /\ \A x \in Used(f) \ Used(ft) : f[x].pid = c
  BY DEF Heir
<1>2. /\ Table(f) /\ Chains(f) /\ Used(ft) \subseteq Used(f) /\ root[g] = g /\ g \in Used(f)
      /\ f[g].file = n
  BY <1>1 DEF Copied
<1>3. h \in Slot \ Used(f)
  <2>1. Used(ft) \subseteq Slot /\ Used(f) \subseteq Slot
    BY DEF Used
  <2>2. IsFiniteSet(Used(ft)) /\ IsFiniteSet(Slot)
    BY <2>1, SlotFacts, FS_Subset
  <2>3. Cardinality(Slot \ Used(ft)) = Cardinality(Slot) - Cardinality(Slot \cap Used(ft))
    BY <2>2, FS_Difference
  <2>4. Slot \cap Used(ft) = Used(ft)
    BY <2>1
  <2>5. Cardinality(Slot) \in Nat /\ Cardinality(Used(ft)) \in Nat
    BY <2>2, FS_CardinalityType
  <2>6. Cardinality(Used(f)) = Cardinality(Used(ft)) + k
    BY DEF Heir
  <2>r. k < Cardinality(Slot) - Cardinality(Used(ft))
    BY <2>3, <2>4
  <2>7. Cardinality(Used(f)) # Cardinality(Slot)
    <3> DEFINE a == Cardinality(Used(ft))
               b == Cardinality(Slot)
    <3>1. a \in Nat /\ b \in Nat /\ k < b - a
      BY <2>5, <2>r
    <3>2. Cardinality(Used(f)) = a + k
      BY <2>6
    <3> HIDE DEF a
    <3>3. a + k # b
      BY <3>1
    <3>4. QED
      BY <3>2, <3>3
  <2>8. Used(f) # Slot
    BY <2>7
  <2>9. QED
    BY <2>8, FirstFreeIs
<1>4. n \in Name
  <2>1. ft \in [Slot -> HandleType] /\ g \in Slot /\ ft[g].file # NoFile
    BY DEF TableInv, Table, Used
  <2>2. ft[g].file \in Name \cup {NoFile}
    BY <2>1 DEF HandleType
  <2>3. QED
    BY <2>1, <2>2
<1>5. u.ft = f2 /\ u.sft = Listing(t.sft, n, h)
  BY DEF Inherit, Listing
<1> HIDE DEF h, u, n, f
<1>6. /\ Used(f2) = Used(f) \cup {h} /\ f2[h].pid = c
      /\ Copied(f, f2, RootOf(f, g, h))
  BY <1>2, <1>3, CopyOne
<1> HIDE DEF f2
<1>7. /\ f2[h].file = n
      /\ \A x \in Used(f) : f2[x].pid = f[x].pid /\ f2[x].file = f[x].file
  <2>1. RootOf(f, g, h)[h] = g /\ \A x \in Used(f) : RootOf(f, g, h)[x] = x
    BY <1>3 DEF RootOf
  <2>2. QED
    BY <1>2, <1>6, <2>1 DEF Copied
<1>8. \E r : /\ Copied(ft, f2, r)
            /\ \A x \in Used(f2) \ Used(ft) : f2[x].pid = c
  <2>1. Copied(ft, f2, Via(f2, root, RootOf(f, g, h)))
    BY <1>1, <1>6, CopyTrans
  <2>2. \A x \in Used(f2) \ Used(ft) : f2[x].pid = c
    BY <1>1, <1>6, <1>7
  <2>3. QED
    BY <2>1, <2>2
<1>9. /\ u.sft \in [Name -> EntryType]
      /\ \A m \in Name : /\ u.sft[m].list = {x \in Slot : f2[x].file = m}
                         /\ u.sft[m].sbits = sft[m].sbits /\ u.sft[m].fh = sft[m].fh
                         /\ u.sft[m].broken = sft[m].broken
  <2> DEFINE s == t.sft
             s2 == Listing(s, n, h)
  <2>1. /\ s \in [Name -> EntryType]
        /\ \A m \in Name : /\ s[m].list = {x \in Slot : f[x].file = m}
                           /\ s[m].sbits = sft[m].sbits /\ s[m].fh = sft[m].fh
                           /\ s[m].broken = sft[m].broken
    BY DEF Heir, f
  <2>2. h \in Slot
    BY <1>3
  <2> HIDE DEF s
  <2>3. /\ s2 \in [Name -> EntryType]
        /\ \A m \in Name : /\ s2[m].list = IF m = n THEN s[n].list \cup {h} ELSE s[m].list
                           /\ s2[m].sbits = s[m].sbits /\ s2[m].fh = s[m].fh
                           /\ s2[m].broken = s[m].broken
    <3>1. s \in [Name -> EntryType]
      BY <2>1
    <3>2. QED
      BY <1>4, <2>2, <3>1, ListOne
  <2> HIDE DEF s2
  <2>4. ASSUME NEW m \in Name
        PROVE  s2[m].list = {x \in Slot : f2[x].file = m}
    <3>1. f[h].file = NoFile /\ m # NoFile
      BY <1>2, <1>3, HandleConstants DEF Table, Used
    <3>2. \A x \in Slot : x # h => f2[x].file = f[x].file
      <4>1. \A x \in Slot : x \notin Used(f2) => f2[x] = Free /\ f[x] = Free
        BY <1>6 DEF Used
      <4>2. QED
        BY <1>6, <1>7, <4>1
    <3>3. s[m].list = {x \in Slot : f[x].file = m}
      BY <2>1
    <3>4. s2[m].list = IF m = n THEN s[m].list \cup {h} ELSE s[m].list
      BY <2>3
    <3>5. QED
      BY <1>7, <2>2, <3>1, <3>2, <3>3, <3>4
  <2>5. u.sft = s2
    BY <1>5 DEF s, s2
  <2>6. QED
    BY <2>1, <2>3, <2>4, <2>5
<1>10. Cardinality(Used(f2)) = Cardinality(Used(ft)) + (k + 1)
  <2>1. IsFiniteSet(Used(f)) /\ IsFiniteSet(Used(ft))
    <3>1. Used(f) \in SUBSET Slot /\ Used(ft) \in SUBSET Slot
      BY DEF Used
    <3>2. QED
      BY <3>1, SlotFacts, FS_Subset
  <2>2. Cardinality(Used(f) \cup {h}) = Cardinality(Used(f)) + 1
    BY <1>3, <2>1, FS_AddElement
  <2>3. Cardinality(Used(f)) = Cardinality(Used(ft)) + k
    BY DEF Heir, f
  <2>4. Cardinality(Used(ft)) \in Nat
    BY <2>1, FS_CardinalityType
  <2>5. QED
    BY <1>6, <2>2, <2>3, <2>4
<1>11. u.ft = f2
  BY <1>5
<1>12. Heir(u, c, k + 1)
  BY <1>8, <1>9, <1>10, <1>11 DEF Heir
<1>13. QED
  BY <1>12 DEF u

(* The loop over the slots of the parent.                                  *)
LEMMA InheritingIs ==
  ASSUME NEW c, NEW marked
  PROVE  LET w == Inheriting(c, marked)
         IN  /\ w[0] = [ft |-> ft, sft |-> sft]
             /\ \A i \in 0..(MaxHandles - 1) :
                  w[i + 1] = IF i + 1 \in marked THEN Inherit(w[i], i + 1, c) ELSE w[i]
<1> DEFINE N == MaxHandles
           a == [ft |-> ft, sft |-> sft]
           b(i, t) == IF i \in marked THEN Inherit(t, i, c) ELSE t
           Is(s, k) == \A i \in 0..k : s[i] = IF i = 0 THEN a ELSE b(i, s[i - 1])
           Eq(s) == s = [i \in 0..N |-> IF i = 0 THEN [ft |-> ft, sft |-> sft]
                                        ELSE IF i \in marked THEN Inherit(s[i - 1], i, c)
                                             ELSE s[i - 1]]
           S == {k \in 0..N : \E s : Is(s, k)}
<1>1. N \in Nat
  BY SlotFacts
<1> HIDE DEF a, b
<1>2. 0 \in S
  <2> DEFINE s == [i \in 0..N |-> a]
  <2>1. Is(s, 0) /\ 0 \in 0..N
    BY <1>1
  <2> HIDE DEF s, Is
  <2>2. QED
    BY <2>1
<1>3. ASSUME NEW k \in 0..(N - 1), k \in S
      PROVE  k + 1 \in S
  <2>1. PICK s : Is(s, k)
    BY <1>3
  <2>2. k \in 0..N /\ k + 1 \in 1..N /\ k + 1 \in 0..N /\ k \in Nat
    BY <1>1
  <2> DEFINE q == [i \in 0..N |-> IF i = k + 1 THEN b(k + 1, s[k]) ELSE s[i]]
  <2>3. ASSUME NEW i \in 0..(k + 1)
        PROVE  q[i] = IF i = 0 THEN a ELSE b(i, q[i - 1])
    <3>1. CASE i = k + 1
      <4>1. i # 0 /\ i - 1 = k /\ q[i] = b(k + 1, s[k])
        BY <2>2, <3>1
      <4>2. q[k] = s[k]
        BY <2>2
      <4>3. QED
        BY <3>1, <4>1, <4>2
    <3>2. CASE i # k + 1
      <4>1. i \in 0..k /\ i \in 0..N /\ q[i] = s[i]
        BY <1>1, <2>2, <3>2
      <4>2. i # 0 => i - 1 \in 0..N /\ q[i - 1] = s[i - 1]
        BY <1>1, <2>2, <4>1
      <4>3. s[i] = IF i = 0 THEN a ELSE b(i, s[i - 1])
        BY <2>1, <4>1
      <4>4. QED
        BY <4>1, <4>2, <4>3
    <3>3. QED
      BY <3>1, <3>2
  <2>4. Is(q, k + 1)
    BY <2>3
  <2> HIDE DEF q, Is
  <2>5. QED
    BY <2>2, <2>4
<1>4. \E s : Is(s, N)
  <2>1. N \in 0..N
    BY <1>1
  <2> HIDE DEF S
  <2>2. \A k \in 0..N : k \in S
    BY <1>1, <1>2, <1>3, UpTo
  <2>3. N \in S
    BY <2>1, <2>2
  <2>4. QED
    BY <2>3 DEF S
<1>5. \E s : Eq(s)
  <2>1. PICK s : Is(s, N)
    BY <1>4
  <2> DEFINE q == [i \in 0..N |-> s[i]]
  <2>2. \A i \in 0..N : q[i] = IF i = 0 THEN a ELSE b(i, q[i - 1])
    BY <1>1, <2>1
  <2>3. q = [i \in 0..N |-> IF i = 0 THEN a ELSE b(i, q[i - 1])]
    <3>1. q = [i \in 0..N |-> q[i]]
      OBVIOUS
    <3> HIDE DEF q
    <3>2. QED
      BY <2>2, <3>1
  <2> HIDE DEF q
  <2>4. Eq(q)
    BY <2>3 DEF a, b
  <2>5. QED
    BY <2>4
<1> DEFINE w == Inheriting(c, marked)
<1>6. Eq(w)
  <2>1. w = CHOOSE s : Eq(s)
    BY DEF Inheriting
  <2> HIDE DEF w, Eq
  <2>2. QED
    BY <1>5, <2>1
<1> HIDE DEF w
<1>7. w[0] = [ft |-> ft, sft |-> sft]
  BY <1>1, <1>6
<1>8. ASSUME NEW i \in 0..(N - 1)
      PROVE  w[i + 1] = IF i + 1 \in marked THEN Inherit(w[i], i + 1, c) ELSE w[i]
  <2>1. i + 1 \in 0..N /\ i + 1 # 0 /\ (i + 1) - 1 = i
    BY <1>1
  <2>2. QED
    BY <1>6, <2>1
<1>9. QED
  BY <1>7, <1>8 DEF w

(* All the marked handles are copied.                                      *)
LEMMA InheritedIs ==
  ASSUME TableInv, NEW c \in Proc, NEW marked, marked \subseteq Used(ft),
         Cardinality(marked) <= Cardinality(Slot \ Used(ft))
  PROVE  Heir(Inherited(c, marked), c, Cardinality(marked))
<1> DEFINE N == MaxHandles
           w == Inheriting(c, marked)
           K(i) == marked \cap (1..i)
           S == {i \in 0..N : Heir(w[i], c, Cardinality(K(i)))}
<1>1. /\ N \in Nat /\ Used(ft) \subseteq Slot /\ IsFiniteSet(marked)
      /\ IsFiniteSet(Slot \ Used(ft)) /\ IsFiniteSet(Used(ft))
  <2>1. Used(ft) \subseteq Slot
    BY DEF Used
  <2>2. marked \in SUBSET Slot /\ Slot \ Used(ft) \in SUBSET Slot /\ Used(ft) \in SUBSET Slot
    BY <2>1
  <2>3. QED
    BY <2>1, <2>2, SlotFacts, FS_Subset
<1>2. /\ w[0] = [ft |-> ft, sft |-> sft]
      /\ \A i \in 0..(N - 1) :
           w[i + 1] = IF i + 1 \in marked THEN Inherit(w[i], i + 1, c) ELSE w[i]
  BY InheritingIs
<1>3. \A i \in 0..N : IsFiniteSet(K(i)) /\ Cardinality(K(i)) \in Nat
  <2>1. TAKE i \in 0..N
  <2>2. K(i) \in SUBSET marked
    OBVIOUS
  <2> HIDE DEF K
  <2>3. QED
    BY <1>1, <2>2, FS_Subset, FS_CardinalityType
<1> HIDE DEF w
<1>4. 0 \in S
  <2> DEFINE a == [ft |-> ft, sft |-> sft]
             id == [x \in Used(ft) |-> x]
  <2>1. Cardinality(K(0)) = 0 /\ 0 \in 0..N
    <3>1. K(0) = {}
      OBVIOUS
    <3>2. QED
      BY <1>1, <3>1, FS_EmptySet
  <2>2. Copied(ft, ft, id)
    BY DEF Copied, TableInv
  <2>3. \A x \in Used(ft) \ Used(ft) : ft[x].pid = c
    OBVIOUS
  <2>4. Cardinality(Used(ft)) = Cardinality(Used(ft)) + 0
    <3>1. Cardinality(Used(ft)) \in Nat
      BY <1>1, FS_CardinalityType
    <3>2. QED
      BY <3>1
  <2>5. a.ft = ft /\ a.sft = sft
    OBVIOUS
  <2>6. sft \in [Name -> EntryType] /\ \A n \in Name : sft[n].list = {x \in Slot : ft[x].file = n}
    BY DEF TableInv, Typed, Listed
  <2> HIDE DEF a, id
  <2>7. Heir(a, c, 0)
    BY <2>2, <2>3, <2>4, <2>5, <2>6 DEF Heir
  <2>8. w[0] = a
    BY <1>2 DEF a
  <2>9. QED
    BY <2>1, <2>7, <2>8
<1>5. ASSUME NEW i \in 0..(N - 1), i \in S
      PROVE  i + 1 \in S
  <2>1. i \in Nat /\ i + 1 \in 0..N /\ i \in 0..N
    BY <1>1
  <2>2. CASE i + 1 \in marked
    <3>1. K(i + 1) = K(i) \cup {i + 1} /\ i + 1 \notin K(i)
      BY <1>1, <2>1, <2>2
    <3>2. Cardinality(K(i + 1)) = Cardinality(K(i)) + 1
      BY <1>3, <2>1, <3>1, FS_AddElement
    <3>3. Cardinality(K(i + 1)) <= Cardinality(marked)
      <4>1. K(i + 1) \in SUBSET marked
        OBVIOUS
      <4> HIDE DEF K
      <4>2. QED
        BY <1>1, <4>1, FS_Subset
    <3>4. /\ Cardinality(K(i)) \in Nat /\ Cardinality(marked) \in Nat
          /\ Cardinality(Slot \ Used(ft)) \in Nat
      BY <1>1, <1>3, <2>1, FS_CardinalityType
    <3> HIDE DEF K
    <3>5. Cardinality(K(i)) < Cardinality(Slot \ Used(ft))
      BY <3>2, <3>3, <3>4
    <3>6. Heir(w[i], c, Cardinality(K(i)))
      BY <1>5
    <3>7. Heir(Inherit(w[i], i + 1, c), c, Cardinality(K(i)) + 1)
      BY <2>2, <3>4, <3>5, <3>6, InheritOne
    <3>8. w[i + 1] = Inherit(w[i], i + 1, c)
      BY <1>2, <2>2
    <3>9. QED
      BY <2>1, <3>2, <3>7, <3>8
  <2>3. CASE i + 1 \notin marked
    <3>1. K(i + 1) = K(i)
      BY <2>1, <2>3
    <3>2. w[i + 1] = w[i]
      BY <1>2, <2>3
    <3> HIDE DEF K
    <3>3. QED
      BY <1>5, <2>1, <3>1, <3>2
  <2>4. QED
    BY <2>2, <2>3
<1>6. N \in S
  <2>1. N \in 0..N
    BY <1>1
  <2> HIDE DEF S
  <2>2. \A i \in 0..N : i \in S
    BY <1>1, <1>4, <1>5, UpTo
  <2>3. QED
    BY <2>1, <2>2
<1>7. K(N) = marked
  BY <1>1 DEF Slot
<1>8. Inherited(c, marked) = w[N]
  BY DEF Inherited, w
<1> HIDE DEF K
<1>9. QED
  BY <1>6, <1>7, <1>8

(* io_inherit() for a new process                                          *)
LEMMA StartStep ==
  ASSUME TableInv, NEW p \in Proc, NEW c \in Proc, Start(c, p)
  PROVE  /\ TableInv'
         /\ \E root : /\ Copied(ft, ft', root)
                     /\ \A x \in Used(ft') \ Used(ft) : ft'[x].pid = c
<1>1. PICK marked \in SUBSET Heritable(p) :
         /\ Cardinality(marked) <= Cardinality(Slot \ Used(ft))
         /\ ft' = Inherited(c, marked).ft
         /\ sft' = Inherited(c, marked).sft
  BY DEF Start
<1> DEFINE t == Inherited(c, marked)
<1>2. marked \subseteq Used(ft)
  BY DEF Heritable
<1>3. Heir(t, c, Cardinality(marked)) /\ ft' = t.ft /\ sft' = t.sft
  BY <1>1, <1>2, InheritedIs
<1> HIDE DEF t
<1>4. PICK root : /\ Copied(ft, ft', root)
                  /\ \A x \in Used(ft') \ Used(ft) : ft'[x].pid = c
  BY <1>3 DEF Heir
<1>5. /\ sft' \in [Name -> EntryType]
      /\ \A n \in Name : /\ sft'[n].list = {x \in Slot : ft'[x].file = n}
                         /\ sft'[n].sbits = sft[n].sbits /\ sft'[n].fh = sft[n].fh
                         /\ sft'[n].broken = sft[n].broken
  BY <1>3 DEF Heir
<1>6. /\ Typed /\ JobsOpen /\ NothingLeft
      /\ job[c] = {} /\ alive' = alive \cup {c}
      /\ UNCHANGED <<volopen, mounted, job, detached, misuse>>
  BY DEF Start, TableInv
<1>7. /\ Table(ft') /\ Chains(ft') /\ Used(ft) \subseteq Used(ft')
      /\ root \in [Used(ft') -> Used(ft)]
      /\ \A x \in Used(ft) : root[x] = x /\ ft'[x].pid = ft[x].pid
      /\ \A x \in Used(ft') : /\ ft'[x].file = ft[root[x]].file
                              /\ ft'[x].share = ft[root[x]].share
  BY <1>4 DEF Copied
<1>8. Listed' /\ BitsShared' /\ VolumeOpen'
  BY <1>5, <1>6, <1>7, CopyEntries
<1>9. Typed'
  BY <1>5, <1>6 DEF Typed
<1>10. JobsOpen'
  BY <1>6, <1>7 DEF JobsOpen
<1>11. NothingLeft'
  <2>1. c # NoPid
    BY HandleConstants
  <2>2. ASSUME NEW x \in Used(ft')
        PROVE  IF ft'[x].pid # NoPid THEN ft'[x].pid \in alive'
               ELSE x \in detached' \/ \E q \in Proc : x \in job'[q]
    <3>1. CASE x \in Used(ft)
      BY <1>6, <1>7, <3>1 DEF NothingLeft
    <3>2. CASE x \notin Used(ft)
      BY <1>4, <1>6, <2>1, <3>2
    <3>3. QED
      BY <3>1, <3>2
  <2>3. QED
    BY <2>2 DEF NothingLeft
<1>12. QED
  BY <1>4, <1>7, <1>8, <1>9, <1>10, <1>11 DEF TableInv

(* Steps that change owners and positions only, and the entries of no      *)
(* handle.                                                                 *)
LEMMA LabelStep ==
  ASSUME TableInv, ft' \in [Slot -> HandleType],
         \A x \in Slot : /\ ft'[x].main = ft[x].main /\ ft'[x].next = ft[x].next
                         /\ ft'[x].file = ft[x].file /\ ft'[x].share = ft[x].share
                         /\ ft'[x] = Free <=> ft[x] = Free,
         UNCHANGED <<sft, volopen>>
  PROVE  /\ Table(ft') /\ Chains(ft') /\ Used(ft') = Used(ft)
         /\ \A x, y \in Slot : Mate(ft', x, y) <=> Mate(ft, x, y)
         /\ Listed' /\ BitsShared' /\ VolumeOpen'
<1>1. Table(ft) /\ Chains(ft) /\ Listed /\ BitsShared /\ VolumeOpen
  BY DEF TableInv
<1>2. /\ Table(ft') /\ Chains(ft') /\ Used(ft') = Used(ft)
      /\ \A x, y \in Slot : Mate(ft', x, y) <=> Mate(ft, x, y)
  BY <1>1, Relabel
<1>3. Opened' = Opened /\ Whole' = Whole
  BY DEF Opened, Whole
<1>4. Listed'
  BY <1>1, <1>3 DEF Listed
<1>5. BitsShared'
  <2>1. \A n \in Opened : sft[n].list \subseteq Slot
    BY <1>1 DEF Opened, Listed
  <2>2. QED
    BY <1>1, <1>3, <2>1 DEF BitsShared
<1>6. VolumeOpen'
  BY <1>1, <1>3 DEF VolumeOpen
<1>7. QED
  BY <1>2, <1>4, <1>5, <1>6

(* io_close_as(): the handles of the process are detached first.           *)
LEMMA ExitStep ==
  ASSUME TableInv, NEW p \in Proc, Exit(p)
  PROVE  TableInv'
<1>1. /\ Typed /\ Table(ft) /\ JobsOpen /\ NothingLeft
      /\ p \in alive /\ alive' = alive \ {p}
      /\ job' = [job EXCEPT ![p] = Owned(p)]
      /\ ft' = [h \in Slot |-> IF h \in Owned(p) THEN [ft[h] EXCEPT !.pid = NoPid] ELSE ft[h]]
      /\ UNCHANGED <<sft, volopen, mounted, detached, misuse>>
  BY DEF Exit, TableInv
<1>2. ft \in [Slot -> HandleType] /\ p # NoPid /\ Owned(p) \subseteq Slot
  BY <1>1, HandleConstants DEF Table, Owned
<1>3. ASSUME NEW x \in Slot
      PROVE  /\ ft'[x] \in HandleType
             /\ ft'[x].main = ft[x].main /\ ft'[x].next = ft[x].next
             /\ ft'[x].file = ft[x].file /\ ft'[x].share = ft[x].share
             /\ ft'[x].pid = IF x \in Owned(p) THEN NoPid ELSE ft[x].pid
             /\ ft'[x] = Free <=> ft[x] = Free
  <2>1. ft[x] \in HandleType
    BY <1>2
  <2>2. CASE x \in Owned(p)
    <3>1. ft[x].pid = p
      BY <2>2 DEF Owned
    <3>2. ft[x] # Free
      BY <1>2, <3>1 DEF Free
    <3>3. ft[x].file # NoFile
      BY <1>1, <3>2 DEF Table
    <3>4. ft'[x] = [ft[x] EXCEPT !.pid = NoPid]
      BY <1>1, <2>2
    <3>5. /\ ft'[x] \in HandleType
          /\ ft'[x].main = ft[x].main /\ ft'[x].next = ft[x].next
          /\ ft'[x].file = ft[x].file /\ ft'[x].share = ft[x].share
          /\ ft'[x].pid = NoPid
      BY <2>1, <3>4 DEF HandleType
    <3>6. ft'[x] # Free
      BY <3>3, <3>5 DEF Free
    <3>7. QED
      BY <2>2, <3>2, <3>5, <3>6
  <2>3. CASE x \notin Owned(p)
    <3>1. ft'[x] = ft[x]
      BY <1>1, <2>3
    <3>2. QED
      BY <2>1, <2>3, <3>1
  <2>4. QED
    BY <2>2, <2>3
<1>4. ft' \in [Slot -> HandleType]
  <2>1. ft' = [x \in Slot |-> ft'[x]]
    BY <1>1
  <2>2. QED
    BY <1>3, <2>1
<1>5. /\ Table(ft') /\ Chains(ft') /\ Used(ft') = Used(ft)
      /\ Listed' /\ BitsShared' /\ VolumeOpen'
  BY <1>1, <1>3, <1>4, LabelStep
<1>6. Owned(p) \subseteq Used(ft)
  BY <1>2 DEF Owned, Used, Free
<1>7. Typed'
  BY <1>1, <1>2 DEF Typed
<1>8. JobsOpen'
  <2>1. alive \subseteq Proc /\ job \in [Proc -> SUBSET Slot]
    BY <1>1 DEF Typed
  <2>2. \A q \in Proc : job'[q] = IF q = p THEN Owned(p) ELSE job[q]
    BY <1>1, <2>1
  <2>3. QED
    BY <1>1, <1>5, <1>6, <2>1, <2>2 DEF JobsOpen
<1>9. NothingLeft'
  <2>1. job[p] = {} /\ job'[p] = Owned(p) /\ \A q \in Proc : job[q] \subseteq job'[q]
    <3>1. job \in [Proc -> SUBSET Slot] /\ job[p] = {}
      BY <1>1 DEF Typed, JobsOpen
    <3>2. QED
      BY <1>1, <3>1
  <2>2. ASSUME NEW x \in Used(ft')
        PROVE  IF ft'[x].pid # NoPid THEN ft'[x].pid \in alive'
               ELSE x \in detached' \/ \E q \in Proc : x \in job'[q]
    <3>1. x \in Used(ft) /\ x \in Slot
      BY <1>5 DEF Used
    <3>2. CASE x \in Owned(p)
      <4>1. ft'[x].pid = NoPid /\ x \in job'[p]
        BY <1>3, <2>1, <3>1, <3>2
      <4>2. QED
        BY <4>1
    <3>3. CASE x \notin Owned(p)
      <4>1. ft'[x].pid = ft[x].pid /\ ft[x].pid # p
        BY <1>3, <3>1, <3>3 DEF Owned
      <4>2. QED
        BY <1>1, <2>1, <3>1, <4>1 DEF NothingLeft
    <3>4. QED
      BY <3>2, <3>3
  <2>3. QED
    BY <2>2 DEF NothingLeft
<1>10. QED
  BY <1>5, <1>7, <1>8, <1>9 DEF TableInv

(* io_setstate(), IOFS_DETACHED                                            *)
LEMMA DetachStep ==
  ASSUME TableInv, NEW p \in Proc, NEW h \in Slot, Detach(p, h)
  PROVE  TableInv'
<1>1. /\ Typed /\ Table(ft) /\ JobsOpen /\ NothingLeft
      /\ ft[h] # Free /\ ft' = [ft EXCEPT ![h].pid = NoPid]
      /\ detached' = detached \cup {h}
      /\ UNCHANGED <<sft, volopen, mounted, alive, job, misuse>>
  BY DEF Detach, Mine, TableInv
<1>2. /\ ft \in [Slot -> HandleType] /\ ft[h] \in HandleType /\ ft[h].file # NoFile
  BY <1>1 DEF Table
<1>3. /\ ft' = [ft EXCEPT ![h] = [ft[h] EXCEPT !.pid = NoPid]]
      /\ [ft[h] EXCEPT !.pid = NoPid] \in HandleType
  BY <1>1, <1>2 DEF HandleType
<1>4. /\ ft' \in [Slot -> HandleType]
      /\ \A x \in Slot : x # h => ft'[x] = ft[x]
      /\ ft'[h] = [ft[h] EXCEPT !.pid = NoPid]
  BY <1>2, <1>3
<1>5. /\ ft'[h].main = ft[h].main /\ ft'[h].next = ft[h].next
      /\ ft'[h].file = ft[h].file /\ ft'[h].share = ft[h].share /\ ft'[h].pid = NoPid
  BY <1>2, <1>4 DEF HandleType
<1>6. ft'[h] # Free
  BY <1>2, <1>5 DEF Free
<1>7. /\ Table(ft') /\ Chains(ft') /\ Used(ft') = Used(ft)
      /\ Listed' /\ BitsShared' /\ VolumeOpen'
  <2>1. \A x \in Slot : /\ ft'[x].main = ft[x].main /\ ft'[x].next = ft[x].next
                        /\ ft'[x].file = ft[x].file /\ ft'[x].share = ft[x].share
                        /\ ft'[x] = Free <=> ft[x] = Free
    BY <1>1, <1>4, <1>5, <1>6
  <2>2. QED
    BY <1>1, <1>4, <2>1, LabelStep
<1>8. Typed' /\ JobsOpen'
  BY <1>1, <1>7 DEF Typed, JobsOpen
<1>9. NothingLeft'
  <2>1. \A x \in Used(ft') : x # h => x \in Used(ft) /\ ft'[x].pid = ft[x].pid
    BY <1>4, <1>7 DEF Used
  <2>2. h \in detached' /\ detached \subseteq detached'
    BY <1>1
  <2>3. QED
    BY <1>1, <1>5, <2>1, <2>2 DEF NothingLeft
<1>10. QED
  BY <1>7, <1>8, <1>9 DEF TableInv

(* io_read(), io_write(), io_seek(): all handles of the chain move.        *)
LEMMA MoveStep ==
  ASSUME TableInv, NEW p \in Proc, NEW h \in Slot, NEW pos \in 0..MaxPos, Move(p, h, pos)
  PROVE  /\ TableInv' /\ Used(ft') = Used(ft) /\ h \in Used(ft)
         /\ \A x, y \in Slot : Mate(ft', x, y) <=> Mate(ft, x, y)
         /\ \A x \in Used(ft) : Pos(ft', x) = IF Mate(ft, h, x) THEN pos ELSE Pos(ft, x)
<1> DEFINE g == Mover(h)
<1>1. /\ Typed /\ Table(ft) /\ Chains(ft) /\ JobsOpen /\ NothingLeft
      /\ ft[h] # Free /\ ft' = [ft EXCEPT ![g].pos = pos]
      /\ UNCHANGED <<sft, volopen, mounted, alive, job, detached, misuse>>
  BY DEF Move, Mine, TableInv
<1>2. h \in Used(ft) /\ g \in Used(ft) /\ g \in Slot /\ Used(ft) \subseteq Slot /\ 0 \notin Slot
  BY <1>1, SlotFacts DEF Mover, MainOf, Table, Used
<1> HIDE DEF g
<1>3. ft \in [Slot -> HandleType] /\ ft[g] \in HandleType /\ ft[g].file # NoFile
  BY <1>1, <1>2 DEF Table, Used
<1>4. /\ ft' = [ft EXCEPT ![g] = [ft[g] EXCEPT !.pos = pos]]
      /\ [ft[g] EXCEPT !.pos = pos] \in HandleType
  BY <1>1, <1>3 DEF HandleType
<1>5. /\ ft' \in [Slot -> HandleType]
      /\ \A x \in Slot : x # g => ft'[x] = ft[x]
      /\ ft'[g] = [ft[g] EXCEPT !.pos = pos]
  BY <1>2, <1>3, <1>4
<1>6. /\ ft'[g].main = ft[g].main /\ ft'[g].next = ft[g].next
      /\ ft'[g].file = ft[g].file /\ ft'[g].share = ft[g].share
      /\ ft'[g].pid = ft[g].pid /\ ft'[g].pos = pos
  BY <1>3, <1>5 DEF HandleType
<1>7. ft'[g] # Free /\ ft[g] # Free
  BY <1>3, <1>6 DEF Free
<1>8. \A x \in Slot : /\ ft'[x].main = ft[x].main /\ ft'[x].next = ft[x].next
                      /\ ft'[x].file = ft[x].file /\ ft'[x].share = ft[x].share
                      /\ ft'[x].pid = ft[x].pid
                      /\ ft'[x] = Free <=> ft[x] = Free
  BY <1>5, <1>6, <1>7
<1>9. /\ Table(ft') /\ Chains(ft') /\ Used(ft') = Used(ft)
      /\ \A x, y \in Slot : Mate(ft', x, y) <=> Mate(ft, x, y)
      /\ Listed' /\ BitsShared' /\ VolumeOpen'
  BY <1>1, <1>5, <1>8, LabelStep
<1>10. Typed' /\ JobsOpen'
  BY <1>1, <1>9 DEF Typed, JobsOpen
<1>11. NothingLeft'
  BY <1>1, <1>2, <1>8, <1>9 DEF NothingLeft
<1>12. TableInv'
  BY <1>9, <1>10, <1>11 DEF TableInv
<1>13. ASSUME NEW x \in Used(ft)
       PROVE  Pos(ft', x) = IF Mate(ft, h, x) THEN pos ELSE Pos(ft, x)
  <2>1. x \in Slot /\ h \in Slot /\ h # 0 /\ x # 0
    BY <1>2
  <2>2. MainOf(ft', x) = MainOf(ft, x)
    BY <1>8, <2>1 DEF MainOf
  <2>3. MainOf(ft, x) \in Slot
    BY <1>1, <1>2 DEF MainOf, Table
  <2>4. Mate(ft, h, x) <=> MainOf(ft, x) = g
    <3>1. PICK r \in [Slot -> Nat] : Ranked(ft, r)
      BY <1>1 DEF Chains
    <3>2. ft[h].main = x => ft[x].main = x
      BY <1>2, <2>1, <3>1 DEF Ranked
    <3>3. ft[x].main = h => ft[h].main = h
      BY <1>2, <2>1, <3>1 DEF Ranked
    <3>4. g = IF ft[h].main # 0 THEN ft[h].main ELSE h
      BY DEF g, Mover, MainOf
    <3>5. QED
      BY <1>2, <2>1, <3>2, <3>3, <3>4 DEF Mate, MainOf
  <2>5. ft'[MainOf(ft, x)].pos = IF MainOf(ft, x) = g THEN pos ELSE ft[MainOf(ft, x)].pos
    BY <1>5, <1>6, <2>3
  <2>6. QED
    BY <2>2, <2>4, <2>5 DEF Pos
<1>14. QED
  BY <1>2, <1>9, <1>12, <1>13

(* io_unmount(): no entry is whole any more.                               *)
LEMMA UnmountStep ==
  ASSUME TableInv, Unmount
  PROVE  TableInv'
<1>1. /\ Typed /\ Table(ft) /\ Chains(ft) /\ Listed /\ BitsShared /\ VolumeOpen
      /\ JobsOpen /\ NothingLeft
  BY DEF TableInv
<1>2. /\ mounted' = FALSE
      /\ volopen' = volopen \ {sft[n].fh : n \in Whole}
      /\ sft' = [n \in Name |-> IF n \in Opened THEN [sft[n] EXCEPT !.broken = TRUE] ELSE Shut]
      /\ UNCHANGED <<ft, alive, job, detached, misuse>>
  BY DEF Unmount, Whole
<1>3. \A n \in Name : n \notin Opened => sft[n] = Shut
  BY DEF Opened
<1>4. ASSUME NEW n \in Name
      PROVE  /\ sft'[n] \in EntryType
             /\ sft'[n].list = sft[n].list /\ sft'[n].sbits = sft[n].sbits
             /\ n \in Opened => sft'[n].broken /\ sft'[n] # Shut
             /\ n \notin Opened => sft'[n] = Shut
  <2>1. sft[n] \in EntryType
    BY <1>1 DEF Typed
  <2>2. CASE n \in Opened
    <3>1. sft'[n] = [sft[n] EXCEPT !.broken = TRUE]
      BY <1>2, <2>2
    <3>2. /\ sft'[n] \in EntryType /\ sft'[n].list = sft[n].list
          /\ sft'[n].sbits = sft[n].sbits /\ sft'[n].broken
      BY <2>1, <3>1 DEF EntryType
    <3>3. sft'[n] # Shut
      BY <3>2 DEF Shut
    <3>4. QED
      BY <2>2, <3>2, <3>3
  <2>3. CASE n \notin Opened
    BY <1>2, <1>3, <2>1, <2>3
  <2>4. QED
    BY <2>2, <2>3
<1>5. Opened' = Opened /\ Whole' = {}
  BY <1>4 DEF Opened, Whole
<1>6. volopen' = {}
  BY <1>1, <1>2 DEF VolumeOpen
<1>7. Typed'
  <2>1. sft' \in [Name -> EntryType]
    <3>1. sft' = [n \in Name |-> sft'[n]]
      BY <1>2
    <3>2. QED
      BY <1>4, <3>1
  <2>2. QED
    BY <1>1, <1>2, <1>6, <2>1 DEF Typed
<1>8. Listed'
  <2>1. \A n \in Name : sft'[n].list = {h \in Slot : ft'[h].file = n}
    <3>1. TAKE n \in Name
    <3>2. sft'[n].list = sft[n].list /\ sft[n].list = {h \in Slot : ft[h].file = n}
      BY <1>1, <1>4 DEF Listed
    <3>3. ft' = ft
      BY <1>2
    <3>4. QED
      BY <3>2, <3>3
  <2>2. \A n \in Name : n \in Opened' <=> sft'[n].list # {}
    BY <1>1, <1>4, <1>5 DEF Listed
  <2>3. QED
    BY <2>1, <2>2 DEF Listed
<1>9. BitsShared'
  <2>1. Opened \subseteq Name
    BY DEF Opened
  <2>2. QED
    BY <1>1, <1>2, <1>4, <1>5, <2>1 DEF BitsShared
<1>10. VolumeOpen'
  BY <1>5, <1>6 DEF VolumeOpen
<1>11. JobsOpen' /\ NothingLeft'
  BY <1>1, <1>2 DEF JobsOpen, NothingLeft
<1>12. QED
  BY <1>1, <1>2, <1>7, <1>8, <1>9, <1>10, <1>11 DEF TableInv

(* Steps that touch neither handles nor entries.                           *)
LEMMA QuietStep ==
  ASSUME TableInv, UNCHANGED <<ft, sft, volopen, job, detached>>,
         alive \subseteq alive', alive' \subseteq Proc,
         \A p \in alive' \ alive : job[p] = {}, mounted' \in BOOLEAN, misuse' \in BOOLEAN
  PROVE  TableInv'
<1>1. /\ Typed /\ Table(ft) /\ Chains(ft) /\ Listed /\ BitsShared /\ VolumeOpen
      /\ JobsOpen /\ NothingLeft
  BY DEF TableInv
<1>2. Opened' = Opened /\ Whole' = Whole
  BY DEF Opened, Whole
<1>3. Typed' /\ JobsOpen'
  BY <1>1 DEF Typed, JobsOpen
<1>4. Listed' /\ BitsShared' /\ VolumeOpen'
  BY <1>1, <1>2 DEF Listed, BitsShared, VolumeOpen
<1>5. NothingLeft'
  BY <1>1 DEF NothingLeft
<1>6. QED
  BY <1>1, <1>3, <1>4, <1>5 DEF TableInv

(* io_close_as() closes a handle in use.                                   *)
LEMMA CloseNextUsed ==
  ASSUME TableInv, NEW p \in Proc, CloseNext(p)
  PROVE  Lowest(job[p]) \in Used(ft)
<1>1. job[p] # {} /\ job[p] \subseteq Used(ft) /\ Used(ft) \subseteq Slot
  BY DEF CloseNext, TableInv, JobsOpen, Used
<1>2. QED
  BY <1>1, LowestIs

(* Every step keeps the tables.                                            *)
LEMMA TableStep == TableInv /\ [Next]_vars => TableInv'
<1> SUFFICES ASSUME TableInv, [Next]_vars PROVE TableInv'
  OBVIOUS
<1> USE DEF Program
<1>1. ASSUME NEW p \in Proc, NEW n \in Name, NEW m \in Modes, Open(p, n, m) PROVE TableInv'
  BY <1>1, OpenStep
<1>2. ASSUME NEW p \in Proc, NEW h \in Slot, Close(p, h) PROVE TableInv'
  <2>1. h \in Used(ft) /\ Closed(h)
    BY <1>2 DEF Close, Mine, Used
  <2>2. QED
    BY <1>2, <2>1, ClosedStep DEF Close
<1>3. ASSUME NEW p \in Proc, NEW h \in Slot, Detach(p, h) PROVE TableInv'
  BY <1>3, DetachStep
<1>4. ASSUME NEW p \in Proc, NEW h \in Slot, NEW a \in BOOLEAN, NEW b \in BOOLEAN, Dup(p, h, a, b)
      PROVE  TableInv'
  BY <1>4, DupStep
<1>5. ASSUME NEW p \in Proc, NEW h \in Slot, NEW pos \in 0..MaxPos, Move(p, h, pos) PROVE TableInv'
  BY <1>5, MoveStep
<1>6. ASSUME NEW p \in Proc, NEW c \in Proc, Start(c, p) PROVE TableInv'
  BY <1>6, StartStep
<1>7. ASSUME NEW p \in Proc, StartSession(p) PROVE TableInv'
  <2>1. alive \subseteq Proc /\ mounted \in BOOLEAN /\ misuse \in BOOLEAN
    BY DEF TableInv, Typed
  <2>2. QED
    BY <1>7, <2>1, QuietStep DEF StartSession
<1>8. ASSUME NEW p \in Proc, Exit(p) PROVE TableInv'
  BY <1>8, ExitStep
<1>9. ASSUME NEW p \in Proc, CloseNext(p) PROVE TableInv'
  <2>1. Lowest(job[p]) \in Used(ft)
    BY <1>9, CloseNextUsed
  <2>2. QED
    BY <1>9, <2>1, ClosedStep DEF CloseNext
<1>10. CASE Unmount
  BY <1>10, UnmountStep
<1>11. CASE Mount
  <2>1. alive \subseteq Proc /\ misuse \in BOOLEAN
    BY DEF TableInv, Typed
  <2>2. QED
    BY <1>11, <2>1, QuietStep DEF Mount
<1>12. CASE UNCHANGED vars
  <2>1. alive \subseteq Proc /\ mounted \in BOOLEAN /\ misuse \in BOOLEAN
    BY DEF TableInv, Typed
  <2>2. QED
    BY <1>12, <2>1, QuietStep DEF vars
<1>13. QED
  BY <1>1, <1>2, <1>3, <1>4, <1>5, <1>6, <1>7, <1>8, <1>9, <1>10, <1>11, <1>12 DEF Next

(* The volume is given no handle it does not know, unless a file of an     *)
(* unmounted volume is truncated.                                          *)
LEMMA MisuseStep ==
  ASSUME "broken" \notin Uses, TableInv, ~misuse, [Next]_vars
  PROVE  ~misuse'
<1>1. ASSUME NEW p \in Proc, NEW n \in Name, NEW m \in Modes, Open(p, n, m) PROVE ~misuse'
  <2>1. CASE OpenAgain(p, n, m)
    <3>1. ~(m.trunc /\ sft[n].broken) /\ n \in Opened
      BY <2>1 DEF OpenAgain, Only
    <3>2. ~sft[n].broken => sft[n].fh \in volopen
      BY <3>1 DEF TableInv, VolumeOpen, Whole
    <3>3. QED
      BY <2>1, <3>1, <3>2 DEF OpenAgain
  <2>2. CASE OpenFirst(p, n, m)
    BY <2>2 DEF OpenFirst
  <2>3. QED
    BY <1>1, <2>1, <2>2 DEF Open
<1>2. ASSUME NEW p \in Proc, NEW h \in Slot, Close(p, h) PROVE ~misuse'
  <2>1. h \in Used(ft) /\ Closed(h)
    BY <1>2 DEF Close, Mine, Used
  <2>2. QED
    BY <1>2, <2>1, ClosedStep DEF Close
<1>3. ASSUME NEW p \in Proc, CloseNext(p) PROVE ~misuse'
  <2>1. Lowest(job[p]) \in Used(ft)
    BY <1>3, CloseNextUsed
  <2>2. QED
    BY <1>3, <2>1, ClosedStep DEF CloseNext
<1>4. QED
  BY <1>1, <1>2, <1>3 DEF Next, Program, Detach, Dup, Move, Start, StartSession, Exit,
     Unmount, Mount, vars

-----------------------------------------------------------------------------
(* The tables are well-typed, and no handle refers to a closed one (sysio.c, *)
(* ioh_unlink, dup_handle).                                                *)
THEOREM HandlesTyped == Spec => []TypeOK
<1>1. Spec => []TableInv
  BY InitTable, TableStep, PTL DEF Spec
<1>2. QED
  BY <1>1, TypeFollows, PTL

(* A process that has ended leaves no handle behind that io_close_as() will *)
(* not close, but those that were detached (sysio.c:1647-1703).            *)
THEOREM HandlesCleaned == Spec => []NothingLeft
<1>1. TableInv => NothingLeft
  BY DEF TableInv
<1>2. QED
  BY <1>1, InitTable, TableStep, PTL DEF Spec

(* sftable, ftable and the volume agree (sysio.c, io_open, io_close,       *)
(* dup_handle, sft_volumebroke), if no file of an unmounted volume is      *)
(* opened again to be truncated.                                           *)
THEOREM HandlesAgree ==
  ASSUME "broken" \notin Uses
  PROVE  Spec => []TablesAgree
<1> DEFINE I == TableInv /\ ~misuse
<1>1. Init => I
  BY InitTable
<1>2. I /\ [Next]_vars => I'
  BY TableStep, MisuseStep
<1>3. I => TablesAgree
  BY AgreeFollows
<1> HIDE DEF I
<1>4. QED
  BY <1>1, <1>2, <1>3, PTL DEF Spec

-----------------------------------------------------------------------------
(***************************************************************************)
(* The refinement of FilePos: chains and positions of a table, as functions *)
(* of the table; With and At are what the refinement gives for the table.  *)
(***************************************************************************)
W(f) == [h \in Slot |-> {x \in Slot : Mate(f, h, x)}]
A(f) == [h \in Slot |-> Pos(f, h)]
With == [h \in Slot |-> Mates(h)]
At == [h \in Slot |-> ft[MainOf(ft, h)].pos]

(* What FilePos sees of a table.                                           *)
LEMMA Seen ==
  ASSUME NEW f, Table(f)
  PROVE  /\ \A h \in Slot : /\ W(f)[h] = {x \in Slot : Mate(f, h, x)}
                            /\ W(f)[h] = {} <=> h \notin Used(f)
                            /\ A(f)[h] = Pos(f, h)
                            /\ h \notin Used(f) => Pos(f, h) = 0
         /\ \A x, y \in Slot : Mate(f, x, y) => x \in Used(f) /\ y \in Used(f)
         /\ \A x \in Used(f) : x \in Slot /\ Mate(f, x, x)
<1>1. Used(f) \subseteq Slot
  BY DEF Used
<1>2. \A x, y \in Slot : Mate(f, x, y) => x \in Used(f) /\ y \in Used(f)
  BY DEF Mate
<1>3. \A x \in Used(f) : x \in Slot /\ Mate(f, x, x)
  BY <1>1 DEF Mate
<1>4. \A h \in Slot : /\ W(f)[h] = {x \in Slot : Mate(f, h, x)}
                      /\ A(f)[h] = Pos(f, h)
  BY DEF W, A
<1>5. \A h \in Slot : W(f)[h] = {} <=> h \notin Used(f)
  BY <1>2, <1>3, <1>4
<1>6. \A h \in Slot : h \notin Used(f) => Pos(f, h) = 0
  BY DEF Used, Pos, MainOf, Free
<1>7. QED
  BY <1>2, <1>3, <1>4, <1>5, <1>6

(* The refinement mapping, handle by handle.                               *)
LEMMA Mapping ==
  ASSUME Table(ft), Chains(ft), Table(ft'), Chains(ft'), NEW x \in Slot
  PROVE  /\ Mates(x) = W(ft)[x] /\ Mates(x)' = W(ft')[x]
         /\ ft[MainOf(ft, x)].pos = A(ft)[x] /\ ft'[MainOf(ft', x)].pos = A(ft')[x]
<1>1. /\ MatesIn(ft, x) = {y \in Slot : Mate(ft, x, y)}
      /\ MatesIn(ft', x) = {y \in Slot : Mate(ft', x, y)}
  BY MatesIs
<1>2. /\ Mates(x) = MatesIn(ft, x)
      /\ Mates(x)' = MatesIn(ft', x)
  BY DEF Mates, MatesIn
<1>3. QED
  BY <1>1, <1>2 DEF A, W, Pos

(* A new handle alone.                                                     *)
LEMMA SeenNew ==
  ASSUME NEW f, Table(f), NEW f2, Table(f2), NEW h \in Slot \ Used(f), NEW pos,
         Used(f2) = Used(f) \cup {h},
         \A x, y \in Used(f) : Mate(f2, x, y) <=> Mate(f, x, y),
         \A x \in Slot : Mate(f2, h, x) <=> x = h,
         \A x \in Used(f) : Pos(f2, x) = Pos(f, x),
         Pos(f2, h) = pos
  PROVE  /\ W(f2) = Put(W(f), h, {h})
         /\ A(f2) = Put(A(f), h, pos)
<1>1. ASSUME NEW x \in Slot
      PROVE  W(f2)[x] = IF x = h THEN {h} ELSE W(f)[x]
  <2>1. CASE x = h
    BY <2>1, Seen
  <2>2. CASE x # h
    <3>1. ~Mate(f2, x, h)
      <4>1. Mate(f2, x, h) => Mate(f2, h, x)
        BY DEF Mate
      <4>2. QED
        BY <2>2, <4>1
    <3>2. \A y \in Slot : Mate(f2, x, y) <=> Mate(f, x, y)
      BY <2>2, <3>1, Seen
    <3>3. W(f2)[x] = {y \in Slot : Mate(f2, x, y)} /\ W(f)[x] = {y \in Slot : Mate(f, x, y)}
      BY DEF W
    <3>4. QED
      BY <2>2, <3>2, <3>3
  <2>3. QED
    BY <2>1, <2>2
<1>2. ASSUME NEW x \in Slot
      PROVE  A(f2)[x] = IF x = h THEN pos ELSE A(f)[x]
  BY Seen
<1>3. QED
  BY <1>1, <1>2 DEF W, A, Put

(* A handle closed.                                                        *)
LEMMA SeenClosed ==
  ASSUME NEW f, Table(f), NEW f2, Table(f2), NEW h \in Used(f),
         Used(f2) = Used(f) \ {h},
         \A x, y \in Used(f2) : Mate(f2, x, y) <=> Mate(f, x, y),
         \A x \in Used(f2) : Pos(f2, x) = Pos(f, x)
  PROVE  /\ W(f2) = [x \in Slot |-> IF x = h THEN {} ELSE W(f)[x] \ {h}]
         /\ A(f2) = [A(f) EXCEPT ![h] = 0]
<1>1. ASSUME NEW x \in Slot
      PROVE  W(f2)[x] = IF x = h THEN {} ELSE W(f)[x] \ {h}
  <2>1. CASE x = h
    BY <2>1, Seen
  <2>2. CASE x # h
    <3>1. \A y \in Slot : Mate(f2, x, y) <=> Mate(f, x, y) /\ y # h
      BY <2>2, Seen
    <3>2. QED
      BY <2>2, <3>1, Seen
  <2>3. QED
    BY <2>1, <2>2
<1>2. ASSUME NEW x \in Slot
      PROVE  A(f2)[x] = IF x = h THEN 0 ELSE A(f)[x]
  BY Seen
<1>3. h \in Slot
  BY DEF Used
<1>4. QED
  BY <1>1, <1>2, <1>3 DEF W, A

(* Handles copied with their positions.                                    *)
LEMMA SeenCopied ==
  ASSUME NEW f, Table(f), NEW f2, NEW root, Copied(f, f2, root), Used(f2) # Used(f)
  PROVE  LET H == Used(f2) \ Used(f)
             r == [x \in H |-> root[x]]
             Joined(g) == {h \in DOMAIN r : r[h] \in W(f)[g]}
             Root(x) == IF x \in DOMAIN r THEN r[x] ELSE x
         IN  /\ r \in [H -> Used(f)] /\ W(f2) # W(f)
             /\ W(f2) = [x \in Slot |-> IF W(f)[Root(x)] = {} THEN {}
                                        ELSE W(f)[Root(x)] \cup Joined(Root(x))]
             /\ A(f2) = [x \in Slot |-> A(f)[Root(x)]]
<1> DEFINE H == Used(f2) \ Used(f)
           r == [x \in H |-> root[x]]
           Joined(g) == {h \in DOMAIN r : r[h] \in W(f)[g]}
           Root(x) == IF x \in DOMAIN r THEN r[x] ELSE x
<1>1. /\ Table(f2) /\ Used(f) \subseteq Used(f2) /\ root \in [Used(f2) -> Used(f)]
      /\ \A x \in Used(f) : root[x] = x
      /\ \A x \in Used(f2) : Pos(f2, x) = Pos(f, root[x])
      /\ \A x, y \in Used(f2) : Mate(f2, x, y) <=> Mate(f, root[x], root[y])
      /\ Used(f2) \subseteq Slot /\ Used(f) \subseteq Slot
  BY DEF Copied, Used
<1>2. r \in [H -> Used(f)] /\ DOMAIN r = H /\ \A x \in H : r[x] = root[x]
  BY <1>1
<1> HIDE DEF r
<1>3. \A x \in Used(f2) : Root(x) = root[x] /\ Root(x) \in Used(f)
  BY <1>1, <1>2
<1>4. \A x \in Slot : x \notin Used(f2) => Root(x) = x /\ x \notin Used(f)
  BY <1>1, <1>2
<1> HIDE DEF Root
<1>5. ASSUME NEW x \in Slot
      PROVE  W(f2)[x] = IF W(f)[Root(x)] = {} THEN {} ELSE W(f)[Root(x)] \cup Joined(Root(x))
  <2>1. CASE x \notin Used(f2)
    <3>1. W(f2)[x] = {} /\ W(f)[x] = {}
      BY <1>1, <1>4, <2>1, Seen
    <3>2. QED
      BY <1>4, <2>1, <3>1
  <2>2. CASE x \in Used(f2)
    <3> DEFINE g == Root(x)
    <3>1. g \in Used(f) /\ g \in Slot /\ g = root[x] /\ W(f)[g] # {}
      BY <1>1, <1>3, <2>2, Seen
    <3> HIDE DEF g
    <3>2. W(f)[g] = {y \in Slot : Mate(f, g, y)}
      BY <3>1, Seen
    <3>3. Joined(g) = {h \in H : Mate(f, g, root[h])}
      BY <1>1, <1>2, <3>2
    <3>4. W(f2)[x] = {y \in Slot : Mate(f2, x, y)}
      BY <1>1, Seen
    <3>5. \A y \in Slot : Mate(f2, x, y) <=> y \in Used(f2) /\ Mate(f, g, root[y])
      BY <1>1, <2>2, <3>1, Seen
    <3>6. \A y \in Slot : Mate(f, g, y) => y \in Used(f)
      BY <3>1, Seen
    <3>7. W(f2)[x] = W(f)[g] \cup Joined(g)
      BY <1>1, <3>2, <3>3, <3>4, <3>5, <3>6
    <3>8. QED
      BY <3>1, <3>7 DEF g
  <2>3. QED
    BY <2>1, <2>2
<1>6. ASSUME NEW x \in Slot
      PROVE  A(f2)[x] = A(f)[Root(x)]
  <2>1. CASE x \notin Used(f2)
    BY <1>1, <1>4, <2>1, Seen
  <2>2. CASE x \in Used(f2)
    <3>1. Root(x) \in Slot /\ Root(x) = root[x]
      BY <1>1, <1>3, <2>2
    <3>2. A(f)[Root(x)] = Pos(f, root[x])
      BY <3>1, Seen
    <3>3. A(f2)[x] = Pos(f2, x)
      BY <1>1, Seen
    <3>4. QED
      BY <1>1, <2>2, <3>2, <3>3
  <2>3. QED
    BY <2>1, <2>2
<1>7. W(f2) # W(f)
  <2>1. PICK x \in H : TRUE
    BY <1>1
  <2>2. x \in Slot /\ x \in Used(f2) /\ x \notin Used(f)
    BY <1>1, <2>1
  <2>3. W(f2)[x] # {} /\ W(f)[x] = {}
    BY <1>1, <2>2, Seen
  <2>4. QED
    BY <2>3
<1>8. W(f2) = [x \in Slot |-> IF W(f)[Root(x)] = {} THEN {}
                              ELSE W(f)[Root(x)] \cup Joined(Root(x))]
  <2>1. W(f2) = [x \in Slot |-> W(f2)[x]]
    BY DEF W
  <2>2. QED
    BY <1>5, <2>1
<1>9. A(f2) = [x \in Slot |-> A(f)[Root(x)]]
  <2>1. A(f2) = [x \in Slot |-> A(f2)[x]]
    BY DEF A
  <2>2. QED
    BY <1>6, <2>1
<1>10. QED
  BY <1>2, <1>7, <1>8, <1>9 DEF r, Root

(* Nothing seen.                                                           *)
LEMMA SeenSame ==
  ASSUME NEW f, Table(f), NEW f2, Table(f2), Used(f2) = Used(f),
         \A x, y \in Used(f) : Mate(f2, x, y) <=> Mate(f, x, y),
         \A x \in Used(f) : Pos(f2, x) = Pos(f, x)
  PROVE  W(f2) = W(f) /\ A(f2) = A(f)
<1>1. ASSUME NEW x \in Slot
      PROVE  W(f2)[x] = W(f)[x] /\ A(f2)[x] = A(f)[x]
  <2>1. \A y \in Slot : Mate(f2, x, y) <=> Mate(f, x, y)
    BY Seen
  <2>2. W(f2)[x] = W(f)[x]
    <3>1. W(f2)[x] = {y \in Slot : Mate(f2, x, y)} /\ W(f)[x] = {y \in Slot : Mate(f, x, y)}
      BY DEF W
    <3>2. QED
      BY <2>1, <3>1
  <2>3. A(f2)[x] = A(f)[x]
    BY Seen
  <2>4. QED
    BY <2>2, <2>3
<1>2. QED
  BY <1>1 DEF W, A

(* Steps of FilePos in these terms: a handle with a position of its own... *)
LEMMA MapsNew ==
  ASSUME Table(ft), Chains(ft), Table(ft'), Chains(ft'), NEW h \in Slot \ Used(ft),
         W(ft') = Put(W(ft), h, {h})
  PROVE  /\ A(ft') = Put(A(ft), h, 0) => Positions!Open
         /\ \A g \in Used(ft) :
               A(ft') = Put(A(ft), h, A(ft)[g]) => Positions!Copy
<1>1. /\ Mates(h) = {} /\ Used(ft) \subseteq Slot
      /\ \A g \in Used(ft) : g \in Slot /\ Mates(g) # {}
  BY Mapping, Seen DEF Used
<1>2. \A x \in Slot : Mates(x)' = IF x = h THEN {h} ELSE Mates(x)
  <2>1. \A x \in Slot : W(ft')[x] = IF x = h THEN {h} ELSE W(ft)[x]
    <3>1. DOMAIN W(ft) = Slot
      BY DEF W
    <3>2. QED
      BY <3>1 DEF Put
  <2>2. QED
    BY <2>1, Mapping
<1>3. h \in Positions!Shut /\ \A g \in Used(ft) : g \in Slot \ Positions!Shut
  BY <1>1 DEF Positions!Shut
<1>4. With' = [With EXCEPT ![h] = {h}]
  BY <1>2 DEF With
<1>5. ASSUME A(ft') = Put(A(ft), h, 0)
      PROVE  Positions!Open
  <2>1. \A x \in Slot : ft'[MainOf(ft', x)].pos = IF x = h THEN 0 ELSE ft[MainOf(ft, x)].pos
    BY <1>5, Mapping DEF A, Put
  <2>2. At' = [At EXCEPT ![h] = 0]
    BY <2>1 DEF At
  <2>3. QED
    BY <1>3, <1>4, <2>2, Zenon DEF Positions!Open, Positions!New, With, At
<1>6. ASSUME NEW g \in Used(ft), A(ft') = Put(A(ft), h, A(ft)[g])
      PROVE  Positions!Copy
  <2>1. \A x \in Slot : ft'[MainOf(ft', x)].pos =
                            IF x = h THEN ft[MainOf(ft, g)].pos ELSE ft[MainOf(ft, x)].pos
    BY <1>1, <1>6, Mapping DEF A, Put
  <2>2. At' = [At EXCEPT ![h] = At[g]]
    BY <1>1, <2>1 DEF At
  <2>3. QED
    BY <1>3, <1>4, <2>2, Zenon DEF Positions!Copy, Positions!New, With, At
<1>7. QED
  BY <1>5, <1>6

(* ... a handle closed ...                                                 *)
LEMMA MapsClosed ==
  ASSUME Table(ft), Chains(ft), Table(ft'), Chains(ft'), NEW h \in Used(ft),
         W(ft') = [x \in Slot |-> IF x = h THEN {} ELSE W(ft)[x] \ {h}],
         A(ft') = [A(ft) EXCEPT ![h] = 0]
  PROVE  Positions!Close
<1>1. h \in Slot /\ Mates(h) # {}
  BY Mapping, Seen DEF Used
<1>2. \A x \in Slot : Mates(x)' = IF x = h THEN {} ELSE Mates(x) \ {h}
  BY Mapping
<1>3. \A x \in Slot : ft'[MainOf(ft', x)].pos = IF x = h THEN 0 ELSE ft[MainOf(ft, x)].pos
  BY Mapping DEF A
<1>4. h \in Slot \ Positions!Shut
  BY <1>1 DEF Positions!Shut
<1>5. With' = [x \in Slot |-> IF x = h THEN {} ELSE With[x] \ {h}]
  BY <1>2 DEF With
<1>6. At' = [At EXCEPT ![h] = 0]
  BY <1>3 DEF At
<1>7. QED
  BY <1>4, <1>5, <1>6, Zenon DEF Positions!Close, With, At

(* ... a chain moved ...                                                   *)
LEMMA MapsMoved ==
  ASSUME Table(ft), Chains(ft), Table(ft'), Chains(ft'), NEW h \in Used(ft),
         NEW pos \in 0..MaxPos, W(ft') = W(ft),
         A(ft') = [x \in Slot |-> IF x \in W(ft)[h] THEN pos ELSE A(ft)[x]]
  PROVE  Positions!Move
<1>1. h \in Slot /\ Mates(h) # {}
  BY Mapping, Seen DEF Used
<1>2. \A x \in Slot : Mates(x)' = Mates(x)
  BY Mapping
<1>3. \A x \in Slot : ft'[MainOf(ft', x)].pos =
                          IF x \in Mates(h) THEN pos ELSE ft[MainOf(ft, x)].pos
  BY <1>1, Mapping
<1>4. h \in Slot \ Positions!Shut
  BY <1>1 DEF Positions!Shut
<1>5. UNCHANGED With
  BY <1>2 DEF With
<1>6. At' = [x \in Slot |-> IF x \in With[h] THEN pos ELSE At[x]]
  BY <1>1, <1>3 DEF At, With
<1>7. QED
  BY <1>4, <1>5, <1>6, Zenon DEF Positions!Move, With, At

(* ... nothing seen ...                                                    *)
LEMMA MapsSame ==
  ASSUME Table(ft), Chains(ft), Table(ft'), Chains(ft'), W(ft') = W(ft), A(ft') = A(ft)
  PROVE  UNCHANGED <<With, At>>
<1>1. \A x \in Slot : Mates(x)' = Mates(x)
  BY Mapping
<1>2. \A x \in Slot : ft'[MainOf(ft', x)].pos = ft[MainOf(ft, x)].pos
  BY Mapping
<1>3. QED
  BY <1>1, <1>2 DEF With, At

(* ... handles that share the position of others.                          *)
LEMMA MapsCopied ==
  ASSUME Table(ft), Chains(ft), NEW root, Copied(ft, ft', root), Used(ft') # Used(ft)
  PROVE  Positions!Share
<1> DEFINE H == Used(ft') \ Used(ft)
           r == [x \in H |-> root[x]]
           Joined(g) == {h \in DOMAIN r : r[h] \in W(ft)[g]}
           Root(x) == IF x \in DOMAIN r THEN r[x] ELSE x
<1>1. /\ r \in [H -> Used(ft)] /\ W(ft') # W(ft)
      /\ W(ft') = [x \in Slot |-> IF W(ft)[Root(x)] = {} THEN {}
                                  ELSE W(ft)[Root(x)] \cup Joined(Root(x))]
      /\ A(ft') = [x \in Slot |-> A(ft)[Root(x)]]
  BY SeenCopied
<1>2. Table(ft') /\ Chains(ft') /\ Used(ft) \subseteq Slot
  BY DEF Copied, Used
<1> HIDE DEF r
<1>3. \A x \in Slot : Root(x) \in Slot
  BY <1>1, <1>2
<1>4. \A x \in Slot : /\ Mates(x) = W(ft)[x] /\ Mates(x)' = W(ft')[x]
                      /\ ft[MainOf(ft, x)].pos = A(ft)[x]
                      /\ ft'[MainOf(ft', x)].pos = A(ft')[x]
  BY <1>2, Mapping
<1>5. \A x \in Slot : Mates(x) = {} <=> x \notin Used(ft)
  BY <1>4, Seen
<1>6. Positions!Shut = Slot \ Used(ft)
  BY <1>5 DEF Positions!Shut
<1>7. H \in SUBSET Positions!Shut /\ r \in [H -> Slot \ Positions!Shut]
  BY <1>1, <1>2, <1>6 DEF Used
<1>8. \A x \in Slot :
         LET J == {h \in DOMAIN r : r[h] \in Mates(Root(x))}
         IN  /\ Mates(x)' = IF Mates(Root(x)) = {} THEN {} ELSE Mates(Root(x)) \cup J
             /\ ft'[MainOf(ft', x)].pos = ft[MainOf(ft, Root(x))].pos
  <2>1. TAKE x \in Slot
  <2> DEFINE y == Root(x)
  <2>2. /\ W(ft')[x] = IF W(ft)[y] = {} THEN {} ELSE W(ft)[y] \cup Joined(y)
        /\ A(ft')[x] = A(ft)[y]
    BY <1>1
  <2>3. y \in Slot
    BY <1>3
  <2> HIDE DEF y
  <2>4. Mates(y) = W(ft)[y] /\ Mates(x)' = W(ft')[x]
    BY <1>4, <2>3
  <2>5. ft[MainOf(ft, y)].pos = A(ft)[y] /\ ft'[MainOf(ft', x)].pos = A(ft')[x]
    BY <1>4, <2>3
  <2>6. QED
    BY <2>2, <2>4, <2>5 DEF y
<1>9. Positions!Attach(r)
  BY <1>3, <1>8 DEF Positions!Attach
<1>10. PICK x \in Slot : Mates(x)' # Mates(x)
  BY <1>1, <1>4 DEF W
<1>11. QED
  BY <1>7, <1>9, <1>10 DEF Positions!Share

-----------------------------------------------------------------------------
(***************************************************************************)
(* Each operation is one of FilePos, or none.                              *)
(***************************************************************************)
(* A new handle with a position of its own.                                *)
LEMMA PlainSeen ==
  ASSUME Table(ft), Chains(ft), NEW h \in Slot \ Used(ft), NEW e \in HandleType,
         e.main = 0, e.next = 0, e.file \in Name, ft' = Put(ft, h, e)
  PROVE  /\ W(ft') = Put(W(ft), h, {h})
         /\ A(ft') = Put(A(ft), h, e.pos)
         /\ Table(ft') /\ Chains(ft')
<1>1. /\ Table(ft') /\ Chains(ft') /\ Used(ft') = Used(ft) \cup {h}
      /\ \A x, y \in Used(ft) : Mate(ft', x, y) <=> Mate(ft, x, y)
      /\ \A x \in Slot : Mate(ft', h, x) <=> x = h
      /\ \A x \in Used(ft) : Pos(ft', x) = Pos(ft, x)
      /\ Pos(ft', h) = e.pos
  BY AddPlain
<1>2. /\ W(ft') = Put(W(ft), h, {h})
      /\ A(ft') = Put(A(ft), h, e.pos)
  BY <1>1, SeenNew
<1>3. QED
  BY <1>1, <1>2

(* io_open()                                                               *)
LEMMA OpenMaps ==
  ASSUME TableInv, NEW p \in Proc, NEW n \in Name, NEW m \in Modes, Open(p, n, m)
  PROVE  Positions!Open
<1> DEFINE h == FirstFree(ft)
           e == Handle(p, n, m)
<1>1. /\ h \in Slot \ Used(ft) /\ ft' = Put(ft, h, e)
      /\ Table(ft) /\ Chains(ft)
  BY FirstFreeIs DEF Open, OpenAgain, OpenFirst, TableInv, Put
<1>2. e \in HandleType /\ e.main = 0 /\ e.next = 0 /\ e.file = n /\ e.pos = 0
  <2>1. m \in AllModes /\ MaxPos \in Nat
    BY HandleConstants
  <2>2. m.share \subseteq Access
    BY <2>1 DEF AllModes
  <2>3. Free \in HandleType /\ Free.main = 0 /\ Free.next = 0 /\ Free.pos = 0
    BY <2>1 DEF Free, HandleType
  <2>4. QED
    BY <2>2, <2>3 DEF Handle, HandleType
<1> HIDE DEF h, e
<1>3. /\ W(ft') = Put(W(ft), h, {h})
      /\ A(ft') = Put(A(ft), h, e.pos)
      /\ Table(ft') /\ Chains(ft')
  BY <1>1, <1>2, PlainSeen
<1>4. QED
  BY <1>1, <1>2, <1>3, MapsNew

(* io_close(): of a handle that is open                                    *)
LEMMA ClosedMaps ==
  ASSUME TableInv, NEW h \in Used(ft), Closed(h)
  PROVE  Positions!Close
<1>1. ft' = Unchained(ft, h) /\ Table(ft) /\ Chains(ft)
  BY DEF Closed, TableInv
<1>2. /\ Table(ft') /\ Chains(ft') /\ Used(ft') = Used(ft) \ {h}
      /\ \A x \in Used(ft') : Pos(ft', x) = Pos(ft, x)
      /\ \A x, y \in Used(ft') : Mate(ft', x, y) <=> Mate(ft, x, y)
  BY <1>1, Unlinked
<1>3. /\ W(ft') = [x \in Slot |-> IF x = h THEN {} ELSE W(ft)[x] \ {h}]
      /\ A(ft') = [A(ft) EXCEPT ![h] = 0]
  BY <1>1, <1>2, SeenClosed
<1>4. QED
  BY <1>1, <1>2, <1>3, MapsClosed

(* io_duphandle(): with the position of the source, or with a copy of it   *)
LEMMA DupMaps ==
  ASSUME TableInv, "copy" \notin Uses, NEW p \in Proc, NEW g \in Slot,
         NEW private \in BOOLEAN, NEW share \in BOOLEAN, Dup(p, g, private, share)
  PROVE  Positions!Copy \/ Positions!Share
<1> DEFINE h == FirstFree(ft)
           pid == IF private /\ ft[g].pid = NoPid THEN p ELSE ft[g].pid
<1>1. /\ Table(ft) /\ Chains(ft) /\ ft' = Dupped(ft, g, h, pid, share)
      /\ g \in Used(ft) /\ h \in Slot \ Used(ft)
      /\ share \/ MainOf(ft, g) = g
  BY FirstFreeIs DEF TableInv, Dup, Mine, Used, Only
<1>2. /\ ft \in [Slot -> HandleType] /\ ft[g] \in HandleType /\ ft[g].file \in Name
      /\ pid \in Proc \cup {NoPid}
  <2>1. ft \in [Slot -> HandleType] /\ ft[g].file # NoFile
    BY <1>1 DEF Table, Used
  <2>2. ft[g] \in HandleType
    BY <2>1
  <2>3. QED
    BY <2>1, <2>2 DEF HandleType
<1> HIDE DEF h, pid
<1>3. CASE share
  <2> DEFINE d == Dupped(ft, g, h, pid, TRUE)
             root == RootOf(ft, g, h)
  <2>1. d = ft'
    BY <1>1, <1>3
  <2>2. Used(d) = Used(ft) \cup {h} /\ Copied(ft, d, root)
    BY <1>1, <1>2, CopyOne
  <2> HIDE DEF root, d
  <2>3. Used(ft') # Used(ft) /\ Copied(ft, ft', root)
    BY <1>1, <2>1, <2>2
  <2>4. QED
    BY <1>1, <2>3, MapsCopied
<1>4. CASE ~share
  <2> DEFINE e == [ft[g] EXCEPT !.pid = pid, !.main = 0, !.next = 0]
  <2>1. ft' = Put(ft, h, e)
    BY <1>1, <1>4 DEF Dupped, Put
  <2>2. /\ e \in HandleType /\ e.main = 0 /\ e.next = 0 /\ e.file \in Name
        /\ e.pos = Pos(ft, g)
    BY <1>1, <1>2, <1>4 DEF HandleType, Pos
  <2> HIDE DEF e
  <2>3. /\ W(ft') = Put(W(ft), h, {h})
        /\ A(ft') = Put(A(ft), h, e.pos)
        /\ Table(ft') /\ Chains(ft')
    BY <1>1, <2>1, <2>2, PlainSeen
  <2>4. e.pos = A(ft)[g]
    BY <1>1, <2>2 DEF A, Used
  <2>5. QED
    BY <1>1, <2>3, <2>4, MapsNew
<1>5. QED
  BY <1>3, <1>4

(* io_inherit()                                                            *)
LEMMA StartMaps ==
  ASSUME TableInv, NEW p \in Proc, NEW c \in Proc, Start(c, p)
  PROVE  Positions!Share \/ UNCHANGED <<With, At>>
<1>1. Table(ft) /\ Chains(ft)
  BY DEF TableInv
<1>2. PICK root : Copied(ft, ft', root)
  BY StartStep
<1>3. CASE Used(ft') # Used(ft)
  BY <1>1, <1>2, <1>3, MapsCopied
<1>4. CASE Used(ft') = Used(ft)
  <2>1. /\ Table(ft') /\ Chains(ft')
        /\ \A x \in Used(ft) : root[x] = x
        /\ \A x \in Used(ft) : Pos(ft', x) = Pos(ft, root[x])
        /\ \A x, y \in Used(ft) : Mate(ft', x, y) <=> Mate(ft, root[x], root[y])
    BY <1>2, <1>4 DEF Copied
  <2>2. /\ \A x \in Used(ft) : Pos(ft', x) = Pos(ft, x)
        /\ \A x, y \in Used(ft) : Mate(ft', x, y) <=> Mate(ft, x, y)
    BY <2>1
  <2>3. W(ft') = W(ft) /\ A(ft') = A(ft)
    BY <1>1, <1>4, <2>1, <2>2, SeenSame
  <2>4. QED
    BY <1>1, <2>1, <2>3, MapsSame
<1>5. QED
  BY <1>3, <1>4

(* io_read(), io_write(), io_seek()                                        *)
LEMMA MoveMaps ==
  ASSUME TableInv, NEW p \in Proc, NEW h \in Slot, NEW pos \in 0..MaxPos, Move(p, h, pos)
  PROVE  Positions!Move
<1>1. /\ TableInv' /\ Used(ft') = Used(ft) /\ h \in Used(ft)
      /\ \A x, y \in Slot : Mate(ft', x, y) <=> Mate(ft, x, y)
      /\ \A x \in Used(ft) : Pos(ft', x) = IF Mate(ft, h, x) THEN pos ELSE Pos(ft, x)
  BY MoveStep
<1>2. Table(ft) /\ Chains(ft) /\ Table(ft') /\ Chains(ft')
  BY <1>1 DEF TableInv
<1>3. W(ft') = W(ft)
  BY <1>1 DEF W
<1>4. ASSUME NEW x \in Slot
      PROVE  A(ft')[x] = IF x \in W(ft)[h] THEN pos ELSE A(ft)[x]
  <2>1. /\ x \in W(ft)[h] <=> Mate(ft, h, x)
        /\ A(ft')[x] = Pos(ft', x) /\ A(ft)[x] = Pos(ft, x)
    BY DEF W, A
  <2>2. CASE x \in Used(ft)
    BY <1>1, <2>1, <2>2
  <2>3. CASE x \notin Used(ft)
    BY <1>1, <1>2, <2>1, <2>3, Seen
  <2>4. QED
    BY <2>2, <2>3
<1>5. A(ft') = [x \in Slot |-> IF x \in W(ft)[h] THEN pos ELSE A(ft)[x]]
  <2>1. A(ft') = [x \in Slot |-> A(ft')[x]]
    BY DEF A
  <2>2. QED
    BY <1>4, <2>1
<1>6. QED
  BY <1>1, <1>2, <1>3, <1>5, MapsMoved

(* Steps that change no link and no position.                              *)
LEMMA OwnerMaps ==
  ASSUME TableInv, TableInv', ft' \in [Slot -> HandleType],
         \A x \in Slot : /\ ft'[x].main = ft[x].main /\ ft'[x].next = ft[x].next
                         /\ ft'[x].file = ft[x].file /\ ft'[x].pos = ft[x].pos
                         /\ ft'[x] = Free <=> ft[x] = Free
  PROVE  UNCHANGED <<With, At>>
<1>1. Table(ft) /\ Chains(ft) /\ Table(ft') /\ Chains(ft')
  BY DEF TableInv
<1>2. Used(ft') = Used(ft) /\ \A x, y \in Slot : Mate(ft', x, y) <=> Mate(ft, x, y)
  BY <1>1, Relabel
<1>3. \A x \in Used(ft) : Pos(ft', x) = Pos(ft, x)
  <2>1. TAKE x \in Used(ft)
  <2>2. x \in Slot /\ MainOf(ft, x) \in Slot /\ MainOf(ft', x) = MainOf(ft, x)
    BY <1>1 DEF MainOf, Used, Table
  <2>3. QED
    BY <2>2 DEF Pos
<1>4. W(ft') = W(ft) /\ A(ft') = A(ft)
  <2>1. Used(ft) \subseteq Slot
    BY DEF Used
  <2>2. QED
    BY <1>1, <1>2, <1>3, <2>1, SeenSame
<1>5. QED
  BY <1>1, <1>4, MapsSame

(* io_close_as() and io_setstate() change owners only.                     *)
LEMMA OwnersMap ==
  ASSUME TableInv, TableInv', NEW p \in Proc, Exit(p) \/ \E h \in Slot : Detach(p, h)
  PROVE  UNCHANGED <<With, At>>
<1> DEFINE Other(x) == [ft[x] EXCEPT !.pid = NoPid]
<1>1. /\ ft \in [Slot -> HandleType] /\ ft' \in [Slot -> HandleType]
      /\ Table(ft) /\ Table(ft')
  BY DEF TableInv, Table
<1>2. ASSUME NEW x \in Slot
      PROVE  ft'[x] = ft[x] \/ ft'[x] = Other(x)
  BY <1>1 DEF Exit, Detach
<1>3. ASSUME NEW x \in Slot
      PROVE  /\ ft'[x].main = ft[x].main /\ ft'[x].next = ft[x].next
             /\ ft'[x].file = ft[x].file /\ ft'[x].pos = ft[x].pos
  <2>1. ft[x] \in HandleType
    BY <1>1
  <2>2. QED
    BY <1>2, <2>1 DEF HandleType
<1>4. \A x \in Slot : ft'[x] = Free <=> ft[x] = Free
  BY <1>1, <1>3 DEF Table
<1>5. QED
  BY <1>1, <1>3, <1>4, OwnerMaps

(* Every step of the handles is one of FilePos, or none.                   *)
LEMMA StepMaps ==
  ASSUME TableInv, TableInv', "copy" \notin Uses, [Next]_vars
  PROVE  Positions!Next \/ UNCHANGED <<With, At>>
<1>1. ASSUME UNCHANGED ft
      PROVE  UNCHANGED <<With, At>>
  <2>1. \A h \in Slot : Mates(h)' = Mates(h)
    BY <1>1 DEF Mates, ChainFrom, ChainWalk
  <2>2. \A h \in Slot : MainOf(ft, h)' = MainOf(ft, h)
    BY <1>1 DEF MainOf
  <2>3. QED
    BY <1>1, <2>1, <2>2 DEF With, At
<1>2. CASE UNCHANGED vars \/ Unmount \/ Mount
  BY <1>1, <1>2 DEF vars, Unmount, Mount
<1>3. ASSUME NEW p \in Proc, Program(p)
      PROVE  Positions!Next \/ UNCHANGED <<With, At>>
  <2>1. CASE \E n \in Name, m \in Modes : Open(p, n, m)
    BY <2>1, OpenMaps DEF Positions!Next
  <2>2. ASSUME NEW h \in Slot, Close(p, h)
        PROVE  Positions!Next
    <3>1. h \in Used(ft) /\ Closed(h)
      BY <2>2 DEF Close, Mine, Used
    <3>2. QED
      BY <3>1, ClosedMaps DEF Positions!Next
  <2>3. ASSUME NEW h \in Slot, NEW a \in BOOLEAN, NEW b \in BOOLEAN, Dup(p, h, a, b)
        PROVE  Positions!Next
    BY <2>3, DupMaps DEF Positions!Next
  <2>4. ASSUME NEW h \in Slot, NEW pos \in 0..MaxPos, Move(p, h, pos)
        PROVE  Positions!Next
    BY <2>4, MoveMaps DEF Positions!Next
  <2>5. ASSUME NEW c \in Proc, Start(c, p)
        PROVE  Positions!Next \/ UNCHANGED <<With, At>>
    BY <2>5, StartMaps DEF Positions!Next
  <2>6. CASE StartSession(p)
    BY <1>1, <2>6 DEF StartSession
  <2>7. CASE Exit(p) \/ \E h \in Slot : Detach(p, h)
    BY <2>7, OwnersMap
  <2>8. CASE CloseNext(p)
    <3>1. Lowest(job[p]) \in Used(ft) /\ Closed(Lowest(job[p]))
      BY <2>8, CloseNextUsed DEF CloseNext
    <3>2. QED
      BY <3>1, ClosedMaps DEF Positions!Next
  <2>9. QED
    BY <1>3, <2>1, <2>2, <2>3, <2>4, <2>5, <2>6, <2>7, <2>8 DEF Program
<1>4. QED
  BY <1>2, <1>3 DEF Next

(* A handle shares its position with the handles of its chain and no       *)
(* others, whatever is opened, duplicated, inherited, moved and closed,    *)
(* the first handle of a chain included (get_main(), ioh_unlink(),         *)
(* dup_handle()); io_duphandle() is not used to copy the position of a     *)
(* handle that follows another one.                                        *)
THEOREM HandlesRefine ==
  ASSUME "copy" \notin Uses
  PROVE  Spec => ImplementsPositions
<1>1. Init => TableInv /\ Positions!Init
  <2> SUFFICES ASSUME Init PROVE Positions!Init
    BY InitTable
  <2>1. \A h \in Slot : Mates(h) = {} /\ ft[MainOf(ft, h)].pos = 0
    BY DEF Init, Mates, MainOf, Free
  <2>2. QED
    BY <2>1 DEF Positions!Init
<1>2. TableInv /\ [Next]_vars => TableInv'
  BY TableStep
<1>3. TableInv /\ TableInv' /\ [Next]_vars => [Positions!Next]_<<With, At>>
  BY StepMaps
<1>4. QED
  BY <1>1, <1>2, <1>3, PTL DEF Spec, ImplementsPositions, Positions!Spec, With, At
=============================================================================

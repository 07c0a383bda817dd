--------------------------- MODULE SysQueueProofs ---------------------------
(***************************************************************************)
(* QInv is an invariant of SysQueue, for any number of queues, handles,    *)
(* threads and events.  Handles are opened and closed in any order and     *)
(* closed numbers come back; what is asked of the program is that it keeps *)
(* to its own ids (OwnIds).  First the operators on schedules, then one    *)
(* lemma per action; then WholeInv, that no entry gets lost, and TimeInv,  *)
(* how early an alarm can be, in the same order; what each action is in    *)
(* EventQueue; the theorems.                                               *)
(***************************************************************************)
EXTENDS SysQueue, SeqLemmas, NatLemmas

(* The program does not ask to move or withdraw an event that has been     *)
(* delivered, nor one that it scheduled with a handle it has closed since: *)
(* the number may lead to another queue by then.                           *)
OwnIds == StaleIds = FALSE /\ ClosedIds = FALSE

AlarmType == [cbf : BOOLEAN, start : Nat, diff : Nat, usr : Sched \cup {Nil}]

ListType == [head : Sched \cup {Nil}, sched : [Sched -> Entry],
             fq : [Queue -> Seq(Sched)], alarm : AlarmType]

(* Scheduled, LinkInv and the part of OwnerInv on fq, for schedules l.     *)
In(l) == {s \in Sched : s = l.head \/ l.sched[s].prev # Nil}

LinkOf(l, times, s) ==
  LET x == l.sched[s] IN
  /\ x.sign => x.ev \in Event /\ x.qi \in Queue /\ x.owner \in Handle
  /\ ~x.sign => x = Blank
  /\ x.next # Nil => /\ l.sched[x.next].sign
                     /\ l.sched[x.next].prev = s
                     /\ times[x.ev] =< times[l.sched[x.next].ev]
                     /\ s \in In(l)
  /\ x.prev # Nil => l.sched[x.prev].sign /\ l.sched[x.prev].next = s

HeadOf(l) == l.head # Nil => l.sched[l.head].sign /\ l.sched[l.head].prev = Nil

ArrayOf(l, q) ==
  \A i \in DOMAIN l.fq[q] :
    /\ l.fq[q][i] \in In(l)
    /\ l.sched[l.fq[q][i]].qi = q
    /\ \A j \in DOMAIN l.fq[q] : l.fq[q][i] = l.fq[q][j] => i = j

GoodList(l, times) ==
  /\ l \in ListType
  /\ times \in [Event -> Nat]
  /\ HeadOf(l)
  /\ \A s \in Sched : LinkOf(l, times, s)
  /\ \A q \in Queue : ArrayOf(l, q)

(* The invariant says that the present schedules are good ones.            *)
LEMMA PresentList ==
  ASSUME QInv
  PROVE  GoodList(Schedules, evtime) /\ In(Schedules) = Scheduled
<1>1. Schedules \in ListType
  BY DEF QInv, TypeOK, Schedules, ListType, AlarmType
<1>2. In(Schedules) = Scheduled
  BY DEF In, Schedules, Scheduled
<1>3. HeadOf(Schedules)
  BY DEF QInv, LinkInv, HeadOf, Schedules
<1>4. \A s \in Sched : LinkOf(Schedules, evtime, s)
  BY <1>2 DEF QInv, LinkInv, LinkOf, Schedules
<1>5. \A q \in Queue : ArrayOf(Schedules, q)
  BY <1>2 DEF QInv, OwnerInv, ArrayOf, Schedules
<1>6. QED
  BY <1>1, <1>2, <1>3, <1>4, <1>5 DEF GoodList, QInv, TypeOK

(* Conversely, for the schedules that a step installs.                     *)
LEMMA NextList ==
  ASSUME NEW l, Install(l), GoodList(l, evtime')
  PROVE  /\ LinkInv'
         /\ Scheduled' = In(l)
         /\ se_list' \in Sched \cup {Nil}
         /\ sched' \in [Sched -> Entry]
         /\ fq' \in [Queue -> Seq(Sched)]
         /\ alarm' \in AlarmType
         /\ \A q \in Queue : \A i \in DOMAIN fq'[q] :
              /\ fq'[q][i] \in Scheduled'
              /\ sched'[fq'[q][i]].qi = q
              /\ \A j \in DOMAIN fq'[q] : fq'[q][i] = fq'[q][j] => i = j
<1>1. /\ se_list' = l.head /\ sched' = l.sched
      /\ fq' = l.fq /\ alarm' = l.alarm
  BY DEF Install
<1>2. Scheduled' = In(l)
  BY <1>1 DEF Scheduled, In
<1>3. LinkInv'
  BY <1>1, <1>2 DEF LinkInv, GoodList, HeadOf, LinkOf
<1>4. \A q \in Queue : \A i \in DOMAIN fq'[q] :
              /\ fq'[q][i] \in Scheduled'
              /\ sched'[fq'[q][i]].qi = q
              /\ \A j \in DOMAIN fq'[q] : fq'[q][i] = fq'[q][j] => i = j
  BY <1>1, <1>2 DEF GoodList, ArrayOf
<1>5. QED
  BY <1>1, <1>2, <1>3, <1>4 DEF GoodList, ListType

(* fq.Delete(fq.IndexOf(s)) leaves no s behind.                            *)
LEMMA WithoutProps ==
  ASSUME NEW S, NEW f \in Seq(S), NEW s,
         \A i, j \in DOMAIN f : f[i] = f[j] => i = j
  PROVE  /\ Without(f, s) \in Seq(S)
         /\ \A i, j \in DOMAIN Without(f, s) :
              Without(f, s)[i] = Without(f, s)[j] => i = j
         /\ \A i \in DOMAIN Without(f, s) :
              /\ Without(f, s)[i] # s
              /\ \E k \in DOMAIN f : f[k] = Without(f, s)[i]
<1>1. CASE \E i \in DOMAIN f : f[i] = s
  <2> DEFINE k == CHOOSE i \in DOMAIN f : f[i] = s
  <2>1. k \in DOMAIN f /\ f[k] = s
    BY <1>1
  <2>2. Without(f, s) = RemoveAt(f, k)
    BY <1>1 DEF Without
  <2> HIDE DEF k
  <2>3. LET r == RemoveAt(f, k) IN
         /\ r \in Seq(S)
         /\ \A i, j \in DOMAIN r : r[i] = r[j] => i = j
         /\ \A x : (\E i \in DOMAIN r : r[i] = x)
                      <=> x # f[k] /\ \E i \in DOMAIN f : f[i] = x
    BY <2>1, RemoveAtDistinct
  <2> DEFINE r == RemoveAt(f, k)
  <2>4. \A i \in DOMAIN r : r[i] # f[k] /\ \E j \in DOMAIN f : f[j] = r[i]
    BY <2>3
  <2>5. QED
    BY <2>1, <2>2, <2>3, <2>4
<1>2. CASE ~\E i \in DOMAIN f : f[i] = s
  BY <1>2 DEF Without
<1>3. QED
  BY <1>1, <1>2

(* Linked entries are used blocks.                                         *)
LEMMA InSigned ==
  ASSUME NEW l, NEW times, GoodList(l, times), NEW s \in In(l)
  PROVE  /\ s \in Sched /\ l.sched[s].sign
         /\ l.sched[s].ev \in Event /\ l.sched[s].qi \in Queue
         /\ l.sched[s].owner \in Handle
<1>1. l.sched[s].sign
  <2>1. CASE s = l.head
    BY <2>1, NilAssumption DEF GoodList, HeadOf, In
  <2>2. CASE l.sched[s].prev # Nil
    BY <2>2 DEF GoodList, LinkOf, In, Blank
  <2>3. QED
    BY <2>1, <2>2 DEF In
<1>2. QED
  BY <1>1 DEF GoodList, LinkOf, In

(* The links of a good list, spelled out for each entry y.                 *)
LEMMA LinkFacts ==
  ASSUME NEW l, NEW times, GoodList(l, times), NEW y \in Sched
  PROVE  /\ l.sched[y] \in Entry
         /\ l.sched[y].prev \in Sched \cup {Nil}
         /\ l.sched[y].next \in Sched \cup {Nil}
         /\ l.sched[y].sign =>
              /\ l.sched[y].ev \in Event /\ l.sched[y].qi \in Queue
              /\ l.sched[y].owner \in Handle
              /\ times[l.sched[y].ev] \in Nat
         /\ ~l.sched[y].sign => l.sched[y] = Blank
         /\ l.sched[y].next # Nil =>
              /\ l.sched[l.sched[y].next].sign
              /\ l.sched[l.sched[y].next].prev = y
              /\ times[l.sched[y].ev] =< times[l.sched[l.sched[y].next].ev]
              /\ y = l.head \/ l.sched[y].prev # Nil
              /\ l.sched[y].sign
         /\ l.sched[y].prev # Nil =>
              l.sched[l.sched[y].prev].sign /\ l.sched[l.sched[y].prev].next = y
         /\ y = l.head => l.sched[y].sign /\ l.sched[y].prev = Nil
<1>1. l.sched[y] \in Entry
  BY DEF GoodList, ListType
<1>2. LinkOf(l, times, y) /\ HeadOf(l) /\ times \in [Event -> Nat]
  BY DEF GoodList
<1>3. l.sched[y].prev \in Sched \cup {Nil} /\ l.sched[y].next \in Sched \cup {Nil}
  BY <1>1 DEF Entry
<1>4. ~l.sched[y].sign => l.sched[y].next = Nil
  BY <1>2 DEF LinkOf, Blank
<1>5. y = l.head => l.sched[y].sign /\ l.sched[y].prev = Nil
  BY <1>2, NilAssumption DEF HeadOf
<1>6. QED
  BY <1>1, <1>2, <1>3, <1>4, <1>5 DEF LinkOf, In

(* Cut(): exactly s leaves the list, the rest stays a good one.            *)
LEMMA CutProps ==
  ASSUME NEW l, NEW times, GoodList(l, times), NEW s \in In(l)
  PROVE  LET c == Cut(l, s, l.sched[s].qi) IN
         /\ GoodList(c, times)
         /\ In(c) = In(l) \ {s}
         /\ c.alarm = l.alarm
         /\ c.head = IF l.sched[s].prev = Nil THEN l.sched[s].next ELSE l.head
         /\ c.sched[s].prev = Nil /\ c.sched[s].next = Nil
         /\ \A y \in Sched : /\ c.sched[y].sign = l.sched[y].sign
                             /\ c.sched[y].ev = l.sched[y].ev
                             /\ c.sched[y].qi = l.sched[y].qi
                             /\ c.sched[y].owner = l.sched[y].owner
<1> DEFINE q == l.sched[s].qi
           x == l.sched[s]
           c == Cut(l, s, q)
<1>1. /\ s \in Sched /\ x.sign /\ x.ev \in Event /\ q \in Queue
      /\ x \in Entry /\ l \in ListType
      /\ x.prev \in Sched \cup {Nil} /\ x.next \in Sched \cup {Nil}
  BY InSigned DEF GoodList, ListType, Entry
<1>2. /\ c.head = IF x.prev = Nil THEN x.next ELSE l.head
      /\ c.fq = [l.fq EXCEPT ![q] = Without(l.fq[q], s)]
      /\ c.alarm = l.alarm
  BY DEF Cut
<1>3. ASSUME NEW y \in Sched
      PROVE
        /\ c.sched[y] \in Entry
        /\ c.sched[y].sign = l.sched[y].sign
        /\ c.sched[y].ev = l.sched[y].ev
        /\ c.sched[y].qi = l.sched[y].qi
        /\ c.sched[y].owner = l.sched[y].owner
        /\ y = s => c.sched[y].next = Nil /\ c.sched[y].prev = Nil
        /\ y # s => /\ c.sched[y].next = IF y = x.prev THEN x.next ELSE l.sched[y].next
                    /\ c.sched[y].prev = IF y = x.next THEN x.prev ELSE l.sched[y].prev
  <2>1. l.sched[y] \in Entry
    BY <1>1 DEF ListType
  <2>2. c.sched[y] = IF y = s THEN Between(x, Nil, Nil)
                     ELSE Between(l.sched[y], IF y = x.next THEN x.prev ELSE l.sched[y].prev,
                                              IF y = x.prev THEN x.next ELSE l.sched[y].next)
    BY DEF Cut
  <2> HIDE DEF c
  <2> HIDE DEF x
  <2>3. CASE y = s
    <3>1. c.sched[y] = Between(x, Nil, Nil) /\ l.sched[y] = x
      BY <2>2, <2>3 DEF x
    <3>2. /\ c.sched[y] \in Entry
          /\ c.sched[y].sign = x.sign
          /\ c.sched[y].ev = x.ev
          /\ c.sched[y].qi = x.qi
          /\ c.sched[y].owner = x.owner
          /\ c.sched[y].next = Nil
          /\ c.sched[y].prev = Nil
      BY <1>1, <3>1 DEF Between, Entry
    <3>3. QED
      BY <2>3, <3>1, <3>2
  <2>4. CASE y # s
    <3> DEFINE p == IF y = x.next THEN x.prev ELSE l.sched[y].prev
               n == IF y = x.prev THEN x.next ELSE l.sched[y].next
    <3>1. p \in Sched \cup {Nil} /\ n \in Sched \cup {Nil}
      BY <1>1, <2>1, LinkFacts
    <3>2. c.sched[y] = Between(l.sched[y], p, n)
      BY <2>2, <2>4
    <3> HIDE DEF p, n
    <3>3. /\ c.sched[y] \in Entry
          /\ c.sched[y].sign = l.sched[y].sign
          /\ c.sched[y].ev = l.sched[y].ev
          /\ c.sched[y].qi = l.sched[y].qi
          /\ c.sched[y].owner = l.sched[y].owner
          /\ c.sched[y].next = n
          /\ c.sched[y].prev = p
      BY <2>1, <3>1, <3>2 DEF Between, Entry
    <3>4. QED
      BY <2>4, <3>3 DEF p, n
  <2>5. QED
    BY <2>3, <2>4
<1>4. \A i, j \in DOMAIN l.fq[q] : l.fq[q][i] = l.fq[q][j] => i = j
  BY <1>1 DEF GoodList, ArrayOf
<1>5. LET w == Without(l.fq[q], s) IN
      /\ w \in Seq(Sched)
      /\ \A i, j \in DOMAIN w : w[i] = w[j] => i = j
      /\ \A i \in DOMAIN w : w[i] # s /\ \E k \in DOMAIN l.fq[q] : l.fq[q][k] = w[i]
  <2>1. l.fq[q] \in Seq(Sched)
    BY <1>1 DEF ListType
  <2>2. QED
    BY <1>4, <2>1, WithoutProps
<1>6. c \in ListType
  <2>1. c.fq \in [Queue -> Seq(Sched)]
    BY <1>1, <1>2, <1>5 DEF ListType
  <2>2. c.sched \in [Sched -> Entry]
    BY <1>3 DEF Cut
  <2>3. c.head \in Sched \cup {Nil} /\ c.alarm \in AlarmType
    BY <1>1, <1>2 DEF ListType
  <2>4. c = [head |-> c.head, sched |-> c.sched, fq |-> c.fq, alarm |-> c.alarm]
    BY DEF Cut
  <2> HIDE DEF c
  <2>5. QED
    BY <2>1, <2>2, <2>3, <2>4 DEF ListType
<1> HIDE DEF c, x
<1>7. x.prev = Nil <=> s = l.head
  BY <1>1, LinkFacts DEF In, x
<1>8. ASSUME NEW y \in Sched
      PROVE  (y = c.head \/ c.sched[y].prev # Nil)
               <=> y # s /\ (y = l.head \/ l.sched[y].prev # Nil)
  <2>1. CASE y = s
    BY <1>1, <1>2, <1>3, <1>7, <2>1, LinkFacts, NilAssumption DEF x
  <2>2. CASE y # s /\ y = x.next
    <3>1. c.sched[y].prev = x.prev
      BY <1>3, <2>2
    <3>2. l.sched[y].prev = s /\ s # Nil
      BY <1>1, <2>2, LinkFacts, NilAssumption DEF x
    <3>3. x.prev = Nil => y = c.head
      BY <1>2, <2>2
    <3>4. QED
      BY <2>2, <3>1, <3>2, <3>3
  <2>3. CASE y # s /\ y # x.next
    <3>1. c.sched[y].prev = IF y = x.next THEN x.prev ELSE l.sched[y].prev
      BY <1>3, <2>3
    <3>2. y = c.head <=> y = l.head
      BY <1>2, <1>7, <2>3
    <3>3. QED
      BY <2>3, <3>1, <3>2
  <2>4. QED
    BY <2>1, <2>2, <2>3
<1>9. In(c) = In(l) \ {s}
  BY <1>1, <1>8 DEF In
<1>10. HeadOf(c)
  <2>1. CASE x.prev = Nil
    BY <1>1, <1>2, <1>3, <2>1, LinkFacts DEF HeadOf, x
  <2>2. CASE x.prev # Nil
    <3>1. c.head = l.head /\ s # l.head /\ l.head \in Sched \cup {Nil}
      BY <1>1, <1>2, <1>7, <2>2 DEF ListType
    <3>2. l.head # Nil => l.head # x.next
      BY <1>1, <2>2, <3>1, LinkFacts, NilAssumption DEF x
    <3>3. l.head # Nil => l.sched[l.head].sign /\ l.sched[l.head].prev = Nil
      BY <3>1, LinkFacts
    <3>4. QED
      BY <1>3, <3>1, <3>2, <3>3 DEF HeadOf
  <2>3. QED
    BY <2>1, <2>2
<1>11. ASSUME NEW y \in Sched PROVE LinkOf(c, times, y)
  <2>1. l.sched[y] \in Entry /\ c.sched[y] \in Entry
    BY <1>3, LinkFacts
  <2>2. /\ c.sched[y].sign =>
             c.sched[y].ev \in Event /\ c.sched[y].qi \in Queue /\ c.sched[y].owner \in Handle
    BY <1>3, LinkFacts
  <2>3. ~c.sched[y].sign => c.sched[y] = Blank
    <3> SUFFICES ASSUME ~c.sched[y].sign PROVE c.sched[y] = Blank
      OBVIOUS
    <3>1. l.sched[y] = Blank /\ y # s
      BY <1>1, <1>3, LinkFacts DEF x
    <3>2. y # x.next /\ y # x.prev
      <4>1. ~l.sched[y].sign /\ y # Nil
        BY <1>3, NilAssumption
      <4>2. /\ x.next # Nil => l.sched[x.next].sign
            /\ x.prev # Nil => l.sched[x.prev].sign
        BY <1>1, LinkFacts DEF x
      <4>3. QED
        BY <4>1, <4>2
    <3>3. c.sched[y].prev = Nil /\ c.sched[y].next = Nil
      BY <1>3, <3>1, <3>2 DEF Blank
    <3>4. /\ c.sched[y].sign = Blank.sign /\ c.sched[y].ev = Blank.ev
          /\ c.sched[y].qi = Blank.qi /\ c.sched[y].owner = Blank.owner
      BY <1>3, <3>1
    <3>5. QED
      BY <2>1, <3>3, <3>4 DEF Entry, Blank
  <2>4. ASSUME c.sched[y].next # Nil
        PROVE  /\ c.sched[c.sched[y].next].sign
               /\ c.sched[c.sched[y].next].prev = y
               /\ times[c.sched[y].ev] =< times[c.sched[c.sched[y].next].ev]
               /\ y \in In(c)
    <3> DEFINE n == c.sched[y].next
    <3>1. y # s /\ n = IF y = x.prev THEN x.next ELSE l.sched[y].next
      BY <1>3, <2>4
    <3>2. CASE y = x.prev
      <4>1. n = x.next /\ n \in Sched
        BY <1>1, <2>4, <3>1, <3>2
      <4>2. /\ l.sched[y].next = s /\ l.sched[n].prev = s
            /\ times[l.sched[y].ev] =< times[l.sched[s].ev]
            /\ times[l.sched[s].ev] =< times[l.sched[n].ev]
            /\ l.sched[y].sign /\ l.sched[n].sign
            /\ y = l.head \/ l.sched[y].prev # Nil
        BY SMTT(20), <1>1, <3>1, <3>2, <4>1, <2>4, LinkFacts, NilAssumption DEF x
      <4>3. n # s
        BY <1>1, <3>2, <4>2, <3>1, <1>7, LinkFacts DEF x
      <4>4. times[l.sched[y].ev] =< times[l.sched[n].ev]
        <5>1. times[l.sched[y].ev] \in Nat
          BY <4>2, LinkFacts
        <5>2. times[l.sched[s].ev] \in Nat
          BY <1>1, LinkFacts DEF x
        <5>3. times[l.sched[n].ev] \in Nat
          BY <4>1, <4>2, LinkFacts
        <5> HIDE DEF n
        <5>4. QED
          BY <4>2, <5>1, <5>2, <5>3
      <4>5. QED
        BY <1>3, <1>8, <1>9, <3>1, <3>2, <4>1, <4>2, <4>3, <4>4 DEF In
    <3>3. CASE y # x.prev
      <4>1. n = l.sched[y].next /\ n \in Sched
        BY <2>4, <3>1, <3>3, LinkFacts
      <4>2. /\ l.sched[n].sign /\ l.sched[n].prev = y
            /\ times[l.sched[y].ev] =< times[l.sched[n].ev]
            /\ y = l.head \/ l.sched[y].prev # Nil
        BY <2>4, <4>1, LinkFacts
      <4>3. n # s /\ n # x.next
        BY SMTT(20), <1>1, <3>1, <3>3, <4>1, <4>2, <2>4, LinkFacts DEF x
      <4>4. QED
        BY <1>3, <1>8, <1>9, <3>1, <4>1, <4>2, <4>3 DEF In
    <3>4. QED
      BY <3>2, <3>3
  <2>5. ASSUME c.sched[y].prev # Nil
        PROVE  c.sched[c.sched[y].prev].sign /\ c.sched[c.sched[y].prev].next = y
    <3> DEFINE p == c.sched[y].prev
    <3>1. y # s /\ p = IF y = x.next THEN x.prev ELSE l.sched[y].prev
      BY <1>3, <2>5
    <3>2. CASE y = x.next
      BY SMTT(20), <1>1, <1>3, <2>5, <3>1, <3>2, LinkFacts DEF x
    <3>3. CASE y # x.next
      BY <1>1, <1>3, <2>5, <3>1, <3>3, LinkFacts DEF x
    <3>4. QED
      BY <3>2, <3>3
  <2>6. QED
    BY <2>2, <2>3, <2>4, <2>5 DEF LinkOf
<1>12. ASSUME NEW r \in Queue PROVE ArrayOf(c, r)
  <2>1. CASE r = q
    <3> DEFINE w == Without(l.fq[q], s)
    <3>1. c.fq[r] = w
      BY <1>1, <1>2, <2>1 DEF ListType
    <3>2. \A i \in DOMAIN w : w[i] \in In(l) /\ w[i] # s /\ l.sched[w[i]].qi = q
      BY SMTT(20), <1>1, <1>5 DEF GoodList, ArrayOf
    <3> HIDE DEF w, q
    <3>3. QED
      BY <1>3, <1>5, <1>9, <2>1, <3>1, <3>2 DEF ArrayOf, In, w
  <2>2. CASE r # q
    <3>1. c.fq[r] = l.fq[r] /\ ArrayOf(l, r)
      BY <1>1, <1>2, <2>2 DEF ListType, GoodList
    <3>2. \A i \in DOMAIN l.fq[r] : l.fq[r][i] # s
      BY <2>2, <3>1 DEF ArrayOf
    <3>3. QED
      BY <1>3, <1>9, <3>1, <3>2 DEF ArrayOf, In
  <2>3. QED
    BY <2>1, <2>2
<1>13. GoodList(c, times)
  BY <1>6, <1>10, <1>11, <1>12 DEF GoodList
<1>14. QED
  <2>1. c.head = IF x.prev = Nil THEN x.next ELSE l.head
    BY <1>2
  <2>2. c.alarm = l.alarm /\ c.sched[s].prev = Nil /\ c.sched[s].next = Nil
    BY <1>1, <1>2, <1>3
  <2>3. \A y \in Sched : /\ c.sched[y].sign = l.sched[y].sign
                         /\ c.sched[y].ev = l.sched[y].ev
                         /\ c.sched[y].qi = l.sched[y].qi
                         /\ c.sched[y].owner = l.sched[y].owner
    BY <1>3
  <2>4. QED
    BY <1>9, <1>13, <2>1, <2>2, <2>3 DEF c, x

(* free() of a block that is not in the list.                              *)
LEMMA FreedProps ==
  ASSUME NEW l, NEW times, GoodList(l, times), NEW s \in Sched, s \notin In(l)
  PROVE  LET f == Freed(l, s) IN
         /\ GoodList(f, times)
         /\ In(f) = In(l)
         /\ f.head = l.head /\ f.alarm = l.alarm /\ f.fq = l.fq
         /\ f.sched = [l.sched EXCEPT ![s] = Blank]
<1> DEFINE f == Freed(l, s)
<1>1. /\ f.head = l.head /\ f.alarm = l.alarm /\ f.fq = l.fq
      /\ f.sched = [l.sched EXCEPT ![s] = Blank]
      /\ f = [head |-> f.head, sched |-> f.sched, fq |-> f.fq, alarm |-> f.alarm]
  BY DEF Freed
<1> HIDE DEF f
<1>2. Blank \in Entry /\ ~Blank.sign /\ Blank.prev = Nil /\ Blank.next = Nil
  BY DEF Blank, Entry
<1>3. l \in ListType
  BY DEF GoodList
<1>4. f.sched \in [Sched -> Entry] /\ f \in ListType
  BY <1>1, <1>2, <1>3 DEF ListType
<1>5. \A y \in Sched : f.sched[y] = IF y = s THEN Blank ELSE l.sched[y]
  BY <1>1, <1>3 DEF ListType
<1>6. s # l.head /\ l.sched[s].prev = Nil /\ l.sched[s].next = Nil
  <2>1. s # l.head /\ l.sched[s].prev = Nil
    BY DEF In
  <2>2. QED
    BY <2>1, LinkFacts
<1>7. In(f) = In(l)
  BY <1>1, <1>2, <1>5, <1>6 DEF In
<1>8. HeadOf(f)
  <2> SUFFICES ASSUME l.head # Nil PROVE f.sched[l.head].sign /\ f.sched[l.head].prev = Nil
    BY <1>1 DEF HeadOf
  <2>1. l.head \in Sched
    BY <1>3 DEF ListType
  <2>2. QED
    BY <1>5, <1>6, <2>1, LinkFacts
<1>9. ASSUME NEW y \in Sched PROVE LinkOf(f, times, y)
  <2>1. CASE y = s
    <3>1. f.sched[y] = Blank
      BY <1>5, <2>1
    <3>2. QED
      BY <1>2, <3>1 DEF LinkOf
  <2>2. CASE y # s
    <3>1. f.sched[y] = l.sched[y] /\ LinkOf(l, times, y)
      BY <1>5, <2>2 DEF GoodList
    <3>2. ASSUME l.sched[y].next # Nil
          PROVE  /\ l.sched[y].next # s
                 /\ f.sched[l.sched[y].next] = l.sched[l.sched[y].next]
      <4>1. l.sched[y].next \in Sched /\ l.sched[l.sched[y].next].prev = y /\ y # Nil
        BY <3>2, LinkFacts, NilAssumption
      <4>2. l.sched[y].next # s
        BY <1>6, <4>1
      <4>3. QED
        BY <1>5, <4>1, <4>2
    <3>3. ASSUME l.sched[y].prev # Nil
          PROVE  /\ l.sched[y].prev # s
                 /\ f.sched[l.sched[y].prev] = l.sched[l.sched[y].prev]
      <4>1. l.sched[y].prev \in Sched /\ l.sched[l.sched[y].prev].next = y /\ y # Nil
        BY <3>3, LinkFacts, NilAssumption
      <4>2. l.sched[y].prev # s
        BY <1>6, <4>1
      <4>3. QED
        BY <1>5, <4>1, <4>2
    <3>4. QED
      BY <1>7, <3>1, <3>2, <3>3 DEF LinkOf
  <2>3. QED
    BY <2>1, <2>2
<1>10. ASSUME NEW q \in Queue PROVE ArrayOf(f, q)
  <2>1. ArrayOf(l, q) /\ f.fq[q] = l.fq[q]
    BY <1>1 DEF GoodList
  <2>2. \A i \in DOMAIN l.fq[q] : l.fq[q][i] \in Sched /\ l.fq[q][i] # s
    BY <2>1 DEF ArrayOf, In
  <2>3. QED
    BY <1>5, <1>7, <2>1, <2>2 DEF ArrayOf
<1>11. GoodList(f, times)
  BY <1>4, <1>8, <1>9, <1>10 DEF GoodList
<1>12. QED
  BY <1>1, <1>7, <1>11 DEF f

LEMMA RoundNat == ASSUME NEW d \in Nat PROVE Round(d) \in Nat
<1>1. Res \in Nat \ {0}
  BY TimeAssumption
<1>2. Res \div 2 \in Nat
  BY <1>1
<1> DEFINE n == d + Res \div 2
<1>3. n \in Nat
  BY <1>2
<1> HIDE DEF n
<1>4. n \div Res \in Nat
  BY <1>1, <1>3
<1> DEFINE m == n \div Res
<1> HIDE DEF m
<1>5. m \in Nat => m * Res \in Nat
  BY <1>1
<1>6. QED
  BY <1>4, <1>5 DEF n, m, Round

(* Another alarm does not change the list.                                 *)
LEMMA TimedProps ==
  ASSUME NEW l, NEW times, GoodList(l, times), NEW a \in AlarmType
  PROVE  LET f == Timed(l, a) IN
         /\ GoodList(f, times) /\ In(f) = In(l)
         /\ f.head = l.head /\ f.sched = l.sched /\ f.fq = l.fq /\ f.alarm = a
<1>1. Timed(l, a) \in ListType
  BY DEF Timed, ListType, GoodList
<1>2. In(Timed(l, a)) = In(l) /\ HeadOf(Timed(l, a))
  BY DEF Timed, In, HeadOf, GoodList
<1>3. ASSUME NEW y \in Sched PROVE LinkOf(Timed(l, a), times, y)
  <2>1. LinkOf(l, times, y)
    BY DEF GoodList
  <2>2. QED
    BY <1>2, <2>1 DEF LinkOf, Timed
<1>4. ASSUME NEW q \in Queue PROVE ArrayOf(Timed(l, a), q)
  <2>1. ArrayOf(l, q)
    BY DEF GoodList
  <2>2. QED
    BY <1>2, <2>1 DEF ArrayOf, Timed
<1>5. QED
  BY <1>1, <1>2, <1>3, <1>4 DEF GoodList, Timed

(* callat() arms for the first entry, or disarms.                          *)
LEMMA ArmedProps ==
  ASSUME NEW l, NEW times, GoodList(l, times), now \in Nat
  PROVE  LET f == Armed(l, times) IN
         /\ GoodList(f, times) /\ In(f) = In(l)
         /\ f.head = l.head /\ f.sched = l.sched /\ f.fq = l.fq
         /\ f.alarm.cbf <=> f.head # Nil
         /\ f.alarm.cbf => f.alarm.usr = f.head
<1> DEFINE at == times[l.sched[l.head].ev]
           a == IF l.head = Nil THEN NoAlarm
                ELSE [cbf |-> TRUE, start |-> now, usr |-> l.head,
                      diff |-> IF at < now THEN 0 ELSE Round(at - now)]
<1>1. l.head \in Sched \cup {Nil}
  BY DEF GoodList, ListType
<1>2. /\ a \in AlarmType
      /\ a.cbf <=> l.head # Nil
      /\ a.cbf => a.usr = l.head
  <2>1. CASE l.head = Nil
    BY <2>1 DEF AlarmType, NoAlarm
  <2>2. CASE l.head # Nil
    <3>1. at \in Nat
      BY <1>1, <2>2, LinkFacts
    <3> DEFINE d == IF at < now THEN 0 ELSE Round(at - now)
    <3> HIDE DEF at
    <3>2. ~(at < now) => at - now \in Nat
      BY <3>1
    <3>3. d \in Nat
      BY <3>2, RoundNat
    <3> HIDE DEF d
    <3>4. a = [cbf |-> TRUE, start |-> now, usr |-> l.head, diff |-> d]
      BY <2>2 DEF d, at
    <3> HIDE DEF a
    <3>5. QED
      BY <1>1, <2>2, <3>3, <3>4 DEF AlarmType
  <2>3. QED
    BY <2>1, <2>2
<1>3. Armed(l, times) = Timed(l, a)
  BY DEF Armed
<1> HIDE DEF a
<1>4. QED
  BY <1>2, <1>3, TimedProps

(* The loop of eid_add() passes linked entries with earlier times only.    *)
LEMMA PassedProps ==
  ASSUME NEW l, NEW times, GoodList(l, times), NEW at, NEW s \in Passed(l, times, at)
  PROVE  s \in In(l) /\ times[l.sched[s].ev] < at
<1> DEFINE early(x) == x # Nil /\ times[l.sched[x].ev] < at
           S == {x \in In(l) : early(x)}
<1>1. S \in SUBSET Sched
  BY DEF In
<1>2. early(l.head) => l.head \in S
  BY DEF In, GoodList, ListType
<1>3. ASSUME NEW x \in S, early(l.sched[x].next)
      PROVE  l.sched[x].next \in S
  <2>1. x \in Sched /\ x # Nil
    BY NilAssumption DEF In
  <2>2. l.sched[x].next \in Sched /\ l.sched[l.sched[x].next].prev = x
    BY <1>3, <2>1, LinkFacts
  <2>3. QED
    BY <1>3, <2>1, <2>2 DEF In
<1>4. s \in S
  BY <1>1, <1>2, <1>3 DEF Passed
<1>5. QED
  BY <1>4

(* eid_add(): the new entry is in the list and the list is good.           *)
LEMMA LinkedProps ==
  ASSUME NEW l, NEW times, GoodList(l, times),
         NEW s \in Sched, ~l.sched[s].sign,
         NEW h \in Handle, NEW e \in Event, NEW q \in Queue,
         NEW epp \in Sched \cup {Nil}, StopsAfter(l, times, times[e], epp)
  PROVE  LET f == Linked(l, s, NewEntry(h, e, q), epp) IN
         /\ GoodList(f, times)
         /\ In(f) = In(l) \cup {s}
         /\ f.alarm = l.alarm
         /\ f.sched[s].ev = e /\ f.sched[s].owner = h /\ f.sched[s].qi = q
         /\ \A y \in Sched : y # s => /\ f.sched[y].sign = l.sched[y].sign
                                      /\ f.sched[y].ev = l.sched[y].ev
                                      /\ f.sched[y].qi = l.sched[y].qi
                                      /\ f.sched[y].owner = l.sched[y].owner
<1> DEFINE new == NewEntry(h, e, q)
           elp == After(l, epp)
           f == Linked(l, s, new, epp)
<1>1. /\ new \in Entry /\ new.sign /\ new.ev = e /\ new.qi = q /\ new.owner = h
  BY DEF NewEntry, Entry
<1>2. l \in ListType /\ times \in [Event -> Nat] /\ l.head \in Sched \cup {Nil}
  BY DEF GoodList, ListType
<1>3. epp # Nil => /\ epp \in Sched /\ epp \in In(l) /\ l.sched[epp].sign
                   /\ times[l.sched[epp].ev] < times[e]
  BY PassedProps, InSigned DEF StopsAfter
<1>4. elp # Nil => /\ elp \in Sched /\ l.sched[elp].sign
                   /\ times[l.sched[elp].ev] >= times[e]
                   /\ l.sched[elp].prev = epp
  <2>1. CASE epp = Nil
    <3>1. elp = l.head
      BY <2>1 DEF After
    <3>2. elp # Nil => elp \in Sched /\ l.sched[elp].sign /\ l.sched[elp].prev = Nil
      BY <1>2, <3>1, LinkFacts
    <3>3. QED
      BY <2>1, <3>2 DEF StopsAfter
  <2>2. CASE epp # Nil
    <3>1. elp = l.sched[epp].next
      BY <2>2 DEF After
    <3>2. elp # Nil => elp \in Sched /\ l.sched[elp].sign /\ l.sched[elp].prev = epp
      BY <1>3, <2>2, <3>1, LinkFacts
    <3>3. QED
      BY <3>2 DEF StopsAfter
  <2>3. QED
    BY <2>1, <2>2
<1>5. s # Nil /\ s # epp /\ s # elp
  BY <1>3, <1>4, NilAssumption
<1>6. epp # Nil => epp # elp
  <2>1. ASSUME epp # Nil, epp = elp PROVE FALSE
    <3>1. times[l.sched[epp].ev] \in Nat
      BY <1>3, <2>1, LinkFacts
    <3>2. times[e] \in Nat
      BY <1>2
    <3>3. times[l.sched[epp].ev] < times[e] /\ times[l.sched[epp].ev] >= times[e]
      BY <1>3, <1>4, <2>1
    <3>4. QED
      BY <3>1, <3>2, <3>3
  <2>2. QED
    BY <2>1
<1>7. /\ f.head = IF epp = Nil THEN s ELSE l.head
      /\ f.fq = [l.fq EXCEPT ![q] = Append(l.fq[q], s)]
      /\ f.alarm = l.alarm
      /\ f = [head |-> f.head, sched |-> f.sched, fq |-> f.fq, alarm |-> f.alarm]
  BY <1>1 DEF Linked
<1>8. l.sched[s] = Blank /\ s # l.head /\ l.sched[s].prev = Nil /\ l.sched[s].next = Nil
  <2>1. l.sched[s] = Blank /\ s # l.head
    BY LinkFacts
  <2>2. QED
    BY <2>1 DEF Blank
<1>9. ASSUME NEW y \in Sched
      PROVE
        /\ f.sched[y] \in Entry
        /\ y = s => /\ f.sched[y].sign
                    /\ f.sched[y].ev = e /\ f.sched[y].qi = q /\ f.sched[y].owner = h
                    /\ f.sched[y].next = elp /\ f.sched[y].prev = epp
        /\ y # s => /\ f.sched[y].sign = l.sched[y].sign
                    /\ f.sched[y].ev = l.sched[y].ev
                    /\ f.sched[y].qi = l.sched[y].qi
                    /\ f.sched[y].owner = l.sched[y].owner
                    /\ f.sched[y].next = IF y = epp THEN s ELSE l.sched[y].next
                    /\ f.sched[y].prev = IF y = elp THEN s ELSE l.sched[y].prev
  <2>1. l.sched[y] \in Entry
    BY <1>2 DEF ListType
  <2>2. f.sched[y] = IF y = s THEN Between(new, epp, elp)
                     ELSE Between(l.sched[y], IF y = elp THEN s ELSE l.sched[y].prev,
                                              IF y = epp THEN s ELSE l.sched[y].next)
    BY DEF Linked
  <2>3. elp \in Sched \cup {Nil}
    BY <1>4
  <2> HIDE DEF f, new, elp
  <2>4. CASE y = s
    <3>1. f.sched[y] = Between(new, epp, elp)
      BY <2>2, <2>4
    <3>2. QED
      BY <1>1, <2>3, <2>4, <3>1 DEF Between, Entry
  <2>5. CASE y # s
    <3> DEFINE p == IF y = elp THEN s ELSE l.sched[y].prev
               n == IF y = epp THEN s ELSE l.sched[y].next
    <3>1. p \in Sched \cup {Nil} /\ n \in Sched \cup {Nil}
      BY LinkFacts
    <3>2. f.sched[y] = Between(l.sched[y], p, n)
      BY <2>2, <2>5
    <3> HIDE DEF p, n
    <3>3. /\ f.sched[y] \in Entry
          /\ f.sched[y].sign = l.sched[y].sign
          /\ f.sched[y].ev = l.sched[y].ev
          /\ f.sched[y].qi = l.sched[y].qi
          /\ f.sched[y].owner = l.sched[y].owner
          /\ f.sched[y].next = n
          /\ f.sched[y].prev = p
      BY <2>1, <3>1, <3>2 DEF Between, Entry
    <3>4. QED
      BY <2>5, <3>3 DEF p, n
  <2>6. QED
    BY <2>4, <2>5
<1>10. f \in ListType
  <2>1. Append(l.fq[q], s) \in Seq(Sched) /\ f.fq \in [Queue -> Seq(Sched)]
    BY <1>2, <1>7 DEF ListType
  <2>2. f.sched \in [Sched -> Entry]
    BY <1>9 DEF Linked
  <2>3. f.head \in Sched \cup {Nil} /\ f.alarm \in AlarmType
    BY <1>2, <1>7 DEF ListType
  <2> HIDE DEF f
  <2>4. QED
    BY <1>7, <2>1, <2>2, <2>3 DEF ListType
<1> HIDE DEF f, new, elp
<1>11. ASSUME NEW y \in Sched
       PROVE  (y = f.head \/ f.sched[y].prev # Nil)
                <=> y = s \/ y = l.head \/ l.sched[y].prev # Nil
  <2>1. CASE y = s
    BY <1>7, <1>9, <2>1
  <2>2. CASE y # s /\ y = elp
    <3>1. f.sched[y].prev = s
      BY <1>9, <2>2
    <3>2. epp = Nil => elp = l.head
      BY DEF After, elp
    <3>3. l.sched[y].prev = epp
      BY <1>4, <2>2, NilAssumption
    <3>4. QED
      BY <1>5, <2>2, <3>1, <3>2, <3>3
  <2>3. CASE y # s /\ y # elp
    <3>1. f.sched[y].prev = l.sched[y].prev
      BY <1>9, <2>3
    <3>2. epp = Nil => y # l.head
      BY <2>3 DEF After, elp
    <3>3. QED
      BY <1>7, <2>3, <3>1, <3>2
  <2>4. QED
    BY <2>1, <2>2, <2>3
<1>12. In(f) = In(l) \cup {s}
  BY <1>11 DEF In
<1>13. HeadOf(f)
  <2>1. CASE epp = Nil
    <3>1. f.head = s /\ f.sched[s].sign /\ f.sched[s].prev = Nil
      BY <1>7, <1>9, <2>1
    <3>2. QED
      BY <3>1 DEF HeadOf
  <2>2. CASE epp # Nil
    <3>1. f.head = l.head
      BY <1>7, <2>2
    <3>2. ASSUME l.head # Nil
          PROVE  l.head \in Sched /\ l.head # s /\ l.head # elp
      <4>1. l.head \in Sched /\ l.sched[l.head].prev = Nil
        BY <1>2, <3>2, LinkFacts
      <4>2. QED
        BY <1>4, <1>8, <2>2, <3>2, <4>1
    <3>3. ASSUME l.head # Nil
          PROVE f.sched[l.head].sign /\ f.sched[l.head].prev = Nil
      BY <1>9, <3>2, <3>3, LinkFacts
    <3>4. QED
      BY <3>1, <3>3 DEF HeadOf
  <2>3. QED
    BY <2>1, <2>2
<1>14. ASSUME NEW y \in Sched PROVE LinkOf(f, times, y)
  <2>1. /\ f.sched[y].sign => /\ f.sched[y].ev \in Event /\ f.sched[y].qi \in Queue
                              /\ f.sched[y].owner \in Handle
    <3>1. CASE y = s
      BY <1>9, <3>1
    <3>2. CASE y # s
      BY <1>9, <3>2, LinkFacts
    <3>3. QED
      BY <3>1, <3>2
  <2>2. ASSUME ~f.sched[y].sign PROVE f.sched[y] = Blank
    <3>1. y # s /\ ~l.sched[y].sign /\ l.sched[y] = Blank
      BY <1>9, <2>2, LinkFacts
    <3>2. y # epp /\ y # elp
      BY <1>3, <1>4, <3>1, NilAssumption
    <3>3. /\ f.sched[y] \in Entry
          /\ f.sched[y].sign = Blank.sign /\ f.sched[y].ev = Blank.ev
          /\ f.sched[y].qi = Blank.qi /\ f.sched[y].owner = Blank.owner
          /\ f.sched[y].next = Blank.next /\ f.sched[y].prev = Blank.prev
      BY <1>9, <3>1, <3>2
    <3>4. QED
      BY <3>3 DEF Entry, Blank
  <2>3. ASSUME f.sched[y].next # Nil
        PROVE  /\ f.sched[f.sched[y].next].sign
               /\ f.sched[f.sched[y].next].prev = y
               /\ times[f.sched[y].ev] =< times[f.sched[f.sched[y].next].ev]
               /\ y \in In(f)
    <3>0. times[e] \in Nat
      BY <1>2
    <3>1. CASE y = s
      <4>1. f.sched[y].next = elp /\ elp \in Sched /\ elp # s
        BY <1>4, <1>5, <1>9, <2>3, <3>1
      <4>2. /\ f.sched[elp].sign /\ f.sched[elp].prev = s
            /\ f.sched[elp].ev = l.sched[elp].ev
            /\ times[l.sched[elp].ev] >= times[e]
        BY <1>4, <1>9, <2>3, <4>1
      <4>3. times[l.sched[elp].ev] \in Nat
        BY <1>4, <2>3, <4>1, LinkFacts
      <4>4. f.sched[y].ev = e
        BY <1>9, <3>1
      <4>5. QED
        BY <1>12, <3>0, <3>1, <4>1, <4>2, <4>3, <4>4
    <3>2. CASE y = epp
      <4>1. f.sched[y].next = s /\ f.sched[y].ev = l.sched[epp].ev
        BY <1>5, <1>9, <3>2
      <4>2. f.sched[s].sign /\ f.sched[s].prev = y /\ f.sched[s].ev = e
        BY <1>9, <3>2
      <4>3. y # Nil /\ times[l.sched[epp].ev] \in Nat
        BY <1>3, <3>2, LinkFacts, NilAssumption
      <4>4. times[l.sched[epp].ev] =< times[e] /\ y \in In(l)
        BY <1>3, <3>0, <3>2, <4>3
      <4>5. QED
        BY <1>12, <4>1, <4>2, <4>4
    <3>3. CASE y # s /\ y # epp
      <4> DEFINE n == l.sched[y].next
      <4>1. f.sched[y].next = n /\ n # Nil /\ f.sched[y].ev = l.sched[y].ev
        BY <1>9, <2>3, <3>3
      <4>2. /\ n \in Sched /\ l.sched[n].sign /\ l.sched[n].prev = y
            /\ times[l.sched[y].ev] =< times[l.sched[n].ev]
            /\ y = l.head \/ l.sched[y].prev # Nil
        BY <4>1, LinkFacts
      <4>3. n # s /\ n # elp
        BY <1>4, <1>8, <3>3, <4>1, <4>2, NilAssumption
      <4>4. f.sched[n].sign /\ f.sched[n].prev = y /\ f.sched[n].ev = l.sched[n].ev
        BY <1>9, <4>2, <4>3
      <4>5. QED
        BY <1>11, <4>1, <4>2, <4>4 DEF In
    <3>4. QED
      BY <3>1, <3>2, <3>3
  <2>4. ASSUME f.sched[y].prev # Nil
        PROVE  f.sched[f.sched[y].prev].sign /\ f.sched[f.sched[y].prev].next = y
    <3>1. CASE y = s
      <4>1. f.sched[y].prev = epp /\ epp \in Sched /\ epp # s
        BY <1>5, <1>9, <2>4, <3>1
      <4>2. QED
        BY <1>3, <1>9, <2>4, <3>1, <4>1
    <3>2. CASE y = elp
      <4>1. f.sched[y].prev = s
        BY <1>5, <1>9, <3>2
      <4>2. QED
        BY <1>9, <3>2, <4>1
    <3>3. CASE y # s /\ y # elp
      <4> DEFINE p == l.sched[y].prev
      <4>1. f.sched[y].prev = p /\ p # Nil
        BY <1>9, <2>4, <3>3
      <4>2. p \in Sched /\ l.sched[p].sign /\ l.sched[p].next = y
        BY <4>1, LinkFacts
      <4>3. p # s
        BY <1>8, <4>2, NilAssumption
      <4>4. p # epp
        BY <3>3, <4>1, <4>2 DEF After, elp
      <4>5. QED
        BY <1>9, <4>1, <4>2, <4>3, <4>4
    <3>4. QED
      BY <3>1, <3>2, <3>3
  <2>5. QED
    BY <2>1, <2>2, <2>3, <2>4 DEF LinkOf
<1>15. ASSUME NEW r \in Queue PROVE ArrayOf(f, r)
  <2>1. ArrayOf(l, r) /\ l.fq[r] \in Seq(Sched)
    BY <1>2 DEF GoodList, ListType
  <2>2. \A i \in DOMAIN l.fq[r] :
          /\ l.fq[r][i] \in Sched /\ l.fq[r][i] # s /\ l.fq[r][i] \in In(f)
          /\ f.sched[l.fq[r][i]].qi = r
    BY <1>8, <1>9, <1>12, <2>1 DEF ArrayOf, In
  <2>3. CASE r # q
    <3>1. f.fq[r] = l.fq[r]
      BY <1>2, <1>7, <2>3 DEF ListType
    <3>2. QED
      BY <2>1, <2>2, <3>1 DEF ArrayOf
  <2>4. CASE r = q
    <3> DEFINE a == l.fq[r]
    <3>1. f.fq[r] = Append(a, s)
      BY <1>2, <1>7, <2>4 DEF ListType
    <3>2. s \in In(f) /\ f.sched[s].qi = r
      BY <1>9, <1>12, <2>4
    <3>3. a \in Seq(Sched) /\ Len(a) \in Nat /\ DOMAIN a = 1..Len(a)
      BY <2>1
    <3> HIDE DEF a
    <3>4. \A i \in DOMAIN Append(a, s) :
            \/ i \in DOMAIN a /\ Append(a, s)[i] = a[i]
            \/ i = Len(a) + 1 /\ Append(a, s)[i] = s
      BY <3>3
    <3>5. ASSUME NEW i \in DOMAIN Append(a, s), NEW j \in DOMAIN Append(a, s),
                 Append(a, s)[i] = Append(a, s)[j]
          PROVE  i = j
      BY <2>1, <2>2, <3>4, <3>5 DEF ArrayOf, a
    <3>6. ASSUME NEW i \in DOMAIN Append(a, s)
          PROVE  Append(a, s)[i] \in In(f) /\ f.sched[Append(a, s)[i]].qi = r
      BY <2>2, <3>2, <3>4 DEF a
    <3>7. QED
      BY <3>1, <3>5, <3>6 DEF ArrayOf
  <2>5. QED
    BY <2>3, <2>4
<1>16. GoodList(f, times)
  BY <1>2, <1>10, <1>13, <1>14, <1>15 DEF GoodList
<1>17. QED
  <2>1. f.alarm = l.alarm /\ f.sched[s].ev = e /\ f.sched[s].owner = h /\ f.sched[s].qi = q
    BY <1>7, <1>9
  <2>2. \A y \in Sched : y # s => /\ f.sched[y].sign = l.sched[y].sign
                                  /\ f.sched[y].ev = l.sched[y].ev
                                  /\ f.sched[y].qi = l.sched[y].qi
                                  /\ f.sched[y].owner = l.sched[y].owner
    BY <1>9
  <2>3. QED
    BY <1>12, <1>16, <2>1, <2>2 DEF f, new

(* The times of other events do not matter.                                *)
LEMMA TimesProps ==
  ASSUME NEW l, NEW times, GoodList(l, times), NEW new \in [Event -> Nat],
         \A s \in In(l) : new[l.sched[s].ev] = times[l.sched[s].ev]
  PROVE  GoodList(l, new)
<1>1. ASSUME NEW y \in Sched PROVE LinkOf(l, new, y)
  <2>1. LinkOf(l, times, y)
    BY DEF GoodList
  <2>2. ASSUME l.sched[y].next # Nil
        PROVE  new[l.sched[y].ev] =< new[l.sched[l.sched[y].next].ev]
    <3> DEFINE n == l.sched[y].next
    <3>1. /\ n \in Sched /\ l.sched[n].prev = y /\ y # Nil
          /\ y = l.head \/ l.sched[y].prev # Nil
          /\ times[l.sched[y].ev] =< times[l.sched[n].ev]
      BY <2>2, LinkFacts, NilAssumption
    <3>2. y \in In(l) /\ n \in In(l)
      BY <3>1 DEF In
    <3>3. QED
      BY <3>1, <3>2
  <2>3. QED
    BY <2>1, <2>2 DEF LinkOf
<1>2. QED
  BY <1>1 DEF GoodList

(***************************************************************************)
(* Schedules that a step may install in a state of QInv: a good list of    *)
(* entries that were there, with the alarm that belongs to it.             *)
(***************************************************************************)
AlarmOf(l) == /\ l.alarm.cbf <=> l.head # Nil
              /\ l.alarm.cbf => l.alarm.usr = l.head

Part(l) ==
  /\ GoodList(l, evtime)
  /\ In(l) \subseteq Scheduled
  /\ \A y \in Sched : l.sched[y].sign =>
       /\ sched[y].sign
       /\ l.sched[y].ev = sched[y].ev
       /\ l.sched[y].qi = sched[y].qi
       /\ l.sched[y].owner = sched[y].owner

LEMMA PartPresent ==
  ASSUME QInv
  PROVE  Part(Schedules) /\ (et = NoTime => AlarmOf(Schedules))
<1>1. GoodList(Schedules, evtime) /\ In(Schedules) = Scheduled
  BY PresentList
<1>2. et = NoTime => AlarmOf(Schedules)
  BY DEF QInv, AlarmFollowsList, AlarmOf, Schedules
<1>3. QED
  BY <1>1, <1>2 DEF Part, Schedules

LEMMA NowNat == QInv => now \in Nat
  BY TimeAssumption DEF QInv, TypeOK

LEMMA PartCut ==
  ASSUME QInv, NEW s \in Scheduled
  PROVE  LET c == Cut(Schedules, s, sched[s].qi) IN
         /\ Part(c) /\ In(c) = Scheduled \ {s}
         /\ c.head = IF sched[s].prev = Nil THEN sched[s].next ELSE se_list
<1>1. GoodList(Schedules, evtime) /\ In(Schedules) = Scheduled
  BY PresentList
<1>2. Schedules.sched = sched /\ Schedules.head = se_list
  BY DEF Schedules
<1>3. LET c == Cut(Schedules, s, Schedules.sched[s].qi) IN
         /\ GoodList(c, evtime)
         /\ In(c) = In(Schedules) \ {s}
         /\ c.head = IF Schedules.sched[s].prev = Nil THEN Schedules.sched[s].next
                     ELSE Schedules.head
         /\ \A y \in Sched : /\ c.sched[y].sign = Schedules.sched[y].sign
                             /\ c.sched[y].ev = Schedules.sched[y].ev
                             /\ c.sched[y].qi = Schedules.sched[y].qi
                             /\ c.sched[y].owner = Schedules.sched[y].owner
  <2>1. s \in In(Schedules)
    BY <1>1
  <2> HIDE DEF In
  <2>2. QED
    BY <1>1, <2>1, CutProps
<1>4. QED
  BY <1>1, <1>2, <1>3 DEF Part

LEMMA PartUnlinked ==
  ASSUME QInv, NEW s \in Scheduled
  PROVE  LET u == Unlinked(Schedules, s, sched[s].qi) IN
         Part(u) /\ In(u) = Scheduled \ {s} /\ AlarmOf(u)
<1> DEFINE c == Cut(Schedules, s, sched[s].qi)
           f == Freed(c, s)
           u == Armed(f, evtime)
<1>1. Part(c) /\ In(c) = Scheduled \ {s}
  BY PartCut
<1>2. s \in Sched /\ s \notin In(c) /\ GoodList(c, evtime)
  BY <1>1 DEF Scheduled, Part
<1> HIDE DEF c
<1>3. /\ GoodList(f, evtime) /\ In(f) = In(c)
      /\ f.sched = [c.sched EXCEPT ![s] = Blank]
  BY <1>2, FreedProps
<1>4. \A y \in Sched : f.sched[y].sign => f.sched[y] = c.sched[y]
  BY <1>2, <1>3 DEF GoodList, ListType, Blank
<1> HIDE DEF f
<1>5. /\ GoodList(u, evtime) /\ In(u) = In(f) /\ u.sched = f.sched
      /\ AlarmOf(u)
  BY <1>3, NowNat, ArmedProps DEF AlarmOf
<1> HIDE DEF u
<1>6. Part(u)
  BY <1>1, <1>3, <1>4, <1>5 DEF Part
<1>7. QED
  BY <1>1, <1>3, <1>5, <1>6 DEF Unlinked, c, f, u

(* What such a step leaves of the invariant.                               *)
LEMMA InstallPart ==
  ASSUME QInv, NEW l, Part(l), Install(l), evtime' \in [Event -> Nat],
         \A s \in In(l) : evtime'[sched[s].ev] = evtime[sched[s].ev]
  PROVE  /\ LinkInv'
         /\ Scheduled' = In(l)
         /\ se_list' \in Sched \cup {Nil} /\ sched' \in [Sched -> Entry]
         /\ fq' \in [Queue -> Seq(Sched)] /\ alarm' \in AlarmType
         /\ UNCHANGED <<iohVars, orphans>> => OwnerInv'
         /\ \A s \in Scheduled' : s \in Scheduled /\ sched'[s].ev = sched[s].ev
         /\ AlarmOf(l) => AlarmFollowsList'
<1>1. \A s \in In(l) : /\ s \in Sched /\ l.sched[s].sign
                       /\ l.sched[s].ev = sched[s].ev
  BY InSigned DEF Part
<1>2. GoodList(l, evtime')
  BY <1>1, TimesProps DEF Part
<1>3. /\ LinkInv'
      /\ Scheduled' = In(l)
      /\ se_list' \in Sched \cup {Nil} /\ sched' \in [Sched -> Entry]
      /\ fq' \in [Queue -> Seq(Sched)] /\ alarm' \in AlarmType
      /\ \A q \in Queue : \A i \in DOMAIN fq'[q] :
           /\ fq'[q][i] \in Scheduled'
           /\ sched'[fq'[q][i]].qi = q
           /\ \A j \in DOMAIN fq'[q] : fq'[q][i] = fq'[q][j] => i = j
  BY <1>2, NextList
<1>4. sched' = l.sched /\ se_list' = l.head /\ alarm' = l.alarm
  BY DEF Install
<1>5. ASSUME UNCHANGED <<iohVars, orphans>> PROVE OwnerInv'
  <2>1. ioh' = ioh /\ orphans' = orphans
    BY <1>5 DEF iohVars
  <2>2. \A s \in Sched : sched'[s].sign =>
           s \in orphans' \/ ioh'[sched'[s].owner] = sched'[s].qi
    BY <1>4, <2>1 DEF QInv, OwnerInv, Part
  <2>3. QED
    BY <1>3, <2>2 DEF OwnerInv
<1>6. AlarmOf(l) => AlarmFollowsList'
  BY <1>4 DEF AlarmOf, AlarmFollowsList
<1>7. QED
  BY <1>1, <1>3, <1>4, <1>5, <1>6 DEF Part

(* Steps that leave the schedules alone.                                   *)
LEMMA KeepList ==
  ASSUME QInv, UNCHANGED listVars, UNCHANGED et, evtime' \in [Event -> Nat],
         \A s \in Scheduled : evtime'[sched[s].ev] = evtime[sched[s].ev]
  PROVE  /\ LinkInv'
         /\ Scheduled' = Scheduled
         /\ se_list' \in Sched \cup {Nil} /\ sched' \in [Sched -> Entry]
         /\ fq' \in [Queue -> Seq(Sched)] /\ alarm' \in AlarmType
         /\ UNCHANGED <<iohVars, orphans>> => OwnerInv'
         /\ AlarmFollowsList'
         /\ \A s \in Scheduled' : s \in Scheduled /\ sched'[s].ev = sched[s].ev
<1>1. Install(Schedules)
  BY DEF Install, Schedules, listVars
<1>2. Part(Schedules) /\ In(Schedules) = Scheduled
  BY PartPresent, PresentList
<1>3. AlarmFollowsList'
  BY DEF QInv, AlarmFollowsList, listVars
<1>4. QED
  BY <1>1, <1>2, <1>3, InstallPart

(* Events stay where they are.                                             *)
LEMMA KeepEvents ==
  ASSUME QInv, UNCHANGED <<uq, heap, held>>,
         \A s \in Scheduled' : s \in Scheduled /\ sched'[s].ev = sched[s].ev
  PROVE  OnePlace'
<1>1. uq' = uq /\ heap' = heap /\ held' = held /\ OnePlace
  BY DEF QInv
<1>2. \A s \in Scheduled' :
       /\ sched'[s].ev \in heap'
       /\ ~(\E q \in Queue : \E i \in DOMAIN uq'[q] : uq'[q][i] = sched'[s].ev)
       /\ ~(\E t \in Thread : sched'[s].ev \in held'[t])
       /\ \A r \in Scheduled' : sched'[r].ev = sched'[s].ev => r = s
  BY <1>1 DEF OnePlace, Queued, Held
<1>3. /\ \A q, r \in Queue : \A i \in DOMAIN uq'[q], j \in DOMAIN uq'[r] :
           /\ uq'[q][i] \in heap'
           /\ ~(\E t \in Thread : uq'[q][i] \in held'[t])
           /\ uq'[q][i] = uq'[r][j] => q = r /\ i = j
      /\ \A t, u \in Thread : t # u => held'[t] \cap held'[u] = {}
      /\ \A t \in Thread : held'[t] \subseteq heap'
  BY <1>1 DEF OnePlace, Held
<1>4. QED
  BY <1>2, <1>3 DEF OnePlace, Queued, Held

(* get_index(): the event goes from the queue to the thread.               *)
LEMMA GetIndexProps ==
  ASSUME QInv, NEW t \in Thread, NEW h, ioh[h] \in Queue, NEW i \in DOMAIN uq[ioh[h]],
         GetIndex(t, h, i), heap' = heap,
         \A s \in Scheduled' : s \in Scheduled /\ sched'[s].ev = sched[s].ev
  PROVE  OnePlace' /\ uq' \in [Queue -> Seq(Event)] /\ held' \in [Thread -> SUBSET Event]
<1> DEFINE q == ioh[h]
           e == uq[q][i]
           r == RemoveAt(uq[q], i)
<1>1. /\ uq \in [Queue -> Seq(Event)] /\ held \in [Thread -> SUBSET Event]
      /\ OnePlace /\ q \in Queue /\ i \in DOMAIN uq[q]
  BY DEF QInv, TypeOK
<1>2. \A j, k \in DOMAIN uq[q] : uq[q][j] = uq[q][k] => j = k
  BY <1>1 DEF OnePlace
<1>3. /\ r \in Seq(Event)
      /\ \A j, k \in DOMAIN r : r[j] = r[k] => j = k
      /\ \A x : (\E j \in DOMAIN r : r[j] = x)
                   <=> x # e /\ \E j \in DOMAIN uq[q] : uq[q][j] = x
  <2>1. uq[q] \in Seq(Event)
    BY <1>1
  <2>2. QED
    BY <1>1, <1>2, <2>1, RemoveAtDistinct
<1>4. e \in Event
  BY <1>1
<1>5. /\ uq' = [uq EXCEPT ![q] = r]
      /\ held' = [held EXCEPT ![t] = held[t] \cup {e}]
  BY DEF GetIndex
<1> HIDE DEF r, e, q
<1>6. uq' \in [Queue -> Seq(Event)] /\ held' \in [Thread -> SUBSET Event]
  BY <1>1, <1>3, <1>4, <1>5
<1>7. \A p \in Queue : uq'[p] = IF p = q THEN r ELSE uq[p]
  BY <1>1, <1>5
<1>8. \A u \in Thread : \A x : x \in held'[u] <=> x \in held[u] \/ (u = t /\ x = e)
  <2>1. ASSUME NEW u \in Thread, NEW x
        PROVE  x \in held'[u] <=> x \in held[u] \/ (u = t /\ x = e)
    <3>1. CASE u = t
      <4>1. held'[u] = held[t] \cup {e}
        BY <1>1, <1>5, <3>1
      <4>2. QED
        BY <3>1, <4>1
    <3>2. CASE u # t
      <4>1. held'[u] = held[u]
        BY <1>1, <1>5, <3>2
      <4>2. QED
        BY <3>2, <4>1
    <3>3. QED
      BY <3>1, <3>2
  <2>2. QED
    BY <2>1
<1>9. /\ e \in heap
      /\ \A u \in Thread : e \notin held[u]
      /\ \A s \in Scheduled : sched[s].ev # e
      /\ \A p \in Queue : \A j \in DOMAIN uq[p] : uq[p][j] = e => p = q /\ j = i
  BY <1>1 DEF OnePlace, Queued, Held, e
<1>10. \A p \in Queue : \A j \in DOMAIN uq'[p] :
         /\ uq'[p][j] # e
         /\ \E k \in DOMAIN uq[p] : uq[p][k] = uq'[p][j]
  <2> SUFFICES ASSUME NEW p \in Queue, NEW j \in DOMAIN uq'[p]
               PROVE  uq'[p][j] # e /\ \E k \in DOMAIN uq[p] : uq[p][k] = uq'[p][j]
    OBVIOUS
  <2>1. CASE p = q
    <3>1. uq'[p] = r
      BY <1>7, <2>1
    <3>2. r[j] # e /\ \E k \in DOMAIN uq[q] : uq[q][k] = r[j]
      BY <1>3, <3>1
    <3>3. QED
      BY <2>1, <3>1, <3>2
  <2>2. CASE p # q
    <3>1. uq'[p] = uq[p]
      BY <1>7, <2>2
    <3>2. QED
      BY <1>9, <2>2, <3>1
  <2>3. QED
    BY <2>1, <2>2
<1>11. \A s \in Scheduled' :
       /\ sched'[s].ev \in heap'
       /\ ~(\E p \in Queue : \E j \in DOMAIN uq'[p] : uq'[p][j] = sched'[s].ev)
       /\ ~(\E u \in Thread : sched'[s].ev \in held'[u])
       /\ \A y \in Scheduled' : sched'[y].ev = sched'[s].ev => y = s
  <2> SUFFICES ASSUME NEW s \in Scheduled'
               PROVE  /\ sched'[s].ev \in heap'
                      /\ ~(\E p \in Queue : \E j \in DOMAIN uq'[p] : uq'[p][j] = sched'[s].ev)
                      /\ ~(\E u \in Thread : sched'[s].ev \in held'[u])
                      /\ \A y \in Scheduled' : sched'[y].ev = sched'[s].ev => y = s
    OBVIOUS
  <2>1. /\ s \in Scheduled /\ sched'[s].ev = sched[s].ev
        /\ sched[s].ev \in heap
        /\ ~(\E p \in Queue : \E j \in DOMAIN uq[p] : uq[p][j] = sched[s].ev)
        /\ ~(\E u \in Thread : sched[s].ev \in held[u])
        /\ \A y \in Scheduled : sched[y].ev = sched[s].ev => y = s
    BY <1>1 DEF OnePlace, Queued, Held
  <2>2. ~(\E p \in Queue : \E j \in DOMAIN uq'[p] : uq'[p][j] = sched'[s].ev)
    BY <1>10, <2>1
  <2>3. ~(\E u \in Thread : sched'[s].ev \in held'[u])
    BY <1>8, <1>9, <2>1
  <2>4. QED
    BY <2>1, <2>2, <2>3
<1>12. \A p, o \in Queue : \A j \in DOMAIN uq'[p], k \in DOMAIN uq'[o] :
         /\ uq'[p][j] \in heap'
         /\ ~(\E u \in Thread : uq'[p][j] \in held'[u])
         /\ uq'[p][j] = uq'[o][k] => p = o /\ j = k
  <2> SUFFICES ASSUME NEW p \in Queue, NEW o \in Queue,
                      NEW j \in DOMAIN uq'[p], NEW k \in DOMAIN uq'[o]
               PROVE  /\ uq'[p][j] \in heap'
                      /\ ~(\E u \in Thread : uq'[p][j] \in held'[u])
                      /\ uq'[p][j] = uq'[o][k] => p = o /\ j = k
    OBVIOUS
  <2>1. PICK j0 \in DOMAIN uq[p] : uq[p][j0] = uq'[p][j]
    BY <1>10
  <2>2. PICK k0 \in DOMAIN uq[o] : uq[o][k0] = uq'[o][k]
    BY <1>10
  <2>3. /\ uq[p][j0] \in heap
        /\ ~(\E u \in Thread : uq[p][j0] \in held[u])
        /\ uq[p][j0] = uq[o][k0] => p = o /\ j0 = k0
    BY <1>1 DEF OnePlace, Held
  <2>4. ~(\E u \in Thread : uq'[p][j] \in held'[u])
    BY <1>8, <1>10, <2>1, <2>3
  <2>5. ASSUME uq'[p][j] = uq'[o][k] PROVE p = o /\ j = k
    <3>1. p = o
      BY <2>1, <2>2, <2>3, <2>5
    <3>2. CASE p = q
      <4>1. uq'[p] = r
        BY <1>7, <3>2
      <4>2. QED
        BY <1>3, <2>5, <3>1, <4>1
    <3>3. CASE p # q
      <4>1. uq'[p] = uq[p] /\ uq'[o] = uq[o]
        BY <1>7, <3>1, <3>3
      <4>2. QED
        BY <1>1, <2>5, <3>1, <4>1 DEF OnePlace
    <3>4. QED
      BY <3>1, <3>2, <3>3
  <2>6. QED
    BY <2>1, <2>3, <2>4, <2>5
<1>13. \A u, v \in Thread : u # v => held'[u] \cap held'[v] = {}
  <2> SUFFICES ASSUME NEW u \in Thread, NEW v \in Thread, u # v,
                      NEW x, x \in held'[u], x \in held'[v]
               PROVE  FALSE
    OBVIOUS
  <2>1. held[u] \cap held[v] = {}
    BY <1>1 DEF OnePlace
  <2>2. QED
    BY <1>8, <1>9, <2>1
<1>14. \A u \in Thread : held'[u] \subseteq heap'
  <2> SUFFICES ASSUME NEW u \in Thread, NEW x, x \in held'[u] PROVE x \in heap'
    OBVIOUS
  <2>1. held[u] \subseteq heap
    BY <1>1 DEF OnePlace
  <2>2. QED
    BY <1>8, <1>9, <2>1
<1>15. OnePlace'
  BY <1>11, <1>12, <1>13, <1>14 DEF OnePlace, Queued, Held
<1>16. QED
  BY <1>6, <1>15

(***************************************************************************)
(* One lemma per action.  The parts of TypeOK:                             *)
(***************************************************************************)
CallType == [pc : {"run", "ask", "wait", "got"}, h : Handle \cup {Nil}, limited : BOOLEAN]

CtlType ==
  /\ now \in 0..MaxTime /\ phase \in {"run", "switch", "close"}
  /\ closing \in [q : Queue \cup {Nil}, ii : Nat]
  /\ et \in Nat \cup {NoTime}
  /\ ioh \in [Handle -> Queue \cup {Nil}]
  /\ orphans \subseteq Sched /\ opened \subseteq Queue
  /\ call \in [Thread -> CallType]

LstType ==
  /\ se_list \in Sched \cup {Nil} /\ sched \in [Sched -> Entry]
  /\ fq \in [Queue -> Seq(Sched)] /\ alarm \in AlarmType

EvType ==
  /\ uq \in [Queue -> Seq(Event)] /\ heap \subseteq Event
  /\ evtime \in [Event -> Nat] /\ held \in [Thread -> SUBSET Event]

LEMMA TypeParts == TypeOK <=> CtlType /\ LstType /\ EvType
  BY DEF TypeOK, CtlType, LstType, EvType, CallType, AlarmType

LEMMA InitInv == Init => QInv
<1> SUFFICES ASSUME Init PROVE QInv
  OBVIOUS
<1>1. CtlType /\ EvType
  BY TimeAssumption DEF Init, CtlType, EvType, CallType, NoCall, NoTime
<1>2. LstType
  <2>1. Blank \in Entry
    BY DEF Blank, Entry
  <2>2. NoAlarm \in AlarmType
    BY DEF NoAlarm, AlarmType
  <2>3. QED
    BY <2>1, <2>2 DEF Init, LstType
<1>3. Scheduled = {}
  BY NilAssumption DEF Init, Scheduled, Blank
<1>4. LinkInv /\ LoopInv
  BY DEF Init, LinkInv, LoopInv, Blank, NoTime
<1>5. AlarmFollowsList
  BY DEF Init, AlarmFollowsList, NoAlarm
<1>6. OwnerInv
  BY DEF Init, OwnerInv, Blank
<1>7. OnePlace
  BY <1>3 DEF Init, OnePlace
<1>8. QED
  BY <1>1, <1>2, <1>4, <1>5, <1>6, <1>7, TypeParts DEF QInv

(* Neither schedules nor events change.                                    *)
LEMMA ControlInv ==
  ASSUME QInv, UNCHANGED <<listVars, evVars, et>>
  PROVE  /\ LinkInv' /\ AlarmFollowsList' /\ OnePlace' /\ LstType' /\ EvType'
         /\ UNCHANGED <<iohVars, orphans>> => OwnerInv'
<1>1. UNCHANGED listVars /\ UNCHANGED et /\ evtime' = evtime /\ UNCHANGED <<uq, heap, held>>
  BY DEF evVars
<1>2. EvType
  BY TypeParts DEF QInv
<1>3. EvType'
  BY <1>1, <1>2 DEF EvType
<1>4. evtime' \in [Event -> Nat]
  BY <1>3 DEF EvType
<1>5. /\ LinkInv' /\ LstType' /\ AlarmFollowsList'
      /\ UNCHANGED <<iohVars, orphans>> => OwnerInv'
      /\ \A s \in Scheduled' : s \in Scheduled /\ sched'[s].ev = sched[s].ev
  BY <1>1, <1>4, KeepList DEF LstType
<1>6. OnePlace'
  BY <1>1, <1>5, KeepEvents
<1>7. QED
  BY <1>3, <1>5, <1>6

LEMMA TickInv == ASSUME QInv, Tick PROVE QInv'
<1>1. UNCHANGED <<listVars, evVars, et>> /\ UNCHANGED <<iohVars, orphans>>
  BY DEF Tick
<1>2. CtlType'
  <2>1. now + 1 \in 0..MaxTime
    BY TimeAssumption DEF QInv, TypeOK, Tick
  <2>2. CtlType
    BY TypeParts DEF QInv
  <2>3. QED
    BY <2>1, <2>2 DEF Tick, CtlType, iohVars
<1>3. LoopInv'
  BY DEF QInv, LoopInv, Tick, listVars, evVars
<1>4. QED
  BY <1>1, <1>2, <1>3, ControlInv, TypeParts, PTL DEF QInv

LEMMA SwitchInv == ASSUME QInv, Switch PROVE QInv'
<1>1. UNCHANGED <<listVars, evVars, et>> /\ UNCHANGED <<iohVars, orphans>>
  BY DEF Switch
<1>2. CtlType'
  <2>1. CtlType
    BY TypeParts DEF QInv
  <2>2. QED
    BY <2>1 DEF Switch, CtlType, iohVars
<1>3. LoopInv'
  BY DEF QInv, LoopInv, Switch, listVars, evVars
<1>4. QED
  BY <1>1, <1>2, <1>3, ControlInv, TypeParts, PTL DEF QInv

LEMMA OutcomeTyped ==
  ASSUME NEW c \in CallType, NEW d \in Outcome(c) PROVE d \in CallType
<1>1. \A p \in {"ask", "wait", "got"} : [c EXCEPT !.pc = p] \in CallType
  BY DEF CallType
<1>2. NoCall \in CallType
  BY DEF CallType, NoCall
<1>3. d = NoCall \/ \E p \in {"ask", "wait", "got"} : d = [c EXCEPT !.pc = p]
  BY DEF Outcome
<1>4. QED
  BY <1>1, <1>2, <1>3

LEMMA CheckWaitsTyped ==
  ASSUME QInv, NEW ts \in SUBSET Thread, CheckWaits(ts) PROVE call' \in [Thread -> CallType]
<1>1. call \in [Thread -> CallType]
  BY DEF QInv, TypeOK, CallType
<1>2. PICK f : /\ \A t \in ts : f[t] \in Outcome(call[t])
               /\ call' = [t \in Thread |-> IF t \in ts THEN f[t] ELSE call[t]]
  BY DEF CheckWaits
<1>3. \A t \in ts : f[t] \in CallType
  BY <1>1, <1>2, OutcomeTyped
<1>4. QED
  BY <1>1, <1>2, <1>3

LEMMA EndSwitchInv == ASSUME QInv, EndSwitch PROVE QInv'
<1>1. UNCHANGED <<listVars, evVars, et>> /\ UNCHANGED <<iohVars, orphans>>
  BY DEF EndSwitch
<1>2. CtlType'
  <2>1. CtlType
    BY TypeParts DEF QInv
  <2>2. call' \in [Thread -> CallType]
    BY CheckWaitsTyped DEF EndSwitch, Waiting
  <2>3. QED
    BY <2>1, <2>2 DEF EndSwitch, CtlType, iohVars
<1>3. LoopInv'
  BY DEF QInv, LoopInv, EndSwitch, listVars, evVars
<1>4. QED
  BY <1>1, <1>2, <1>3, ControlInv, TypeParts, PTL DEF QInv

LEMMA AskInv == ASSUME QInv, NEW t \in Thread, Ask(t) PROVE QInv'
<1>1. UNCHANGED <<listVars, evVars, et>> /\ UNCHANGED <<iohVars, orphans>>
  BY DEF Ask
<1>2. CtlType'
  <2>1. CtlType
    BY TypeParts DEF QInv
  <2>2. call' \in [Thread -> CallType]
    BY CheckWaitsTyped DEF Ask, Waiting
  <2>3. QED
    BY <2>1, <2>2 DEF Ask, CtlType, iohVars
<1>3. LoopInv'
  BY DEF QInv, LoopInv, Ask, listVars, evVars
<1>4. QED
  BY <1>1, <1>2, <1>3, ControlInv, TypeParts, PTL DEF QInv

(* A new handle has a number that only orphans know.                       *)
LEMMA HandleInv ==
  ASSUME QInv, NEW h \in Handle, FreeHandle(h), NEW q \in Queue,
         ioh' = [ioh EXCEPT ![h] = q], opened' \in SUBSET Queue,
         UNCHANGED <<now, phase, closing, et, listVars, orphans, evVars, call>>
  PROVE  QInv'
<1>1. UNCHANGED <<listVars, evVars, et>>
  OBVIOUS
<1>2. CtlType'
  <2>1. CtlType
    BY TypeParts DEF QInv
  <2>2. QED
    BY <2>1 DEF CtlType
<1>3. ioh[h] = Nil /\ ioh \in [Handle -> Queue \cup {Nil}]
  BY DEF FreeHandle, QInv, TypeOK
<1>4. OwnerInv'
  <2>3. ASSUME NEW s \in Sched, sched'[s].sign
        PROVE  s \in orphans' \/ ioh'[sched'[s].owner] = sched'[s].qi
    <3>1. sched' = sched /\ orphans' = orphans
      BY DEF listVars
    <3>2. /\ sched[s].owner \in Handle /\ sched[s].qi \in Queue
          /\ s \in orphans \/ ioh[sched[s].owner] = sched[s].qi
      BY <2>3, <3>1 DEF QInv, LinkInv, OwnerInv
    <3>3. ioh[sched[s].owner] = sched[s].qi => sched[s].owner # h
      BY <1>3, <3>2, NilAssumption
    <3>4. QED
      BY <1>3, <3>1, <3>2, <3>3
  <2>4. \A p \in Queue : \A i \in DOMAIN fq'[p] :
           /\ fq'[p][i] \in Scheduled'
           /\ sched'[fq'[p][i]].qi = p
           /\ \A j \in DOMAIN fq'[p] : fq'[p][i] = fq'[p][j] => i = j
    <3>1. Scheduled' = Scheduled /\ fq' = fq /\ sched' = sched
      BY DEF Scheduled, listVars
    <3>2. QED
      BY <3>1 DEF QInv, OwnerInv
  <2>5. QED
    BY <2>3, <2>4 DEF OwnerInv
<1>5. LoopInv'
  BY DEF QInv, LoopInv, listVars, evVars
<1>6. QED
  BY <1>1, <1>2, <1>4, <1>5, ControlInv, TypeParts, PTL DEF QInv

LEMMA CreateInv ==
  ASSUME QInv, NEW t \in Thread, NEW h \in Handle, NEW q \in Queue,
         Create(t, h, q)
  PROVE  QInv'
<1>1. opened' \in SUBSET Queue
  BY DEF Create, QInv, TypeOK
<1>2. QED
  BY <1>1, HandleInv DEF Create

LEMMA OpenInv ==
  ASSUME QInv, NEW t \in Thread, NEW h \in Handle, NEW q \in Queue,
         Open(t, h, q)
  PROVE  QInv'
<1>1. opened' \in SUBSET Queue
  BY DEF Open, QInv, TypeOK
<1>2. QED
  BY <1>1, HandleInv DEF Open

(* The entries of a closed handle are orphans.                             *)
LEMMA CloseInv ==
  ASSUME QInv, NEW t \in Thread, NEW h \in Handle, Close(t, h)
  PROVE  QInv'
<1>1. UNCHANGED <<listVars, evVars, et>>
  BY DEF Close
<1>2. ioh[h] \in Queue /\ ioh \in [Handle -> Queue \cup {Nil}]
  BY DEF Close, Valid, QInv, TypeOK
<1>3. CtlType'
  <2>1. CtlType
    BY TypeParts DEF QInv
  <2>2. closing' \in [q : Queue \cup {Nil}, ii : Nat] /\ phase' \in {"run", "switch", "close"}
    BY <1>2, <2>1 DEF Close, CtlType
  <2>3. QED
    BY <2>1, <2>2 DEF Close, CtlType
<1>4. OwnerInv'
  <2>1. /\ ioh' = [ioh EXCEPT ![h] = Nil]
        /\ orphans' = orphans \cup {s \in Sched : sched[s].owner = h}
    BY DEF Close
  <2>3. ASSUME NEW s \in Sched, sched'[s].sign
        PROVE  s \in orphans' \/ ioh'[sched'[s].owner] = sched'[s].qi
    <3>1. sched' = sched
      BY <1>1 DEF listVars
    <3>2. /\ sched[s].owner \in Handle
          /\ s \in orphans \/ ioh[sched[s].owner] = sched[s].qi
      BY <2>3, <3>1 DEF QInv, LinkInv, OwnerInv
    <3>3. QED
      BY <1>2, <2>1, <3>1, <3>2
  <2>4. \A p \in Queue : \A i \in DOMAIN fq'[p] :
           /\ fq'[p][i] \in Scheduled'
           /\ sched'[fq'[p][i]].qi = p
           /\ \A j \in DOMAIN fq'[p] : fq'[p][i] = fq'[p][j] => i = j
    <3>1. Scheduled' = Scheduled /\ fq' = fq /\ sched' = sched
      BY <1>1 DEF Scheduled, listVars
    <3>2. QED
      BY <3>1 DEF QInv, OwnerInv
  <2>5. QED
    BY <2>3, <2>4 DEF OwnerInv
<1>5. LoopInv'
  <2>1. et' = NoTime
    BY DEF QInv, LoopInv, Close, Runs
  <2>2. phase' = "close" => closing'.q \in Queue
    BY <1>2 DEF Close, Runs
  <2>3. QED
    BY <2>1, <2>2 DEF LoopInv
<1>6. QED
  BY <1>1, <1>3, <1>4, <1>5, ControlInv, TypeParts, PTL DEF QInv

(* The loop of qe_close() is over.                                         *)
LEMMA CloseEndInv == ASSUME QInv, CloseEnd PROVE QInv'
<1>1. CtlType' /\ EvType'
  <2>1. CtlType /\ EvType
    BY TypeParts DEF QInv
  <2>2. UNCHANGED iohVars /\ UNCHANGED evVars
    BY DEF CloseEnd
  <2>3. QED
    BY <2>1, <2>2 DEF CloseEnd, CtlType, EvType, iohVars, evVars
<1>2. sched' = sched /\ se_list' = se_list /\ alarm' = alarm /\ et' = et /\ evtime' = evtime
  BY DEF CloseEnd, evVars
<1>3. Scheduled' = Scheduled
  BY <1>2 DEF Scheduled
<1>4. \A q \in Queue : fq'[q] = fq[q] \/ fq'[q] = <<>>
  BY DEF CloseEnd, QInv, TypeOK
<1>5. LstType'
  <2>1. LstType
    BY TypeParts DEF QInv
  <2>2. fq' = [fq EXCEPT ![closing.q] = <<>>]
    BY DEF CloseEnd
  <2>3. <<>> \in Seq(Sched)
    OBVIOUS
  <2>4. fq' \in [Queue -> Seq(Sched)]
    BY <2>1, <2>2, <2>3 DEF LstType
  <2>5. QED
    BY <1>2, <2>1, <2>4 DEF LstType
<1>6. LinkInv'
  BY <1>2, <1>3 DEF QInv, LinkInv
<1>7. AlarmFollowsList'
  BY <1>2 DEF QInv, AlarmFollowsList
<1>8. LoopInv'
  BY DEF QInv, LoopInv, CloseEnd
<1>9. OwnerInv'
  <2>1. ioh' = ioh /\ orphans' = orphans
    BY DEF CloseEnd, iohVars
  <2>2. \A p \in Queue : \A i \in DOMAIN fq'[p] :
           /\ fq'[p][i] \in Scheduled'
           /\ sched'[fq'[p][i]].qi = p
           /\ \A j \in DOMAIN fq'[p] : fq'[p][i] = fq'[p][j] => i = j
    <3> SUFFICES ASSUME NEW p \in Queue, NEW i \in DOMAIN fq'[p]
                 PROVE  /\ fq'[p][i] \in Scheduled'
                        /\ sched'[fq'[p][i]].qi = p
                        /\ \A j \in DOMAIN fq'[p] : fq'[p][i] = fq'[p][j] => i = j
      OBVIOUS
    <3>1. fq'[p] = fq[p]
      BY <1>4
    <3>2. QED
      BY <1>2, <1>3, <3>1 DEF QInv, OwnerInv
  <2>3. QED
    BY <1>2, <2>1, <2>2 DEF QInv, OwnerInv
<1>10. OnePlace'
  BY <1>2, <1>3, KeepEvents DEF CloseEnd, evVars
<1>11. QED
  BY <1>1, <1>5, <1>6, <1>7, <1>8, <1>9, <1>10, TypeParts, PTL DEF QInv

(* Steps of qe_takeevent() and qe_waitevent() that take an event.          *)
LEMMA TakenInv ==
  ASSUME QInv, NEW t \in Thread, NEW h \in Handle, Valid(h), NEW i \in DOMAIN uq[ioh[h]],
         GetIndex(t, h, i), call' \in [Thread -> CallType],
         UNCHANGED <<now, phase, closing, et, listVars, heap, evtime, orphans, iohVars>>
  PROVE  QInv'
<1>1. ioh[h] \in Queue
  BY DEF Valid, QInv, TypeOK
<1>2. /\ LinkInv' /\ LstType' /\ AlarmFollowsList' /\ OwnerInv'
      /\ \A s \in Scheduled' : s \in Scheduled /\ sched'[s].ev = sched[s].ev
  <2>1. evtime' \in [Event -> Nat]
    BY DEF QInv, TypeOK
  <2>2. QED
    BY <2>1, KeepList DEF LstType
<1>3. OnePlace' /\ uq' \in [Queue -> Seq(Event)] /\ held' \in [Thread -> SUBSET Event]
  BY <1>1, <1>2, GetIndexProps
<1>4. CtlType' /\ EvType'
  <2>1. CtlType /\ EvType
    BY TypeParts DEF QInv
  <2>2. QED
    BY <1>3, <2>1 DEF CtlType, EvType, iohVars
<1>5. LoopInv'
  BY DEF QInv, LoopInv, listVars
<1>6. QED
  BY <1>2, <1>3, <1>4, <1>5, TypeParts, PTL DEF QInv

LEMMA TakeInv ==
  ASSUME QInv, NEW t \in Thread, NEW h \in Handle, NEW i \in Nat, Take(t, h, i)
  PROVE  QInv'
<1>1. call' \in [Thread -> CallType]
  BY DEF Take, QInv, TypeOK, CallType
<1>2. QED
  BY <1>1, TakenInv DEF Take

(* Nothing but the call of one thread changes.                             *)
LEMMA CallInv ==
  ASSUME QInv, call' \in [Thread -> CallType],
         UNCHANGED <<now, phase, closing, et, listVars, evVars, orphans, iohVars>>
  PROVE  QInv'
<1>1. UNCHANGED <<listVars, evVars, et>> /\ UNCHANGED <<iohVars, orphans>>
  OBVIOUS
<1>2. CtlType'
  <2>1. CtlType
    BY TypeParts DEF QInv
  <2>2. QED
    BY <2>1 DEF CtlType, iohVars
<1>3. LoopInv'
  BY DEF QInv, LoopInv, listVars, evVars
<1>4. QED
  BY <1>1, <1>2, <1>3, ControlInv, TypeParts, PTL DEF QInv

LEMMA WaitEventInv ==
  ASSUME QInv, NEW t \in Thread, NEW h \in Handle, NEW b \in BOOLEAN, WaitEvent(t, h, b)
  PROVE  QInv'
<1>0. call \in [Thread -> CallType] /\ uq \in [Queue -> Seq(Event)] /\ ioh[h] \in Queue
  BY DEF QInv, TypeOK, CallType, WaitEvent, Valid
<1>1. CASE uq[ioh[h]] # <<>>
  <2>1. 1 \in DOMAIN uq[ioh[h]]
    BY <1>0, <1>1
  <2>2. QED
    BY <1>0, <1>1, <2>1, TakenInv DEF WaitEvent
<1>2. CASE uq[ioh[h]] = <<>>
  <2>1. [pc |-> "ask", h |-> h, limited |-> b] \in CallType
    BY DEF CallType
  <2>2. call' \in [Thread -> CallType]
    BY <1>0, <1>2, <2>1 DEF WaitEvent
  <2>3. QED
    BY <1>2, <2>2, CallInv DEF WaitEvent, evVars
<1>3. QED
  BY <1>1, <1>2

LEMMA GotInv == ASSUME QInv, NEW t \in Thread, Got(t) PROVE QInv'
<1> DEFINE h == call[t].h
<1>0. /\ call \in [Thread -> CallType] /\ uq \in [Queue -> Seq(Event)]
      /\ ioh \in [Handle -> Queue \cup {Nil}] /\ h \in Handle \cup {Nil}
  BY DEF QInv, TypeOK, CallType
<1>1. call' \in [Thread -> CallType]
  <2>1. NoCall \in CallType
    BY DEF NoCall, CallType
  <2>2. QED
    BY <1>0, <2>1 DEF Got
<1>2. CASE Valid(h) /\ uq[ioh[h]] # <<>>
  <2>1. h \in Handle /\ ioh[h] \in Queue
    BY <1>0, <1>2 DEF Valid
  <2>2. 1 \in DOMAIN uq[ioh[h]]
    BY <1>0, <1>2, <2>1
  <2>3. QED
    BY <1>1, <1>2, <2>1, <2>2, TakenInv DEF Got
<1>3. CASE ~(Valid(h) /\ uq[ioh[h]] # <<>>)
  BY <1>1, <1>3, CallInv DEF Got, evVars
<1>4. QED
  BY <1>2, <1>3

(* Events es are released and found nowhere afterwards.                    *)
LEMMA ReleasedProps ==
  ASSUME QInv, NEW es \in SUBSET Event, Released(es),
         \A s \in Scheduled' : /\ s \in Scheduled /\ sched'[s].ev = sched[s].ev
                               /\ sched[s].ev \notin es,
         \A q \in Queue :
           uq'[q] = <<>> \/ (uq'[q] = uq[q] /\ \A i \in DOMAIN uq[q] : uq[q][i] \notin es),
         \A t \in Thread : held'[t] \subseteq held[t] \ es
  PROVE  OnePlace'
<1>1. heap' = heap \ es /\ OnePlace
  BY DEF Released, QInv
<1>2. \A s \in Scheduled' :
       /\ sched'[s].ev \in heap'
       /\ ~(\E q \in Queue : \E i \in DOMAIN uq'[q] : uq'[q][i] = sched'[s].ev)
       /\ ~(\E t \in Thread : sched'[s].ev \in held'[t])
       /\ \A r \in Scheduled' : sched'[r].ev = sched'[s].ev => r = s
  BY <1>1 DEF OnePlace, Queued, Held
<1>3. ASSUME NEW q \in Queue, NEW r \in Queue, NEW i \in DOMAIN uq'[q], NEW j \in DOMAIN uq'[r]
      PROVE  /\ uq'[q][i] \in heap'
             /\ ~(\E t \in Thread : uq'[q][i] \in held'[t])
             /\ uq'[q][i] = uq'[r][j] => q = r /\ i = j
  <2>1. uq'[q] = uq[q] /\ uq'[r] = uq[r] /\ uq[q][i] \notin es
    OBVIOUS
  <2>2. /\ uq[q][i] \in heap
        /\ ~(\E t \in Thread : uq[q][i] \in held[t])
        /\ uq[q][i] = uq[r][j] => q = r /\ i = j
    BY <1>1, <2>1 DEF OnePlace, Held
  <2>3. QED
    BY <1>1, <2>1, <2>2
<1>4. \A t, u \in Thread : t # u => held'[t] \cap held'[u] = {}
  <2> SUFFICES ASSUME NEW t \in Thread, NEW u \in Thread, t # u,
                      NEW x, x \in held'[t], x \in held'[u]
               PROVE  FALSE
    OBVIOUS
  <2>1. held[t] \cap held[u] = {}
    BY <1>1 DEF OnePlace
  <2>2. QED
    BY <2>1
<1>5. \A t \in Thread : held'[t] \subseteq heap'
  <2> SUFFICES ASSUME NEW t \in Thread, NEW x, x \in held'[t] PROVE x \in heap'
    OBVIOUS
  <2>1. held[t] \subseteq heap
    BY <1>1 DEF OnePlace
  <2>2. QED
    BY <1>1, <2>1
<1>6. QED
  BY <1>2, <1>3, <1>4, <1>5 DEF OnePlace, Queued, Held

LEMMA ReleasedTyped ==
  ASSUME QInv, NEW es \in SUBSET Event, Released(es)
  PROVE  heap' \subseteq Event /\ evtime' \in [Event -> Nat]
         /\ \A e \in Event \ es : evtime'[e] = evtime[e]
  BY DEF Released, QInv, TypeOK

LEMMA FreeEventInv ==
  ASSUME QInv, NEW t \in Thread, NEW e \in Event, FreeEvent(t, e)
  PROVE  QInv'
<1>1. /\ Released({e}) /\ e \in held[t]
      /\ held' = [held EXCEPT ![t] = held[t] \ {e}]
      /\ UNCHANGED <<now, phase, closing, et, listVars, uq, orphans, iohVars, call>>
  BY DEF FreeEvent
<1>2. {e} \in SUBSET Event /\ uq \in [Queue -> Seq(Event)] /\ held \in [Thread -> SUBSET Event]
  BY DEF QInv, TypeOK
<1>3. heap' \subseteq Event /\ evtime' \in [Event -> Nat]
         /\ \A x \in Event \ {e} : evtime'[x] = evtime[x]
  BY <1>1, <1>2, ReleasedTyped
<1>4. /\ \A s \in Scheduled : sched[s].ev # e
      /\ \A q \in Queue : \A i \in DOMAIN uq[q] : uq[q][i] # e
      /\ \A u \in Thread : u # t => e \notin held[u]
  BY <1>1 DEF QInv, OnePlace, Queued, Held
<1>5. /\ LinkInv' /\ LstType' /\ AlarmFollowsList' /\ OwnerInv'
      /\ \A s \in Scheduled' : s \in Scheduled /\ sched'[s].ev = sched[s].ev
  <2>1. \A s \in Scheduled : sched[s].ev \in Event
    BY PresentList, InSigned DEF Schedules
  <2>2. \A s \in Scheduled : evtime'[sched[s].ev] = evtime[sched[s].ev]
    BY <1>3, <1>4, <2>1
  <2>3. QED
    BY <1>1, <1>3, <2>2, KeepList DEF LstType
<1>6. OnePlace'
  <2>1. \A u \in Thread : held'[u] \subseteq held[u] \ {e}
    <3>1. ASSUME NEW u \in Thread PROVE held'[u] \subseteq held[u] \ {e}
      <4>1. CASE u = t
        BY <1>1, <1>2, <4>1
      <4>2. CASE u # t
        <5>1. held'[u] = held[u]
          BY <1>1, <1>2, <4>2
        <5>2. QED
          BY <1>4, <4>2, <5>1
      <4>3. QED
        BY <4>1, <4>2
    <3>2. QED
      BY <3>1
  <2>2. uq' = uq
    BY <1>1
  <2>3. \A q \in Queue : uq'[q] = uq[q] /\ \A i \in DOMAIN uq[q] : uq[q][i] \notin {e}
    BY <1>4, <2>2
  <2>4. \A s \in Scheduled' : /\ s \in Scheduled /\ sched'[s].ev = sched[s].ev
                              /\ sched[s].ev \notin {e}
    BY <1>4, <1>5
  <2>5. QED
    BY <1>1, <1>2, <2>1, <2>3, <2>4, ReleasedProps
<1>7. CtlType' /\ EvType'
  <2>1. CtlType /\ EvType
    BY TypeParts DEF QInv
  <2>2. QED
    BY <1>1, <1>2, <1>3, <2>1 DEF CtlType, EvType, iohVars
<1>8. LoopInv'
  BY <1>1 DEF QInv, LoopInv, listVars, FreeEvent, Runs
<1>9. QED
  BY <1>5, <1>6, <1>7, <1>8, TypeParts, PTL DEF QInv

LEMMA ClearInv ==
  ASSUME QInv, NEW t \in Thread, NEW h \in Handle, Clear(t, h)
  PROVE  QInv'
<1> DEFINE q == ioh[h]
           es == ToSet(uq[q])
<1>1. /\ Released(es) /\ uq' = [uq EXCEPT ![q] = <<>>]
      /\ UNCHANGED <<now, phase, closing, et, listVars, held, orphans, iohVars, call>>
  BY DEF Clear
<1>2. q \in Queue /\ uq \in [Queue -> Seq(Event)] /\ held \in [Thread -> SUBSET Event]
  BY DEF QInv, TypeOK, Clear, Valid
<1>3. es \in SUBSET Event /\ \A x : x \in es <=> \E i \in DOMAIN uq[q] : uq[q][i] = x
  BY <1>2 DEF ToSet
<1>4. heap' \subseteq Event /\ evtime' \in [Event -> Nat]
         /\ \A x \in Event \ es : evtime'[x] = evtime[x]
  BY <1>1, <1>3, ReleasedTyped
<1> HIDE DEF es
<1>5. /\ \A s \in Scheduled : sched[s].ev \notin es
      /\ \A p \in Queue : p # q => \A i \in DOMAIN uq[p] : uq[p][i] \notin es
      /\ \A u \in Thread : \A x \in held[u] : x \notin es
  BY <1>2, <1>3 DEF QInv, OnePlace, Queued, Held
<1>6. /\ LinkInv' /\ LstType' /\ AlarmFollowsList' /\ OwnerInv'
      /\ \A s \in Scheduled' : s \in Scheduled /\ sched'[s].ev = sched[s].ev
  <2>1. \A s \in Scheduled : sched[s].ev \in Event
    BY PresentList, InSigned DEF Schedules
  <2>2. \A s \in Scheduled : evtime'[sched[s].ev] = evtime[sched[s].ev]
    BY <1>4, <1>5, <2>1
  <2>3. QED
    BY <1>1, <1>4, <2>2, KeepList DEF LstType
<1>7. OnePlace'
  <2>1. \A u \in Thread : held'[u] \subseteq held[u] \ es
    BY <1>1, <1>5
  <2>2. \A p \in Queue :
          uq'[p] = <<>> \/ (uq'[p] = uq[p] /\ \A i \in DOMAIN uq[p] : uq[p][i] \notin es)
    BY <1>1, <1>2, <1>5
  <2>3. \A s \in Scheduled' : /\ s \in Scheduled /\ sched'[s].ev = sched[s].ev
                              /\ sched[s].ev \notin es
    BY <1>5, <1>6
  <2>4. QED
    BY <1>1, <1>3, <2>1, <2>2, <2>3, ReleasedProps
<1>8. CtlType' /\ EvType'
  <2>1. CtlType /\ EvType
    BY TypeParts DEF QInv
  <2>2. uq' \in [Queue -> Seq(Event)]
    BY <1>1, <1>2
  <2>3. QED
    BY <1>1, <1>4, <2>1, <2>2 DEF CtlType, EvType, iohVars
<1>9. LoopInv'
  BY <1>1 DEF QInv, LoopInv, listVars, Clear, Runs
<1>10. QED
  BY <1>6, <1>7, <1>8, <1>9, TypeParts, PTL DEF QInv

(* Ids of events that are still scheduled lead to their queue.             *)
LEMMA EventIdProps ==
  ASSUME QInv, OwnIds, NEW s \in EventId, Valid(sched[s].owner)
  PROVE  s \in Scheduled /\ sched[s].owner \in Handle
         /\ ioh[sched[s].owner] = sched[s].qi /\ sched[s].qi \in Queue
         /\ sched[s].ev \in Event
<1>1. s \in Scheduled /\ s \in Sched /\ sched[s].sign /\ s \notin orphans
  BY DEF EventId, OwnIds
<1>2. sched[s].owner \in Handle /\ sched[s].qi \in Queue /\ sched[s].ev \in Event
  BY <1>1 DEF QInv, LinkInv
<1>3. ioh[sched[s].owner] = sched[s].qi
  BY <1>1 DEF QInv, OwnerInv, Valid
<1>4. QED
  BY <1>1, <1>2, <1>3

LEMMA UnscheduleInv ==
  ASSUME QInv, OwnIds, NEW t \in Thread, NEW s \in Sched, Unschedule(t, s)
  PROVE  QInv'
<1> DEFINE u == Unlinked(Schedules, s, sched[s].qi)
           e == sched[s].ev
<1>1. s \in Scheduled /\ ioh[sched[s].owner] = sched[s].qi /\ e \in Event
  BY EventIdProps DEF Unschedule
<1>2. Part(u) /\ In(u) = Scheduled \ {s} /\ AlarmOf(u)
  BY <1>1, PartUnlinked
<1>3. /\ Install(u) /\ held' = [held EXCEPT ![t] = held[t] \cup {e}]
      /\ UNCHANGED <<now, phase, closing, et, uq, heap, evtime, orphans, iohVars, call>>
  BY <1>1 DEF Unschedule
<1> HIDE DEF u
<1>4. evtime' \in [Event -> Nat] /\ held \in [Thread -> SUBSET Event]
  BY <1>3 DEF QInv, TypeOK
<1>5. /\ LinkInv' /\ LstType' /\ OwnerInv' /\ AlarmFollowsList'
      /\ Scheduled' = Scheduled \ {s}
      /\ \A y \in Scheduled' : y \in Scheduled /\ sched'[y].ev = sched[y].ev
  BY <1>2, <1>3, <1>4, InstallPart DEF LstType
<1> HIDE DEF e
<1>6. \A u1 \in Thread : \A x : x \in held'[u1] <=> x \in held[u1] \/ (u1 = t /\ x = e)
  <2>1. ASSUME NEW u1 \in Thread, NEW x
        PROVE  x \in held'[u1] <=> x \in held[u1] \/ (u1 = t /\ x = e)
    <3>1. CASE u1 = t
      <4>1. held'[u1] = held[t] \cup {e}
        BY <1>3, <1>4, <3>1
      <4>2. QED
        BY <3>1, <4>1
    <3>2. CASE u1 # t
      <4>1. held'[u1] = held[u1]
        BY <1>3, <1>4, <3>2
      <4>2. QED
        BY <3>2, <4>1
    <3>3. QED
      BY <3>1, <3>2
  <2>2. QED
    BY <2>1
<1>7. /\ e \in heap
      /\ \A q \in Queue : \A i \in DOMAIN uq[q] : uq[q][i] # e
      /\ \A u1 \in Thread : e \notin held[u1]
      /\ \A y \in Scheduled' : sched'[y].ev # e
  BY <1>1, <1>5 DEF QInv, OnePlace, Queued, Held, e
<1>8. uq' = uq /\ heap' = heap /\ OnePlace
  BY <1>3 DEF QInv
<1>9. OnePlace'
  <2>1. ASSUME NEW y \in Scheduled'
        PROVE
         /\ sched'[y].ev \in heap'
         /\ ~(\E q \in Queue : \E i \in DOMAIN uq'[q] : uq'[q][i] = sched'[y].ev)
         /\ ~(\E v \in Thread : sched'[y].ev \in held'[v])
         /\ \A r \in Scheduled' : sched'[r].ev = sched'[y].ev => r = y
    <3>1. /\ sched[y].ev \in heap
          /\ ~(\E q \in Queue : \E i \in DOMAIN uq[q] : uq[q][i] = sched[y].ev)
          /\ ~(\E v \in Thread : sched[y].ev \in held[v])
          /\ \A r \in Scheduled : sched[r].ev = sched[y].ev => r = y
      BY <1>5, <1>8 DEF OnePlace, Queued, Held
    <3>2. QED
      BY <1>5, <1>6, <1>7, <1>8, <3>1
  <2>2. ASSUME NEW q \in Queue, NEW r \in Queue, NEW i \in DOMAIN uq'[q], NEW j \in DOMAIN uq'[r]
        PROVE  /\ uq'[q][i] \in heap'
               /\ ~(\E v \in Thread : uq'[q][i] \in held'[v])
               /\ uq'[q][i] = uq'[r][j] => q = r /\ i = j
    <3>1. /\ uq[q][i] \in heap
          /\ ~(\E v \in Thread : uq[q][i] \in held[v])
          /\ uq[q][i] = uq[r][j] => q = r /\ i = j
      BY <1>8 DEF OnePlace, Held
    <3>2. QED
      BY <1>6, <1>7, <1>8, <3>1
  <2>3. \A v, w \in Thread : v # w => held'[v] \cap held'[w] = {}
    <3> SUFFICES ASSUME NEW v \in Thread, NEW w \in Thread, v # w,
                        NEW x, x \in held'[v], x \in held'[w]
                 PROVE  FALSE
      OBVIOUS
    <3>1. held[v] \cap held[w] = {}
      BY <1>8 DEF OnePlace
    <3>2. QED
      BY <1>6, <1>7, <3>1
  <2>4. \A v \in Thread : held'[v] \subseteq heap'
    <3> SUFFICES ASSUME NEW v \in Thread, NEW x, x \in held'[v] PROVE x \in heap'
      OBVIOUS
    <3>1. held[v] \subseteq heap
      BY <1>8 DEF OnePlace
    <3>2. QED
      BY <1>6, <1>7, <1>8, <3>1
  <2>5. QED
    BY <2>1, <2>2, <2>3, <2>4 DEF OnePlace, Queued, Held
<1>10. CtlType' /\ EvType'
  <2>1. CtlType /\ EvType
    BY TypeParts DEF QInv
  <2>2. held' \in [Thread -> SUBSET Event]
    BY <1>1, <1>3, <1>4 DEF e
  <2>3. QED
    BY <1>3, <2>1, <2>2 DEF CtlType, EvType, iohVars
<1>11. LoopInv'
  BY <1>3 DEF QInv, LoopInv, Unschedule, Runs
<1>12. QED
  BY <1>5, <1>9, <1>10, <1>11, TypeParts, PTL DEF QInv

(* One entry of a dead queue.                                              *)
LEMMA CloseNextInv == ASSUME QInv, CloseNext PROVE QInv'
<1> DEFINE q == closing.q
           s == fq[q][closing.ii + 1]
           u == Unlinked(Schedules, s, sched[s].qi)
           e == sched[s].ev
<1>1. phase = "close" /\ q \in Queue /\ closing.ii \in Nat /\ fq[q] \in Seq(Sched) /\ et = NoTime
  BY DEF CloseNext, QInv, TypeOK, LoopInv
<1>2. closing.ii + 1 \in DOMAIN fq[q]
  BY <1>1 DEF CloseNext
<1>3. s \in Scheduled /\ sched[s].qi = q /\ s \in Sched
  BY <1>1, <1>2 DEF QInv, OwnerInv, Scheduled
<1>4. e \in Event
  BY <1>3, PresentList, InSigned DEF Schedules
<1>5. Part(u) /\ In(u) = Scheduled \ {s} /\ AlarmOf(u)
  BY <1>3, PartUnlinked
<1>6. /\ Install(u) /\ Released({e})
      /\ closing' = [closing EXCEPT !.ii = closing.ii + 1]
      /\ UNCHANGED <<now, phase, et, uq, held, orphans, iohVars, call>>
  BY <1>3 DEF CloseNext
<1> HIDE DEF u, s, e, q
<1>7. /\ heap' \subseteq Event /\ evtime' \in [Event -> Nat]
      /\ \A x \in Event \ {e} : evtime'[x] = evtime[x]
  BY <1>4, <1>6, ReleasedTyped
<1>8. /\ \A y \in Scheduled \ {s} : sched[y].ev # e
      /\ \A p \in Queue : \A i \in DOMAIN uq[p] : uq[p][i] # e
      /\ \A v \in Thread : e \notin held[v]
  BY <1>3 DEF QInv, OnePlace, Queued, Held, e
<1>9. \A y \in In(u) : evtime'[sched[y].ev] = evtime[sched[y].ev]
  <2>1. \A y \in Scheduled : sched[y].ev \in Event
    BY PresentList, InSigned DEF Schedules
  <2>2. QED
    BY <1>5, <1>7, <1>8, <2>1
<1>10. /\ LinkInv' /\ LstType' /\ OwnerInv' /\ AlarmFollowsList'
       /\ Scheduled' = Scheduled \ {s}
       /\ \A y \in Scheduled' : y \in Scheduled /\ sched'[y].ev = sched[y].ev
  BY <1>5, <1>6, <1>7, <1>9, InstallPart DEF LstType
<1>11. OnePlace'
  <2>1. \A y \in Scheduled' : /\ y \in Scheduled /\ sched'[y].ev = sched[y].ev
                              /\ sched[y].ev \notin {e}
    BY <1>8, <1>10
  <2>2. uq' = uq /\ held' = held
    BY <1>6
  <2>3. \A p \in Queue : uq'[p] = uq[p] /\ \A i \in DOMAIN uq[p] : uq[p][i] \notin {e}
    BY <1>8, <2>2
  <2>4. \A v \in Thread : held'[v] \subseteq held[v] \ {e}
    BY <1>8, <2>2
  <2>5. {e} \in SUBSET Event
    BY <1>4
  <2>6. QED
    BY <1>6, <2>1, <2>3, <2>4, <2>5, ReleasedProps
<1>12. CtlType' /\ EvType'
  <2>1. CtlType /\ EvType
    BY TypeParts DEF QInv
  <2>2. closing' \in [q : Queue \cup {Nil}, ii : Nat]
    BY <1>6, <2>1 DEF CtlType
  <2>3. QED
    BY <1>6, <1>7, <2>1, <2>2 DEF CtlType, EvType, iohVars
<1>13. LoopInv'
  <2>1. closing'.q = closing.q
    BY <1>6 DEF QInv, TypeOK
  <2>2. QED
    BY <1>1, <1>6, <2>1 DEF QInv, LoopInv, q
<1>14. QED
  BY <1>10, <1>11, <1>12, <1>13, TypeParts, PTL DEF QInv

(* An event that was nowhere, or only scheduled, is put in a queue.        *)
LEMMA AppendedProps ==
  ASSUME QInv, NEW q \in Queue, NEW e \in Event,
         uq' = [uq EXCEPT ![q] = Append(uq[q], e)], held' = held,
         heap \subseteq heap', e \in heap',
         \A p \in Queue : \A i \in DOMAIN uq[p] : uq[p][i] # e,
         \A v \in Thread : e \notin held[v],
         \A y \in Scheduled' : /\ y \in Scheduled /\ sched'[y].ev = sched[y].ev
                               /\ sched[y].ev # e
  PROVE  OnePlace'
<1>1. OnePlace /\ uq \in [Queue -> Seq(Event)]
  BY DEF QInv, TypeOK
<1>2. ASSUME NEW p \in Queue, NEW i \in DOMAIN uq'[p]
      PROVE  \/ i \in DOMAIN uq[p] /\ uq'[p][i] = uq[p][i]
             \/ p = q /\ i = Len(uq[q]) + 1 /\ uq'[p][i] = e
  <2>1. CASE p = q
    <3>1. uq'[p] = Append(uq[q], e) /\ uq[q] \in Seq(Event)
      BY <1>1, <2>1
    <3>2. QED
      BY <2>1, <3>1
  <2>2. CASE p # q
    BY <1>1, <2>2
  <2>3. QED
    BY <2>1, <2>2
<1>3. ASSUME NEW y \in Scheduled'
      PROVE
         /\ sched'[y].ev \in heap'
         /\ ~(\E p \in Queue : \E i \in DOMAIN uq'[p] : uq'[p][i] = sched'[y].ev)
         /\ ~(\E v \in Thread : sched'[y].ev \in held'[v])
         /\ \A r \in Scheduled' : sched'[r].ev = sched'[y].ev => r = y
  <2>1. /\ sched[y].ev \in heap
        /\ ~(\E p \in Queue : \E i \in DOMAIN uq[p] : uq[p][i] = sched[y].ev)
        /\ ~(\E v \in Thread : sched[y].ev \in held[v])
        /\ \A r \in Scheduled : sched[r].ev = sched[y].ev => r = y
    BY <1>1 DEF OnePlace, Queued, Held
  <2>2. ~(\E p \in Queue : \E i \in DOMAIN uq'[p] : uq'[p][i] = sched'[y].ev)
    BY <1>2, <2>1
  <2>3. QED
    BY <2>1, <2>2
<1>4. ASSUME NEW p \in Queue, NEW r \in Queue, NEW i \in DOMAIN uq'[p], NEW j \in DOMAIN uq'[r]
      PROVE  /\ uq'[p][i] \in heap'
             /\ ~(\E v \in Thread : uq'[p][i] \in held'[v])
             /\ uq'[p][i] = uq'[r][j] => p = r /\ i = j
  <2>1. /\ i \in DOMAIN uq[p] => /\ uq[p][i] \in heap
                                /\ ~(\E v \in Thread : uq[p][i] \in held[v])
                                /\ uq[p][i] # e
        /\ j \in DOMAIN uq[r] => uq[r][j] # e
    BY <1>1 DEF OnePlace, Held
  <2>2. i \in DOMAIN uq[p] /\ j \in DOMAIN uq[r] /\ uq[p][i] = uq[r][j] => p = r /\ i = j
    BY <1>1 DEF OnePlace
  <2>3. QED
    BY <1>2, <2>1, <2>2
<1>5. QED
  BY <1>1, <1>3, <1>4 DEF OnePlace, Queued, Held

(* pushto(): a new block goes to the queue or to the schedules.            *)
LEMMA PushToInv ==
  ASSUME QInv, phase = "run", NEW l, Part(l), AlarmOf(l),
         NEW h \in Handle, ioh[h] \in Queue, NEW e \in Event, NEW at \in Nat,
         PushTo(l, h, ioh[h], e, at),
         UNCHANGED <<now, phase, closing, et, held, iohVars, call>>
  PROVE  QInv'
<1> DEFINE q == ioh[h]
<1>1. /\ e \notin heap /\ heap' = heap \cup {e}
      /\ evtime' = [evtime EXCEPT ![e] = IF at = 0 THEN now ELSE at]
      /\ evtime \in [Event -> Nat] /\ heap \subseteq Event /\ now \in Nat
  BY NowNat DEF PushTo, QInv, TypeOK
<1>2. evtime' \in [Event -> Nat] /\ \A x \in Event \ {e} : evtime'[x] = evtime[x]
  BY <1>1
<1>3. \A s \in In(l) : /\ s \in Sched /\ s \in Scheduled /\ l.sched[s].sign
                       /\ l.sched[s].ev = sched[s].ev /\ sched[s].ev \in Event
                       /\ sched[s].ev # e
  <2> SUFFICES ASSUME NEW s \in In(l)
               PROVE  /\ s \in Sched /\ s \in Scheduled /\ l.sched[s].sign
                      /\ l.sched[s].ev = sched[s].ev /\ sched[s].ev \in Event
                      /\ sched[s].ev # e
    OBVIOUS
  <2>1. s \in Sched /\ l.sched[s].sign /\ l.sched[s].ev \in Event
    BY InSigned DEF Part
  <2>2. s \in Scheduled /\ l.sched[s].ev = sched[s].ev
    BY <2>1 DEF Part
  <2>3. sched[s].ev \in heap
    BY <2>2 DEF QInv, OnePlace
  <2>4. QED
    BY <1>1, <2>1, <2>2, <2>3
<1>4. \A s \in In(l) : evtime'[sched[s].ev] = evtime[sched[s].ev]
  BY <1>2, <1>3
<1>5. GoodList(l, evtime')
  BY <1>2, <1>3, <1>4, TimesProps DEF Part
<1>6. CtlType'
  <2>1. CtlType
    BY TypeParts DEF QInv
  <2>2. orphans' \subseteq orphans
    BY DEF PushTo
  <2>3. QED
    BY <2>1, <2>2 DEF CtlType, iohVars
<1>7. LoopInv'
  BY DEF QInv, LoopInv
<1>8. /\ e \in heap'
      /\ \A p \in Queue : \A i \in DOMAIN uq[p] : uq[p][i] # e
      /\ \A v \in Thread : e \notin held[v]
      /\ heap \subseteq heap' /\ held' = held
  BY <1>1 DEF QInv, OnePlace
<1>9. OnePlace
  BY DEF QInv
<1>10. CASE now < at
  <2>1. uq' = uq
    BY <1>10 DEF PushTo
  <2>2. PICK s \in Sched, epp \in Sched \cup {Nil} :
          /\ ~sched[s].sign
          /\ StopsAfter(l, evtime', at, epp)
          /\ Install(Armed(Linked(l, s, NewEntry(h, e, q), epp), evtime'))
          /\ orphans' = orphans \ {s}
    BY <1>10 DEF PushTo
  <2> DEFINE k == Linked(l, s, NewEntry(h, e, q), epp)
             m == Armed(k, evtime')
  <2>3. evtime'[e] = at
    BY <1>1, <1>10
  <2>4. ~l.sched[s].sign
    BY <2>2 DEF Part
  <2>5. /\ GoodList(k, evtime')
        /\ In(k) = In(l) \cup {s}
        /\ k.sched[s].ev = e /\ k.sched[s].owner = h /\ k.sched[s].qi = q
        /\ \A y \in Sched : y # s => /\ k.sched[y].sign = l.sched[y].sign
                                     /\ k.sched[y].ev = l.sched[y].ev
                                     /\ k.sched[y].qi = l.sched[y].qi
                                     /\ k.sched[y].owner = l.sched[y].owner
    BY <1>5, <2>2, <2>3, <2>4, LinkedProps
  <2> HIDE DEF k
  <2>6. GoodList(m, evtime') /\ In(m) = In(k) /\ m.sched = k.sched /\ AlarmOf(m)
    <3>1. GoodList(k, evtime') /\ now \in Nat
      BY <1>1, <2>5
    <3> SUFFICES ASSUME NEW times, times = evtime'
                 PROVE  LET f == Armed(k, times) IN
                        /\ GoodList(f, times) /\ In(f) = In(k) /\ f.sched = k.sched
                        /\ AlarmOf(f)
      OBVIOUS
    <3>2. GoodList(k, times)
      BY <3>1
    <3>3. QED
      BY <3>1, <3>2, ArmedProps DEF AlarmOf
  <2>7. Install(m)
    BY <2>2 DEF k
  <2> HIDE DEF m
  <2>8. /\ LinkInv' /\ LstType'
        /\ Scheduled' = In(l) \cup {s}
        /\ \A p \in Queue : \A i \in DOMAIN fq'[p] :
             /\ fq'[p][i] \in Scheduled'
             /\ sched'[fq'[p][i]].qi = p
             /\ \A j \in DOMAIN fq'[p] : fq'[p][i] = fq'[p][j] => i = j
    BY <2>5, <2>6, <2>7, NextList DEF LstType
  <2>9. sched' = k.sched /\ se_list' = m.head /\ alarm' = m.alarm
    BY <2>6, <2>7 DEF Install
  <2>10. AlarmFollowsList'
    BY <2>6, <2>9 DEF AlarmOf, AlarmFollowsList
  <2>11. OwnerInv'
    <3>1. ioh' = ioh /\ orphans' = orphans \ {s}
      BY <2>2 DEF iohVars
    <3>2. ASSUME NEW y \in Sched, sched'[y].sign
          PROVE  y \in orphans' \/ ioh'[sched'[y].owner] = sched'[y].qi
      <4>1. CASE y = s
        BY <2>5, <2>9, <3>1, <4>1
      <4>2. CASE y # s
        <5>1. sched[y].sign /\ sched'[y].owner = sched[y].owner /\ sched'[y].qi = sched[y].qi
          BY <2>5, <2>9, <3>2, <4>2 DEF Part
        <5>2. QED
          BY <3>1, <4>2, <5>1 DEF QInv, OwnerInv
      <4>3. QED
        BY <4>1, <4>2
    <3>3. QED
      BY <2>8, <3>2 DEF OwnerInv
  <2>12. s \notin In(l) /\ \A y \in In(l) : sched'[y].ev = sched[y].ev
    BY <1>3, <2>4, <2>5, <2>9
  <2>13. OnePlace'
    <3>1. ASSUME NEW y \in Scheduled'
          PROVE
           /\ sched'[y].ev \in heap'
           /\ ~(\E p \in Queue : \E i \in DOMAIN uq'[p] : uq'[p][i] = sched'[y].ev)
           /\ ~(\E v \in Thread : sched'[y].ev \in held'[v])
           /\ \A r \in Scheduled' : sched'[r].ev = sched'[y].ev => r = y
      <4>1. CASE y = s
        BY <1>3, <1>8, <2>1, <2>5, <2>8, <2>9, <2>12, <4>1
      <4>2. CASE y # s
        <5>1. y \in In(l) /\ y \in Scheduled /\ sched'[y].ev = sched[y].ev /\ sched[y].ev # e
          BY <1>3, <2>8, <2>12, <4>2
        <5>2. /\ sched[y].ev \in heap
              /\ ~(\E p \in Queue : \E i \in DOMAIN uq[p] : uq[p][i] = sched[y].ev)
              /\ ~(\E v \in Thread : sched[y].ev \in held[v])
              /\ \A r \in Scheduled : sched[r].ev = sched[y].ev => r = y
          BY <1>9, <5>1 DEF OnePlace, Queued, Held
        <5>3. ASSUME NEW r \in Scheduled', sched'[r].ev = sched'[y].ev PROVE r = y
          <6>1. r # s
            BY <2>5, <2>9, <5>1, <5>3
          <6>2. r \in Scheduled /\ sched'[r].ev = sched[r].ev
            BY <1>3, <2>8, <2>12, <6>1
          <6>3. QED
            BY <5>1, <5>2, <5>3, <6>2
        <5>4. QED
          BY <1>8, <2>1, <5>1, <5>2, <5>3
      <4>3. QED
        BY <4>1, <4>2
    <3>2. QED
      BY <1>8, <1>9, <2>1, <3>1 DEF OnePlace, Queued, Held
  <2>14. EvType'
    BY <1>1, <1>2, <1>8, <2>1 DEF EvType, QInv, TypeOK
  <2>15. QED
    BY <1>6, <1>7, <2>8, <2>10, <2>11, <2>13, <2>14, TypeParts, PTL DEF QInv
<1>11. CASE ~(now < at)
  <2>1. uq' = [uq EXCEPT ![q] = Append(uq[q], e)] /\ Install(l) /\ orphans' = orphans
    BY <1>11 DEF PushTo
  <2>2. uq \in [Queue -> Seq(Event)]
    BY DEF QInv, TypeOK
  <2>3. /\ LinkInv' /\ LstType' /\ OwnerInv' /\ AlarmFollowsList'
        /\ Scheduled' = In(l)
        /\ \A y \in Scheduled' : y \in Scheduled /\ sched'[y].ev = sched[y].ev
    BY <1>2, <1>4, <2>1, InstallPart DEF LstType
  <2>4. uq' \in [Queue -> Seq(Event)]
    BY <2>1, <2>2
  <2>5. OnePlace'
    BY <1>3, <1>8, <2>1, <2>3, AppendedProps
  <2>6. EvType'
    BY <1>1, <1>2, <1>8, <2>4 DEF EvType, QInv, TypeOK
  <2>7. QED
    BY <1>6, <1>7, <2>3, <2>5, <2>6, TypeParts, PTL DEF QInv
<1>12. QED
  BY <1>10, <1>11

LEMMA PostInv ==
  ASSUME QInv, NEW t \in Thread, NEW h \in Handle, NEW e \in Event, Post(t, h, e)
  PROVE  QInv'
<1>1. phase = "run" /\ et = NoTime /\ ioh[h] \in Queue
  BY DEF Post, Runs, Valid, QInv, TypeOK, LoopInv
<1>2. Part(Schedules) /\ AlarmOf(Schedules)
  BY <1>1, PartPresent
<1>3. /\ PushTo(Schedules, h, ioh[h], e, 0)
      /\ UNCHANGED <<now, phase, closing, et, held, iohVars, call>>
  BY DEF Post
<1>4. QED
  BY <1>1, <1>2, <1>3, PushToInv

LEMMA ScheduleInv ==
  ASSUME QInv, NEW t \in Thread, NEW h \in Handle, NEW e \in Event, NEW at \in When,
         Schedule(t, h, e, at)
  PROVE  QInv'
<1>1. phase = "run" /\ et = NoTime /\ ioh[h] \in Queue /\ at \in Nat
  BY TimeAssumption DEF Schedule, Runs, Valid, QInv, TypeOK, LoopInv
<1>2. Part(Schedules) /\ AlarmOf(Schedules)
  BY <1>1, PartPresent
<1>3. /\ PushTo(Schedules, h, ioh[h], e, at)
      /\ UNCHANGED <<now, phase, closing, et, held, iohVars, call>>
  BY DEF Schedule
<1>4. QED
  BY <1>1, <1>2, <1>3, PushToInv

LEMMA RescheduleInv ==
  ASSUME QInv, OwnIds, NEW t \in Thread, NEW s \in Sched, NEW e \in Event,
         NEW at \in When, Reschedule(t, s, e, at)
  PROVE  QInv'
<1> DEFINE h == sched[s].owner
           u == Unlinked(Schedules, s, sched[s].qi)
<1>1. phase = "run" /\ at \in Nat
  BY TimeAssumption DEF Reschedule, Runs
<1>2. s \in Scheduled /\ h \in Handle /\ ioh[h] = sched[s].qi /\ ioh[h] \in Queue
  BY EventIdProps DEF Reschedule
<1>3. Part(u) /\ AlarmOf(u)
  BY <1>2, PartUnlinked
<1>4. /\ PushTo(u, h, ioh[h], e, at)
      /\ UNCHANGED <<now, phase, closing, et, held, iohVars, call>>
  BY <1>2 DEF Reschedule
<1> HIDE DEF u, h
<1>5. QED
  BY <1>1, <1>2, <1>3, <1>4, PushToInv

(***************************************************************************)
(* cbattime(): the head of the list goes to its queue.  The refusal does   *)
(* not occur; within the loop the first time "et" is the least of all that *)
(* is in the list.                                                         *)
(***************************************************************************)
LEMMA DeliverInv == ASSUME QInv, Deliver PROVE QInv'
<1> DEFINE s == se_list
           q == sched[s].qi
           e == sched[s].ev
           first == IF et = NoTime THEN evtime[e] ELSE et
           l == Cut(Schedules, s, q)
           more == l.head # Nil /\ InBatch(evtime[l.sched[l.head].ev], first)
           n == IF more THEN l ELSE Rearmed(l, first)
<1>1. /\ phase = "switch" /\ se_list # Nil /\ alarm.cbf
      /\ et = NoTime => alarm.usr = se_list
      /\ et \in Nat \cup {NoTime}
  BY DEF Deliver, MayFire, QInv, LoopInv, AlarmFollowsList, TypeOK
<1>2. s \in Scheduled /\ s \in Sched
  BY <1>1 DEF QInv, TypeOK, Scheduled
<1>3. /\ q \in Queue /\ e \in Event /\ evtime \in [Event -> Nat] /\ sched[s].prev = Nil
      /\ alarm \in AlarmType
  BY <1>1, <1>2 DEF QInv, TypeOK, LinkInv, AlarmType
<1>4. /\ uq' = [uq EXCEPT ![q] = Append(uq[q], e)]
      /\ et' = IF more THEN first ELSE NoTime
      /\ Install(n)
      /\ UNCHANGED <<now, phase, closing, heap, evtime, held, orphans, iohVars, call>>
  BY <1>1 DEF Deliver
<1>5. first \in Nat /\ first =< evtime[e]
  BY <1>1, <1>3 DEF QInv, LoopInv, NoTime
<1>6. Part(l) /\ In(l) = Scheduled \ {s} /\ l.head = sched[s].next
  BY <1>2, <1>3, PartCut
<1>7. l.alarm = alarm
  BY DEF Cut, Schedules
<1>8. l.head # Nil => /\ l.head \in Sched /\ l.sched[l.head].ev = sched[l.head].ev
                      /\ evtime[sched[l.head].ev] \in Nat
                      /\ evtime[e] =< evtime[sched[l.head].ev]
  <2> SUFFICES ASSUME l.head # Nil
               PROVE  /\ l.head \in Sched /\ l.sched[l.head].ev = sched[l.head].ev
                      /\ evtime[sched[l.head].ev] \in Nat
                      /\ evtime[e] =< evtime[sched[l.head].ev]
    OBVIOUS
  <2>1. l.head \in Sched /\ l.sched[l.head].sign /\ l.sched[l.head].ev \in Event
    BY <1>6, LinkFacts DEF Part, GoodList, ListType
  <2>2. l.sched[l.head].ev = sched[l.head].ev
    BY <1>6, <2>1 DEF Part
  <2>3. evtime[e] =< evtime[sched[sched[s].next].ev]
    BY <1>2, <1>6 DEF QInv, LinkInv
  <2>4. QED
    BY <1>3, <1>6, <2>1, <2>2, <2>3
<1> HIDE DEF l
<1>9. /\ Part(n) /\ In(n) = Scheduled \ {s} /\ n.head = l.head /\ n.sched = l.sched
      /\ more => n.alarm = alarm
      /\ ~more => AlarmOf(n)
  <2>1. CASE more
    BY <1>6, <1>7, <2>1
  <2>2. CASE ~more
    <3> DEFINE d == evtime[l.sched[l.head].ev] - first
               a == IF l.head = Nil THEN NoAlarm
                    ELSE [cbf |-> TRUE, start |-> alarm.start + alarm.diff,
                          usr |-> l.head, diff |-> Round(d)]
    <3>1. n = Timed(l, a)
      BY <2>2 DEF Rearmed
    <3>2. /\ a \in AlarmType
          /\ a.cbf <=> l.head # Nil
          /\ a.cbf => a.usr = l.head
      <4>1. CASE l.head = Nil
        BY <4>1 DEF AlarmType, NoAlarm
      <4>2. CASE l.head # Nil
        <5>1. d \in Nat
          <6> HIDE DEF first, e
          <6>1. QED
            BY <1>3, <1>5, <1>8, <4>2
        <5> HIDE DEF d
        <5>2. Round(d) \in Nat
          BY <5>1, RoundNat
        <5>3. alarm.start + alarm.diff \in Nat
          BY <1>3 DEF AlarmType
        <5>4. a = [cbf |-> TRUE, start |-> alarm.start + alarm.diff,
                   usr |-> l.head, diff |-> Round(d)]
          BY <4>2
        <5> HIDE DEF a
        <5>5. QED
          BY <1>8, <4>2, <5>2, <5>3, <5>4 DEF AlarmType
      <4>3. QED
        BY <4>1, <4>2
    <3>3. GoodList(l, evtime)
      BY <1>6 DEF Part
    <3> HIDE DEF a
    <3>4. LET f == Timed(l, a) IN
          /\ GoodList(f, evtime) /\ In(f) = In(l)
          /\ f.head = l.head /\ f.sched = l.sched /\ f.alarm = a
      BY <3>2, <3>3, TimedProps
    <3> HIDE DEF n, more
    <3>5. QED
      BY <1>6, <2>2, <3>1, <3>2, <3>4 DEF Part, AlarmOf
  <2>3. QED
    BY <2>1, <2>2
<1>10. more => l.head # Nil
  OBVIOUS
<1> HIDE DEF n, more, first
<1>11. /\ LinkInv' /\ LstType' /\ OwnerInv'
       /\ Scheduled' = Scheduled \ {s}
       /\ \A y \in Scheduled' : y \in Scheduled /\ sched'[y].ev = sched[y].ev
       /\ AlarmOf(n) => AlarmFollowsList'
  BY <1>3, <1>4, <1>9, InstallPart DEF LstType
<1>12. se_list' = l.head /\ sched' = l.sched /\ alarm' = n.alarm
  BY <1>4, <1>9 DEF Install
<1>13. /\ e \in heap
       /\ \A p \in Queue : \A i \in DOMAIN uq[p] : uq[p][i] # e
       /\ \A v \in Thread : e \notin held[v]
       /\ \A y \in Scheduled' : sched[y].ev # e
  BY <1>2, <1>11 DEF QInv, OnePlace, Queued, Held
<1> HIDE DEF e, q, s
<1>14. OnePlace'
  <2>1. heap' = heap /\ held' = held
    BY <1>4
  <2>2. QED
    BY <1>3, <1>4, <1>11, <1>13, <2>1, AppendedProps
<1>15. CtlType' /\ EvType'
  <2>1. CtlType /\ EvType
    BY TypeParts DEF QInv
  <2>2. uq' \in [Queue -> Seq(Event)]
    BY <1>3, <1>4, <2>1 DEF EvType
  <2>3. et' \in Nat \cup {NoTime}
    BY <1>4, <1>5
  <2>4. QED
    BY <1>4, <2>1, <2>2, <2>3 DEF CtlType, EvType, iohVars
<1>16. LoopInv'
  <2>1. CASE more
    <3>1. et' = first /\ alarm' = alarm /\ l.head # Nil
      BY <1>4, <1>9, <1>10, <1>12, <2>1
    <3>2. first =< evtime'[sched'[se_list'].ev]
      BY <1>3, <1>4, <1>5, <1>8, <1>12, <3>1
    <3>3. QED
      BY <1>1, <1>4, <1>12, <3>1, <3>2 DEF LoopInv
  <2>2. CASE ~more
    BY <1>1, <1>4, <2>2 DEF LoopInv
  <2>3. QED
    BY <2>1, <2>2
<1>17. AlarmFollowsList'
  <2>1. CASE more
    BY <1>4, <1>5, <2>1 DEF AlarmFollowsList, NoTime
  <2>2. CASE ~more
    BY <1>9, <1>11, <2>2
  <2>3. QED
    BY <2>1, <2>2
<1>18. QED
  BY <1>11, <1>14, <1>15, <1>16, <1>17, TypeParts, PTL DEF QInv

LEMMA StutterInv == ASSUME QInv, UNCHANGED vars PROVE QInv'
<1>1. /\ UNCHANGED <<now, phase, closing, et, sched, se_list, fq, alarm, uq, heap,
                     evtime, held, ioh, orphans, opened, call>>
  BY DEF vars, listVars, evVars, iohVars
<1>2. Scheduled' = Scheduled
  BY <1>1 DEF Scheduled
<1>3. \A e : Queued(e)' = Queued(e) /\ Held(e)' = Held(e)
  BY <1>1 DEF Queued, Held
<1>4. OnePlace'
  BY <1>1, <1>2, <1>3 DEF QInv, OnePlace, Queued, Held
<1>5. TypeOK' /\ LoopInv' /\ AlarmFollowsList'
  BY <1>1 DEF QInv, TypeOK, LoopInv, AlarmFollowsList
<1>6. LinkInv' /\ OwnerInv'
  BY <1>1, <1>2 DEF QInv, LinkInv, OwnerInv
<1>7. QED
  BY <1>4, <1>5, <1>6 DEF QInv

LEMMA NextInv ==
  ASSUME OwnIds, QInv, [Next]_vars
  PROVE  QInv'
<1>1. CASE Tick
  BY <1>1, TickInv
<1>2. CASE Kernel
  BY <1>2, SwitchInv, DeliverInv, EndSwitchInv DEF Kernel
<1>3. CASE CloseNext
  BY <1>3, CloseNextInv
<1>4. CASE CloseEnd
  BY <1>4, CloseEndInv
<1>5. ASSUME NEW t \in Thread, Program(t) PROVE QInv'
  <2>1. CASE \E h \in Handle, q \in Queue : Create(t, h, q) \/ Open(t, h, q)
    BY <2>1, CreateInv, OpenInv
  <2>2. CASE \E h \in Handle : Close(t, h) \/ Clear(t, h)
    BY <2>2, CloseInv, ClearInv
  <2>3. CASE \E h \in Handle, e \in Event : Post(t, h, e)
    BY <2>3, PostInv
  <2>4. CASE \E h \in Handle, e \in Event, at \in When : Schedule(t, h, e, at)
    BY <2>4, ScheduleInv
  <2>5. CASE \E h \in Handle, i \in 1..Cardinality(Event) : Take(t, h, i)
    BY <2>5, TakeInv
  <2>6. CASE \E h \in Handle, b \in BOOLEAN : WaitEvent(t, h, b)
    BY <2>6, WaitEventInv
  <2>7. CASE \E s \in Sched : Unschedule(t, s)
    BY <2>7, UnscheduleInv
  <2>8. CASE \E s \in Sched, e \in Event, at \in When : Reschedule(t, s, e, at)
    BY <2>8, RescheduleInv
  <2>9. CASE \E e \in Event : FreeEvent(t, e)
    BY <2>9, FreeEventInv
  <2>10. QED
    BY <1>5, <2>1, <2>2, <2>3, <2>4, <2>5, <2>6, <2>7, <2>8, <2>9 DEF Program
<1>6. ASSUME NEW t \in Thread, Ask(t) \/ Got(t) PROVE QInv'
  BY <1>6, AskInv, GotInv
<1>7. CASE UNCHANGED vars
  BY <1>7, StutterInv
<1>8. QED
  BY <1>1, <1>2, <1>3, <1>4, <1>5, <1>6, <1>7 DEF Next

-----------------------------------------------------------------------------
(***************************************************************************)
(* ListSound: what is linked is reached from se_list, and the fq array of  *)
(* a queue with a handle misses nothing.  For schedules l: no set of       *)
(* entries is closed under "prev", so that every way back ends at the      *)
(* head; and every entry of queue q is in its array.                       *)
(***************************************************************************)
Grounded(l) ==
  \A S \in SUBSET Sched : (\A s \in S : l.sched[s].prev \in S) => S = {}

Complete(l, q) ==
  \A s \in In(l) : l.sched[s].qi = q => \E i \in DOMAIN l.fq[q] : l.fq[q][i] = s

(* The arrays of the queues in Q are complete; no entry has another queue  *)
(* than those of O.                                                        *)
Whole(l, Q, O) ==
  /\ Grounded(l)
  /\ \A q \in Q : Complete(l, q)
  /\ \A s \in In(l) : l.sched[s].qi \in O

WholeInv ==
  /\ Whole(Schedules, OpenQueues, opened)
  /\ OpenQueues \subseteq opened
  /\ phase = "close" => closing.q \notin OpenQueues

(* fq.Delete(fq.IndexOf(s)) keeps everything else.                         *)
LEMMA WithoutKeeps ==
  ASSUME NEW S, NEW f \in Seq(S), NEW s,
         \A i, j \in DOMAIN f : f[i] = f[j] => i = j,
         NEW k \in DOMAIN f, f[k] # s
  PROVE  \E i \in DOMAIN Without(f, s) : Without(f, s)[i] = f[k]
<1>1. CASE \E i \in DOMAIN f : f[i] = s
  <2> DEFINE n == CHOOSE i \in DOMAIN f : f[i] = s
  <2>1. n \in DOMAIN f /\ f[n] = s
    BY <1>1
  <2>2. Without(f, s) = RemoveAt(f, n)
    BY <1>1 DEF Without
  <2> HIDE DEF n
  <2>3. LET r == RemoveAt(f, n) IN
         /\ r \in Seq(S)
         /\ \A i, j \in DOMAIN r : r[i] = r[j] => i = j
         /\ \A y : (\E i \in DOMAIN r : r[i] = y)
                      <=> y # f[n] /\ \E i \in DOMAIN f : f[i] = y
    BY <2>1, RemoveAtDistinct
  <2>4. QED
    BY <2>1, <2>2, <2>3
<1>2. CASE ~\E i \in DOMAIN f : f[i] = s
  BY <1>2 DEF Without
<1>3. QED
  BY <1>1, <1>2

(* Taking an entry out leaves no entries cut off from the head.            *)
LEMMA GroundedCut ==
  ASSUME NEW l, NEW times, GoodList(l, times), Grounded(l), NEW s \in Sched, NEW q
  PROVE  Grounded(Cut(l, s, q))
<1> DEFINE c == Cut(l, s, q)
           n == l.sched[s].next
<1>1. \A y \in Sched : c.sched[y].prev =
           IF y = s THEN Nil ELSE IF y = n THEN l.sched[s].prev ELSE l.sched[y].prev
  BY DEF Cut, Between
<1> HIDE DEF c
<1>2. SUFFICES ASSUME NEW S \in SUBSET Sched, \A y \in S : c.sched[y].prev \in S
               PROVE  S = {}
  BY DEF Grounded, c
<1>3. s \notin S
  BY <1>1, <1>2, NilAssumption
<1>4. n # Nil => n \in Sched /\ l.sched[n].prev = s
  BY LinkFacts
<1>5. CASE n \in S
  <2> DEFINE R == S \cup {s}
  <2>1. R \in SUBSET Sched
    OBVIOUS
  <2>2. n # Nil /\ l.sched[s].prev \in R
    BY <1>1, <1>2, <1>3, <1>5, NilAssumption
  <2>3. \A y \in R : l.sched[y].prev \in R
    BY <1>1, <1>2, <1>4, <2>2
  <2> HIDE DEF R
  <2>4. R = {}
    BY <2>1, <2>3 DEF Grounded
  <2>5. QED
    BY <2>4 DEF R
<1>6. CASE n \notin S
  <2>1. \A y \in S : l.sched[y].prev \in S
    BY <1>1, <1>2, <1>3, <1>6
  <2>2. QED
    BY <2>1 DEF Grounded
<1>7. QED
  BY <1>5, <1>6

(* Cut(): nothing else is lost.                                            *)
LEMMA WholeCut ==
  ASSUME NEW l, NEW times, GoodList(l, times), NEW Q \in SUBSET Queue, NEW O, Whole(l, Q, O),
         NEW s \in In(l)
  PROVE  Whole(Cut(l, s, l.sched[s].qi), Q, O)
<1> DEFINE r == l.sched[s].qi
           c == Cut(l, s, r)
<1>1. s \in Sched /\ r \in Queue
  BY InSigned
<1>2. Grounded(c)
  BY <1>1, GroundedCut DEF Whole
<1>3. In(c) = In(l) \ {s} /\ \A y \in Sched : c.sched[y].qi = l.sched[y].qi
  BY CutProps
<1>4. c.fq = [l.fq EXCEPT ![r] = Without(l.fq[r], s)]
  BY DEF Cut
<1>5. l.fq \in [Queue -> Seq(Sched)] /\ ArrayOf(l, r)
  BY <1>1 DEF GoodList, ListType
<1>6. c.fq[r] = Without(l.fq[r], s) /\ \A q \in Queue : q # r => c.fq[q] = l.fq[q]
  BY <1>1, <1>4, <1>5
<1> HIDE DEF c, r
<1>7. ASSUME NEW q \in Q, NEW y \in In(c), c.sched[y].qi = q
      PROVE  \E i \in DOMAIN c.fq[q] : c.fq[q][i] = y
  <2>1. y \in In(l) /\ y # s /\ y \in Sched /\ l.sched[y].qi = q /\ q \in Queue
    BY <1>3, <1>7 DEF In
  <2>2. \E i \in DOMAIN l.fq[q] : l.fq[q][i] = y
    BY <2>1 DEF Whole, Complete
  <2>3. CASE q = r
    <3>1. \A i, j \in DOMAIN l.fq[r] : l.fq[r][i] = l.fq[r][j] => i = j
      BY <1>5 DEF ArrayOf
    <3>2. l.fq[r] \in Seq(Sched)
      BY <1>1, <1>5
    <3> DEFINE a == l.fq[r]
    <3>3. a \in Seq(Sched)
      BY <3>2
    <3>4. PICK k \in DOMAIN a : a[k] = y
      BY <2>2, <2>3
    <3>5. a[k] # s
      BY <2>1, <3>4
    <3>6. \A i, j \in DOMAIN a : a[i] = a[j] => i = j
      BY <3>1
    <3> HIDE DEF a
    <3>7. \E i \in DOMAIN Without(a, s) : Without(a, s)[i] = a[k]
      BY <3>3, <3>5, <3>6, WithoutKeeps
    <3>8. QED
      BY <1>6, <2>3, <3>4, <3>7 DEF a
  <2>4. CASE q # r
    BY <1>6, <2>1, <2>2, <2>4
  <2>5. QED
    BY <2>3, <2>4
<1>8. \A y \in In(c) : c.sched[y].qi \in O
  BY <1>3 DEF Whole, In
<1>9. QED
  BY <1>2, <1>7, <1>8 DEF Whole, Complete, c, r

(* Schedules with the same links, entries and arrays.                      *)
LEMMA WholeSame ==
  ASSUME NEW l, NEW k, NEW Q, NEW O, Whole(l, Q, O), In(k) = In(l), k.fq = l.fq,
         \A y \in Sched : k.sched[y].prev = l.sched[y].prev,
         \A y \in In(l) : k.sched[y].qi = l.sched[y].qi
  PROVE  Whole(k, Q, O)
<1>1. Grounded(k)
  BY DEF Whole, Grounded
<1>2. \A q \in Q : Complete(k, q)
  BY DEF Whole, Complete
<1>3. \A y \in In(k) : k.sched[y].qi \in O
  BY DEF Whole
<1>4. QED
  BY <1>1, <1>2, <1>3 DEF Whole

(* eid_add(): the entry is reached from its predecessor, and is in fq.     *)
LEMMA WholeLinked ==
  ASSUME NEW l, NEW times, GoodList(l, times), NEW Q \in SUBSET Queue, NEW O, Whole(l, Q, O),
         NEW s \in Sched, ~l.sched[s].sign,
         NEW h \in Handle, NEW e \in Event, NEW q \in Queue, q \in O,
         NEW epp \in Sched \cup {Nil}, StopsAfter(l, times, times[e], epp)
  PROVE  Whole(Linked(l, s, NewEntry(h, e, q), epp), Q, O)
<1> DEFINE new == NewEntry(h, e, q)
           elp == After(l, epp)
           f == Linked(l, s, new, epp)
<1>1. /\ In(f) = In(l) \cup {s} /\ f.sched[s].qi = q
      /\ \A y \in Sched : y # s => f.sched[y].qi = l.sched[y].qi
  BY LinkedProps
<1>2. \A y \in Sched : f.sched[y].prev = IF y = s THEN epp
                                         ELSE IF y = elp THEN s ELSE l.sched[y].prev
  BY DEF Linked, Between
<1>3. f.fq = [l.fq EXCEPT ![q] = Append(l.fq[q], s)]
  BY DEF Linked, NewEntry
<1>4. l.fq \in [Queue -> Seq(Sched)] /\ l.head \in Sched \cup {Nil}
  BY DEF GoodList, ListType
<1>5. l.sched[s] = Blank /\ l.sched[s].next = Nil /\ s # l.head
  <2>1. l.sched[s] = Blank /\ s # l.head
    BY LinkFacts
  <2>2. QED
    BY <2>1 DEF Blank
<1>6. epp # Nil => epp \in In(l) /\ epp \in Sched /\ l.sched[epp].sign
  BY PassedProps, InSigned DEF StopsAfter
<1>7. elp # Nil => l.sched[elp].prev = epp
  <2>1. CASE epp = Nil
    BY <1>4, <2>1, LinkFacts DEF After
  <2>2. CASE epp # Nil
    BY <1>6, <2>2, LinkFacts DEF After
  <2>3. QED
    BY <2>1, <2>2
<1> HIDE DEF f, elp, new
<1>8. Grounded(f)
  <2>1. SUFFICES ASSUME NEW S \in SUBSET Sched, \A y \in S : f.sched[y].prev \in S
                 PROVE  S = {}
    BY DEF Grounded
  <2> DEFINE R == S \ {s}
  <2>2. ASSUME NEW y \in R PROVE l.sched[y].prev \in R
    <3>0. y \in S /\ y # s /\ y \in Sched /\ y # Nil
      BY NilAssumption
    <3>1. CASE y = elp
      <4>1. s \in S
        BY <1>2, <2>1, <3>0, <3>1
      <4>2. epp \in S /\ epp # Nil
        BY <1>2, <2>1, <4>1, NilAssumption
      <4>3. epp # s
        BY <1>6, <4>2
      <4>4. QED
        BY <1>7, <3>0, <3>1, <4>2, <4>3
    <3>2. CASE y # elp
      <4>1. l.sched[y].prev \in S /\ l.sched[y].prev # Nil
        BY <1>2, <2>1, <3>0, <3>2, NilAssumption
      <4>2. l.sched[l.sched[y].prev].next = y
        BY <3>0, <4>1, LinkFacts
      <4>3. l.sched[y].prev # s
        BY <1>5, <3>0, <4>2
      <4>4. QED
        BY <4>1, <4>3
    <3>3. QED
      BY <3>1, <3>2
  <2>3. R = {}
    <3>1. R \in SUBSET Sched
      OBVIOUS
    <3> HIDE DEF R
    <3>2. QED
      BY <2>2, <3>1 DEF Whole, Grounded
  <2>4. s \notin S
    <3>1. SUFFICES ASSUME s \in S PROVE FALSE
      OBVIOUS
    <3>2. epp \in S /\ epp # Nil
      BY <1>2, <2>1, <3>1, NilAssumption
    <3>3. epp # s
      BY <1>6, <3>2
    <3>4. QED
      BY <2>3, <3>2, <3>3
  <2>5. QED
    BY <2>3, <2>4
<1>9. ASSUME NEW r \in Q, NEW y \in In(f), f.sched[y].qi = r
      PROVE  \E i \in DOMAIN f.fq[r] : f.fq[r][i] = y
  <2>1. r \in Queue /\ y \in Sched
    BY DEF In
  <2>2. CASE r = q
    <3> DEFINE a == l.fq[q]
    <3>1. f.fq[r] = Append(a, s) /\ a \in Seq(Sched)
      BY <1>3, <1>4, <2>2
    <3>2. y # s => \E i \in DOMAIN a : a[i] = y
      BY <1>1, <1>9, <2>1, <2>2 DEF Whole, Complete
    <3> HIDE DEF a
    <3>3. /\ Append(a, s)[Len(a) + 1] = s /\ Len(a) + 1 \in DOMAIN Append(a, s)
          /\ \A i \in DOMAIN a : i \in DOMAIN Append(a, s) /\ Append(a, s)[i] = a[i]
      BY <3>1
    <3>4. QED
      BY <3>1, <3>2, <3>3
  <2>3. CASE r # q
    <3>1. f.fq[r] = l.fq[r] /\ y # s /\ y \in In(l) /\ l.sched[y].qi = r
      BY <1>1, <1>3, <1>4, <1>9, <2>1, <2>3
    <3>2. QED
      BY <3>1 DEF Whole, Complete
  <2>4. QED
    BY <2>2, <2>3
<1>10. \A y \in In(f) : f.sched[y].qi \in O
  BY <1>1 DEF Whole, In
<1>11. QED
  BY <1>8, <1>9, <1>10 DEF Whole, Complete, f, new

(* What a step installs is what the next state has.                        *)
LEMMA WholeInstall ==
  ASSUME WholeInv, NEW l, Install(l), Whole(l, OpenQueues, opened), UNCHANGED iohVars,
         phase' = "close" => phase = "close" /\ closing'.q = closing.q
  PROVE  WholeInv'
<1> DEFINE k == Schedules'
<1>1. k.head = l.head /\ k.sched = l.sched /\ k.fq = l.fq
  BY DEF Install, Schedules
<1> HIDE DEF k
<1>2. Whole(k, OpenQueues, opened)
  <2>1. In(k) = In(l)
    BY <1>1 DEF In
  <2>2. QED
    BY <1>1, <2>1, WholeSame
<1>3. OpenQueues' = OpenQueues /\ opened' = opened
  BY DEF OpenQueues, iohVars
<1>4. Whole(Schedules, OpenQueues, opened)'
  BY <1>2, <1>3 DEF k
<1>5. QED
  BY <1>3, <1>4 DEF WholeInv

(* Steps that leave the schedules alone.                                   *)
LEMMA WholeKept ==
  ASSUME WholeInv, UNCHANGED <<listVars, iohVars>>,
         phase' = "close" => phase = "close" /\ closing'.q = closing.q
  PROVE  WholeInv'
<1>1. Schedules' = Schedules /\ OpenQueues' = OpenQueues /\ opened' = opened
  BY DEF Schedules, OpenQueues, listVars, iohVars
<1>2. Whole(Schedules, OpenQueues, opened)'
  BY <1>1 DEF WholeInv
<1>3. QED
  BY <1>1, <1>2 DEF WholeInv

(* eid_unlink() of an entry in the list, and its deletion.                 *)
LEMMA WholeUnlinked ==
  ASSUME QInv, WholeInv, NEW s \in Scheduled
  PROVE  Whole(Unlinked(Schedules, s, sched[s].qi), OpenQueues, opened)
<1> DEFINE c == Cut(Schedules, s, sched[s].qi)
           f == Freed(c, s)
           u == Armed(f, evtime)
<1>1. GoodList(Schedules, evtime) /\ s \in In(Schedules) /\ Schedules.sched = sched
  BY PresentList DEF Schedules
<1>2. Whole(c, OpenQueues, opened)
  <2>1. OpenQueues \in SUBSET Queue /\ Whole(Schedules, OpenQueues, opened)
    BY DEF OpenQueues, WholeInv
  <2>2. Whole(Cut(Schedules, s, Schedules.sched[s].qi), OpenQueues, opened)
    BY <1>1, <2>1, WholeCut
  <2>3. QED
    BY <1>1, <2>2
<1>3. GoodList(c, evtime) /\ In(c) = Scheduled \ {s} /\ c.sched[s].prev = Nil
  <2>1. GoodList(c, evtime) /\ In(c) = Scheduled \ {s}
    BY PartCut DEF Part
  <2>2. s \in Sched /\ s \notin In(c)
    BY <2>1 DEF Scheduled
  <2> HIDE DEF c
  <2>3. QED
    BY <2>1, <2>2 DEF In
<1>4. s \in Sched
  BY DEF Scheduled
<1> HIDE DEF c
<1>5. /\ GoodList(f, evtime) /\ In(f) = In(c) /\ f.fq = c.fq
      /\ f.sched = [c.sched EXCEPT ![s] = Blank]
  BY <1>3, <1>4, FreedProps
<1> HIDE DEF f
<1>6. Whole(f, OpenQueues, opened)
  <2>1. \A y \in Sched : f.sched[y].prev = c.sched[y].prev
    BY <1>3, <1>5 DEF GoodList, ListType, Blank
  <2>2. \A y \in In(c) : f.sched[y].qi = c.sched[y].qi
    BY <1>3, <1>5 DEF GoodList, ListType, In
  <2>3. In(f) = In(c) /\ f.fq = c.fq
    BY <1>5
  <2>4. QED
    BY <1>2, <2>1, <2>2, <2>3, WholeSame
<1>7. In(u) = In(f) /\ u.fq = f.fq /\ u.sched = f.sched
  BY <1>5, NowNat, ArmedProps
<1> HIDE DEF u
<1>8. Whole(u, OpenQueues, opened)
  BY <1>6, <1>7, WholeSame
<1>9. QED
  BY <1>8 DEF Unlinked, c, f, u

(* pushto() on such schedules.                                             *)
LEMMA WholePushTo ==
  ASSUME QInv, WholeInv, phase = "run", NEW l, Part(l), Whole(l, OpenQueues, opened),
         NEW h \in Handle, ioh[h] \in Queue, NEW e \in Event, NEW at \in Nat,
         PushTo(l, h, ioh[h], e, at), UNCHANGED <<phase, iohVars>>
  PROVE  WholeInv'
<1> DEFINE q == ioh[h]
<1>1. /\ e \notin heap
      /\ evtime' = [evtime EXCEPT ![e] = IF at = 0 THEN now ELSE at]
      /\ evtime \in [Event -> Nat] /\ now \in Nat
  BY NowNat DEF PushTo, QInv, TypeOK
<1>2. GoodList(l, evtime')
  <2>1. evtime' \in [Event -> Nat] /\ \A x \in Event \ {e} : evtime'[x] = evtime[x]
    BY <1>1
  <2>2. ASSUME NEW s \in In(l)
        PROVE  l.sched[s].ev \in Event \ {e}
    <3>1. s \in Sched /\ l.sched[s].sign /\ l.sched[s].ev \in Event
      BY InSigned DEF Part
    <3>2. s \in Scheduled /\ l.sched[s].ev = sched[s].ev
      BY <3>1 DEF Part
    <3>3. sched[s].ev \in heap
      BY <3>2 DEF QInv, OnePlace
    <3>4. QED
      BY <1>1, <3>1, <3>2, <3>3
  <2>3. \A s \in In(l) : evtime'[l.sched[s].ev] = evtime[l.sched[s].ev]
    BY <2>1, <2>2
  <2>4. QED
    BY <2>1, <2>3, TimesProps DEF Part
<1>3. CASE now < at
  <2>1. PICK s \in Sched, epp \in Sched \cup {Nil} :
          /\ ~sched[s].sign
          /\ StopsAfter(l, evtime', at, epp)
          /\ Install(Armed(Linked(l, s, NewEntry(h, e, q), epp), evtime'))
    BY <1>3 DEF PushTo
  <2> DEFINE k == Linked(l, s, NewEntry(h, e, q), epp)
             m == Armed(k, evtime')
  <2>2. evtime'[e] = at
    BY <1>1, <1>3
  <2>3. ~l.sched[s].sign
    BY <2>1 DEF Part
  <2>4. OpenQueues \in SUBSET Queue /\ q \in opened
    BY DEF OpenQueues, WholeInv
  <2>5. Whole(k, OpenQueues, opened)
    BY <1>2, <2>1, <2>2, <2>3, <2>4, WholeLinked
  <2>6. GoodList(k, evtime')
    BY <1>2, <2>1, <2>2, <2>3, LinkedProps
  <2> HIDE DEF k
  <2>7. In(m) = In(k) /\ m.sched = k.sched /\ m.fq = k.fq
    <3> SUFFICES ASSUME NEW times, times = evtime'
                 PROVE  LET f == Armed(k, times) IN
                        In(f) = In(k) /\ f.sched = k.sched /\ f.fq = k.fq
      OBVIOUS
    <3>1. GoodList(k, times)
      BY <2>6
    <3>2. QED
      BY <1>1, <3>1, ArmedProps
  <2>8. Install(m)
    BY <2>1 DEF k
  <2> HIDE DEF m
  <2>9. Whole(m, OpenQueues, opened)
    BY <2>5, <2>7, WholeSame
  <2>10. QED
    BY <2>8, <2>9, WholeInstall
<1>4. CASE ~(now < at)
  <2>1. Install(l)
    BY <1>4 DEF PushTo
  <2>2. QED
    BY <2>1, WholeInstall
<1>5. QED
  BY <1>3, <1>4

LEMMA InitWhole == ASSUME Init PROVE WholeInv
<1>1. /\ \A s \in Sched : Schedules.sched[s].prev = Nil
      /\ Schedules.head = Nil
  BY DEF Init, Schedules, Blank
<1>2. In(Schedules) = {}
  BY <1>1, NilAssumption DEF In
<1>3. Grounded(Schedules)
  BY <1>1, NilAssumption DEF Grounded
<1>4. OpenQueues = {}
  BY NilAssumption DEF OpenQueues, Init
<1>5. phase # "close"
  BY DEF Init
<1>6. QED
  BY <1>2, <1>3, <1>4, <1>5 DEF WholeInv, Whole

(* qe_create(): no entry has a queue that was not there yet.               *)
LEMMA CreateWhole ==
  ASSUME QInv, WholeInv, NEW t \in Thread, NEW h \in Handle, NEW q \in Queue, Create(t, h, q)
  PROVE  WholeInv'
<1>1. Schedules' = Schedules /\ opened' = opened \cup {q} /\ q \notin opened /\ phase' = "run"
  BY DEF Create, Runs, Schedules, listVars
<1>2. OpenQueues' \subseteq OpenQueues \cup {q}
  <2>1. ioh' = [ioh EXCEPT ![h] = q] /\ ioh \in [Handle -> Queue \cup {Nil}]
    BY DEF Create, QInv, TypeOK
  <2>2. QED
    BY <2>1 DEF OpenQueues
<1>3. \A r \in OpenQueues' : Complete(Schedules, r)
  <2>1. Complete(Schedules, q)
    BY <1>1 DEF Complete, WholeInv, Whole
  <2>2. QED
    BY <1>2, <2>1 DEF WholeInv, Whole
<1>4. Whole(Schedules, OpenQueues', opened')
  BY <1>1, <1>3 DEF WholeInv, Whole
<1>5. QED
  BY <1>1, <1>2, <1>4 DEF WholeInv

(* qe_open(): the queue has a handle already.                              *)
LEMMA OpenWhole ==
  ASSUME QInv, WholeInv, NEW t \in Thread, NEW h \in Handle, NEW q \in Queue, Open(t, h, q)
  PROVE  WholeInv'
<1>1. Schedules' = Schedules /\ opened' = opened /\ phase' = "run"
  BY DEF Open, Runs, Schedules, listVars
<1>2. OpenQueues' = OpenQueues
  <2>1. ioh' = [ioh EXCEPT ![h] = q] /\ ioh \in [Handle -> Queue \cup {Nil}]
    BY DEF Open, QInv, TypeOK
  <2>2. ioh[h] = Nil /\ \E g \in Handle : ioh[g] = q
    BY DEF Open, FreeHandle
  <2>3. QED
    BY <2>1, <2>2, NilAssumption DEF OpenQueues
<1>3. Whole(Schedules, OpenQueues, opened)'
  BY <1>1, <1>2 DEF WholeInv
<1>4. QED
  BY <1>1, <1>2, <1>3 DEF WholeInv

(* qe_close(): with the last handle the queue is not served any more.      *)
LEMMA CloseWhole ==
  ASSUME QInv, WholeInv, NEW t \in Thread, NEW h \in Handle, Close(t, h)
  PROVE  WholeInv'
<1>1. Schedules' = Schedules /\ opened' = opened
  BY DEF Close, Schedules, listVars
<1>2. ioh' = [ioh EXCEPT ![h] = Nil] /\ ioh \in [Handle -> Queue \cup {Nil}]
  BY DEF Close, QInv, TypeOK
<1>3. OpenQueues' \subseteq OpenQueues
  BY <1>2, NilAssumption DEF OpenQueues
<1>4. phase' = "close" => closing'.q \notin OpenQueues'
  <2>1. SUFFICES ASSUME phase' = "close", NEW g \in Handle, ioh'[g] = closing'.q PROVE FALSE
    BY DEF OpenQueues
  <2>2. LastHandle(h) /\ closing'.q = ioh[h] /\ ioh[h] # Nil
    BY <2>1 DEF Close, Runs, Valid
  <2>3. g # h /\ ioh[g] = ioh[h]
    BY <1>2, <2>1, <2>2
  <2>4. QED
    BY <2>2, <2>3 DEF LastHandle
<1>5. Whole(Schedules, OpenQueues', opened')
  BY <1>1, <1>3 DEF WholeInv, Whole
<1>6. QED
  BY <1>1, <1>3, <1>4, <1>5 DEF WholeInv

LEMMA CloseNextWhole == ASSUME QInv, WholeInv, CloseNext PROVE WholeInv'
<1> DEFINE q == closing.q
           s == fq[q][closing.ii + 1]
           u == Unlinked(Schedules, s, sched[s].qi)
<1>1. /\ phase = "close" /\ q \in Queue /\ closing.ii \in Nat /\ fq[q] \in Seq(Sched)
      /\ closing \in [q : Queue \cup {Nil}, ii : Nat]
  BY DEF CloseNext, QInv, TypeOK, LoopInv
<1>2. closing.ii + 1 \in DOMAIN fq[q]
  BY <1>1 DEF CloseNext
<1>3. s \in Scheduled /\ sched[s].qi = q
  BY <1>1, <1>2 DEF QInv, OwnerInv
<1>4. Whole(u, OpenQueues, opened)
  BY <1>3, WholeUnlinked
<1>5. /\ Install(u) /\ UNCHANGED iohVars
      /\ closing' = [closing EXCEPT !.ii = closing.ii + 1]
  BY <1>3 DEF CloseNext
<1>6. closing'.q = closing.q
  BY <1>1, <1>5
<1> HIDE DEF u, s, q
<1>7. QED
  BY <1>1, <1>4, <1>5, <1>6, WholeInstall

(* fq.Clear() of a queue without handles.                                  *)
LEMMA CloseEndWhole == ASSUME QInv, WholeInv, CloseEnd PROVE WholeInv'
<1>1. /\ sched' = sched /\ se_list' = se_list /\ alarm' = alarm
      /\ ioh' = ioh /\ opened' = opened /\ phase' = "run"
  BY DEF CloseEnd, iohVars
<1>2. OpenQueues' = OpenQueues
  BY <1>1 DEF OpenQueues
<1>3. \A q \in OpenQueues : fq'[q] = fq[q]
  BY DEF CloseEnd, WholeInv, OpenQueues, QInv, TypeOK
<1>4. /\ Schedules'.sched = Schedules.sched /\ Schedules'.head = Schedules.head
      /\ Schedules'.fq = fq' /\ Schedules.fq = fq
  BY <1>1 DEF Schedules
<1> DEFINE k == Schedules'
<1>5. k.sched = Schedules.sched /\ k.head = Schedules.head /\ k.fq = fq'
  BY <1>4
<1> HIDE DEF k
<1>6. In(k) = In(Schedules)
  BY <1>5 DEF In
<1>7. Whole(k, OpenQueues, opened)
  <2>1. Grounded(k)
    BY <1>5 DEF WholeInv, Whole, Grounded
  <2>2. \A q \in OpenQueues : Complete(k, q)
    BY <1>3, <1>4, <1>5, <1>6 DEF WholeInv, Whole, Complete
  <2>3. \A y \in In(k) : k.sched[y].qi \in opened
    BY <1>5, <1>6 DEF WholeInv, Whole
  <2>4. QED
    BY <2>1, <2>2, <2>3 DEF Whole
<1>8. Whole(Schedules, OpenQueues, opened)'
  BY <1>1, <1>2, <1>7 DEF k
<1>9. QED
  BY <1>1, <1>2, <1>8 DEF WholeInv

(* cbattime(): the head leaves.                                            *)
LEMMA DeliverWhole == ASSUME QInv, WholeInv, Deliver PROVE WholeInv'
<1> DEFINE s == se_list
           q == sched[s].qi
           first == IF et = NoTime THEN evtime[sched[s].ev] ELSE et
           l == Cut(Schedules, s, q)
           more == l.head # Nil /\ InBatch(evtime[l.sched[l.head].ev], first)
           n == IF more THEN l ELSE Rearmed(l, first)
<1>1. /\ phase = "switch" /\ se_list # Nil
      /\ et = NoTime => alarm.usr = se_list
  BY DEF Deliver, MayFire, QInv, LoopInv, AlarmFollowsList
<1>2. s \in Scheduled
  BY <1>1 DEF QInv, TypeOK, Scheduled
<1>3. Install(n) /\ UNCHANGED <<phase, iohVars>>
  BY <1>1 DEF Deliver
<1>4. GoodList(Schedules, evtime) /\ s \in In(Schedules) /\ Schedules.sched = sched
  BY <1>2, PresentList DEF Schedules
<1>5. Whole(l, OpenQueues, opened)
  <2>1. OpenQueues \in SUBSET Queue /\ Whole(Schedules, OpenQueues, opened)
    BY DEF OpenQueues, WholeInv
  <2>2. Whole(Cut(Schedules, s, Schedules.sched[s].qi), OpenQueues, opened)
    BY <1>4, <2>1, WholeCut
  <2>3. QED
    BY <1>4, <2>2
<1> HIDE DEF l, s, q
<1>6. n.head = l.head /\ n.sched = l.sched /\ n.fq = l.fq
  BY DEF Rearmed, Timed
<1> HIDE DEF n
<1>7. Whole(n, OpenQueues, opened)
  <2>1. In(n) = In(l)
    BY <1>6 DEF In
  <2>2. QED
    BY <1>5, <1>6, <2>1, WholeSame
<1>8. QED
  BY <1>1, <1>3, <1>7, WholeInstall

LEMMA PostWhole ==
  ASSUME QInv, WholeInv, NEW t \in Thread, NEW h \in Handle, NEW e \in Event, Post(t, h, e)
  PROVE  WholeInv'
<1>1. phase = "run" /\ et = NoTime /\ ioh[h] \in Queue
  BY DEF Post, Runs, Valid, QInv, TypeOK, LoopInv
<1>2. Part(Schedules) /\ Whole(Schedules, OpenQueues, opened)
  BY <1>1, PartPresent DEF WholeInv
<1>3. PushTo(Schedules, h, ioh[h], e, 0) /\ UNCHANGED <<phase, iohVars>>
  BY DEF Post
<1>4. QED
  BY <1>1, <1>2, <1>3, WholePushTo

LEMMA ScheduleWhole ==
  ASSUME QInv, WholeInv, NEW t \in Thread, NEW h \in Handle, NEW e \in Event,
         NEW at \in When, Schedule(t, h, e, at)
  PROVE  WholeInv'
<1>1. phase = "run" /\ et = NoTime /\ ioh[h] \in Queue /\ at \in Nat
  BY TimeAssumption DEF Schedule, Runs, Valid, QInv, TypeOK, LoopInv
<1>2. Part(Schedules) /\ Whole(Schedules, OpenQueues, opened)
  BY <1>1, PartPresent DEF WholeInv
<1>3. PushTo(Schedules, h, ioh[h], e, at) /\ UNCHANGED <<phase, iohVars>>
  BY DEF Schedule
<1>4. QED
  BY <1>1, <1>2, <1>3, WholePushTo

LEMMA RescheduleWhole ==
  ASSUME QInv, WholeInv, OwnIds, NEW t \in Thread, NEW s \in Sched,
         NEW e \in Event, NEW at \in When, Reschedule(t, s, e, at)
  PROVE  WholeInv'
<1> DEFINE h == sched[s].owner
           u == Unlinked(Schedules, s, sched[s].qi)
<1>1. phase = "run" /\ at \in Nat
  BY TimeAssumption DEF Reschedule, Runs
<1>2. s \in Scheduled /\ h \in Handle /\ ioh[h] = sched[s].qi /\ ioh[h] \in Queue
  BY EventIdProps DEF Reschedule
<1>3. Part(u) /\ Whole(u, OpenQueues, opened)
  BY <1>2, PartUnlinked, WholeUnlinked
<1>4. PushTo(u, h, ioh[h], e, at) /\ UNCHANGED <<phase, iohVars>>
  BY <1>2 DEF Reschedule
<1> HIDE DEF u, h
<1>5. QED
  BY <1>1, <1>2, <1>3, <1>4, WholePushTo

LEMMA UnscheduleWhole ==
  ASSUME QInv, WholeInv, OwnIds, NEW t \in Thread, NEW s \in Sched, Unschedule(t, s)
  PROVE  WholeInv'
<1> DEFINE u == Unlinked(Schedules, s, sched[s].qi)
<1>1. s \in Scheduled /\ ioh[sched[s].owner] = sched[s].qi
  BY EventIdProps DEF Unschedule
<1>2. Whole(u, OpenQueues, opened)
  BY <1>1, WholeUnlinked
<1>3. Install(u) /\ UNCHANGED <<phase, iohVars>> /\ phase = "run"
  BY <1>1 DEF Unschedule, Runs
<1> HIDE DEF u
<1>4. QED
  BY <1>2, <1>3, WholeInstall

LEMMA NextWhole ==
  ASSUME OwnIds, QInv, WholeInv, [Next]_vars
  PROVE  WholeInv'
<1> DEFINE Keeps == /\ UNCHANGED <<listVars, iohVars>>
                    /\ phase' = "close" => phase = "close" /\ closing'.q = closing.q
<1>1. ASSUME Keeps PROVE WholeInv'
  BY <1>1, WholeKept
<1>2. CASE Tick \/ UNCHANGED vars
  BY <1>1, <1>2 DEF Tick, vars
<1>3. CASE Kernel
  <2>1. CASE Switch \/ EndSwitch
    BY <1>1, <2>1 DEF Switch, EndSwitch
  <2>2. QED
    BY <1>3, <2>1, DeliverWhole DEF Kernel
<1>4. CASE CloseNext \/ CloseEnd
  BY <1>4, CloseNextWhole, CloseEndWhole
<1>5. ASSUME NEW t \in Thread, Program(t) PROVE WholeInv'
  <2>1. CASE \E h \in Handle, q \in Queue : Create(t, h, q) \/ Open(t, h, q)
    BY <2>1, CreateWhole, OpenWhole
  <2>2. CASE \E h \in Handle : Close(t, h)
    BY <2>2, CloseWhole
  <2>3. CASE \E h \in Handle, e \in Event : Post(t, h, e)
    BY <2>3, PostWhole
  <2>4. CASE \E h \in Handle, e \in Event, at \in When : Schedule(t, h, e, at)
    BY <2>4, ScheduleWhole
  <2>5. CASE \E s \in Sched : Unschedule(t, s)
    BY <2>5, UnscheduleWhole
  <2>6. CASE \E s \in Sched, e \in Event, at \in When : Reschedule(t, s, e, at)
    BY <2>6, RescheduleWhole
  <2>7. CASE \/ \E h \in Handle : Clear(t, h)
             \/ \E h \in Handle, i \in 1..Cardinality(Event) : Take(t, h, i)
             \/ \E h \in Handle, b \in BOOLEAN : WaitEvent(t, h, b)
             \/ \E e \in Event : FreeEvent(t, e)
    <3>1. Keeps
      BY <2>7 DEF Clear, Take, WaitEvent, FreeEvent
    <3>2. QED
      BY <1>1, <3>1
  <2>8. QED
    BY <1>5, <2>1, <2>2, <2>3, <2>4, <2>5, <2>6, <2>7 DEF Program
<1>6. ASSUME NEW t \in Thread, Ask(t) \/ Got(t) PROVE WholeInv'
  <2>1. Keeps
    BY <1>6 DEF Ask, Got
  <2>2. QED
    BY <1>1, <2>1
<1>7. QED
  BY <1>2, <1>3, <1>4, <1>5, <1>6 DEF Next

(* The walk along "next" is a function.                                    *)
LEMMA LinkIs ==
  ASSUME QInv
  PROVE  /\ Cardinality(Sched) \in Nat
         /\ Link \in [0..Cardinality(Sched) -> Sched \cup {Nil}]
         /\ Link[0] = se_list
         /\ \A i \in 0..(Cardinality(Sched) - 1) :
              Link[i + 1] = IF Link[i] = Nil THEN Nil ELSE sched[Link[i]].next
<1> DEFINE T == Sched \cup {Nil}
           N == Cardinality(Sched)
           g == [x \in T |-> IF x = Nil THEN Nil ELSE sched[x].next]
           Eq(s) == s = [n \in 0..N |-> IF n = 0 THEN se_list
                                        ELSE LET x == s[n - 1] IN
                                             IF x = Nil THEN Nil ELSE sched[x].next]
<1>1. N \in Nat
  BY HeapAssumption, FS_CardinalityType
<1>2. se_list \in T /\ sched \in [Sched -> Entry]
  BY DEF QInv, TypeOK
<1>3. \A x \in Sched : sched[x].next \in T
  BY <1>2 DEF Entry
<1>4. g \in [T -> T]
  BY <1>3
<1> HIDE DEF N
<1>5. Orbits(N, T, se_list, g) # {}
  <2> HIDE DEF g, T
  <2>1. QED
    BY <1>1, <1>2, <1>4, Orbit
<1>6. \E s : Eq(s)
  <2>1. PICK s \in [0..N -> T] :
          \A i \in 0..N : s[i] = IF i = 0 THEN se_list ELSE g[s[i - 1]]
    BY <1>5 DEF Orbits
  <2>2. ASSUME NEW i \in 0..N, i # 0
        PROVE  g[s[i - 1]] = IF s[i - 1] = Nil THEN Nil ELSE sched[s[i - 1]].next
    <3>1. i - 1 \in 0..N
      BY <1>1, <2>2
    <3>2. QED
      BY <3>1
  <2> HIDE DEF g
  <2>3. Eq(s)
    BY <2>1, <2>2
  <2>4. QED
    BY <2>3
<1>7. Eq(Link)
  <2>1. Link = CHOOSE s : Eq(s)
    BY DEF Link, N
  <2> HIDE DEF Eq
  <2>2. QED
    BY <1>6, <2>1
<1>8. Link[0] = se_list
  BY <1>1, <1>7
<1>9. \A i \in 0..(N - 1) : Link[i + 1] = IF Link[i] = Nil THEN Nil ELSE sched[Link[i]].next
  <2>1. TAKE i \in 0..(N - 1)
  <2>2. i + 1 \in 0..N /\ i + 1 # 0 /\ (i + 1) - 1 = i
    BY <1>1
  <2>3. QED
    BY <1>7, <2>2
<1>10. Link \in [0..N -> T]
  <2> DEFINE S == {i \in 0..N : Link[i] \in T}
  <2>1. 0 \in S
    BY <1>1, <1>2, <1>8
  <2>2. \A i \in 0..(N - 1) : i \in S => i + 1 \in S
    BY <1>1, <1>3, <1>9
  <2>3. \A i \in 0..N : i \in S
    <3> HIDE DEF S
    <3> QED
      BY <1>1, <2>1, <2>2, UpTo
  <2>4. QED
    BY <1>7, <2>3
<1>11. QED
  BY <1>1, <1>8, <1>9, <1>10 DEF N

(* The entries that the walk meets are linked both ways.                   *)
LEMMA LinkMeets ==
  ASSUME QInv, NEW n \in 0..Cardinality(Sched), Link[n] # Nil
  PROVE  /\ Link[n] \in Sched
         /\ sched[Link[n]].sign
         /\ n = 0 => sched[Link[n]].prev = Nil
         /\ n # 0 => /\ n - 1 \in 0..Cardinality(Sched)
                     /\ Link[n - 1] \in Sched
                     /\ sched[Link[n - 1]].next = Link[n]
                     /\ sched[Link[n]].prev = Link[n - 1]
                     /\ evtime[sched[Link[n - 1]].ev] =< evtime[sched[Link[n]].ev]
<1> DEFINE N == Cardinality(Sched)
<1>1. /\ N \in Nat /\ Link \in [0..N -> Sched \cup {Nil}] /\ Link[0] = se_list
      /\ \A i \in 0..(N - 1) :
           Link[i + 1] = IF Link[i] = Nil THEN Nil ELSE sched[Link[i]].next
  BY LinkIs
<1> HIDE DEF N
<1>2. n \in 0..N
  BY DEF N
<1>3. CASE n = 0
  BY <1>1, <1>2, <1>3 DEF QInv, LinkInv
<1>4. CASE n # 0
  <2>1. n - 1 \in 0..(N - 1) /\ (n - 1) + 1 = n /\ n - 1 \in 0..N
    BY <1>1, <1>2, <1>4
  <2>2. Link[n] = IF Link[n - 1] = Nil THEN Nil ELSE sched[Link[n - 1]].next
    BY <1>1, <2>1
  <2>3. Link[n - 1] \in Sched /\ sched[Link[n - 1]].next = Link[n] /\ Link[n] \in Sched
    BY <1>1, <1>2, <2>1, <2>2
  <2> DEFINE s == Link[n - 1]
  <2>4. /\ sched[sched[s].next].sign /\ sched[sched[s].next].prev = s
        /\ evtime[sched[s].ev] =< evtime[sched[sched[s].next].ev]
    <3>1. s \in Sched /\ sched[s].next # Nil
      BY <2>3
    <3> HIDE DEF s
    <3>2. QED
      BY <3>1 DEF QInv, LinkInv
  <2>5. QED
    BY <1>4, <2>1, <2>3, <2>4 DEF N
<1>5. QED
  BY <1>3, <1>4

(* It meets no entry twice.                                                *)
LEMMA LinkOnce ==
  ASSUME QInv, NEW i \in 0..Cardinality(Sched), NEW j \in 0..Cardinality(Sched),
         Link[i] # Nil, Link[i] = Link[j]
  PROVE  i = j
<1> DEFINE N == Cardinality(Sched)
           T == {m \in 0..N : \E k \in 0..N : m < k /\ Link[m] # Nil /\ Link[m] = Link[k]}
<1>1. N \in Nat /\ Link \in [0..N -> Sched \cup {Nil}]
  BY LinkIs
<1>2. T = {}
  <2>1. SUFFICES ASSUME T # {} PROVE FALSE
    OBVIOUS
  <2>2. PICK m \in T : \A k \in T : m <= k
    <3>1. T \in SUBSET Nat
      OBVIOUS
    <3> HIDE DEF T
    <3>2. QED
      BY <2>1, <3>1, LeastNat
  <2>3. PICK k \in 0..N : m < k /\ Link[m] # Nil /\ Link[m] = Link[k]
    BY <2>2
  <2>4. m \in 0..N /\ k # 0 /\ Link[k] # Nil
    BY <1>1, <2>2, <2>3
  <2>5. k - 1 \in 0..N /\ Link[k - 1] \in Sched /\ sched[Link[k]].prev = Link[k - 1]
    BY <2>3, <2>4, LinkMeets
  <2>6. m # 0
    <3>1. m = 0 => sched[Link[m]].prev = Nil
      BY <2>3, <2>4, LinkMeets
    <3>2. QED
      BY <2>3, <2>5, <3>1, NilAssumption
  <2>7. m - 1 \in 0..N /\ Link[m - 1] \in Sched /\ sched[Link[m]].prev = Link[m - 1]
    BY <2>3, <2>4, <2>6, LinkMeets
  <2>8. m - 1 < k - 1 /\ ~(m <= m - 1)
    BY <1>1, <2>3, <2>4
  <2>9. Link[m - 1] # Nil /\ Link[m - 1] = Link[k - 1]
    BY <2>3, <2>5, <2>7, NilAssumption
  <2>10. m - 1 \in T
    BY <2>5, <2>7, <2>8, <2>9
  <2>11. QED
    BY <2>2, <2>8, <2>10
<1>3. ~(i < j) /\ ~(j < i)
  BY <1>2
<1>4. QED
  BY <1>1, <1>3

(* It ends.                                                                *)
LEMMA LinkEnds == ASSUME QInv PROVE Link[Cardinality(Sched)] = Nil
<1> DEFINE N == Cardinality(Sched)
<1>1. N \in Nat /\ Link \in [0..N -> Sched \cup {Nil}]
  BY LinkIs
<1>2. SUFFICES ASSUME Link[N] # Nil PROVE FALSE
  OBVIOUS
<1> DEFINE S == {i \in 0..N : Link[N - i] # Nil}
<1>3. 0 \in S
  BY <1>1, <1>2
<1>4. ASSUME NEW i \in 0..(N - 1), i \in S PROVE i + 1 \in S
  <2>1. N - i \in 0..N /\ N - i # 0 /\ Link[N - i] # Nil /\ i + 1 \in 0..N
    BY <1>1, <1>4
  <2>2. Link[(N - i) - 1] \in Sched
    BY <2>1, LinkMeets
  <2>3. (N - i) - 1 = N - (i + 1)
    BY <1>1
  <2>4. QED
    BY <2>1, <2>2, <2>3, NilAssumption
<1>5. \A i \in 0..N : i \in S
  <2> HIDE DEF S, N
  <2>1. QED
    BY <1>1, <1>3, <1>4, UpTo
<1>6. \A i \in 0..N : Link[i] # Nil
  <2>1. TAKE i \in 0..N
  <2>2. N - i \in 0..N /\ N - (N - i) = i
    BY <1>1
  <2>3. QED
    BY <1>5, <2>2
<1>7. Link \in [0..N -> Sched]
  BY <1>1, <1>6
<1>8. \A i, j \in 0..N : Link[i] = Link[j] => i = j
  BY <1>6, LinkOnce
<1>9. N < N
  <2>1. N \in Nat
    BY <1>1
  <2>2. QED
    BY <1>7, <1>8, <2>1, HeapAssumption, BoundedIndex
<1>10. QED
  BY <1>1, <1>9

(* It meets everything that is linked, or it would be cut off.             *)
LEMMA LinkAll ==
  ASSUME QInv, Grounded(Schedules)
  PROVE  Scheduled = {Link[n] : n \in 0..Cardinality(Sched)} \ {Nil}
<1> DEFINE N == Cardinality(Sched)
           R == {Link[n] : n \in 0..N} \ {Nil}
<1>1. /\ N \in Nat /\ Link \in [0..N -> Sched \cup {Nil}] /\ Link[0] = se_list
      /\ \A i \in 0..(N - 1) :
           Link[i + 1] = IF Link[i] = Nil THEN Nil ELSE sched[Link[i]].next
  BY LinkIs
<1>2. Link[N] = Nil
  BY LinkEnds
<1>3. ASSUME NEW s \in R PROVE s \in Scheduled
  <2>1. PICK n \in 0..N : s = Link[n] /\ Link[n] # Nil
    OBVIOUS
  <2>2. s \in Sched
    BY <1>1, <2>1
  <2>3. CASE n = 0
    BY <1>1, <2>1, <2>2, <2>3 DEF Scheduled
  <2>4. CASE n # 0
    <3>1. sched[s].prev \in Sched
      BY <2>1, <2>4, LinkMeets
    <3>2. QED
      BY <2>2, <3>1, NilAssumption DEF Scheduled
  <2>5. QED
    BY <2>3, <2>4
<1>4. ASSUME NEW p \in R, sched[p].next # Nil PROVE sched[p].next \in R
  <2>1. PICK n \in 0..N : p = Link[n] /\ Link[n] # Nil
    OBVIOUS
  <2>2. n \in 0..(N - 1) /\ n + 1 \in 0..N
    BY <1>1, <1>2, <2>1
  <2>3. Link[n + 1] = sched[p].next
    BY <1>1, <2>1, <2>2
  <2>4. QED
    BY <1>4, <2>2, <2>3
<1>5. se_list # Nil => se_list \in R
  <2>1. 0 \in 0..N
    BY <1>1
  <2>2. QED
    BY <1>1, <2>1
<1> HIDE DEF R, N
<1>6. Scheduled \ R = {}
  <2> DEFINE S == Scheduled \ R
  <2>1. S \in SUBSET Sched
    BY DEF Scheduled
  <2>2. ASSUME NEW s \in S PROVE sched[s].prev \in S
    <3>1. s \in Sched /\ s \notin R /\ s # Nil
      BY NilAssumption DEF Scheduled
    <3>2. sched[s].prev # Nil
      BY <1>5, <3>1 DEF Scheduled
    <3> DEFINE p == sched[s].prev
    <3>3. p \in Sched /\ sched[p].next = s
      BY <3>1, <3>2 DEF QInv, LinkInv, TypeOK, Entry
    <3> HIDE DEF p
    <3>4. p \in Scheduled
      BY <3>1, <3>3 DEF QInv, LinkInv
    <3>5. p \notin R
      BY <1>4, <3>1, <3>3
    <3>6. QED
      BY <3>4, <3>5 DEF p
  <2>3. \A s \in S : Schedules.sched[s].prev \in S
    BY <2>2 DEF Schedules
  <2> HIDE DEF S
  <2>4. S = {}
    BY <2>1, <2>3 DEF Grounded
  <2>5. QED
    BY <2>4 DEF S
<1>7. QED
  BY <1>3, <1>6 DEF R, N

(* So the walk gives the sorted list, and fq its parts.                    *)
LEMMA ListFromInv ==
  ASSUME QInv, WholeInv
  PROVE  ListSound
<1> DEFINE N == Cardinality(Sched)
           D == {m \in 1..N : Link[m - 1] # Nil}
           c == Chain
<1>1. N \in Nat /\ Link \in [0..N -> Sched \cup {Nil}]
  BY LinkIs
<1>2. DOMAIN c = D /\ \A i \in D : c[i] = Link[i - 1]
  BY DEF Chain
<1>3. ToSet(c) = Scheduled
  <2>1. Scheduled = {Link[n] : n \in 0..N} \ {Nil}
    BY LinkAll DEF WholeInv, Whole
  <2>2. Link[N] = Nil
    BY LinkEnds
  <2>3. ASSUME NEW n \in 0..N, Link[n] # Nil PROVE n + 1 \in D /\ c[n + 1] = Link[n]
    <3>1. n + 1 \in 1..N /\ (n + 1) - 1 = n
      BY <1>1, <2>2, <2>3
    <3>2. n + 1 \in D
      BY <2>3, <3>1
    <3> HIDE DEF D, c
    <3>3. QED
      BY <1>2, <3>1, <3>2
  <2>4. ASSUME NEW i \in D PROVE i - 1 \in 0..N /\ c[i] = Link[i - 1] /\ c[i] # Nil
    BY <1>1, <1>2
  <2> HIDE DEF c, D, N
  <2>5. QED
    BY <1>2, <2>1, <2>3, <2>4 DEF ToSet
<1> HIDE DEF c
<1>4. ASSUME NEW i \in D
      PROVE  /\ sched[c[i]].sign
             /\ sched[c[i]].prev = IF i = 1 THEN Nil ELSE c[i - 1]
             /\ i + 1 \in D => evtime[sched[c[i]].ev] =< evtime[sched[c[i + 1]].ev]
  <2>1. i - 1 \in 0..N /\ c[i] = Link[i - 1] /\ Link[i - 1] # Nil /\ i \in 1..N
    BY <1>1, <1>2
  <2>2. sched[c[i]].sign
    BY <2>1, LinkMeets
  <2>3. ASSUME i = 1 PROVE sched[c[i]].prev = Nil
    <3>1. i - 1 = 0
      BY <2>3
    <3>2. QED
      BY <2>1, <3>1, LinkMeets
  <2>4. ASSUME i # 1 PROVE sched[c[i]].prev = c[i - 1]
    <3>1. i - 1 # 0 /\ i - 1 \in 1..N
      BY <1>1, <2>1, <2>4
    <3>2. Link[(i - 1) - 1] \in Sched /\ sched[c[i]].prev = Link[(i - 1) - 1]
      BY <2>1, <3>1, LinkMeets
    <3>3. i - 1 \in D
      BY <3>1, <3>2, NilAssumption
    <3>4. c[i - 1] = Link[(i - 1) - 1]
      BY <1>2, <3>3
    <3>5. QED
      BY <3>2, <3>4
  <2>5. ASSUME i + 1 \in D
        PROVE  evtime[sched[c[i]].ev] =< evtime[sched[c[i + 1]].ev]
    <3>1. c[i + 1] = Link[i] /\ Link[i] # Nil /\ i \in 0..N /\ i # 0
      <4>1. (i + 1) - 1 = i /\ i \in 0..N /\ i # 0
        BY <1>1, <2>1
      <4>2. c[i + 1] = Link[(i + 1) - 1] /\ Link[(i + 1) - 1] # Nil
        BY <1>2, <2>5
      <4>3. QED
        BY <4>1, <4>2
    <3>2. evtime[sched[Link[i - 1]].ev] =< evtime[sched[Link[i]].ev]
      BY <3>1, LinkMeets
    <3>3. QED
      BY <2>1, <3>1, <3>2
  <2>6. QED
    BY <2>2, <2>3, <2>4, <2>5
<1>5. ASSUME NEW h \in Handle, Valid(h)
      PROVE  /\ ToSet(fq[ioh[h]]) = {s \in Scheduled : sched[s].qi = ioh[h]}
             /\ \A i, j \in DOMAIN fq[ioh[h]] : fq[ioh[h]][i] = fq[ioh[h]][j] => i = j
  <2> DEFINE q == ioh[h]
  <2>1. q \in Queue /\ q \in OpenQueues
    BY <1>5 DEF Valid, QInv, TypeOK, OpenQueues
  <2>2. \A i \in DOMAIN fq[q] : /\ fq[q][i] \in Scheduled /\ sched[fq[q][i]].qi = q
                                /\ \A j \in DOMAIN fq[q] : fq[q][i] = fq[q][j] => i = j
    BY <2>1 DEF QInv, OwnerInv
  <2>3. \A s \in Scheduled : sched[s].qi = q => \E i \in DOMAIN fq[q] : fq[q][i] = s
    <3>1. Complete(Schedules, q) /\ In(Schedules) = Scheduled
      BY <2>1, PresentList DEF WholeInv, Whole
    <3>2. Schedules.sched = sched /\ Schedules.fq = fq
      BY DEF Schedules
    <3>3. QED
      BY <3>1, <3>2 DEF Complete
  <2> HIDE DEF q
  <2>4. ToSet(fq[q]) = {s \in Scheduled : sched[s].qi = q}
    BY <2>2, <2>3 DEF ToSet
  <2>5. QED
    BY <2>2, <2>4 DEF q
<1>6. /\ \A i \in DOMAIN c :
           /\ sched[c[i]].sign
           /\ sched[c[i]].prev = IF i = 1 THEN Nil ELSE c[i - 1]
           /\ i + 1 \in DOMAIN c => evtime[sched[c[i]].ev] =< evtime[sched[c[i + 1]].ev]
      /\ \A h \in Handle : Valid(h) =>
           /\ ToSet(fq[ioh[h]]) = {s \in ToSet(c) : sched[s].qi = ioh[h]}
           /\ \A i, j \in DOMAIN fq[ioh[h]] : fq[ioh[h]][i] = fq[ioh[h]][j] => i = j
  <2> HIDE DEF D
  <2>1. QED
    BY <1>2, <1>3, <1>4, <1>5
<1>7. QED
  BY <1>6 DEF ListSound, c

(* The owner handle of a scheduled entry leads to the array that has it.   *)
LEMMA EntryFound ==
  ASSUME QInv, WholeInv, OwnIds
  PROVE  UnlinkFindsEntry
<1>1. SUFFICES ASSUME NEW s \in Scheduled, s \notin orphans
               PROVE  /\ ioh[sched[s].owner] # Nil
                      /\ \E i \in DOMAIN fq[ioh[sched[s].owner]] :
                           fq[ioh[sched[s].owner]][i] = s
  BY DEF UnlinkFindsEntry, EventId, OwnIds
<1>2. s \in In(Schedules) /\ Schedules.sched = sched /\ Schedules.fq = fq
  BY PresentList DEF Schedules
<1>3. s \in Sched /\ sched[s].sign /\ sched[s].owner \in Handle /\ sched[s].qi \in Queue
  BY <1>2, PresentList, InSigned
<1>4. ioh[sched[s].owner] = sched[s].qi
  BY <1>1, <1>3 DEF QInv, OwnerInv, Valid
<1>5. sched[s].qi \in OpenQueues
  BY <1>3, <1>4 DEF OpenQueues
<1>6. QED
  BY <1>2, <1>3, <1>4, <1>5, NilAssumption DEF WholeInv, Whole, Complete

-----------------------------------------------------------------------------
(***************************************************************************)
(* Delivery times.  An alarm fires early by half of the resolution for     *)
(* itself and for each one it follows; in between entries have left the    *)
(* list, so there are no more of them than blocks.                         *)
(***************************************************************************)
Slack(m) == m * (Res \div 2)

Left == Cardinality(Sched) - Cardinality(Scheduled)

TimeInv ==
  /\ alarm.cbf => alarm.start =< now
  /\ alarm.cbf /\ et = NoTime =>
       evtime[sched[se_list].ev] =< alarm.start + alarm.diff + Slack(Left + 1)
  /\ et # NoTime =>
       /\ alarm.start + alarm.diff =< now
       /\ et =< alarm.start + alarm.diff + Slack(Left)
       /\ InBatch(evtime[sched[se_list].ev], et)

LEMMA SlackNat ==
  ASSUME NEW m \in Nat
  PROVE  /\ Slack(m) \in Nat
         /\ Slack(m + 1) = Slack(m) + (Res \div 2)
         /\ Res \div 2 \in Nat
<1>1. Res \div 2 \in Nat
  BY TimeAssumption
<1> DEFINE r == Res \div 2
<1>2. r \in Nat
  BY <1>1
<1> HIDE DEF r
<1>3. m * r \in Nat /\ (m + 1) * r = m * r + r
  BY <1>2
<1>4. QED
  BY <1>2, <1>3 DEF Slack, r

LEMMA SlackMono ==
  ASSUME NEW m \in Nat, NEW n \in Nat, m =< n
  PROVE  Slack(m) =< Slack(n)
<1> DEFINE r == Res \div 2
<1>1. r \in Nat
  BY SlackNat
<1>2. PICK k \in Nat : n = m + k
  <2>1. n - m \in Nat /\ n = m + (n - m)
    OBVIOUS
  <2>2. QED
    BY <2>1
<1> HIDE DEF r
<1>3. (m + k) * r = m * r + k * r /\ k * r \in Nat /\ m * r \in Nat
  BY <1>1
<1>4. QED
  BY <1>2, <1>3 DEF Slack, r

(* (d + 50) / 100 rounds by half of the resolution at most.                *)
LEMMA RoundNear ==
  ASSUME NEW d \in Nat
  PROVE  Round(d) \in Nat /\ d =< Round(d) + (Res \div 2)
<1> DEFINE r == Res \div 2
           n == d + r
           q == n \div Res
<1>1. Res \in Nat \ {0} /\ r \in Nat /\ Res - 1 - r =< r
  BY TimeAssumption
<1> HIDE DEF r
<1>2. n \in Nat
  BY <1>1
<1> HIDE DEF n
<1>3. q \in Nat /\ n % Res \in 0..(Res - 1) /\ n = Res * q + (n % Res)
  BY <1>1, <1>2, DivMod
<1> HIDE DEF q
<1>4. q * Res = Res * q /\ q * Res \in Nat
  BY <1>1, <1>3
<1>5. Round(d) = q * Res
  BY DEF Round, q, n, r
<1>6. d + r =< q * Res + (Res - 1)
  BY <1>1, <1>3, <1>4 DEF n
<1>7. d =< q * Res + (Res - 1 - r)
  BY <1>1, <1>4, <1>6
<1>8. d =< q * Res + r
  BY <1>1, <1>4, <1>7
<1>9. QED
  BY <1>4, <1>5, <1>8 DEF r

(* How many blocks are in the list.                                        *)
LEMMA LeftNat ==
  /\ Cardinality(Sched) \in Nat
  /\ Cardinality(Scheduled) \in Nat
  /\ IsFiniteSet(Scheduled)
  /\ Left \in Nat
  /\ Left =< Cardinality(Sched)
<1>1. Scheduled \in SUBSET Sched
  BY DEF Scheduled
<1>2. IsFiniteSet(Scheduled) /\ Cardinality(Scheduled) =< Cardinality(Sched)
  BY <1>1, HeapAssumption, FS_Subset
<1>3. Cardinality(Sched) \in Nat /\ Cardinality(Scheduled) \in Nat
  BY <1>2, HeapAssumption, FS_CardinalityType
<1>4. QED
  BY <1>2, <1>3 DEF Left

(* One leaves.                                                             *)
LEMMA LeftMore ==
  ASSUME NEW s \in Scheduled, Scheduled' = Scheduled \ {s}
  PROVE  Left' = Left + 1
<1>1. IsFiniteSet(Scheduled) /\ Cardinality(Scheduled) \in Nat /\ Cardinality(Sched) \in Nat
  BY LeftNat
<1>2. Cardinality(Scheduled \ {s}) = Cardinality(Scheduled) - 1
  BY <1>1, FS_RemoveElement
<1>3. Left' = Cardinality(Sched) - Cardinality(Scheduled')
  BY DEF Left
<1>4. QED
  BY <1>1, <1>2, <1>3 DEF Left

(* The same for schedules l.                                               *)
LeftOf(l) == Cardinality(Sched) - Cardinality(In(l))

Timely(l, times) ==
  l.alarm.cbf =>
    /\ l.head \in Sched
    /\ l.alarm.start =< now
    /\ times[l.sched[l.head].ev] =< l.alarm.start + l.alarm.diff + Slack(LeftOf(l) + 1)

LEMMA LeftOfNat == ASSUME NEW l PROVE LeftOf(l) \in Nat
<1>1. In(l) \in SUBSET Sched
  BY DEF In
<1>2. IsFiniteSet(In(l)) /\ Cardinality(In(l)) =< Cardinality(Sched)
  BY <1>1, HeapAssumption, FS_Subset
<1>3. Cardinality(Sched) \in Nat /\ Cardinality(In(l)) \in Nat
  BY <1>2, HeapAssumption, FS_CardinalityType
<1>4. QED
  BY <1>2, <1>3 DEF LeftOf

LEMMA TimelyPresent ==
  ASSUME QInv, TimeInv, et = NoTime
  PROVE  Timely(Schedules, evtime)
<1>1. LeftOf(Schedules) = Left
  BY PresentList DEF LeftOf, Left
<1>2. alarm.cbf => se_list \in Sched
  BY DEF QInv, AlarmFollowsList, TypeOK
<1>3. /\ Schedules.alarm = alarm /\ Schedules.head = se_list /\ Schedules.sched = sched
  BY DEF Schedules
<1>4. QED
  BY <1>1, <1>2, <1>3 DEF Timely, TimeInv

LEMMA TimelyNext ==
  ASSUME NEW l, Install(l), Timely(l, evtime'), now' = now, et' = NoTime
  PROVE  TimeInv'
<1>1. se_list' = l.head /\ sched' = l.sched /\ alarm' = l.alarm
  BY DEF Install
<1>2. Scheduled' = In(l)
  BY <1>1 DEF Scheduled, In
<1>3. Left' = LeftOf(l)
  BY <1>2 DEF Left, LeftOf
<1>4. QED
  BY <1>1, <1>3 DEF TimeInv, Timely

(* Times of events that are not in the list do not matter.                 *)
LEMMA TimelyTimes ==
  ASSUME NEW l, NEW times, NEW new, Timely(l, times),
         \A s \in In(l) : new[l.sched[s].ev] = times[l.sched[s].ev]
  PROVE  Timely(l, new)
<1>1. l.head \in Sched => l.head \in In(l)
  BY DEF In
<1>2. QED
  BY <1>1 DEF Timely

(* callat() sets the alarm for the head's time, give or take its rounding. *)
LEMMA TimelyArmed ==
  ASSUME NEW l, NEW times, GoodList(l, times), now \in Nat
  PROVE  Timely(Armed(l, times), times)
<1> DEFINE at == times[l.sched[l.head].ev]
           a == Armed(l, times)
           d == IF at < now THEN 0 ELSE Round(at - now)
<1>1. a.head = l.head /\ a.sched = l.sched
  BY DEF Armed, Timed
<1>2. a.alarm = IF l.head = Nil THEN NoAlarm
                ELSE [cbf |-> TRUE, start |-> now, usr |-> l.head, diff |-> d]
  BY DEF Armed, Timed
<1>3. LeftOf(a) \in Nat
  BY LeftOfNat
<1> HIDE DEF a
<1>4. SUFFICES ASSUME l.head # Nil
               PROVE  /\ l.head \in Sched
                      /\ at =< now + d + Slack(LeftOf(a) + 1)
  BY <1>1, <1>2 DEF Timely, NoAlarm, a
<1>5. l.head \in Sched
  BY <1>4 DEF GoodList, ListType
<1>6. at \in Nat
  BY <1>5, LinkFacts
<1> HIDE DEF at
<1>7. /\ Slack(LeftOf(a) + 1) = Slack(LeftOf(a)) + (Res \div 2)
      /\ Slack(LeftOf(a)) \in Nat /\ Res \div 2 \in Nat
  BY <1>3, SlackNat
<1> DEFINE r == Res \div 2
           k == Slack(LeftOf(a))
<1>8. r \in Nat /\ k \in Nat /\ Slack(LeftOf(a) + 1) = k + r
  BY <1>7
<1> HIDE DEF r, k
<1>9. at =< now + d + k + r
  <2>1. CASE at < now
    BY <1>6, <1>8, <2>1
  <2>2. CASE ~(at < now)
    <3>1. at - now \in Nat
      BY <1>6, <2>2
    <3>2. Round(at - now) \in Nat /\ at - now =< Round(at - now) + r
      BY <3>1, RoundNear DEF r
    <3> DEFINE x == Round(at - now)
    <3>3. d = x /\ x \in Nat /\ at - now =< x + r
      BY <2>2, <3>2
    <3> HIDE DEF x, d
    <3>4. QED
      BY <1>6, <1>8, <3>3
  <2>3. QED
    BY <2>1, <2>2
<1>10. d \in Nat
  <2>1. ~(at < now) => at - now \in Nat
    BY <1>6
  <2>2. QED
    BY <2>1, RoundNear
<1> HIDE DEF d
<1>11. QED
  BY <1>5, <1>6, <1>8, <1>9, <1>10

(* Steps that leave the schedules alone.                                   *)
LEMMA KeepTime ==
  ASSUME QInv, TimeInv, UNCHANGED <<listVars, et>>, now' \in {now, now + 1},
         \A s \in Scheduled : evtime'[sched[s].ev] = evtime[sched[s].ev]
  PROVE  TimeInv'
<1>1. now \in Nat /\ alarm \in AlarmType
  BY NowNat DEF QInv, TypeOK, AlarmType
<1>2. alarm' = alarm /\ se_list' = se_list /\ sched' = sched /\ et' = et
  BY DEF listVars
<1>3. Left' = Left
  BY <1>2 DEF Left, Scheduled
<1>4. alarm.cbf \/ et # NoTime => se_list \in Scheduled
  BY DEF QInv, AlarmFollowsList, LoopInv, TypeOK, Scheduled
<1>5. alarm.cbf \/ et # NoTime => evtime'[sched[se_list].ev] = evtime[sched[se_list].ev]
  BY <1>4
<1>6. /\ \A x \in Nat : x =< now => x =< now'
      /\ alarm.start \in Nat /\ alarm.start + alarm.diff \in Nat
  BY <1>1 DEF AlarmType
<1>7. QED
  BY <1>2, <1>3, <1>5, <1>6 DEF TimeInv

LEMMA TimelyUnlinked ==
  ASSUME QInv, NEW s \in Scheduled
  PROVE  Timely(Unlinked(Schedules, s, sched[s].qi), evtime)
<1> DEFINE c == Cut(Schedules, s, sched[s].qi)
           f == Freed(c, s)
<1>1. GoodList(c, evtime) /\ In(c) = Scheduled \ {s} /\ s \in Sched
  BY PartCut DEF Part, Scheduled
<1> HIDE DEF c
<1>2. GoodList(f, evtime)
  BY <1>1, FreedProps
<1> HIDE DEF f
<1>3. Timely(Armed(f, evtime), evtime)
  BY <1>2, NowNat, TimelyArmed
<1>4. QED
  BY <1>3 DEF Unlinked, f, c

LEMMA InitTime == ASSUME Init PROVE TimeInv
BY DEF Init, NoAlarm, TimeInv

LEMMA PushToTime ==
  ASSUME QInv, TimeInv, phase = "run", NEW l, Part(l), Timely(l, evtime),
         NEW h \in Handle, ioh[h] \in Queue, NEW e \in Event, NEW at \in Nat,
         PushTo(l, h, ioh[h], e, at), UNCHANGED <<now, et>>
  PROVE  TimeInv'
<1> DEFINE q == ioh[h]
<1>1. /\ e \notin heap
      /\ evtime' = [evtime EXCEPT ![e] = IF at = 0 THEN now ELSE at]
      /\ evtime \in [Event -> Nat] /\ now \in Nat /\ et = NoTime
  BY NowNat DEF PushTo, QInv, TypeOK, LoopInv
<1>2. \A s \in In(l) : evtime'[l.sched[s].ev] = evtime[l.sched[s].ev]
  <2>1. evtime' \in [Event -> Nat] /\ \A x \in Event \ {e} : evtime'[x] = evtime[x]
    BY <1>1
  <2>2. ASSUME NEW s \in In(l)
        PROVE  l.sched[s].ev \in Event \ {e}
    <3>1. s \in Sched /\ l.sched[s].sign /\ l.sched[s].ev \in Event
      BY InSigned DEF Part
    <3>2. s \in Scheduled /\ l.sched[s].ev = sched[s].ev
      BY <3>1 DEF Part
    <3>3. sched[s].ev \in heap
      BY <3>2 DEF QInv, OnePlace
    <3>4. QED
      BY <1>1, <3>1, <3>2, <3>3
  <2>3. QED
    BY <2>1, <2>2
<1>3. GoodList(l, evtime')
  <2>1. evtime' \in [Event -> Nat]
    BY <1>1
  <2>2. QED
    BY <1>2, <2>1, TimesProps DEF Part
<1>4. CASE now < at
  <2>1. PICK s \in Sched, epp \in Sched \cup {Nil} :
          /\ ~sched[s].sign
          /\ StopsAfter(l, evtime', at, epp)
          /\ Install(Armed(Linked(l, s, NewEntry(h, e, q), epp), evtime'))
    BY <1>4 DEF PushTo
  <2> DEFINE k == Linked(l, s, NewEntry(h, e, q), epp)
             m == Armed(k, evtime')
  <2>2. evtime'[e] = at
    BY <1>1, <1>4
  <2>3. ~l.sched[s].sign
    BY <2>1 DEF Part
  <2>4. GoodList(k, evtime')
    BY <1>3, <2>1, <2>2, <2>3, LinkedProps
  <2>5. Install(m)
    BY <2>1
  <2> HIDE DEF k
  <2>6. Timely(m, evtime')
    <3> SUFFICES ASSUME NEW times, times = evtime' PROVE Timely(Armed(k, times), times)
      OBVIOUS
    <3>1. GoodList(k, times)
      BY <2>4
    <3>2. QED
      BY <1>1, <3>1, TimelyArmed
  <2> HIDE DEF m
  <2>7. QED
    BY <1>1, <2>5, <2>6, TimelyNext
<1>5. CASE ~(now < at)
  <2>1. Install(l)
    BY <1>5 DEF PushTo
  <2>2. Timely(l, evtime')
    BY <1>2, TimelyTimes
  <2>3. QED
    BY <1>1, <2>1, <2>2, TimelyNext
<1>6. QED
  BY <1>4, <1>5

LEMMA PostTime ==
  ASSUME QInv, TimeInv, NEW t \in Thread, NEW h \in Handle, NEW e \in Event, Post(t, h, e)
  PROVE  TimeInv'
<1>1. phase = "run" /\ et = NoTime /\ ioh[h] \in Queue
  BY DEF Post, Runs, Valid, QInv, TypeOK, LoopInv
<1>2. Part(Schedules) /\ Timely(Schedules, evtime)
  BY <1>1, PartPresent, TimelyPresent
<1>3. PushTo(Schedules, h, ioh[h], e, 0) /\ UNCHANGED <<now, et>>
  BY DEF Post
<1>4. QED
  BY <1>1, <1>2, <1>3, PushToTime

LEMMA ScheduleTime ==
  ASSUME QInv, TimeInv, NEW t \in Thread, NEW h \in Handle, NEW e \in Event,
         NEW at \in When, Schedule(t, h, e, at)
  PROVE  TimeInv'
<1>1. phase = "run" /\ et = NoTime /\ ioh[h] \in Queue /\ at \in Nat
  BY TimeAssumption DEF Schedule, Runs, Valid, QInv, TypeOK, LoopInv
<1>2. Part(Schedules) /\ Timely(Schedules, evtime)
  BY <1>1, PartPresent, TimelyPresent
<1>3. PushTo(Schedules, h, ioh[h], e, at) /\ UNCHANGED <<now, et>>
  BY DEF Schedule
<1>4. QED
  BY <1>1, <1>2, <1>3, PushToTime

LEMMA RescheduleTime ==
  ASSUME QInv, TimeInv, OwnIds, NEW t \in Thread, NEW s \in Sched,
         NEW e \in Event, NEW at \in When, Reschedule(t, s, e, at)
  PROVE  TimeInv'
<1> DEFINE h == sched[s].owner
           u == Unlinked(Schedules, s, sched[s].qi)
<1>1. phase = "run" /\ at \in Nat
  BY TimeAssumption DEF Reschedule, Runs
<1>2. s \in Scheduled /\ h \in Handle /\ ioh[h] = sched[s].qi /\ ioh[h] \in Queue
  BY EventIdProps DEF Reschedule
<1>3. Part(u) /\ Timely(u, evtime)
  BY <1>2, PartUnlinked, TimelyUnlinked
<1>4. PushTo(u, h, ioh[h], e, at) /\ UNCHANGED <<now, et>>
  BY <1>2 DEF Reschedule
<1> HIDE DEF u, h
<1>5. QED
  BY <1>1, <1>2, <1>3, <1>4, PushToTime

LEMMA UnscheduleTime ==
  ASSUME QInv, TimeInv, OwnIds, NEW t \in Thread, NEW s \in Sched, Unschedule(t, s)
  PROVE  TimeInv'
<1> DEFINE u == Unlinked(Schedules, s, sched[s].qi)
<1>1. s \in Scheduled /\ ioh[sched[s].owner] = sched[s].qi
  BY EventIdProps DEF Unschedule
<1>2. Timely(u, evtime)
  BY <1>1, TimelyUnlinked
<1>3. Install(u) /\ UNCHANGED <<now, et, evtime>> /\ et = NoTime
  BY <1>1 DEF Unschedule, Runs, QInv, LoopInv
<1> HIDE DEF u
<1>4. QED
  BY <1>2, <1>3, TimelyNext

LEMMA CloseNextTime == ASSUME QInv, TimeInv, CloseNext PROVE TimeInv'
<1> DEFINE q == closing.q
           s == fq[q][closing.ii + 1]
           u == Unlinked(Schedules, s, sched[s].qi)
           e == sched[s].ev
<1>1. phase = "close" /\ q \in Queue /\ closing.ii \in Nat /\ fq[q] \in Seq(Sched) /\ et = NoTime
  BY DEF CloseNext, QInv, TypeOK, LoopInv
<1>2. closing.ii + 1 \in DOMAIN fq[q]
  BY <1>1 DEF CloseNext
<1>3. s \in Scheduled /\ sched[s].qi = q
  BY <1>1, <1>2 DEF QInv, OwnerInv
<1>4. e \in Event
  BY <1>3, PresentList, InSigned DEF Schedules
<1>5. Part(u) /\ In(u) = Scheduled \ {s} /\ Timely(u, evtime)
  BY <1>3, PartUnlinked, TimelyUnlinked
<1>6. Install(u) /\ Released({e}) /\ UNCHANGED <<now, et>>
  BY <1>3 DEF CloseNext
<1> HIDE DEF u, s, e, q
<1>7. \A x \in Event \ {e} : evtime'[x] = evtime[x]
  BY <1>4, <1>6, ReleasedTyped
<1>8. \A y \in Scheduled \ {s} : sched[y].ev # e
  BY <1>3 DEF QInv, OnePlace, e
<1>9. \A y \in In(u) : evtime'[u.sched[y].ev] = evtime[u.sched[y].ev]
  <2>1. \A y \in In(u) : u.sched[y].ev \in Event /\ u.sched[y].ev = sched[y].ev
    BY <1>5, InSigned DEF Part
  <2>2. QED
    BY <1>5, <1>7, <1>8, <2>1
<1>10. Timely(u, evtime')
  BY <1>5, <1>9, TimelyTimes
<1>11. QED
  BY <1>1, <1>6, <1>10, TimelyNext

(* free() of events that are not in the list.                              *)
LEMMA ReleasedTimes ==
  ASSUME QInv, NEW es \in SUBSET Event, Released(es),
         \A s \in Scheduled : sched[s].ev \notin es
  PROVE  \A s \in Scheduled : evtime'[sched[s].ev] = evtime[sched[s].ev]
<1>1. \A x \in Event \ es : evtime'[x] = evtime[x]
  BY ReleasedTyped
<1>2. \A s \in Scheduled : sched[s].ev \in Event
  BY PresentList, InSigned DEF Schedules
<1>3. QED
  BY <1>1, <1>2

(* The head is delivered: the alarm was there in time for it, and the next *)
(* one is set by the difference of the times.                              *)
LEMMA DeliverTime == ASSUME QInv, TimeInv, Deliver PROVE TimeInv'
<1> DEFINE s == se_list
           q == sched[s].qi
           e == sched[s].ev
           first == IF et = NoTime THEN evtime[e] ELSE et
           l == Cut(Schedules, s, q)
           at == evtime[l.sched[l.head].ev]
           more == l.head # Nil /\ InBatch(at, first)
           n == IF more THEN l ELSE Rearmed(l, first)
           n0 == alarm.start + alarm.diff
<1>1. /\ phase = "switch" /\ se_list # Nil /\ alarm.cbf
      /\ et = NoTime => alarm.usr = se_list
      /\ et \in Nat \cup {NoTime}
  BY DEF Deliver, MayFire, QInv, LoopInv, AlarmFollowsList, TypeOK
<1>2. s \in Scheduled /\ s \in Sched
  BY <1>1 DEF QInv, TypeOK, Scheduled
<1>3. /\ q \in Queue /\ e \in Event /\ evtime \in [Event -> Nat] /\ sched[s].prev = Nil
      /\ alarm.start \in Nat /\ alarm.diff \in Nat /\ now \in Nat
  BY <1>1, <1>2, NowNat DEF QInv, TypeOK, LinkInv
<1>4. /\ et' = IF more THEN first ELSE NoTime
      /\ Install(n)
      /\ now' = now /\ evtime' = evtime
      /\ et = NoTime => MayFire
  BY <1>1 DEF Deliver
<1>5. first \in Nat /\ first =< evtime[e]
  BY <1>1, <1>3 DEF QInv, LoopInv, NoTime
<1>6. Part(l) /\ In(l) = Scheduled \ {s}
  BY <1>2, <1>3, PartCut
<1>7. l.alarm = alarm
  BY DEF Cut, Schedules
<1>8. l.head # Nil => at \in Nat /\ first =< at
  <2> SUFFICES ASSUME l.head # Nil PROVE at \in Nat /\ first =< at
    OBVIOUS
  <2>1. l.head \in Sched /\ l.sched[l.head].sign /\ l.sched[l.head].ev \in Event
    BY <1>6, LinkFacts DEF Part, GoodList, ListType
  <2>2. l.sched[l.head].ev = sched[l.head].ev
    BY <1>6, <2>1 DEF Part
  <2>3. l.head = sched[s].next
    BY <1>2, <1>3, PartCut
  <2>4. evtime[e] =< evtime[sched[sched[s].next].ev]
    BY <1>2, <2>3 DEF QInv, LinkInv
  <2>5. QED
    BY <1>3, <1>5, <2>1, <2>2, <2>3, <2>4
<1>9. Left \in Nat /\ Left' = Left + 1
  <2>1. se_list' = l.head /\ sched' = l.sched
    BY <1>4 DEF Install, Rearmed, Timed
  <2>2. Scheduled' = Scheduled \ {s}
    BY <1>6, <2>1 DEF Scheduled, In
  <2>3. QED
    BY <1>2, <2>2, LeftNat, LeftMore
<1> HIDE DEF l, e, q
<1>10. n0 \in Nat /\ n0 =< now /\ first =< n0 + Slack(Left + 1)
  <2>1. CASE et = NoTime
    <3>1. alarm.start =< now /\ evtime[e] =< n0 + Slack(Left + 1)
      BY <1>1, <2>1 DEF TimeInv, e
    <3>2. n0 =< now
      BY <1>3, <1>4, <2>1, <3>1 DEF MayFire
    <3>3. QED
      BY <1>3, <2>1, <3>1, <3>2
  <2>2. CASE et # NoTime
    <3>1. n0 =< now /\ et =< n0 + Slack(Left)
      BY <2>2 DEF TimeInv
    <3>2. Slack(Left) \in Nat /\ Slack(Left + 1) \in Nat /\ Slack(Left) =< Slack(Left + 1)
      BY <1>9, SlackNat, SlackMono
    <3> HIDE DEF Slack
    <3>3. et \in Nat
      BY <1>1, <2>2
    <3> DEFINE x == Slack(Left)
               y == Slack(Left + 1)
    <3>4. et =< n0 + x /\ x \in Nat /\ y \in Nat /\ x =< y
      BY <3>1, <3>2
    <3> HIDE DEF x, y
    <3>5. et =< n0 + y
      BY <1>3, <3>3, <3>4
    <3>6. QED
      BY <1>3, <2>2, <3>1, <3>5 DEF y
  <2>3. QED
    BY <2>1, <2>2
<1>11. /\ Slack(Left') \in Nat /\ Res \div 2 \in Nat
       /\ Slack(Left' + 1) = Slack(Left') + (Res \div 2)
       /\ first =< n0 + Slack(Left')
  <2>1. Left + 1 \in Nat
    BY <1>9
  <2>2. Slack(Left + 1) \in Nat /\ Slack(Left + 1 + 1) = Slack(Left + 1) + (Res \div 2)
    BY <2>1, SlackNat
  <2>3. Left' + 1 = Left + 1 + 1
    BY <1>9
  <2>4. QED
    BY <1>9, <1>10, <2>2, <2>3, SlackNat
<1> DEFINE y == Slack(Left')
           r == Res \div 2
<1>12. y \in Nat /\ r \in Nat /\ first =< n0 + y /\ Slack(Left' + 1) = y + r
  BY <1>11
<1> HIDE DEF y, r, first, n0
<1>13. CASE more
  <2>1. /\ se_list' = l.head /\ sched' = l.sched /\ alarm' = alarm /\ et' = first
    BY <1>4, <1>7, <1>13 DEF Install
  <2>2. et' # NoTime
    BY <1>5, <2>1 DEF NoTime
  <2>3. evtime'[sched'[se_list'].ev] = at
    BY <1>4, <2>1
  <2>4. /\ alarm'.cbf => alarm'.start =< now'
        /\ alarm'.start + alarm'.diff =< now'
    BY <1>3, <1>4, <1>10, <2>1 DEF n0
  <2>5. et' =< alarm'.start + alarm'.diff + Slack(Left')
    BY <1>12, <2>1 DEF n0, y
  <2>6. InBatch(evtime'[sched'[se_list'].ev], et')
    BY <1>13, <2>1, <2>3
  <2>7. QED
    BY <2>2, <2>4, <2>5, <2>6 DEF TimeInv
<1>14. CASE ~more
  <2>1. n = Rearmed(l, first) /\ et' = NoTime
    BY <1>4, <1>14
  <2>2. /\ se_list' = l.head /\ sched' = l.sched
        /\ alarm' = IF l.head = Nil THEN NoAlarm
                    ELSE [cbf |-> TRUE, start |-> n0, usr |-> l.head, diff |-> Round(at - first)]
    <3> DEFINE k == Rearmed(l, first)
    <3>1. /\ k.head = l.head /\ k.sched = l.sched
          /\ k.alarm = IF l.head = Nil THEN NoAlarm
                       ELSE [cbf |-> TRUE, start |-> n0, usr |-> l.head, diff |-> Round(at - first)]
      BY DEF Rearmed, Timed, n0
    <3>2. Install(k)
      BY <1>4, <2>1
    <3> HIDE DEF k
    <3>3. QED
      BY <3>1, <3>2 DEF Install
  <2>3. CASE l.head = Nil
    BY <2>1, <2>2, <2>3 DEF TimeInv, NoAlarm
  <2>4. CASE l.head # Nil
    <3> DEFINE d == at - first
    <3>1. d \in Nat
      BY <1>5, <1>8, <2>4
    <3>2. Round(d) \in Nat /\ d =< Round(d) + r
      BY <3>1, RoundNear DEF r
    <3> DEFINE x == Round(d)
    <3>3. x \in Nat /\ d =< x + r
      BY <3>2
    <3>4. /\ alarm'.cbf /\ alarm'.start = n0 /\ alarm'.diff = x
      BY <2>2, <2>4
    <3> HIDE DEF x
    <3>5. at =< n0 + x + (y + r)
      BY <1>5, <1>8, <1>10, <1>12, <2>4, <3>3
    <3>6. evtime'[sched'[se_list'].ev] = at
      BY <1>4, <2>2
    <3> HIDE DEF at
    <3>7. evtime'[sched'[se_list'].ev] =< alarm'.start + alarm'.diff + Slack(Left' + 1)
      BY <1>12, <3>4, <3>5, <3>6
    <3>8. alarm'.start =< now'
      BY <1>4, <1>10, <3>4
    <3>9. QED
      BY <2>1, <3>7, <3>8 DEF TimeInv
  <2>5. QED
    BY <2>3, <2>4
<1>15. QED
  BY <1>13, <1>14

(* fq alone changes.                                                       *)
LEMMA CloseEndTime == ASSUME QInv, TimeInv, CloseEnd PROVE TimeInv'
<1>1. /\ sched' = sched /\ se_list' = se_list /\ alarm' = alarm
      /\ now' = now /\ evtime' = evtime /\ et' = et
  BY DEF CloseEnd, evVars
<1>2. Left' = Left
  BY <1>1 DEF Left, Scheduled
<1>3. QED
  BY <1>1, <1>2 DEF TimeInv

LEMMA ClearTime ==
  ASSUME QInv, TimeInv, NEW t \in Thread, NEW h \in Handle, Clear(t, h)
  PROVE  TimeInv'
<1> DEFINE es == ToSet(uq[ioh[h]])
<1>1. ioh[h] \in Queue /\ uq[ioh[h]] \in Seq(Event)
  BY DEF Clear, Valid, QInv, TypeOK
<1>2. es \in SUBSET Event /\ \A x \in es : \E i \in DOMAIN uq[ioh[h]] : uq[ioh[h]][i] = x
  BY <1>1 DEF ToSet
<1>3. \A s \in Scheduled : sched[s].ev \notin es
  BY <1>1, <1>2 DEF QInv, OnePlace, Queued
<1>4. Released(es) /\ UNCHANGED <<now, listVars, et>>
  BY DEF Clear
<1> HIDE DEF es
<1>5. \A s \in Scheduled : evtime'[sched[s].ev] = evtime[sched[s].ev]
  BY <1>2, <1>3, <1>4, ReleasedTimes
<1>6. QED
  BY <1>4, <1>5, KeepTime

LEMMA FreeEventTime ==
  ASSUME QInv, TimeInv, NEW t \in Thread, NEW e \in Event, FreeEvent(t, e)
  PROVE  TimeInv'
<1>1. Released({e}) /\ UNCHANGED <<now, listVars, et>> /\ e \in held[t]
  BY DEF FreeEvent
<1>2. \A s \in Scheduled : sched[s].ev \notin {e}
  BY <1>1 DEF QInv, OnePlace, Held
<1>3. \A s \in Scheduled : evtime'[sched[s].ev] = evtime[sched[s].ev]
  BY <1>1, <1>2, ReleasedTimes
<1>4. QED
  BY <1>1, <1>3, KeepTime

LEMMA NextTime ==
  ASSUME OwnIds, QInv, TimeInv, [Next]_vars
  PROVE  TimeInv'
<1>1. ASSUME UNCHANGED <<listVars, et, evtime>>, now' \in {now, now + 1} PROVE TimeInv'
  BY <1>1, KeepTime
<1>2. CASE Tick \/ UNCHANGED vars
  BY <1>1, <1>2 DEF Tick, vars, evVars
<1>3. CASE Kernel
  <2>1. CASE Switch \/ EndSwitch
    BY <1>1, <2>1 DEF Switch, EndSwitch, evVars
  <2>2. QED
    BY <1>3, <2>1, DeliverTime DEF Kernel
<1>4. CASE CloseNext \/ CloseEnd
  BY <1>4, CloseNextTime, CloseEndTime
<1>5. ASSUME NEW t \in Thread, Program(t) PROVE TimeInv'
  <2>1. CASE \E h \in Handle : Clear(t, h)
    BY <2>1, ClearTime
  <2>2. CASE \E e \in Event : FreeEvent(t, e)
    BY <2>2, FreeEventTime
  <2>3. CASE \E h \in Handle, e \in Event : Post(t, h, e)
    BY <2>3, PostTime
  <2>4. CASE \E h \in Handle, e \in Event, at \in When : Schedule(t, h, e, at)
    BY <2>4, ScheduleTime
  <2>5. CASE \E s \in Sched : Unschedule(t, s)
    BY <2>5, UnscheduleTime
  <2>6. CASE \E s \in Sched, e \in Event, at \in When : Reschedule(t, s, e, at)
    BY <2>6, RescheduleTime
  <2>7. CASE \/ \E h \in Handle, q \in Queue : Create(t, h, q) \/ Open(t, h, q)
             \/ \E h \in Handle : Close(t, h)
             \/ \E h \in Handle, i \in 1..Cardinality(Event) : Take(t, h, i)
             \/ \E h \in Handle, b \in BOOLEAN : WaitEvent(t, h, b)
    BY <1>1, <2>7 DEF Create, Open, Close, Take, WaitEvent, evVars
  <2>8. QED
    BY <1>5, <2>1, <2>2, <2>3, <2>4, <2>5, <2>6, <2>7 DEF Program
<1>6. ASSUME NEW t \in Thread, Ask(t) \/ Got(t) PROVE TimeInv'
  BY <1>1, <1>6 DEF Ask, Got, evVars
<1>7. QED
  BY <1>2, <1>3, <1>4, <1>5, <1>6 DEF Next

(* The head is the earliest entry: a way back from an earlier one would    *)
(* never end.                                                              *)
LEMMA HeadFirst ==
  ASSUME QInv, WholeInv, se_list # Nil, NEW s \in Scheduled
  PROVE  evtime[sched[se_list].ev] =< evtime[sched[s].ev]
<1> DEFINE at(x) == evtime[sched[x].ev]
           S == {x \in Scheduled : at(x) < at(se_list)}
<1>1. se_list \in Scheduled /\ \A x \in Scheduled : x \in Sched /\ at(x) \in Nat
  <2>1. se_list \in Scheduled
    BY DEF QInv, TypeOK, Scheduled
  <2>2. \A x \in Scheduled : x \in Sched /\ sched[x].ev \in Event
    BY PresentList, InSigned DEF Schedules
  <2>3. QED
    BY <2>1, <2>2 DEF QInv, TypeOK
<1>2. ASSUME NEW x \in S PROVE sched[x].prev \in S
  <2> DEFINE p == sched[x].prev
  <2>1. x \in Scheduled /\ x \in Sched /\ x # se_list
    BY <1>1
  <2>2. p # Nil /\ p \in Sched
    BY <2>1 DEF Scheduled, QInv, TypeOK, Entry
  <2>3. sched[p].next = x /\ x # Nil
    BY <2>1, <2>2, NilAssumption DEF QInv, LinkInv
  <2>4. p \in Scheduled /\ at(p) =< at(x)
    BY <2>2, <2>3 DEF QInv, LinkInv
  <2> HIDE DEF p, at
  <2>5. QED
    BY <1>1, <2>1, <2>4 DEF p
<1>3. S \in SUBSET Sched
  BY <1>1
<1>4. S = {}
  BY <1>2, <1>3 DEF WholeInv, Whole, Grounded, Schedules
<1> HIDE DEF at
<1>5. at(se_list) =< at(s)
  BY <1>1, <1>4
<1>6. QED
  BY <1>5 DEF at

(***************************************************************************)
(* What a step does to the promised queues: what is ready ...              *)
(***************************************************************************)
LEMMA OpenSame == ASSUME ioh' = ioh PROVE OpenQueues' = OpenQueues
BY DEF OpenQueues

LEMMA ReadySame == ASSUME OpenQueues' = OpenQueues, uq' = uq PROVE Ready' = Ready
BY DEF Ready

LEMMA ReadyAt ==
  ASSUME QInv, OpenQueues' = OpenQueues, NEW q \in OpenQueues, NEW x,
         uq' = [uq EXCEPT ![q] = x]
  PROVE  Ready' = [Ready EXCEPT ![q] = x] /\ Ready[q] = uq[q]
<1>1. q \in Queue /\ \A p \in Queue : uq'[p] = IF p = q THEN x ELSE uq[p]
  BY DEF OpenQueues, QInv, TypeOK
<1>2. \A p \in Queue : Ready[p] = IF p \in OpenQueues THEN uq[p] ELSE <<>>
  BY DEF Ready
<1>3. Ready' = [p \in Queue |-> IF p \in OpenQueues THEN uq'[p] ELSE <<>>]
  BY DEF Ready
<1>4. [Ready EXCEPT ![q] = x] = [p \in Queue |-> IF p = q THEN x ELSE Ready[p]]
  BY DEF Ready
<1> DEFINE F(p) == IF p \in OpenQueues THEN uq'[p] ELSE <<>>
           G(p) == IF p = q THEN x ELSE Ready[p]
<1>5. ASSUME NEW p \in Queue PROVE F(p) = G(p)
  BY <1>1, <1>2
<1>6. Ready' = [p \in Queue |-> F(p)] /\ [Ready EXCEPT ![q] = x] = [p \in Queue |-> G(p)]
  BY <1>3, <1>4
<1> HIDE DEF F, G
<1>7. Ready' = [Ready EXCEPT ![q] = x]
  BY <1>5, <1>6
<1>8. QED
  BY <1>1, <1>2, <1>7

LEMMA ReadyOff ==
  ASSUME QInv, OpenQueues' = OpenQueues, NEW q, q \notin OpenQueues, NEW x,
         uq' = [uq EXCEPT ![q] = x]
  PROVE  Ready' = Ready
BY DEF Ready, OpenQueues, QInv, TypeOK

(* ... and what is pending: the plans of the entries in S.                 *)
Plans(S) == {Planned(s) : s \in {x \in S : sched[x].qi \in OpenQueues}}

LEMMA PlansStep ==
  ASSUME NEW S, OpenQueues' = OpenQueues, Scheduled' = S,
         \A y \in S : /\ sched'[y].ev = sched[y].ev /\ sched'[y].qi = sched[y].qi
                      /\ evtime'[sched[y].ev] = evtime[sched[y].ev]
  PROVE  Pending' = Plans(S)
BY DEF Pending, Plans, Planned

LEMMA PlansLess ==
  ASSUME QInv, NEW s \in Scheduled
  PROVE  /\ sched[s].qi \in OpenQueues =>
              /\ Planned(s) \in Pending
              /\ Plans(Scheduled \ {s}) = Pending \ {Planned(s)}
         /\ sched[s].qi \notin OpenQueues => Plans(Scheduled \ {s}) = Pending
<1>1. \A y \in Scheduled : Planned(y) = Planned(s) => y = s
  BY DEF QInv, OnePlace, Planned
<1>2. QED
  BY <1>1 DEF Plans, Pending

LEMMA PlansInstall ==
  ASSUME QInv, NEW l, Part(l), Install(l), OpenQueues' = OpenQueues,
         \A s \in In(l) : evtime'[sched[s].ev] = evtime[sched[s].ev]
  PROVE  Pending' = Plans(In(l))
<1>1. sched' = l.sched /\ se_list' = l.head
  BY DEF Install
<1>2. Scheduled' = In(l)
  BY <1>1 DEF Scheduled, In
<1>3. \A y \in In(l) : l.sched[y].ev = sched[y].ev /\ l.sched[y].qi = sched[y].qi
  BY InSigned DEF Part
<1>4. QED
  BY <1>1, <1>2, <1>3, PlansStep

LEMMA PlansSame ==
  ASSUME UNCHANGED listVars, OpenQueues' = OpenQueues,
         \A s \in Scheduled : evtime'[sched[s].ev] = evtime[sched[s].ev]
  PROVE  Pending' = Pending
<1>1. Scheduled' = Scheduled /\ sched' = sched
  BY DEF listVars, Scheduled
<1>2. Pending' = Plans(Scheduled)
  BY <1>1, PlansStep
<1>3. QED
  BY <1>2 DEF Plans, Pending

(* A queue that was never used is empty.                                   *)
FreshInv == \A q \in Queue \ opened : uq[q] = <<>>

LEMMA FreshKept ==
  ASSUME QInv, FreshInv, opened \subseteq opened',
         uq' = uq \/ \E q \in opened : \E x : uq' = [uq EXCEPT ![q] = x]
  PROVE  FreshInv'
BY DEF FreshInv, QInv, TypeOK

LEMMA NextFresh ==
  ASSUME OwnIds, QInv, WholeInv, FreshInv, [Next]_vars
  PROVE  FreshInv'
<1>1. ASSUME uq' = uq, opened \subseteq opened' PROVE FreshInv'
  BY <1>1, FreshKept
<1>2. ASSUME NEW q \in opened, NEW x, uq' = [uq EXCEPT ![q] = x], opened' = opened
      PROVE  FreshInv'
  BY <1>2, FreshKept
<1>3. CASE Tick \/ UNCHANGED vars \/ CloseNext \/ CloseEnd
  BY <1>1, <1>3 DEF Tick, vars, CloseNext, CloseEnd, evVars, iohVars
<1>4. CASE Kernel
  <2>1. CASE Switch \/ EndSwitch
    BY <1>1, <2>1 DEF Switch, EndSwitch, evVars, iohVars
  <2>2. CASE Deliver
    <3>1. se_list \in Scheduled
      BY <2>2 DEF Deliver, MayFire, QInv, LoopInv, AlarmFollowsList, TypeOK, Scheduled
    <3>2. sched[se_list].qi \in opened
      BY <3>1, PresentList DEF WholeInv, Whole, Schedules
    <3>3. /\ uq' = uq \/ uq' = [uq EXCEPT ![sched[se_list].qi] = Append(uq[sched[se_list].qi], sched[se_list].ev)]
          /\ opened' = opened
      BY <2>2 DEF Deliver, iohVars
    <3>4. QED
      BY <1>1, <1>2, <3>2, <3>3
  <2>3. QED
    BY <1>4, <2>1, <2>2 DEF Kernel
<1>5. ASSUME NEW h, Valid(h), h \in Handle PROVE ioh[h] \in opened
  BY <1>5 DEF Valid, OpenQueues, WholeInv, QInv, TypeOK
<1>6. ASSUME NEW l, NEW h, NEW e, NEW at, ioh[h] \in opened, PushTo(l, h, ioh[h], e, at),
             UNCHANGED iohVars
      PROVE  FreshInv'
  <2>1. uq' = uq \/ uq' = [uq EXCEPT ![ioh[h]] = Append(uq[ioh[h]], e)]
    BY <1>6 DEF PushTo
  <2>2. QED
    BY <1>1, <1>2, <1>6, <2>1 DEF iohVars
<1>7. ASSUME NEW t, NEW h \in Handle, Valid(h), NEW i, GetIndex(t, h, i), UNCHANGED iohVars
      PROVE  FreshInv'
  <2>1. uq' = [uq EXCEPT ![ioh[h]] = RemoveAt(uq[ioh[h]], i)]
    BY <1>7 DEF GetIndex
  <2>2. QED
    BY <1>2, <1>5, <1>7, <2>1 DEF iohVars
<1>8. ASSUME NEW t \in Thread, Program(t) PROVE FreshInv'
  <2>1. CASE \E h \in Handle : Clear(t, h)
    <3>1. PICK h \in Handle : Clear(t, h)
      BY <2>1
    <3>2. uq' = [uq EXCEPT ![ioh[h]] = <<>>] /\ opened' = opened /\ Valid(h)
      BY <3>1 DEF Clear, iohVars
    <3>3. QED
      BY <1>2, <1>5, <3>2
  <2>2. CASE \E e \in Event : FreeEvent(t, e)
    BY <1>1, <2>2 DEF FreeEvent, iohVars
  <2>3. CASE \E h \in Handle, e \in Event : Post(t, h, e)
    BY <1>5, <1>6, <2>3 DEF Post
  <2>4. CASE \E h \in Handle, e \in Event, at \in When : Schedule(t, h, e, at)
    BY <1>5, <1>6, <2>4 DEF Schedule
  <2>5. CASE \E s \in Sched : Unschedule(t, s)
    BY <1>1, <2>5 DEF Unschedule, iohVars
  <2>6. CASE \E s \in Sched, e \in Event, at \in When : Reschedule(t, s, e, at)
    <3>1. PICK s \in Sched, e \in Event, at \in When : Reschedule(t, s, e, at)
      BY <2>6
    <3> DEFINE h == sched[s].owner
    <3>2. h \in Handle /\ Valid(h)
      BY <3>1, EventIdProps DEF Reschedule
    <3>3. PushTo(Unlinked(Schedules, s, ioh[h]), h, ioh[h], e, at) /\ UNCHANGED iohVars
      BY <3>1 DEF Reschedule
    <3>4. QED
      BY <1>5, <1>6, <3>2, <3>3
  <2>7. CASE \E h \in Handle, q \in Queue : Create(t, h, q) \/ Open(t, h, q)
    BY <1>1, <2>7 DEF Create, Open, evVars
  <2>8. CASE \E h \in Handle : Close(t, h)
    BY <1>1, <2>8 DEF Close, evVars
  <2>9. CASE \E h \in Handle, i \in 1..Cardinality(Event) : Take(t, h, i)
    BY <1>7, <2>9 DEF Take
  <2>10. CASE \E h \in Handle, b \in BOOLEAN : WaitEvent(t, h, b)
    <3>1. PICK h \in Handle, b \in BOOLEAN : WaitEvent(t, h, b)
      BY <2>10
    <3>2. CASE uq[ioh[h]] # <<>>
      BY <1>7, <3>1, <3>2 DEF WaitEvent
    <3>3. CASE uq[ioh[h]] = <<>>
      BY <1>1, <3>1, <3>3 DEF WaitEvent, iohVars
    <3>4. QED
      BY <3>2, <3>3
  <2>11. QED
    BY <1>8, <2>1, <2>2, <2>3, <2>4, <2>5, <2>6, <2>7, <2>8, <2>9, <2>10 DEF Program
<1>9. ASSUME NEW t \in Thread, Ask(t) PROVE FreshInv'
  BY <1>1, <1>9 DEF Ask, evVars, iohVars
<1>10. ASSUME NEW t \in Thread, Got(t) PROVE FreshInv'
  <2> DEFINE h == call[t].h
  <2>1. CASE Valid(h) /\ uq[ioh[h]] # <<>>
    <3>1. h \in Handle
      BY <2>1 DEF Valid, QInv, TypeOK
    <3>2. GetIndex(t, h, 1) /\ UNCHANGED iohVars
      BY <1>10, <2>1 DEF Got
    <3>3. QED
      BY <1>7, <2>1, <3>1, <3>2
  <2>2. CASE ~(Valid(h) /\ uq[ioh[h]] # <<>>)
    BY <1>1, <1>10, <2>2 DEF Got, iohVars
  <2>3. QED
    BY <2>1, <2>2
<1>11. QED
  BY <1>3, <1>4, <1>8, <1>9, <1>10 DEF Next

LEMMA PlansMore ==
  ASSUME NEW S, NEW n, n \notin S, OpenQueues' = OpenQueues, Scheduled' = S \cup {n},
         \A y \in S : /\ sched'[y].ev = sched[y].ev /\ sched'[y].qi = sched[y].qi
                      /\ evtime'[sched[y].ev] = evtime[sched[y].ev],
         NEW e, NEW q \in OpenQueues, NEW at,
         sched'[n].ev = e, sched'[n].qi = q, evtime'[e] = at
  PROVE  Pending' = Plans(S) \cup {[event |-> e, queue |-> q, time |-> at]}
BY DEF Pending, Plans, Planned

(***************************************************************************)
(* Each operation is one of EventQueue, or none.                           *)
(***************************************************************************)
LEMMA PushToMaps ==
  ASSUME QInv, NEW l, Part(l), NEW h \in Handle, ioh[h] \in Queue, NEW e \in Event,
         NEW at \in Nat, PushTo(l, h, ioh[h], e, at), UNCHANGED iohVars
  PROVE  /\ ioh[h] \in OpenQueues /\ OpenQueues' = OpenQueues
         /\ now < at =>
              /\ Ready' = Ready
              /\ Pending' = Plans(In(l)) \cup {[event |-> e, queue |-> ioh[h], time |-> at]}
         /\ ~(now < at) =>
              /\ Ready' = [Ready EXCEPT ![ioh[h]] = Append(Ready[ioh[h]], e)]
              /\ Pending' = Plans(In(l))
<1> DEFINE q == ioh[h]
<1>1. /\ e \notin heap
      /\ evtime' = [evtime EXCEPT ![e] = IF at = 0 THEN now ELSE at]
      /\ evtime \in [Event -> Nat] /\ now \in Nat
  BY NowNat DEF PushTo, QInv, TypeOK
<1>2. q \in OpenQueues /\ OpenQueues' = OpenQueues
  BY OpenSame DEF OpenQueues, iohVars
<1>3. /\ evtime' \in [Event -> Nat]
      /\ \A s \in In(l) : /\ l.sched[s].sign
                          /\ l.sched[s].ev = sched[s].ev /\ l.sched[s].qi = sched[s].qi
                          /\ evtime'[sched[s].ev] = evtime[sched[s].ev]
  <2>1. evtime' \in [Event -> Nat] /\ \A x \in Event \ {e} : evtime'[x] = evtime[x]
    BY <1>1
  <2>2. ASSUME NEW s \in In(l)
        PROVE  /\ l.sched[s].sign
               /\ l.sched[s].ev = sched[s].ev /\ l.sched[s].qi = sched[s].qi
               /\ l.sched[s].ev \in Event \ {e}
    <3>1. s \in Sched /\ l.sched[s].sign /\ l.sched[s].ev \in Event
      BY InSigned DEF Part
    <3>2. s \in Scheduled /\ l.sched[s].ev = sched[s].ev /\ l.sched[s].qi = sched[s].qi
      BY <3>1 DEF Part
    <3>3. sched[s].ev \in heap
      BY <3>2 DEF QInv, OnePlace
    <3>4. QED
      BY <1>1, <3>1, <3>2, <3>3
  <2>3. QED
    BY <2>1, <2>2
<1>4. GoodList(l, evtime')
  BY <1>3, TimesProps DEF Part
<1>5. ASSUME now < at
      PROVE  /\ Ready' = Ready
             /\ Pending' = Plans(In(l)) \cup {[event |-> e, queue |-> ioh[h], time |-> at]}
  <2>1. PICK s \in Sched, epp \in Sched \cup {Nil} :
          /\ ~sched[s].sign
          /\ StopsAfter(l, evtime', at, epp)
          /\ Install(Armed(Linked(l, s, NewEntry(h, e, q), epp), evtime'))
    BY <1>5 DEF PushTo
  <2> DEFINE k == Linked(l, s, NewEntry(h, e, q), epp)
             m == Armed(k, evtime')
  <2>2. evtime'[e] = at
    BY <1>1, <1>5
  <2>3. ~l.sched[s].sign
    BY <2>1 DEF Part
  <2>4. /\ GoodList(k, evtime') /\ In(k) = In(l) \cup {s}
        /\ k.sched[s].ev = e /\ k.sched[s].qi = q
        /\ \A y \in Sched : y # s => /\ k.sched[y].ev = l.sched[y].ev
                                     /\ k.sched[y].qi = l.sched[y].qi
    BY <1>4, <2>1, <2>2, <2>3, LinkedProps
  <2>5. Install(m)
    BY <2>1
  <2> HIDE DEF k
  <2>6. In(m) = In(k) /\ m.sched = k.sched
    <3> SUFFICES ASSUME NEW times, times = evtime'
                 PROVE  LET f == Armed(k, times) IN In(f) = In(k) /\ f.sched = k.sched
      OBVIOUS
    <3>1. GoodList(k, times)
      BY <2>4
    <3>2. QED
      BY <1>1, <3>1, ArmedProps
  <2> HIDE DEF m
  <2>7. sched' = k.sched /\ Scheduled' = In(l) \cup {s}
    <3>1. sched' = m.sched /\ se_list' = m.head
      BY <2>5 DEF Install
    <3>2. Scheduled' = In(m)
      BY <3>1 DEF Scheduled, In
    <3>3. QED
      BY <2>4, <2>6, <3>1, <3>2
  <2>8. s \notin In(l)
    BY <1>3, <2>3
  <2>9. \A y \in In(l) : /\ sched'[y].ev = sched[y].ev /\ sched'[y].qi = sched[y].qi
                         /\ evtime'[sched[y].ev] = evtime[sched[y].ev]
    BY <1>3, <2>4, <2>7, <2>8 DEF In
  <2>10. sched'[s].ev = e /\ sched'[s].qi = q
    BY <2>4, <2>7
  <2> HIDE DEF q
  <2>11. Pending' = Plans(In(l)) \cup {[event |-> e, queue |-> q, time |-> at]}
    BY <1>2, <2>2, <2>7, <2>8, <2>9, <2>10, PlansMore
  <2>12. Ready' = Ready
    BY <1>2, <1>5, ReadySame DEF PushTo
  <2>13. QED
    BY <2>11, <2>12 DEF q
<1>6. ASSUME ~(now < at)
      PROVE  /\ Ready' = [Ready EXCEPT ![ioh[h]] = Append(Ready[ioh[h]], e)]
             /\ Pending' = Plans(In(l))
  <2>1. Install(l) /\ uq' = [uq EXCEPT ![q] = Append(uq[q], e)]
    BY <1>6 DEF PushTo
  <2>2. Pending' = Plans(In(l))
    BY <1>2, <1>3, <2>1, PlansInstall
  <2>3. Ready' = [Ready EXCEPT ![q] = Append(uq[q], e)] /\ Ready[q] = uq[q]
    BY <1>2, <2>1, ReadyAt
  <2>4. QED
    BY <2>2, <2>3
<1>7. QED
  BY <1>2, <1>5, <1>6

LEMMA PostMaps ==
  ASSUME QInv, NEW t \in Thread, NEW h \in Handle, NEW e \in Event, Post(t, h, e)
  PROVE  Promise!PostNow(ioh[h], e)
<1>1. /\ ioh[h] \in Queue /\ et = NoTime /\ now \in Nat /\ now' = now /\ UNCHANGED iohVars
      /\ PushTo(Schedules, h, ioh[h], e, 0)
  BY NowNat DEF Post, Runs, Valid, QInv, TypeOK, LoopInv
<1>2. Part(Schedules) /\ In(Schedules) = Scheduled
  BY PartPresent, PresentList
<1>3. ~(now < 0)
  BY <1>1
<1>4. /\ ioh[h] \in OpenQueues /\ OpenQueues' = OpenQueues
      /\ Ready' = [Ready EXCEPT ![ioh[h]] = Append(Ready[ioh[h]], e)]
      /\ Pending' = Plans(Scheduled)
  BY <1>1, <1>2, <1>3, PushToMaps
<1>5. Pending = Plans(Scheduled)
  BY DEF Pending, Plans
<1>6. QED
  BY <1>1, <1>4, <1>5 DEF Promise!PostNow

LEMMA ScheduleMaps ==
  ASSUME QInv, NEW t \in Thread, NEW h \in Handle, NEW e \in Event, NEW at \in When,
         Schedule(t, h, e, at)
  PROVE  Promise!PostNow(ioh[h], e) \/ Promise!PostAt(ioh[h], e, at)
<1>1. /\ ioh[h] \in Queue /\ et = NoTime /\ now \in Nat /\ now' = now /\ UNCHANGED iohVars
      /\ at \in Nat /\ PushTo(Schedules, h, ioh[h], e, at)
  BY NowNat, TimeAssumption DEF Schedule, Runs, Valid, QInv, TypeOK, LoopInv
<1>2. Part(Schedules) /\ In(Schedules) = Scheduled
  BY PartPresent, PresentList
<1>3. Pending = Plans(Scheduled)
  BY DEF Pending, Plans
<1>4. ioh[h] \in OpenQueues /\ OpenQueues' = OpenQueues
  BY <1>1, <1>2, PushToMaps
<1>5. ASSUME now < at PROVE Promise!PostAt(ioh[h], e, at)
  <2>1. /\ Ready' = Ready
        /\ Pending' = Plans(Scheduled) \cup {[event |-> e, queue |-> ioh[h], time |-> at]}
    BY <1>1, <1>2, <1>5, PushToMaps
  <2>2. QED
    BY <1>1, <1>3, <1>4, <1>5, <2>1 DEF Promise!PostAt
<1>6. ASSUME ~(now < at) PROVE Promise!PostNow(ioh[h], e)
  <2>1. /\ Ready' = [Ready EXCEPT ![ioh[h]] = Append(Ready[ioh[h]], e)]
        /\ Pending' = Plans(Scheduled)
    BY <1>1, <1>2, <1>6, PushToMaps
  <2>2. QED
    BY <1>1, <1>3, <1>4, <2>1 DEF Promise!PostNow
<1>7. QED
  BY <1>5, <1>6

LEMMA RescheduleMaps ==
  ASSUME QInv, OwnIds, NEW t \in Thread, NEW s \in Sched, NEW e \in Event,
         NEW at \in When, Reschedule(t, s, e, at)
  PROVE  Planned(s) \in Pending /\ Promise!Move(Planned(s), e, at)
<1> DEFINE h == sched[s].owner
           u == Unlinked(Schedules, s, sched[s].qi)
<1>1. now' = now /\ UNCHANGED iohVars /\ now \in Nat /\ at \in Nat
  BY NowNat, TimeAssumption DEF Reschedule
<1>2. s \in Scheduled /\ h \in Handle /\ ioh[h] = sched[s].qi /\ ioh[h] \in Queue
  BY EventIdProps DEF Reschedule
<1>3. Part(u) /\ In(u) = Scheduled \ {s}
  BY <1>2, PartUnlinked
<1>4. PushTo(u, h, ioh[h], e, at)
  BY <1>2 DEF Reschedule
<1> HIDE DEF u
<1> DEFINE q == ioh[h]
           P == Plans(In(u))
<1>5. /\ q \in OpenQueues /\ OpenQueues' = OpenQueues
      /\ now < at =>
           /\ Ready' = Ready
           /\ Pending' = P \cup {[event |-> e, queue |-> q, time |-> at]}
      /\ ~(now < at) =>
           /\ Ready' = [Ready EXCEPT ![q] = Append(Ready[q], e)]
           /\ Pending' = P
  BY <1>1, <1>2, <1>3, <1>4, PushToMaps
<1>6. Planned(s) \in Pending /\ P = Pending \ {Planned(s)}
  BY <1>2, <1>3, <1>5, PlansLess
<1>7. e # Planned(s).event /\ Planned(s).queue = q
  <2>1. e \notin heap /\ sched[s].ev \in heap
    BY <1>2, <1>4 DEF PushTo, QInv, OnePlace
  <2>2. QED
    BY <1>2, <2>1 DEF Planned
<1> HIDE DEF P, q
<1>8. ASSUME now < at
      PROVE  /\ Pending' = (Pending \ {Planned(s)})
                             \cup {[event |-> e, queue |-> Planned(s).queue, time |-> at]}
             /\ Ready' = Ready
  BY <1>5, <1>6, <1>7, <1>8
<1>9. ASSUME ~(now < at)
      PROVE  /\ Pending' = Pending \ {Planned(s)}
             /\ Ready' = [Ready EXCEPT ![Planned(s).queue] = Append(Ready[Planned(s).queue], e)]
  BY <1>5, <1>6, <1>7, <1>9
<1>10. now < at <=> at > now
  BY <1>1
<1>11. QED
  BY <1>1, <1>5, <1>6, <1>7, <1>8, <1>9, <1>10 DEF Promise!Move

LEMMA UnscheduleMaps ==
  ASSUME QInv, OwnIds, NEW t \in Thread, NEW s \in Sched, Unschedule(t, s)
  PROVE  Planned(s) \in Pending /\ Promise!Withdraw(Planned(s))
<1> DEFINE u == Unlinked(Schedules, s, sched[s].qi)
<1>1. /\ now' = now /\ uq' = uq /\ evtime' = evtime /\ UNCHANGED iohVars
  BY DEF Unschedule
<1>2. /\ s \in Scheduled /\ sched[s].owner \in Handle
      /\ ioh[sched[s].owner] = sched[s].qi /\ sched[s].qi \in Queue
  BY EventIdProps DEF Unschedule
<1>3. OpenQueues' = OpenQueues /\ sched[s].qi \in OpenQueues
  BY <1>1, <1>2, OpenSame DEF OpenQueues, iohVars
<1>4. Part(u) /\ In(u) = Scheduled \ {s}
  BY <1>2, PartUnlinked
<1>5. Install(u)
  BY <1>2 DEF Unschedule
<1> HIDE DEF u
<1>6. Pending' = Plans(Scheduled \ {s})
  BY <1>1, <1>3, <1>4, <1>5, PlansInstall
<1>7. Planned(s) \in Pending /\ Pending' = Pending \ {Planned(s)}
  BY <1>2, <1>3, <1>6, PlansLess
<1>8. Ready' = Ready
  BY <1>1, <1>3, ReadySame
<1>9. QED
  BY <1>1, <1>3, <1>7, <1>8 DEF Promise!Withdraw

(* A loop of qe_close() works on a queue that is closed already.           *)
LEMMA CloseNextMaps ==
  ASSUME QInv, WholeInv, CloseNext
  PROVE  UNCHANGED <<now, OpenQueues, Ready, Pending>>
<1> DEFINE q == closing.q
           s == fq[q][closing.ii + 1]
           u == Unlinked(Schedules, s, sched[s].qi)
           e == sched[s].ev
<1>1. phase = "close" /\ q \in Queue /\ closing.ii \in Nat /\ fq[q] \in Seq(Sched)
  BY DEF CloseNext, QInv, TypeOK, LoopInv
<1>2. closing.ii + 1 \in DOMAIN fq[q]
  BY <1>1 DEF CloseNext
<1>3. s \in Scheduled /\ sched[s].qi = q
  BY <1>1, <1>2 DEF QInv, OwnerInv
<1>4. e \in Event
  BY <1>3, PresentList, InSigned DEF Schedules
<1>5. Part(u) /\ In(u) = Scheduled \ {s}
  BY <1>3, PartUnlinked
<1>6. Install(u) /\ Released({e}) /\ UNCHANGED <<now, uq, iohVars>>
  BY <1>3 DEF CloseNext
<1>7. OpenQueues' = OpenQueues /\ q \notin OpenQueues
  BY <1>1, <1>6, OpenSame DEF WholeInv, iohVars
<1> HIDE DEF u, s, e, q
<1>8. \A x \in Event \ {e} : evtime'[x] = evtime[x]
  BY <1>4, <1>6, ReleasedTyped
<1>9. \A y \in In(u) : evtime'[sched[y].ev] = evtime[sched[y].ev]
  <2>1. \A y \in Scheduled \ {s} : sched[y].ev # e
    BY <1>3 DEF QInv, OnePlace, e
  <2>2. \A y \in Scheduled : sched[y].ev \in Event
    BY PresentList, InSigned DEF Schedules
  <2>3. QED
    BY <1>5, <1>8, <2>1, <2>2
<1>10. Pending' = Plans(Scheduled \ {s})
  BY <1>5, <1>6, <1>7, <1>9, PlansInstall
<1>11. Pending' = Pending
  BY <1>3, <1>7, <1>10, PlansLess
<1>12. Ready' = Ready
  BY <1>6, <1>7, ReadySame
<1>13. QED
  BY <1>6, <1>7, <1>11, <1>12

LEMMA CloseEndMaps == ASSUME CloseEnd PROVE UNCHANGED <<now, OpenQueues, Ready, Pending>>
<1>1. /\ sched' = sched /\ se_list' = se_list /\ uq' = uq /\ ioh' = ioh
      /\ now' = now /\ evtime' = evtime
  BY DEF CloseEnd, evVars, iohVars
<1>2. OpenQueues' = OpenQueues
  BY <1>1, OpenSame
<1>3. Ready' = Ready
  BY <1>1, <1>2, ReadySame
<1>4. Pending' = Pending
  BY <1>1, <1>2 DEF Pending, Planned, Scheduled
<1>5. QED
  BY <1>1, <1>2, <1>3, <1>4

(* With the last handle goes the queue.                                    *)
LEMMA CloseMaps ==
  ASSUME QInv, NEW t \in Thread, NEW h \in Handle, Close(t, h)
  PROVE  \/ UNCHANGED <<now, OpenQueues, Ready, Pending>>
         \/ ioh[h] \in Queue /\ Promise!EndQueue(ioh[h])
<1> DEFINE q == ioh[h]
<1>1. /\ q \in Queue /\ q # Nil /\ ioh' = [ioh EXCEPT ![h] = Nil] /\ ioh \in [Handle -> Queue \cup {Nil}]
      /\ now' = now /\ UNCHANGED <<listVars, evVars>>
  BY DEF Close, Valid, QInv, TypeOK
<1>2. Nil \notin Queue
  BY NilAssumption
<1>3. q \in OpenQueues
  BY <1>1 DEF OpenQueues
<1>4. OpenQueues' = IF LastHandle(h) THEN OpenQueues \ {q} ELSE OpenQueues
  <2>1. CASE LastHandle(h)
    BY <1>1, <1>2, <2>1 DEF OpenQueues, LastHandle
  <2>2. CASE ~LastHandle(h)
    BY <1>1, <1>2, <2>2 DEF OpenQueues, LastHandle
  <2>3. QED
    BY <2>1, <2>2
<1>5. /\ sched' = sched /\ evtime' = evtime /\ Scheduled' = Scheduled /\ uq' = uq
  BY <1>1 DEF listVars, evVars, Scheduled
<1> HIDE DEF q
<1>6. CASE ~LastHandle(h)
  <2>1. OpenQueues' = OpenQueues
    BY <1>4, <1>6
  <2>2. Ready' = Ready
    BY <1>5, <2>1, ReadySame
  <2>3. Pending' = Pending
    BY <1>5, <2>1 DEF Pending, Planned
  <2>4. QED
    BY <1>1, <2>1, <2>2, <2>3
<1>7. CASE LastHandle(h)
  <2>1. OpenQueues' = OpenQueues \ {q}
    BY <1>4, <1>7
  <2>2. Pending' = {p \in Pending : p.queue # q}
    BY <1>5, <2>1 DEF Pending, Planned
  <2>3. Ready' = [Ready EXCEPT ![q] = <<>>]
    <3> DEFINE F(p) == IF p \in OpenQueues' THEN uq[p] ELSE <<>>
               G(p) == IF p = q THEN <<>> ELSE Ready[p]
    <3>1. Ready' = [p \in Queue |-> F(p)]
      BY <1>5 DEF Ready
    <3>2. [Ready EXCEPT ![q] = <<>>] = [p \in Queue |-> G(p)]
      BY DEF Ready
    <3>3. ASSUME NEW p \in Queue PROVE F(p) = G(p)
      BY <2>1 DEF Ready
    <3> HIDE DEF F, G
    <3>4. QED
      BY <3>1, <3>2, <3>3
  <2>4. Promise!EndQueue(q)
    BY <1>1, <1>3, <2>1, <2>2, <2>3 DEF Promise!EndQueue
  <2>5. QED
    BY <1>1, <2>4 DEF q
<1>8. QED
  BY <1>6, <1>7

LEMMA CreateMaps ==
  ASSUME QInv, WholeInv, FreshInv, NEW t \in Thread, NEW h \in Handle, NEW q \in Queue,
         Create(t, h, q)
  PROVE  Promise!NewQueue(q)
<1>1. /\ ioh' = [ioh EXCEPT ![h] = q] /\ ioh \in [Handle -> Queue \cup {Nil}] /\ ioh[h] = Nil
      /\ q \notin opened /\ q # Nil /\ now' = now /\ UNCHANGED <<listVars, evVars>>
  BY NilAssumption DEF Create, FreeHandle, QInv, TypeOK
<1>2. OpenQueues' = OpenQueues \cup {q} /\ q \notin OpenQueues
  <2>1. q \notin OpenQueues
    BY <1>1 DEF WholeInv
  <2>2. Nil \notin Queue
    BY NilAssumption
  <2>3. OpenQueues' = OpenQueues \cup {q}
    BY <1>1, <2>2 DEF OpenQueues
  <2>4. QED
    BY <2>1, <2>3
<1>3. /\ sched' = sched /\ evtime' = evtime /\ Scheduled' = Scheduled /\ uq' = uq
  BY <1>1 DEF listVars, evVars, Scheduled
<1>4. Ready' = Ready
  <2> DEFINE F(p) == IF p \in OpenQueues' THEN uq[p] ELSE <<>>
             G(p) == IF p \in OpenQueues THEN uq[p] ELSE <<>>
  <2>1. Ready' = [p \in Queue |-> F(p)] /\ Ready = [p \in Queue |-> G(p)]
    BY <1>3 DEF Ready
  <2>2. uq[q] = <<>>
    BY <1>1 DEF FreshInv
  <2>3. ASSUME NEW p \in Queue PROVE F(p) = G(p)
    BY <1>2, <2>2
  <2> HIDE DEF F, G
  <2>4. QED
    BY <2>1, <2>3
<1>5. Pending' = Pending
  <2>1. \A s \in Scheduled : sched[s].qi # q
    BY <1>1, PresentList DEF WholeInv, Whole, Schedules
  <2>2. QED
    BY <1>2, <1>3, <2>1 DEF Pending, Planned
<1>6. QED
  BY <1>1, <1>2, <1>4, <1>5 DEF Promise!NewQueue

(* Steps that leave the queues alone.                                      *)
LEMMA StutterMaps ==
  ASSUME UNCHANGED <<now, listVars, uq>>, OpenQueues' = OpenQueues,
         \A s \in Scheduled : evtime'[sched[s].ev] = evtime[sched[s].ev]
  PROVE  UNCHANGED <<now, OpenQueues, Ready, Pending>>
BY PlansSame, ReadySame

LEMMA OpenMaps ==
  ASSUME QInv, NEW t \in Thread, NEW h \in Handle, NEW q \in Queue, Open(t, h, q)
  PROVE  UNCHANGED <<now, OpenQueues, Ready, Pending>>
<1>1. /\ ioh' = [ioh EXCEPT ![h] = q] /\ ioh \in [Handle -> Queue \cup {Nil}] /\ ioh[h] = Nil
      /\ UNCHANGED <<now, listVars, uq, evtime>>
  BY DEF Open, FreeHandle, QInv, TypeOK, evVars
<1>2. \E g \in Handle : ioh[g] = q
  BY DEF Open
<1>3. OpenQueues' = OpenQueues
  BY <1>1, <1>2, NilAssumption DEF OpenQueues
<1>4. QED
  BY <1>1, <1>3, StutterMaps

LEMMA ClearMaps ==
  ASSUME QInv, NEW t \in Thread, NEW h \in Handle, Clear(t, h)
  PROVE  ioh[h] \in Queue /\ Promise!Empty(ioh[h])
<1> DEFINE es == ToSet(uq[ioh[h]])
<1>1. ioh[h] \in Queue /\ uq[ioh[h]] \in Seq(Event)
  BY DEF Clear, Valid, QInv, TypeOK
<1>2. es \in SUBSET Event /\ \A x \in es : \E i \in DOMAIN uq[ioh[h]] : uq[ioh[h]][i] = x
  BY <1>1 DEF ToSet
<1>3. \A s \in Scheduled : sched[s].ev \notin es
  BY <1>1, <1>2 DEF QInv, OnePlace, Queued
<1>4. Released(es) /\ UNCHANGED <<now, listVars, iohVars>> /\ uq' = [uq EXCEPT ![ioh[h]] = <<>>]
  BY DEF Clear
<1> HIDE DEF es
<1>5. \A s \in Scheduled : evtime'[sched[s].ev] = evtime[sched[s].ev]
  BY <1>2, <1>3, <1>4, ReleasedTimes
<1>6. OpenQueues' = OpenQueues /\ ioh[h] \in OpenQueues
  BY <1>1, <1>4, OpenSame DEF OpenQueues, iohVars
<1>7. Ready' = [Ready EXCEPT ![ioh[h]] = <<>>] /\ Pending' = Pending
  BY <1>4, <1>5, <1>6, ReadyAt, PlansSame
<1>8. QED
  BY <1>1, <1>4, <1>6, <1>7 DEF Promise!Empty

LEMMA FreeEventMaps ==
  ASSUME QInv, NEW t \in Thread, NEW e \in Event, FreeEvent(t, e)
  PROVE  UNCHANGED <<now, OpenQueues, Ready, Pending>>
<1>1. Released({e}) /\ UNCHANGED <<now, listVars, uq, iohVars>> /\ e \in held[t]
  BY DEF FreeEvent
<1>2. \A s \in Scheduled : sched[s].ev \notin {e}
  BY <1>1 DEF QInv, OnePlace, Held
<1>3. \A s \in Scheduled : evtime'[sched[s].ev] = evtime[sched[s].ev]
  BY <1>1, <1>2, ReleasedTimes
<1>4. OpenQueues' = OpenQueues
  BY <1>1, OpenSame DEF iohVars
<1>5. QED
  BY <1>1, <1>3, <1>4, StutterMaps

LEMMA GetIndexMaps ==
  ASSUME QInv, NEW t, NEW h \in Handle, Valid(h), NEW i \in DOMAIN uq[ioh[h]],
         GetIndex(t, h, i), UNCHANGED <<now, listVars, evtime, iohVars>>
  PROVE  /\ ioh[h] \in Queue /\ i \in 1..Len(Ready[ioh[h]])
         /\ Promise!Pick(ioh[h], i)
<1>1. ioh[h] \in Queue /\ uq[ioh[h]] \in Seq(Event)
  BY DEF Valid, QInv, TypeOK
<1>2. OpenQueues' = OpenQueues /\ ioh[h] \in OpenQueues
  BY <1>1, OpenSame DEF OpenQueues, iohVars
<1>3. uq' = [uq EXCEPT ![ioh[h]] = RemoveAt(uq[ioh[h]], i)]
  BY DEF GetIndex
<1>4. /\ Ready' = [Ready EXCEPT ![ioh[h]] = RemoveAt(uq[ioh[h]], i)]
      /\ Ready[ioh[h]] = uq[ioh[h]]
  BY <1>2, <1>3, ReadyAt
<1>5. Pending' = Pending
  BY <1>2, PlansSame
<1>6. i \in 1..Len(Ready[ioh[h]])
  BY <1>1, <1>4
<1>7. Ready' = [Ready EXCEPT ![ioh[h]] = RemoveAt(Ready[ioh[h]], i)] /\ i \in DOMAIN Ready[ioh[h]]
  BY <1>4
<1>8. now' = now
  OBVIOUS
<1>9. QED
  BY <1>1, <1>2, <1>5, <1>6, <1>7, <1>8 DEF Promise!Pick, Promise!RemoveAt, RemoveAt

(* cbattime(): the head is not delivered long before its time ...          *)
LEMMA InTime ==
  ASSUME QInv, TimeInv, Deliver
  PROVE  evtime[sched[se_list].ev] =< now + (Res + (Res \div 2) * Cardinality(Sched))
<1> DEFINE at == evtime[sched[se_list].ev]
           r == Res \div 2
           c == Cardinality(Sched)
           n0 == alarm.start + alarm.diff
<1>1. /\ alarm.cbf /\ se_list \in Scheduled
      /\ et = NoTime => MayFire
      /\ et \in Nat \cup {NoTime} /\ now \in Nat /\ alarm.start \in Nat /\ alarm.diff \in Nat
  BY NowNat DEF Deliver, MayFire, QInv, LoopInv, AlarmFollowsList, TypeOK, Scheduled
<1>2. at \in Nat
  <2>1. sched[se_list].ev \in Event
    BY <1>1, PresentList, InSigned DEF Schedules
  <2>2. QED
    BY <2>1 DEF QInv, TypeOK
<1>3. Left \in Nat /\ c \in Nat /\ Left =< c /\ Left + 1 =< c
  <2>1. Scheduled # {}
    BY <1>1
  <2>2. Cardinality(Scheduled) # 0
    BY <2>1, LeftNat, FS_EmptySet
  <2>3. Left = c - Cardinality(Scheduled)
    BY DEF Left
  <2> HIDE DEF c
  <2>4. c \in Nat /\ Cardinality(Scheduled) \in Nat
    BY LeftNat DEF c
  <2> DEFINE d == Cardinality(Scheduled)
  <2>5. d \in Nat /\ d # 0 /\ Left = c - d
    BY <2>2, <2>3, <2>4
  <2> HIDE DEF d
  <2>6. QED
    BY <2>4, <2>5, LeftNat
<1>4. /\ Slack(c) \in Nat /\ Slack(Left) \in Nat /\ Slack(Left + 1) \in Nat
      /\ Slack(Left) =< Slack(c) /\ Slack(Left + 1) =< Slack(c)
  <2>1. Left + 1 \in Nat
    BY <1>3
  <2> HIDE DEF c
  <2>2. QED
    BY <1>3, <2>1, SlackNat, SlackMono
<1>5. Slack(c) = r * c
  <2>1. r \in Nat
    BY SlackNat
  <2> HIDE DEF r, c
  <2>2. c * r = r * c
    BY <1>3, <2>1
  <2>3. QED
    BY <2>2 DEF Slack, r
<1>6. Res \in Nat
  BY TimeAssumption
<1> HIDE DEF c, r
<1>7. at =< now + Res + Slack(c)
  <2>1. CASE et = NoTime
    <3>1. alarm.start =< now /\ at =< n0 + Slack(Left + 1)
      BY <1>1, <2>1 DEF TimeInv
    <3>2. n0 =< now /\ n0 \in Nat
      BY <1>1, <2>1, <3>1 DEF MayFire
    <3> DEFINE x == Slack(Left + 1)
               y == Slack(c)
    <3>3. x \in Nat /\ y \in Nat /\ x =< y /\ at =< n0 + x
      BY <1>4, <3>1
    <3> HIDE DEF x, y, n0, at
    <3>4. at =< now + Res + y
      BY <1>1, <1>2, <1>6, <3>2, <3>3
    <3>5. QED
      BY <3>4 DEF y
  <2>2. CASE et # NoTime
    <3>1. n0 =< now /\ et =< n0 + Slack(Left) /\ at - et =< Res
      BY <2>2 DEF TimeInv, InBatch
    <3>2. n0 \in Nat /\ et \in Nat
      BY <1>1, <2>2
    <3> DEFINE x == Slack(Left)
               y == Slack(c)
    <3>3. x \in Nat /\ y \in Nat /\ x =< y /\ et =< n0 + x
      BY <1>4, <3>1
    <3> HIDE DEF x, y, n0, at
    <3>4. at =< now + Res + y
      BY <1>1, <1>2, <1>6, <3>1, <3>2, <3>3
    <3>5. QED
      BY <3>4 DEF y
  <2>3. QED
    BY <2>1, <2>2
<1> DEFINE y == Slack(c)
<1>8. y \in Nat /\ at =< now + Res + y /\ y = r * c
  BY <1>4, <1>5, <1>7
<1> HIDE DEF y
<1>9. at =< now + (Res + y)
  BY <1>1, <1>2, <1>6, <1>8
<1>10. QED
  BY <1>8, <1>9 DEF r, c

(* ... and is the earliest that is pending; or nobody has its queue.       *)
LEMMA DeliverMaps ==
  ASSUME QInv, WholeInv, TimeInv, Deliver
  PROVE  \/ UNCHANGED <<now, OpenQueues, Ready, Pending>>
         \/ Planned(se_list) \in Pending /\ Promise!Mature(Planned(se_list))
<1> DEFINE s == se_list
           q == sched[s].qi
           e == sched[s].ev
           l == Cut(Schedules, s, q)
<1>1. se_list # Nil /\ (et = NoTime => alarm.usr = se_list)
  BY DEF Deliver, MayFire, QInv, LoopInv, AlarmFollowsList
<1>2. s \in Scheduled
  BY <1>1 DEF QInv, TypeOK, Scheduled
<1>3. /\ uq' = [uq EXCEPT ![q] = Append(uq[q], e)]
      /\ sched' = l.sched /\ se_list' = l.head
      /\ now' = now /\ evtime' = evtime /\ ioh' = ioh
  BY <1>1 DEF Deliver, Install, Rearmed, Timed, iohVars
<1>4. Part(l) /\ In(l) = Scheduled \ {s}
  BY <1>2, PartCut
<1>5. OpenQueues' = OpenQueues
  BY <1>3, OpenSame
<1> HIDE DEF l
<1>6. Pending' = Plans(Scheduled \ {s})
  <2>1. Scheduled' = Scheduled \ {s}
    BY <1>3, <1>4 DEF Scheduled, In
  <2>2. \A y \in Scheduled \ {s} : l.sched[y].ev = sched[y].ev /\ l.sched[y].qi = sched[y].qi
    BY <1>4, InSigned DEF Part
  <2>3. QED
    BY <1>3, <1>5, <2>1, <2>2, PlansStep
<1>7. CASE q \notin OpenQueues
  <2>1. Pending' = Pending
    BY <1>2, <1>6, <1>7, PlansLess
  <2>2. Ready' = Ready
    BY <1>3, <1>5, <1>7, ReadyOff
  <2>3. QED
    BY <1>3, <1>5, <2>1, <2>2
<1>8. CASE q \in OpenQueues
  <2> DEFINE p == Planned(s)
  <2>1. p \in Pending /\ Pending' = Pending \ {p}
    BY <1>2, <1>6, <1>8, PlansLess
  <2>2. p.event = e /\ p.queue = q /\ p.time = evtime[e]
    BY DEF Planned
  <2>3. Ready' = [Ready EXCEPT ![p.queue] = Append(Ready[p.queue], p.event)]
    BY <1>3, <1>5, <1>8, <2>2, ReadyAt
  <2>4. \A x \in Pending : p.time =< x.time
    BY <1>1, <2>2, HeadFirst DEF Pending, Planned
  <2>5. p.time =< now + (Res + (Res \div 2) * Cardinality(Sched))
    BY <2>2, InTime
  <2> HIDE DEF p
  <2>6. Promise!Mature(p)
    BY <1>3, <1>5, <2>1, <2>3, <2>4, <2>5 DEF Promise!Mature
  <2>7. QED
    BY <2>1, <2>6 DEF p
<1>9. QED
  BY <1>7, <1>8

(* Every step is one of EventQueue, or none.                               *)
LEMMA StepMaps ==
  ASSUME OwnIds, QInv, WholeInv, TimeInv, FreshInv, [Next]_vars
  PROVE  Promise!QNext \/ UNCHANGED <<now, OpenQueues, Ready, Pending>>
<1> DEFINE Maps == Promise!QNext \/ UNCHANGED <<now, OpenQueues, Ready, Pending>>
<1>1. ASSUME UNCHANGED <<now, listVars, uq, evtime, ioh>> PROVE Maps
  BY <1>1, OpenSame, StutterMaps
<1>2. ASSUME NEW q \in Queue, NEW i \in 1..Len(Ready[q]), Promise!Pick(q, i) PROVE Maps
  BY <1>2 DEF Promise!QNext
<1>3. CASE Tick
  <2>1. OpenQueues' = OpenQueues /\ Ready' = Ready /\ Pending' = Pending
    BY <1>3, OpenSame, ReadySame, PlansSame DEF Tick, evVars, iohVars
  <2>2. Promise!Advance
    BY <1>3, <2>1 DEF Tick, Promise!Advance
  <2>3. QED
    BY <2>2 DEF Promise!QNext
<1>4. CASE Kernel
  <2>1. CASE Switch \/ EndSwitch
    BY <1>1, <2>1 DEF Switch, EndSwitch, evVars, iohVars
  <2>2. CASE Deliver
    BY <2>2, DeliverMaps DEF Promise!QNext
  <2>3. QED
    BY <1>4, <2>1, <2>2 DEF Kernel
<1>5. CASE CloseNext \/ CloseEnd
  BY <1>5, CloseNextMaps, CloseEndMaps
<1>6. ASSUME NEW t \in Thread, Program(t) PROVE Maps
  <2>1. ASSUME NEW h \in Handle, NEW q \in Queue, Create(t, h, q) PROVE Maps
    BY <2>1, CreateMaps DEF Promise!QNext
  <2>2. ASSUME NEW h \in Handle, NEW q \in Queue, Open(t, h, q) PROVE Maps
    BY <2>2, OpenMaps
  <2>3. ASSUME NEW h \in Handle, Close(t, h) PROVE Maps
    BY <2>3, CloseMaps DEF Promise!QNext
  <2>4. ASSUME NEW h \in Handle, Clear(t, h) PROVE Maps
    BY <2>4, ClearMaps DEF Promise!QNext
  <2>5. ASSUME NEW h \in Handle, NEW e \in Event, Post(t, h, e) PROVE Maps
    <3>1. ioh[h] \in Queue
      BY <2>5 DEF Post, Valid, QInv, TypeOK
    <3>2. QED
      BY <2>5, <3>1, PostMaps DEF Promise!QNext
  <2>6. ASSUME NEW h \in Handle, NEW e \in Event, NEW at \in When, Schedule(t, h, e, at)
        PROVE  Maps
    <3>1. ioh[h] \in Queue
      BY <2>6 DEF Schedule, Valid, QInv, TypeOK
    <3>2. QED
      BY <2>6, <3>1, ScheduleMaps DEF Promise!QNext
  <2>7. ASSUME NEW h \in Handle, NEW i \in 1..Cardinality(Event), Take(t, h, i) PROVE Maps
    <3>1. /\ Valid(h) /\ i \in DOMAIN uq[ioh[h]] /\ GetIndex(t, h, i)
          /\ UNCHANGED <<now, listVars, evtime, iohVars>>
      BY <2>7 DEF Take
    <3>2. QED
      BY <1>2, <3>1, GetIndexMaps
  <2>8. ASSUME NEW h \in Handle, NEW b \in BOOLEAN, WaitEvent(t, h, b) PROVE Maps
    <3>1. CASE uq[ioh[h]] # <<>>
      <4>1. /\ Valid(h) /\ 1 \in DOMAIN uq[ioh[h]] /\ GetIndex(t, h, 1)
            /\ UNCHANGED <<now, listVars, evtime, iohVars>>
        BY <2>8, <3>1 DEF WaitEvent, Valid, QInv, TypeOK
      <4>2. QED
        BY <1>2, <4>1, GetIndexMaps
    <3>2. CASE uq[ioh[h]] = <<>>
      BY <1>1, <2>8, <3>2 DEF WaitEvent, iohVars
    <3>3. QED
      BY <3>1, <3>2
  <2>9. ASSUME NEW s \in Sched, Unschedule(t, s) PROVE Maps
    BY <2>9, UnscheduleMaps DEF Promise!QNext
  <2>10. ASSUME NEW s \in Sched, NEW e \in Event, NEW at \in When, Reschedule(t, s, e, at)
         PROVE  Maps
    BY <2>10, RescheduleMaps DEF Promise!QNext
  <2>11. ASSUME NEW e \in Event, FreeEvent(t, e) PROVE Maps
    BY <2>11, FreeEventMaps
  <2> HIDE DEF Maps
  <2>12. QED
    BY <1>6, <2>1, <2>2, <2>3, <2>4, <2>5, <2>6, <2>7, <2>8, <2>9, <2>10, <2>11 DEF Program
<1>7. ASSUME NEW t \in Thread, Ask(t) PROVE Maps
  BY <1>1, <1>7 DEF Ask, evVars, iohVars
<1>8. ASSUME NEW t \in Thread, Got(t) PROVE Maps
  <2> DEFINE h == call[t].h
  <2>1. CASE Valid(h) /\ uq[ioh[h]] # <<>>
    <3>1. h \in Handle /\ 1 \in DOMAIN uq[ioh[h]]
      BY <2>1 DEF Valid, QInv, TypeOK
    <3>2. GetIndex(t, h, 1) /\ UNCHANGED <<now, listVars, evtime, iohVars>>
      BY <1>8, <2>1 DEF Got
    <3> HIDE DEF h, Maps
    <3>3. QED
      BY <1>2, <2>1, <3>1, <3>2, GetIndexMaps
  <2>2. CASE ~(Valid(h) /\ uq[ioh[h]] # <<>>)
    BY <1>1, <1>8, <2>2 DEF Got, iohVars
  <2>3. QED
    BY <2>1, <2>2
<1>9. CASE UNCHANGED vars
  BY <1>1, <1>9 DEF vars, evVars, iohVars
<1>10. QED
  BY <1>3, <1>4, <1>5, <1>6, <1>7, <1>8, <1>9 DEF Next

-----------------------------------------------------------------------------
(***************************************************************************)
(* The inductive invariant holds in every reachable state, whatever the    *)
(* numbers of threads, handles, queues and events: the links of the list   *)
(* in sysque.cpp, the fq arrays, the alarm and the places of the events    *)
(* stay consistent under any order of qe_* calls and deliveries.           *)
(***************************************************************************)
THEOREM QueueInvariant ==
  ASSUME OwnIds
  PROVE  Spec => []QInv
<1>1. Init => QInv
  BY InitInv
<1>2. QInv /\ [Next]_vars => QInv'
  BY NextInv, Zenon
<1>3. QED
  BY <1>1, <1>2, PTL DEF Spec

(* Each variable keeps the type of the C data it stands for.               *)
THEOREM QueueTypes ==
  ASSUME OwnIds
  PROVE  Spec => []TypeOK
<1>1. QInv => TypeOK
  BY DEF QInv
<1>2. QED
  BY <1>1, QueueInvariant, PTL

(* cbattime() never meets a "head mismatch", and nothing is scheduled      *)
(* without an alarm, whatever is scheduled, moved, closed or delivered.    *)
THEOREM AlarmStaysRight ==
  ASSUME OwnIds
  PROVE  Spec => []AlarmFollowsList
<1>1. QInv => AlarmFollowsList
  BY DEF QInv
<1>2. QED
  BY <1>1, QueueInvariant, PTL

(* No event is in two places, and nothing that was released is in any: a   *)
(* program that frees what it was given frees each block once.             *)
THEOREM EventsInOnePlace ==
  ASSUME OwnIds
  PROVE  Spec => []OnePlace
<1>1. QInv => OnePlace
  BY DEF QInv
<1>2. QED
  BY <1>1, QueueInvariant, PTL

(***************************************************************************)
(* Together with QInv: no entry of the list is lost in the blocks, and the *)
(* arrays of the queues that have handles miss none, whatever is added,    *)
(* moved, delivered or closed.                                             *)
(***************************************************************************)
THEOREM ListInvariant ==
  ASSUME OwnIds
  PROVE  Spec => [](QInv /\ WholeInv)
<1>1. Init => QInv /\ WholeInv
  BY InitInv, InitWhole
<1>2. QInv /\ WholeInv /\ [Next]_vars => (QInv /\ WholeInv)'
  <2>1. SUFFICES ASSUME QInv, WholeInv, [Next]_vars PROVE QInv' /\ WholeInv'
    OBVIOUS
  <2>2. QInv'
    BY <2>1, NextInv, Zenon
  <2>3. WholeInv'
    BY <2>1, NextWhole, Zenon
  <2>4. QED
    BY <2>2, <2>3
<1>3. QED
  BY <1>1, <1>2, PTL DEF Spec

(* The list from se_list is sorted, ends, is linked both ways, and fq of   *)
(* an open queue holds exactly its entries: eid_add(), hlp_blistdel() and  *)
(* fq.Delete() never get out of step.                                      *)
THEOREM ListStaysSound ==
  ASSUME OwnIds
  PROVE  Spec => []ListSound
<1>1. QInv /\ WholeInv => ListSound
  BY ListFromInv
<1>2. QED
  BY <1>1, ListInvariant, PTL

(* The id of a scheduled event stays good as long as the handle that it    *)
(* was scheduled with: that one leads to the event's queue, whatever other *)
(* handles were closed and opened again under their old numbers, and       *)
(* eid_unlink() finds the entry there.                                     *)
THEOREM EntriesFound ==
  ASSUME OwnIds
  PROVE  Spec => []UnlinkFindsEntry
<1>1. QInv /\ WholeInv => UnlinkFindsEntry
  BY EntryFound
<1>2. QED
  BY <1>1, ListInvariant, PTL

(* The list, the fq arrays and the alarm do what qstask.h promises, over   *)
(* every call of sysque.cpp and every round of cbattime(): an event that   *)
(* was scheduled becomes ready once, the earliest first, and not earlier   *)
(* than 100 mks and half of it for each alarm; what a thread takes out is  *)
(* what was posted, in that order.                                         *)
THEOREM QueuesRefine ==
  ASSUME OwnIds
  PROVE  Spec => ImplementsEventQueue
<1> DEFINE Inv == QInv /\ WholeInv /\ TimeInv /\ FreshInv
<1>1. Init => Inv /\ Promise!QInit
  <2> SUFFICES ASSUME Init PROVE Inv /\ Promise!QInit
    OBVIOUS
  <2>1. FreshInv
    BY DEF Init, FreshInv
  <2>2. OpenQueues = {} /\ Scheduled = {}
    BY NilAssumption DEF Init, OpenQueues, Scheduled, Blank
  <2>3. Promise!QInit
    BY <2>2 DEF Init, Promise!QInit, Ready, Pending
  <2>4. QED
    BY <2>1, <2>3, InitInv, InitWhole, InitTime
<1>2. Inv /\ [Next]_vars => Inv'
  BY NextInv, NextWhole, NextTime, NextFresh
<1>3. Inv /\ [Next]_vars => [Promise!QNext]_<<now, OpenQueues, Ready, Pending>>
  BY StepMaps
<1> HIDE DEF Inv
<1>4. QED
  BY <1>1, <1>2, <1>3, PTL DEF Spec, ImplementsEventQueue, Promise!QSpec, Promise!qvars
=============================================================================

---------------------------- MODULE MtProcProofs ----------------------------
(***************************************************************************)
(* Proofs about MtProc: what the blocks of processes, the states of        *)
(* threads and the queue of the service thread know of each other.  The    *)
(* uses that the code is not made for (AllUses) are excluded.              *)
(***************************************************************************)
EXTENDS MtProc, NatLemmas, SequenceTheorems

(***************************************************************************)
(* Threads and their slots                                                 *)
(***************************************************************************)
(* A thread is its process and its number.                                 *)
LEMMA ThreadFacts ==
  /\ 1 \in Tid /\ Tid \subseteq Nat \ {0}
  /\ \A x \in Thread : /\ x[1] \in Pd /\ x[2] \in Tid /\ x = <<x[1], x[2]>>
                       /\ x[2] = 1 => x = Main(x[1])
  /\ \A p \in Pd : Main(p) \in Thread /\ Main(p)[1] = p /\ Main(p)[2] = 1
  /\ \A p \in Pd, t \in Tid : <<p, t>> \in Thread /\ <<p, t>>[1] = p /\ <<p, t>>[2] = t
  /\ \A x, y \in Thread : x[1] = y[1] /\ x[2] = y[2] => x = y
  /\ Root \in Pd /\ None \notin Pd
<1>1. MaxTid \in Nat \ {0} /\ Root \in Pd /\ None \notin Pd
  BY ProcConstants
<1>2. 1 \in Tid /\ Tid \subseteq Nat \ {0}
  BY <1>1 DEF Tid
<1>3. QED
  BY <1>1, <1>2 DEF Thread, Main

(***************************************************************************)
(* The invariant                                                           *)
(***************************************************************************)
Types ==
    /\ pid \in [Pd -> 0..MaxPid] /\ nextpid \in 2..(MaxPid + 1)
    /\ parent \in [Pd -> Pd \cup {None}]
    /\ ptid \in [Pd -> 0..MaxTid]
    /\ flags \in [Pd -> SUBSET {"nopwait", "lwait", "chain"}]
    /\ cnt \in [Pd -> Nat]
    /\ st \in [Thread -> States] /\ pc \in [Thread -> PCs]
    /\ wh \in [Thread -> 0..(MaxPid + MaxTid)]
    /\ tgt \in [Thread -> Pd \cup {None}] /\ info \in [Thread -> Pd \cup {None}]
    /\ todo \in [Thread -> [pid : 0..MaxPid, tids : Seq(Tid)]]
    /\ lock \in Thread \cup {None}
    /\ sysq \in Seq(Pd) /\ rpid \in 0..MaxPid
    /\ trap = FALSE

(* A block is free or has a main thread; piThreads counts its slots.       *)
BlockInv == \A p \in Pd :
    /\ cnt[p] = Cardinality(Slots(p))
    /\ p \in Used => 1 \in Slots(p) /\ pid[p] < nextpid
    /\ p \notin Used => Slots(p) = {} /\ flags[p] = {}

(* Nobody ends QSINIT.                                                     *)
RootInv ==
    /\ \A p \in Pd : pid[p] = 1 <=> p = Root
    /\ flags[Root] = {} /\ ptid[Root] = 0 /\ Slots(Root) = {1}
    /\ st[Main(Root)] # "gone" /\ pc[Main(Root)] \in {"prog", "launch", "ret", "stop"}
    /\ rpid # 1 /\ rpid < nextpid

(* What a thread waits for is still to come.                               *)
ThreadOK(x) ==
    /\ st[x] = "none" => pc[x] = "prog"
    /\ st[x] \notin Waits => wh[x] = 0
    /\ st[x] = "childexec" => pc[x] = "ret"
    /\ st[x] = "tidexit" => /\ pc[x] \in {"prog", "stop"} /\ wh[x] \in Tid
                            /\ pc[<<x[1], wh[x]>>] = "exit"
    /\ st[x] = "tidmain" => pc[x] = "main2" /\ wh[x] = 0
    /\ st[x] = "waitlnch" => /\ x[2] = 1 /\ pc[x] = "prog" /\ cnt[x[1]] = 1
                             /\ \E q \in Used : pid[q] = wh[x] /\ st[Main(q)] # "gone"
    /\ st[x] = "gone" => pc[x] = "main2"
    /\ pc[x] = "main2" => x[2] = 1 /\ (st[x] = "tidmain" <=> cnt[x[1]] > 1)
    /\ pc[x] \in {"prog", "launch", "stop"} => info[x] = None
    /\ pc[x] = "prog" => tgt[x] = None
ThreadInv == \A x \in Thread : ThreadOK(x)

(* The list of a chain ends with the thread that works on it.              *)
StopOK(x) == pc[x] = "stop" =>
    /\ todo[x].pid = 0 => x[1] # Root
    /\ todo[x].pid # 1
    /\ tgt[x] # None => /\ todo[x].pid = 0 /\ todo[x].tids # <<>>
                        /\ todo[x].tids[Len(todo[x].tids)] = x[2]
StopInv == \A x \in Thread : StopOK(x)

(* A process has a caller, or is to be freed by the service thread.  Of    *)
(* two processes with one pid one was replaced by the other.               *)
FlagOK(p) ==
    /\ ptid[p] = 0 <=> "nopwait" \in flags[p]
    /\ ptid[p] = 0 => parent[p] = Root
    /\ "chain" \in flags[p] => ptid[p] = 0 /\ pid[p] # rpid
    /\ \A q \in Used : p # q /\ pid[p] = pid[q] =>
          ("chain" \in flags[p] <=> "chain" \notin flags[q])
FlagInv == \A p \in Used \ {Root} : FlagOK(p)

(* mod_execcall() before mt_exec(): nobody has touched the new process.    *)
LaunchOK(x) == pc[x] = "launch" =>
    /\ tgt[x] \in Used \ {Root} /\ tgt[x] # x[1]
    /\ st[Main(tgt[x])] = "susp" /\ cnt[tgt[x]] = 1 /\ pc[Main(tgt[x])] = "prog"
    /\ "chain" \notin flags[tgt[x]]
    /\ \A y \in Thread : pc[y] = "launch" /\ tgt[y] = tgt[x] => y = x
    /\ IF "chain" \in flags[x[1]] THEN pid[tgt[x]] = pid[x[1]]
       ELSE ~Heir(tgt[x]) /\ (ptid[tgt[x]] # 0 => Caller(tgt[x]) = x)
LaunchInv == \A x \in Thread : LaunchOK(x)

(* A process and its caller know each other until it is freed.             *)
ChildOK(p) == ptid[p] # 0 =>
    /\ Caller(p) \in Thread
    /\ \/ /\ pc[Caller(p)] = "launch" /\ tgt[Caller(p)] = p
          /\ "chain" \notin flags[parent[p]]
       \/ /\ pc[Caller(p)] = "ret" /\ Ended(Caller(p)) = p
          /\ IF st[Main(p)] = "gone" THEN st[Caller(p)] \in {"run", "susp"}
             ELSE st[Caller(p)] = "childexec" /\ wh[Caller(p)] = pid[p]
ReturnOK(x) == pc[x] = "ret" =>
    Ended(x) \in Used /\ ptid[Ended(x)] # 0 /\ Caller(Ended(x)) = x
ChildInv == (\A p \in Used : ChildOK(p)) /\ (\A x \in Thread : ReturnOK(x))

(* The service thread is asked once for every process that has ended       *)
(* without a caller, and for no other.                                     *)
SysqInv ==
    /\ \A i, j \in 1..Len(sysq) : sysq[i] = sysq[j] => i = j
    /\ \A p \in Pd : (\E i \in 1..Len(sysq) : sysq[i] = p)
                       <=> p \in Used /\ st[Main(p)] = "gone" /\ ptid[p] = 0

(* The successor of a chained process has one thread, which has not begun  *)
(* or is about to end.                                                     *)
HeirOK(p) == Heir(p) =>
    /\ cnt[p] = 1 /\ st[Main(p)] \in {"susp", "run", "gone"}
    /\ \/ pc[Main(p)] \in {"exit", "main2"}
       \/ pc[Main(p)] = "prog" /\ st[Main(p)] = "susp"
HeirInv == \A p \in Used : HeirOK(p)

PInv == /\ Types /\ BlockInv /\ RootInv /\ ThreadInv /\ StopInv /\ FlagInv
        /\ LaunchInv /\ ChildInv /\ SysqInv /\ HeirInv

(***************************************************************************)
(* Walks over child lists                                                  *)
(***************************************************************************)
Steps == [Pd -> Pd \cup {None}]

(* A walk comes by its first block and by the next of every one.           *)
LEMMA WalkSteps ==
  ASSUME NEW n \in Steps, NEW a \in Pd \cup {None}
  PROVE  /\ Walk(n, a) \subseteq Pd
         /\ a # None => a \in Walk(n, a)
         /\ \A r \in Walk(n, a) : n[r] # None => n[r] \in Walk(n, a)
<1>1. Walk(n, a) \subseteq Pd
  BY DEF Walk
<1>2. a # None => a \in Walk(n, a)
  BY DEF Walk
<1>3. ASSUME NEW r \in Walk(n, a), n[r] # None
      PROVE  n[r] \in Walk(n, a)
  <2>1. r \in Pd /\ n[r] \in Pd
    BY <1>1, <1>3 DEF Steps
  <2>2. SUFFICES ASSUME NEW S \in SUBSET Pd, a \in S \cup {None},
                        \A u \in S : n[u] \in S \cup {None}
                 PROVE  n[r] \in S
    BY <2>1 DEF Walk
  <2>3. r \in S
    BY <1>3, <2>2 DEF Walk
  <2>4. QED
    BY <1>3, <2>2, <2>3
<1>4. QED
  BY <1>1, <1>2, <1>3

(* It leaves no set that is closed under the step.                         *)
LEMMA WalkWithin ==
  ASSUME NEW n, NEW a, NEW S \in SUBSET Pd, a \in S \cup {None},
         \A u \in S : n[u] \in S \cup {None}
  PROVE  Walk(n, a) \subseteq S
  BY DEF Walk

LEMMA WalkNone == ASSUME NEW n PROVE Walk(n, None) = {}
<1>1. PICK T \in SUBSET Pd : T = {}
  OBVIOUS
<1>2. None \in T \cup {None} /\ \A u \in T : n[u] \in T \cup {None}
  BY <1>1
<1>3. Walk(n, None) \subseteq T
  BY <1>2, WalkWithin
<1>4. QED
  BY <1>1, <1>3

(* Two lists with the same steps on a set that is closed under them.       *)
LEMMA WalkSame ==
  ASSUME NEW n \in Steps, NEW m \in Steps, NEW K \in SUBSET Pd,
         NEW a \in K \cup {None}, \A u \in K : n[u] \in K \cup {None} /\ m[u] = n[u]
  PROVE  /\ Walk(n, a) \subseteq Walk(m, a)
         /\ Ends(n, a) => Ends(m, a)
<1>1. None \notin Pd /\ a \in Pd \cup {None}
  BY ProcConstants
<1>2. Walk(n, a) \subseteq Walk(m, a)
  <2>1. SUFFICES ASSUME NEW q \in Walk(n, a), NEW S \in SUBSET Pd, a \in S \cup {None},
                        \A u \in S : m[u] \in S \cup {None}
                 PROVE  q \in S
    BY DEF Walk
  <2>2. S \cap K \in SUBSET Pd /\ a \in (S \cap K) \cup {None}
    BY <2>1
  <2>3. \A u \in S \cap K : n[u] \in (S \cap K) \cup {None}
    BY <2>1
  <2>4. Walk(n, a) \subseteq S \cap K
    BY <2>2, <2>3, WalkWithin
  <2>5. QED
    BY <2>1, <2>4
<1>3. ASSUME Ends(n, a), NEW S \in SUBSET Pd, a \in S
      PROVE  \E r \in S : m[r] \notin S
  <2>1. a \in S \cap K /\ S \cap K \in SUBSET Pd
    BY <1>1, <1>3
  <2>2. PICK r \in S \cap K : n[r] \notin S \cap K
    BY <1>3, <2>1 DEF Ends
  <2>3. m[r] = n[r] /\ n[r] \in K \cup {None}
    BY <2>2
  <2>4. m[r] \notin S
    BY <1>1, <2>2, <2>3
  <2>5. QED
    BY <2>2, <2>4
<1>4. QED
  BY <1>2, <1>3 DEF Ends

(* A walk that ends has a last block.                                      *)
LEMMA LastIs ==
  ASSUME NEW n \in Steps, NEW a \in Pd, Ends(n, a)
  PROVE  LastChild(n, a) \in Walk(n, a) /\ n[LastChild(n, a)] = None
<1>1. a \in Pd \cup {None} /\ a # None
  BY ProcConstants
<1>2. /\ Walk(n, a) \in SUBSET Pd /\ a \in Walk(n, a)
      /\ \A r \in Walk(n, a) : n[r] # None => n[r] \in Walk(n, a)
  BY <1>1, WalkSteps
<1>3. \E r \in Walk(n, a) : n[r] \notin Walk(n, a)
  BY <1>2 DEF Ends
<1>4. \E r \in Walk(n, a) : n[r] = None
  BY <1>2, <1>3
<1>5. QED
  BY <1>4 DEF LastChild

(* A block that a walk comes by, and that is not the first, has one before *)
(* it, which the walk up to the block comes by.                            *)
LEMMA BeforeIs ==
  ASSUME NEW n \in Steps, NEW a \in Pd, NEW p \in Walk(n, a)
  PROVE  /\ p \in PathTo(n, a, p) /\ PathTo(n, a, p) \subseteq Walk(n, a)
         /\ a # p => /\ Before(n, a, p) \in PathTo(n, a, p)
                     /\ Before(n, a, p) # p /\ n[Before(n, a, p)] = p
<1> DEFINE m == [n EXCEPT ![p] = None]
           L == Walk(m, a)
<1>1. a \in Pd \cup {None} /\ a # None /\ p \in Pd
  BY ProcConstants DEF Walk
<1>2. m \in Steps /\ m[p] = None /\ \A r \in Pd : r # p => m[r] = n[r]
  BY <1>1 DEF Steps
<1>3. PathTo(n, a, p) = L
  BY DEF PathTo
<1> HIDE DEF m
<1>4. /\ L \in SUBSET Pd /\ a \in L
      /\ \A r \in L : m[r] # None => m[r] \in L
  BY <1>1, <1>2, WalkSteps
<1>5. /\ Walk(n, a) \in SUBSET Pd /\ a \in Walk(n, a)
      /\ \A r \in Walk(n, a) : n[r] # None => n[r] \in Walk(n, a)
  BY <1>1, WalkSteps
<1>6. L \subseteq Walk(n, a)
  <2>1. \A u \in Walk(n, a) : m[u] \in Walk(n, a) \cup {None}
    BY <1>2, <1>5
  <2>2. QED
    BY <1>5, <2>1, WalkWithin
<1> HIDE DEF L
<1>7. p \in L
  <2>1. SUFFICES ASSUME p \notin L PROVE FALSE
    OBVIOUS
  <2>2. \A u \in L : n[u] \in L \cup {None}
    BY <1>2, <1>4, <2>1
  <2>3. Walk(n, a) \subseteq L
    BY <1>4, <2>2, WalkWithin
  <2>4. QED
    BY <2>1, <2>3
<1>8. ASSUME a # p
      PROVE  \E q \in L : q # p /\ n[q] = p
  <2>1. SUFFICES ASSUME \A q \in L : q # p => n[q] # p PROVE FALSE
    OBVIOUS
  <2>2. PICK T \in SUBSET Pd : T = L \ {p}
    BY <1>4
  <2>3. a \in T \cup {None} /\ \A u \in T : m[u] \in T \cup {None}
    BY <1>2, <1>4, <1>8, <2>1, <2>2
  <2>4. Walk(m, a) \subseteq T
    BY <2>3, WalkWithin
  <2>5. QED
    BY <1>7, <2>2, <2>4 DEF L
<1>9. QED
  BY <1>3, <1>6, <1>7, <1>8 DEF Before

(***************************************************************************)
(* The lists of a set O of fathers hold the blocks U.                      *)
(***************************************************************************)
Forest(t, par, O, U) ==
    /\ t \in [first : Steps, next : Steps] /\ O \subseteq Pd /\ U \subseteq Pd
    /\ \A p \in U : par[p] \in O
    /\ \A f \in O : t.first[f] # None => t.first[f] \in U /\ par[t.first[f]] = f
    /\ \A p \in U : t.next[p] # None => t.next[p] \in U /\ par[t.next[p]] = par[p]
    /\ \A p, q \in U : t.next[p] = t.next[q] /\ t.next[p] # None => p = q
    /\ \A f \in O, p \in U : t.first[f] # None => t.next[p] # t.first[f]
    /\ \A p \in U : p \in Walk(t.next, t.first[par[p]])
    /\ \A f \in O : Ends(t.next, t.first[f])

(* Each list holds children of its father.                                 *)
LEMMA ForestWalk ==
  ASSUME NEW t, NEW par, NEW O, NEW U, Forest(t, par, O, U), NEW f \in O
  PROVE  /\ t.first \in Steps /\ t.next \in Steps /\ f \in Pd
         /\ t.first[f] \in {p \in U : par[p] = f} \cup {None}
         /\ \A u \in {p \in U : par[p] = f} : t.next[u] \in {p \in U : par[p] = f} \cup {None}
         /\ Walk(t.next, t.first[f]) \subseteq {p \in U : par[p] = f}
<1> DEFINE K == {p \in U : par[p] = f}
<1>1. K \in SUBSET Pd /\ t.first \in Steps /\ t.next \in Steps /\ f \in Pd
  BY DEF Forest
<1>2. t.first[f] \in K \cup {None}
  BY DEF Forest
<1>3. \A u \in K : t.next[u] \in K \cup {None}
  BY DEF Forest
<1> HIDE DEF K
<1>4. Walk(t.next, t.first[f]) \subseteq K
  BY <1>1, <1>2, <1>3, WalkWithin
<1>5. QED
  BY <1>1, <1>2, <1>3, <1>4 DEF K

(* Lists that nobody touches stay as they are.                             *)
LEMMA ListKept ==
  ASSUME NEW t, NEW par, NEW O, NEW U, Forest(t, par, O, U), NEW f \in O,
         NEW m \in Steps, \A u \in U : par[u] = f => m[u] = t.next[u]
  PROVE  /\ Walk(t.next, t.first[f]) \subseteq Walk(m, t.first[f])
         /\ Ends(m, t.first[f])
<1> DEFINE K == {p \in U : par[p] = f}
<1>1. K \in SUBSET Pd /\ t.next \in Steps /\ t.first[f] \in K \cup {None}
  BY ForestWalk DEF Forest
<1>2. \A u \in K : t.next[u] \in K \cup {None} /\ m[u] = t.next[u]
  <2>1. \A u \in K : t.next[u] \in K \cup {None}
    BY SMTT(20), ForestWalk
  <2>2. \A u \in K : m[u] = t.next[u]
    OBVIOUS
  <2>3. QED
    BY <2>1, <2>2
<1>3. Ends(t.next, t.first[f])
  BY DEF Forest
<1> HIDE DEF K
<1>4. QED
  BY <1>1, <1>2, <1>3, WalkSame

(* mt_linktree() of a block that is in no list and leads to none.          *)
LEMMA LinkIs ==
  ASSUME NEW t \in [first : Steps, next : Steps], NEW f \in Pd, NEW p \in Pd
  PROVE  IF t.first[f] = None
         THEN /\ Linked(t, f, p) \in [first : Steps, next : Steps]
              /\ Linked(t, f, p).next = t.next
              /\ \A g \in Pd : Linked(t, f, p).first[g] = IF g = f THEN p ELSE t.first[g]
         ELSE LET z == LastChild(t.next, t.first[f])
              IN  z \in Pd =>
                    /\ Linked(t, f, p) \in [first : Steps, next : Steps]
                    /\ Linked(t, f, p).first = t.first
                    /\ \A g \in Pd : Linked(t, f, p).next[g] = IF g = z THEN p ELSE t.next[g]
  BY DEF Linked, Steps

LEMMA LinkForest ==
  ASSUME NEW t, NEW par, NEW O, NEW U, Forest(t, par, O, U),
         NEW f \in O, NEW p \in Pd, p \notin U, t.next[p] = None,
         NEW par2, par2[p] = f, \A u \in U : par2[u] = par[u]
  PROVE  /\ Walk(t.next, t.first[f]) \subseteq U /\ Ends(t.next, t.first[f])
         /\ \A g \in Pd \ U : Linked(t, f, p).next[g] = t.next[g]
         /\ Forest(Linked(t, f, p), par2, O, U \cup {p})
<1>1. /\ t \in [first : Steps, next : Steps] /\ f \in Pd /\ p # None
      /\ t.first \in Steps /\ t.next \in Steps /\ t.first[f] \in Pd \cup {None}
      /\ O \subseteq Pd /\ U \subseteq Pd
      /\ Ends(t.next, t.first[f])
  BY ProcConstants, ForestWalk DEF Forest
<1>2. Walk(t.next, t.first[f]) \subseteq U
  BY ForestWalk
<1> DEFINE r == Linked(t, f, p)
           z == LastChild(t.next, t.first[f])
<1>3. ASSUME t.first[f] # None
      PROVE  z \in Walk(t.next, t.first[f]) /\ z \in U /\ t.next[z] = None /\ par[z] = f
  <2>1. t.first[f] \in Pd
    BY <1>1, <1>3
  <2>2. z \in Walk(t.next, t.first[f]) /\ t.next[z] = None
    BY <1>1, <2>1, LastIs
  <2>3. QED
    BY <2>2, ForestWalk
<1>4. /\ r \in [first : Steps, next : Steps] /\ r.first \in Steps /\ r.next \in Steps
      /\ IF t.first[f] = None
         THEN r.next = t.next /\ \A g \in Pd : r.first[g] = IF g = f THEN p ELSE t.first[g]
         ELSE r.first = t.first /\ \A g \in Pd : r.next[g] = IF g = z THEN p ELSE t.next[g]
  <2>1. CASE t.first[f] = None
    BY <1>1, <2>1, LinkIs
  <2>2. CASE t.first[f] # None
    <3>1. z \in Pd
      BY <1>1, <1>3, <2>2
    <3>2. QED
      BY <1>1, <2>2, <3>1, LinkIs
  <2>3. QED
    BY <2>1, <2>2
<1> HIDE DEF r, z
<1>5. r.next[p] = None
  BY <1>1, <1>3, <1>4
<1>6. \A g \in O : r.first[g] # None => r.first[g] \in U \cup {p} /\ par2[r.first[g]] = g
  BY <1>1, <1>4 DEF Forest
<1>7. \A u \in U \cup {p} : r.next[u] # None => r.next[u] \in U \cup {p} /\ par2[r.next[u]] = par2[u]
  BY <1>1, <1>3, <1>4, <1>5 DEF Forest
<1>8. \A u, v \in U \cup {p} : r.next[u] = r.next[v] /\ r.next[u] # None => u = v
  <2>1. \A u \in U : t.next[u] # p
    BY <1>1 DEF Forest
  <2>2. QED
    BY <1>1, <1>3, <1>4, <1>5, <2>1 DEF Forest
<1>9. \A g \in O, u \in U \cup {p} : r.first[g] # None => r.next[u] # r.first[g]
  <2>1. \A u \in U : t.next[u] # p
    BY <1>1 DEF Forest
  <2>2. \A g \in O : t.first[g] # p
    BY <1>1 DEF Forest
  <2>3. QED
    BY <1>1, <1>3, <1>4, <1>5, <2>1, <2>2 DEF Forest
(* what a set that is closed under the new steps is under the old ones     *)
<1>10. ASSUME t.first[f] # None
       PROVE  /\ Walk(t.next, t.first[f]) \cup {p} \subseteq Walk(r.next, r.first[f])
              /\ Ends(r.next, r.first[f])
  <2>1. /\ r.first[f] = t.first[f] /\ z \in Walk(t.next, t.first[f]) /\ t.next[z] = None
        /\ \A g \in Pd : r.next[g] = IF g = z THEN p ELSE t.next[g]
    BY <1>3, <1>4, <1>10
  <2>2. ASSUME NEW S \in SUBSET Pd, r.first[f] \in S \cup {None},
               \A u \in S : r.next[u] \in S \cup {None}
        PROVE  Walk(t.next, t.first[f]) \cup {p} \subseteq S
    <3>1. \A u \in S : t.next[u] \in S \cup {None}
      BY <2>1, <2>2
    <3>2. Walk(t.next, t.first[f]) \subseteq S
      BY <2>1, <2>2, <3>1, WalkWithin
    <3>3. p \in S
      <4>1. r.next[z] = p /\ z \in S
        BY <1>1, <2>1, <2>2, <3>2
      <4>2. QED
        BY <1>1, <2>2, <4>1
    <3>4. QED
      BY <3>2, <3>3
  <2>3. Walk(t.next, t.first[f]) \cup {p} \subseteq Walk(r.next, r.first[f])
    <3>1. Walk(t.next, t.first[f]) \cup {p} \subseteq Pd
      BY <1>1, <1>2
    <3>2. QED
      BY <2>2, <3>1 DEF Walk
  <2>4. ASSUME NEW S \in SUBSET Pd, r.first[f] \in S, \A u \in S : r.next[u] \in S
        PROVE  FALSE
    <3>1. p \in S
      BY <2>2, <2>4
    <3>2. r.next[p] \in S /\ None \notin S
      BY <2>4, <3>1, ProcConstants
    <3>3. QED
      BY <1>5, <3>2
  <2>5. QED
    BY <2>3, <2>4 DEF Ends
<1>11. ASSUME t.first[f] = None
       PROVE  /\ Walk(t.next, t.first[f]) = {}
              /\ p \in Walk(r.next, r.first[f]) /\ Ends(r.next, r.first[f])
  <2>1. r.first[f] = p
    BY <1>1, <1>4, <1>11
  <2>2. Walk(t.next, t.first[f]) = {}
    BY <1>11, WalkNone
  <2>3. p \in Walk(r.next, p)
    BY <1>1, <1>4, WalkSteps
  <2>4. ASSUME NEW S \in SUBSET Pd, p \in S
        PROVE  \E u \in S : r.next[u] \notin S
    BY <1>5, <2>4, ProcConstants
  <2>5. QED
    BY <2>1, <2>2, <2>3, <2>4 DEF Ends
<1>12. ASSUME NEW g \in O, g # f
       PROVE  /\ Walk(t.next, t.first[g]) \subseteq Walk(r.next, r.first[g])
              /\ Ends(r.next, r.first[g])
  <2>1. r.first[g] = t.first[g]
    BY <1>1, <1>4, <1>12
  <2>2. \A u \in U : par[u] = g => r.next[u] = t.next[u]
    BY <1>1, <1>3, <1>4, <1>12
  <2>3. QED
    BY <1>4, <2>1, <2>2, ListKept
<1>13. \A u \in U \cup {p} : u \in Walk(r.next, r.first[par2[u]])
  <2>1. TAKE u \in U \cup {p}
  <2>2. CASE u = p
    BY <1>10, <1>11, <2>2
  <2>3. CASE u # p
    <3>1. u \in U /\ par2[u] = par[u] /\ par[u] \in O /\ u \in Walk(t.next, t.first[par[u]])
      BY <2>3 DEF Forest
    <3>2. CASE par[u] = f
      BY <1>10, <1>11, <3>1, <3>2
    <3>3. CASE par[u] # f
      BY <1>12, <3>1, <3>3
    <3>4. QED
      BY <3>2, <3>3
  <2>4. QED
    BY <2>2, <2>3
<1>14. \A g \in O : Ends(r.next, r.first[g])
  BY <1>10, <1>11, <1>12
<1>15. \A u \in U \cup {p} : par2[u] \in O
  BY DEF Forest
<1>16. Forest(r, par2, O, U \cup {p})
  BY <1>1, <1>4, <1>6, <1>7, <1>8, <1>9, <1>13, <1>14, <1>15 DEF Forest
<1>17. \A g \in Pd \ U : r.next[g] = t.next[g]
  BY <1>3, <1>4
<1>18. QED
  BY <1>1, <1>2, <1>16, <1>17 DEF r

(* mt_unlinktree() of a block p of the list of f.                          *)
LEMMA UnlinkIs ==
  ASSUME NEW t \in [first : Steps, next : Steps], NEW f \in Pd, NEW p \in Pd
  PROVE  IF t.first[f] = p
         THEN /\ Unlinked(t, f, p) \in [first : Steps, next : Steps]
              /\ Unlinked(t, f, p).next = t.next
              /\ \A g \in Pd : Unlinked(t, f, p).first[g] = IF g = f THEN t.next[p] ELSE t.first[g]
         ELSE LET z == Before(t.next, t.first[f], p)
              IN  z \in Pd =>
                    /\ Unlinked(t, f, p) \in [first : Steps, next : Steps]
                    /\ Unlinked(t, f, p).first = t.first
                    /\ \A g \in Pd : Unlinked(t, f, p).next[g] = IF g = z THEN t.next[p] ELSE t.next[g]
  BY DEF Unlinked, Steps

LEMMA UnlinkForest ==
  ASSUME NEW t, NEW par, NEW O, NEW U, Forest(t, par, O, U), NEW p \in U
  PROVE  /\ p \in PathTo(t.next, t.first[par[p]], p)
         /\ PathTo(t.next, t.first[par[p]], p) \subseteq U
         /\ Unlinked(t, par[p], p).next[p] = t.next[p]
         /\ \A g \in Pd \ U : Unlinked(t, par[p], p).next[g] = t.next[g]
         /\ Forest(Unlinked(t, par[p], p), par, O, U \ {p})
<1> DEFINE f == par[p]
           r == Unlinked(t, f, p)
           a == t.first[f]
           z == Before(t.next, a, p)
<1>1. /\ t \in [first : Steps, next : Steps] /\ f \in O /\ f \in Pd /\ p \in Pd /\ p # None
      /\ t.first \in Steps /\ t.next \in Steps /\ a \in Pd \cup {None}
      /\ O \subseteq Pd /\ U \subseteq Pd
      /\ Ends(t.next, a) /\ p \in Walk(t.next, a)
  BY ProcConstants, ForestWalk DEF Forest
<1>2. Walk(t.next, a) \subseteq U /\ \A u \in Walk(t.next, a) : par[u] = f
  BY <1>1, ForestWalk
<1>3. a \in Pd
  <2>1. SUFFICES ASSUME a = None PROVE FALSE
    BY <1>1
  <2>2. Walk(t.next, a) = {}
    BY <2>1, WalkNone
  <2>3. QED
    BY <1>1, <2>2
<1>4. /\ p \in PathTo(t.next, a, p) /\ PathTo(t.next, a, p) \subseteq U
      /\ a # p => z \in U /\ z # p /\ t.next[z] = p /\ par[z] = f
  <2>1. /\ p \in PathTo(t.next, a, p) /\ PathTo(t.next, a, p) \subseteq Walk(t.next, a)
        /\ a # p => z \in PathTo(t.next, a, p) /\ z # p /\ t.next[z] = p
    BY <1>1, <1>3, BeforeIs
  <2>2. QED
    BY <1>2, <2>1
<1>5. /\ r \in [first : Steps, next : Steps] /\ r.first \in Steps /\ r.next \in Steps
      /\ IF a = p
         THEN r.next = t.next /\ \A g \in Pd : r.first[g] = IF g = f THEN t.next[p] ELSE t.first[g]
         ELSE r.first = t.first /\ \A g \in Pd : r.next[g] = IF g = z THEN t.next[p] ELSE t.next[g]
  <2>1. CASE a = p
    BY <1>1, <2>1, UnlinkIs
  <2>2. CASE a # p
    <3>1. z \in Pd
      BY <1>1, <1>4, <2>2
    <3>2. QED
      BY <1>1, <2>2, <3>1, UnlinkIs
  <2>3. QED
    BY <2>1, <2>2
<1>6. a = t.first[f] /\ f = par[p]
  OBVIOUS
<1> HIDE DEF r, z, a, f
<1>7. r.next[p] = t.next[p] /\ t.next[p] # p
  <2>1. t.next[p] # p
    <3>1. ASSUME a # p, t.next[p] = p
          PROVE  FALSE
      BY <1>1, <1>4, <3>1 DEF Forest
    <3>2. ASSUME a = p, t.next[p] = p
          PROVE  FALSE
      BY <1>1, <1>6, <3>2 DEF Forest
    <3>3. QED
      BY <3>1, <3>2
  <2>2. QED
    BY <1>1, <1>4, <1>5, <2>1
(* nothing leads to p any more                                             *)
<1>8. \A g \in O : r.first[g] # None => r.first[g] \in U \ {p} /\ par[r.first[g]] = g
  <2>1. TAKE g \in O
  <2>2. HAVE r.first[g] # None
  <2>3. CASE a = p /\ g = f
    BY <1>1, <1>5, <1>6, <1>7, <2>2, <2>3 DEF Forest
  <2>4. CASE ~(a = p /\ g = f)
    <3>1. r.first[g] = t.first[g]
      BY <1>1, <1>5, <2>4
    <3>2. t.first[g] \in U /\ par[t.first[g]] = g
      BY <2>2, <3>1 DEF Forest
    <3>3. t.first[g] # p
      BY <1>6, <2>4, <3>2
    <3>4. QED
      BY <3>1, <3>2, <3>3
  <2>5. QED
    BY <2>3, <2>4
<1>9. \A u \in U \ {p} : r.next[u] # None => r.next[u] \in U \ {p} /\ par[r.next[u]] = par[u]
  <2>1. TAKE u \in U \ {p}
  <2>2. HAVE r.next[u] # None
  <2>3. CASE a # p /\ u = z
    BY <1>1, <1>4, <1>5, <1>6, <1>7, <2>2, <2>3 DEF Forest
  <2>4. CASE ~(a # p /\ u = z)
    <3>1. r.next[u] = t.next[u] /\ u \in U /\ u \in Pd
      BY <1>1, <1>5, <2>4
    <3>2. t.next[u] \in U /\ par[t.next[u]] = par[u]
      BY <2>2, <3>1 DEF Forest
    <3>3. t.next[u] # p
      <4>1. CASE a = p
        BY <1>1, <1>6, <3>1, <4>1 DEF Forest
      <4>2. CASE a # p
        BY <1>1, <1>4, <2>4, <3>1, <4>2 DEF Forest
      <4>3. QED
        BY <4>1, <4>2
    <3>4. QED
      BY <3>1, <3>2, <3>3
  <2>5. QED
    BY <2>3, <2>4
<1>10. \A u, v \in U \ {p} : r.next[u] = r.next[v] /\ r.next[u] # None => u = v
  BY <1>1, <1>4, <1>5 DEF Forest
<1>11. \A g \in O, u \in U \ {p} : r.first[g] # None => r.next[u] # r.first[g]
  BY <1>1, <1>4, <1>5, <1>6 DEF Forest
<1>12. ASSUME NEW S \in SUBSET Pd, r.first[f] \in S \cup {None},
              \A u \in S : r.next[u] \in S \cup {None}
       PROVE  /\ S \cup {p} \in SUBSET Pd /\ a \in S \cup {p, None}
              /\ \A u \in S \cup {p} : t.next[u] \in S \cup {p, None}
  <2>1. CASE a = p
    BY <1>1, <1>5, <1>12, <2>1
  <2>2. CASE a # p
    <3>1. r.first[f] = a /\ \A g \in Pd : r.next[g] = IF g = z THEN t.next[p] ELSE t.next[g]
      BY <1>1, <1>5, <1>6, <2>2
    <3>2. CASE z \in S
      BY <1>1, <1>4, <1>12, <2>2, <3>1, <3>2
    <3>3. CASE z \notin S
      <4>1. \A u \in S : t.next[u] \in S \cup {None}
        BY <1>12, <3>1, <3>3
      <4>2. Walk(t.next, a) \subseteq S
        BY <1>12, <3>1, <4>1, WalkWithin
      <4>3. p \in S
        BY <1>1, <4>2
      <4>4. QED
        BY <1>1, <1>12, <3>1, <4>1, <4>3
    <3>4. QED
      BY <3>2, <3>3
  <2>3. QED
    BY <2>1, <2>2
<1>13. Walk(t.next, a) \ {p} \subseteq Walk(r.next, r.first[f])
  <2>1. ASSUME NEW S \in SUBSET Pd, r.first[f] \in S \cup {None},
              \A u \in S : r.next[u] \in S \cup {None}
        PROVE  Walk(t.next, a) \ {p} \subseteq S
    <3>1. PICK T \in SUBSET Pd : T = S \cup {p}
      BY <1>12, <2>1
    <3>2. a \in T \cup {None} /\ \A u \in T : t.next[u] \in T \cup {None}
      BY <1>12, <2>1, <3>1
    <3>3. Walk(t.next, a) \subseteq T
      BY <3>2, WalkWithin
    <3>4. QED
      BY <3>1, <3>3
  <2>2. Walk(t.next, a) \subseteq Pd
    BY <1>1, <1>2
  <2>3. QED
    BY <2>1, <2>2 DEF Walk
<1>14. Ends(r.next, r.first[f])
  <2>1. SUFFICES ASSUME NEW S \in SUBSET Pd, r.first[f] \in S, \A u \in S : r.next[u] \in S
                 PROVE  FALSE
    BY DEF Ends
  <2>2. None \notin S
    BY <2>1, ProcConstants
  <2>3. PICK T \in SUBSET Pd : T = S \cup {p}
    BY <1>1
  <2>4. a \in T /\ \A u \in T : t.next[u] \in T
    <3>1. CASE a = p
      BY <1>1, <1>5, <2>1, <2>3, <3>1
    <3>2. CASE a # p
      <4>1. r.first[f] = a /\ \A g \in Pd : r.next[g] = IF g = z THEN t.next[p] ELSE t.next[g]
        BY <1>1, <1>5, <1>6, <3>2
      <4>2. CASE z \in S
        BY <1>1, <1>4, <2>1, <2>3, <3>2, <4>1, <4>2
      <4>3. CASE z \notin S
        <5>1. \A u \in S : t.next[u] \in S
          BY <2>1, <4>1, <4>3
        <5>2. Walk(t.next, a) \subseteq S
          BY <2>1, <4>1, <5>1, WalkWithin
        <5>3. QED
          BY <1>1, <2>1, <2>3, <4>1, <5>1, <5>2
      <4>4. QED
        BY <4>2, <4>3
    <3>3. QED
      BY <3>1, <3>2
  <2>5. QED
    BY <1>1, <2>4 DEF Ends
<1>15. ASSUME NEW g \in O, g # f
       PROVE  /\ Walk(t.next, t.first[g]) \subseteq Walk(r.next, r.first[g])
              /\ Ends(r.next, r.first[g])
  <2>1. r.first[g] = t.first[g]
    BY <1>1, <1>5, <1>15
  <2>2. \A u \in U : par[u] = g => r.next[u] = t.next[u]
    BY <1>1, <1>4, <1>5, <1>15
  <2>3. QED
    BY <1>5, <2>1, <2>2, ListKept
<1>16. \A u \in U \ {p} : u \in Walk(r.next, r.first[par[u]])
  <2>1. TAKE u \in U \ {p}
  <2>2. par[u] \in O /\ u \in Walk(t.next, t.first[par[u]])
    BY DEF Forest
  <2>3. CASE par[u] = f
    BY <1>6, <1>13, <2>1, <2>2, <2>3
  <2>4. CASE par[u] # f
    BY <1>15, <2>2, <2>4
  <2>5. QED
    BY <2>3, <2>4
<1>17. \A g \in O : Ends(r.next, r.first[g])
  BY <1>14, <1>15
<1>18. Forest(r, par, O, U \ {p})
  <2>1. \A u \in U \ {p} : par[u] \in O
    BY DEF Forest
  <2>2. QED
    BY <1>1, <1>5, <1>8, <1>9, <1>10, <1>11, <1>16, <1>17, <2>1 DEF Forest
<1>19. \A g \in Pd \ U : r.next[g] = t.next[g]
  BY <1>4, <1>5
<1>20. QED
  BY <1>4, <1>7, <1>18, <1>19 DEF r, f, a

(* mt_switchtosession() of the last one of a list                          *)
LEMMA MoveForest ==
  ASSUME NEW t, NEW O, NEW U, Forest(t, parent, O, U), U \subseteq Used, Root \in O,
         NEW p \in U, t.next[p] = None,
         NEW par2, par2[p] = Root, \A u \in U : u # p => par2[u] = parent[u]
  PROVE  /\ CanMove(t, p) /\ Forest(Moved(t, p), par2, O, U)
         /\ \A g \in Pd \ U : Moved(t, p).next[g] = t.next[g]
<1> DEFINE r == Unlinked(t, parent[p], p)
<1>0. PICK par : par = parent
  OBVIOUS
<1>1. /\ p \in PathTo(t.next, t.first[parent[p]], p)
      /\ PathTo(t.next, t.first[parent[p]], p) \subseteq U
      /\ r.next[p] = None /\ Forest(r, parent, O, U \ {p})
      /\ \A g \in Pd \ U : r.next[g] = t.next[g]
  <2>1. Forest(t, par, O, U)
    BY <1>0
  <2>2. /\ p \in PathTo(t.next, t.first[par[p]], p)
        /\ PathTo(t.next, t.first[par[p]], p) \subseteq U
        /\ Unlinked(t, par[p], p).next[p] = t.next[p]
        /\ \A g \in Pd \ U : Unlinked(t, par[p], p).next[g] = t.next[g]
        /\ Forest(Unlinked(t, par[p], p), par, O, U \ {p})
    BY <2>1, UnlinkForest
  <2>3. QED
    BY <1>0, <2>2
<1>2. p \in Pd /\ (U \ {p}) \cup {p} = U
  BY DEF Forest
<1>3. PICK V : V = U \ {p}
  OBVIOUS
<1> HIDE DEF r
<1>4. /\ Walk(r.next, r.first[Root]) \subseteq V /\ Ends(r.next, r.first[Root])
      /\ Forest(Linked(r, Root, p), par2, O, V \cup {p})
      /\ \A g \in Pd \ V : Linked(r, Root, p).next[g] = r.next[g]
  <2>1. p \notin V /\ Forest(r, par, O, V) /\ \A u \in V : par2[u] = par[u]
    BY <1>0, <1>1, <1>3
  <2>2. QED
    BY <1>1, <1>2, <2>1, LinkForest
<1>5. CanUnlink(t, parent[p], p)
  BY <1>1 DEF CanUnlink
<1>6. CanLink(r, Root)
  BY <1>3, <1>4 DEF CanLink
<1>7. \A g \in Pd \ U : Linked(r, Root, p).next[g] = t.next[g]
  BY <1>1, <1>3, <1>4
<1>8. QED
  BY <1>2, <1>3, <1>4, <1>5, <1>6, <1>7 DEF CanMove, Moved, r

(* A block that comes or goes: it is in no list, and its own one is empty. *)
LEMMA EraseForest ==
  ASSUME NEW t, NEW par, NEW O, NEW U, Forest(t, par, O, U),
         NEW q \in Pd, q \notin U, NEW O2, O2 \subseteq O \cup {q},
         \A u \in U : par[u] \in O2 /\ par[u] # q
  PROVE  /\ Erased(t, q).next[q] = None /\ Erased(t, q).first[q] = None
         /\ \A g \in Pd \ {q} : Erased(t, q).next[g] = t.next[g]
         /\ Forest(Erased(t, q), par, O2, U)
<1> DEFINE r == Erased(t, q)
<1>1. /\ t \in [first : Steps, next : Steps] /\ O \subseteq Pd /\ U \subseteq Pd
      /\ t.first \in Steps /\ t.next \in Steps
  BY DEF Forest
<1>2. /\ r \in [first : Steps, next : Steps] /\ r.first \in Steps /\ r.next \in Steps
      /\ \A g \in Pd : r.first[g] = IF g = q THEN None ELSE t.first[g]
      /\ \A g \in Pd : r.next[g] = IF g = q THEN None ELSE t.next[g]
  BY <1>1 DEF Erased, Steps
<1> HIDE DEF r
<1>3. ASSUME NEW f \in O, f # q
      PROVE  /\ Walk(t.next, t.first[f]) \subseteq Walk(r.next, r.first[f])
             /\ Ends(r.next, r.first[f])
  <2>1. r.first[f] = t.first[f] /\ \A u \in U : par[u] = f => r.next[u] = t.next[u]
    BY <1>1, <1>2, <1>3
  <2>2. QED
    BY <1>2, <2>1, ListKept
<1>4. Ends(r.next, None)
  BY ProcConstants DEF Ends
<1>5. \A f \in O2 : Ends(r.next, r.first[f])
  BY <1>1, <1>2, <1>3, <1>4
<1>6. \A u \in U : u \in Walk(r.next, r.first[par[u]])
  BY <1>1, <1>3 DEF Forest
<1>7. O2 \subseteq Pd
  BY <1>1
<1>8. /\ \A f \in O2 : r.first[f] # None => r.first[f] \in U /\ par[r.first[f]] = f
      /\ \A u \in U : r.next[u] = t.next[u]
      /\ \A f \in O2 : r.first[f] # None => f \in O /\ r.first[f] = t.first[f]
  BY <1>1, <1>2, <1>7 DEF Forest
<1>9. Forest(r, par, O2, U)
  BY <1>1, <1>2, <1>5, <1>6, <1>7, <1>8 DEF Forest
<1>10. QED
  BY <1>2, <1>9 DEF r

(* Only the parents of the blocks in the lists matter.                     *)
LEMMA SameParents ==
  ASSUME NEW t, NEW par, NEW O, NEW U, Forest(t, par, O, U),
         NEW par2, \A u \in U : par2[u] = par[u]
  PROVE  Forest(t, par2, O, U)
  BY DEF Forest

(* Every process but QSINIT is in the child list of its parent.            *)
TreeInv ==
    /\ Forest(tree, parent, Used, Used \ {Root})
    /\ ppid \in [Pd -> 0..MaxPid]
    /\ \A p \in Used \ {Root} : ppid[p] = pid[parent[p]]

(***************************************************************************)
(* Slots                                                                   *)
(***************************************************************************)
(* piThreads tells whether a process has secondary threads.                *)
LEMMA CntFacts ==
  ASSUME Types, BlockInv, NEW p \in Used
  PROVE  /\ cnt[p] \in Nat \ {0} /\ p \in Pd
         /\ st[Main(p)] # "none"
         /\ cnt[p] = 1 <=> \A x \in Thread : x[1] = p /\ st[x] # "none" => x = Main(p)
<1>1. p \in Pd /\ 1 \in Slots(p) /\ cnt[p] = Cardinality(Slots(p))
  BY DEF BlockInv, Used
<1>2. IsFiniteSet(Slots(p))
  <2>1. MaxTid \in Nat
    BY ProcConstants
  <2>2. IsFiniteSet(Tid)
    BY <2>1, FS_Interval DEF Tid
  <2>3. Slots(p) \subseteq Tid
    BY DEF Slots
  <2>4. QED
    BY <2>2, <2>3, FS_Subset
<1>3. cnt[p] \in Nat \ {0}
  BY <1>1, <1>2, FS_CardinalityType, FS_EmptySet
<1>4. cnt[p] = 1 <=> Slots(p) = {1}
  BY <1>1, <1>2, FS_Singleton
<1>5. \A t \in Tid : t \in Slots(p) <=> st[<<p, t>>] # "none"
  BY DEF Slots
<1>6. Slots(p) = {1} <=> \A x \in Thread : x[1] = p /\ st[x] # "none" => x = Main(p)
  <2>1. ASSUME Slots(p) = {1}, NEW x \in Thread, x[1] = p, st[x] # "none"
        PROVE  x = Main(p)
    BY <1>5, <2>1, ThreadFacts
  <2>2. ASSUME \A x \in Thread : x[1] = p /\ st[x] # "none" => x = Main(p)
        PROVE  Slots(p) = {1}
    <3>1. \A t \in Slots(p) : t = 1
      <4>1. TAKE t \in Slots(p)
      <4>2. t \in Tid /\ <<p, t>> \in Thread /\ <<p, t>>[1] = p /\ <<p, t>>[2] = t /\ st[<<p, t>>] # "none"
        BY <1>1, <1>5, ThreadFacts DEF Slots
      <4>3. <<p, t>> = Main(p)
        BY <2>2, <4>2
      <4>4. QED
        BY <1>1, <4>2, <4>3, ThreadFacts
    <3>2. QED
      BY <1>1, <3>1
  <2>3. QED
    BY <2>1, <2>2
<1>7. st[Main(p)] # "none"
  BY <1>1, <1>5, ThreadFacts DEF Main
<1>8. QED
  BY <1>1, <1>3, <1>4, <1>6, <1>7

(* A process keeps its slots as long as no thread comes or goes.           *)
LEMMA BlockKept ==
  ASSUME BlockInv, UNCHANGED <<pid, cnt>>, nextpid' >= nextpid,
         \A p \in Pd \ Used : flags'[p] = flags[p],
         nextpid \in Nat, nextpid' \in Nat, pid \in [Pd -> Nat],
         \A x \in Thread : st[x] = "none" <=> st'[x] = "none"
  PROVE  BlockInv' /\ Used' = Used /\ \A p \in Pd : Slots(p)' = Slots(p)
<1>1. \A p \in Pd : Slots(p)' = Slots(p)
  BY ThreadFacts DEF Slots
<1>2. Used' = Used
  BY DEF Used
<1>3. QED
  BY <1>1, <1>2 DEF BlockInv

(***************************************************************************)
(* Steps that move one thread in its code, stop others and let them go on. *)
(***************************************************************************)
Soft == {"run", "susp"}
Moves(x) ==
    /\ UNCHANGED <<procVars, cnt, wh, info, tgt, sysq, nextpid, trap>>
    /\ st' \in [Thread -> States] /\ pc' \in [Thread -> PCs]
    /\ todo' \in [Thread -> [pid : 0..MaxPid, tids : Seq(Tid)]]
    /\ lock' \in Thread \cup {None} /\ rpid' \in {rpid, 0}
    /\ \A y \in Thread : st'[y] = st[y] \/ (st[y] \in Soft /\ st'[y] \in Soft)
    /\ \A y \in Thread : y # x => pc'[y] = pc[y] /\ todo'[y] = todo[y]
    /\ \/ pc'[x] = pc[x]
       \/ /\ st[x] = "run" /\ pc[x] \in {"prog", "launch", "stop"}
          /\ pc'[x] \in {"prog", "stop", "exit"}
          /\ pc[x] = "launch" => "chain" \in flags[x[1]]
          /\ pc'[x] = "prog" => tgt[x] = None
          /\ pc'[x] = "exit" => x[1] # Root
    /\ StopOK(x)'
    /\ \A p \in Used : Starting(p) \/ (Heir(p)' /\ pc[Main(p)] = "prog")
                         => st'[Main(p)] = st[Main(p)] \/ st'[Main(p)] = "susp"

LEMMA MoveStep ==
  ASSUME PInv, NEW x \in Thread, Moves(x)
  PROVE  PInv'
<1> USE DEF PInv
<1>1. /\ UNCHANGED <<pid, parent, ptid, flags, cnt, wh, info, tgt, sysq, nextpid, trap>>
      /\ \A y \in Thread : st'[y] = st[y] \/ (st[y] \in Soft /\ st'[y] \in Soft)
      /\ \A y \in Thread : y # x => pc'[y] = pc[y] /\ todo'[y] = todo[y]
      /\ pc' \in [Thread -> PCs] /\ st' \in [Thread -> States]
  BY DEF Moves, procVars
<1>2. \A y \in Thread : \A s \in States \ Soft : st[y] = s <=> st'[y] = s
  BY <1>1
<1>3. /\ \A y \in Thread : st[y] = "none" <=> st'[y] = "none"
      /\ \A y \in Thread : st[y] = "gone" <=> st'[y] = "gone"
      /\ \A y \in Thread : \A s \in Waits : st[y] = s <=> st'[y] = s
  BY <1>2 DEF States, Waits, Soft
<1>4. BlockInv' /\ Used' = Used /\ \A p \in Pd : Slots(p)' = Slots(p)
  BY <1>1, <1>3, BlockKept DEF Types
<1>5. Types'
  <2>1. rpid' \in 0..MaxPid
    <3>1. rpid' = rpid \/ rpid' = 0
      BY DEF Moves
    <3>2. rpid \in 0..MaxPid /\ MaxPid \in Nat
      BY ProcConstants DEF Types
    <3>3. QED
      BY <3>1, <3>2
  <2>2. todo' \in [Thread -> [pid : 0..MaxPid, tids : Seq(Tid)]] /\ lock' \in Thread \cup {None}
    BY DEF Moves
  <2>3. QED
    BY <1>1, <2>1, <2>2 DEF Types
<1>6. \/ pc'[x] = pc[x]
      \/ /\ st[x] = "run" /\ pc[x] \in {"prog", "launch", "stop"}
         /\ pc'[x] \in {"prog", "stop", "exit"}
         /\ pc[x] = "launch" => "chain" \in flags[x[1]]
         /\ pc'[x] = "prog" => tgt[x] = None
         /\ pc'[x] = "exit" => x[1] # Root
  BY DEF Moves
<1>7. RootInv'
  <2>1. rpid' # 1 /\ rpid' < nextpid
    BY DEF RootInv, Moves, Types
  <2>2. Main(Root) \in Thread /\ Main(Root)[1] = Root
    BY ThreadFacts
  <2>3. st'[Main(Root)] # "gone" /\ pc'[Main(Root)] \in {"prog", "launch", "ret", "stop"}
    BY <1>1, <1>3, <1>6, <2>2 DEF RootInv
  <2>4. Slots(Root)' = {1}
    BY <1>4, ThreadFacts DEF RootInv
  <2>5. QED
    BY <1>1, <2>1, <2>3, <2>4 DEF RootInv
<1>8. ThreadInv'
  <2>1. SUFFICES ASSUME NEW y \in Thread PROVE ThreadOK(y)'
    BY DEF ThreadInv
  <2>2. ThreadOK(y)
    BY DEF ThreadInv
  <2>3. st'[y] = "tidexit" => /\ pc'[y] \in {"prog", "stop"} /\ wh'[y] \in Tid
                              /\ pc'[<<y[1], wh'[y]>>] = "exit"
    <3>1. HAVE st'[y] = "tidexit"
    <3>2. st[y] = "tidexit" /\ pc'[y] = pc[y]
      BY <1>1, <1>3, <1>6, <3>1 DEF Waits, Soft
    <3>3. <<y[1], wh[y]>> \in Thread /\ pc[<<y[1], wh[y]>>] = "exit"
      BY <2>2, <3>2, ThreadFacts DEF ThreadOK
    <3>4. pc'[<<y[1], wh[y]>>] = "exit"
      BY <1>1, <1>6, <3>3
    <3>5. QED
      BY <1>1, <2>2, <3>2, <3>4 DEF ThreadOK
  <2>4. st'[y] = "waitlnch" => /\ y[2] = 1 /\ pc'[y] = "prog" /\ cnt'[y[1]] = 1
                               /\ \E q \in Used' : pid'[q] = wh'[y] /\ st'[Main(q)] # "gone"
    <3>1. HAVE st'[y] = "waitlnch"
    <3>2. st[y] = "waitlnch" /\ pc'[y] = pc[y]
      BY <1>1, <1>3, <1>6, <3>1 DEF Waits, Soft
    <3>3. PICK q \in Used : pid[q] = wh[y] /\ st[Main(q)] # "gone"
      BY <2>2, <3>2 DEF ThreadOK
    <3>4. st'[Main(q)] # "gone"
      BY <1>3, <3>3, ThreadFacts DEF Used
    <3>5. QED
      BY <1>1, <1>4, <2>2, <3>2, <3>3, <3>4 DEF ThreadOK
  <2>5. QED
    BY <1>1, <1>3, <1>6, <2>2, <2>3, <2>4 DEF ThreadOK, Waits
<1>9. StopInv'
  BY <1>1 DEF StopInv, StopOK, Moves
<1>10. \A p \in Used : Heir(p)' => Heir(p)
  <2>1. rpid' = rpid \/ rpid' = 0
    BY DEF Moves
  <2>2. \A p \in Used : pid[p] # 0
    BY DEF Used
  <2>3. QED
    BY <1>1, <1>4, <2>1, <2>2 DEF Heir
<1>11. FlagInv'
  BY <1>1, <1>4 DEF FlagInv, FlagOK, Moves, Used
<1>12. LaunchInv'
  <2>1. SUFFICES ASSUME NEW y \in Thread, pc'[y] = "launch" PROVE LaunchOK(y)'
    BY DEF LaunchInv, LaunchOK
  <2>2. pc[y] = "launch" /\ LaunchOK(y)
    BY <1>1, <1>6, <2>1 DEF LaunchInv
  <2>3. PICK r : r = tgt[y]
    OBVIOUS
  <2>4. r \in Used /\ r \in Pd /\ Main(r) \in Thread /\ st[Main(r)] = "susp" /\ pc[Main(r)] = "prog"
    BY <2>2, <2>3, ThreadFacts DEF LaunchOK, Used
  <2>5. Starting(r)
    BY <2>2, <2>3 DEF Starting
  <2>6. st'[Main(r)] = "susp" /\ pc'[Main(r)] = "prog"
    BY <1>1, <1>6, <2>4, <2>5 DEF Moves
  <2>7. \A z \in Thread : pc'[z] = "launch" => pc[z] = "launch"
    BY <1>1, <1>6
  <2>8. (Heir(r)' => Heir(r)) /\ Caller(r)' = Caller(r) /\ r = tgt'[y]
    BY <1>1, <1>10, <2>3, <2>4 DEF Caller
  <2>9. QED
    BY <1>1, <1>4, <2>1, <2>2, <2>3, <2>6, <2>7, <2>8 DEF LaunchOK
<1>13. ChildInv'
  <2>1. \A p \in Used : ChildOK(p)'
    <3>1. SUFFICES ASSUME NEW p \in Used, ptid[p] # 0 PROVE ChildOK(p)'
      BY <1>1 DEF ChildOK
    <3>2. ChildOK(p) /\ Caller(p) \in Thread /\ p \in Pd /\ Main(p) \in Thread
      BY <3>1, ThreadFacts DEF ChildInv, ChildOK, Used
    <3>3. Caller(p)' = Caller(p) /\ Caller(p)[1] = parent[p]
      BY <1>1 DEF Caller
    <3>4. Ended(Caller(p))' = Ended(Caller(p))
      BY <1>1, <3>3 DEF Ended
    <3> DEFINE c == Caller(p)
    <3>5. st'[Main(p)] = "gone" <=> st[Main(p)] = "gone"
      BY <1>3, <3>2
    <3>6. pc[c] \in {"launch", "ret"} /\ (pc[c] = "launch" => "chain" \notin flags[c[1]])
      BY <3>1, <3>2, <3>3 DEF ChildOK
    <3>7. pc'[c] = pc[c]
      BY <1>1, <1>6, <3>2, <3>6
    <3>8. /\ st[c] \in Soft <=> st'[c] \in Soft
          /\ st[c] = "childexec" <=> st'[c] = "childexec"
      BY <1>1, <1>3, <3>2 DEF Waits
    <3>9. QED
      BY <1>1, <3>1, <3>2, <3>3, <3>4, <3>5, <3>7, <3>8 DEF ChildOK, Soft
  <2>2. \A y \in Thread : ReturnOK(y)'
    <3>1. SUFFICES ASSUME NEW y \in Thread, pc'[y] = "ret" PROVE ReturnOK(y)'
      BY DEF ReturnOK
    <3>2. pc[y] = "ret"
      BY <1>1, <1>6, <3>1
    <3>3. Ended(y)' = Ended(y)
      BY <1>1 DEF Ended
    <3>4. ReturnOK(y)
      BY DEF ChildInv
    <3>5. QED
      BY <1>1, <1>4, <3>2, <3>3, <3>4 DEF ReturnOK, Caller
  <2>3. QED
    BY <1>4, <2>1, <2>2 DEF ChildInv
<1>14. SysqInv'
  <2>1. \A p \in Pd : st'[Main(p)] = "gone" <=> st[Main(p)] = "gone"
    BY <1>3, ThreadFacts
  <2>2. QED
    BY <1>1, <1>4, <2>1 DEF SysqInv
<1>15. HeirInv'
  <2>1. SUFFICES ASSUME NEW p \in Used, Heir(p)' PROVE HeirOK(p)'
    BY <1>4 DEF HeirInv, HeirOK
  <2>2. Heir(p) /\ HeirOK(p) /\ Main(p) \in Thread
    BY <1>10, <2>1, ThreadFacts DEF HeirInv, Used
  <2>3. st'[Main(p)] \in {"susp", "run", "gone"}
    BY <1>1, <2>2 DEF HeirOK, Soft
  <2>4. pc[Main(p)] = "prog" => st[Main(p)] = "susp" /\ st'[Main(p)] = "susp"
    BY <2>1, <2>2 DEF HeirOK, Moves
  <2>5. pc'[Main(p)] = pc[Main(p)]
    BY <1>1, <1>6, <2>2, <2>4 DEF HeirOK
  <2>6. QED
    BY <1>1, <2>2, <2>3, <2>4, <2>5 DEF HeirOK
<1>16. QED
  BY <1>4, <1>5, <1>7, <1>8, <1>9, <1>11, <1>12, <1>13, <1>14, <1>15

(* A thread that exists belongs to a process that exists.                  *)
LEMMA AliveUsed ==
  ASSUME PInv, NEW x \in Thread, st[x] # "none" \/ pc[x] # "prog"
  PROVE  x[1] \in Used /\ st[x] # "none" /\ x[1] \in Pd
<1>1. st[x] # "none"
  BY DEF PInv, ThreadInv, ThreadOK
<1>2. x[1] \in Pd /\ x[2] \in Slots(x[1])
  BY <1>1, ThreadFacts DEF Slots
<1>3. QED
  BY <1>1, <1>2 DEF PInv, BlockInv

(* mod_stop() makes a list of thread numbers; that for the own process     *)
(* ends with the own one.                                                  *)
LEMMA StopListIs ==
  ASSUME NEW x \in Thread, NEW p
  PROVE  /\ StopList(x, p) \in Seq(Tid)
         /\ p = x[1] => /\ StopList(x, p) # <<>>
                        /\ StopList(x, p)[Len(StopList(x, p))] = x[2]
<1> DEFINE n == MaxTid
           T == Seq(Tid)
           In(i) == i \in Slots(p) /\ <<p, i>> # x
           g == [i \in 1..n |-> [s \in T |-> IF In(i) THEN Append(s, i) ELSE s]]
           Eq(s) == s = [i \in 0..n |-> IF i = 0 THEN <<>>
                                        ELSE IF In(i) THEN Append(s[i - 1], i)
                                        ELSE s[i - 1]]
<1>1. n \in Nat /\ x[2] \in Tid /\ Tid = 1..n
  BY ProcConstants, ThreadFacts DEF Tid
<1>2. g \in [1..n -> [T -> T]]
  <2>1. \A i \in 1..n : \A s \in T : Append(s, i) \in T
    BY <1>1
  <2> HIDE DEF T, n, In
  <2>2. QED
    BY <2>1
<1>3. <<>> \in T
  OBVIOUS
<1>4. PICK s \in [0..n -> T] :
        \A i \in 0..n : s[i] = IF i = 0 THEN <<>> ELSE g[i][s[i - 1]]
  <2> HIDE DEF g, T, n
  <2>1. Courses(n, T, <<>>, g) # {}
    BY <1>1, <1>2, <1>3, Iterated
  <2>2. QED
    BY <2>1 DEF Courses
<1> HIDE DEF T, In
<1>5. Eq(s)
  <2>1. ASSUME NEW i \in 0..n, i # 0
        PROVE  s[i] = IF In(i) THEN Append(s[i - 1], i) ELSE s[i - 1]
    <3>1. i \in 1..n /\ i - 1 \in 0..n
      BY <1>1, <2>1
    <3>2. s[i] = g[i][s[i - 1]] /\ s[i - 1] \in T
      <4> HIDE DEF g, n
      <4> QED
        BY <1>4, <2>1, <3>1
    <3>3. QED
      BY <3>1, <3>2
  <2> HIDE DEF g
  <2>2. s[0] = <<>>
    BY <1>1, <1>4
  <2>3. \A i \in 0..n : s[i] = IF i = 0 THEN <<>>
                              ELSE IF In(i) THEN Append(s[i - 1], i) ELSE s[i - 1]
    BY <2>1, <2>2
  <2>4. s = [i \in 0..n |-> s[i]]
    OBVIOUS
  <2>5. QED
    BY <2>3, <2>4
<1> DEFINE w == CHOOSE v : Eq(v)
<1>6. StopList(x, p) = IF p = x[1] THEN Append(w[n], x[2]) ELSE w[n]
  BY DEF StopList, In
<1>7. Eq(w)
  <2> HIDE DEF Eq
  <2> QED
    BY <1>5
<1> HIDE DEF w
<1>8. w[0] = <<>>
  BY <1>1, <1>7
<1>9. \A i \in 0..(n - 1) : w[i + 1] = IF In(i + 1) THEN Append(w[i], i + 1) ELSE w[i]
  <2>1. TAKE i \in 0..(n - 1)
  <2>2. i + 1 \in 0..n /\ i + 1 # 0 /\ (i + 1) - 1 = i
    BY <1>1
  <2>3. QED
    BY <1>7, <2>2
<1> DEFINE Good == {i \in 0..n : w[i] \in Seq(Tid)}
<1>10. 0 \in Good
  BY <1>1, <1>8
<1>11. ASSUME NEW i \in 0..(n - 1), i \in Good
       PROVE  i + 1 \in Good
  <2>1. i + 1 \in 0..n /\ i + 1 \in Tid /\ w[i] \in Seq(Tid)
    BY <1>1, <1>11
  <2>2. Append(w[i], i + 1) \in Seq(Tid)
    BY <2>1
  <2>3. QED
    BY <1>9, <2>1, <2>2
<1>12. w[n] \in Seq(Tid)
  <2>1. n \in 0..n
    BY <1>1
  <2>2. \A i \in 0..n : i \in Good
    <3> HIDE DEF Good
    <3> QED
      BY <1>1, <1>10, <1>11, UpTo
  <2>3. QED
    BY <2>1, <2>2
<1>13. PICK v \in Seq(Tid) : v = w[n]
  BY <1>12
<1>14. /\ Append(v, x[2]) \in Seq(Tid) /\ Append(v, x[2]) # <<>>
       /\ Append(v, x[2])[Len(Append(v, x[2]))] = x[2]
  BY <1>1
<1>15. StopList(x, p) = IF p = x[1] THEN Append(v, x[2]) ELSE v
  BY <1>6, <1>13
<1>16. QED
  BY <1>14, <1>15

(* The rest of a list that does not begin with its last element.           *)
LEMMA TailIs ==
  ASSUME NEW T, NEW s \in Seq(T), s # <<>>
  PROVE  /\ Head(s) \in T /\ Tail(s) \in Seq(T)
         /\ Head(s) # s[Len(s)] => Tail(s) # <<>> /\ Tail(s)[Len(Tail(s))] = s[Len(s)]
<1>1. Len(s) \in Nat /\ Len(s) # 0
  BY EmptySeq
<1>2. Head(s) = s[1] /\ Len(Tail(s)) = Len(s) - 1
      /\ \A i \in 1..(Len(s) - 1) : Tail(s)[i] = s[i + 1]
  BY <1>1
<1>3. Head(s) \in T /\ Tail(s) \in Seq(T)
  BY <1>1
<1>4. ASSUME Head(s) # s[Len(s)]
      PROVE  Tail(s) # <<>> /\ Tail(s)[Len(Tail(s))] = s[Len(s)]
  <2>1. Len(s) # 1
    BY <1>2, <1>4
  <2>2. PICK n \in Nat : n = Len(s)
    BY <1>1
  <2>3. n - 1 \in 1..(n - 1) /\ (n - 1) + 1 = n /\ n - 1 # 0
    BY <1>1, <2>1, <2>2
  <2>4. Len(Tail(s)) = n - 1 /\ Tail(s)[n - 1] = s[n]
    BY <1>2, <2>2, <2>3
  <2>5. Tail(s) # <<>>
    BY <2>3, <2>4
  <2>6. QED
    BY <2>2, <2>4, <2>5
<1>5. QED
  BY <1>3, <1>4

(***************************************************************************)
(* The steps of this kind                                                  *)
(***************************************************************************)
(* mt_resumethread(), mt_suspendthread()                                   *)
LEMMA ResumeStep ==
  ASSUME PInv, Uses = {}, NEW x \in Thread, NEW y \in Thread, Resume(x, y) \/ Suspend(x, y)
  PROVE  PInv'
<1>1. /\ UNCHANGED <<procVars, cnt, wh, codeVars, lock, sysq, rpid, nextpid, trap>>
      /\ \/ st[y] = "susp" /\ st' = [st EXCEPT ![y] = "run"] /\ ~Heir(y[1]) /\ ~Starting(y[1])
         \/ st[y] = "run" /\ st' = [st EXCEPT ![y] = "susp"]
  BY DEF Resume, Suspend, Only
<1>2. Types
  BY DEF PInv
<1>3. \A z \in Thread : st'[z] = st[z] \/ (st[z] \in Soft /\ st'[z] \in Soft)
  BY <1>1, <1>2 DEF Types, Soft
<1>4. ASSUME NEW p \in Used, Starting(p) \/ Heir(p)'
      PROVE  st'[Main(p)] = st[Main(p)] \/ st'[Main(p)] = "susp"
  <2>1. Heir(p)' => Heir(p)
    BY <1>1 DEF Heir, procVars, Used
  <2>2. Main(p) \in Thread /\ (Main(p) = y => y[1] = p)
    BY ThreadFacts DEF Used
  <2>3. CASE Main(p) # y
    BY <1>1, <1>2, <2>2, <2>3 DEF Types
  <2>4. CASE Main(p) = y
    <3>1. st' = [st EXCEPT ![y] = "susp"]
      BY <1>1, <1>4, <2>1, <2>2, <2>4
    <3>2. QED
      BY <1>2, <2>4, <3>1 DEF Types
  <2>5. QED
    BY <2>3, <2>4
<1>5. st' \in [Thread -> States]
  BY <1>1, <1>2 DEF Types, States
<1>6. StopOK(x)'
  BY <1>1 DEF PInv, StopInv, StopOK, codeVars
<1>7. Moves(x)
  BY <1>1, <1>2, <1>3, <1>4, <1>5, <1>6 DEF Moves, Types, codeVars
<1>8. QED
  BY <1>7, MoveStep

(* process_sysq() resumes the successor of a chained process.              *)
LEMMA SessionResumeStep ==
  ASSUME PInv, SessionResume
  PROVE  PInv'
<1>1. /\ UNCHANGED <<procVars, cnt, wh, codeVars, lock, sysq, nextpid, trap>>
      /\ rpid' = 0 /\ rpid # 0
      /\ st' = [x \in Thread |-> IF x[2] = 1 /\ x[1] \in ByPid(rpid) /\ st[x] = "susp"
                                 THEN "run" ELSE st[x]]
  BY DEF SessionResume
<1>2. Types
  BY DEF PInv
<1>3. \A z \in Thread : st'[z] = IF z[2] = 1 /\ z[1] \in ByPid(rpid) /\ st[z] = "susp"
                                 THEN "run" ELSE st[z]
  BY <1>1
<1>4. \A z \in Thread : st'[z] = st[z] \/ (st[z] \in Soft /\ st'[z] \in Soft)
  BY <1>3 DEF Soft
<1>5. st' \in [Thread -> States]
  BY <1>1, <1>2 DEF Types, States
<1>6. ASSUME NEW p \in Used, p \in ByPid(rpid)
      PROVE  ~Starting(p) /\ ~Heir(p)'
  <2>1. p \in Pd /\ pid[p] = rpid /\ "chain" \notin flags[p] /\ p # Root
    BY <1>6 DEF ByPid, Used, PInv, RootInv
  <2>2. Heir(p)
    BY <2>1 DEF Heir
  <2>3. ASSUME Starting(p)
        PROVE  FALSE
    <3>1. PICK z \in Thread : pc[z] = "launch" /\ tgt[z] = p
      BY <2>3 DEF Starting
    <3>2. "chain" \in flags[z[1]] /\ pid[p] = pid[z[1]]
      BY <2>2, <3>1 DEF PInv, LaunchInv, LaunchOK
    <3>3. z[1] \in Used /\ z[1] # Root
      BY <3>1, <3>2, AliveUsed DEF PInv, RootInv
    <3>4. pid[z[1]] # rpid
      BY <3>2, <3>3 DEF PInv, FlagInv, FlagOK
    <3>5. QED
      BY <2>1, <3>2, <3>4
  <2>4. ASSUME Heir(p)'
        PROVE  FALSE
    <3>1. rpid' # pid[p]
      BY <1>1, <1>6 DEF Used
    <3>2. PICK q \in Used : pid[q] = pid[p] /\ q # p
      BY <1>1, <2>4, <3>1 DEF Heir, procVars, Used
    <3>3. "chain" \in flags[q]
      BY <2>1, <3>2 DEF PInv, FlagInv, FlagOK
    <3>4. q # Root
      BY <2>1, <3>2 DEF PInv, RootInv, Used
    <3>5. QED
      BY <2>1, <3>2, <3>3, <3>4 DEF PInv, FlagInv, FlagOK
  <2>5. QED
    BY <2>3, <2>4
<1>7. \A p \in Used : Starting(p) \/ Heir(p)' => st'[Main(p)] = st[Main(p)]
  BY <1>3, <1>6, ThreadFacts DEF Used
<1> DEFINE x == Main(Root)
<1>8. x \in Thread
  BY ThreadFacts
<1>9. StopOK(x)'
  BY <1>1, <1>8 DEF PInv, StopInv, StopOK, codeVars
<1> HIDE DEF x
<1>10. Moves(x)
  BY <1>1, <1>2, <1>4, <1>5, <1>7, <1>8, <1>9 DEF Moves, Types, codeVars
<1>11. QED
  BY <1>8, <1>10, MoveStep

(* mod_stop() up to its loop                                               *)
LEMMA StoppingStep ==
  ASSUME PInv, NEW x \in Thread, NEW n \in 0..MaxPid, NEW p \in Pd, Stopping(x, n, p),
         UNCHANGED <<procVars, cnt, wh, tgt, info, sysq, rpid, nextpid, trap>>,
         st[x] = "run",
         \/ pc[x] = "prog" /\ p \in Named(x, n) /\ p # Root
         \/ pc[x] = "launch" /\ "chain" \in flags[x[1]] /\ n = 0 /\ p = x[1]
  PROVE  PInv'
<1>1. /\ st' = [y \in Thread |->
                  IF y[1] = p /\ y # x /\ st[y] = "run" THEN "susp" ELSE st[y]]
      /\ todo' = [todo EXCEPT ![x] = [pid |-> n, tids |-> StopList(x, p)]]
      /\ pc' = [pc EXCEPT ![x] = "stop"]
      /\ lock' = x
  BY DEF Stopping
<1>2. Types
  BY DEF PInv
<1>3. \A z \in Thread : st'[z] = st[z] \/ (st[z] = "run" /\ st'[z] = "susp")
  BY <1>1
<1>4. st' \in [Thread -> States]
  BY <1>1, <1>2 DEF Types, States
<1>5. todo' \in [Thread -> [pid : 0..MaxPid, tids : Seq(Tid)]]
  BY <1>1, <1>2, StopListIs DEF Types
<1>6. pc' \in [Thread -> PCs] /\ pc'[x] = "stop" /\ \A y \in Thread : y # x => pc'[y] = pc[y] /\ todo'[y] = todo[y]
  BY <1>1, <1>2 DEF Types, PCs
<1>7. StopOK(x)'
  <2>1. todo'[x] = [pid |-> n, tids |-> StopList(x, p)]
    BY <1>1, <1>2 DEF Types
  <2>2. CASE pc[x] = "prog"
    <3>1. p \in Named(x, n) /\ p # Root /\ tgt[x] = None
      BY <2>2 DEF PInv, ThreadInv, ThreadOK
    <3>2. (n = 0 => x[1] # Root) /\ n # 1
      BY <3>1 DEF Named, ByPid, PInv, RootInv, Used
    <3>3. QED
      BY <2>1, <3>1, <3>2 DEF StopOK
  <2>3. CASE pc[x] = "launch" /\ "chain" \in flags[x[1]] /\ n = 0 /\ p = x[1]
    <3>1. x[1] # Root
      BY <2>3 DEF PInv, RootInv
    <3>2. StopList(x, p) # <<>> /\ StopList(x, p)[Len(StopList(x, p))] = x[2]
      BY <2>3, StopListIs
    <3>3. QED
      BY <2>1, <2>3, <3>1, <3>2 DEF StopOK
  <2>4. QED
    BY <2>2, <2>3
<1>8. pc[x] \in {"prog", "launch"} /\ (pc[x] = "launch" => "chain" \in flags[x[1]])
  OBVIOUS
<1>9. \A q \in Used : st'[Main(q)] = st[Main(q)] \/ st'[Main(q)] = "susp"
  BY <1>3, ThreadFacts DEF Used
<1>10. Moves(x)
  BY <1>1, <1>3, <1>4, <1>5, <1>6, <1>7, <1>8, <1>9 DEF Moves, Soft
<1>11. QED
  BY <1>10, MoveStep

LEMMA StopStep ==
  ASSUME PInv, NEW x \in Thread, NEW n \in 0..MaxPid, Stop(x, n)
  PROVE  PInv'
<1>1. /\ st[x] = "run" /\ pc[x] = "prog"
      /\ UNCHANGED <<procVars, cnt, wh, tgt, info, sysq, rpid, nextpid, trap>>
  BY DEF Stop, InProg, Runs
<1>2. PICK p \in Named(x, n) \ {Root} : Stopping(x, n, p)
  BY DEF Stop
<1>3. p \in Pd
  BY ThreadFacts DEF Named, ByPid, Used
<1>4. QED
  BY <1>1, <1>2, <1>3, StoppingStep

(* Pids are numbers.                                                       *)
LEMMA PidNat ==
  ASSUME Types
  PROVE  /\ nextpid \in Nat /\ pid \in [Pd -> Nat] /\ ptid \in [Pd -> Nat] /\ rpid \in Nat
         /\ MaxPid \in Nat /\ MaxTid \in Nat /\ 0 \in 0..MaxTid /\ 0 \in 0..MaxPid
         /\ \A n \in 0..MaxPid : n \in 0..(MaxPid + MaxTid)
         /\ \A n \in Tid : n \in 0..(MaxPid + MaxTid) /\ n \in 0..MaxTid
         /\ 0 \in 0..(MaxPid + MaxTid)
<1>1. MaxPid \in Nat /\ MaxTid \in Nat
  BY ProcConstants
<1>2. /\ 0 \in 0..MaxTid /\ 0 \in 0..MaxPid /\ 0 \in 0..(MaxPid + MaxTid)
      /\ \A n \in 0..MaxPid : n \in 0..(MaxPid + MaxTid)
      /\ \A n \in 1..MaxTid : n \in 0..(MaxPid + MaxTid) /\ n \in 0..MaxTid
  BY <1>1
<1>3. pid \in [Pd -> 0..MaxPid] /\ ptid \in [Pd -> 0..MaxTid] /\ rpid \in 0..MaxPid
      /\ nextpid \in 2..(MaxPid + 1)
  BY DEF Types
<1>4. nextpid \in Nat /\ rpid \in Nat
  BY <1>1, <1>3
<1>5. pid \in [Pd -> Nat] /\ ptid \in [Pd -> Nat]
  BY <1>1, <1>3
<1>6. QED
  BY <1>1, <1>2, <1>4, <1>5 DEF Tid

(***************************************************************************)
(* mt_termthread()                                                         *)
(***************************************************************************)
(* The process a thread waits for, for which it has the pid only, is the   *)
(* one it has started.                                                     *)
LEMMA GivenAwayIs ==
  ASSUME PInv, NEW y \in Thread
  PROVE  \A p \in Pd : p \in GivenAway(y) <=>
           /\ st[y] = "childexec" /\ p \in Used
           /\ ptid[p] # 0 /\ Caller(p) = y /\ Ended(y) = p
<1>1. CASE st[y] # "childexec"
  BY <1>1 DEF GivenAway
<1>2. CASE st[y] = "childexec"
  <2>1. pc[y] = "ret"
    BY <1>2 DEF PInv, ThreadInv, ThreadOK
  <2>2. PICK e \in Used : e = Ended(y) /\ ptid[e] # 0 /\ Caller(e) = y
    BY <2>1 DEF PInv, ChildInv, ReturnOK
  <2>3. wh[y] = pid[e] /\ e # Root
    BY <1>2, <2>1, <2>2 DEF PInv, ChildInv, ChildOK, RootInv
  <2>4. "chain" \notin flags[e]
    BY <2>2, <2>3 DEF PInv, FlagInv, FlagOK
  <2>5. ByPid(wh[y]) = {e}
    BY <2>2, <2>3, <2>4 DEF ByPid, PInv, FlagInv, FlagOK
  <2>6. GivenAway(y) = {e}
    BY <1>2, <2>5 DEF GivenAway
  <2>7. QED
    BY <1>2, <2>2, <2>6
<1>3. QED
  BY <1>1, <1>2

(***************************************************************************)
(* The tree of processes                                                   *)
(***************************************************************************)
(* Nothing of the tree changes.                                            *)
LEMMA TreeKept ==
  ASSUME TreeInv, UNCHANGED <<pid, parent, ppid, tree>>
  PROVE  TreeInv'
  BY DEF TreeInv, Used, Forest, Walk, Ends, Steps

(* A process that has ended has no children, so that check_prcdata()       *)
(* passes its part of the tree.                                            *)
LEMMA TreeSound ==
  ASSUME PInv, TreeInv, NEW e \in Used \ {Root}, st[Main(e)] = "gone"
  PROVE  /\ SoundTree(e) /\ parent[e] \in Used
         /\ \A p \in Used \ {Root} : parent[p] # e
<1>1. /\ e \in Pd /\ Forest(tree, parent, Used, Used \ {Root})
      /\ parent[e] \in Used /\ ppid[e] = pid[parent[e]]
  BY DEF TreeInv, Forest, Used
<1>2. cnt[e] = 1 /\ pc[Main(e)] = "main2"
  <2>1. Types /\ BlockInv /\ Main(e) \in Thread /\ Main(e)[1] = e
    BY <1>1, ThreadFacts DEF PInv
  <2>2. pc[Main(e)] = "main2" /\ ~(cnt[e] > 1)
    BY <2>1 DEF PInv, ThreadInv, ThreadOK
  <2>3. cnt[e] \in Nat \ {0}
    BY <2>1, CntFacts
  <2>4. QED
    BY <2>2, <2>3
<1>3. ASSUME NEW p \in Used \ {Root}, parent[p] = e
      PROVE  FALSE
  <2>1. ptid[p] # 0
    BY <1>3 DEF PInv, FlagInv, FlagOK
  <2>2. PICK c \in Thread : c = Caller(p) /\ pc[c] \in {"launch", "ret"}
    BY <2>1 DEF PInv, ChildInv, ChildOK
  <2>3. c[1] = e /\ st[c] # "none"
    <3>1. c[1] = e
      BY <1>3, <2>2 DEF Caller
    <3>2. st[c] # "none"
      BY <2>2 DEF PInv, ThreadInv, ThreadOK
    <3>3. QED
      BY <3>1, <3>2
  <2>4. c = Main(e)
    BY <1>2, <2>3, CntFacts DEF PInv
  <2>5. QED
    BY <1>2, <2>2, <2>4
<1>4. Walk(tree.next, tree.first[e]) = {} /\ Ends(tree.next, tree.first[e])
  <2>1. Walk(tree.next, tree.first[e]) \subseteq {p \in Used \ {Root} : parent[p] = e}
    <3>1. PICK t, par, U : t = tree /\ par = parent /\ U = Used \ {Root}
      OBVIOUS
    <3>2. Forest(t, par, Used, U)
      BY <1>1, <3>1
    <3>3. Walk(t.next, t.first[e]) \subseteq {p \in U : par[p] = e}
      BY <3>2, ForestWalk
    <3>4. QED
      BY <3>1, <3>3
  <2>2. QED
    BY <1>1, <1>3, <2>1 DEF Forest
<1>5. e \in Walk(tree.next, tree.first[parent[e]])
  BY <1>1 DEF Forest
<1>6. QED
  BY <1>1, <1>3, <1>4, <1>5 DEF SoundTree

(* mt_termthread() finds the child of its victim behind all its siblings.  *)
LEMMA TerminatedTree ==
  ASSUME PInv, TreeInv, Uses = {}, NEW x \in Thread, NEW y \in Thread, Terminated(x, y)
  PROVE  /\ \A p \in GivenAway(y) : CanMove(tree, p)
         /\ pid' = pid => TreeInv'
<1> DEFINE E == GivenAway(y)
           U == Used \ {Root}
<1>1. \A p \in Pd : p \in E <=> /\ st[y] = "childexec" /\ p \in Used
                                /\ ptid[p] # 0 /\ Caller(p) = y /\ Ended(y) = p
  BY GivenAwayIs
<1>2. E \subseteq Used
  BY DEF GivenAway, ByPid
<1>3. \A p \in E : tree.next[p] = None
  BY DEF Terminated, Only
<1>4. Forest(tree, parent, Used, U) /\ U \subseteq Used /\ Root \in Used
  BY ThreadFacts DEF TreeInv, PInv, RootInv, Used
<1>5. \A p \in E : p \in U /\ E = {p}
  <2>1. TAKE p \in E
  <2>2. p \in Used /\ p \in Pd /\ E \subseteq Pd
    BY <1>2 DEF Used
  <2>3. p # Root
    BY <1>1, <2>2 DEF PInv, RootInv
  <2>4. \A q \in E : q = p
    BY <1>1, <2>2
  <2>5. QED
    BY <2>2, <2>3, <2>4
<1> DEFINE par2 == [p \in Pd |-> IF p \in E THEN Root ELSE parent[p]]
<1>6. U \subseteq Pd /\ \A u \in Pd : par2[u] = IF u \in E THEN Root ELSE parent[u]
  BY DEF Used
<1> HIDE DEF par2, U, E
<1>7. ASSUME NEW p \in E
      PROVE  CanMove(tree, p) /\ Forest(Moved(tree, p), par2, Used, U)
  <2>1. p \in U /\ tree.next[p] = None /\ par2[p] = Root /\ \A u \in U : u # p => par2[u] = parent[u]
    BY <1>3, <1>5, <1>6, <1>7
  <2>2. PICK t, O : t = tree /\ O = Used
    OBVIOUS
  <2>3. /\ Forest(t, parent, O, U) /\ U \subseteq Used /\ Root \in O /\ t.next[p] = None
    BY <1>4, <2>1, <2>2
  <2>4. CanMove(t, p) /\ Forest(Moved(t, p), par2, O, U)
    BY <2>1, <2>3, MoveForest
  <2>5. QED
    BY <2>2, <2>4
<1>8. ASSUME pid' = pid
      PROVE  TreeInv'
  <2>1. /\ parent' = par2
        /\ ppid' = [p \in Pd |-> IF p \in E THEN pid[Root] ELSE ppid[p]]
        /\ tree' = IF E = {} THEN tree ELSE Moved(tree, CHOOSE p \in E : TRUE)
    BY <1>7 DEF Terminated, E, par2
  <2>2. Used' = Used
    BY <1>8 DEF Used
  <2>3. Forest(tree', par2, Used, U)
    <3>1. CASE E = {}
      <4>1. \A u \in U : par2[u] = parent[u]
        BY <1>6, <3>1
      <4>2. tree' = tree
        BY <2>1, <3>1
      <4>3. QED
        BY <1>4, <4>1, <4>2 DEF Forest
    <3>2. CASE E # {}
      <4>1. PICK p \in E : p = CHOOSE r \in E : TRUE
        BY <3>2
      <4>2. QED
        BY <1>7, <2>1, <3>2, <4>1
    <3>3. QED
      BY <3>1, <3>2
  <2>4. Forest(tree', parent', Used', Used' \ {Root})
    BY <2>1, <2>2, <2>3 DEF U
  <2>5. Forest(tree, parent, Used, Used \ {Root})'
    BY <2>4 DEF Forest, Walk, Ends, Steps
  <2>6. ppid' \in [Pd -> 0..MaxPid] /\ \A p \in Used' \ {Root} : ppid'[p] = pid'[parent'[p]]
    <3>1. pid[Root] \in 0..MaxPid /\ ppid \in [Pd -> 0..MaxPid]
      BY ThreadFacts DEF TreeInv, PInv, Types
    <3>2. QED
      BY <1>6, <1>8, <2>1, <2>2, <3>1 DEF TreeInv, U
  <2>7. QED
    BY <2>5, <2>6 DEF TreeInv
<1>9. QED
  BY <1>7, <1>8 DEF E

LEMMA TerminatedStep ==
  ASSUME PInv, Uses = {}, NEW x \in Thread, NEW y \in Thread, x # y, y[1] # Root,
         st[y] \notin {"none", "gone", "tidmain"}, Terminated(x, y),
         \A p \in GivenAway(y) : CanMove(tree, p),
         st[x] = "run", pc[x] \in {"prog", "stop"},
         UNCHANGED <<pid, cnt, tgt, info, sysq, rpid, nextpid>>,
         todo' \in [Thread -> [pid : 0..MaxPid, tids : Seq(Tid)]], lock' \in Thread \cup {None},
         \A z \in Thread : z # x => todo'[z] = todo[z],
         StopOK(x)'
  PROVE  PInv'
<1> DEFINE E == GivenAway(y)
           same == x[1] = y[1]
<1>1. Types
  BY DEF PInv
<1>2. \A p \in Pd : p \in E <=> /\ st[y] = "childexec" /\ p \in Used
                                /\ ptid[p] # 0 /\ Caller(p) = y /\ Ended(y) = p
  BY GivenAwayIs
<1>3. /\ parent' = [p \in Pd |-> IF p \in E THEN Root ELSE parent[p]]
      /\ ptid' = [p \in Pd |-> IF p \in E THEN 0 ELSE ptid[p]]
      /\ flags' = [p \in Pd |-> IF p \in E THEN flags[p] \cup {"nopwait"} ELSE flags[p]]
      /\ st' = [st EXCEPT ![y] = "run", ![x] = IF same THEN "tidexit" ELSE @]
      /\ wh' = [z \in Thread |-> IF st'[z] \in Waits THEN [wh EXCEPT ![x] = y[2]][z] ELSE 0]
      /\ pc' = [pc EXCEPT ![y] = "exit"]
      /\ ~Between(y) /\ ~Starting(y[1]) /\ trap' = trap
  BY DEF Terminated, Handles, Only
<1>4. /\ \A p \in Pd : parent'[p] = IF p \in E THEN Root ELSE parent[p]
      /\ \A p \in Pd : ptid'[p] = IF p \in E THEN 0 ELSE ptid[p]
      /\ \A p \in Pd : flags'[p] = IF p \in E THEN flags[p] \cup {"nopwait"} ELSE flags[p]
  BY <1>3
<1>5. /\ \A z \in Thread : st'[z] = IF z = y THEN "run" ELSE IF z = x /\ same THEN "tidexit" ELSE st[z]
      /\ \A z \in Thread : pc'[z] = IF z = y THEN "exit" ELSE pc[z]
  BY <1>1, <1>3 DEF Types
<1>6. \A z \in Thread : wh'[z] = IF st'[z] \notin Waits THEN 0 ELSE IF z = x THEN y[2] ELSE wh[z]
  BY <1>1, <1>3 DEF Types
<1>7. pc[y] \notin {"launch"} /\ (pc[y] = "ret" => st[y] = "childexec")
  BY <1>3 DEF Between
<1>8. /\ \A z \in Thread : st[z] = "none" <=> st'[z] = "none"
      /\ \A z \in Thread : st[z] = "gone" <=> st'[z] = "gone"
  BY <1>5
<1> HIDE DEF E, same
<1>9. E \subseteq Used /\ Root \notin E /\ \A p \in E : p \in Pd
  BY <1>2 DEF PInv, RootInv, GivenAway, E, ByPid, Used
<1>10. BlockInv' /\ Used' = Used /\ \A p \in Pd : Slots(p)' = Slots(p)
  <2>1. nextpid \in Nat /\ pid \in [Pd -> Nat] /\ nextpid' \in Nat /\ nextpid' >= nextpid
    BY <1>1, PidNat
  <2>2. \A p \in Pd \ Used : flags'[p] = flags[p]
    BY <1>4, <1>9
  <2>3. BlockInv
    BY DEF PInv
  <2>4. QED
    BY <1>8, <2>1, <2>2, <2>3, BlockKept
<1>11. \A p \in Pd : "chain" \in flags'[p] <=> "chain" \in flags[p]
  <2>1. TAKE p \in Pd
  <2>2. CASE p \in E
    <3>1. flags'[p] = flags[p] \cup {"nopwait"}
      BY <1>4, <2>2
    <3>2. QED
      BY <3>1
  <2>3. CASE p \notin E
    <3>1. flags'[p] = flags[p]
      BY <1>4, <2>3
    <3>2. QED
      BY <3>1
  <2>4. QED
    BY <2>2, <2>3
<1>12. \A p \in Pd : Heir(p)' <=> Heir(p)
  BY <1>10, <1>11 DEF Heir
<1>13. Types'
  <2>1. parent' \in [Pd -> Pd \cup {None}] /\ ptid' \in [Pd -> 0..MaxTid]
    BY <1>1, <1>3, PidNat, ThreadFacts DEF Types
  <2>2. flags' \in [Pd -> SUBSET {"nopwait", "lwait", "chain"}]
    BY <1>1, <1>3 DEF Types
  <2>3. st' \in [Thread -> States] /\ pc' \in [Thread -> PCs]
    BY <1>1, <1>3 DEF Types, States, PCs
  <2>4. wh' \in [Thread -> 0..(MaxPid + MaxTid)]
    <3>2. y[2] \in 0..(MaxPid + MaxTid) /\ 0 \in 0..(MaxPid + MaxTid)
      BY <1>1, PidNat, ThreadFacts
    <3>3. wh \in [Thread -> 0..(MaxPid + MaxTid)]
      BY <1>1 DEF Types
    <3>4. \A z \in Thread : wh'[z] \in 0..(MaxPid + MaxTid)
      BY <1>6, <3>2, <3>3
    <3>5. QED
      BY <1>3, <3>4
  <2>5. QED
    BY <1>1, <1>3, <2>1, <2>2, <2>3, <2>4 DEF Types
<1>14. RootInv'
  <2>1. Main(Root) \in Thread /\ Main(Root)[1] = Root
    BY ThreadFacts
  <2>2. st'[Main(Root)] # "gone" /\ pc'[Main(Root)] \in {"prog", "launch", "ret", "stop"}
    BY <1>5, <1>8, <2>1 DEF PInv, RootInv
  <2>3. Slots(Root)' = {1} /\ flags'[Root] = {} /\ ptid'[Root] = 0
    BY <1>4, <1>9, <1>10, ThreadFacts DEF PInv, RootInv
  <2>4. QED
    BY <2>2, <2>3 DEF PInv, RootInv
<1>15. ThreadInv'
  <2>1. SUFFICES ASSUME NEW z \in Thread PROVE ThreadOK(z)'
    BY DEF ThreadInv
  <2>2. ThreadOK(z) /\ ThreadOK(x)
    BY DEF PInv, ThreadInv
  <2>3. CASE z = y
    BY <1>5, <1>6, <2>3 DEF ThreadOK, Waits
  <2>4. CASE z = x /\ same
    <3>1. <<x[1], y[2]>> = y /\ y[2] \in Tid
      BY <2>4, ThreadFacts DEF same
    <3>2. /\ st'[x] = "tidexit" /\ pc'[x] = pc[x] /\ wh'[x] = y[2] /\ pc'[y] = "exit"
      BY <1>5, <1>6, <2>4 DEF Waits
    <3>3. QED
      BY <2>2, <2>4, <3>1, <3>2 DEF ThreadOK, Waits
  <2>5. CASE z # y /\ ~(z = x /\ same)
    <3>1. st'[z] = st[z] /\ pc'[z] = pc[z] /\ wh'[z] = wh[z]
      BY <1>5, <1>6, <2>2, <2>5 DEF ThreadOK, Waits
    <3>2. st[z] = "tidexit" => pc'[<<z[1], wh[z]>>] = "exit"
      <4>1. HAVE st[z] = "tidexit"
      <4>2. <<z[1], wh[z]>> \in Thread /\ pc[<<z[1], wh[z]>>] = "exit"
        BY <2>2, <4>1, ThreadFacts DEF ThreadOK
      <4>3. QED
        BY <1>5, <4>2
    <3>3. st[z] = "waitlnch" => \E q \in Used : pid[q] = wh[z] /\ st'[Main(q)] # "gone"
      <4>1. HAVE st[z] = "waitlnch"
      <4>2. PICK q \in Used : pid[q] = wh[z] /\ st[Main(q)] # "gone"
        BY <2>2, <4>1 DEF ThreadOK
      <4>3. st'[Main(q)] # "gone"
        BY <1>8, <4>2, ThreadFacts DEF Used
      <4>4. QED
        BY <4>2, <4>3
    <3>4. QED
      BY <1>10, <2>2, <3>1, <3>2, <3>3 DEF ThreadOK
  <2>6. QED
    BY <2>3, <2>4, <2>5
<1>16. StopInv'
  <2>1. SUFFICES ASSUME NEW z \in Thread PROVE StopOK(z)'
    BY DEF StopInv
  <2>2. CASE z = x
    BY <2>2
  <2>3. CASE z = y
    BY <1>5, <2>3 DEF StopOK
  <2>4. CASE z # x /\ z # y
    <3>1. pc'[z] = pc[z] /\ todo'[z] = todo[z] /\ tgt' = tgt
      BY <1>5, <2>4
    <3>2. StopOK(z)
      BY DEF PInv, StopInv
    <3>3. QED
      BY <3>1, <3>2 DEF StopOK
  <2>5. QED
    BY <2>2, <2>3, <2>4
<1>17. FlagInv'
  <2>1. SUFFICES ASSUME NEW p \in Used \ {Root} PROVE FlagOK(p)'
    BY <1>10 DEF FlagInv
  <2>2. FlagOK(p) /\ p \in Pd
    BY DEF PInv, FlagInv, Used
  <2>3. \A q \in Used : "chain" \in flags'[q] <=> "chain" \in flags[q]
    BY <1>11 DEF Used
  <2>4. p \in E => "chain" \notin flags[p]
    BY <1>2, <2>2 DEF FlagOK
  <2>5. QED
    BY <1>4, <1>10, <2>2, <2>3, <2>4 DEF FlagOK
<1>18. LaunchInv'
  <2>1. SUFFICES ASSUME NEW z \in Thread, pc'[z] = "launch" PROVE LaunchOK(z)'
    BY DEF LaunchInv, LaunchOK
  <2>2. pc[z] = "launch" /\ LaunchOK(z)
    BY <1>5, <2>1 DEF PInv, LaunchInv
  <2>3. PICK r : r = tgt[z]
    OBVIOUS
  <2>4. /\ r \in Used /\ r \in Pd /\ Main(r) \in Thread /\ Main(r)[1] = r
        /\ st[Main(r)] = "susp" /\ pc[Main(r)] = "prog"
    BY <2>2, <2>3, ThreadFacts DEF LaunchOK, Used
  <2>5. Starting(r)
    BY <2>2, <2>3 DEF Starting
  <2>6. Main(r) # y /\ Main(r) # x
    BY <1>3, <2>4, <2>5
  <2>7. st'[Main(r)] = "susp" /\ pc'[Main(r)] = "prog"
    BY <1>5, <2>4, <2>6
  <2>8. \A w \in Thread : pc'[w] = "launch" => pc[w] = "launch"
    BY <1>5
  <2>9. ptid'[r] # 0 => ptid[r] # 0 /\ Caller(r)' = Caller(r)
    BY <1>4, <2>4 DEF Caller
  <2>10. /\ r = tgt'[z] /\ (Heir(r)' <=> Heir(r)) /\ z[1] \in Pd
         /\ "chain" \in flags'[z[1]] <=> "chain" \in flags[z[1]]
         /\ "chain" \in flags'[r] <=> "chain" \in flags[r]
    BY <1>11, <1>12, <2>3, <2>4, ThreadFacts
  <2>11. QED
    BY <1>10, <2>2, <2>3, <2>7, <2>8, <2>9, <2>10 DEF LaunchOK
<1>19. ChildInv'
  <2>1. \A p \in Used : ChildOK(p)'
    <3>1. SUFFICES ASSUME NEW p \in Used, ptid'[p] # 0 PROVE ChildOK(p)'
      BY DEF ChildOK
    <3>2. p \notin E /\ ptid[p] # 0 /\ ptid'[p] = ptid[p] /\ parent'[p] = parent[p] /\ p \in Pd
      BY <1>4, <3>1 DEF Used
    <3>3. ChildOK(p) /\ Caller(p) \in Thread /\ Main(p) \in Thread
      BY <3>2, ThreadFacts DEF PInv, ChildInv, ChildOK
    <3>4. PICK c \in Thread : c = Caller(p)
      BY <3>3
    <3>5. Caller(p)' = c /\ c[1] = parent[p] /\ parent[p] \in Pd
      BY <3>2, <3>4, ThreadFacts DEF Caller
    <3>6. pc[c] \in {"launch", "ret"} /\ (pc[c] = "ret" => Ended(c) = p)
      BY <3>2, <3>3, <3>4 DEF ChildOK
    <3>7. c # y /\ c # x
      BY <1>2, <1>7, <3>2, <3>4, <3>6
    <3>8. st'[c] = st[c] /\ pc'[c] = pc[c]
      BY <1>5, <3>7
    <3>9. st[c] = "childexec" => wh'[c] = wh[c]
      BY <1>6, <3>7, <3>8 DEF Waits
    <3>10. Ended(c)' = Ended(c)
      BY DEF Ended
    <3>11. st'[Main(p)] = "gone" <=> st[Main(p)] = "gone"
      BY <1>8, <3>3
    <3>12. "chain" \in flags'[parent[p]] <=> "chain" \in flags[parent[p]]
      BY <1>11, <3>5
    <3>13. Ended(Caller(p))' = Ended(c)
      BY <3>5, <3>10 DEF Ended
    <3>14. QED
      BY <3>2, <3>3, <3>4, <3>5, <3>8, <3>9, <3>11, <3>12, <3>13 DEF ChildOK
  <2>2. \A z \in Thread : ReturnOK(z)'
    <3>1. SUFFICES ASSUME NEW z \in Thread, pc'[z] = "ret" PROVE ReturnOK(z)'
      BY DEF ReturnOK
    <3>2. pc[z] = "ret" /\ z # y
      BY <1>5, <3>1
    <3>3. PICK f \in Used : f = Ended(z) /\ ptid[f] # 0 /\ Caller(f) = z
      BY <3>2 DEF PInv, ChildInv, ReturnOK
    <3>4. f \notin E /\ f \in Pd
      BY <1>2, <3>2, <3>3 DEF Used
    <3>5. ptid'[f] = ptid[f] /\ Caller(f)' = Caller(f) /\ Ended(z)' = f
      BY <1>4, <3>3, <3>4 DEF Caller, Ended
    <3>6. Caller(Ended(z))' = z
      BY <3>3, <3>5 DEF Caller
    <3>7. QED
      BY <1>10, <3>3, <3>5, <3>6 DEF ReturnOK
  <2>3. QED
    BY <1>10, <2>1, <2>2 DEF ChildInv
<1>20. SysqInv'
  <2>1. \A p \in Pd : st'[Main(p)] = "gone" <=> st[Main(p)] = "gone"
    BY <1>8, ThreadFacts
  <2>2. \A p \in E : st[Main(p)] # "gone"
    <3>1. TAKE p \in E
    <3>2. p \in Used /\ ptid[p] # 0 /\ Caller(p) = y /\ st[y] = "childexec" /\ ChildOK(p) /\ pc[y] = "ret"
      BY <1>2, <1>9 DEF PInv, ChildInv, ThreadInv, ThreadOK
    <3>3. QED
      BY <3>2 DEF ChildOK
  <2>3. \A p \in Pd : st[Main(p)] = "gone" => ptid'[p] = ptid[p]
    BY <1>4, <2>2
  <2>4. QED
    BY <1>10, <2>1, <2>3 DEF PInv, SysqInv
<1>21. HeirInv'
  <2>1. SUFFICES ASSUME NEW p \in Used, Heir(p)' PROVE HeirOK(p)'
    BY <1>10 DEF HeirInv, HeirOK
  <2>2. Heir(p) /\ HeirOK(p) /\ Main(p) \in Thread
    BY <1>12, <2>1, ThreadFacts DEF PInv, HeirInv, Used
  <2>3. Main(p) # x
    BY <2>2 DEF HeirOK
  <2>4. QED
    BY <1>5, <2>2, <2>3 DEF HeirOK
<1>22. QED
  BY <1>10, <1>13, <1>14, <1>15, <1>16, <1>17, <1>18, <1>19, <1>20, <1>21 DEF PInv

LEMMA TerminateStep ==
  ASSUME PInv, TreeInv, Uses = {}, NEW x \in Thread, NEW y \in Thread, Terminate(x, y)
  PROVE  PInv'
<1>1. /\ st[x] = "run" /\ pc[x] = "prog" /\ x # y /\ y[1] # Root
      /\ st[y] \notin {"none", "gone", "tidmain"} /\ Terminated(x, y)
      /\ UNCHANGED <<pid, cnt, tgt, info, todo, lock, sysq, rpid, nextpid>>
  BY DEF Terminate, InProg, Runs
<1>0. \A p \in GivenAway(y) : CanMove(tree, p)
  BY <1>1, TerminatedTree
<1>2. pc' = [pc EXCEPT ![y] = "exit"] /\ Types
  BY <1>0, <1>1 DEF Terminated, PInv
<1>3. StopOK(x)'
  BY <1>1, <1>2 DEF PInv, StopInv, StopOK, Types
<1>4. /\ todo' \in [Thread -> [pid : 0..MaxPid, tids : Seq(Tid)]] /\ lock' \in Thread \cup {None}
      /\ \A z \in Thread : z # x => todo'[z] = todo[z]
  BY <1>1, <1>2 DEF Types
<1>5. QED
  BY <1>0, <1>1, <1>3, <1>4, TerminatedStep

(* The loop of mod_stop().  A chain comes to its end without meeting a     *)
(* thread that has gone.                                                   *)
LEMMA StopNextStep ==
  ASSUME PInv, TreeInv, Uses = {}, NEW x \in Thread, StopNext(x)
  PROVE  PInv'
<1> DEFINE tids == todo[x].tids
           P == Named(x, todo[x].pid)
           y == <<CHOOSE p \in P : TRUE, Head(tids)>>
           over == tids = <<>> \/ P = {} \/ st[y] = "none"
           rest == [pid |-> todo[x].pid, tids |-> Tail(todo[x].tids)]
<1>1. /\ st[x] = "run" /\ pc[x] = "stop"
      /\ UNCHANGED <<pid, cnt, tgt, info, sysq, rpid, nextpid>>
      /\ tgt[x] # None => tids = <<>> \/ (P # {} /\ st[y] # "none")
      /\ over => StopEnd(x)
      /\ ~over /\ y = x => /\ pc' = [pc EXCEPT ![x] = "exit"]
                           /\ UNCHANGED <<parent, ppid, tree, ptid, flags, st, wh, todo, lock, trap>>
      /\ ~over /\ y # x /\ st[y] \in {"gone", "tidmain"} =>
           /\ todo' = [todo EXCEPT ![x] = rest]
           /\ UNCHANGED <<parent, ppid, tree, ptid, flags, st, wh, pc, lock, trap>>
      /\ ~over /\ y # x /\ st[y] \notin {"gone", "tidmain"} =>
           Terminated(x, y) /\ todo' = [todo EXCEPT ![x] = rest] /\ lock' = None
  BY DEF StopNext, Runs, Only
<1>2. Types /\ StopOK(x)
  BY DEF PInv, StopInv
<1>3. todo[x] \in [pid : 0..MaxPid, tids : Seq(Tid)]
  BY <1>2 DEF Types
<1>4. ~over => /\ y \in Thread /\ y[1] # Root /\ rest \in [pid : 0..MaxPid, tids : Seq(Tid)]
               /\ y # x /\ pc[x] = "stop" /\ tgt[x] # None =>
                    /\ rest.pid = 0 /\ rest.tids # <<>>
                    /\ rest.tids[Len(rest.tids)] = x[2]
  <2>1. HAVE ~over
  <2>2. /\ Head(tids) \in Tid /\ Tail(tids) \in Seq(Tid)
        /\ Head(tids) # tids[Len(tids)] =>
             Tail(tids) # <<>> /\ Tail(tids)[Len(Tail(tids))] = tids[Len(tids)]
    <3>1. tids \in Seq(Tid) /\ tids # <<>>
      BY <1>3, <2>1
    <3> HIDE DEF tids
    <3>2. QED
      BY <3>1, TailIs
  <2>3. /\ rest.pid = todo[x].pid /\ rest.tids = Tail(tids)
        /\ rest \in [pid : 0..MaxPid, tids : Seq(Tid)]
    BY <1>3, <2>2
  <2>4. PICK p : p = CHOOSE q \in P : TRUE
    OBVIOUS
  <2>5. p \in P
    BY <2>1, <2>4
  <2>6. p \in Pd /\ p # Root
    <3>1. CASE todo[x].pid = 0
      BY <1>1, <1>2, <2>5, <3>1, ThreadFacts DEF Named, StopOK
    <3>2. CASE todo[x].pid # 0
      BY <1>1, <1>2, <2>5, <3>2 DEF Named, ByPid, Used, StopOK, PInv, RootInv
    <3>3. QED
      BY <3>1, <3>2
  <2>7. y \in Thread /\ y[1] = p /\ y[2] = Head(tids)
    BY <2>2, <2>4, <2>6, ThreadFacts
  <2>8. rest \in [pid : 0..MaxPid, tids : Seq(Tid)] /\ rest.pid = todo[x].pid /\ rest.tids = Tail(tids)
    BY <2>3
  <2>9. ASSUME y # x, tgt[x] # None
        PROVE  rest.pid = 0 /\ rest.tids # <<>> /\ rest.tids[Len(rest.tids)] = x[2]
    <3>1. todo[x].pid = 0 /\ tids[Len(tids)] = x[2]
      BY <1>1, <1>2, <2>9 DEF StopOK
    <3>2. p = x[1]
      BY <2>5, <3>1 DEF Named
    <3>3. Head(tids) # x[2]
      BY <2>7, <2>9, <3>2, ThreadFacts
    <3>4. QED
      BY <2>2, <2>8, <3>1, <3>3
  <2>10. QED
    BY <2>6, <2>7, <2>8, <2>9
<1>5. todo' = [todo EXCEPT ![x] = rest] /\ ~over =>
        /\ todo' \in [Thread -> [pid : 0..MaxPid, tids : Seq(Tid)]]
        /\ \A z \in Thread : z # x => todo'[z] = todo[z]
        /\ todo'[x] = rest
  <2> HIDE DEF rest, over
  <2> QED
    BY <1>2, <1>4 DEF Types
<1>6. rest.pid = todo[x].pid
  BY <1>3
<1>7. ASSUME ~over, y # x, todo' = [todo EXCEPT ![x] = rest], pc'[x] = "stop"
      PROVE  StopOK(x)'
  <2>1. todo'[x] = rest /\ tgt' = tgt /\ pc[x] = "stop"
    BY <1>1, <1>5, <1>7
  <2> HIDE DEF rest, over, y
  <2>2. QED
    BY <1>2, <1>4, <1>6, <1>7, <2>1 DEF StopOK
<1>8. CASE over
  <2>1. StopEnd(x)
    BY <1>1, <1>8
  <2>2. tgt[x] = None
    <3>1. SUFFICES ASSUME tgt[x] # None PROVE FALSE
      OBVIOUS
    <3>2. tids # <<>>
      BY <1>1, <1>2, <3>1 DEF StopOK
    <3>3. QED
      BY <1>1, <1>8, <3>1, <3>2
  <2>3. /\ pc' = [pc EXCEPT ![x] = "prog"] /\ todo' = [todo EXCEPT ![x] = Clean] /\ lock' = None
        /\ UNCHANGED <<parent, ppid, tree, ptid, flags, st, wh, trap>>
    BY <2>1, <2>2 DEF StopEnd
  <2>4. Clean \in [pid : 0..MaxPid, tids : Seq(Tid)]
    <3>1. 0 \in 0..MaxPid /\ <<>> \in Seq(Tid)
      BY <1>2, PidNat
    <3>2. QED
      BY <3>1 DEF Clean
  <2>5. /\ todo' \in [Thread -> [pid : 0..MaxPid, tids : Seq(Tid)]]
        /\ pc' \in [Thread -> PCs] /\ pc'[x] = "prog"
        /\ \A z \in Thread : z # x => todo'[z] = todo[z] /\ pc'[z] = pc[z]
    BY <1>2, <2>3, <2>4 DEF Types, PCs
  <2>6. Moves(x)
    BY <1>1, <1>2, <2>2, <2>3, <2>5 DEF Moves, procVars, StopOK, Types
  <2>7. QED
    BY <2>6, MoveStep
<1>9. CASE ~over /\ y = x
  <2>1. pc' = [pc EXCEPT ![x] = "exit"] /\ UNCHANGED <<parent, ppid, tree, ptid, flags, st, wh, todo, lock, trap>>
    BY <1>1, <1>9
  <2>2. x[1] # Root
    BY <1>4, <1>9
  <2> HIDE DEF over, y
  <2>3. pc' \in [Thread -> PCs] /\ pc'[x] = "exit" /\ \A z \in Thread : z # x => pc'[z] = pc[z]
    BY <1>2, <2>1 DEF Types, PCs
  <2>4. Moves(x)
    BY <1>1, <1>2, <2>1, <2>2, <2>3 DEF Moves, procVars, StopOK, Types
  <2>5. QED
    BY <2>4, MoveStep
<1>10. CASE ~over /\ y # x /\ st[y] \in {"gone", "tidmain"}
  <2>1. todo' = [todo EXCEPT ![x] = rest] /\ UNCHANGED <<parent, ppid, tree, ptid, flags, st, wh, pc, lock, trap>>
    BY <1>1, <1>10
  <2>2. StopOK(x)'
    BY <1>1, <1>7, <1>10, <2>1
  <2>3. /\ todo' \in [Thread -> [pid : 0..MaxPid, tids : Seq(Tid)]]
        /\ \A z \in Thread : z # x => todo'[z] = todo[z]
    BY <1>5, <1>10, <2>1
  <2> HIDE DEF over, y, rest
  <2>4. Moves(x)
    BY <1>1, <1>2, <2>1, <2>2, <2>3 DEF Moves, procVars, Types
  <2>5. QED
    BY <2>4, MoveStep
<1>11. CASE ~over /\ y # x /\ st[y] \notin {"gone", "tidmain"}
  <2>1. Terminated(x, y) /\ todo' = [todo EXCEPT ![x] = rest] /\ lock' = None
    BY <1>1, <1>11
  <2>2. PICK z \in Thread : z = y
    BY <1>4, <1>11
  <2>3. /\ st[z] \notin {"none", "gone", "tidmain"} /\ Terminated(x, z) /\ z # x /\ z[1] # Root
    BY <1>4, <1>11, <2>1, <2>2
  <2>8. \A p \in GivenAway(z) : CanMove(tree, p)
    BY <2>3, TerminatedTree
  <2>4. pc'[x] = "stop"
    BY <1>1, <1>2, <2>3, <2>8 DEF Terminated, Types
  <2>5. StopOK(x)'
    BY <1>7, <1>11, <2>1, <2>4
  <2>6. /\ todo' \in [Thread -> [pid : 0..MaxPid, tids : Seq(Tid)]]
        /\ \A v \in Thread : v # x => todo'[v] = todo[v]
    BY <1>5, <1>11, <2>1
  <2> HIDE DEF over, y, rest
  <2>7. QED
    BY <1>1, <2>1, <2>3, <2>5, <2>6, <2>8, TerminatedStep
<1>12. QED
  BY <1>8, <1>9, <1>10, <1>11

(***************************************************************************)
(* Threads that come and go                                                *)
(***************************************************************************)
(* One thread more or less in the list of a process.                       *)
LEMMA SlotCame ==
  ASSUME Types, BlockInv, NEW p \in Used, NEW y \in Thread, y[1] = p,
         st[y] = "none", st'[y] # "none",
         \A z \in Thread : z # y => (st'[z] = "none" <=> st[z] = "none"),
         \A q \in Pd : cnt'[q] = IF q = p THEN cnt[q] + 1 ELSE cnt[q],
         UNCHANGED <<pid, flags, nextpid>>
  PROVE  /\ BlockInv' /\ Used' = Used
         /\ \A q \in Pd : q # p => Slots(q)' = Slots(q)
         /\ y[2] # 1 /\ 1 \in Slots(p)'
<1>1. p \in Pd /\ y = <<p, y[2]>> /\ y[2] \in Tid
  BY ThreadFacts DEF Used
<1>2. ASSUME NEW q \in Pd, NEW t \in Tid
      PROVE  t \in Slots(q)' <=> t \in Slots(q) \/ (q = p /\ t = y[2])
  <2>1. <<q, t>> \in Thread /\ (<<q, t>> = y <=> q = p /\ t = y[2])
    BY <1>1, ThreadFacts
  <2>2. CASE <<q, t>> = y
    BY <2>1, <2>2 DEF Slots
  <2>3. CASE <<q, t>> # y
    BY <2>1, <2>3 DEF Slots
  <2>4. QED
    BY <2>2, <2>3
<1>3. \A q \in Pd : Slots(q) \subseteq Tid /\ Slots(q)' \subseteq Tid
  BY DEF Slots
<1>4. Slots(p)' = Slots(p) \cup {y[2]} /\ \A q \in Pd : q # p => Slots(q)' = Slots(q)
  BY <1>1, <1>2, <1>3
<1>5. y[2] \notin Slots(p) /\ 1 \in Slots(p)
  BY <1>1 DEF Slots, BlockInv
<1>6. IsFiniteSet(Slots(p))
  <2>1. MaxTid \in Nat
    BY ProcConstants
  <2>2. IsFiniteSet(Tid)
    BY <2>1, FS_Interval DEF Tid
  <2>3. Slots(p) \subseteq Tid
    BY DEF Slots
  <2>4. QED
    BY <2>2, <2>3, FS_Subset
<1>7. Cardinality(Slots(p) \cup {y[2]}) = Cardinality(Slots(p)) + 1
  BY <1>5, <1>6, FS_AddElement
<1>8. Used' = Used
  BY DEF Used
<1>9. BlockInv'
  <2>1. SUFFICES ASSUME NEW q \in Pd
                 PROVE  /\ cnt'[q] = Cardinality(Slots(q)')
                        /\ q \in Used => 1 \in Slots(q)' /\ pid'[q] < nextpid'
                        /\ q \notin Used => Slots(q)' = {} /\ flags'[q] = {}
    BY <1>8 DEF BlockInv
  <2>2. CASE q = p
    BY <1>4, <1>5, <1>7, <2>2 DEF BlockInv
  <2>3. CASE q # p
    BY <1>4, <2>3 DEF BlockInv
  <2>4. QED
    BY <2>2, <2>3
<1>10. QED
  BY <1>4, <1>5, <1>8, <1>9

LEMMA SlotWent ==
  ASSUME Types, BlockInv, NEW p \in Used, NEW y \in Thread, y[1] = p, y[2] # 1,
         st[y] # "none", st'[y] = "none",
         \A z \in Thread : z # y => (st'[z] = "none" <=> st[z] = "none"),
         \A q \in Pd : cnt'[q] = IF q = p THEN cnt[q] - 1 ELSE cnt[q],
         UNCHANGED <<pid, flags, nextpid>>
  PROVE  /\ BlockInv' /\ Used' = Used
         /\ \A q \in Pd : q # p => Slots(q)' = Slots(q)
         /\ cnt[p] - 1 \in Nat \ {0}
<1>1. p \in Pd /\ y = <<p, y[2]>> /\ y[2] \in Tid
  BY ThreadFacts DEF Used
<1>2. ASSUME NEW q \in Pd, NEW t \in Tid
      PROVE  t \in Slots(q)' <=> t \in Slots(q) /\ ~(q = p /\ t = y[2])
  <2>1. <<q, t>> \in Thread /\ (<<q, t>> = y <=> q = p /\ t = y[2])
    BY <1>1, ThreadFacts
  <2>2. CASE <<q, t>> = y
    BY <2>1, <2>2 DEF Slots
  <2>3. CASE <<q, t>> # y
    BY <2>1, <2>3 DEF Slots
  <2>4. QED
    BY <2>2, <2>3
<1>3. \A q \in Pd : Slots(q) \subseteq Tid /\ Slots(q)' \subseteq Tid
  BY DEF Slots
<1>4. Slots(p)' = Slots(p) \ {y[2]} /\ \A q \in Pd : q # p => Slots(q)' = Slots(q)
  BY <1>1, <1>2, <1>3
<1>5. y[2] \in Slots(p) /\ 1 \in Slots(p)
  BY <1>1 DEF Slots, BlockInv
<1>6. IsFiniteSet(Slots(p))
  <2>1. MaxTid \in Nat
    BY ProcConstants
  <2>2. IsFiniteSet(Tid)
    BY <2>1, FS_Interval DEF Tid
  <2>3. Slots(p) \subseteq Tid
    BY DEF Slots
  <2>4. QED
    BY <2>2, <2>3, FS_Subset
<1>7. /\ Cardinality(Slots(p) \ {y[2]}) = Cardinality(Slots(p)) - 1
      /\ IsFiniteSet(Slots(p) \ {y[2]})
  BY <1>5, <1>6, FS_RemoveElement
<1>8. Used' = Used
  BY DEF Used
<1>9. cnt[p] - 1 \in Nat \ {0}
  <2>1. Slots(p) \ {y[2]} # {}
    BY <1>5
  <2>2. Cardinality(Slots(p) \ {y[2]}) \in Nat
    BY <1>7, FS_CardinalityType
  <2>3. Cardinality(Slots(p) \ {y[2]}) # 0
    BY <1>7, <2>1, FS_EmptySet
  <2>4. QED
    BY <1>1, <1>7, <2>2, <2>3 DEF BlockInv
<1>10. BlockInv'
  <2>1. SUFFICES ASSUME NEW q \in Pd
                 PROVE  /\ cnt'[q] = Cardinality(Slots(q)')
                        /\ q \in Used => 1 \in Slots(q)' /\ pid'[q] < nextpid'
                        /\ q \notin Used => Slots(q)' = {} /\ flags'[q] = {}
    BY <1>8 DEF BlockInv
  <2>2. CASE q = p
    BY <1>4, <1>5, <1>7, <2>2 DEF BlockInv
  <2>3. CASE q # p
    BY <1>4, <2>3 DEF BlockInv
  <2>4. QED
    BY <2>2, <2>3
<1>11. QED
  BY <1>4, <1>8, <1>9, <1>10

(* The first free slot.                                                    *)
LEMMA FirstFreeIs ==
  ASSUME NEW p \in Pd, Slots(p) # Tid
  PROVE  FirstFree(p) \in Tid \ Slots(p)
<1> DEFINE F == Tid \ Slots(p)
<1>1. F \in SUBSET Nat /\ F # {}
  BY ThreadFacts DEF Slots
<1>2. \E t \in F : \A u \in F : t <= u
  <2> HIDE DEF F
  <2> QED
    BY <1>1, LeastNat
<1>3. QED
  BY <1>2 DEF FirstFree

(* mt_createthread()                                                       *)
LEMMA CreateStep ==
  ASSUME PInv, Uses = {}, NEW x \in Thread, NEW p \in Pd, NEW s \in {"run", "susp"},
         Create(x, p, s)
  PROVE  PInv'
<1>1. PICK y : y = <<p, FirstFree(p)>>
  OBVIOUS
<1>2. /\ p \in Used /\ p # Root /\ Slots(p) # Tid
      /\ st' = [st EXCEPT ![y] = s] /\ cnt' = [cnt EXCEPT ![p] = @ + 1]
      /\ ~Ending(p) /\ ~Starting(p) /\ ~Heir(p) /\ st[Main(p)] # "waitlnch"
      /\ UNCHANGED <<procVars, wh, codeVars, lock, sysq, rpid, nextpid, trap>>
  BY <1>1 DEF Create, Only
<1>3. UNCHANGED <<pid, parent, ptid, flags, pc, tgt, info, todo>>
  BY <1>2 DEF procVars, codeVars
<1>4. y \in Thread /\ y[1] = p /\ st[y] = "none"
  BY <1>1, <1>2, FirstFreeIs, ThreadFacts DEF Slots
<1>5. Types
  BY DEF PInv
<1>6. /\ \A z \in Thread : st'[z] = IF z = y THEN s ELSE st[z]
      /\ \A q \in Pd : cnt'[q] = IF q = p THEN cnt[q] + 1 ELSE cnt[q]
  BY <1>2, <1>5 DEF Types
<1>7. /\ BlockInv' /\ Used' = Used
      /\ \A q \in Pd : q # p => Slots(q)' = Slots(q)
      /\ y[2] # 1
  BY <1>2, <1>3, <1>4, <1>5, <1>6, SlotCame DEF PInv
<1>8. \A q \in Pd : Main(q) # y /\ st'[Main(q)] = st[Main(q)] /\ Main(q) \in Thread
  BY <1>6, <1>7, ThreadFacts
<1>9. /\ pc[y] = "prog" /\ wh[y] = 0 /\ info[y] = None /\ tgt[y] = None
  BY <1>4 DEF PInv, ThreadInv, ThreadOK, Waits
<1>10. \A q \in Pd : Heir(q)' <=> Heir(q)
  BY <1>2, <1>3, <1>7 DEF Heir
<1>11. Types'
  <2>1. cnt' \in [Pd -> Nat] /\ st' \in [Thread -> States]
    <3>1. cnt[p] + 1 \in Nat /\ s \in States
      BY <1>5 DEF Types, States
    <3>2. QED
      BY <1>2, <1>5, <3>1 DEF Types
  <2>2. QED
    BY <1>2, <1>3, <1>5, <2>1 DEF Types
<1>12. RootInv'
  BY <1>2, <1>3, <1>7, <1>8, ThreadFacts DEF PInv, RootInv
<1>13. ThreadInv'
  <2>1. SUFFICES ASSUME NEW z \in Thread PROVE ThreadOK(z)'
    BY DEF ThreadInv
  <2>2. ThreadOK(z)
    BY DEF PInv, ThreadInv
  <2>3. CASE z = y
    BY <1>2, <1>3, <1>6, <1>9, <2>3 DEF ThreadOK, Waits
  <2>4. CASE z # y
    <3>1. st'[z] = st[z]
      BY <1>6, <2>4
    <3>2. st[z] = "waitlnch" => /\ z[2] = 1 /\ pc[z] = "prog" /\ cnt'[z[1]] = 1
                                /\ \E q \in Used : pid[q] = wh[z] /\ st'[Main(q)] # "gone"
      <4>1. HAVE st[z] = "waitlnch"
      <4>2. z[2] = 1 /\ pc[z] = "prog" /\ cnt[z[1]] = 1
        BY <2>2, <4>1 DEF ThreadOK
      <4>3. z[1] # p /\ z[1] \in Pd
        BY <1>2, <4>1, <4>2, ThreadFacts
      <4>4. PICK q \in Used : pid[q] = wh[z] /\ st[Main(q)] # "gone"
        BY <2>2, <4>1 DEF ThreadOK
      <4>5. st'[Main(q)] # "gone"
        BY <1>8, <4>4 DEF Used
      <4>6. QED
        BY <1>6, <4>2, <4>3, <4>4, <4>5
    <3>3. pc[z] = "main2" => z[2] = 1 /\ (st'[z] = "tidmain" <=> cnt'[z[1]] > 1)
      <4>1. HAVE pc[z] = "main2"
      <4>2. z[2] = 1 /\ (st[z] = "tidmain" <=> cnt[z[1]] > 1) /\ z[1] \in Pd
        BY <2>2, <4>1, ThreadFacts DEF ThreadOK
      <4>3. CASE z[1] # p
        BY <1>6, <3>1, <4>2, <4>3
      <4>4. CASE z[1] = p
        <5>1. z = Main(p) /\ st[z] = "tidmain"
          BY <1>2, <4>1, <4>2, <4>4, ThreadFacts DEF Ending
        <5>2. cnt'[p] = cnt[p] + 1 /\ cnt[p] > 1 /\ cnt[p] \in Nat
          BY <1>5, <1>6, <4>2, <4>4, <5>1 DEF Types
        <5>3. QED
          BY <3>1, <4>2, <4>4, <5>1, <5>2
      <4>5. QED
        BY <4>3, <4>4
    <3>4. QED
      BY <1>2, <1>3, <1>7, <2>2, <3>1, <3>2, <3>3 DEF ThreadOK
  <2>5. QED
    BY <2>3, <2>4
<1>14. StopInv' /\ FlagInv'
  BY <1>2, <1>3, <1>7 DEF PInv, StopInv, StopOK, FlagInv, FlagOK
<1>15. LaunchInv'
  <2>1. SUFFICES ASSUME NEW z \in Thread, pc[z] = "launch" PROVE LaunchOK(z)'
    BY <1>3 DEF LaunchInv, LaunchOK
  <2>2. PICK r \in Pd : r = tgt[z] /\ r \in Used
    BY <2>1 DEF PInv, LaunchInv, LaunchOK, Used
  <2>3. r # p
    BY <1>2, <2>1, <2>2 DEF Starting
  <2>4. st'[Main(r)] = st[Main(r)] /\ cnt'[r] = cnt[r] /\ (Heir(r)' <=> Heir(r))
    BY <1>6, <1>8, <1>10, <2>2, <2>3
  <2>5. LaunchOK(z) /\ tgt'[z] = r /\ Caller(r)' = Caller(r)
    BY <1>3, <2>2 DEF PInv, LaunchInv, Caller
  <2>6. QED
    BY <1>3, <1>7, <2>1, <2>2, <2>4, <2>5 DEF LaunchOK
<1>16. ChildInv'
  <2>1. \A q \in Used : ChildOK(q)'
    <3>1. SUFFICES ASSUME NEW q \in Used, ptid[q] # 0 PROVE ChildOK(q)'
      BY <1>3 DEF ChildOK
    <3>2. ChildOK(q) /\ q \in Pd
      BY DEF PInv, ChildInv, Used
    <3>3. PICK c \in Thread : c = Caller(q)
      BY <3>1, <3>2 DEF ChildOK
    <3>4. pc[c] # "prog"
      BY <3>1, <3>2, <3>3 DEF ChildOK
    <3>5. st'[c] = st[c] /\ st'[Main(q)] = st[Main(q)] /\ Caller(q)' = c
      BY <1>3, <1>6, <1>8, <1>9, <3>2, <3>3, <3>4 DEF Caller
    <3>6. Ended(Caller(q))' = Ended(c)
      BY <1>3, <3>5 DEF Ended
    <3>7. QED
      BY <1>2, <1>3, <3>1, <3>2, <3>3, <3>5, <3>6 DEF ChildOK
  <2>2. \A z \in Thread : ReturnOK(z)'
    <3>1. SUFFICES ASSUME NEW z \in Thread, pc[z] = "ret" PROVE ReturnOK(z)'
      BY <1>3 DEF ReturnOK
    <3>2. PICK f : f = Ended(z) /\ Ended(z)' = f
      BY <1>3 DEF Ended
    <3>3. Caller(f)' = Caller(f) /\ Caller(Ended(z))' = Caller(f)'
      BY <1>3, <3>2 DEF Caller
    <3>4. QED
      BY <1>3, <1>7, <3>1, <3>2, <3>3 DEF PInv, ChildInv, ReturnOK
  <2>3. QED
    BY <1>7, <2>1, <2>2 DEF ChildInv
<1>17. SysqInv'
  BY <1>2, <1>3, <1>7, <1>8 DEF PInv, SysqInv
<1>18. HeirInv'
  <2>1. SUFFICES ASSUME NEW q \in Used, Heir(q)' PROVE HeirOK(q)'
    BY <1>7 DEF HeirInv, HeirOK
  <2>2. q \in Pd /\ Heir(q) /\ HeirOK(q)
    BY <1>10, <2>1 DEF Used, PInv, HeirInv
  <2>3. q # p
    BY <1>2, <2>2
  <2>4. QED
    BY <1>3, <1>6, <1>8, <2>2, <2>3 DEF HeirOK
<1>19. QED
  BY <1>7, <1>11, <1>12, <1>13, <1>14, <1>15, <1>16, <1>17, <1>18 DEF PInv

(***************************************************************************)
(* mt_exitthread_int()                                                     *)
(***************************************************************************)
(* A secondary thread ends: its slot is free, those who wait for it or, if *)
(* it was the last one, the main thread go on.                             *)
LEMMA ExitSecondary ==
  ASSUME PInv, NEW x \in Thread, Exit(x), x[2] # 1
  PROVE  PInv'
<1> DEFINE p == x[1]
<1>1. PICK s : s = Wake(st, p, "tidexit", x[2])
  OBVIOUS
<1>2. /\ st[x] = "run" /\ pc[x] \in {"prog", "exit"} /\ p # Root
      /\ st' = [IF LastSecondary(p) THEN Wake(s, p, "tidmain", 0) ELSE s EXCEPT ![x] = "none"]
      /\ cnt' = [cnt EXCEPT ![p] = @ - 1]
      /\ Reset({x}) /\ Handles(wh) /\ lock' = None
      /\ UNCHANGED <<pid, parent, ptid, flags, sysq, rpid, nextpid, trap>>
  BY <1>1 DEF Exit, Runs, procVars
<1>3. Types
  BY DEF PInv
<1>4. \A z \in Thread : s[z] = IF z[1] = p /\ st[z] = "tidexit" /\ wh[z] = x[2] THEN "run" ELSE st[z]
  BY <1>1 DEF Wake
<1>5. PICK u : u = IF LastSecondary(p) THEN Wake(s, p, "tidmain", 0) ELSE s
  OBVIOUS
<1>6. u \in [Thread -> States]
  <2>1. s = [z \in Thread |-> IF z[1] = p /\ st[z] = "tidexit" /\ wh[z] = x[2] THEN "run" ELSE st[z]]
    BY <1>1 DEF Wake
  <2>2. \A z \in Thread : s[z] \in States
    BY <1>3, <1>4 DEF Types, States
  <2>3. s \in [Thread -> States]
    BY <2>1, <2>2
  <2>4. CASE LastSecondary(p)
    <3>1. u = [z \in Thread |-> IF z[1] = p /\ s[z] = "tidmain" /\ wh[z] = 0 THEN "run" ELSE s[z]]
      BY <1>5, <2>4 DEF Wake
    <3>2. QED
      BY <2>3, <3>1 DEF States
  <2>5. CASE ~LastSecondary(p)
    BY <1>5, <2>3, <2>5
  <2>6. QED
    BY <2>4, <2>5
<1>7. \A z \in Thread : u[z] = IF LastSecondary(p) /\ z[1] = p /\ s[z] = "tidmain" /\ wh[z] = 0
                               THEN "run" ELSE s[z]
  BY <1>5 DEF Wake
<1>8. st' = [u EXCEPT ![x] = "none"]
  BY <1>2, <1>5
<1>9. /\ \A z \in Thread : st'[z] = IF z = x THEN "none" ELSE u[z]
      /\ st' \in [Thread -> States]
  BY <1>6, <1>8 DEF States
<1>10. \A z \in Thread : z # x =>
         \/ st'[z] = st[z]
         \/ z[1] = p /\ st[z] = "tidexit" /\ wh[z] = x[2] /\ st'[z] = "run"
         \/ z[1] = p /\ st[z] = "tidmain" /\ LastSecondary(p) /\ st'[z] = "run"
  BY <1>4, <1>7, <1>9
<1>11. /\ \A z \in Thread : z # x /\ z[1] = p /\ st[z] = "tidexit" /\ wh[z] = x[2] => st'[z] = "run"
       /\ \A z \in Thread : z # x /\ z[1] = p /\ st[z] = "tidmain" /\ LastSecondary(p) => st'[z] = "run"
       /\ \A z \in Thread : z # x /\ st[z] = "tidmain" /\ ~LastSecondary(p) => st'[z] = "tidmain"
  <2>1. \A z \in Thread : st[z] = "tidmain" => wh[z] = 0
    BY DEF PInv, ThreadInv, ThreadOK
  <2>2. QED
    BY <1>4, <1>7, <1>9, <2>1
<1>12. \A z \in Thread : wh'[z] = IF st'[z] \in Waits THEN wh[z] ELSE 0
  BY <1>2 DEF Handles
<1>13. /\ \A z \in Thread : pc'[z] = IF z = x THEN "prog" ELSE pc[z]
       /\ \A z \in Thread : tgt'[z] = IF z = x THEN None ELSE tgt[z]
       /\ \A z \in Thread : info'[z] = IF z = x THEN None ELSE info[z]
       /\ \A z \in Thread : todo'[z] = IF z = x THEN Clean ELSE todo[z]
  BY <1>2 DEF Reset
<1>14. p \in Used /\ p \in Pd /\ st[x] # "none"
  BY <1>2, AliveUsed
<1>15. \A q \in Pd : cnt'[q] = IF q = p THEN cnt[q] - 1 ELSE cnt[q]
  BY <1>2, <1>3 DEF Types
<1>16. \A z \in Thread : z # x => (st'[z] = "none" <=> st[z] = "none")
  BY <1>10
<1>17. /\ BlockInv' /\ Used' = Used
       /\ \A q \in Pd : q # p => Slots(q)' = Slots(q)
       /\ cnt[p] - 1 \in Nat \ {0} /\ cnt[p] \in Nat
  <2>1. st'[x] = "none"
    BY <1>9
  <2>2. BlockInv
    BY DEF PInv
  <2>3. cnt[p] \in Nat
    BY <1>3, <1>14 DEF Types
  <2> HIDE DEF p
  <2>4. QED
    BY <1>2, <1>3, <1>14, <1>15, <1>16, <2>1, <2>2, <2>3, SlotWent DEF p
<1>18. \A q \in Pd : Main(q) \in Thread /\ Main(q) # x /\ (Main(q)[1] = p => q = p)
  BY ThreadFacts
<1>19. \A q \in Pd : q # p => st'[Main(q)] = st[Main(q)]
  BY <1>10, <1>18
<1>20. \A q \in Pd : st'[Main(q)] = "gone" <=> st[Main(q)] = "gone"
  BY <1>10, <1>18
<1>21. \A q \in Pd : Heir(q)' <=> Heir(q)
  BY <1>2, <1>17 DEF Heir
<1>22. Types'
  <2>1. cnt' \in [Pd -> Nat]
    <3>1. cnt[p] - 1 \in Nat
      BY <1>17
    <3>2. QED
      BY <1>2, <1>3, <3>1 DEF Types
  <2>2. wh' \in [Thread -> 0..(MaxPid + MaxTid)]
    <3>1. \A z \in Thread : wh'[z] \in 0..(MaxPid + MaxTid)
      BY <1>3, <1>12, PidNat DEF Types
    <3>2. wh' = [z \in Thread |-> IF st'[z] \in Waits THEN wh[z] ELSE 0]
      BY <1>2 DEF Handles
    <3>3. QED
      BY <3>1, <3>2
  <2>3. todo' \in [Thread -> [pid : 0..MaxPid, tids : Seq(Tid)]]
    <3>1. 0 \in 0..MaxPid /\ <<>> \in Seq(Tid)
      BY <1>3, PidNat
    <3>2. Clean \in [pid : 0..MaxPid, tids : Seq(Tid)]
      BY <3>1 DEF Clean
    <3>3. QED
      BY <1>2, <1>3, <3>2 DEF Reset, Types
  <2>4. /\ pc' \in [Thread -> PCs] /\ tgt' \in [Thread -> Pd \cup {None}]
        /\ info' \in [Thread -> Pd \cup {None}]
    BY <1>2, <1>3 DEF Reset, Types, PCs
  <2>5. QED
    BY <1>2, <1>3, <1>9, <2>1, <2>2, <2>3, <2>4 DEF Types
<1>23. RootInv'
  BY <1>2, <1>13, <1>17, <1>18, <1>20, ThreadFacts DEF PInv, RootInv
<1>24. ThreadInv'
  <2>1. SUFFICES ASSUME NEW z \in Thread PROVE ThreadOK(z)'
    BY DEF ThreadInv
  <2>2. ThreadOK(z)
    BY DEF PInv, ThreadInv
  <2>3. CASE z = x
    BY <1>9, <1>12, <1>13, <2>3 DEF ThreadOK, Waits
  <2>4. CASE z # x
    <3>1. pc'[z] = pc[z] /\ tgt'[z] = tgt[z] /\ info'[z] = info[z] /\ z[1] \in Pd
      BY <1>13, <2>4, ThreadFacts
    <3>2. st'[z] \in Waits => st'[z] = st[z] /\ wh'[z] = wh[z]
      BY <1>10, <1>12, <2>4 DEF Waits
    <3>3. st'[z] = "tidexit" => pc'[<<z[1], wh'[z]>>] = "exit"
      <4>1. HAVE st'[z] = "tidexit"
      <4>2. st[z] = "tidexit" /\ wh'[z] = wh[z] /\ ~(z[1] = p /\ wh[z] = x[2])
        BY <1>11, <2>4, <3>2, <4>1 DEF Waits
      <4>3. <<z[1], wh[z]>> \in Thread /\ <<z[1], wh[z]>> # x /\ pc[<<z[1], wh[z]>>] = "exit"
        BY <2>2, <4>2, ThreadFacts DEF ThreadOK
      <4>4. QED
        BY <1>13, <4>2, <4>3
    <3>4. st'[z] = "waitlnch" => /\ z[2] = 1 /\ pc'[z] = "prog" /\ cnt'[z[1]] = 1
                                 /\ \E q \in Used : pid[q] = wh'[z] /\ st'[Main(q)] # "gone"
      <4>1. HAVE st'[z] = "waitlnch"
      <4>2. st[z] = "waitlnch" /\ wh'[z] = wh[z]
        BY <3>2, <4>1 DEF Waits
      <4>3. z[2] = 1 /\ pc[z] = "prog" /\ cnt[z[1]] = 1 /\ z[1] # p
        BY <1>17, <2>2, <4>2 DEF ThreadOK
      <4>4. PICK q \in Used : pid[q] = wh[z] /\ st[Main(q)] # "gone"
        BY <2>2, <4>2 DEF ThreadOK
      <4>5. st'[Main(q)] # "gone"
        BY <1>20, <4>4 DEF Used
      <4>6. QED
        BY <1>15, <3>1, <4>2, <4>3, <4>4, <4>5
    <3>5. pc[z] = "main2" => z[2] = 1 /\ (st'[z] = "tidmain" <=> cnt'[z[1]] > 1)
      <4>1. HAVE pc[z] = "main2"
      <4>2. z[2] = 1 /\ (st[z] = "tidmain" <=> cnt[z[1]] > 1)
        BY <2>2, <4>1 DEF ThreadOK
      <4>3. CASE z[1] # p
        BY <1>10, <1>15, <2>4, <3>1, <4>2, <4>3
      <4>4. CASE z[1] = p /\ cnt[p] = 2
        <5>1. st[z] = "tidmain" /\ LastSecondary(p) /\ cnt'[p] = 1
          BY <1>14, <1>15, <4>2, <4>4 DEF LastSecondary
        <5>2. st'[z] = "run"
          BY <1>11, <2>4, <4>4, <5>1
        <5>3. QED
          BY <4>2, <4>4, <5>1, <5>2
      <4>5. CASE z[1] = p /\ cnt[p] # 2
        <5>1. cnt[p] > 2 /\ cnt'[p] > 1
          BY <1>14, <1>15, <1>17, <4>5
        <5>2. st[z] = "tidmain" /\ ~LastSecondary(p)
          BY <1>17, <4>2, <4>5, <5>1 DEF LastSecondary
        <5>3. st'[z] = "tidmain"
          BY <1>11, <2>4, <5>2
        <5>4. QED
          BY <4>2, <4>5, <5>1, <5>3
      <4>6. QED
        BY <4>3, <4>4, <4>5
    <3>6. (st'[z] = "none" <=> st[z] = "none") /\ (st'[z] = "gone" => st[z] = "gone")
      BY <1>10, <2>4
    <3>7. st'[z] \notin Waits => wh'[z] = 0
      BY <1>12
    <3>8. QED
      BY <1>17, <2>2, <3>1, <3>2, <3>3, <3>4, <3>5, <3>6, <3>7, <1>2 DEF ThreadOK, Waits
  <2>5. QED
    BY <2>3, <2>4
<1>25. StopInv' /\ FlagInv'
  BY <1>2, <1>13, <1>17 DEF PInv, StopInv, StopOK, FlagInv, FlagOK
<1>26. LaunchInv'
  <2>1. SUFFICES ASSUME NEW z \in Thread, pc'[z] = "launch" PROVE LaunchOK(z)'
    BY DEF LaunchInv, LaunchOK
  <2>2. z # x /\ pc[z] = "launch" /\ LaunchOK(z)
    BY <1>13, <2>1 DEF PInv, LaunchInv
  <2>3. PICK r \in Pd : r = tgt[z] /\ r \in Used /\ cnt[r] = 1 /\ st[Main(r)] = "susp" /\ pc[Main(r)] = "prog"
    BY <2>2 DEF LaunchOK, Used
  <2>4. r # p
    BY <1>17, <2>3
  <2>5. /\ st'[Main(r)] = "susp" /\ cnt'[r] = 1 /\ (Heir(r)' <=> Heir(r)) /\ pc'[Main(r)] = "prog"
        /\ tgt'[z] = r /\ Caller(r)' = Caller(r)
    BY <1>2, <1>13, <1>15, <1>18, <1>19, <1>21, <2>2, <2>3, <2>4 DEF Caller
  <2>6. \A w \in Thread : pc'[w] = "launch" => pc[w] = "launch" /\ tgt'[w] = tgt[w]
    BY <1>13
  <2>7. QED
    BY <1>2, <1>17, <2>1, <2>2, <2>3, <2>5, <2>6 DEF LaunchOK
<1>27. ChildInv'
  <2>1. \A q \in Used : ChildOK(q)'
    <3>1. SUFFICES ASSUME NEW q \in Used, ptid[q] # 0 PROVE ChildOK(q)'
      BY <1>2 DEF ChildOK
    <3>2. ChildOK(q) /\ q \in Pd
      BY DEF PInv, ChildInv, Used
    <3>3. PICK c \in Thread : c = Caller(q)
      BY <3>1, <3>2 DEF ChildOK
    <3>4. pc[c] \in {"launch", "ret"} /\ c # x
      BY <1>2, <3>1, <3>2, <3>3 DEF ChildOK
    <3>5. st[c] # "tidexit" /\ st[c] # "tidmain"
      BY <3>4 DEF PInv, ThreadInv, ThreadOK
    <3>6. /\ st'[c] = st[c] /\ (st'[Main(q)] = "gone" <=> st[Main(q)] = "gone") /\ Caller(q)' = c
          /\ pc'[c] = pc[c] /\ tgt'[c] = tgt[c] /\ info'[c] = info[c]
      BY <1>2, <1>10, <1>13, <1>20, <3>2, <3>3, <3>4, <3>5 DEF Caller
    <3>7. Ended(Caller(q))' = Ended(c)
      BY <3>6 DEF Ended
    <3>8. st[c] = "childexec" => wh'[c] = wh[c]
      BY <1>12, <3>6 DEF Waits
    <3>9. QED
      BY <1>2, <3>1, <3>2, <3>3, <3>6, <3>7, <3>8 DEF ChildOK
  <2>2. \A z \in Thread : ReturnOK(z)'
    <3>1. SUFFICES ASSUME NEW z \in Thread, pc'[z] = "ret" PROVE ReturnOK(z)'
      BY DEF ReturnOK
    <3>2. z # x /\ pc[z] = "ret" /\ tgt'[z] = tgt[z] /\ info'[z] = info[z]
      BY <1>13, <3>1
    <3>3. PICK f : f = Ended(z) /\ Ended(z)' = f
      BY <3>2 DEF Ended
    <3>4. Caller(f)' = Caller(f) /\ Caller(Ended(z))' = Caller(f)'
      BY <1>2, <3>3 DEF Caller
    <3>5. QED
      BY <1>2, <1>17, <3>1, <3>2, <3>3, <3>4 DEF PInv, ChildInv, ReturnOK
  <2>3. QED
    BY <1>17, <2>1, <2>2 DEF ChildInv
<1>28. SysqInv'
  BY <1>2, <1>17, <1>20 DEF PInv, SysqInv
<1>29. HeirInv'
  <2>1. SUFFICES ASSUME NEW q \in Used, Heir(q)' PROVE HeirOK(q)'
    BY <1>17 DEF HeirInv, HeirOK
  <2>2. q \in Pd /\ Heir(q) /\ HeirOK(q)
    BY <1>21, <2>1 DEF Used, PInv, HeirInv
  <2>3. q # p
    BY <1>17, <2>2 DEF HeirOK
  <2>4. st'[Main(q)] = st[Main(q)] /\ pc'[Main(q)] = pc[Main(q)] /\ cnt'[q] = cnt[q]
    BY <1>13, <1>15, <1>18, <1>19, <2>2, <2>3
  <2>5. QED
    BY <2>2, <2>4 DEF HeirOK
<1>30. QED
  BY <1>17, <1>22, <1>23, <1>24, <1>25, <1>26, <1>27, <1>28, <1>29 DEF PInv

(* The main thread waits for the others.                                   *)
LEMMA ExitWaits ==
  ASSUME PInv, NEW x \in Thread, Exit(x), x[2] = 1, cnt[x[1]] > 1
  PROVE  PInv'
<1> DEFINE p == x[1]
<1>1. PICK s : s = Wake(st, p, "tidexit", x[2])
  OBVIOUS
<1>2. /\ st[x] = "run" /\ pc[x] \in {"prog", "exit"} /\ p # Root
      /\ st' = [s EXCEPT ![x] = "tidmain"] /\ pc' = [pc EXCEPT ![x] = "main2"]
      /\ Handles(wh) /\ lock' = None
      /\ UNCHANGED <<pid, parent, ptid, flags, cnt, tgt, info, todo, sysq, rpid, nextpid, trap>>
  BY <1>1 DEF Exit, Runs, procVars
<1>3. Types
  BY DEF PInv
<1>4. \A z \in Thread : s[z] = IF z[1] = p /\ st[z] = "tidexit" /\ wh[z] = x[2] THEN "run" ELSE st[z]
  BY <1>1 DEF Wake
<1>5. s \in [Thread -> States]
  <2>1. s = [z \in Thread |-> IF z[1] = p /\ st[z] = "tidexit" /\ wh[z] = x[2] THEN "run" ELSE st[z]]
    BY <1>1 DEF Wake
  <2>2. \A z \in Thread : s[z] \in States
    BY <1>3, <1>4 DEF Types, States
  <2>3. QED
    BY <2>1, <2>2
<1>6. /\ \A z \in Thread : st'[z] = IF z = x THEN "tidmain" ELSE s[z]
      /\ st' \in [Thread -> States]
      /\ \A z \in Thread : pc'[z] = IF z = x THEN "main2" ELSE pc[z]
      /\ pc' \in [Thread -> PCs]
  BY <1>2, <1>3, <1>5 DEF States, Types, PCs
<1>7. \A z \in Thread : z # x =>
         IF z[1] = p /\ st[z] = "tidexit" /\ wh[z] = x[2] THEN st'[z] = "run" ELSE st'[z] = st[z]
  BY <1>4, <1>6
<1>8. \A z \in Thread : wh'[z] = IF st'[z] \in Waits THEN wh[z] ELSE 0
  BY <1>2 DEF Handles
<1>9. p \in Used /\ p \in Pd /\ x = Main(p)
  BY <1>2, AliveUsed, ThreadFacts
<1>10. \A z \in Thread : /\ st'[z] = "none" <=> st[z] = "none"
                         /\ st'[z] = "gone" <=> st[z] = "gone"
  BY <1>2, <1>6, <1>7
<1>11. BlockInv' /\ Used' = Used /\ \A q \in Pd : Slots(q)' = Slots(q)
  <2>1. nextpid \in Nat /\ pid \in [Pd -> Nat] /\ nextpid' \in Nat /\ nextpid' >= nextpid
    BY <1>2, <1>3, PidNat
  <2>2. QED
    BY <1>2, <1>10, <2>1, BlockKept DEF PInv
<1>12. \A q \in Pd : Main(q) \in Thread /\ (Main(q) = x <=> q = p)
  BY <1>9, ThreadFacts
<1>13. \A q \in Pd : Heir(q)' <=> Heir(q)
  BY <1>2, <1>11 DEF Heir
<1>14. Types'
  <2>1. wh' \in [Thread -> 0..(MaxPid + MaxTid)]
    <3>1. \A z \in Thread : wh'[z] \in 0..(MaxPid + MaxTid)
      BY <1>3, <1>8, PidNat DEF Types
    <3>2. wh' = [z \in Thread |-> IF st'[z] \in Waits THEN wh[z] ELSE 0]
      BY <1>2 DEF Handles
    <3>3. QED
      BY <3>1, <3>2
  <2>2. QED
    BY <1>2, <1>3, <1>6, <2>1 DEF Types
<1>15. RootInv'
  <2>1. st'[Main(Root)] # "gone" /\ pc'[Main(Root)] = pc[Main(Root)]
    BY <1>2, <1>6, <1>10, <1>12, ThreadFacts DEF PInv, RootInv
  <2>2. QED
    BY <1>2, <1>11, <2>1, ThreadFacts DEF PInv, RootInv
<1>16. ThreadInv'
  <2>1. SUFFICES ASSUME NEW z \in Thread PROVE ThreadOK(z)'
    BY DEF ThreadInv
  <2>2. ThreadOK(z)
    BY DEF PInv, ThreadInv
  <2>3. CASE z = x
    <3>1. st'[x] = "tidmain" /\ pc'[x] = "main2" /\ wh'[x] = 0 /\ cnt'[x[1]] > 1
      BY <1>2, <1>6, <1>8, <2>2, <2>3 DEF ThreadOK, Waits
    <3>2. QED
      BY <2>3, <3>1 DEF ThreadOK, Waits
  <2>4. CASE z # x
    <3>1. pc'[z] = pc[z] /\ z[1] \in Pd
      BY <1>6, <2>4, ThreadFacts
    <3>2. st'[z] \in Waits => st'[z] = st[z] /\ wh'[z] = wh[z]
      BY <1>7, <1>8, <2>4 DEF Waits
    <3>3. st'[z] = "tidexit" => pc'[<<z[1], wh'[z]>>] = "exit"
      <4>1. HAVE st'[z] = "tidexit"
      <4>2. st[z] = "tidexit" /\ wh'[z] = wh[z] /\ ~(z[1] = p /\ wh[z] = x[2])
        BY <1>7, <2>4, <3>2, <4>1 DEF Waits
      <4>3. <<z[1], wh[z]>> \in Thread /\ <<z[1], wh[z]>> # x /\ pc[<<z[1], wh[z]>>] = "exit"
        BY <2>2, <4>2, ThreadFacts DEF ThreadOK
      <4>4. QED
        BY <1>6, <4>2, <4>3
    <3>4. st'[z] = "waitlnch" => \E q \in Used : pid[q] = wh'[z] /\ st'[Main(q)] # "gone"
      <4>1. HAVE st'[z] = "waitlnch"
      <4>2. st[z] = "waitlnch" /\ wh'[z] = wh[z]
        BY <3>2, <4>1 DEF Waits
      <4>3. PICK q \in Used : pid[q] = wh[z] /\ st[Main(q)] # "gone"
        BY <2>2, <4>2 DEF ThreadOK
      <4>4. st'[Main(q)] # "gone"
        BY <1>10, <1>12, <4>3 DEF Used
      <4>5. QED
        BY <4>2, <4>3, <4>4
    <3>5. st'[z] = "tidmain" <=> st[z] = "tidmain"
      BY <1>7, <2>4
    <3>6. st'[z] \notin Waits => wh'[z] = 0
      BY <1>8
    <3>7. QED
      BY <1>2, <1>10, <1>11, <2>2, <3>1, <3>2, <3>3, <3>4, <3>5, <3>6 DEF ThreadOK, Waits
  <2>5. QED
    BY <2>3, <2>4
<1>17. StopInv' /\ FlagInv'
  BY <1>2, <1>6, <1>11 DEF PInv, StopInv, StopOK, FlagInv, FlagOK
<1>18. LaunchInv'
  <2>1. SUFFICES ASSUME NEW z \in Thread, pc'[z] = "launch" PROVE LaunchOK(z)'
    BY DEF LaunchInv, LaunchOK
  <2>2. pc[z] = "launch" /\ LaunchOK(z)
    BY <1>6, <2>1 DEF PInv, LaunchInv
  <2>3. PICK r \in Pd : r = tgt[z] /\ r \in Used /\ cnt[r] = 1 /\ st[Main(r)] = "susp" /\ pc[Main(r)] = "prog"
    BY <2>2 DEF LaunchOK, Used
  <2>4. r # p
    BY <2>3
  <2>5. /\ st'[Main(r)] = "susp" /\ (Heir(r)' <=> Heir(r)) /\ pc'[Main(r)] = "prog"
        /\ tgt'[z] = r /\ Caller(r)' = Caller(r)
    BY <1>2, <1>6, <1>7, <1>12, <1>13, <2>3, <2>4 DEF Caller
  <2>6. \A w \in Thread : pc'[w] = "launch" => pc[w] = "launch"
    BY <1>6
  <2>7. QED
    BY <1>2, <1>11, <2>1, <2>2, <2>3, <2>5, <2>6 DEF LaunchOK
<1>19. ChildInv'
  <2>1. \A q \in Used : ChildOK(q)'
    <3>1. SUFFICES ASSUME NEW q \in Used, ptid[q] # 0 PROVE ChildOK(q)'
      BY <1>2 DEF ChildOK
    <3>2. ChildOK(q) /\ q \in Pd
      BY DEF PInv, ChildInv, Used
    <3>3. PICK c \in Thread : c = Caller(q)
      BY <3>1, <3>2 DEF ChildOK
    <3>4. pc[c] \in {"launch", "ret"} /\ c # x
      BY <1>2, <3>1, <3>2, <3>3 DEF ChildOK
    <3>5. st[c] # "tidexit"
      BY <3>4 DEF PInv, ThreadInv, ThreadOK
    <3>6. /\ st'[c] = st[c] /\ (st'[Main(q)] = "gone" <=> st[Main(q)] = "gone") /\ Caller(q)' = c
          /\ pc'[c] = pc[c]
      BY <1>2, <1>6, <1>7, <1>10, <1>12, <3>2, <3>3, <3>4, <3>5 DEF Caller
    <3>7. Ended(Caller(q))' = Ended(c)
      BY <1>2, <3>6 DEF Ended
    <3>8. st[c] = "childexec" => wh'[c] = wh[c]
      BY <1>8, <3>6 DEF Waits
    <3>9. QED
      BY <1>2, <3>1, <3>2, <3>3, <3>6, <3>7, <3>8 DEF ChildOK
  <2>2. \A z \in Thread : ReturnOK(z)'
    <3>1. SUFFICES ASSUME NEW z \in Thread, pc'[z] = "ret" PROVE ReturnOK(z)'
      BY DEF ReturnOK
    <3>2. pc[z] = "ret"
      BY <1>6, <3>1
    <3>3. PICK f : f = Ended(z) /\ Ended(z)' = f
      BY <1>2 DEF Ended
    <3>4. Caller(f)' = Caller(f) /\ Caller(Ended(z))' = Caller(f)'
      BY <1>2, <3>3 DEF Caller
    <3>5. QED
      BY <1>2, <1>11, <3>1, <3>2, <3>3, <3>4 DEF PInv, ChildInv, ReturnOK
  <2>3. QED
    BY <1>11, <2>1, <2>2 DEF ChildInv
<1>20. SysqInv'
  <2>1. \A q \in Pd : st'[Main(q)] = "gone" <=> st[Main(q)] = "gone"
    BY <1>10, <1>12
  <2>2. QED
    BY <1>2, <1>11, <2>1 DEF PInv, SysqInv
<1>21. HeirInv'
  <2>1. SUFFICES ASSUME NEW q \in Used, Heir(q)' PROVE HeirOK(q)'
    BY <1>11 DEF HeirInv, HeirOK
  <2>2. q \in Pd /\ Heir(q) /\ HeirOK(q)
    BY <1>13, <2>1 DEF Used, PInv, HeirInv
  <2>3. q # p
    BY <2>2 DEF HeirOK
  <2>4. st'[Main(q)] = st[Main(q)] /\ pc'[Main(q)] = pc[Main(q)]
    BY <1>6, <1>7, <1>12, <2>2, <2>3 DEF HeirOK
  <2>5. QED
    BY <1>2, <2>2, <2>4 DEF HeirOK
<1>22. QED
  BY <1>11, <1>14, <1>15, <1>16, <1>17, <1>18, <1>19, <1>20, <1>21 DEF PInv

(* SYSQ_SESSIONFREE is added at the end.                                   *)
LEMMA AppendIs ==
  ASSUME NEW q \in Seq(Pd), NEW p \in Pd
  PROVE  /\ Append(q, p) \in Seq(Pd) /\ Len(Append(q, p)) = Len(q) + 1 /\ Len(q) \in Nat
         /\ Append(q, p)[Len(q) + 1] = p
         /\ \A i \in 1..Len(q) : Append(q, p)[i] = q[i]
OBVIOUS

LEMMA Posted ==
  ASSUME NEW q \in Seq(Pd), NEW p \in Pd, \A i \in 1..Len(q) : q[i] # p,
         \A i, j \in 1..Len(q) : q[i] = q[j] => i = j,
         NEW r, r = Append(q, p)
  PROVE  /\ r \in Seq(Pd)
         /\ \A i, j \in 1..Len(r) : r[i] = r[j] => i = j
         /\ \A e \in Pd : (\E i \in 1..Len(r) : r[i] = e)
                            <=> e = p \/ \E i \in 1..Len(q) : q[i] = e
<1>1. PICK n \in Nat : n = Len(q)
  BY AppendIs
<1>2. /\ r \in Seq(Pd) /\ Len(r) = n + 1 /\ r[n + 1] = p
      /\ \A i \in 1..n : r[i] = q[i]
  BY <1>1, AppendIs
<1>3. \A i \in 1..(n + 1) : i = n + 1 \/ i \in 1..n
  BY <1>1
<1>4. \A i \in 1..n : i \in 1..(n + 1) /\ i # n + 1
  BY <1>1
<1>5. n + 1 \in 1..(n + 1)
  BY <1>1
<1>6. QED
  BY <1>1, <1>2, <1>3, <1>4, <1>5

(* The last thread of a process ends: its caller goes on, or the service   *)
(* thread is asked to free it, and a process that waits for the end of its *)
(* launcher begins.                                                        *)
LEMMA ProcExitStep ==
  ASSUME PInv, NEW x \in Thread, x[2] = 1, cnt[x[1]] = 1, x[1] # Root,
         st[x] = "run", pc[x] \in {"prog", "exit", "main2"},
         ProcExit(x[1], st), Handles(wh), lock' \in Thread \cup {None},
         UNCHANGED <<procVars, cnt, tgt, info, todo, rpid, nextpid>>
  PROVE  PInv'
<1> DEFINE p == x[1]
<1>1. Types /\ UNCHANGED <<pid, parent, ptid, flags, cnt, tgt, info, todo, rpid, nextpid>>
  BY DEF PInv, procVars
<1>2. p \in Used /\ p \in Pd /\ x = Main(p)
  BY AliveUsed, ThreadFacts
<1>3. \A q \in Pd : Main(q) \in Thread /\ (Main(q) = x <=> q = p)
  BY <1>2, ThreadFacts
<1>4. ptid[p] # 0 => /\ Caller(p) \in Thread
                     /\ pc[Caller(p)] = "ret" /\ Ended(Caller(p)) = p
                     /\ st[Caller(p)] = "childexec" /\ wh[Caller(p)] = pid[p]
  <2>1. HAVE ptid[p] # 0
  <2>2. ChildOK(p)
    BY <1>2 DEF PInv, ChildInv
  <2>3. PICK c \in Thread : c = Caller(p)
    BY <2>1, <2>2 DEF ChildOK
  <2>4. ~(pc[c] = "launch" /\ tgt[c] = p)
    <3>1. SUFFICES ASSUME pc[c] = "launch", tgt[c] = p PROVE FALSE
      OBVIOUS
    <3>2. LaunchOK(c)
      BY DEF PInv, LaunchInv
    <3>3. st[Main(p)] = "susp"
      BY <3>1, <3>2 DEF LaunchOK
    <3>4. QED
      BY <1>2, <3>3
  <2>5. QED
    BY <1>2, <2>1, <2>2, <2>3, <2>4 DEF ChildOK
<1>5. ~CallerLost(p)
  BY <1>4 DEF CallerLost, Waits
<1>6. PICK g : g = [st EXCEPT ![x] = "gone"]
  OBVIOUS
<1>7. PICK r : r = Launches(g, pid[p])
  OBVIOUS
<1>8. /\ st' = IF ptid[p] = 0 THEN r ELSE [r EXCEPT ![Caller(p)] = "run"]
      /\ pc' = [pc EXCEPT ![x] = "main2"]
      /\ sysq' = Asked(p)
      /\ trap' = trap
  BY <1>2, <1>5, <1>6, <1>7 DEF ProcExit
<1>9. r \in [Thread -> States]
  <2>1. r = [z \in Thread |-> IF z[2] = 1 /\ g[z] = "waitlnch" /\ wh[z] = pid[p] /\ cnt[z[1]] = 1
                              THEN "run" ELSE g[z]]
    BY <1>7 DEF Launches
  <2>2. g \in [Thread -> States]
    BY <1>1, <1>6 DEF Types, States
  <2>3. QED
    BY <2>1, <2>2 DEF States
<1>10. \A z \in Thread : r[z] = IF z = x THEN "gone"
                                ELSE IF st[z] = "waitlnch" /\ wh[z] = pid[p] THEN "run" ELSE st[z]
  <2>1. \A z \in Thread : g[z] = IF z = x THEN "gone" ELSE st[z]
    BY <1>1, <1>6 DEF Types
  <2>2. \A z \in Thread : r[z] = IF z[2] = 1 /\ g[z] = "waitlnch" /\ wh[z] = pid[p] /\ cnt[z[1]] = 1
                                 THEN "run" ELSE g[z]
    BY <1>7 DEF Launches
  <2>3. \A z \in Thread : st[z] = "waitlnch" => z[2] = 1 /\ cnt[z[1]] = 1
    BY DEF PInv, ThreadInv, ThreadOK
  <2>4. QED
    BY <2>1, <2>2, <2>3
<1>11. /\ \A z \in Thread : st'[z] = IF ptid[p] # 0 /\ z = Caller(p) THEN "run" ELSE r[z]
       /\ st' \in [Thread -> States]
  BY <1>4, <1>8, <1>9 DEF States
<1>12. /\ \A z \in Thread : pc'[z] = IF z = x THEN "main2" ELSE pc[z]
       /\ pc' \in [Thread -> PCs]
  BY <1>1, <1>8 DEF Types, PCs
<1>13. /\ st'[x] = "gone"
       /\ ptid[p] # 0 => st'[Caller(p)] = "run" /\ Caller(p) # x
       /\ \A z \in Thread : z # x =>
            \/ st'[z] = st[z] /\ (st[z] = "waitlnch" => wh[z] # pid[p])
            \/ st[z] = "waitlnch" /\ wh[z] = pid[p] /\ st'[z] = "run"
            \/ ptid[p] # 0 /\ z = Caller(p) /\ st[z] = "childexec" /\ st'[z] = "run"
  BY <1>4, <1>10, <1>11
<1>14. \A z \in Thread : wh'[z] = IF st'[z] \in Waits THEN wh[z] ELSE 0
  BY DEF Handles
<1>15. /\ \A z \in Thread : st'[z] = "none" <=> st[z] = "none"
       /\ \A z \in Thread : st'[z] = "gone" <=> st[z] = "gone" \/ z = x
       /\ \A z \in Thread : st[z] = "susp" => st'[z] = "susp"
  BY <1>13
<1>16. BlockInv' /\ Used' = Used /\ \A q \in Pd : Slots(q)' = Slots(q)
  <2>1. nextpid \in Nat /\ pid \in [Pd -> Nat] /\ nextpid' \in Nat /\ nextpid' >= nextpid
    BY <1>1, PidNat
  <2>2. QED
    BY <1>1, <1>15, <2>1, BlockKept DEF PInv
<1>17. \A q \in Pd : Heir(q)' <=> Heir(q)
  BY <1>1, <1>16 DEF Heir
<1>18. /\ sysq' \in Seq(Pd)
       /\ \A i, j \in 1..Len(sysq') : sysq'[i] = sysq'[j] => i = j
       /\ \A q \in Pd : (\E i \in 1..Len(sysq') : sysq'[i] = q)
                          <=> (q = p /\ ptid[p] = 0) \/ \E i \in 1..Len(sysq) : sysq[i] = q
  <2>1. /\ sysq \in Seq(Pd)
        /\ \A i, j \in 1..Len(sysq) : sysq[i] = sysq[j] => i = j
        /\ \A i \in 1..Len(sysq) : sysq[i] # p
    <3>1. st[Main(p)] # "gone" /\ SysqInv
      BY <1>2 DEF PInv
    <3>2. ~ \E i \in 1..Len(sysq) : sysq[i] = p
      BY <1>2, <3>1 DEF SysqInv
    <3>3. QED
      BY <1>1, <3>1, <3>2 DEF Types, SysqInv
  <2>2. ptid[p] = 0 <=> "nopwait" \in flags[p]
    BY <1>2 DEF PInv, FlagInv, FlagOK
  <2>3. CASE ptid[p] = 0
    <3>1. sysq' = Append(sysq, p)
      BY <1>8, <2>2, <2>3 DEF Asked
    <3>2. QED
      BY <1>2, <2>1, <2>3, <3>1, Posted
  <2>4. CASE ptid[p] # 0
    <3>1. sysq' = sysq
      BY <1>8, <2>2, <2>4 DEF Asked
    <3>2. QED
      BY <2>1, <2>4, <3>1
  <2>5. QED
    BY <2>3, <2>4
<1>19. Types'
  <2>1. wh' \in [Thread -> 0..(MaxPid + MaxTid)]
    <3>1. \A z \in Thread : wh'[z] \in 0..(MaxPid + MaxTid)
      BY <1>1, <1>14, PidNat DEF Types
    <3>2. wh' = [z \in Thread |-> IF st'[z] \in Waits THEN wh[z] ELSE 0]
      BY DEF Handles
    <3>3. QED
      BY <3>1, <3>2
  <2>2. sysq' \in Seq(Pd) /\ trap' = FALSE
    BY <1>1, <1>8, <1>18 DEF Types
  <2>3. st' \in [Thread -> States] /\ pc' \in [Thread -> PCs]
    BY <1>11, <1>12
  <2>4. QED
    BY <1>1, <2>1, <2>2, <2>3 DEF Types
<1>20. RootInv'
  <2>1. st'[Main(Root)] # "gone" /\ pc'[Main(Root)] = pc[Main(Root)]
    BY <1>3, <1>12, <1>15, ThreadFacts DEF PInv, RootInv
  <2>2. QED
    BY <1>1, <1>16, <2>1, ThreadFacts DEF PInv, RootInv
<1>21. ThreadInv'
  <2>1. SUFFICES ASSUME NEW z \in Thread PROVE ThreadOK(z)'
    BY DEF ThreadInv
  <2>2. ThreadOK(z)
    BY DEF PInv, ThreadInv
  <2>3. CASE z = x
    <3>1. st'[x] = "gone" /\ pc'[x] = "main2" /\ wh'[x] = 0 /\ cnt'[x[1]] = 1
      BY <1>1, <1>12, <1>13, <1>14 DEF Waits
    <3>2. QED
      BY <2>3, <3>1 DEF ThreadOK, Waits
  <2>4. CASE z # x
    <3>1. pc'[z] = pc[z] /\ z[1] \in Pd
      BY <1>12, <2>4, ThreadFacts
    <3>2. st'[z] \in Waits => st'[z] = st[z] /\ wh'[z] = wh[z]
      BY <1>13, <1>14, <2>4 DEF Waits
    <3>3. st'[z] = "tidexit" => pc'[<<z[1], wh'[z]>>] = "exit"
      <4>1. HAVE st'[z] = "tidexit"
      <4>2. st[z] = "tidexit" /\ wh'[z] = wh[z]
        BY <3>2, <4>1 DEF Waits
      <4>3. <<z[1], wh[z]>> \in Thread /\ pc[<<z[1], wh[z]>>] = "exit"
        BY <2>2, <4>2, ThreadFacts DEF ThreadOK
      <4>4. z[1] # p
        <5>1. SUFFICES ASSUME z[1] = p PROVE FALSE
          OBVIOUS
        <5>2. z = Main(p)
          BY <1>1, <1>2, <4>2, <5>1, CntFacts DEF PInv
        <5>3. QED
          BY <1>2, <2>4, <5>2
      <4>5. <<z[1], wh[z]>> # x
        BY <4>4
      <4>6. QED
        BY <1>12, <4>2, <4>3, <4>5
    <3>4. st'[z] = "waitlnch" => \E q \in Used : pid[q] = wh'[z] /\ st'[Main(q)] # "gone"
      <4>1. HAVE st'[z] = "waitlnch"
      <4>2. st[z] = "waitlnch" /\ wh'[z] = wh[z] /\ wh[z] # pid[p]
        BY <1>13, <2>4, <3>2, <4>1 DEF Waits
      <4>3. PICK q \in Used : pid[q] = wh[z] /\ st[Main(q)] # "gone"
        BY <2>2, <4>2 DEF ThreadOK
      <4>4. st'[Main(q)] # "gone"
        BY <1>3, <1>15, <4>2, <4>3 DEF Used
      <4>5. QED
        BY <4>2, <4>3, <4>4
    <3>5. st'[z] = "tidmain" <=> st[z] = "tidmain"
      BY <1>13, <2>4
    <3>6. st'[z] \notin Waits => wh'[z] = 0
      BY <1>14
    <3>7. st'[z] = "gone" => st[z] = "gone"
      BY <1>15, <2>4
    <3>8. QED
      BY <1>1, <1>15, <1>16, <2>2, <3>1, <3>2, <3>3, <3>4, <3>5, <3>6, <3>7 DEF ThreadOK, Waits
  <2>5. QED
    BY <2>3, <2>4
<1>22. StopInv' /\ FlagInv'
  BY <1>1, <1>12, <1>16 DEF PInv, StopInv, StopOK, FlagInv, FlagOK
<1>23. LaunchInv'
  <2>1. SUFFICES ASSUME NEW z \in Thread, pc'[z] = "launch" PROVE LaunchOK(z)'
    BY DEF LaunchInv, LaunchOK
  <2>2. pc[z] = "launch" /\ LaunchOK(z)
    BY <1>12, <2>1 DEF PInv, LaunchInv
  <2>3. PICK q \in Pd : q = tgt[z] /\ q \in Used /\ cnt[q] = 1 /\ st[Main(q)] = "susp" /\ pc[Main(q)] = "prog"
    BY <2>2 DEF LaunchOK, Used
  <2>4. q # p
    BY <1>2, <2>3
  <2>5. /\ st'[Main(q)] = "susp" /\ (Heir(q)' <=> Heir(q)) /\ pc'[Main(q)] = "prog"
        /\ tgt'[z] = q /\ Caller(q)' = Caller(q)
    BY <1>1, <1>3, <1>12, <1>15, <1>17, <2>3, <2>4 DEF Caller
  <2>6. \A w \in Thread : pc'[w] = "launch" => pc[w] = "launch"
    BY <1>12
  <2>7. QED
    BY <1>1, <1>16, <2>1, <2>2, <2>3, <2>5, <2>6 DEF LaunchOK
<1>24. ChildInv'
  <2>1. \A q \in Used : ChildOK(q)'
    <3>1. SUFFICES ASSUME NEW q \in Used, ptid[q] # 0 PROVE ChildOK(q)'
      BY <1>1 DEF ChildOK
    <3>2. ChildOK(q) /\ q \in Pd
      BY DEF PInv, ChildInv, Used
    <3>3. PICK c \in Thread : c = Caller(q)
      BY <3>1, <3>2 DEF ChildOK
    <3>4. pc[c] \in {"launch", "ret"} /\ c # x /\ (pc[c] = "ret" => Ended(c) = q)
      BY <3>1, <3>2, <3>3 DEF ChildOK
    <3>5. Caller(q)' = c /\ pc'[c] = pc[c]
      BY <1>1, <1>12, <3>3, <3>4 DEF Caller
    <3>6. Ended(Caller(q))' = Ended(c)
      BY <1>1, <3>5 DEF Ended
    <3>7. CASE q = p
      BY <1>1, <1>2, <1>4, <1>13, <3>1, <3>3, <3>5, <3>6, <3>7 DEF ChildOK
    <3>8. CASE q # p
      <4>1. st[c] # "waitlnch"
        BY <3>4 DEF PInv, ThreadInv, ThreadOK
      <4>2. st'[c] = st[c]
        BY <1>4, <1>13, <3>4, <3>8, <4>1
      <4>3. st'[Main(q)] = "gone" <=> st[Main(q)] = "gone"
        BY <1>3, <1>15, <3>2, <3>8
      <4>4. st[c] = "childexec" => wh'[c] = wh[c]
        BY <1>14, <4>2 DEF Waits
      <4>5. QED
        BY <1>1, <3>1, <3>2, <3>3, <3>5, <3>6, <4>2, <4>3, <4>4 DEF ChildOK
    <3>9. QED
      BY <3>7, <3>8
  <2>2. \A z \in Thread : ReturnOK(z)'
    <3>1. SUFFICES ASSUME NEW z \in Thread, pc'[z] = "ret" PROVE ReturnOK(z)'
      BY DEF ReturnOK
    <3>2. pc[z] = "ret"
      BY <1>12, <3>1
    <3>3. PICK f : f = Ended(z) /\ Ended(z)' = f
      BY <1>1 DEF Ended
    <3>4. Caller(f)' = Caller(f) /\ Caller(Ended(z))' = Caller(f)'
      BY <1>1, <3>3 DEF Caller
    <3>5. QED
      BY <1>1, <1>16, <3>1, <3>2, <3>3, <3>4 DEF PInv, ChildInv, ReturnOK
  <2>3. QED
    BY <1>16, <2>1, <2>2 DEF ChildInv
<1>25. SysqInv'
  <2>1. \A q \in Pd : st'[Main(q)] = "gone" <=> st[Main(q)] = "gone" \/ q = p
    BY <1>3, <1>15
  <2>2. st[Main(p)] # "gone"
    BY <1>2
  <2>3. QED
    BY <1>1, <1>2, <1>16, <1>18, <2>1, <2>2 DEF PInv, SysqInv
<1>26. HeirInv'
  <2>1. SUFFICES ASSUME NEW q \in Used, Heir(q)' PROVE HeirOK(q)'
    BY <1>16 DEF HeirInv, HeirOK
  <2>2. q \in Pd /\ Heir(q) /\ HeirOK(q)
    BY <1>17, <2>1 DEF Used, PInv, HeirInv
  <2>3. CASE q = p
    BY <1>1, <1>2, <1>12, <1>13, <2>2, <2>3 DEF HeirOK
  <2>4. CASE q # p
    <3>1. st'[Main(q)] = st[Main(q)] /\ pc'[Main(q)] = pc[Main(q)]
      BY <1>3, <1>12, <1>13, <2>2, <2>4 DEF HeirOK
    <3>2. QED
      BY <1>1, <2>2, <3>1 DEF HeirOK
  <2>5. QED
    BY <2>3, <2>4
<1>27. QED
  BY <1>16, <1>19, <1>20, <1>21, <1>22, <1>23, <1>24, <1>25, <1>26 DEF PInv

LEMMA ExitStep ==
  ASSUME PInv, NEW x \in Thread, Exit(x)
  PROVE  PInv'
<1>1. CASE x[2] # 1
  BY <1>1, ExitSecondary
<1>2. CASE x[2] = 1 /\ cnt[x[1]] > 1
  BY <1>2, ExitWaits
<1>3. CASE x[2] = 1 /\ ~(cnt[x[1]] > 1)
  <2>1. PICK s : s = Wake(st, x[1], "tidexit", x[2])
    OBVIOUS
  <2>2. /\ st[x] = "run" /\ pc[x] \in {"prog", "exit"} /\ x[1] # Root
        /\ ProcExit(x[1], s) /\ Handles(wh) /\ lock' = None
        /\ UNCHANGED <<procVars, cnt, tgt, info, todo, rpid, nextpid>>
    BY <1>3, <2>1 DEF Exit, Runs
  <2>3. x[1] \in Used /\ x = Main(x[1])
    BY <1>3, <2>2, AliveUsed, ThreadFacts
  <2>4. cnt[x[1]] \in Nat \ {0} /\ (cnt[x[1]] = 1 <=>
           \A z \in Thread : z[1] = x[1] /\ st[z] # "none" => z = Main(x[1]))
    BY <2>3, CntFacts DEF PInv
  <2>5. cnt[x[1]] = 1
    BY <1>3, <2>4
  <2>6. \A z \in Thread : ~(z[1] = x[1] /\ st[z] = "tidexit")
    BY <2>2, <2>3, <2>4, <2>5
  <2>7. s = [z \in Thread |-> st[z]]
    BY <2>1, <2>6 DEF Wake
  <2>8. s = st
    BY <2>7 DEF PInv, Types
  <2>9. ProcExit(x[1], st)
    BY <2>2, <2>8
  <2>10. QED
    BY <1>3, <2>2, <2>5, <2>9, ProcExitStep
<1>4. QED
  BY <1>1, <1>2, <1>3

(* The main thread behind its wait                                         *)
LEMMA ExitMainStep ==
  ASSUME PInv, NEW x \in Thread, ExitMain(x)
  PROVE  PInv'
<1>1. /\ st[x] = "run" /\ pc[x] = "main2" /\ ProcExit(x[1], st) /\ Handles(wh)
      /\ UNCHANGED <<procVars, cnt, tgt, info, todo, lock, rpid, nextpid>>
  BY DEF ExitMain, Runs
<1>2. x[2] = 1 /\ ~(cnt[x[1]] > 1)
  BY <1>1 DEF PInv, ThreadInv, ThreadOK
<1>3. x[1] \in Used /\ x = Main(x[1])
  BY <1>1, <1>2, AliveUsed, ThreadFacts
<1>4. cnt[x[1]] \in Nat \ {0}
  BY <1>3, CntFacts DEF PInv
<1>5. x[1] # Root
  BY <1>1, <1>3 DEF PInv, RootInv
<1>6. lock' \in Thread \cup {None}
  BY <1>1 DEF PInv, Types
<1>7. cnt[x[1]] = 1
  BY <1>2, <1>4
<1>8. QED
  BY <1>1, <1>2, <1>5, <1>6, <1>7, ProcExitStep

(***************************************************************************)
(* mt_exit()                                                               *)
(***************************************************************************)
(* A process with one thread has it in slot 1.                             *)
LEMMA OneSlot ==
  ASSUME Types, BlockInv, NEW p \in Used, cnt[p] = 1
  PROVE  Slots(p) = {1}
<1>1. p \in Pd
  BY DEF Used
<1>2. \A z \in Thread : z[1] = p /\ st[z] # "none" => z = Main(p)
  BY CntFacts
<1>3. ASSUME NEW t \in Slots(p)
      PROVE  t = 1
  <2>1. t \in Tid /\ <<p, t>> \in Thread /\ <<p, t>>[1] = p /\ <<p, t>>[2] = t /\ st[<<p, t>>] # "none"
    BY <1>1, ThreadFacts DEF Slots
  <2>2. <<p, t>> = Main(p)
    BY <1>2, <2>1
  <2>3. QED
    BY <1>1, <2>1, <2>2, ThreadFacts
<1>4. 1 \in Slots(p)
  BY <1>1 DEF BlockInv
<1>5. QED
  BY <1>3, <1>4

(* A process that has ended is freed, and with it the slot of its main     *)
(* thread; its caller, if it has one, leaves mod_execcall().               *)
LEMMA ReapStep ==
  ASSUME PInv, NEW e \in Used \ {Root}, st[Main(e)] = "gone",
         NEW X \in SUBSET Thread, Main(e) \in X, ptid[e] # 0 => Caller(e) \in X,
         \A z \in X : z = Main(e) \/ (ptid[e] # 0 /\ z = Caller(e) /\ pc[z] = "ret" /\ st[z] = "run"),
         SoundTree(e), Reaped(e), Reset(X), UNCHANGED <<wh, lock, nextpid>>,
         sysq' \in Seq(Pd), \A i, j \in 1..Len(sysq') : sysq'[i] = sysq'[j] => i = j,
         \A q \in Pd : (\E i \in 1..Len(sysq') : sysq'[i] = q)
                         <=> q # e /\ \E i \in 1..Len(sysq) : sysq[i] = q,
         rpid' = IF "chain" \in flags[e] THEN pid[e] ELSE rpid
  PROVE  PInv'
<1>1. Types /\ e \in Pd /\ Main(e) \in Thread /\ BlockInv
  BY ThreadFacts DEF PInv, Used
<1>2. pc[Main(e)] = "main2"
  BY <1>1 DEF PInv, ThreadInv, ThreadOK
<1>3. cnt[e] = 1 /\ Slots(e) = {1}
  <2>1. cnt[e] \in Nat \ {0}
    BY <1>1, CntFacts
  <2>2. ~(cnt[e] > 1)
    BY <1>1, <1>2, ThreadFacts DEF PInv, ThreadInv, ThreadOK
  <2>3. cnt[e] = 1
    BY <2>1, <2>2
  <2>4. QED
    BY <1>1, <2>3, OneSlot
<1>4. \A z \in Thread : z[1] = e /\ (st[z] # "none" \/ pc[z] # "prog") => z = Main(e)
  BY <1>1, <1>3, CntFacts, AliveUsed
<1>5. parent[e] \in Used
  <2>1. CASE ptid[e] = 0
    BY <2>1, ThreadFacts DEF PInv, FlagInv, FlagOK, RootInv, Used
  <2>2. CASE ptid[e] # 0
    <3>1. PICK c \in Thread : c = Caller(e) /\ pc[c] \in {"launch", "ret"}
      BY <2>2 DEF PInv, ChildInv, ChildOK
    <3>2. c[1] \in Used
      BY <3>1, AliveUsed
    <3>3. QED
      BY <3>1, <3>2 DEF Caller
  <2>3. QED
    BY <2>1, <2>2
<1>6. /\ pid' = [pid EXCEPT ![e] = 0] /\ parent' = [parent EXCEPT ![e] = None]
      /\ ptid' = [ptid EXCEPT ![e] = 0] /\ flags' = [flags EXCEPT ![e] = {}]
      /\ cnt' = [cnt EXCEPT ![e] = 0] /\ st' = [st EXCEPT ![Main(e)] = "none"]
      /\ trap' = trap
  BY <1>3, <1>5 DEF Reaped, Sound
<1>7. /\ \A q \in Pd : pid'[q] = IF q = e THEN 0 ELSE pid[q]
      /\ \A q \in Pd : parent'[q] = IF q = e THEN None ELSE parent[q]
      /\ \A q \in Pd : ptid'[q] = IF q = e THEN 0 ELSE ptid[q]
      /\ \A q \in Pd : flags'[q] = IF q = e THEN {} ELSE flags[q]
      /\ \A q \in Pd : cnt'[q] = IF q = e THEN 0 ELSE cnt[q]
  BY <1>1, <1>6 DEF Types
<1>8. \A z \in Thread : st'[z] = IF z = Main(e) THEN "none" ELSE st[z]
  BY <1>1, <1>6 DEF Types
<1>9. /\ \A z \in Thread : pc'[z] = IF z \in X THEN "prog" ELSE pc[z]
      /\ \A z \in Thread : tgt'[z] = IF z \in X THEN None ELSE tgt[z]
      /\ \A z \in Thread : info'[z] = IF z \in X THEN None ELSE info[z]
      /\ \A z \in Thread : todo'[z] = IF z \in X THEN Clean ELSE todo[z]
  BY DEF Reset
<1>10. \A z \in X : pc[z] \in {"main2", "ret"} /\ (pc[z] = "main2" => z = Main(e))
  BY <1>2
<1>11. Used' = Used \ {e}
  BY <1>7 DEF Used
<1>12. \A q \in Pd : Main(q) \in Thread /\ (Main(q) = Main(e) <=> q = e)
  BY <1>1, ThreadFacts
<1>13. \A q \in Pd : q # e => st'[Main(q)] = st[Main(q)]
  BY <1>8, <1>12
<1>14. \A q \in Pd : q # e => Slots(q)' = Slots(q)
  <2>1. \A q \in Pd, t \in Tid : q # e => <<q, t>> \in Thread /\ <<q, t>> # Main(e)
    BY <1>1, ThreadFacts
  <2>2. \A q \in Pd, t \in Tid : q # e => st'[<<q, t>>] = st[<<q, t>>]
    BY <1>8, <2>1
  <2>3. QED
    BY <2>2 DEF Slots
<1>15. Slots(e)' = {}
  <2>1. \A t \in Tid : st'[<<e, t>>] = "none"
    <3>1. TAKE t \in Tid
    <3>2. <<e, t>> \in Thread /\ <<e, t>>[1] = e
      BY <1>1, ThreadFacts
    <3>3. QED
      BY <1>4, <1>8, <3>2
  <2>2. QED
    BY <2>1 DEF Slots
<1>16. BlockInv'
  <2>1. SUFFICES ASSUME NEW q \in Pd
                 PROVE  /\ cnt'[q] = Cardinality(Slots(q)')
                        /\ q \in Used' => 1 \in Slots(q)' /\ pid'[q] < nextpid'
                        /\ q \notin Used' => Slots(q)' = {} /\ flags'[q] = {}
    BY DEF BlockInv
  <2>2. CASE q = e
    BY <1>7, <1>11, <1>15, <2>2, FS_EmptySet
  <2>3. CASE q # e
    BY <1>1, <1>7, <1>11, <1>14, <2>3 DEF BlockInv
  <2>4. QED
    BY <2>2, <2>3
<1>17. \A q \in Used' : q \in Pd /\ q # e /\ q \in Used
  BY <1>11 DEF Used
<1>18. \A q \in Used' : Heir(q)' => Heir(q)
  <2>1. SUFFICES ASSUME NEW q \in Used', Heir(q)' PROVE Heir(q)
    OBVIOUS
  <2>2. /\ q \in Pd /\ q # e /\ q \in Used /\ "chain" \notin flags[q] /\ pid'[q] = pid[q]
        /\ rpid' = pid'[q] \/ \E w \in Used' : pid'[w] = pid'[q] /\ w # q
    BY <1>7, <1>17, <2>1 DEF Heir
  <2>3. CASE rpid' = pid[q]
    <3>1. rpid = pid[q] \/ (pid[e] = pid[q] /\ e # q)
      BY <2>2, <2>3
    <3>2. QED
      BY <2>2, <3>1 DEF Heir
  <2>4. CASE \E w \in Used' : pid'[w] = pid'[q] /\ w # q
    <3>1. PICK w \in Used' : pid'[w] = pid'[q] /\ w # q
      BY <2>4
    <3>2. w \in Used /\ pid[w] = pid[q]
      BY <1>7, <1>17, <2>2, <3>1
    <3>3. QED
      BY <2>2, <3>1, <3>2 DEF Heir
  <2>5. QED
    BY <2>2, <2>3, <2>4
<1>19. Types'
  <2>1. pid' \in [Pd -> 0..MaxPid] /\ ptid' \in [Pd -> 0..MaxTid] /\ rpid' \in 0..MaxPid
    BY <1>1, <1>6, PidNat DEF Types
  <2>2. /\ parent' \in [Pd -> Pd \cup {None}] /\ flags' \in [Pd -> SUBSET {"nopwait", "lwait", "chain"}]
        /\ cnt' \in [Pd -> Nat]
    BY <1>1, <1>6 DEF Types
  <2>3. st' \in [Thread -> States]
    BY <1>1, <1>6 DEF Types, States
  <2>4. /\ pc' \in [Thread -> PCs] /\ tgt' \in [Thread -> Pd \cup {None}]
        /\ info' \in [Thread -> Pd \cup {None}]
    BY <1>1 DEF Reset, Types, PCs
  <2>5. todo' \in [Thread -> [pid : 0..MaxPid, tids : Seq(Tid)]]
    <3>1. 0 \in 0..MaxPid /\ <<>> \in Seq(Tid)
      BY <1>1, PidNat
    <3>2. Clean \in [pid : 0..MaxPid, tids : Seq(Tid)]
      BY <3>1 DEF Clean
    <3>3. QED
      BY <1>1, <3>2 DEF Reset, Types
  <2>6. QED
    BY <1>1, <1>6, <2>1, <2>2, <2>3, <2>4, <2>5 DEF Types
<1>20. RootInv'
  <2>1. Root \in Pd /\ Root # e /\ Main(Root) \in Thread
    BY ThreadFacts
  <2>2. Main(Root) \in X => pc[Main(Root)] = "ret"
    BY <1>10, <1>12, <2>1
  <2>3. st'[Main(Root)] # "gone" /\ pc'[Main(Root)] \in {"prog", "launch", "ret", "stop"}
    BY <1>9, <1>13, <2>1, <2>2 DEF PInv, RootInv
  <2>4. pid[e] # 1 /\ pid[e] < nextpid
    BY <1>1 DEF PInv, RootInv, BlockInv
  <2>5. rpid' # 1 /\ rpid' < nextpid'
    BY <2>4 DEF PInv, RootInv
  <2>6. \A q \in Pd : pid'[q] = 1 <=> q = Root
    BY <1>7, <2>1 DEF PInv, RootInv
  <2>7. flags'[Root] = {} /\ ptid'[Root] = 0 /\ Slots(Root)' = {1}
    BY <1>7, <1>14, <2>1 DEF PInv, RootInv
  <2>8. QED
    BY <2>3, <2>5, <2>6, <2>7 DEF RootInv
<1>21. ThreadInv'
  <2>1. SUFFICES ASSUME NEW z \in Thread PROVE ThreadOK(z)'
    BY DEF ThreadInv
  <2>2. ThreadOK(z)
    BY DEF PInv, ThreadInv
  <2>3. CASE z \in X
    <3>1. pc'[z] = "prog" /\ tgt'[z] = None /\ info'[z] = None /\ st'[z] \in {"none", "run"}
      BY <1>8, <1>9, <2>3
    <3>2. st[z] \notin Waits
      BY <2>3 DEF Waits
    <3>3. QED
      BY <2>2, <3>1, <3>2 DEF ThreadOK, Waits
  <2>4. CASE z \notin X
    <3>1. st'[z] = st[z] /\ pc'[z] = pc[z] /\ tgt'[z] = tgt[z] /\ info'[z] = info[z] /\ z # Main(e)
      BY <1>8, <1>9, <2>4
    <3>2. st[z] = "tidexit" => pc'[<<z[1], wh[z]>>] = "exit"
      <4>1. HAVE st[z] = "tidexit"
      <4>2. <<z[1], wh[z]>> \in Thread /\ pc[<<z[1], wh[z]>>] = "exit"
        BY <2>2, <4>1, ThreadFacts DEF ThreadOK
      <4>3. QED
        BY <1>9, <1>10, <4>2
    <3>3. z[2] = 1 /\ st[z] # "none" => z[1] # e /\ cnt'[z[1]] = cnt[z[1]]
      BY <1>1, <1>7, <3>1, ThreadFacts
    <3>4. st[z] = "waitlnch" => \E q \in Used' : pid'[q] = wh[z] /\ st'[Main(q)] # "gone"
      <4>1. HAVE st[z] = "waitlnch"
      <4>2. PICK q \in Used : pid[q] = wh[z] /\ st[Main(q)] # "gone"
        BY <2>2, <4>1 DEF ThreadOK
      <4>3. q # e /\ q \in Pd
        BY <4>2 DEF Used
      <4>4. QED
        BY <1>7, <1>11, <1>13, <4>2, <4>3
    <3>5. pc[z] = "main2" => z[2] = 1 /\ st[z] # "none"
      BY <2>2 DEF ThreadOK
    <3>6. QED
      BY <2>2, <3>1, <3>2, <3>3, <3>4, <3>5 DEF ThreadOK, Waits
  <2>5. QED
    BY <2>3, <2>4
<1>22. StopInv'
  <2>1. SUFFICES ASSUME NEW z \in Thread, pc'[z] = "stop" PROVE StopOK(z)'
    BY DEF StopInv, StopOK
  <2>2. pc[z] = "stop" /\ tgt'[z] = tgt[z] /\ todo'[z] = todo[z] /\ StopOK(z)
    BY <1>9, <2>1 DEF PInv, StopInv
  <2>3. QED
    BY <2>1, <2>2 DEF StopOK
<1>23. FlagInv'
  <2>1. SUFFICES ASSUME NEW q \in Used', q # Root PROVE FlagOK(q)'
    BY DEF FlagInv
  <2>2. q \in Pd /\ q # e /\ q \in Used /\ FlagOK(q)
    BY <1>17, <2>1 DEF PInv, FlagInv
  <2>3. FlagOK(e)
    BY DEF PInv, FlagInv
  <2>4. "chain" \in flags[q] => pid[q] # rpid'
    BY <2>2, <2>3 DEF FlagOK
  <2>5. \A w \in Used' : w \in Used /\ pid'[w] = pid[w] /\ flags'[w] = flags[w]
    BY <1>7, <1>17
  <2>6. QED
    BY <1>7, <2>1, <2>2, <2>4, <2>5 DEF FlagOK
<1>24. LaunchInv'
  <2>1. SUFFICES ASSUME NEW z \in Thread, pc'[z] = "launch" PROVE LaunchOK(z)'
    BY DEF LaunchInv, LaunchOK
  <2>2. pc[z] = "launch" /\ LaunchOK(z) /\ tgt'[z] = tgt[z]
    BY <1>9, <2>1 DEF PInv, LaunchInv
  <2>3. PICK r \in Pd : r = tgt[z] /\ r \in Used /\ cnt[r] = 1 /\ st[Main(r)] = "susp" /\ pc[Main(r)] = "prog"
    BY <2>2 DEF LaunchOK, Used
  <2>4. r # e /\ Main(r) \notin X
    BY <1>10, <2>3
  <2>5. z[1] \in Used /\ z[1] \in Pd /\ z[1] # e
    BY <1>2, <1>4, <2>2, AliveUsed
  <2>6. /\ r \in Used' /\ st'[Main(r)] = "susp" /\ pc'[Main(r)] = "prog" /\ cnt'[r] = 1
        /\ (Heir(r)' => Heir(r)) /\ flags'[r] = flags[r] /\ flags'[z[1]] = flags[z[1]]
        /\ pid'[r] = pid[r] /\ pid'[z[1]] = pid[z[1]] /\ ptid'[r] = ptid[r] /\ tgt'[z] = r
    BY <1>7, <1>9, <1>11, <1>12, <1>13, <1>18, <2>2, <2>3, <2>4, <2>5
  <2>7. Caller(r)' = Caller(r)
    BY <1>7, <2>3, <2>4 DEF Caller
  <2>8. \A w \in Thread : pc'[w] = "launch" => pc[w] = "launch" /\ tgt'[w] = tgt[w]
    BY <1>9
  <2>9. QED
    BY <2>1, <2>2, <2>3, <2>6, <2>7, <2>8 DEF LaunchOK
<1>25. ChildInv'
  <2>1. \A q \in Used' : ChildOK(q)'
    <3>1. SUFFICES ASSUME NEW q \in Used', ptid'[q] # 0 PROVE ChildOK(q)'
      BY DEF ChildOK
    <3>2. q \in Pd /\ q # e /\ q \in Used /\ ptid[q] # 0 /\ ChildOK(q) /\ pid'[q] = pid[q]
      BY <1>7, <1>17, <3>1 DEF PInv, ChildInv
    <3>3. PICK c \in Thread : c = Caller(q)
      BY <3>2 DEF ChildOK
    <3>4. pc[c] \in {"launch", "ret"} /\ (pc[c] = "ret" => Ended(c) = q)
      BY <3>2, <3>3 DEF ChildOK
    <3>5. c \notin X
      <4>1. SUFFICES ASSUME c \in X PROVE FALSE
        OBVIOUS
      <4>2. ptid[e] # 0 /\ c = Caller(e) /\ pc[c] = "ret"
        BY <1>2, <3>4, <4>1
      <4>3. Ended(c) = e
        BY <4>2 DEF PInv, ChildInv, ChildOK
      <4>4. QED
        BY <3>2, <3>4, <4>2, <4>3
    <3>6. /\ pc'[c] = pc[c] /\ tgt'[c] = tgt[c] /\ info'[c] = info[c] /\ st'[c] = st[c]
          /\ st'[Main(q)] = st[Main(q)]
      BY <1>8, <1>9, <1>13, <3>2, <3>5
    <3>7. Caller(q)' = c /\ parent'[q] = parent[q] /\ parent[q] = c[1] /\ parent[q] \in Pd
      BY <1>7, <3>2, <3>3, ThreadFacts DEF Caller
    <3>8. Ended(Caller(q))' = Ended(c)
      BY <3>6, <3>7 DEF Ended
    <3>9. "chain" \in flags'[parent[q]] => "chain" \in flags[parent[q]]
      BY <1>7, <3>7
    <3>10. QED
      BY <3>2, <3>3, <3>6, <3>7, <3>8, <3>9 DEF ChildOK
  <2>2. \A z \in Thread : ReturnOK(z)'
    <3>1. SUFFICES ASSUME NEW z \in Thread, pc'[z] = "ret" PROVE ReturnOK(z)'
      BY DEF ReturnOK
    <3>2. z \notin X /\ pc[z] = "ret" /\ tgt'[z] = tgt[z] /\ info'[z] = info[z]
      BY <1>9, <3>1
    <3>3. PICK f : f = Ended(z) /\ Ended(z)' = f
      BY <3>2 DEF Ended
    <3>4. f \in Used /\ ptid[f] # 0 /\ Caller(f) = z /\ f \in Pd
      BY <3>2, <3>3 DEF PInv, ChildInv, ReturnOK, Used
    <3>5. f # e
      BY <3>2, <3>4
    <3>6. f \in Used' /\ ptid'[f] = ptid[f] /\ Caller(f)' = Caller(f) /\ Caller(Ended(z))' = Caller(f)'
      BY <1>7, <1>11, <3>3, <3>4, <3>5 DEF Caller
    <3>7. QED
      BY <3>1, <3>3, <3>4, <3>6 DEF ReturnOK
  <2>3. QED
    BY <2>1, <2>2 DEF ChildInv
<1>26. SysqInv'
  <2>1. \A q \in Pd : (\E i \in 1..Len(sysq) : sysq[i] = q)
                        <=> q \in Used /\ st[Main(q)] = "gone" /\ ptid[q] = 0
    BY DEF PInv, SysqInv
  <2>2. \A q \in Pd : (\E i \in 1..Len(sysq') : sysq'[i] = q)
                        <=> q \in Used' /\ st'[Main(q)] = "gone" /\ ptid'[q] = 0
    BY <1>7, <1>11, <1>13, <2>1
  <2>3. QED
    BY <2>2 DEF SysqInv
<1>27. HeirInv'
  <2>1. SUFFICES ASSUME NEW q \in Used', Heir(q)' PROVE HeirOK(q)'
    BY DEF HeirInv, HeirOK
  <2>2. q \in Pd /\ q # e /\ Heir(q) /\ HeirOK(q) /\ Main(q) \in Thread
    BY <1>12, <1>17, <1>18, <2>1 DEF PInv, HeirInv
  <2>3. Main(q) \notin X
    BY <1>10, <1>12, <2>2 DEF HeirOK
  <2>4. st'[Main(q)] = st[Main(q)] /\ pc'[Main(q)] = pc[Main(q)] /\ cnt'[q] = cnt[q]
    BY <1>7, <1>9, <1>13, <2>2, <2>3
  <2>5. QED
    BY <2>2, <2>4 DEF HeirOK
<1>28. QED
  BY <1>16, <1>19, <1>20, <1>21, <1>22, <1>23, <1>24, <1>25, <1>26, <1>27 DEF PInv

(* mod_execcall() behind mt_exec(): the caller frees the process.          *)
LEMMA ReturnStep ==
  ASSUME PInv, TreeInv, NEW x \in Thread, Return(x)
  PROVE  PInv'
<1>1. st[x] = "run" /\ pc[x] = "ret" /\ UNCHANGED <<wh, lock, sysq, rpid, nextpid>>
  BY DEF Return, Runs
<1>2. PICK e : e = Ended(x)
  OBVIOUS
<1>3. e \in Used /\ e \in Pd /\ ptid[e] # 0 /\ Caller(e) = x
  BY <1>1, <1>2 DEF PInv, ChildInv, ReturnOK, Used
<1>4. e # Root
  BY <1>3 DEF PInv, RootInv
<1>5. "nopwait" \notin flags[e] /\ "chain" \notin flags[e]
  BY <1>3, <1>4 DEF PInv, FlagInv, FlagOK
<1>6. st[Main(e)] = "gone"
  BY <1>1, <1>3 DEF PInv, ChildInv, ChildOK
<1>7. Reaped(e) /\ Reset({x, Main(e)})
  BY <1>2, <1>5 DEF Return
<1> DEFINE X == {x, Main(e)}
<1>8. X \in SUBSET Thread /\ Main(e) \in X /\ Caller(e) \in X
      /\ \A z \in X : z = Main(e) \/ (ptid[e] # 0 /\ z = Caller(e) /\ pc[z] = "ret" /\ st[z] = "run")
  BY <1>1, <1>3, ThreadFacts
<1>9. \A q \in Pd : (\E i \in 1..Len(sysq) : sysq[i] = q)
                      <=> q # e /\ \E i \in 1..Len(sysq) : sysq[i] = q
  BY <1>3 DEF PInv, SysqInv
<1>10. /\ sysq' \in Seq(Pd) /\ \A i, j \in 1..Len(sysq') : sysq'[i] = sysq'[j] => i = j
       /\ \A q \in Pd : (\E i \in 1..Len(sysq') : sysq'[i] = q)
                          <=> q # e /\ \E i \in 1..Len(sysq) : sysq[i] = q
  BY <1>1, <1>9 DEF PInv, Types, SysqInv
<1>11. Reset(X) /\ UNCHANGED <<wh, lock, nextpid>>
       /\ rpid' = IF "chain" \in flags[e] THEN pid[e] ELSE rpid
  BY <1>1, <1>5, <1>7
<1> HIDE DEF X
<1>12. SoundTree(e)
  BY <1>3, <1>4, <1>6, TreeSound
<1>13. QED
  BY <1>3, <1>4, <1>6, <1>7, <1>8, <1>10, <1>11, <1>12, ReapStep

(* The rest of a queue                                                     *)
Once(s) == \A i, j \in 1..Len(s) : s[i] = s[j] => i = j
Holds(s, e) == \E i \in 1..Len(s) : s[i] = e
LEMMA Fetched ==
  ASSUME NEW q \in Seq(Pd), q # <<>>, Once(q), NEW r, r = Tail(q)
  PROVE  /\ r \in Seq(Pd) /\ Head(q) \in Pd /\ Holds(q, Head(q)) /\ Once(r)
         /\ \A e \in Pd : Holds(r, e) <=> e # Head(q) /\ Holds(q, e)
<1>1. PICK n \in Nat : n = Len(q)
  OBVIOUS
<1>2. n # 0
  BY <1>1, EmptySeq
<1>3. r \in Seq(Pd) /\ Head(q) \in Pd /\ Len(r) = n - 1 /\ Head(q) = q[1]
      /\ \A i \in 1..(n - 1) : r[i] = q[i + 1]
  BY <1>1, <1>2, HeadTailProperties
<1>4. \A i \in 1..(n - 1) : i + 1 \in 1..n /\ i + 1 # 1
  BY <1>1
<1>5. \A i \in 1..n : i # 1 => i - 1 \in 1..(n - 1) /\ (i - 1) + 1 = i
  BY <1>1
<1>6. 1 \in 1..n
  BY <1>1, <1>2
<1>7. \A i, j \in 1..(n - 1) : r[i] = r[j] => i = j
  <2>1. TAKE i, j \in 1..(n - 1)
  <2>2. HAVE r[i] = r[j]
  <2>3. i + 1 = j + 1
    BY <1>1, <1>3, <1>4, <2>2 DEF Once
  <2>4. QED
    BY <2>3
<1>8. ASSUME NEW e \in Pd
      PROVE  (\E i \in 1..(n - 1) : r[i] = e) <=> e # Head(q) /\ \E i \in 1..n : q[i] = e
  <2>1. ASSUME NEW i \in 1..(n - 1), r[i] = e
        PROVE  e # Head(q) /\ \E k \in 1..n : q[k] = e
    BY <1>1, <1>3, <1>4, <1>6, <2>1 DEF Once
  <2>2. ASSUME e # Head(q), NEW k \in 1..n, q[k] = e
        PROVE  \E i \in 1..(n - 1) : r[i] = e
    <3>1. k # 1
      BY <1>3, <2>2
    <3>2. k - 1 \in 1..(n - 1) /\ r[k - 1] = e
      BY <1>3, <1>5, <2>2, <3>1
    <3>3. QED
      BY <3>2
  <2>3. QED
    BY <2>1, <2>2
<1>9. QED
  BY <1>1, <1>3, <1>6, <1>7, <1>8 DEF Once, Holds

(* process_sysq() frees a process that nobody waits for.                   *)
LEMMA SessionFreeStep ==
  ASSUME PInv, TreeInv, SessionFree
  PROVE  PInv'
<1>1. /\ sysq # <<>> /\ rpid = 0 /\ UNCHANGED <<wh, lock, nextpid>>
      /\ sysq' = Tail(sysq)
  BY DEF SessionFree
<1>2. PICK e : e = Head(sysq)
  OBVIOUS
<1>3. /\ Reaped(e) /\ Reset({Main(e)})
      /\ rpid' = IF "chain" \in flags[e] THEN pid[e] ELSE 0
  BY <1>2 DEF SessionFree, Chained
<1>4. sysq \in Seq(Pd) /\ \A i, j \in 1..Len(sysq) : sysq[i] = sysq[j] => i = j
  BY DEF PInv, Types, SysqInv
<1>5. /\ sysq' \in Seq(Pd) /\ e \in Pd /\ \E i \in 1..Len(sysq) : sysq[i] = e
      /\ \A i, j \in 1..Len(sysq') : sysq'[i] = sysq'[j] => i = j
      /\ \A q \in Pd : (\E i \in 1..Len(sysq') : sysq'[i] = q)
                         <=> q # e /\ \E i \in 1..Len(sysq) : sysq[i] = q
  <2>1. PICK s, r : s = sysq /\ r = sysq'
    OBVIOUS
  <2>2. s \in Seq(Pd) /\ s # <<>> /\ r = Tail(s) /\ Once(s)
    BY <1>1, <1>4, <2>1 DEF Once
  <2>3. /\ r \in Seq(Pd) /\ Head(s) \in Pd /\ Holds(s, Head(s)) /\ Once(r)
        /\ \A q \in Pd : Holds(r, q) <=> q # Head(s) /\ Holds(s, q)
    BY <2>2, Fetched
  <2>4. QED
    BY <1>2, <2>1, <2>3 DEF Once, Holds
<1>6. e \in Used /\ st[Main(e)] = "gone" /\ ptid[e] = 0
  BY <1>5 DEF PInv, SysqInv
<1>7. e # Root
  BY <1>6 DEF PInv, RootInv
<1>8. {Main(e)} \in SUBSET Thread
  BY <1>5, ThreadFacts
<1>9. rpid' = IF "chain" \in flags[e] THEN pid[e] ELSE rpid
  BY <1>1, <1>3
<1> DEFINE X == {Main(e)}
<1>10. X \in SUBSET Thread /\ Main(e) \in X /\ Reset(X) /\ \A z \in X : z = Main(e)
  BY <1>3, <1>8
<1> HIDE DEF X
<1>11. SoundTree(e)
  BY <1>5, <1>6, <1>7, TreeSound
<1>12. QED
  BY <1>1, <1>3, <1>5, <1>6, <1>7, <1>9, <1>10, <1>11, ReapStep

(***************************************************************************)
(* mt_new()                                                                *)
(***************************************************************************)
(* What is left of the state of a block that is free, and a new process    *)
(* with one thread.                                                        *)
LEMMA FreeBlock ==
  ASSUME PInv, NEW q \in Pd \ Used
  PROVE  /\ q # Root /\ flags[q] = {}
         /\ \A z \in Thread : z[1] = q => /\ st[z] = "none" /\ pc[z] = "prog" /\ wh[z] = 0
                                          /\ tgt[z] = None /\ info[z] = None
<1>1. Slots(q) = {} /\ flags[q] = {}
  BY DEF PInv, BlockInv
<1>2. q # Root
  BY DEF PInv, RootInv, Used
<1>3. \A z \in Thread : z[1] = q => st[z] = "none"
  BY <1>1, ThreadFacts DEF Slots
<1>4. \A z \in Thread : st[z] = "none" => pc[z] = "prog" /\ wh[z] = 0
  BY DEF PInv, ThreadInv, ThreadOK, Waits
<1>5. \A z \in Thread : pc[z] = "prog" => tgt[z] = None /\ info[z] = None
  BY DEF PInv, ThreadInv, ThreadOK
<1>6. QED
  BY <1>1, <1>2, <1>3, <1>4, <1>5

LEMMA BlockTaken ==
  ASSUME PInv, NEW q \in Pd \ Used, NEW n \in Nat \ {0},
         n < nextpid', nextpid' \in Nat, nextpid' >= nextpid,
         \A p \in Pd : pid'[p] = IF p = q THEN n ELSE pid[p],
         \A p \in Pd : cnt'[p] = IF p = q THEN 1 ELSE cnt[p],
         \A p \in Pd \ Used : p # q => flags'[p] = flags[p],
         \A z \in Thread : st'[z] = IF z = Main(q) THEN "susp" ELSE st[z]
  PROVE  /\ BlockInv' /\ Used' = Used \cup {q}
         /\ \A p \in Used : p # q /\ Slots(p)' = Slots(p)
<1>1. Used' = Used \cup {q}
  BY DEF Used
<1>2. \A p \in Pd, t \in Tid : /\ <<p, t>> \in Thread
                               /\ <<p, t>> = Main(q) <=> p = q /\ t = 1
  BY ThreadFacts DEF Main
<1>3. \A p \in Pd : p # q => Slots(p)' = Slots(p)
  <2>1. \A p \in Pd, t \in Tid : p # q => st'[<<p, t>>] = st[<<p, t>>]
    BY <1>2
  <2>2. QED
    BY <2>1 DEF Slots
<1>4. Slots(q)' = {1}
  <2>1. \A t \in Tid : st[<<q, t>>] = "none"
    BY FreeBlock, ThreadFacts
  <2>2. \A t \in Tid : st'[<<q, t>>] # "none" <=> t = 1
    BY <1>2, <2>1
  <2>3. QED
    BY <2>2, ThreadFacts DEF Slots
<1>5. BlockInv'
  <2>1. SUFFICES ASSUME NEW p \in Pd
                 PROVE  /\ cnt'[p] = Cardinality(Slots(p)')
                        /\ p \in Used' => 1 \in Slots(p)' /\ pid'[p] < nextpid'
                        /\ p \notin Used' => Slots(p)' = {} /\ flags'[p] = {}
    BY DEF BlockInv
  <2>2. CASE p = q
    BY <1>1, <1>4, <2>2, FS_Singleton
  <2>3. CASE p # q
    <3>1. BlockInv /\ Slots(p)' = Slots(p) /\ (p \in Used' <=> p \in Used)
      BY <1>1, <1>3, <2>3 DEF PInv
    <3>2. pid \in [Pd -> Nat] /\ nextpid \in Nat
      BY PidNat DEF PInv
    <3>3. p \in Used => pid'[p] < nextpid'
      BY <2>3, <3>1, <3>2 DEF BlockInv
    <3>4. QED
      BY <2>3, <3>1, <3>3 DEF BlockInv
  <2>4. QED
    BY <2>2, <2>3
<1>6. QED
  BY <1>1, <1>3, <1>5 DEF Used

(* A process gets the next pid.                                            *)
LEMMA NewStep ==
  ASSUME PInv, Uses = {}, NEW x \in Thread, NEW q \in Pd, NEW kind \in AllKinds,
         New(x, q, kind), kind # "chain", CanPlant(x, q, kind)
  PROVE  PInv'
<1> DEFINE p == x[1]
<1>1. /\ st[x] = "run" /\ pc[x] = "prog" /\ q \in Pd \ Used
      /\ "chain" \notin flags[p] /\ nextpid <= MaxPid
      /\ pid' = [pid EXCEPT ![q] = nextpid] /\ nextpid' = nextpid + 1
      /\ parent' = [parent EXCEPT ![q] = IF kind = "exec" THEN p ELSE Root]
      /\ ptid' = [ptid EXCEPT ![q] = IF kind = "exec" THEN x[2] ELSE 0]
      /\ info' = info /\ cnt' = [cnt EXCEPT ![q] = 1]
      /\ st' = [st EXCEPT ![Main(q)] = "susp"] /\ pc' = [pc EXCEPT ![x] = "launch"]
      /\ tgt' = [tgt EXCEPT ![x] = q]
      /\ UNCHANGED <<wh, todo, lock, sysq, rpid, trap>>
  BY DEF New, Enrolled, InProg, Runs, Only
<1>2. Types
  BY DEF PInv
<1>3. /\ q # Root /\ flags[q] = {}
      /\ \A z \in Thread : z[1] = q => /\ st[z] = "none" /\ pc[z] = "prog" /\ wh[z] = 0
                                       /\ tgt[z] = None /\ info[z] = None
  BY <1>1, FreeBlock
<1>4. flags' = [flags EXCEPT ![q] = IF kind = "exec" THEN {} ELSE
                  IF kind = "session" THEN {"nopwait"} ELSE {"nopwait", "lwait"}]
  <2>1. CASE kind = "exec"
    <3>1. flags' = flags
      BY <2>1 DEF New, Enrolled
    <3>2. QED
      BY <1>2, <1>3, <2>1, <3>1 DEF Types
  <2>2. CASE kind = "session"
    BY <2>2 DEF New, Enrolled
  <2>3. CASE kind = "waitfor"
    BY <2>3 DEF New, Enrolled
  <2>4. QED
    BY <2>1, <2>2, <2>3 DEF AllKinds
<1> DEFINE G == IF kind = "exec" THEN {} ELSE
                IF kind = "session" THEN {"nopwait"} ELSE {"nopwait", "lwait"}
<1>5. PICK F \in SUBSET {"nopwait", "lwait"} : /\ flags' = [flags EXCEPT ![q] = F]
                                               /\ "nopwait" \in F <=> kind # "exec"
  <2>1. G \in SUBSET {"nopwait", "lwait"} /\ ("nopwait" \in G <=> kind # "exec")
    OBVIOUS
  <2>2. flags' = [flags EXCEPT ![q] = G]
    BY <1>4
  <2> HIDE DEF G
  <2>3. QED
    BY <2>1, <2>2
<1>6. /\ \A w \in Pd : pid'[w] = IF w = q THEN nextpid ELSE pid[w]
      /\ \A w \in Pd : w # q => ptid'[w] = ptid[w] /\ parent'[w] = parent[w] /\ flags'[w] = flags[w]
      /\ \A w \in Pd : cnt'[w] = IF w = q THEN 1 ELSE cnt[w]
      /\ flags'[q] = F
      /\ kind = "exec" => ptid'[q] = x[2] /\ parent'[q] = p
      /\ kind # "exec" => ptid'[q] = 0 /\ parent'[q] = Root
  BY <1>1, <1>2, <1>5 DEF Types
<1>7. /\ \A z \in Thread : st'[z] = IF z = Main(q) THEN "susp" ELSE st[z]
      /\ \A z \in Thread : pc'[z] = IF z = x THEN "launch" ELSE pc[z]
      /\ \A z \in Thread : tgt'[z] = IF z = x THEN q ELSE tgt[z]
  BY <1>1, <1>2 DEF Types
<1>8. /\ nextpid \in Nat \ {0} /\ nextpid' \in Nat /\ nextpid < nextpid' /\ nextpid' >= nextpid
      /\ nextpid # 1 /\ nextpid \in 0..MaxPid /\ nextpid' \in 2..(MaxPid + 1)
  <2>1. nextpid \in 2..(MaxPid + 1) /\ MaxPid \in Nat
    BY <1>2, PidNat DEF Types
  <2>2. QED
    BY <1>1, <2>1
<1>9. /\ BlockInv' /\ Used' = Used \cup {q}
      /\ \A w \in Used : w # q /\ Slots(w)' = Slots(w)
  BY <1>1, <1>6, <1>7, <1>8, BlockTaken
<1>10. /\ p \in Used /\ p \in Pd /\ p # q /\ x[2] # 0
       /\ \A w \in Used : w \in Pd /\ w # q /\ pid[w] < nextpid /\ pid[w] \in Nat
  <2>1. p \in Used /\ p \in Pd
    BY <1>1, AliveUsed
  <2>2. \A w \in Used : w \in Pd /\ w # q
    BY <1>1 DEF Used
  <2>3. x[2] # 0
    BY ThreadFacts
  <2>4. QED
    BY <1>2, <2>1, <2>2, <2>3, PidNat DEF PInv, BlockInv
<1>11. /\ \A w \in Pd : Main(w) \in Thread /\ (Main(w) = Main(q) <=> w = q)
       /\ Main(q)[1] = q /\ Main(q)[2] = 1 /\ Main(q) # x
  BY <1>1, <1>3, ThreadFacts
<1>12. \A z \in Thread : st[z] # "none" => z[1] \in Used /\ z # Main(q) /\ st'[z] = st[z]
  BY <1>3, <1>7, <1>11, AliveUsed
<1>13. \A w \in Used : Heir(w)' <=> Heir(w)
  <2>1. TAKE w \in Used
  <2>2. flags'[w] = flags[w] /\ pid'[w] = pid[w] /\ rpid' = rpid /\ pid'[q] # pid[w]
    BY <1>1, <1>6, <1>8, <1>10
  <2>3. \A u \in Used : pid'[u] = pid[u]
    BY <1>6, <1>10
  <2>4. (\E u \in Used' : pid'[u] = pid[w] /\ u # w) <=> \E u \in Used : pid[u] = pid[w] /\ u # w
    BY <1>9, <2>2, <2>3
  <2>5. QED
    BY <2>2, <2>4 DEF Heir
<1>14. ~Heir(q)'
  <2>1. rpid' # pid'[q]
    BY <1>1, <1>2, <1>6, <1>8, PidNat DEF PInv, RootInv
  <2>2. \A w \in Used' : w # q => pid'[w] # pid'[q]
    BY <1>6, <1>8, <1>9, <1>10
  <2>3. QED
    BY <2>1, <2>2 DEF Heir
<1>15. Types'
  <2>1. pid' \in [Pd -> 0..MaxPid] /\ parent' \in [Pd -> Pd \cup {None}] /\ cnt' \in [Pd -> Nat]
    BY <1>1, <1>2, <1>8, <1>10, ThreadFacts DEF Types
  <2>2. ptid' \in [Pd -> 0..MaxTid]
    <3>1. x[2] \in 0..MaxTid /\ 0 \in 0..MaxTid
      BY <1>2, PidNat, ThreadFacts
    <3>2. QED
      BY <1>1, <1>2, <3>1 DEF Types
  <2>3. flags' \in [Pd -> SUBSET {"nopwait", "lwait", "chain"}]
    BY <1>2, <1>5 DEF Types
  <2>4. st' \in [Thread -> States] /\ pc' \in [Thread -> PCs] /\ tgt' \in [Thread -> Pd \cup {None}]
    BY <1>1, <1>2 DEF Types, States, PCs
  <2>5. QED
    BY <1>1, <1>2, <1>8, <2>1, <2>2, <2>3, <2>4 DEF Types
<1>16. RootInv'
  <2>1. Root \in Used /\ Root \in Pd
    BY ThreadFacts DEF PInv, RootInv, Used
  <2>2. \A w \in Pd : pid'[w] = 1 <=> w = Root
    BY <1>3, <1>6, <1>8 DEF PInv, RootInv
  <2>3. flags'[Root] = {} /\ ptid'[Root] = 0 /\ Slots(Root)' = {1}
    BY <1>3, <1>6, <1>9, <2>1 DEF PInv, RootInv
  <2>4. st'[Main(Root)] # "gone" /\ pc'[Main(Root)] \in {"prog", "launch", "ret", "stop"}
    BY <1>7, <1>11, <2>1 DEF PInv, RootInv
  <2>5. rpid' # 1 /\ rpid' < nextpid'
    BY <1>1, <1>2, <1>8, PidNat DEF PInv, RootInv
  <2>6. QED
    BY <2>2, <2>3, <2>4, <2>5 DEF RootInv
<1>17. ThreadInv'
  <2>1. SUFFICES ASSUME NEW z \in Thread PROVE ThreadOK(z)'
    BY DEF ThreadInv
  <2>2. ThreadOK(z)
    BY DEF PInv, ThreadInv
  <2>3. CASE z = x
    <3>1. st'[x] = "run" /\ pc'[x] = "launch" /\ wh'[x] = wh[x] /\ info'[x] = info[x]
      BY <1>1, <1>7, <1>11
    <3>2. QED
      BY <1>1, <2>2, <2>3, <3>1 DEF ThreadOK, Waits
  <2>4. CASE z = Main(q)
    <3>1. /\ st'[z] = "susp" /\ pc'[z] = "prog" /\ wh'[z] = 0 /\ info'[z] = None /\ tgt'[z] = None
      BY <1>1, <1>3, <1>7, <1>11, <2>4
    <3>2. QED
      BY <3>1 DEF ThreadOK, Waits
  <2>5. CASE z # x /\ z # Main(q)
    <3>1. st'[z] = st[z] /\ pc'[z] = pc[z] /\ tgt'[z] = tgt[z] /\ info'[z] = info[z] /\ wh'[z] = wh[z]
      BY <1>1, <1>7, <2>5
    <3>2. st[z] = "tidexit" => pc'[<<z[1], wh[z]>>] = "exit"
      <4>1. HAVE st[z] = "tidexit"
      <4>2. <<z[1], wh[z]>> \in Thread /\ pc[<<z[1], wh[z]>>] = "exit"
        BY <2>2, <4>1, ThreadFacts DEF ThreadOK
      <4>3. QED
        BY <1>1, <1>7, <4>2
    <3>3. st[z] # "none" => cnt'[z[1]] = cnt[z[1]]
      BY <1>6, <1>10, <1>12
    <3>4. st[z] = "waitlnch" => \E w \in Used' : pid'[w] = wh[z] /\ st'[Main(w)] # "gone"
      <4>1. HAVE st[z] = "waitlnch"
      <4>2. PICK w \in Used : pid[w] = wh[z] /\ st[Main(w)] # "gone"
        BY <2>2, <4>1 DEF ThreadOK
      <4>3. pid'[w] = pid[w] /\ st'[Main(w)] = st[Main(w)]
        BY <1>6, <1>7, <1>10, <1>11
      <4>4. QED
        BY <1>9, <4>2, <4>3
    <3>5. QED
      BY <2>2, <3>1, <3>2, <3>3, <3>4 DEF ThreadOK, Waits
  <2>6. QED
    BY <2>3, <2>4, <2>5
<1>18. StopInv'
  <2>1. SUFFICES ASSUME NEW z \in Thread, pc'[z] = "stop" PROVE StopOK(z)'
    BY DEF StopInv, StopOK
  <2>2. pc[z] = "stop" /\ tgt'[z] = tgt[z] /\ todo'[z] = todo[z] /\ StopOK(z)
    BY <1>1, <1>7, <2>1 DEF PInv, StopInv
  <2>3. QED
    BY <2>1, <2>2 DEF StopOK
<1>19. FlagInv'
  <2>1. SUFFICES ASSUME NEW w \in Used', w # Root PROVE FlagOK(w)'
    BY DEF FlagInv
  <2>2. CASE w = q
    <3>1. \A u \in Used' : u # q => pid'[u] # pid'[q]
      BY <1>6, <1>8, <1>9, <1>10
    <3>2. "chain" \notin flags'[q] /\ (ptid'[q] = 0 <=> "nopwait" \in flags'[q])
          /\ (ptid'[q] = 0 => parent'[q] = Root)
      BY <1>5, <1>6, <1>10
    <3>3. QED
      BY <2>2, <3>1, <3>2 DEF FlagOK
  <2>3. CASE w # q
    <3>1. w \in Used /\ FlagOK(w)
      BY <1>9, <2>1, <2>3 DEF PInv, FlagInv
    <3>2. ptid'[w] = ptid[w] /\ parent'[w] = parent[w] /\ flags'[w] = flags[w] /\ pid'[w] = pid[w]
      BY <1>6, <1>10, <3>1
    <3>3. \A u \in Used' : \/ u \in Used /\ pid'[u] = pid[u] /\ flags'[u] = flags[u]
                        \/ pid'[u] # pid[w]
      BY <1>6, <1>8, <1>9, <1>10, <3>1
    <3>4. QED
      BY <1>1, <3>1, <3>2, <3>3 DEF FlagOK
  <2>4. QED
    BY <2>2, <2>3
<1>20. LaunchInv'
  <2>1. SUFFICES ASSUME NEW z \in Thread, pc'[z] = "launch" PROVE LaunchOK(z)'
    BY DEF LaunchInv, LaunchOK
  <2>2. \A w \in Thread : w # x /\ pc'[w] = "launch" => /\ pc[w] = "launch" /\ tgt'[w] = tgt[w]
                                                        /\ tgt[w] \in Used
    BY <1>7 DEF PInv, LaunchInv, LaunchOK
  <2>3. CASE z = x
    <3>1. tgt'[x] = q /\ q \in Used' \ {Root} /\ q # x[1]
      BY <1>3, <1>7, <1>9, <1>10
    <3>2. st'[Main(q)] = "susp" /\ cnt'[q] = 1 /\ pc'[Main(q)] = "prog" /\ "chain" \notin flags'[q]
      BY <1>3, <1>5, <1>6, <1>7, <1>11
    <3>3. \A y \in Thread : pc'[y] = "launch" /\ tgt'[y] = q => y = x
      BY <1>10, <2>2
    <3>4. "chain" \notin flags'[x[1]]
      BY <1>1, <1>6, <1>10
    <3>5. ptid'[q] # 0 => Caller(q)' = x
      BY <1>6, ThreadFacts DEF Caller
    <3>6. QED
      BY <1>14, <2>3, <3>1, <3>2, <3>3, <3>4, <3>5 DEF LaunchOK
  <2>4. CASE z # x
    <3>1. pc[z] = "launch" /\ LaunchOK(z) /\ tgt'[z] = tgt[z]
      BY <2>1, <2>2, <2>4 DEF PInv, LaunchInv
    <3>2. PICK r \in Used : r = tgt[z] /\ cnt[r] = 1 /\ st[Main(r)] = "susp" /\ pc[Main(r)] = "prog"
      BY <3>1 DEF LaunchOK
    <3>3. r \in Pd /\ r # q /\ z[1] \in Used /\ z[1] \in Pd /\ z[1] # q
      BY <1>10, <3>1, AliveUsed
    <3>4. /\ st'[Main(r)] = "susp" /\ pc'[Main(r)] = "prog" /\ cnt'[r] = 1 /\ r \in Used'
          /\ (Heir(r)' <=> Heir(r)) /\ flags'[r] = flags[r] /\ flags'[z[1]] = flags[z[1]]
          /\ pid'[r] = pid[r] /\ pid'[z[1]] = pid[z[1]] /\ ptid'[r] = ptid[r] /\ tgt'[z] = r
          /\ Caller(r)' = Caller(r)
      BY <1>1, <1>6, <1>7, <1>9, <1>11, <1>13, <3>1, <3>2, <3>3 DEF Caller
    <3>5. \A w \in Thread : pc'[w] = "launch" /\ tgt'[w] = r => pc[w] = "launch" /\ tgt[w] = r
      BY <1>7, <2>2, <3>3
    <3>6. QED
      BY <3>1, <3>2, <3>4, <3>5 DEF LaunchOK
  <2>5. QED
    BY <2>3, <2>4
<1>21. ChildInv'
  <2>1. \A w \in Used' : ChildOK(w)'
    <3>1. SUFFICES ASSUME NEW w \in Used', ptid'[w] # 0 PROVE ChildOK(w)'
      BY DEF ChildOK
    <3>2. CASE w = q
      <4>1. Caller(q)' = x /\ parent'[q] = p /\ flags'[p] = flags[p]
        BY <1>6, <1>10, <3>1, <3>2, ThreadFacts DEF Caller
      <4>2. QED
        BY <1>1, <1>7, <3>2, <4>1 DEF ChildOK
    <3>3. CASE w # q
      <4>1. w \in Used /\ w \in Pd
        BY <1>9, <1>10, <3>1, <3>3
      <4>2. ptid[w] # 0 /\ ChildOK(w) /\ ptid'[w] = ptid[w] /\ pid'[w] = pid[w] /\ parent'[w] = parent[w]
        BY <1>6, <3>1, <3>3, <4>1 DEF PInv, ChildInv
      <4>3. PICK c \in Thread : c = Caller(w)
        BY <4>2 DEF ChildOK
      <4>4. pc[c] \in {"launch", "ret"} /\ c # x
        BY <1>1, <4>2, <4>3 DEF ChildOK
      <4>5. st[c] # "none" /\ c[1] \in Used /\ c[1] # q /\ c[1] \in Pd
        BY <1>10, <4>4, AliveUsed
      <4>6. /\ pc'[c] = pc[c] /\ tgt'[c] = tgt[c] /\ info'[c] = info[c] /\ st'[c] = st[c]
            /\ st'[Main(w)] = st[Main(w)]
        BY <1>1, <1>7, <1>11, <1>12, <3>3, <4>1, <4>4, <4>5
      <4>7. Caller(w)' = c /\ parent[w] = c[1] /\ flags'[parent[w]] = flags[parent[w]]
        BY <1>6, <4>2, <4>3, <4>5 DEF Caller
      <4>8. Ended(Caller(w))' = Ended(c)
        BY <4>6, <4>7 DEF Ended
      <4>9. QED
        BY <1>1, <4>2, <4>3, <4>6, <4>7, <4>8 DEF ChildOK
    <3>4. QED
      BY <3>2, <3>3
  <2>2. \A z \in Thread : ReturnOK(z)'
    <3>1. SUFFICES ASSUME NEW z \in Thread, pc'[z] = "ret" PROVE ReturnOK(z)'
      BY DEF ReturnOK
    <3>2. z # x /\ pc[z] = "ret" /\ tgt'[z] = tgt[z] /\ info'[z] = info[z]
      BY <1>1, <1>7, <3>1
    <3>3. PICK f : f = Ended(z) /\ Ended(z)' = f
      BY <3>2 DEF Ended
    <3>4. f \in Used /\ ptid[f] # 0 /\ Caller(f) = z /\ f \in Pd /\ f # q
      BY <1>10, <3>2, <3>3 DEF PInv, ChildInv, ReturnOK
    <3>5. f \in Used' /\ ptid'[f] = ptid[f] /\ Caller(f)' = Caller(f) /\ Caller(Ended(z))' = Caller(f)'
      BY <1>6, <1>9, <3>3, <3>4 DEF Caller
    <3>6. QED
      BY <3>1, <3>3, <3>4, <3>5 DEF ReturnOK
  <2>3. QED
    BY <2>1, <2>2 DEF ChildInv
<1>22. SysqInv'
  <2>1. \A w \in Pd : w # q => (w \in Used' <=> w \in Used) /\ st'[Main(w)] = st[Main(w)] /\ ptid'[w] = ptid[w]
    BY <1>6, <1>7, <1>9, <1>11
  <2>2. st'[Main(q)] # "gone" /\ ~ \E i \in 1..Len(sysq) : sysq[i] = q
    BY <1>1, <1>7, <1>11 DEF PInv, SysqInv
  <2>3. QED
    BY <1>1, <2>1, <2>2 DEF PInv, SysqInv
<1>23. HeirInv'
  <2>1. SUFFICES ASSUME NEW w \in Used', Heir(w)' PROVE HeirOK(w)'
    BY DEF HeirInv, HeirOK
  <2>2. w # q /\ w \in Used /\ w \in Pd
    BY <1>9, <1>10, <1>14, <2>1
  <2>3. HeirOK(w) /\ Heir(w)
    BY <1>13, <2>1, <2>2 DEF PInv, HeirInv
  <2>4. Main(w) # x
    BY <1>1, <2>3 DEF HeirOK
  <2>5. st'[Main(w)] = st[Main(w)] /\ pc'[Main(w)] = pc[Main(w)] /\ cnt'[w] = cnt[w]
    BY <1>6, <1>7, <1>11, <2>2, <2>4
  <2>6. QED
    BY <2>3, <2>5 DEF HeirOK
<1>24. QED
  BY <1>9, <1>15, <1>16, <1>17, <1>18, <1>19, <1>20, <1>21, <1>22, <1>23 DEF PInv

(* A chained process gets the pid and the caller of the one that starts    *)
(* it, which becomes a session that get_by_pid() does not find.            *)
LEMMA ChainStep ==
  ASSUME PInv, Uses = {}, NEW x \in Thread, NEW q \in Pd, New(x, q, "chain"),
         CanPlant(x, q, "chain")
  PROVE  PInv'
<1>0. PICK p : p = x[1]
  OBVIOUS
<1> DEFINE c == Caller(p)
<1>1. /\ p = x[1] /\ st[x] = "run" /\ pc[x] = "prog" /\ q \in Pd \ Used /\ p # Root
      /\ "chain" \notin flags[p]
      /\ \A t \in Tid : t # x[2] => ~Between(<<p, t>>)
      /\ pid' = [pid EXCEPT ![q] = pid[p]] /\ nextpid' = nextpid
      /\ parent' = [parent EXCEPT ![q] = parent[p], ![p] = Root]
      /\ ptid' = [ptid EXCEPT ![q] = ptid[p], ![p] = 0]
      /\ flags' = [flags EXCEPT ![q] = flags[p] \cap {"nopwait"},
                                ![p] = @ \cup {"nopwait", "chain"}]
      /\ info' = IF ptid[p] # 0 THEN [info EXCEPT ![c] = q] ELSE info
      /\ cnt' = [cnt EXCEPT ![q] = 1]
      /\ st' = [st EXCEPT ![Main(q)] = "susp"] /\ pc' = [pc EXCEPT ![x] = "launch"]
      /\ tgt' = [tgt EXCEPT ![x] = q]
      /\ UNCHANGED <<wh, todo, lock, sysq, rpid, trap>>
  BY <1>0 DEF New, Enrolled, InProg, Runs, Only, Replaced
<1>2. Types
  BY DEF PInv
<1>3. /\ q # Root /\ flags[q] = {}
      /\ \A z \in Thread : z[1] = q => /\ st[z] = "none" /\ pc[z] = "prog" /\ wh[z] = 0
                                       /\ tgt[z] = None /\ info[z] = None
  BY <1>1, FreeBlock
<1>4. p \in Used /\ p \in Pd /\ p # q
  BY <1>1, AliveUsed
<1>5. /\ \A w \in Pd : pid'[w] = IF w = q THEN pid[p] ELSE pid[w]
      /\ \A w \in Pd : parent'[w] = IF w = p THEN Root ELSE IF w = q THEN parent[p] ELSE parent[w]
      /\ \A w \in Pd : ptid'[w] = IF w = p THEN 0 ELSE IF w = q THEN ptid[p] ELSE ptid[w]
      /\ \A w \in Pd : w # q /\ w # p => flags'[w] = flags[w]
      /\ \A w \in Pd : cnt'[w] = IF w = q THEN 1 ELSE cnt[w]
      /\ flags'[q] = flags[p] \cap {"nopwait"}
      /\ flags'[p] = flags[p] \cup {"nopwait", "chain"}
  BY <1>1, <1>2, <1>4 DEF Types
<1>6. /\ "chain" \notin flags'[q] /\ ("nopwait" \in flags'[q] <=> "nopwait" \in flags[p])
      /\ "chain" \in flags'[p] /\ "nopwait" \in flags'[p]
  BY <1>5
<1>7. /\ \A z \in Thread : st'[z] = IF z = Main(q) THEN "susp" ELSE st[z]
      /\ \A z \in Thread : pc'[z] = IF z = x THEN "launch" ELSE pc[z]
      /\ \A z \in Thread : tgt'[z] = IF z = x THEN q ELSE tgt[z]
  BY <1>1, <1>2 DEF Types
<1>8. /\ pid[p] \in Nat \ {0} /\ nextpid' \in Nat /\ pid[p] < nextpid' /\ nextpid' >= nextpid
      /\ pid[p] # 1 /\ pid[p] \in 0..MaxPid
  <2>1. pid[p] \in Nat /\ nextpid \in Nat /\ pid[p] \in 0..MaxPid
    BY <1>2, <1>4, PidNat DEF Types
  <2>2. pid[p] # 0 /\ pid[p] < nextpid
    BY <1>4 DEF PInv, BlockInv, Used
  <2>3. pid[p] # 1
    BY <1>1, <1>4 DEF PInv, RootInv
  <2>4. QED
    BY <1>1, <2>1, <2>2, <2>3
<1>9. /\ BlockInv' /\ Used' = Used \cup {q}
      /\ \A w \in Used : w # q /\ Slots(w)' = Slots(w)
  <2>1. \A w \in Pd \ Used : w # q => flags'[w] = flags[w]
    BY <1>4, <1>5
  <2>2. QED
    <3>1. PICK n \in Nat \ {0} : n = pid[p]
      BY <1>8
    <3>2. \A w \in Pd : pid'[w] = IF w = q THEN n ELSE pid[w]
      BY <1>5, <3>1
    <3>3. /\ nextpid' \in Nat /\ n < nextpid' /\ nextpid' >= nextpid
      BY <1>8, <3>1
    <3>4. q \in Pd \ Used /\ \A w \in Pd : cnt'[w] = IF w = q THEN 1 ELSE cnt[w]
      BY <1>1, <1>5
    <3>5. \A z \in Thread : st'[z] = IF z = Main(q) THEN "susp" ELSE st[z]
      BY <1>7
    <3>6. QED
      BY <2>1, <3>2, <3>3, <3>4, <3>5, BlockTaken
<1>10. \A w \in Used : w \in Pd /\ w # q
  BY <1>1 DEF Used
<1>11. /\ \A w \in Pd : Main(w) \in Thread /\ (Main(w) = Main(q) <=> w = q)
       /\ Main(q)[1] = q /\ Main(q)[2] = 1 /\ Main(q) # x
  BY <1>1, <1>3, ThreadFacts
<1>12. \A z \in Thread : st[z] # "none" => z[1] \in Used /\ z # Main(q) /\ st'[z] = st[z]
  BY <1>3, <1>7, <1>11, AliveUsed
<1>13. cnt[p] = 1 => x = Main(p)
  BY <1>1, <1>2, <1>4, CntFacts DEF PInv
<1>14. ~Heir(p)
  <2>1. SUFFICES ASSUME Heir(p) PROVE FALSE
    OBVIOUS
  <2>2. HeirOK(p)
    BY <1>4 DEF PInv, HeirInv
  <2>3. QED
    BY <1>1, <1>13, <2>1, <2>2 DEF HeirOK
<1>15. rpid # pid[p] /\ \A w \in Used : w # p => pid[w] # pid[p]
  BY <1>1, <1>14 DEF Heir
<1>16. st[Main(p)] # "gone" /\ \A z \in Thread : pc[z] = "launch" => tgt[z] # p
  <2>1. st[Main(p)] = "gone" => cnt[p] = 1
    <3>1. HAVE st[Main(p)] = "gone"
    <3>2. ThreadOK(Main(p)) /\ Main(p)[1] = p
      BY <1>4, ThreadFacts DEF PInv, ThreadInv
    <3>3. ~(cnt[p] > 1)
      BY <3>1, <3>2 DEF ThreadOK
    <3>4. cnt[p] \in Nat \ {0}
      BY <1>2, <1>4, CntFacts DEF PInv
    <3>5. QED
      BY <3>3, <3>4
  <2>2. \A z \in Thread : pc[z] = "launch" /\ tgt[z] = p => cnt[p] = 1 /\ st[Main(p)] = "susp"
    BY DEF PInv, LaunchInv, LaunchOK
  <2>3. QED
    BY <1>1, <1>13, <2>1, <2>2
<1>17. ptid[p] # 0 => /\ c \in Thread /\ pc[c] = "ret" /\ Ended(c) = p
                      /\ st[c] = "childexec" /\ wh[c] = pid[p] /\ c # x
  <2>1. HAVE ptid[p] # 0
  <2>2. ChildOK(p)
    BY <1>4 DEF PInv, ChildInv
  <2>3. PICK d \in Thread : d = c
    BY <2>1, <2>2 DEF ChildOK
  <2>4. QED
    BY <1>1, <1>16, <2>1, <2>2, <2>3 DEF ChildOK
<1> HIDE DEF c
<1>18. \A z \in Thread : info'[z] = IF ptid[p] # 0 /\ z = c THEN q ELSE info[z]
  BY <1>1, <1>2, <1>17 DEF Types
<1>19. \A z \in Thread : z[1] = p /\ z # x => pc[z] # "launch"
  <2>1. SUFFICES ASSUME NEW z \in Thread, z[1] = p, z # x PROVE pc[z] # "launch"
    OBVIOUS
  <2>2. z[2] \in Tid /\ z[2] # x[2] /\ z = <<p, z[2]>>
    BY <1>0, <2>1, ThreadFacts
  <2>3. ~Between(z)
    BY <1>1, <2>2
  <2>4. QED
    BY <2>3 DEF Between
<1>20. \A w \in Used : w # p => (Heir(w)' <=> Heir(w))
  <2>1. SUFFICES ASSUME NEW w \in Used, w # p PROVE Heir(w)' <=> Heir(w)
    OBVIOUS
  <2>2. flags'[w] = flags[w] /\ pid'[w] = pid[w] /\ rpid' = rpid /\ pid'[q] # pid[w]
    <3>1. w \in Pd /\ w # q /\ w # p /\ pid[w] # pid[p]
      BY <1>10, <1>15, <2>1
    <3>2. flags'[w] = flags[w] /\ pid'[w] = pid[w] /\ pid'[q] = pid[p]
      BY <1>5, <3>1
    <3>3. rpid' = rpid
      BY <1>1
    <3>4. QED
      BY <3>1, <3>2, <3>3
  <2>3. \A u \in Used : pid'[u] = pid[u]
    BY <1>5, <1>10
  <2>4. (\E u \in Used' : pid'[u] = pid[w] /\ u # w) <=> \E u \in Used : pid[u] = pid[w] /\ u # w
    BY <1>9, <2>2, <2>3
  <2>5. QED
    BY <2>2, <2>4 DEF Heir
<1>21. Types'
  <2>1. pid' \in [Pd -> 0..MaxPid] /\ cnt' \in [Pd -> Nat]
    BY <1>1, <1>2, <1>8 DEF Types
  <2>2. parent' \in [Pd -> Pd \cup {None}] /\ ptid' \in [Pd -> 0..MaxTid]
    <3>1. parent[p] \in Pd \cup {None} /\ ptid[p] \in 0..MaxTid /\ Root \in Pd /\ 0 \in 0..MaxTid
      BY <1>2, <1>4, PidNat, ThreadFacts DEF Types
    <3>2. QED
      BY <1>1, <1>2, <3>1 DEF Types
  <2>3. flags' \in [Pd -> SUBSET {"nopwait", "lwait", "chain"}]
    <3>1. flags[p] \cap {"nopwait"} \in SUBSET {"nopwait", "lwait", "chain"}
      OBVIOUS
    <3>2. flags[p] \cup {"nopwait", "chain"} \in SUBSET {"nopwait", "lwait", "chain"}
      BY <1>2, <1>4 DEF Types
    <3>3. \A w \in Pd : flags'[w] \in SUBSET {"nopwait", "lwait", "chain"}
      BY <1>2, <1>5, <3>1, <3>2 DEF Types
    <3>4. flags' = [w \in Pd |-> flags'[w]]
      BY <1>1, <1>2 DEF Types
    <3>5. QED
      BY <3>3, <3>4
  <2>4. st' \in [Thread -> States] /\ pc' \in [Thread -> PCs] /\ tgt' \in [Thread -> Pd \cup {None}]
    BY <1>1, <1>2 DEF Types, States, PCs
  <2>5. info' \in [Thread -> Pd \cup {None}]
    BY <1>1, <1>2 DEF Types
  <2>6. QED
    BY <1>1, <1>2, <2>1, <2>2, <2>3, <2>4, <2>5 DEF Types
<1>22. RootInv'
  <2>1. Root \in Used /\ Root \in Pd
    BY ThreadFacts DEF PInv, RootInv, Used
  <2>2. \A w \in Pd : pid'[w] = 1 <=> w = Root
    BY <1>3, <1>5, <1>8 DEF PInv, RootInv
  <2>3. flags'[Root] = {} /\ ptid'[Root] = 0 /\ Slots(Root)' = {1}
    <3>1. Root # p /\ Root # q /\ Root \in Used
      BY <1>1, <1>3, <2>1
    <3>2. flags'[Root] = flags[Root] /\ ptid'[Root] = ptid[Root]
      BY <1>5, <2>1, <3>1
    <3>3. Slots(Root)' = Slots(Root)
      BY <1>9, <3>1
    <3>4. QED
      BY <3>2, <3>3 DEF PInv, RootInv
  <2>4. st'[Main(Root)] # "gone" /\ pc'[Main(Root)] \in {"prog", "launch", "ret", "stop"}
    BY <1>7, <1>11, <2>1 DEF PInv, RootInv
  <2>5. QED
    BY <1>1, <2>2, <2>3, <2>4 DEF PInv, RootInv
<1>23. ThreadInv'
  <2>1. SUFFICES ASSUME NEW z \in Thread PROVE ThreadOK(z)'
    BY DEF ThreadInv
  <2>2. ThreadOK(z)
    BY DEF PInv, ThreadInv
  <2>3. CASE z = x
    <3>1. st'[x] = "run" /\ pc'[x] = "launch" /\ wh'[x] = wh[x] /\ info'[x] = info[x]
      BY <1>1, <1>7, <1>11, <1>17, <1>18
    <3>2. QED
      BY <1>1, <2>2, <2>3, <3>1 DEF ThreadOK, Waits
  <2>4. CASE z = Main(q)
    <3>1. ~(ptid[p] # 0 /\ z = c)
      BY <1>3, <1>11, <1>17, <2>4
    <3>2. /\ st'[z] = "susp" /\ pc'[z] = "prog" /\ wh'[z] = 0 /\ info'[z] = None /\ tgt'[z] = None
      BY <1>1, <1>3, <1>7, <1>11, <1>18, <2>4, <3>1
    <3>3. QED
      BY <3>2 DEF ThreadOK, Waits
  <2>5. CASE z # x /\ z # Main(q)
    <3>1. st'[z] = st[z] /\ pc'[z] = pc[z] /\ tgt'[z] = tgt[z] /\ wh'[z] = wh[z]
      BY <1>1, <1>7, <2>5
    <3>2. pc[z] # "ret" => info'[z] = info[z]
      BY <1>17, <1>18
    <3>3. st[z] = "tidexit" => pc'[<<z[1], wh[z]>>] = "exit"
      <4>1. HAVE st[z] = "tidexit"
      <4>2. <<z[1], wh[z]>> \in Thread /\ pc[<<z[1], wh[z]>>] = "exit"
        BY <2>2, <4>1, ThreadFacts DEF ThreadOK
      <4>3. QED
        BY <1>1, <1>7, <4>2
    <3>4. st[z] # "none" => cnt'[z[1]] = cnt[z[1]]
      BY <1>5, <1>10, <1>12
    <3>5. st[z] = "waitlnch" => \E w \in Used' : pid'[w] = wh[z] /\ st'[Main(w)] # "gone"
      <4>1. HAVE st[z] = "waitlnch"
      <4>2. PICK w \in Used : pid[w] = wh[z] /\ st[Main(w)] # "gone"
        BY <2>2, <4>1 DEF ThreadOK
      <4>3. pid'[w] = pid[w] /\ st'[Main(w)] = st[Main(w)]
        BY <1>5, <1>7, <1>10, <1>11
      <4>4. QED
        BY <1>9, <4>2, <4>3
    <3>6. QED
      BY <2>2, <3>1, <3>2, <3>3, <3>4, <3>5 DEF ThreadOK, Waits
  <2>6. QED
    BY <2>3, <2>4, <2>5
<1>24. StopInv'
  <2>1. SUFFICES ASSUME NEW z \in Thread, pc'[z] = "stop" PROVE StopOK(z)'
    BY DEF StopInv, StopOK
  <2>2. pc[z] = "stop" /\ tgt'[z] = tgt[z] /\ todo'[z] = todo[z] /\ StopOK(z)
    BY <1>1, <1>7, <2>1 DEF PInv, StopInv
  <2>3. QED
    BY <2>1, <2>2 DEF StopOK
<1>25. FlagInv'
  <2>1. FlagOK(p)
    BY <1>1, <1>4 DEF PInv, FlagInv
  <2>2. SUFFICES ASSUME NEW w \in Used', w # Root PROVE FlagOK(w)'
    BY DEF FlagInv
  <2>3. CASE w = q
    <3>1. \A u \in Used' : u # q /\ pid'[u] = pid'[q] => u = p
      BY <1>5, <1>9, <1>10, <1>15
    <3>2. (ptid'[q] = 0 <=> "nopwait" \in flags'[q]) /\ (ptid'[q] = 0 => parent'[q] = Root)
      BY <1>4, <1>5, <1>6, <2>1 DEF FlagOK
    <3>3. QED
      BY <1>6, <2>3, <3>1, <3>2 DEF FlagOK
  <2>4. CASE w = p
    <3>1. \A u \in Used' : u # p /\ pid'[u] = pid'[p] => u = q
      BY <1>4, <1>5, <1>9, <1>10, <1>15
    <3>2. ptid'[p] = 0 /\ parent'[p] = Root /\ pid'[p] = pid[p]
      BY <1>4, <1>5
    <3>3. rpid' = rpid
      BY <1>1
    <3>4. pid'[p] # rpid'
      BY <1>15, <3>2, <3>3
    <3>5. QED
      BY <1>6, <2>4, <3>1, <3>2, <3>4 DEF FlagOK
  <2>5. CASE w # q /\ w # p
    <3>1. w \in Used /\ w \in Pd /\ FlagOK(w) /\ pid[w] # pid[p]
      BY <1>9, <1>10, <1>15, <2>2, <2>5 DEF PInv, FlagInv
    <3>2. ptid'[w] = ptid[w] /\ parent'[w] = parent[w] /\ flags'[w] = flags[w] /\ pid'[w] = pid[w]
      BY <1>5, <2>5, <3>1
    <3>3. \A u \in Used' : \/ u \in Used /\ pid'[u] = pid[u] /\ flags'[u] = flags[u]
                        \/ pid'[u] # pid[w]
      BY <1>4, <1>5, <1>9, <1>10, <3>1
    <3>4. QED
      BY <1>1, <3>1, <3>2, <3>3 DEF FlagOK
  <2>6. QED
    BY <2>3, <2>4, <2>5
<1>26. LaunchInv'
  <2>1. SUFFICES ASSUME NEW z \in Thread, pc'[z] = "launch" PROVE LaunchOK(z)'
    BY DEF LaunchInv, LaunchOK
  <2>2. \A w \in Thread : w # x /\ pc'[w] = "launch" => /\ pc[w] = "launch" /\ tgt'[w] = tgt[w]
                                                        /\ tgt[w] \in Used
    BY <1>7 DEF PInv, LaunchInv, LaunchOK
  <2>3. CASE z = x
    <3>1. tgt'[x] = q /\ q \in Used' \ {Root} /\ q # p /\ pid'[q] = pid'[p]
      BY <1>3, <1>4, <1>5, <1>7, <1>9
    <3>2. st'[Main(q)] = "susp" /\ cnt'[q] = 1 /\ pc'[Main(q)] = "prog"
      BY <1>3, <1>5, <1>7, <1>11
    <3>3. \A y \in Thread : pc'[y] = "launch" /\ tgt'[y] = q => y = x
      BY <1>10, <2>2
    <3>4. QED
      BY <1>0, <1>6, <2>3, <3>1, <3>2, <3>3 DEF LaunchOK
  <2>4. CASE z # x
    <3>1. pc[z] = "launch" /\ LaunchOK(z) /\ tgt'[z] = tgt[z] /\ z[1] # p
      BY <1>19, <2>1, <2>2, <2>4 DEF PInv, LaunchInv
    <3>2. PICK r \in Used : r = tgt[z] /\ cnt[r] = 1 /\ st[Main(r)] = "susp" /\ pc[Main(r)] = "prog"
      BY <3>1 DEF LaunchOK
    <3>3. r \in Pd /\ r # q /\ r # p /\ z[1] \in Used /\ z[1] \in Pd /\ z[1] # q
      BY <1>10, <1>16, <3>1, <3>2, AliveUsed
    <3>4. /\ st'[Main(r)] = "susp" /\ pc'[Main(r)] = "prog" /\ cnt'[r] = 1 /\ r \in Used'
          /\ (Heir(r)' <=> Heir(r)) /\ flags'[r] = flags[r] /\ flags'[z[1]] = flags[z[1]]
          /\ pid'[r] = pid[r] /\ pid'[z[1]] = pid[z[1]] /\ ptid'[r] = ptid[r] /\ tgt'[z] = r
          /\ Caller(r)' = Caller(r)
      <4>1. Main(r) \in Thread /\ Main(r) # Main(q) /\ Main(r) # x
        BY <1>1, <1>11, <3>2, <3>3
      <4>2. st'[Main(r)] = "susp" /\ pc'[Main(r)] = "prog"
        BY <1>7, <3>2, <4>1
      <4>3. cnt'[r] = 1 /\ r \in Used' /\ (Heir(r)' <=> Heir(r)) /\ tgt'[z] = r
        BY <1>5, <1>9, <1>20, <3>1, <3>2, <3>3
      <4>4. flags'[r] = flags[r] /\ flags'[z[1]] = flags[z[1]]
        BY <1>5, <3>1, <3>3
      <4>5. pid'[r] = pid[r] /\ pid'[z[1]] = pid[z[1]] /\ ptid'[r] = ptid[r] /\ parent'[r] = parent[r]
        BY <1>5, <3>3
      <4>6. QED
        BY <4>2, <4>3, <4>4, <4>5 DEF Caller
    <3>5. \A w \in Thread : pc'[w] = "launch" /\ tgt'[w] = r => pc[w] = "launch" /\ tgt[w] = r
      BY <1>7, <2>2, <3>3
    <3>6. QED
      BY <3>1, <3>2, <3>4, <3>5 DEF LaunchOK
  <2>5. QED
    BY <2>3, <2>4
<1>27. ChildInv'
  <2>1. \A w \in Used' : ChildOK(w)'
    <3>1. SUFFICES ASSUME NEW w \in Used', ptid'[w] # 0 PROVE ChildOK(w)'
      BY DEF ChildOK
    <3>2. CASE w = q
      <4>1. ptid[p] # 0 /\ Caller(q)' = c
        BY <1>1, <1>4, <1>5, <3>1, <3>2 DEF Caller, c
      <4>2. c \in Thread /\ info'[c] = q /\ pc'[c] = "ret" /\ st'[c] = "childexec" /\ wh'[c] = pid'[q]
        BY <1>1, <1>5, <1>7, <1>12, <1>17, <1>18, <4>1
      <4>3. Ended(Caller(q))' = q
        BY <1>1, <4>1, <4>2, ThreadFacts DEF Ended
      <4>4. st'[Main(q)] # "gone"
        BY <1>1, <1>7, <1>11
      <4>5. QED
        BY <3>2, <4>1, <4>2, <4>3, <4>4 DEF ChildOK
    <3>3. CASE w # q
      <4>1. w \in Used /\ w \in Pd /\ w # p
        BY <1>4, <1>5, <1>9, <1>10, <3>1, <3>3
      <4>2. ptid[w] # 0 /\ ChildOK(w) /\ ptid'[w] = ptid[w] /\ pid'[w] = pid[w] /\ parent'[w] = parent[w]
        BY <1>5, <3>1, <3>3, <4>1 DEF PInv, ChildInv
      <4>3. PICK d \in Thread : d = Caller(w)
        BY <4>2 DEF ChildOK
      <4>4. pc[d] \in {"launch", "ret"} /\ d # x /\ (pc[d] = "ret" => Ended(d) = w)
        BY <1>1, <4>2, <4>3 DEF ChildOK
      <4>5. st[d] # "none" /\ d[1] \in Used /\ d[1] # q /\ d[1] \in Pd
        BY <1>10, <4>4, AliveUsed
      <4>6. ~(ptid[p] # 0 /\ d = c)
        BY <1>17, <4>1, <4>4
      <4>7. /\ pc'[d] = pc[d] /\ tgt'[d] = tgt[d] /\ info'[d] = info[d] /\ st'[d] = st[d]
            /\ st'[Main(w)] = st[Main(w)]
        BY <1>7, <1>11, <1>12, <1>18, <3>3, <4>1, <4>4, <4>5, <4>6
      <4>8. Caller(w)' = d /\ parent[w] = d[1]
        BY <4>2, <4>3 DEF Caller
      <4>9. Ended(Caller(w))' = Ended(d)
        BY <4>7, <4>8 DEF Ended
      <4>10. pc[d] = "launch" => flags'[parent[w]] = flags[parent[w]]
        BY <1>5, <1>19, <4>4, <4>5, <4>8
      <4>11. QED
        BY <1>1, <4>2, <4>3, <4>7, <4>8, <4>9, <4>10 DEF ChildOK
    <3>4. QED
      BY <3>2, <3>3
  <2>2. \A z \in Thread : ReturnOK(z)'
    <3>1. SUFFICES ASSUME NEW z \in Thread, pc'[z] = "ret" PROVE ReturnOK(z)'
      BY DEF ReturnOK
    <3>2. z # x /\ pc[z] = "ret" /\ tgt'[z] = tgt[z]
      BY <1>7, <3>1
    <3>3. CASE ptid[p] # 0 /\ z = c
      <4>1. Ended(z)' = q
        <5>1. info'[z] = q
          BY <1>18, <3>3
        <5>2. q # None
          BY <1>1, ThreadFacts
        <5>3. QED
          BY <5>1, <5>2 DEF Ended
      <4>2. q \in Used' /\ ptid'[q] = ptid[p] /\ Caller(q)' = c
        BY <1>1, <1>4, <1>5, <1>9 DEF Caller, c
      <4>3. Caller(Ended(z))' = c
        BY <4>1, <4>2 DEF Caller
      <4>4. QED
        BY <3>3, <4>1, <4>2, <4>3 DEF ReturnOK
    <3>4. CASE ~(ptid[p] # 0 /\ z = c)
      <4>1. PICK f : f = Ended(z) /\ Ended(z)' = f
        BY <1>18, <3>2, <3>4 DEF Ended
      <4>2. f \in Used /\ ptid[f] # 0 /\ Caller(f) = z /\ f \in Pd /\ f # q
        BY <1>10, <3>2, <4>1 DEF PInv, ChildInv, ReturnOK
      <4>3. f # p
        BY <3>4, <4>2 DEF c
      <4>4. f \in Used' /\ ptid'[f] = ptid[f] /\ Caller(f)' = Caller(f) /\ Caller(Ended(z))' = Caller(f)'
        BY <1>5, <1>9, <4>1, <4>2, <4>3 DEF Caller
      <4>5. QED
        BY <3>1, <4>1, <4>2, <4>4 DEF ReturnOK
    <3>5. QED
      BY <3>3, <3>4
  <2>3. QED
    BY <2>1, <2>2 DEF ChildInv
<1>28. SysqInv'
  <2>1. \A w \in Pd : w # q => (w \in Used' <=> w \in Used) /\ st'[Main(w)] = st[Main(w)]
    BY <1>7, <1>9, <1>11
  <2>2. \A w \in Pd : w # q /\ w # p => ptid'[w] = ptid[w]
    BY <1>5
  <2>3. st'[Main(q)] # "gone" /\ ~ \E i \in 1..Len(sysq) : sysq[i] = q
    BY <1>1, <1>7, <1>11 DEF PInv, SysqInv
  <2>4. st'[Main(p)] # "gone" /\ ~ \E i \in 1..Len(sysq) : sysq[i] = p
    BY <1>4, <1>16, <2>1 DEF PInv, SysqInv
  <2>5. \A w \in Pd : (\E i \in 1..Len(sysq) : sysq[i] = w)
                        <=> w \in Used' /\ st'[Main(w)] = "gone" /\ ptid'[w] = 0
    BY <2>1, <2>2, <2>3, <2>4 DEF PInv, SysqInv
  <2>6. QED
    BY <1>1, <2>5 DEF PInv, SysqInv
<1>29. HeirInv'
  <2>1. SUFFICES ASSUME NEW w \in Used', Heir(w)' PROVE HeirOK(w)'
    BY DEF HeirInv, HeirOK
  <2>2. CASE w = q
    BY <1>3, <1>5, <1>7, <1>11, <2>2 DEF HeirOK
  <2>3. CASE w # q
    <3>1. w \in Used /\ w \in Pd /\ w # p
      BY <1>6, <1>9, <1>10, <2>1, <2>3 DEF Heir
    <3>2. HeirOK(w) /\ Heir(w)
      BY <1>20, <2>1, <3>1 DEF PInv, HeirInv
    <3>3. Main(w) # x
      BY <1>1, <3>2 DEF HeirOK
    <3>4. st'[Main(w)] = st[Main(w)] /\ pc'[Main(w)] = pc[Main(w)] /\ cnt'[w] = cnt[w]
      BY <1>5, <1>7, <1>11, <2>3, <3>1, <3>3
    <3>5. QED
      BY <3>2, <3>4 DEF HeirOK
  <2>4. QED
    BY <2>2, <2>3
<1>30. QED
  BY <1>9, <1>21, <1>22, <1>23, <1>24, <1>25, <1>26, <1>27, <1>28, <1>29 DEF PInv

(***************************************************************************)
(* mt_exec()                                                               *)
(***************************************************************************)
(* The queue of the service thread is right as long as nobody ends.        *)
LEMMA SysqKept ==
  ASSUME SysqInv, sysq' = sysq, ptid' = ptid, Used' = Used,
         \A w \in Pd : st'[Main(w)] = "gone" <=> st[Main(w)] = "gone"
  PROVE  SysqInv'
<1>1. \A i, j \in 1..Len(sysq') : sysq'[i] = sysq'[j] => i = j
  BY DEF SysqInv
<1>2. ASSUME NEW w \in Pd
      PROVE  (\E i \in 1..Len(sysq') : sysq'[i] = w)
               <=> w \in Used' /\ st'[Main(w)] = "gone" /\ ptid'[w] = 0
  BY <1>2 DEF SysqInv
<1>3. QED
  BY <1>1, <1>2 DEF SysqInv, Main

(* A session begins, or waits for the end of its launcher.                 *)
LEMMA LaunchSession ==
  ASSUME PInv, NEW x \in Thread, st[x] = "run", pc[x] = "launch",
         "chain" \notin flags[x[1]], NEW q \in Pd, q = tgt[x], "nopwait" \in flags[q],
         NEW s \in {"waitlnch", "run"},
         st' = [st EXCEPT ![Main(q)] = s],
         Handles([wh EXCEPT ![Main(q)] = pid[x[1]]]),
         pc' = [pc EXCEPT ![x] = "prog"], tgt' = [tgt EXCEPT ![x] = None],
         UNCHANGED <<procVars, cnt, info, todo, lock, sysq, rpid, nextpid, trap>>
  PROVE  PInv'
<1> DEFINE p == x[1]
           m == Main(q)
<1>1. Types /\ UNCHANGED <<pid, parent, ptid, flags, cnt, info, todo, lock, sysq, rpid, nextpid, trap>>
  BY DEF PInv, procVars
<1>2. /\ q \in Used \ {Root} /\ q # p /\ st[m] = "susp" /\ cnt[q] = 1 /\ pc[m] = "prog"
      /\ "chain" \notin flags[q] /\ ~Heir(q)
      /\ \A y \in Thread : pc[y] = "launch" /\ tgt[y] = q => y = x
  BY DEF PInv, LaunchInv, LaunchOK
<1>3. p \in Used /\ p \in Pd /\ m \in Thread /\ m[1] = q /\ m[2] = 1 /\ m # x
  BY <1>2, AliveUsed, ThreadFacts
<1>4. \A w \in Pd : Main(w) \in Thread /\ (Main(w) = m <=> w = q)
  BY ThreadFacts
<1>5. /\ \A z \in Thread : st'[z] = IF z = m THEN s ELSE st[z]
      /\ \A z \in Thread : pc'[z] = IF z = x THEN "prog" ELSE pc[z]
      /\ \A z \in Thread : tgt'[z] = IF z = x THEN None ELSE tgt[z]
  BY <1>1 DEF Types
<1>6. \A z \in Thread : wh'[z] = IF st'[z] \notin Waits THEN 0 ELSE IF z = m THEN pid[p] ELSE wh[z]
  BY <1>1, <1>3 DEF Handles, Types
<1> HIDE DEF m
<1>7. /\ \A z \in Thread : st'[z] = "none" <=> st[z] = "none"
      /\ \A z \in Thread : st'[z] = "gone" <=> st[z] = "gone"
  BY <1>2, <1>5
<1>8. BlockInv' /\ Used' = Used /\ \A w \in Pd : Slots(w)' = Slots(w)
  <2>1. nextpid \in Nat /\ pid \in [Pd -> Nat] /\ nextpid' \in Nat /\ nextpid' >= nextpid
    BY <1>1, PidNat
  <2>2. QED
    BY <1>1, <1>7, <2>1, BlockKept DEF PInv
<1>9. \A w \in Pd : Heir(w)' <=> Heir(w)
  BY <1>1, <1>8 DEF Heir
<1>10. st[Main(p)] # "gone"
  <2>1. SUFFICES ASSUME st[Main(p)] = "gone" PROVE FALSE
    OBVIOUS
  <2>2. pc[Main(p)] = "main2" /\ ~(cnt[p] > 1)
    BY <1>3, <2>1, ThreadFacts DEF PInv, ThreadInv, ThreadOK
  <2>3. cnt[p] \in Nat \ {0} /\ (cnt[p] = 1 => x = Main(p))
    BY <1>1, <1>3, CntFacts DEF PInv
  <2>4. QED
    BY <2>2, <2>3
<1>11. Types'
  <2>1. st' \in [Thread -> States] /\ pc' \in [Thread -> PCs] /\ tgt' \in [Thread -> Pd \cup {None}]
    BY <1>1 DEF Types, States, PCs
  <2>2. wh' \in [Thread -> 0..(MaxPid + MaxTid)]
    <3>1. pid[p] \in 0..(MaxPid + MaxTid) /\ 0 \in 0..(MaxPid + MaxTid)
      BY <1>1, <1>3, PidNat DEF Types
    <3>2. \A z \in Thread : wh'[z] \in 0..(MaxPid + MaxTid)
      BY <1>1, <1>6, <3>1 DEF Types
    <3>3. wh' = [z \in Thread |-> wh'[z]]
      BY DEF Handles
    <3>4. QED
      BY <3>2, <3>3
  <2>3. QED
    BY <1>1, <2>1, <2>2 DEF Types
<1>12. RootInv'
  <2>1. Main(Root) \in Thread
    BY ThreadFacts
  <2>2. st'[Main(Root)] # "gone" /\ pc'[Main(Root)] \in {"prog", "launch", "ret", "stop"}
    BY <1>5, <1>7, <2>1 DEF PInv, RootInv
  <2>3. QED
    BY <1>1, <1>8, <2>2, ThreadFacts DEF PInv, RootInv
<1>13. ThreadInv'
  <2>1. SUFFICES ASSUME NEW z \in Thread PROVE ThreadOK(z)'
    BY DEF ThreadInv
  <2>2. ThreadOK(z)
    BY DEF PInv, ThreadInv
  <2>3. CASE z = x
    <3>1. /\ st'[x] = "run" /\ pc'[x] = "prog" /\ tgt'[x] = None /\ info'[x] = None /\ wh'[x] = 0
      BY <1>1, <1>3, <1>5, <1>6, <2>2, <2>3 DEF ThreadOK, Waits
    <3>2. QED
      BY <2>3, <3>1 DEF ThreadOK, Waits
  <2>4. CASE z = m
    <3>1. /\ st'[m] = s /\ pc'[m] = "prog" /\ tgt'[m] = None /\ info'[m] = None
          /\ wh'[m] = IF s = "waitlnch" THEN pid[p] ELSE 0
      BY <1>1, <1>2, <1>3, <1>5, <1>6, <2>2, <2>4 DEF ThreadOK, Waits
    <3>2. p \in Used' /\ pid'[p] = pid[p] /\ st'[Main(p)] # "gone"
      BY <1>1, <1>3, <1>4, <1>7, <1>8, <1>10
    <3>3. QED
      BY <1>1, <1>2, <1>3, <2>4, <3>1, <3>2 DEF ThreadOK, Waits
  <2>5. CASE z # x /\ z # m
    <3>1. st'[z] = st[z] /\ pc'[z] = pc[z] /\ tgt'[z] = tgt[z] /\ wh'[z] = wh[z]
      BY <1>5, <1>6, <2>2, <2>5 DEF ThreadOK
    <3>2. st[z] = "tidexit" => pc'[<<z[1], wh[z]>>] = "exit"
      <4>1. HAVE st[z] = "tidexit"
      <4>2. <<z[1], wh[z]>> \in Thread /\ pc[<<z[1], wh[z]>>] = "exit"
        BY <2>2, <4>1, ThreadFacts DEF ThreadOK
      <4>3. QED
        BY <1>5, <4>2
    <3>3. st[z] = "waitlnch" => \E w \in Used : pid[w] = wh[z] /\ st'[Main(w)] # "gone"
      <4>1. HAVE st[z] = "waitlnch"
      <4>2. PICK w \in Used : pid[w] = wh[z] /\ st[Main(w)] # "gone"
        BY <2>2, <4>1 DEF ThreadOK
      <4>3. st'[Main(w)] # "gone"
        BY <1>4, <1>7, <4>2 DEF Used
      <4>4. QED
        BY <4>2, <4>3
    <3>4. QED
      BY <1>1, <1>8, <2>2, <3>1, <3>2, <3>3 DEF ThreadOK, Waits
  <2>6. QED
    BY <2>3, <2>4, <2>5
<1>14. StopInv' /\ FlagInv'
  BY <1>1, <1>5, <1>8 DEF PInv, StopInv, StopOK, FlagInv, FlagOK
<1>15. LaunchInv'
  <2>1. SUFFICES ASSUME NEW z \in Thread, pc'[z] = "launch" PROVE LaunchOK(z)'
    BY DEF LaunchInv, LaunchOK
  <2>2. z # x /\ pc[z] = "launch" /\ LaunchOK(z) /\ tgt'[z] = tgt[z]
    BY <1>5, <2>1 DEF PInv, LaunchInv
  <2>3. PICK r \in Pd : r = tgt[z] /\ r \in Used /\ st[Main(r)] = "susp" /\ pc[Main(r)] = "prog"
    BY <2>2 DEF LaunchOK, Used
  <2>4. r # q /\ Main(r) # x
    BY <1>2, <2>2, <2>3
  <2>5. /\ st'[Main(r)] = "susp" /\ pc'[Main(r)] = "prog" /\ (Heir(r)' <=> Heir(r))
        /\ tgt'[z] = r /\ Caller(r)' = Caller(r)
    BY <1>1, <1>4, <1>5, <1>9, <2>2, <2>3, <2>4 DEF Caller
  <2>6. \A w \in Thread : pc'[w] = "launch" => pc[w] = "launch" /\ tgt'[w] = tgt[w]
    BY <1>5
  <2>7. QED
    BY <1>1, <1>8, <2>1, <2>2, <2>3, <2>5, <2>6 DEF LaunchOK
<1>16. ptid[q] = 0
  BY <1>2 DEF PInv, FlagInv, FlagOK
<1>17. ChildInv'
  <2>1. \A w \in Used : ChildOK(w)'
    <3>1. SUFFICES ASSUME NEW w \in Used, ptid[w] # 0 PROVE ChildOK(w)'
      BY <1>1 DEF ChildOK
    <3>2. ChildOK(w) /\ w \in Pd /\ w # q
      BY <1>16, <3>1 DEF PInv, ChildInv, Used
    <3>3. PICK c \in Thread : c = Caller(w)
      BY <3>1, <3>2 DEF ChildOK
    <3>4. pc[c] \in {"launch", "ret"} /\ c # x /\ c # m
      BY <1>2, <3>1, <3>2, <3>3 DEF ChildOK
    <3>5. /\ pc'[c] = pc[c] /\ tgt'[c] = tgt[c] /\ st'[c] = st[c] /\ st'[Main(w)] = st[Main(w)]
          /\ (st[c] = "childexec" => wh'[c] = wh[c]) /\ Caller(w)' = c
      BY <1>1, <1>4, <1>5, <1>6, <3>2, <3>3, <3>4 DEF Waits, Caller
    <3>6. Ended(Caller(w))' = Ended(c)
      BY <1>1, <3>5 DEF Ended
    <3>7. QED
      BY <1>1, <3>1, <3>2, <3>3, <3>5, <3>6 DEF ChildOK
  <2>2. \A z \in Thread : ReturnOK(z)'
    <3>1. SUFFICES ASSUME NEW z \in Thread, pc'[z] = "ret" PROVE ReturnOK(z)'
      BY DEF ReturnOK
    <3>2. pc[z] = "ret" /\ tgt'[z] = tgt[z]
      BY <1>5, <3>1
    <3>3. PICK f : f = Ended(z) /\ Ended(z)' = f
      BY <1>1, <3>2 DEF Ended
    <3>4. Caller(f)' = Caller(f) /\ Caller(Ended(z))' = Caller(f)'
      BY <1>1, <3>3 DEF Caller
    <3>5. QED
      BY <1>1, <1>8, <3>1, <3>2, <3>3, <3>4 DEF PInv, ChildInv, ReturnOK
  <2>3. QED
    BY <1>8, <2>1, <2>2 DEF ChildInv
<1>18. SysqInv'
  <2>1. \A w \in Pd : st'[Main(w)] = "gone" <=> st[Main(w)] = "gone"
    BY <1>4, <1>7
  <2>2. QED
    BY <1>1, <1>8, <2>1 DEF PInv, SysqInv
<1>19. HeirInv'
  <2>1. SUFFICES ASSUME NEW w \in Used, Heir(w)' PROVE HeirOK(w)'
    BY <1>8 DEF HeirInv, HeirOK
  <2>2. w \in Pd /\ Heir(w) /\ HeirOK(w)
    BY <1>9, <2>1 DEF Used, PInv, HeirInv
  <2>3. w # q /\ Main(w) # x
    BY <1>2, <2>2 DEF HeirOK
  <2>4. st'[Main(w)] = st[Main(w)] /\ pc'[Main(w)] = pc[Main(w)]
    BY <1>4, <1>5, <2>2, <2>3
  <2>5. QED
    BY <1>1, <2>2, <2>4 DEF HeirOK
<1>20. QED
  BY <1>8, <1>11, <1>12, <1>13, <1>14, <1>15, <1>17, <1>18, <1>19 DEF PInv

(* A program begins, and the thread that has executed it waits.            *)
LEMMA LaunchWait ==
  ASSUME PInv, NEW x \in Thread, st[x] = "run", pc[x] = "launch",
         "chain" \notin flags[x[1]], NEW q \in Pd, q = tgt[x], "nopwait" \notin flags[q],
         st' = [st EXCEPT ![x] = "childexec", ![Main(q)] = "run"],
         wh' = [wh EXCEPT ![x] = pid[q]],
         pc' = [pc EXCEPT ![x] = "ret"],
         UNCHANGED <<procVars, cnt, info, tgt, todo, lock, sysq, rpid, nextpid, trap>>
  PROVE  PInv'
<1> DEFINE p == x[1]
           m == Main(q)
<1>1. Types /\ UNCHANGED <<pid, parent, ptid, flags, cnt, info, tgt, todo, lock, sysq, rpid, nextpid, trap>>
  BY DEF PInv, procVars
<1>2. /\ q \in Used \ {Root} /\ q # p /\ st[m] = "susp" /\ cnt[q] = 1 /\ pc[m] = "prog"
      /\ "chain" \notin flags[q] /\ ~Heir(q) /\ (ptid[q] # 0 => Caller(q) = x)
      /\ \A y \in Thread : pc[y] = "launch" /\ tgt[y] = q => y = x
  BY DEF PInv, LaunchInv, LaunchOK
<1>3. ptid[q] # 0 /\ Caller(q) = x
  BY <1>2 DEF PInv, FlagInv, FlagOK
<1>4. m \in Thread /\ m[1] = q /\ m[2] = 1 /\ m # x
  BY <1>2, ThreadFacts
<1>5. \A w \in Pd : Main(w) \in Thread /\ (Main(w) = m <=> w = q)
  BY ThreadFacts
<1>6. /\ \A z \in Thread : st'[z] = IF z = m THEN "run" ELSE IF z = x THEN "childexec" ELSE st[z]
      /\ \A z \in Thread : pc'[z] = IF z = x THEN "ret" ELSE pc[z]
      /\ \A z \in Thread : wh'[z] = IF z = x THEN pid[q] ELSE wh[z]
  BY <1>1, <1>4 DEF Types
<1>7. Ended(x) = q /\ info[x] = None
  BY DEF PInv, ThreadInv, ThreadOK, Ended
<1> HIDE DEF m
<1>8. /\ \A z \in Thread : st'[z] = "none" <=> st[z] = "none"
      /\ \A z \in Thread : st'[z] = "gone" <=> st[z] = "gone"
  <2>1. \A z \in Thread : z # m /\ z # x => st'[z] = st[z]
    BY <1>6
  <2>2. st[m] = "susp" /\ st[x] = "run" /\ st'[m] = "run" /\ (x # m => st'[x] = "childexec")
    BY <1>2, <1>4, <1>6
  <2>3. QED
    BY <1>4, <2>1, <2>2
<1>9. BlockInv' /\ Used' = Used /\ \A w \in Pd : Slots(w)' = Slots(w)
  <2>1. nextpid \in Nat /\ pid \in [Pd -> Nat] /\ nextpid' \in Nat /\ nextpid' >= nextpid
    BY <1>1, PidNat
  <2>2. QED
    BY <1>1, <1>8, <2>1, BlockKept DEF PInv
<1>10. \A w \in Pd : Heir(w)' <=> Heir(w)
  BY <1>1, <1>9 DEF Heir
<1>11. Types'
  <2>1. st' \in [Thread -> States] /\ pc' \in [Thread -> PCs]
    BY <1>1 DEF Types, States, PCs
  <2>2. wh' \in [Thread -> 0..(MaxPid + MaxTid)]
    <3>1. pid[q] \in 0..(MaxPid + MaxTid)
      BY <1>1, PidNat DEF Types
    <3>2. QED
      BY <1>1, <3>1 DEF Types
  <2>3. QED
    BY <1>1, <2>1, <2>2 DEF Types
<1>12. RootInv'
  <2>1. Main(Root) \in Thread
    BY ThreadFacts
  <2>2. st'[Main(Root)] # "gone" /\ pc'[Main(Root)] \in {"prog", "launch", "ret", "stop"}
    BY <1>6, <1>8, <2>1 DEF PInv, RootInv
  <2>3. QED
    BY <1>1, <1>9, <2>2, ThreadFacts DEF PInv, RootInv
<1>13. ThreadInv'
  <2>1. SUFFICES ASSUME NEW z \in Thread PROVE ThreadOK(z)'
    BY DEF ThreadInv
  <2>2. ThreadOK(z)
    BY DEF PInv, ThreadInv
  <2>3. CASE z = x
    <3>1. st'[x] = "childexec" /\ pc'[x] = "ret"
      BY <1>4, <1>6
    <3>2. QED
      BY <2>3, <3>1 DEF ThreadOK, Waits
  <2>4. CASE z = m
    <3>1. /\ st'[m] = "run" /\ pc'[m] = "prog" /\ tgt'[m] = tgt[m] /\ info'[m] = info[m]
          /\ wh'[m] = wh[m]
      BY <1>1, <1>2, <1>4, <1>6
    <3>2. QED
      BY <1>2, <2>2, <2>4, <3>1 DEF ThreadOK, Waits
  <2>5. CASE z # x /\ z # m
    <3>1. st'[z] = st[z] /\ pc'[z] = pc[z] /\ tgt'[z] = tgt[z] /\ wh'[z] = wh[z]
      BY <1>1, <1>6, <2>5
    <3>2. st[z] = "tidexit" => pc'[<<z[1], wh[z]>>] = "exit"
      <4>1. HAVE st[z] = "tidexit"
      <4>2. <<z[1], wh[z]>> \in Thread /\ pc[<<z[1], wh[z]>>] = "exit"
        BY <2>2, <4>1, ThreadFacts DEF ThreadOK
      <4>3. QED
        BY <1>6, <4>2
    <3>3. st[z] = "waitlnch" => \E w \in Used : pid[w] = wh[z] /\ st'[Main(w)] # "gone"
      <4>1. HAVE st[z] = "waitlnch"
      <4>2. PICK w \in Used : pid[w] = wh[z] /\ st[Main(w)] # "gone"
        BY <2>2, <4>1 DEF ThreadOK
      <4>3. st'[Main(w)] # "gone"
        BY <1>5, <1>8, <4>2 DEF Used
      <4>4. QED
        BY <4>2, <4>3
    <3>4. QED
      BY <1>1, <1>9, <2>2, <3>1, <3>2, <3>3 DEF ThreadOK, Waits
  <2>6. QED
    BY <2>3, <2>4, <2>5
<1>14. StopInv' /\ FlagInv'
  BY <1>1, <1>6, <1>9 DEF PInv, StopInv, StopOK, FlagInv, FlagOK
<1>15. LaunchInv'
  <2>1. SUFFICES ASSUME NEW z \in Thread, pc'[z] = "launch" PROVE LaunchOK(z)'
    BY DEF LaunchInv, LaunchOK
  <2>2. z # x /\ pc[z] = "launch" /\ LaunchOK(z)
    BY <1>6, <2>1 DEF PInv, LaunchInv
  <2>3. PICK r \in Pd : r = tgt[z] /\ r \in Used /\ st[Main(r)] = "susp" /\ pc[Main(r)] = "prog"
    BY <2>2 DEF LaunchOK, Used
  <2>4. r # q /\ Main(r) # x
    BY <1>2, <2>2, <2>3
  <2>5. /\ st'[Main(r)] = "susp" /\ pc'[Main(r)] = "prog" /\ (Heir(r)' <=> Heir(r))
        /\ tgt'[z] = r /\ Caller(r)' = Caller(r)
    BY <1>1, <1>5, <1>6, <1>10, <2>3, <2>4 DEF Caller
  <2>6. \A w \in Thread : pc'[w] = "launch" => pc[w] = "launch"
    BY <1>6
  <2>7. QED
    BY <1>1, <1>9, <2>1, <2>2, <2>3, <2>5, <2>6 DEF LaunchOK
<1>16. \A z \in Thread : Ended(z)' = Ended(z)
  BY <1>1 DEF Ended
<1>17. ChildInv'
  <2>1. \A w \in Used : ChildOK(w)'
    <3>1. SUFFICES ASSUME NEW w \in Used, ptid[w] # 0 PROVE ChildOK(w)'
      BY <1>1 DEF ChildOK
    <3>2. CASE w = q
      <4>1. Caller(q)' = x /\ pc'[x] = "ret" /\ st'[x] = "childexec" /\ wh'[x] = pid[q]
            /\ st'[Main(q)] # "gone"
        BY <1>1, <1>2, <1>3, <1>4, <1>5, <1>6 DEF Caller
      <4>2. Ended(Caller(q))' = q
        BY <1>1, <1>7, <4>1 DEF Ended
      <4>3. QED
        BY <1>1, <3>2, <4>1, <4>2 DEF ChildOK
    <3>3. CASE w # q
      <4>1. ChildOK(w) /\ w \in Pd
        BY DEF PInv, ChildInv, Used
      <4>2. PICK c \in Thread : c = Caller(w)
        BY <3>1, <4>1 DEF ChildOK
      <4>3. pc[c] \in {"launch", "ret"} /\ c # x /\ c # m
        BY <1>2, <3>1, <3>3, <4>1, <4>2 DEF ChildOK
      <4>4. /\ pc'[c] = pc[c] /\ st'[c] = st[c] /\ wh'[c] = wh[c]
            /\ (st'[Main(w)] = "gone" <=> st[Main(w)] = "gone")
            /\ Caller(w)' = c
        <5>1. pc'[c] = pc[c] /\ st'[c] = st[c] /\ wh'[c] = wh[c] /\ Caller(w)' = c
          BY <1>1, <1>6, <4>2, <4>3 DEF Caller
        <5>2. Main(w) \in Thread /\ Main(w) # m
          BY <1>5, <3>3, <4>1
        <5>3. QED
          BY <1>8, <5>1, <5>2
      <4>5. Ended(Caller(w))' = Ended(c)
        BY <1>1, <4>4 DEF Ended
      <4>6. QED
        BY <1>1, <3>1, <4>1, <4>2, <4>4, <4>5 DEF ChildOK
    <3>4. QED
      BY <3>2, <3>3
  <2>2. \A z \in Thread : ReturnOK(z)'
    <3>1. SUFFICES ASSUME NEW z \in Thread, pc'[z] = "ret" PROVE ReturnOK(z)'
      BY DEF ReturnOK
    <3>2. PICK f : f = Ended(z) /\ Ended(z)' = f
      BY <1>16
    <3>3. f \in Used /\ ptid[f] # 0 /\ Caller(f) = z
      BY <1>2, <1>3, <1>6, <1>7, <3>1, <3>2 DEF PInv, ChildInv, ReturnOK
    <3>4. Caller(f)' = Caller(f) /\ Caller(Ended(z))' = Caller(f)'
      BY <1>1, <3>2 DEF Caller
    <3>5. QED
      BY <1>1, <1>9, <3>1, <3>2, <3>3, <3>4 DEF ReturnOK
  <2>3. QED
    BY <1>9, <2>1, <2>2 DEF ChildInv
<1>18. SysqInv'
  <2>1. \A w \in Pd : st'[Main(w)] = "gone" <=> st[Main(w)] = "gone"
    BY <1>5, <1>8
  <2>2. QED
    BY <1>1, <1>9, <2>1, SysqKept DEF PInv
<1>19. HeirInv'
  <2>1. SUFFICES ASSUME NEW w \in Used, Heir(w)' PROVE HeirOK(w)'
    BY <1>9 DEF HeirInv, HeirOK
  <2>2. w \in Pd /\ Heir(w) /\ HeirOK(w)
    BY <1>10, <2>1 DEF Used, PInv, HeirInv
  <2>3. w # q /\ Main(w) # x
    BY <1>2, <2>2 DEF HeirOK
  <2>4. st'[Main(w)] = st[Main(w)] /\ pc'[Main(w)] = pc[Main(w)]
    BY <1>5, <1>6, <2>2, <2>3
  <2>5. QED
    BY <1>1, <2>2, <2>4 DEF HeirOK
<1>20. QED
  BY <1>9, <1>11, <1>12, <1>13, <1>14, <1>15, <1>17, <1>18, <1>19 DEF PInv

(* check_prcdata_early() holds; a chain goes on with mod_stop().           *)
LEMMA LaunchStep ==
  ASSUME PInv, NEW x \in Thread, Launch(x)
  PROVE  PInv'
<1>1. PICK q : q = tgt[x]
  OBVIOUS
<1>2. st[x] = "run" /\ pc[x] = "launch" /\ UNCHANGED <<procVars, cnt, info, sysq, rpid, nextpid>>
  BY DEF Launch, Runs
<1>3. q \in Used /\ q \in Pd /\ cnt[q] = 1 /\ pc[Main(q)] = "prog"
  BY <1>1, <1>2 DEF PInv, LaunchInv, LaunchOK, Used
<1>4. Untouched(q)
  BY <1>3, OneSlot DEF PInv, Untouched
<1>5. CASE "chain" \in flags[x[1]]
  <2>1. Stopping(x, 0, x[1]) /\ UNCHANGED <<wh, tgt, trap>>
    BY <1>1, <1>4, <1>5 DEF Launch, Chained
  <2>2. x[1] \in Pd /\ 0 \in 0..MaxPid
    BY PidNat, ThreadFacts DEF PInv
  <2>3. QED
    BY <1>2, <1>5, <2>1, <2>2, StoppingStep
<1>6. CASE "chain" \notin flags[x[1]] /\ "nopwait" \in flags[q]
  <2>1. PICK s \in {"waitlnch", "run"} : s = IF "lwait" \in flags[q] THEN "waitlnch" ELSE "run"
    OBVIOUS
  <2>2. /\ st' = [st EXCEPT ![Main(q)] = s] /\ Handles([wh EXCEPT ![Main(q)] = pid[x[1]]])
        /\ pc' = [pc EXCEPT ![x] = "prog"] /\ tgt' = [tgt EXCEPT ![x] = None]
        /\ UNCHANGED <<todo, lock, trap>>
    BY <1>1, <1>4, <1>6, <2>1 DEF Launch, Chained
  <2>3. UNCHANGED <<procVars, cnt, info, todo, lock, sysq, rpid, nextpid, trap>>
    BY <1>2, <2>2
  <2>4. QED
    BY <1>1, <1>2, <1>3, <1>6, <2>2, <2>3, LaunchSession
<1>7. CASE "chain" \notin flags[x[1]] /\ "nopwait" \notin flags[q]
  <2>1. /\ st' = [st EXCEPT ![x] = "childexec", ![Main(q)] = "run"]
        /\ wh' = [wh EXCEPT ![x] = pid[q]] /\ pc' = [pc EXCEPT ![x] = "ret"]
        /\ UNCHANGED <<tgt, todo, lock, trap>>
    BY <1>1, <1>4, <1>7 DEF Launch, Chained
  <2>2. UNCHANGED <<procVars, cnt, info, tgt, todo, lock, sysq, rpid, nextpid, trap>>
    BY <1>2, <2>1
  <2>3. QED
    BY <1>1, <1>2, <1>3, <1>7, <2>1, <2>2, LaunchWait
<1>8. QED
  BY <1>5, <1>6, <1>7

(* mt_new() finds the lists whole and puts the new process into one.       *)
LEMMA NewTree ==
  ASSUME PInv, TreeInv, Uses = {}, NEW x \in Thread, NEW q \in Pd, NEW kind \in AllKinds,
         New(x, q, kind)
  PROVE  CanPlant(x, q, kind) /\ TreeInv'
<1> DEFINE p == x[1]
           U == Used \ {Root}
           O == Used \cup {q}
           F == Father(x, kind)
           t0 == Erased(tree, q)
           t1 == Planted(x, q, kind)
           par2 == IF kind = "chain" THEN [parent EXCEPT ![p] = Root] ELSE parent
           par3 == [par2 EXCEPT ![q] = F]
<1>1. /\ st[x] = "run" /\ q \in Pd \ Used /\ (kind = "chain" => p # Root /\ tree.next[p] = None)
      /\ parent \in [Pd -> Pd \cup {None}] /\ pid \in [Pd -> 0..MaxPid]
  BY DEF New, InProg, Runs, Only, PInv, Types
<1>2. /\ p \in Used /\ p \in Pd /\ p # q /\ q # Root /\ Root \in Used /\ Root \in Pd
      /\ U \subseteq Used /\ U \subseteq Pd /\ q \notin U /\ Used \subseteq Pd
      /\ Forest(tree, parent, Used, U)
  <2>1. p \in Used /\ p \in Pd
    BY <1>1, AliveUsed
  <2>2. Root \in Used /\ Root \in Pd
    BY ThreadFacts DEF PInv, RootInv, Used
  <2>3. QED
    BY <1>1, <2>1, <2>2 DEF TreeInv, Used
<1>3. \A u \in U : parent[u] \in Used
  BY <1>2 DEF Forest
<1>4. F \in Used /\ F # q
  <2>1. F \in Used
    BY <1>1, <1>2, <1>3 DEF Father, AllKinds
  <2>2. QED
    BY <1>1, <2>1
<1>5. /\ \A u \in Pd : par2[u] = IF kind = "chain" /\ u = p THEN Root ELSE parent[u]
      /\ \A u \in Pd : par3[u] = IF u = q THEN F ELSE par2[u]
  BY <1>1, <1>2
<1>6. Planted(x, q, kind) = IF kind = "chain" THEN Moved(t0, p) ELSE t0
  BY DEF Planted
<1>7. p = x[1] /\ O = Used \cup {q} /\ U = Used \ {Root} /\ F = Father(x, kind)
      /\ t1 = Planted(x, q, kind) /\ t0 = Erased(tree, q)
  OBVIOUS
<1>8. par2 = (IF kind = "chain" THEN [parent EXCEPT ![p] = Root] ELSE parent)
      /\ par3 = [par2 EXCEPT ![q] = F]
  OBVIOUS
<1> HIDE DEF p, U, O, F, t0, t1, par2, par3
<1>9. /\ t0.next[q] = None /\ Forest(t0, parent, O, U)
      /\ \A g \in Pd \ {q} : t0.next[g] = tree.next[g]
  <2>1. PICK t, W, par : t = tree /\ W = Used /\ par = parent
    OBVIOUS
  <2>2. /\ Forest(t, par, W, U) /\ q \notin U /\ O \subseteq W \cup {q}
        /\ \A u \in U : par[u] \in O /\ par[u] # q
    BY <1>1, <1>2, <1>3, <1>7, <2>1
  <2>3. /\ Erased(t, q).next[q] = None /\ Forest(Erased(t, q), par, O, U)
        /\ \A g \in Pd \ {q} : Erased(t, q).next[g] = t.next[g]
    BY <2>2, EraseForest
  <2>4. QED
    BY <1>7, <2>1, <2>3
<1>10. ASSUME kind = "chain"
       PROVE  /\ CanMove(t0, p) /\ Forest(t1, par2, O, U) /\ t1.next[q] = None
              /\ ptid[p] # 0 => st[Caller(p)] # "none"
  <2>1. /\ p \in U /\ t0.next[p] = None /\ par2[p] = Root /\ \A u \in U : u # p => par2[u] = parent[u]
        /\ Root \in O
    BY <1>1, <1>2, <1>5, <1>7, <1>9, <1>10
  <2>2. /\ CanMove(t0, p) /\ Forest(Moved(t0, p), par2, O, U)
        /\ \A g \in Pd \ U : Moved(t0, p).next[g] = t0.next[g]
    BY <1>2, <1>9, <2>1, MoveForest
  <2>3. ptid[p] # 0 => st[Caller(p)] # "none"
    BY <1>2 DEF PInv, ChildInv, ChildOK, ThreadInv, ThreadOK
  <2>4. QED
    BY <1>2, <1>6, <1>7, <1>9, <1>10, <2>2, <2>3
<1>11. Forest(t1, par2, O, U) /\ t1.next[q] = None
  <2>1. CASE kind = "chain"
    BY <1>10, <2>1
  <2>2. CASE kind # "chain"
    <3>1. t1 = t0
      BY <1>6, <1>7, <2>2
    <3>2. par2 = parent
      BY <1>8, <2>2
    <3>3. QED
      BY <1>9, <3>1, <3>2
  <2>3. QED
    BY <2>1, <2>2
<1>12. /\ Walk(t1.next, t1.first[F]) \subseteq U /\ Ends(t1.next, t1.first[F])
       /\ Forest(Linked(t1, F, q), par3, O, U \cup {q})
  <2>1. F \in O /\ par3[q] = F /\ \A u \in U : par3[u] = par2[u]
    BY <1>2, <1>4, <1>5, <1>7
  <2>2. QED
    BY <1>2, <1>11, <2>1, LinkForest
<1>13. CanPlant(x, q, kind)
  <2>1. CanLink(t1, F)
    BY <1>2, <1>12 DEF CanLink
  <2>2. QED
    BY <1>7, <1>10, <2>1 DEF CanPlant
<1>14. Enrolled(x, q, kind)
  BY <1>13 DEF New
<1>15. /\ pid' = [pid EXCEPT ![q] = IF kind = "chain" THEN pid[p] ELSE nextpid]
       /\ parent' = IF kind = "chain" THEN [parent EXCEPT ![q] = parent[p], ![p] = Root]
                    ELSE [parent EXCEPT ![q] = IF kind = "exec" THEN p ELSE Root]
       /\ ppid' = [r \in Pd |-> IF r = q THEN pid[F]
                               ELSE IF kind = "chain" /\ r = p THEN pid[Root] ELSE ppid[r]]
       /\ tree' = Linked(t1, F, q)
       /\ kind # "chain" => nextpid <= MaxPid
  BY <1>7, <1>14 DEF Enrolled, New
<1>16. /\ \A u \in Pd : u # q => pid'[u] = pid[u]
       /\ pid'[q] # 0 /\ Used' = Used \cup {q}
  <2>1. \A u \in Pd : u # q => pid'[u] = pid[u]
    BY <1>1, <1>15
  <2>2. pid'[q] # 0
    <3>1. pid[p] # 0 /\ nextpid # 0
      BY <1>2 DEF Used, PInv, Types
    <3>2. QED
      BY <1>1, <1>15, <3>1
  <2>3. QED
    BY <1>1, <2>1, <2>2 DEF Used
<1>17. \A u \in Pd : parent'[u] = par3[u]
  <2>1. CASE kind = "chain"
    BY <1>1, <1>2, <1>5, <1>7, <1>15, <2>1 DEF Father
  <2>2. CASE kind # "chain"
    BY <1>1, <1>2, <1>5, <1>7, <1>15, <2>2 DEF Father, AllKinds
  <2>3. QED
    BY <2>1, <2>2
<1>18. Forest(tree, parent, Used, Used \ {Root})'
  <2>1. PICK par4, t4, W : par4 = parent' /\ t4 = tree' /\ W = U \cup {q}
    OBVIOUS
  <2>2. Forest(t4, par3, O, W) /\ \A u \in W : par4[u] = par3[u]
    BY <1>2, <1>12, <1>15, <1>17, <2>1
  <2>3. Forest(t4, par4, O, W)
    BY <2>2, SameParents
  <2>4. Used' = O /\ Used' \ {Root} = W
    BY <1>2, <1>7, <1>16, <2>1
  <2>5. Forest(tree', parent', Used', Used' \ {Root})
    BY <2>1, <2>3, <2>4
  <2>6. QED
    BY <2>5 DEF Forest, Walk, Ends, Steps
<1>19. ppid' \in [Pd -> 0..MaxPid]
  <2>1. ppid \in [Pd -> 0..MaxPid] /\ pid[F] \in 0..MaxPid /\ pid[Root] \in 0..MaxPid
    BY <1>1, <1>2, <1>4 DEF TreeInv
  <2>2. QED
    BY <1>15, <2>1
<1>20. ASSUME NEW u \in Used' \ {Root}
       PROVE  ppid'[u] = pid'[parent'[u]]
  <2>1. u \in Pd /\ (u = q \/ u \in U)
    BY <1>2, <1>7, <1>16
  <2>2. CASE u = q
    <3>1. parent'[u] = F /\ F \in Pd
      BY <1>2, <1>4, <1>5, <1>17, <2>1, <2>2
    <3>2. ppid'[u] = pid[F]
      BY <1>15, <2>1, <2>2
    <3>3. QED
      BY <1>4, <1>16, <3>1, <3>2
  <2>3. CASE u # q /\ kind = "chain" /\ u = p
    <3>1. parent'[u] = Root
      BY <1>5, <1>17, <2>1, <2>3
    <3>2. ppid'[u] = pid[Root]
      BY <1>15, <2>1, <2>3
    <3>3. QED
      BY <1>2, <1>16, <3>1, <3>2
  <2>4. CASE u # q /\ ~(kind = "chain" /\ u = p)
    <3>1. ppid[u] = pid[parent[u]] /\ parent[u] \in Used /\ parent[u] # q
      BY <1>1, <1>3, <1>7, <2>1, <2>4 DEF TreeInv
    <3>2. ppid'[u] = ppid[u] /\ parent'[u] = parent[u]
      BY <1>5, <1>15, <1>17, <2>1, <2>4
    <3>3. QED
      BY <1>2, <1>16, <3>1, <3>2
  <2>5. QED
    BY <2>2, <2>3, <2>4
<1>21. QED
  BY <1>13, <1>18, <1>19, <1>20 DEF TreeInv

(* mt_exit() takes the process out of the list it is in.                   *)
LEMMA ReapTree ==
  ASSUME PInv, TreeInv, NEW e \in Used \ {Root}, st[Main(e)] = "gone", Reaped(e)
  PROVE  TreeInv'
<1>1. CASE ~Sound(e)
  <2>1. UNCHANGED <<pid, parent, ppid, tree>>
    BY <1>1 DEF Reaped, procVars
  <2>2. QED
    BY <2>1, TreeKept
<1>2. CASE Sound(e)
  <2> DEFINE U == Used \ {Root}
             r == Unlinked(tree, parent[e], e)
  <2>1. /\ pid' = [pid EXCEPT ![e] = 0] /\ parent' = [parent EXCEPT ![e] = None]
        /\ ppid' = [ppid EXCEPT ![e] = 0] /\ tree' = Erased(r, e)
    BY <1>2 DEF Reaped
  <2>2. /\ Forest(tree, parent, Used, U) /\ e \in U /\ e \in Pd /\ Used \subseteq Pd
        /\ parent[e] \in Used /\ \A u \in U : parent[u] \in Used /\ parent[u] # e
    BY TreeSound DEF TreeInv, Forest, Used
  <2>3. /\ parent \in [Pd -> Pd \cup {None}] /\ pid \in [Pd -> 0..MaxPid]
        /\ ppid \in [Pd -> 0..MaxPid] /\ 0 \in 0..MaxPid
    BY ProcConstants DEF TreeInv, PInv, Types
  <2>4. Used' = Used \ {e} /\ \A u \in Pd : u # e => pid'[u] = pid[u] /\ parent'[u] = parent[u]
    BY <2>1, <2>2, <2>3 DEF Used
  <2>5. U = Used \ {Root}
    OBVIOUS
  <2> HIDE DEF U, r
  <2>6. PICK par, W, V, O2 : par = parent /\ W = Used /\ V = U \ {e} /\ O2 = Used \ {e}
    OBVIOUS
  <2>7. Forest(r, par, W, V)
    <3>1. PICK t : t = tree
      OBVIOUS
    <3>2. Forest(t, par, W, U)
      BY <2>2, <2>6, <3>1
    <3>3. Forest(Unlinked(t, par[e], e), par, W, U \ {e})
      BY <2>2, <3>2, UnlinkForest
    <3>4. QED
      BY <2>6, <3>1, <3>3 DEF r
  <2>8. Forest(Erased(r, e), par, O2, V)
    <3>1. e \notin V /\ O2 \subseteq W \cup {e} /\ \A u \in V : par[u] \in O2 /\ par[u] # e
      BY <2>2, <2>6
    <3>2. QED
      BY <2>2, <2>7, <3>1, EraseForest
  <2>9. Forest(tree, parent, Used, Used \ {Root})'
    <3>1. PICK par4, t4 : par4 = parent' /\ t4 = tree'
      OBVIOUS
    <3>2. Forest(t4, par, O2, V) /\ \A u \in V : par4[u] = par[u]
      BY <2>1, <2>2, <2>4, <2>6, <2>8, <3>1
    <3>3. Forest(t4, par4, O2, V)
      BY <3>2, SameParents
    <3>4. Used' = O2 /\ Used' \ {Root} = V
      BY <2>4, <2>5, <2>6
    <3>5. Forest(tree', parent', Used', Used' \ {Root})
      BY <3>1, <3>3, <3>4
    <3>6. QED
      BY <3>5 DEF Forest, Walk, Ends, Steps
  <2>10. ppid' \in [Pd -> 0..MaxPid]
    BY <2>1, <2>3
  <2>11. ASSUME NEW u \in Used' \ {Root}
         PROVE  ppid'[u] = pid'[parent'[u]]
    <3>1. u \in U /\ u # e /\ u \in Pd
      BY <2>2, <2>4, <2>5
    <3>2. ppid[u] = pid[parent[u]] /\ parent[u] \in Used /\ parent[u] # e
      BY <2>2, <2>5, <3>1 DEF TreeInv
    <3>3. ppid'[u] = ppid[u]
      BY <2>1, <2>3, <3>1
    <3>4. QED
      BY <2>2, <2>4, <3>1, <3>2, <3>3
  <2>12. QED
    BY <2>9, <2>10, <2>11 DEF TreeInv
<1>3. QED
  BY <1>1, <1>2

(***************************************************************************)
(* The specification                                                       *)
(***************************************************************************)
LEMMA InitPInv == Init => PInv
<1> SUFFICES ASSUME Init PROVE PInv
  OBVIOUS
<1> USE DEF Init
<1>1. Used = {Root}
  BY ThreadFacts DEF Used
<1>2. \A x \in Thread : st[x] = (IF x = Main(Root) THEN "run" ELSE "none") /\ pc[x] = "prog"
                        /\ wh[x] = 0 /\ tgt[x] = None /\ info[x] = None
  BY DEF Main
<1>3. Slots(Root) = {1}
  <2>1. \A t \in Tid : st[<<Root, t>>] # "none" <=> t = 1
    BY ThreadFacts
  <2>2. QED
    BY <2>1, ThreadFacts DEF Slots
<1>4. \A p \in Pd : p # Root => Slots(p) = {}
  <2>1. \A p \in Pd, t \in Tid : p # Root => st[<<p, t>>] = "none"
    BY ThreadFacts
  <2>2. QED
    BY <2>1 DEF Slots
<1>5. Types
  <2>1. MaxPid \in Nat \ {0} /\ MaxTid \in Nat
    BY ProcConstants
  <2>2. /\ 0 \in 0..MaxPid /\ 1 \in 0..MaxPid /\ 2 \in 2..(MaxPid + 1)
        /\ 0 \in 0..MaxTid /\ 0 \in 0..(MaxPid + MaxTid)
    BY <2>1
  <2>3. pid \in [Pd -> 0..MaxPid] /\ nextpid \in 2..(MaxPid + 1) /\ rpid \in 0..MaxPid
    BY <2>2
  <2>4. /\ parent \in [Pd -> Pd \cup {None}] /\ ptid \in [Pd -> 0..MaxTid]
        /\ flags \in [Pd -> SUBSET {"nopwait", "lwait", "chain"}] /\ cnt \in [Pd -> Nat]
    BY <2>2
  <2>5. /\ st \in [Thread -> States] /\ pc \in [Thread -> PCs]
        /\ wh \in [Thread -> 0..(MaxPid + MaxTid)]
        /\ tgt \in [Thread -> Pd \cup {None}] /\ info \in [Thread -> Pd \cup {None}]
    BY <2>2 DEF States, PCs
  <2>6. todo \in [Thread -> [pid : 0..MaxPid, tids : Seq(Tid)]]
    BY <2>2 DEF Clean
  <2>7. sysq \in Seq(Pd) /\ lock \in Thread \cup {None} /\ trap = FALSE
    OBVIOUS
  <2>8. QED
    BY <2>3, <2>4, <2>5, <2>6, <2>7 DEF Types
<1>6. BlockInv
  <2>1. SUFFICES ASSUME NEW p \in Pd
                 PROVE  /\ cnt[p] = Cardinality(Slots(p))
                        /\ p \in Used => 1 \in Slots(p) /\ pid[p] < nextpid
                        /\ p \notin Used => Slots(p) = {} /\ flags[p] = {}
    BY DEF BlockInv
  <2>2. CASE p = Root
    <3>1. cnt[p] = 1 /\ pid[p] = 1 /\ nextpid = 2 /\ p \in Used /\ Slots(p) = {1}
      BY <1>1, <1>3, <2>2
    <3>2. Cardinality({1}) = 1
      BY FS_Singleton
    <3>3. QED
      BY <3>1, <3>2
  <2>3. CASE p # Root
    <3>1. cnt[p] = 0 /\ flags[p] = {} /\ p \notin Used /\ Slots(p) = {}
      BY <1>1, <1>4, <2>3
    <3>2. Cardinality({}) = 0
      BY FS_EmptySet
    <3>3. QED
      BY <3>1, <3>2
  <2>4. QED
    BY <2>2, <2>3
<1>7. RootInv
  BY <1>2, <1>3, ThreadFacts DEF RootInv
<1>8. ThreadInv
  BY <1>2, ThreadFacts DEF ThreadInv, ThreadOK, Waits
<1>9. StopInv /\ FlagInv /\ LaunchInv
  BY <1>1, <1>2 DEF StopInv, StopOK, FlagInv, LaunchInv, LaunchOK
<1>10. ChildInv
  BY <1>1, <1>2 DEF ChildInv, ChildOK, ReturnOK, Used
<1>11. SysqInv
  BY <1>2, ThreadFacts DEF SysqInv
<1>12. HeirInv
  <2>1. rpid = 0 /\ pid[Root] = 1 /\ \A p, q \in Used : p = q
    BY <1>1, ThreadFacts
  <2>2. \A p \in Used : ~Heir(p)
    BY <1>1, <2>1 DEF Heir
  <2>3. QED
    BY <2>2 DEF HeirInv, HeirOK
<1>13. QED
  BY <1>5, <1>6, <1>7, <1>8, <1>9, <1>10, <1>11, <1>12 DEF PInv

LEMMA StutterPInv ==
  ASSUME PInv, UNCHANGED vars
  PROVE  PInv'
<1>1. /\ UNCHANGED <<pid, parent, ptid, flags, cnt, st, wh, pc, tgt, info, todo>>
      /\ UNCHANGED <<ppid, tree, lock, sysq, rpid, nextpid, trap>>
  BY DEF vars, procVars, codeVars
<1>2. StopOK(Main(Root))'
  BY <1>1, ThreadFacts DEF PInv, StopInv, StopOK
<1>3. Types
  BY DEF PInv
<1>4. Moves(Main(Root))
  BY <1>1, <1>2, <1>3 DEF Moves, Types, procVars
<1>5. Main(Root) \in Thread
  BY ThreadFacts
<1>6. QED
  BY <1>4, <1>5, MoveStep

LEMMA NextPInv ==
  ASSUME PInv, TreeInv, Uses = {}, [Next]_vars
  PROVE  PInv'
<1>1. CASE \E x \in Thread : Program(x)
  <2>1. PICK x \in Thread : Program(x)
    BY <1>1
  <2>2. ASSUME NEW q \in Pd, NEW kind \in Kinds, New(x, q, kind)
        PROVE  PInv'
    <3>1. kind \in AllKinds
      BY ProcConstants
    <3>5. CanPlant(x, q, kind)
      BY <2>2, <3>1, NewTree
    <3>2. CASE kind = "chain"
      BY <2>2, <3>2, <3>5, ChainStep
    <3>3. CASE kind # "chain"
      BY <2>2, <3>1, <3>3, <3>5, NewStep
    <3>4. QED
      BY <3>2, <3>3
  <2>3. CASE Launch(x)
    BY <2>3, LaunchStep
  <2>4. CASE Return(x)
    BY <2>4, ReturnStep
  <2>5. CASE Exit(x)
    BY <2>5, ExitStep
  <2>6. CASE ExitMain(x)
    BY <2>6, ExitMainStep
  <2>7. CASE StopNext(x)
    BY <2>7, StopNextStep
  <2>8. ASSUME NEW p \in Pd, NEW s \in {"run", "susp"}, Create(x, p, s)
        PROVE  PInv'
    BY <2>8, CreateStep
  <2>9. ASSUME NEW y \in Thread, Resume(x, y) \/ Suspend(x, y)
        PROVE  PInv'
    BY <2>9, ResumeStep
  <2>10. ASSUME NEW y \in Thread, Terminate(x, y)
         PROVE  PInv'
    BY <2>10, TerminateStep
  <2>11. ASSUME NEW n \in 0..MaxPid, Stop(x, n)
         PROVE  PInv'
    BY <2>11, StopStep
  <2>12. QED
    BY <2>1, <2>2, <2>3, <2>4, <2>5, <2>6, <2>7, <2>8, <2>9, <2>10, <2>11 DEF Program
<1>2. CASE SessionFree
  BY <1>2, SessionFreeStep
<1>3. CASE SessionResume
  BY <1>3, SessionResumeStep
<1>4. CASE UNCHANGED vars
  BY <1>4, StutterPInv
<1>5. QED
  BY <1>1, <1>2, <1>3, <1>4 DEF Next

LEMMA NextTree ==
  ASSUME PInv, TreeInv, Uses = {}, [Next]_vars
  PROVE  TreeInv'
<1>1. CASE UNCHANGED <<pid, parent, ppid, tree>>
  BY <1>1, TreeKept
<1>2. CASE \E x \in Thread : Program(x)
  <2>1. PICK x \in Thread : Program(x)
    BY <1>2
  <2>2. ASSUME NEW q \in Pd, NEW kind \in Kinds, New(x, q, kind)
        PROVE  TreeInv'
    <3>1. kind \in AllKinds
      BY ProcConstants
    <3>2. QED
      BY <2>2, <3>1, NewTree
  <2>3. CASE Launch(x) \/ Exit(x) \/ ExitMain(x)
    <3>1. UNCHANGED <<pid, parent, ppid, tree>>
      BY <2>3 DEF Launch, Exit, ExitMain, procVars
    <3>2. QED
      BY <3>1, TreeKept
  <2>4. CASE Return(x)
    <3>1. PICK e : e = Ended(x)
      OBVIOUS
    <3>2. /\ st[x] = "run" /\ pc[x] = "ret" /\ e \in Used /\ ptid[e] # 0 /\ Caller(e) = x
      BY <2>4, <3>1 DEF Return, Runs, PInv, ChildInv, ReturnOK
    <3>3. e # Root
      BY <3>2 DEF PInv, RootInv
    <3>4. st[Main(e)] = "gone"
      BY <3>2 DEF PInv, ChildInv, ChildOK
    <3>5. CASE "nopwait" \in flags[e]
      <4>1. UNCHANGED <<pid, parent, ppid, tree>>
        BY <2>4, <3>1, <3>5 DEF Return, procVars
      <4>2. QED
        BY <4>1, TreeKept
    <3>6. CASE "nopwait" \notin flags[e]
      <4>1. Reaped(e)
        BY <2>4, <3>1, <3>6 DEF Return
      <4>2. QED
        BY <3>2, <3>3, <3>4, <4>1, ReapTree
    <3>7. QED
      BY <3>5, <3>6
  <2>5. ASSUME NEW y \in Thread, Terminated(x, y), pid' = pid
        PROVE  TreeInv'
    BY <2>5, TerminatedTree
  <2>6. CASE StopNext(x)
    <3> DEFINE P == Named(x, todo[x].pid)
               y == <<CHOOSE p \in P : TRUE, Head(todo[x].tids)>>
    <3>1. CASE UNCHANGED <<parent, ppid, tree>>
      <4>1. UNCHANGED <<pid, parent, ppid, tree>>
        BY <2>6, <3>1 DEF StopNext
      <4>2. QED
        BY <4>1, TreeKept
    <3>2. CASE ~UNCHANGED <<parent, ppid, tree>>
      <4>1. /\ Terminated(x, y) /\ pid' = pid /\ todo[x].tids # <<>> /\ P # {}
        BY <2>6, <3>2 DEF StopNext, StopEnd
      <4>2. y \in Thread
        <5>1. todo[x].tids \in Seq(Tid)
          BY DEF PInv, Types
        <5>2. PICK s, p : s = todo[x].tids /\ p = CHOOSE r \in P : TRUE
          OBVIOUS
        <5>3. p \in Pd
          BY <4>1, <5>2, ThreadFacts DEF Named, ByPid, Used
        <5>4. Head(s) \in Tid
          BY <4>1, <5>1, <5>2, TailIs
        <5>5. <<p, Head(s)>> \in Thread
          BY <5>3, <5>4, ThreadFacts
        <5>6. QED
          BY <5>2, <5>5
      <4> HIDE DEF y
      <4>3. QED
        BY <2>5, <4>1, <4>2
    <3>3. QED
      BY <3>1, <3>2
  <2>7. ASSUME NEW p \in Pd, NEW s \in {"run", "susp"}, Create(x, p, s)
        PROVE  TreeInv'
    <3>1. UNCHANGED <<pid, parent, ppid, tree>>
      BY <2>7 DEF Create, procVars
    <3>2. QED
      BY <3>1, TreeKept
  <2>8. ASSUME NEW y \in Thread, Resume(x, y) \/ Suspend(x, y)
        PROVE  TreeInv'
    <3>1. UNCHANGED <<pid, parent, ppid, tree>>
      BY <2>8 DEF Resume, Suspend, procVars
    <3>2. QED
      BY <3>1, TreeKept
  <2>9. ASSUME NEW y \in Thread, Terminate(x, y)
        PROVE  TreeInv'
    <3>1. Terminated(x, y) /\ pid' = pid
      BY <2>9 DEF Terminate
    <3>2. QED
      BY <2>5, <3>1
  <2>10. ASSUME NEW n \in 0..MaxPid, Stop(x, n)
         PROVE  TreeInv'
    <3>1. UNCHANGED <<pid, parent, ppid, tree>>
      BY <2>10 DEF Stop, procVars
    <3>2. QED
      BY <3>1, TreeKept
  <2>11. QED
    BY <2>1, <2>2, <2>3, <2>4, <2>6, <2>7, <2>8, <2>9, <2>10 DEF Program
<1>3. CASE SessionFree
  <2>1. sysq # <<>> /\ sysq \in Seq(Pd)
    BY <1>3 DEF SessionFree, PInv, Types
  <2>2. PICK e : e = Head(sysq)
    OBVIOUS
  <2>3. e \in Pd /\ \E i \in 1..Len(sysq) : sysq[i] = e
    <3>1. 1 \in 1..Len(sysq) /\ sysq[1] = e /\ e \in Pd
      BY <2>1, <2>2
    <3>2. QED
      BY <3>1
  <2>4. e \in Used /\ st[Main(e)] = "gone" /\ ptid[e] = 0
    BY <2>3 DEF PInv, SysqInv
  <2>5. e # Root
    BY <2>4 DEF PInv, RootInv
  <2>6. Reaped(e)
    BY <1>3, <2>2 DEF SessionFree
  <2>7. QED
    BY <2>4, <2>5, <2>6, ReapTree
<1>4. CASE SessionResume
  <2>1. UNCHANGED <<pid, parent, ppid, tree>>
    BY <1>4 DEF SessionResume, procVars
  <2>2. QED
    BY <2>1, TreeKept
<1>5. CASE UNCHANGED vars
  <2>1. UNCHANGED <<pid, parent, ppid, tree>>
    BY <1>5 DEF vars, procVars
  <2>2. QED
    BY <2>1, TreeKept
<1>6. QED
  BY <1>2, <1>3, <1>4, <1>5 DEF Next

LEMMA InitTree == Init => TreeInv
<1> SUFFICES ASSUME Init PROVE TreeInv
  OBVIOUS
<1>1. /\ Used = {Root} /\ Root \in Pd /\ 0 \in 0..MaxPid /\ None \notin Pd
      /\ tree = [first |-> [p \in Pd |-> None], next |-> [p \in Pd |-> None]]
      /\ ppid = [p \in Pd |-> 0]
  BY ThreadFacts, ProcConstants DEF Init, Used
<1>2. tree \in [first : Steps, next : Steps] /\ tree.first[Root] = None
  BY <1>1 DEF Steps
<1>3. Ends(tree.next, None)
  BY <1>1 DEF Ends
<1>4. PICK U : U = Used \ {Root}
  OBVIOUS
<1>5. U = {}
  BY <1>1, <1>4
<1>6. Forest(tree, parent, Used, U)
  BY <1>1, <1>2, <1>3, <1>5 DEF Forest
<1>7. QED
  BY <1>1, <1>4, <1>5, <1>6 DEF TreeInv

LEMMA AlwaysPInv == Uses = {} => (Spec => [](PInv /\ TreeInv))
<1>1. ASSUME Uses = {}
      PROVE  Spec => [](PInv /\ TreeInv)
  <2>1. PInv /\ TreeInv /\ [Next]_vars => (PInv /\ TreeInv)'
    BY <1>1, NextPInv, NextTree
  <2>2. QED
    BY InitPInv, InitTree, <2>1, PTL DEF Spec
<1>2. QED
  BY <1>1

(***************************************************************************)
(* What the runs check                                                     *)
(***************************************************************************)
(* Every variable keeps its type; piThreads is the number of slots that    *)
(* are taken, and a block is free or has a main thread (process.c:199,     *)
(* check_prcdata()).                                                       *)
THEOREM ProcTyped == Uses = {} => (Spec => []TypeOK)
<1>1. PInv /\ TreeInv => TypeOK
  <2>1. SUFFICES ASSUME PInv, TreeInv PROVE TypeOK
    OBVIOUS
  <2>2. Types
    BY <2>1 DEF PInv
  <2>3. \A x \in Thread : todo[x].pid \in 0..MaxPid /\ todo[x].tids \in Seq(Tid)
    BY <2>2 DEF Types
  <2>4. ASSUME NEW p \in Pd
        PROVE  /\ cnt[p] = Cardinality(Slots(p))
               /\ p \in Used <=> st[Main(p)] # "none"
               /\ p \notin Used => cnt[p] = 0
    <3>1. cnt[p] = Cardinality(Slots(p))
      BY <2>1 DEF PInv, BlockInv
    <3>2. CASE p \in Used
      <4>1. 1 \in Slots(p)
        BY <2>1, <3>2 DEF PInv, BlockInv
      <4>2. QED
        BY <3>1, <3>2, <4>1 DEF Slots, Main
    <3>3. CASE p \notin Used
      <4>1. Slots(p) = {}
        BY <2>1, <3>3 DEF PInv, BlockInv
      <4>2. Cardinality({}) = 0
        BY FS_EmptySet
      <4>3. st[Main(p)] = "none"
        BY <2>1, <3>3, FreeBlock, ThreadFacts
      <4>4. QED
        BY <3>1, <3>3, <4>1, <4>2, <4>3
    <3>4. QED
      BY <3>2, <3>3
  <2>5. QED
    BY <2>1, <2>2, <2>3, <2>4 DEF Types, TypeOK, TreeInv, Forest, Steps
<1>2. QED
  BY <1>1, AlwaysPInv, PTL

(* No check of mt_new(), mt_exec(), mt_exit() and mt_exitthread_int()      *)
(* fails, those of the child lists (process.c:216-232) included, and every *)
(* walk over a child list comes to its end, as long as the program does    *)
(* none of AllUses; one of them is to chain or give away a process that    *)
(* has another one behind it in its list.                                  *)
THEOREM ChecksPass == Uses = {} => (Spec => []NoTrap)
<1>1. PInv => NoTrap
  BY DEF PInv, Types, NoTrap
<1>2. QED
  BY <1>1, AlwaysPInv, PTL

(* Every process is in the child list of its parent and in no other, and   *)
(* each list ends, through chains, mt_termthread() and mt_exit()           *)
(* (process.c:278-309).                                                    *)
THEOREM ListsWhole == Uses = {} => (Spec => []TreeWhole)
<1>1. TreeInv => TreeWhole
  <2>1. SUFFICES ASSUME TreeInv PROVE TreeWhole
    OBVIOUS
  <2>2. ASSUME NEW p \in Used \ {Root}
        PROVE  /\ parent[p] \in Used /\ ppid[p] = pid[parent[p]]
               /\ p \in Walk(tree.next, tree.first[parent[p]])
    BY <2>1 DEF TreeInv, Forest
  <2>3. ASSUME NEW f \in Used
        PROVE  /\ Ends(tree.next, tree.first[f])
               /\ \A c \in Walk(tree.next, tree.first[f]) : c \in Used \ {Root} /\ parent[c] = f
    <3>1. PICK t, par, O, U : t = tree /\ par = parent /\ O = Used /\ U = Used \ {Root}
      OBVIOUS
    <3>2. Forest(t, par, O, U) /\ f \in O
      BY <2>1, <3>1 DEF TreeInv
    <3>3. Ends(t.next, t.first[f]) /\ Walk(t.next, t.first[f]) \subseteq {p \in U : par[p] = f}
      <4>1. Walk(t.next, t.first[f]) \subseteq {p \in U : par[p] = f}
        BY <3>2, ForestWalk
      <4>2. Ends(t.next, t.first[f])
        BY <3>2 DEF Forest
      <4>3. QED
        BY <4>1, <4>2
    <3>4. QED
      BY <3>1, <3>3
  <2>4. QED
    BY <2>2, <2>3 DEF TreeWhole
<1>2. QED
  BY <1>1, AlwaysPInv, PTL

(* The link between a process and the thread that waits for it in          *)
(* mt_exec() is kept on both sides (piParentTID and tiWaitHandle,          *)
(* process.c:814), through chains and mt_termthread(); get_by_pid() finds  *)
(* one process at most.                                                    *)
THEOREM CallersAgree == Uses = {} => (Spec => []CallersPaired)
<1>1. PInv => CallersPaired
  <2>1. SUFFICES ASSUME PInv PROVE CallersPaired
    OBVIOUS
  <2>2. PidUnique
    <3>1. SUFFICES ASSUME NEW p \in Used, NEW q \in Used, p # q, pid[p] = pid[q]
                   PROVE  "chain" \in flags[p] \cup flags[q]
      BY DEF PidUnique
    <3>2. p # Root
      BY <2>1, <3>1 DEF PInv, RootInv, Used
    <3>3. FlagOK(p)
      BY <2>1, <3>2 DEF PInv, FlagInv
    <3>4. "chain" \in flags[p] <=> "chain" \notin flags[q]
      BY <3>1, <3>3 DEF FlagOK
    <3>5. QED
      BY <3>4
  <2>3. ASSUME NEW x \in Thread, st[x] = "childexec"
        PROVE  \E p \in Used : ptid[p] # 0 /\ Caller(p) = x /\ ByPid(wh[x]) = {p}
    <3>1. pc[x] = "ret"
      BY <2>1, <2>3 DEF PInv, ThreadInv, ThreadOK
    <3>2. PICK p \in Used : p = Ended(x) /\ ptid[p] # 0 /\ Caller(p) = x
      BY <2>1, <3>1 DEF PInv, ChildInv, ReturnOK
    <3>3. wh[x] = pid[p] /\ p # Root
      BY <2>1, <2>3, <3>1, <3>2 DEF PInv, ChildInv, ChildOK, RootInv
    <3>4. "chain" \notin flags[p]
      BY <2>1, <3>2, <3>3 DEF PInv, FlagInv, FlagOK
    <3>5. ByPid(wh[x]) = {p}
      BY <2>1, <3>2, <3>3, <3>4 DEF ByPid, PInv, FlagInv, FlagOK
    <3>6. QED
      BY <3>2, <3>5
  <2>4. ASSUME NEW p \in Used, ptid[p] # 0, st[Main(p)] # "gone"
        PROVE  \/ st[Caller(p)] = "childexec" /\ wh[Caller(p)] = pid[p]
               \/ pc[Caller(p)] = "launch" /\ tgt[Caller(p)] = p
    BY <2>1, <2>4 DEF PInv, ChildInv, ChildOK
  <2>5. QED
    BY <2>2, <2>3, <2>4 DEF CallersPaired
<1>2. QED
  BY <1>1, AlwaysPInv, PTL

(* Of the thread that executed a process and the service thread exactly    *)
(* one frees it after its end, once (mod_execcall(), process_sysq()).      *)
THEOREM ReapedOnce == Uses = {} => (Spec => []OneReaper)
<1>1. PInv => OneReaper
  <2>1. SUFFICES ASSUME PInv, NEW p \in Pd
                 PROVE  Cardinality(Fetches(p)) + Cardinality(Posts(p))
                          = IF p \in Used /\ st[Main(p)] = "gone" THEN 1 ELSE 0
    BY DEF OneReaper
  <2>2. \A x \in Thread : x \in Fetches(p) <=>
              pc[x] = "ret" /\ st[x] # "childexec" /\ Ended(x) = p
    BY DEF Fetches
  <2>3. \A x \in Fetches(p) : /\ p \in Used /\ ptid[p] # 0 /\ Caller(p) = x
                              /\ st[Main(p)] = "gone"
    <3>1. TAKE x \in Fetches(p)
    <3>2. x \in Thread /\ pc[x] = "ret" /\ st[x] # "childexec" /\ Ended(x) = p
      BY DEF Fetches
    <3>3. p \in Used /\ ptid[p] # 0 /\ Caller(p) = x
      BY <2>1, <3>2 DEF PInv, ChildInv, ReturnOK
    <3>4. ChildOK(p)
      BY <2>1, <3>3 DEF PInv, ChildInv
    <3>5. QED
      BY <3>2, <3>3, <3>4 DEF ChildOK
  <2>4. /\ \A i, j \in Posts(p) : i = j
        /\ Posts(p) # {} <=> p \in Used /\ st[Main(p)] = "gone" /\ ptid[p] = 0
    BY <2>1 DEF PInv, SysqInv, Posts
  <2>5. Cardinality({}) = 0 /\ \A z : Cardinality({z}) = 1
    BY FS_EmptySet, FS_Singleton
  <2>6. CASE ~(p \in Used /\ st[Main(p)] = "gone")
    <3>1. Fetches(p) = {} /\ Posts(p) = {}
      BY <2>3, <2>4, <2>6
    <3>2. QED
      BY <2>5, <2>6, <3>1
  <2>7. CASE p \in Used /\ st[Main(p)] = "gone" /\ ptid[p] = 0
    <3>1. Fetches(p) = {}
      BY <2>3, <2>7
    <3>2. PICK i : i \in Posts(p)
      BY <2>4, <2>7
    <3>3. Posts(p) = {i}
      BY <2>4, <3>2
    <3>4. Cardinality(Posts(p)) = 1
      BY <2>5, <3>3
    <3>5. QED
      BY <2>5, <2>7, <3>1, <3>4
  <2>8. CASE p \in Used /\ st[Main(p)] = "gone" /\ ptid[p] # 0
    <3>1. Posts(p) = {}
      BY <2>4, <2>8
    <3>2. ChildOK(p)
      BY <2>1, <2>8 DEF PInv, ChildInv
    <3>3. PICK c \in Thread : c = Caller(p)
      BY <2>8, <3>2 DEF ChildOK
    <3>4. ~(pc[c] = "launch" /\ tgt[c] = p)
      BY <2>1, <2>8 DEF PInv, LaunchInv, LaunchOK
    <3>5. pc[c] = "ret" /\ Ended(c) = p /\ st[c] \in {"run", "susp"}
      BY <2>8, <3>2, <3>3, <3>4 DEF ChildOK
    <3>6. c \in Fetches(p)
      BY <2>2, <3>5
    <3>7. Fetches(p) = {c}
      BY <2>3, <3>3, <3>6
    <3>8. Cardinality(Fetches(p)) = 1
      BY <2>5, <3>7
    <3>9. QED
      BY <2>5, <2>8, <3>1, <3>8
  <2>9. QED
    BY <2>6, <2>7, <2>8
<1>2. QED
  BY <1>1, AlwaysPInv, PTL

(* The successor of a chained process runs nothing of its program before   *)
(* the service thread has freed the one it replaces (sysmt.c:80).          *)
THEOREM SuccessorWaits == Uses = {} => (Spec => []HeirWaits)
<1>1. PInv => HeirWaits
  <2>1. SUFFICES ASSUME PInv, NEW x \in Thread, Heir(x[1]), st[x] = "run"
                 PROVE  pc[x] \in {"exit", "main2"}
    BY DEF HeirWaits
  <2>2. PICK p \in Used : p = x[1]
    BY <2>1, AliveUsed
  <2>3. HeirOK(p)
    BY <2>1 DEF PInv, HeirInv
  <2>4. cnt[p] = 1 /\ (pc[Main(p)] \in {"exit", "main2"} \/ st[Main(p)] = "susp")
    BY <2>1, <2>2, <2>3 DEF HeirOK
  <2>5. x = Main(p)
    BY <2>1, <2>2, <2>4, CntFacts DEF PInv
  <2>6. QED
    BY <2>1, <2>4, <2>5
<1>2. QED
  BY <1>1, AlwaysPInv, PTL

(* Nobody waits for something that has passed: the main thread for its     *)
(* secondaries, a launched process for its launcher (update_lwait()), a    *)
(* caller of mt_termthread() for its victim.                               *)
THEOREM NobodyStranded == Uses = {} => (Spec => []NobodyForgotten)
<1>1. PInv => NobodyForgotten
  <2>1. SUFFICES ASSUME PInv, NEW x \in Thread
                 PROVE  /\ st[x] = "tidmain" => cnt[x[1]] > 1
                        /\ st[x] = "waitlnch" => \E q \in Used : pid[q] = wh[x]
                                                               /\ st[Main(q)] # "gone"
                        /\ st[x] = "tidexit" => pc[<<x[1], wh[x]>>] = "exit"
    BY DEF NobodyForgotten
  <2>2. ThreadOK(x)
    BY <2>1 DEF PInv, ThreadInv
  <2>3. QED
    BY <2>2 DEF ThreadOK
<1>2. QED
  BY <1>1, AlwaysPInv, PTL
=============================================================================

---------------------------- MODULE MtWaitProofs ----------------------------
(***************************************************************************)
(* The inductive invariant IInv of MtWait and what follows from it, for    *)
(* any set of threads, objects and requests.  One lemma per action of      *)
(* Next, then the theorems.                                                *)
(***************************************************************************)
EXTENDS MtWait, SeqLemmas, FiniteSetTheorems

(***************************************************************************)
(* The parts of one w_check_conditions() iteration.                        *)
(***************************************************************************)
ReqType(r) == /\ r.items \in Seq(Item) /\ r.logic \subseteq Nat \ {0} /\ WellFormed(r)

(* Every request an entry may hold is well formed (mt_waitobject checks).  *)
LEMMA RequestsTyped ==
  ASSUME NEW r \in Request \cup {NoReq}
  PROVE  ReqType(r)
<1>1. CASE r \in Request
  BY <1>1, RequestAssumption DEF RequestType, ReqType
<1>2. CASE r = NoReq
  BY <1>2 DEF NoReq, ReqType, WellFormed
<1>3. QED
  BY <1>1, <1>2

(* A flag that asks for a capture names a living mutex that is free or the *)
(* thread's own.                                                           *)
LEMMA FreeMutexFlag ==
  ASSUME NEW t, NEW e \in WaitEntry, NEW due \in BOOLEAN,
         NEW i \in DOMAIN e.req.items
  PROVE  LET x == e.req.items[i]
             f == Flags(t, e, due)
         IN /\ f[i] \in Flag
            /\ f[i] = "muxfree" =>
                 /\ x.kind = "mutex" /\ x.obj \in Mutex \cap alive
                 /\ owner[x.obj] \in {NoThread, t}
            /\ f[i] = "evfree" => x.obj \in Event
<1> DEFINE x == e.req.items[i]
<1>1. ReqType(e.req) /\ x \in Item
  <2>1. e.req \in Request \cup {NoReq}
    BY DEF WaitEntry
  <2>2. QED
    BY <2>1, RequestsTyped DEF ReqType
<1>2. /\ x.kind = "mutex" => x.obj \in Mutex
      /\ x.kind = "event" => x.obj \in Event
  BY <1>1 DEF ReqType, WellFormed
<1>3. Flags(t, e, due)[i] = IF e.sigf[i] = "on" THEN "on" ELSE ItemState(t, x, due)
  BY DEF Flags
<1>4. x.kind \in Kind
  BY <1>1 DEF Item
<1> HIDE DEF x
<1>5. /\ ItemState(t, x, due) \in Flag
      /\ ItemState(t, x, due) = "muxfree" =>
           /\ x.kind = "mutex" /\ x.obj \in alive
           /\ owner[x.obj] \in {NoThread, t}
      /\ ItemState(t, x, due) = "evfree" => x.kind = "event"
  BY <1>4 DEF ItemState, Flag, Kind
<1>6. QED
  BY <1>2, <1>3, <1>5 DEF x, Flag

(* What w_del() of one entry does to the list.                             *)
LEMMA UnlinkProps ==
  ASSUME IInv, NEW k \in DOMAIN wlist, Unlink(k)
  PROVE  /\ wlist' \in Seq(Thread)
         /\ we' \in [Thread -> WaitEntry]
         /\ waitcnt' \in [Object -> Nat]
         /\ \A i, j \in DOMAIN wlist' : wlist'[i] = wlist'[j] => i = j
         /\ \A x \in Thread : Listed(x)' <=> x # wlist[k] /\ Listed(x)
         /\ \A i \in DOMAIN wlist' : i < k => i \in DOMAIN wlist /\ wlist'[i] = wlist[i]
<1>1. /\ wlist \in Seq(Thread) /\ \A i, j \in DOMAIN wlist : wlist[i] = wlist[j] => i = j
      /\ we \in [Thread -> WaitEntry] /\ waitcnt \in [Object -> Nat]
  BY DEF IInv, TypeOK, WaitersListed
<1>2. /\ wlist' = RemoveAt(wlist, k)
      /\ we' = [we EXCEPT ![wlist[k]] = NoEntry]
      /\ waitcnt' = [o \in Object |->
           IF o \in Counted(we[wlist[k]]) \cap alive /\ waitcnt[o] > 0
             THEN waitcnt[o] - 1 ELSE waitcnt[o]]
  BY DEF Unlink
<1>3. NoEntry \in WaitEntry
  BY DEF NoEntry, WaitEntry, NoReq
<1>4. we' \in [Thread -> WaitEntry] /\ waitcnt' \in [Object -> Nat]
  BY <1>1, <1>2, <1>3
<1>5. /\ wlist' \in Seq(Thread)
      /\ \A i, j \in DOMAIN wlist' : wlist'[i] = wlist'[j] => i = j
      /\ \A x : (\E i \in DOMAIN wlist' : wlist'[i] = x)
                   <=> x # wlist[k] /\ \E i \in DOMAIN wlist : wlist[i] = x
      /\ \A i \in DOMAIN wlist' : i < k => i \in DOMAIN wlist /\ wlist'[i] = wlist[i]
  <2> DEFINE r == RemoveAt(wlist, k)
  <2>1. /\ r \in Seq(Thread)
        /\ \A i, j \in DOMAIN r : r[i] = r[j] => i = j
        /\ \A x : (\E i \in DOMAIN r : r[i] = x)
                      <=> x # wlist[k] /\ \E i \in DOMAIN wlist : wlist[i] = x
        /\ \A i \in DOMAIN r : i < k => i \in DOMAIN wlist /\ r[i] = wlist[i]
    BY <1>1, RemoveAtDistinct, Zenon
  <2>2. wlist' = r
    BY <1>2
  <2> HIDE DEF r
  <2>3. QED
    BY <2>1, <2>2
<1>6. \A x : Listed(x)' <=> x # wlist[k] /\ Listed(x)
  BY <1>5 DEF Listed
<1>7. QED
  BY <1>4, <1>5, <1>6

-----------------------------------------------------------------------------
(***************************************************************************)
(* Every step preserves IInv: the calls on objects, the steps of a walk,   *)
(* the calls on threads.                                                   *)
(***************************************************************************)
LEMMA InitInv == Init => IInv
<1> SUFFICES ASSUME Init PROVE IInv
  OBVIOUS
<1> USE ThreadAssumption, MaxLockAssumption
<1>1. TypeOK
  <2>1. NoEntry \in WaitEntry
    BY DEF NoEntry, WaitEntry, NoReq
  <2>2. /\ cur \in Thread \cup {Idle}
        /\ tstate \in [Thread -> {"none", "running", "waiting", "suspended", "finished"}]
    BY DEF Init
  <2>3. /\ waitfor \in [Thread -> Thread \cup {"none", "obj"}]
        /\ dying \subseteq Thread
        /\ owned \in [Thread -> SUBSET Mutex]
        /\ we \in [Thread -> WaitEntry]
    BY <2>1 DEF Init
  <2>4. /\ owner \in [Mutex -> Thread \cup {NoThread}]
        /\ lockcnt \in [Mutex -> 0..MaxLock]
        /\ waitcnt \in [Object -> Nat]
        /\ evstate \in [Event -> 0..2]
    BY DEF Init
  <2>5. wlist \in Seq(Thread)
    BY EmptySeq DEF Init
  <2>6. /\ alive \subseteq Object
        /\ pass \in {"run", "wait", "switch", "event", "exit"}
        /\ at \in Nat \ {0}
        /\ target \in Thread \cup {NoThread}
        /\ pulsed \subseteq Event
    BY DEF Init
  <2>7. hit \in BOOLEAN
    BY DEF Init
  <2>8. QED
    BY <2>2, <2>3, <2>4, <2>5, <2>6, <2>7 DEF TypeOK
<1>2. OwnerInv
  BY DEF Init, OwnerInv
<1>3. WaitersListed
  BY DEF Init, WaitersListed, Listed
<1>4. JoinInv
  BY DEF Init, JoinInv
<1>5. SchedInv
  BY DEF Init, SchedInv
<1>6. QED
  BY <1>1, <1>2, <1>3, <1>4, <1>5 DEF IInv

(* The calls that touch neither threads nor the list.                      *)
LEMMA ObjectCallInv ==
  ASSUME IInv, UNCHANGED <<thrVars, listVars, target>>,
         TypeOK', OwnerInv', {pass, pass'} \subseteq {"run", "event"}, cur # Idle
  PROVE  IInv'
<1> USE DEF thrVars, listVars
<1>1. WaitersListed'
  BY DEF IInv, WaitersListed, Listed
<1>2. JoinInv'
  BY DEF IInv, JoinInv
<1>3. SchedInv'
  BY DEF IInv, SchedInv
<1>4. QED
  BY <1>1, <1>2, <1>3 DEF IInv

(* What holds where a thread calls the library.                            *)
LEMMA CallerRuns ==
  ASSUME IInv, NEW t \in Thread, pass = "run", cur = t
  PROVE  t # NoThread /\ cur # Idle /\ tstate[t] = "running"
  BY ThreadAssumption DEF IInv, SchedInv

(* muxev_create() of a mutex, free or captured by its creator.             *)
LEMMA CreateMutexInv ==
  ASSUME IInv, NEW t \in Thread, NEW m \in Mutex, NEW s \in BOOLEAN, CreateMutex(t, m, s)
  PROVE  IInv'
<1>1. t # NoThread /\ cur # Idle /\ tstate[t] = "running"
  BY CallerRuns DEF CreateMutex, Calls
<1>2. TypeOK'
  BY MaxLockAssumption
  DEF IInv, TypeOK, CreateMutex, thrVars, listVars, passVars, Object
<1>3. OwnerInv'
  <2>1. owner[m] = NoThread /\ m \in alive'
    BY DEF IInv, OwnerInv, CreateMutex
  <2>2. /\ owner \in [Mutex -> Thread \cup {NoThread}] /\ lockcnt \in [Mutex -> 0..MaxLock]
        /\ owned \in [Thread -> SUBSET Mutex]
    BY DEF IInv, TypeOK
  <2>3. CASE s
    <3>1. /\ owner' = [owner EXCEPT ![m] = t] /\ lockcnt' = [lockcnt EXCEPT ![m] = 1]
          /\ owned' = [owned EXCEPT ![t] = @ \cup {m}]
          /\ tstate' = tstate /\ alive' = alive \cup {m}
      BY <2>3 DEF CreateMutex, thrVars
    <3>2. ASSUME NEW u \in Thread
          PROVE  owned'[u] = {x \in Mutex : owner'[x] = u}
      <4>1. owned[u] = {x \in Mutex : owner[x] = u}
        BY DEF IInv, OwnerInv
      <4>2. CASE u = t
        <5>1. owned'[t] = owned[t] \cup {m}
          BY <2>2, <3>1
        <5>2. \A x \in Mutex : owner'[x] = IF x = m THEN t ELSE owner[x]
          BY <2>2, <3>1
        <5>3. \A x : x \in owned'[u] <=> x \in Mutex /\ owner'[x] = u
          BY <4>1, <4>2, <5>1, <5>2
        <5>4. QED
          BY <5>3
      <4>3. CASE u # t
        BY ThreadAssumption, <2>1, <2>2, <3>1, <4>1, <4>3
      <4>4. QED
        BY <4>2, <4>3
    <3>3. QED
      BY <1>1, <2>1, <2>2, <3>1, <3>2 DEF IInv, OwnerInv
  <2>4. CASE ~s
    <3>1. /\ owner' = owner /\ lockcnt' = lockcnt /\ owned' = owned
          /\ tstate' = tstate /\ alive' = alive \cup {m}
      BY <2>1, <2>2, <2>4 DEF IInv, OwnerInv, CreateMutex, thrVars
    <3>2. QED
      BY <3>1 DEF IInv, OwnerInv
  <2>5. QED
    BY <2>3, <2>4
<1>4. QED
  BY <1>1, <1>2, <1>3, ObjectCallInv DEF CreateMutex, Calls, passVars

(* muxev_create() of an event.                                             *)
LEMMA CreateEventInv ==
  ASSUME IInv, NEW t \in Thread, NEW e \in Event, NEW s \in BOOLEAN, CreateEvent(t, e, s)
  PROVE  IInv'
<1>1. t # NoThread /\ cur # Idle /\ tstate[t] = "running"
  BY CallerRuns DEF CreateEvent, Calls
<1>2. TypeOK'
  BY DEF IInv, TypeOK, CreateEvent, thrVars, listVars, passVars, Object
<1>3. OwnerInv'
  BY DEF IInv, OwnerInv, CreateEvent, thrVars
<1>4. QED
  BY <1>1, <1>2, <1>3, ObjectCallInv DEF CreateEvent, Calls, passVars

(* mutex_release(): one level, or the whole mutex.                         *)
LEMMA ReleaseInv ==
  ASSUME IInv, NEW t \in Thread, NEW m \in Mutex, Release(t, m)
  PROVE  IInv'
<1>1. t # NoThread /\ cur # Idle /\ tstate[t] = "running"
  BY CallerRuns DEF Release, Calls
<1>2. /\ owner \in [Mutex -> Thread \cup {NoThread}] /\ lockcnt \in [Mutex -> 0..MaxLock]
      /\ owned \in [Thread -> SUBSET Mutex] /\ MaxLock \in Nat
  BY MaxLockAssumption DEF IInv, TypeOK
<1>3. lockcnt[m] \in 1..MaxLock /\ owner[m] = t
  BY <1>1, <1>2 DEF IInv, OwnerInv, Release
<1>4. tstate' = tstate /\ alive' = alive
  BY DEF Release, thrVars
<1>5. /\ lockcnt' \in [Mutex -> 0..MaxLock] /\ lockcnt'[m] = lockcnt[m] - 1
      /\ \A x \in Mutex : x # m => lockcnt'[x] = lockcnt[x]
  BY <1>2, <1>3 DEF Release, Unowned
<1>6. TypeOK'
  <2>1. owner' \in [Mutex -> Thread \cup {NoThread}] /\ owned' \in [Thread -> SUBSET Mutex]
    BY <1>2 DEF Release, Unowned
  <2>2. QED
    BY <1>5, <2>1 DEF IInv, TypeOK, Release, thrVars, listVars, passVars
<1>7. OwnerInv'
  <2>1. CASE lockcnt[m] > 1
    <3>1. owner' = owner /\ owned' = owned
      BY <2>1 DEF Release
    <3>2. QED
      BY <1>1, <1>2, <1>3, <1>4, <1>5, <2>1, <3>1 DEF IInv, OwnerInv
  <2>2. CASE lockcnt[m] = 1
    <3>1. /\ owner' = [x \in Mutex |-> IF x = m THEN NoThread ELSE owner[x]]
          /\ owned' = [u \in Thread |-> owned[u] \ {m}]
      BY <2>2 DEF Release, Unowned
    <3>2. \A u \in Thread : owned'[u] = {x \in Mutex : owner'[x] = u}
      BY ThreadAssumption, <1>2, <1>3, <3>1 DEF IInv, OwnerInv
    <3>3. QED
      BY <1>2, <1>4, <1>5, <2>2, <3>1, <3>2 DEF IInv, OwnerInv
  <2>3. QED
    BY <1>3, <2>1, <2>2
<1>8. QED
  BY <1>1, <1>6, <1>7, ObjectCallInv DEF Release, Calls, passVars

(* muxev_free(): a forced one takes the mutex from its owner's list.       *)
LEMMA FreeInv ==
  ASSUME IInv, NEW t \in Thread, NEW o \in Object, NEW force \in BOOLEAN, Free(t, o, force)
  PROVE  IInv'
<1>1. t # NoThread /\ cur # Idle /\ tstate[t] = "running"
  BY CallerRuns DEF Free, Calls
<1>2. TypeOK'
  BY MaxLockAssumption DEF IInv, TypeOK, Free, Unowned, thrVars, listVars, passVars
<1>3. OwnerInv'
  BY ThreadAssumption DEF IInv, OwnerInv, TypeOK, Free, Unowned, thrVars
<1>4. QED
  BY <1>1, <1>2, <1>3, ObjectCallInv DEF Free, Calls, passVars

(* The three actions of event_action() and the end of its walk.            *)
LEMMA EventInv ==
  ASSUME IInv,
         \/ EndEvent
         \/ \E t \in Thread, e \in Event :
              \/ EventReset(t, e) \/ EventSet(t, e)
              \/ EventPulse(t, e, TRUE) \/ EventPulse(t, e, FALSE)
  PROVE  IInv'
<1>1. cur # Idle /\ pass \in {"run", "event"} /\ pass' \in {"run", "event"}
  <2>1. CASE EndEvent
    BY <2>1 DEF EndEvent, IInv, SchedInv
  <2>2. CASE ~EndEvent
    BY <2>2, CallerRuns
    DEF EventReset, EventSet, EventPulse, Calls, StartPass, passVars
  <2>3. QED
    BY <2>1, <2>2
<1>2. UNCHANGED <<owner, lockcnt, owned, waitcnt, alive, thrVars, listVars, target>>
  BY DEF EventReset, EventSet, EventPulse, EndEvent, passVars
<1>3. TypeOK'
  <2>0. evstate' \in [Event -> 0..2]
    <3>1. evstate \in [Event -> 0..2]
      BY DEF IInv, TypeOK
    <3>2. CASE EndEvent
      BY <3>1, <3>2 DEF EndEvent
    <3>3. ASSUME NEW t \in Thread, NEW e \in Event, EventReset(t, e) \/ EventSet(t, e)
          PROVE  evstate' \in [Event -> 0..2]
      BY <3>1, <3>3 DEF EventReset, EventSet
    <3>4. ASSUME NEW t \in Thread, NEW e \in Event,
                 EventPulse(t, e, TRUE) \/ EventPulse(t, e, FALSE)
          PROVE  evstate' \in [Event -> 0..2]
      BY <3>1, <3>4 DEF EventPulse
    <3>5. QED
      BY <3>2, <3>3, <3>4
  <2>1. /\ at' \in Nat \ {0} /\ pulsed' \subseteq Event
    BY DEF IInv, TypeOK, EventReset, EventSet, EventPulse, EndEvent, StartPass, passVars
  <2>2. hit' \in BOOLEAN
    BY DEF IInv, TypeOK, EventReset, EventSet, EventPulse, EndEvent, StartPass, passVars
  <2>3. QED
    BY <1>1, <1>2, <2>0, <2>1, <2>2 DEF IInv, TypeOK, thrVars, listVars
<1>4. OwnerInv'
  BY <1>2 DEF IInv, OwnerInv, thrVars
<1>5. QED
  BY <1>1, <1>2, <1>3, <1>4, ObjectCallInv

-----------------------------------------------------------------------------
(* mt_waitobject() puts the entry of its caller at the bottom.             *)
LEMMA WaitObjectInv ==
  ASSUME IInv, NEW t \in Thread, NEW r \in Request, WaitObject(t, r)
  PROVE  IInv'
<1> DEFINE e == [req |-> r, sigf |-> [i \in DOMAIN r.items |-> "off"],
                 signaled |-> -1, reterr |-> "ok"]
<1>1. t # NoThread /\ cur # Idle /\ tstate[t] = "running"
  BY CallerRuns DEF WaitObject, Calls
<1>2. /\ we' = [we EXCEPT ![t] = e] /\ wlist' = Append(wlist, t)
      /\ waitcnt' = [o \in Object |-> IF o \in Counted(e) THEN waitcnt[o] + 1
                                                          ELSE waitcnt[o]]
      /\ pass = "run" /\ pass' = "wait" /\ at' = 1 /\ cur = t
      /\ t \notin dying /\ ~Listed(t)
      /\ UNCHANGED <<owner, lockcnt, owned, evstate, alive, thrVars, target, pulsed>>
  BY DEF WaitObject, Enlist, StartPass, Calls
<1>3. e \in WaitEntry
  <2>1. r.items \in Seq(Item)
    BY RequestAssumption DEF RequestType
  <2>2. [i \in DOMAIN r.items |-> "off"] \in Seq(Flag)
    <3>1. DOMAIN r.items = 1..Len(r.items) /\ Len(r.items) \in Nat
      BY <2>1
    <3>2. QED
      BY <3>1 DEF Flag
  <2>3. QED
    BY <2>2 DEF WaitEntry
<1> HIDE DEF e
<1>4. /\ wlist' \in Seq(Thread) /\ DOMAIN wlist' = 1..(Len(wlist) + 1)
      /\ wlist'[Len(wlist) + 1] = t
      /\ \A k \in DOMAIN wlist : wlist'[k] = wlist[k]
      /\ DOMAIN wlist = 1..Len(wlist) /\ Len(wlist) \in Nat
  BY <1>2 DEF IInv, TypeOK
<1>5. TypeOK'
  <2>1. we' \in [Thread -> WaitEntry] /\ waitcnt' \in [Object -> Nat]
    BY <1>2, <1>3 DEF IInv, TypeOK
  <2>2. hit' \in BOOLEAN
    BY DEF WaitObject, StartPass
  <2>3. QED
    BY <1>2, <1>4, <2>1, <2>2 DEF IInv, TypeOK, thrVars
<1>6. OwnerInv' /\ JoinInv'
  BY <1>2 DEF IInv, OwnerInv, JoinInv, thrVars
<1>7. /\ \A x \in Thread : Listed(x)' <=> x = t \/ Listed(x)
      /\ \A i, j \in DOMAIN wlist' : wlist'[i] = wlist'[j] => i = j
  <2>1. ASSUME NEW k \in DOMAIN wlist'
        PROVE  (k \in DOMAIN wlist /\ wlist[k] # t) \/ k = Len(wlist) + 1
    BY <1>2, <1>4 DEF Listed
  <2>2. \A i, j \in DOMAIN wlist : wlist[i] = wlist[j] => i = j
    BY DEF IInv, WaitersListed
  <2>3. QED
    BY <1>4, <2>1, <2>2 DEF Listed
<1>8. WaitersListed'
  BY <1>1, <1>2, <1>7 DEF IInv, WaitersListed, SchedInv, thrVars
<1>9. SchedInv'
  BY <1>1, <1>2, <1>7 DEF IInv, SchedInv, thrVars
<1>10. QED
  BY <1>5, <1>6, <1>8, <1>9 DEF IInv

(* w_del() alone: the end of a wait, or an entry dropped at an exit.       *)
LEMMA UnlinkInv ==
  ASSUME IInv, NEW k \in DOMAIN wlist, Unlink(k),
         UNCHANGED <<owner, lockcnt, owned, evstate, alive, thrVars,
                     at, target, hit, pulsed>>,
         pass' \in {"run", pass},
         tstate[wlist[k]] # "waiting",
         pass' = pass => pass # "wait",
         pass' # pass => pass = "wait",
         pass' = "exit" => k = at
  PROVE  IInv'
<1> USE DEF thrVars
<1>1. /\ wlist' \in Seq(Thread)
      /\ we' \in [Thread -> WaitEntry]
      /\ waitcnt' \in [Object -> Nat]
      /\ \A i, j \in DOMAIN wlist' : wlist'[i] = wlist'[j] => i = j
      /\ \A x \in Thread : Listed(x)' <=> x # wlist[k] /\ Listed(x)
      /\ \A i \in DOMAIN wlist' : i < k => i \in DOMAIN wlist /\ wlist'[i] = wlist[i]
  BY UnlinkProps
<1>2. TypeOK'
  BY <1>1 DEF IInv, TypeOK
<1>3. OwnerInv' /\ JoinInv'
  BY DEF IInv, OwnerInv, JoinInv
<1>4. WaitersListed'
  BY <1>1 DEF IInv, WaitersListed, SchedInv
<1>5. SchedInv'
  <2>1. pass' = "exit" => \A i \in DOMAIN wlist' : i < at' => wlist'[i] # cur'
    BY <1>1 DEF IInv, SchedInv
  <2>2. QED
    BY <2>1 DEF IInv, SchedInv
<1>6. QED
  BY <1>2, <1>3, <1>4, <1>5 DEF IInv

(* The end of mt_waitobject()'s own walk: return or go to sleep.           *)
LEMMA EndWaitInv == ASSUME IInv, EndWait PROVE IInv'
<1>1. /\ pass = "wait" /\ cur \in Thread /\ tstate[cur] = "running"
      /\ Listed(cur) /\ cur \notin dying
  BY DEF EndWait, IInv, SchedInv, TypeOK
<1>2. CASE hit
  <2>1. PICK k \in DOMAIN wlist : wlist[k] = cur /\ Unlink(k)
    BY <1>2 DEF EndWait
  <2>2. QED
    BY <1>1, <1>2, <2>1, UnlinkInv DEF EndWait, thrVars
<1>3. CASE ~hit
  <2>1. /\ tstate' = [tstate EXCEPT ![cur] = "waiting"]
        /\ waitfor' = [waitfor EXCEPT ![cur] = "obj"]
        /\ pass' = "switch" /\ at' = 1 /\ target' = NoThread
        /\ UNCHANGED <<wlist, we, waitcnt, cur, dying, owner, lockcnt, owned,
                       evstate, alive, pulsed>>
    BY <1>3 DEF EndWait, StartPass
  <2>2. hit' \in BOOLEAN
    BY <1>3 DEF EndWait, StartPass
  <2>3. TypeOK'
    BY <1>1, <2>1, <2>2 DEF IInv, TypeOK
  <2>4. OwnerInv'
    BY <1>1, <2>1, ThreadAssumption DEF IInv, TypeOK, OwnerInv
  <2>5. WaitersListed'
    BY <1>1, <2>1 DEF IInv, TypeOK, WaitersListed, SchedInv, Listed
  <2>6. JoinInv'
    BY <1>1, <2>1, ThreadAssumption DEF IInv, TypeOK, JoinInv
  <2>7. SchedInv'
    BY <1>1, <2>1 DEF IInv, TypeOK, SchedInv
  <2>8. QED
    BY <2>3, <2>4, <2>5, <2>6, <2>7 DEF IInv
<1>4. QED
  BY <1>2, <1>3

(* mt_waitobject() returns in a thread that was waked.                     *)
LEMMA WaitReturnInv == ASSUME IInv, NEW t \in Thread, WaitReturn(t) PROVE IInv'
<1>1. tstate[t] = "running" /\ pass = "run" /\ pass' = "run"
  BY CallerRuns DEF WaitReturn, passVars
<1>2. PICK k \in DOMAIN wlist : wlist[k] = t /\ Unlink(k)
  BY DEF WaitReturn
<1>3. QED
  BY <1>1, <1>2, UnlinkInv DEF WaitReturn, passVars

(* The walk of an exit drops the entry of the exiting thread.              *)
LEMMA DropEntryInv == ASSUME IInv, DropEntry PROVE IInv'
<1>1. at \in DOMAIN wlist /\ Unlink(at) /\ pass = "exit" /\ pass' = "exit"
  BY DEF DropEntry, Walking, IInv, TypeOK, passVars
<1>2. tstate[wlist[at]] # "waiting"
  BY <1>1 DEF DropEntry, IInv, SchedInv
<1>3. QED
  BY <1>1, <1>2, UnlinkInv DEF DropEntry, passVars

(* Steps that leave the list as it is and go on to the next entry.         *)
LEMMA NextEntryInv ==
  ASSUME IInv, Keeps, at' = at + 1,
         UNCHANGED <<cur, waitfor, dying, wlist, pass, target>>,
         Wake(wlist[at]) \/ tstate' = tstate,
         TypeOK', OwnerInv'
  PROVE  IInv'
<1>1. /\ at \in DOMAIN wlist /\ wlist[at] \in Thread /\ at \in Nat
      /\ pass = "exit" => wlist[at] # cur
      /\ \A k \in DOMAIN wlist : k \in Nat
  BY DEF Keeps, Walking, IInv, TypeOK
<1>2. \A u \in Thread :
        \/ tstate'[u] = tstate[u]
        \/ tstate[u] = "waiting" /\ tstate'[u] = "running"
  BY DEF Wake, IInv, TypeOK
<1>3. WaitersListed'
  BY <1>2 DEF IInv, WaitersListed, Listed
<1>4. JoinInv'
  BY <1>2 DEF IInv, JoinInv
<1>5. SchedInv'
  <2>1. pass = "exit" => \A k \in DOMAIN wlist : k < at + 1 => wlist[k] # cur
    BY <1>1 DEF IInv, SchedInv
  <2>2. cur # Idle => cur \in Thread
    BY DEF IInv, TypeOK
  <2>3. target # NoThread => target \in Thread
    BY DEF IInv, TypeOK
  <2>4. QED
    BY <1>2, <2>1, <2>2, <2>3 DEF IInv, SchedInv, TypeOK, Listed
<1>6. QED
  BY <1>3, <1>4, <1>5 DEF IInv

(* The sigf array that a walk computes is a sequence of flags.             *)
LEMMA FlagsTyped ==
  ASSUME NEW t, NEW e \in WaitEntry, NEW due \in BOOLEAN
  PROVE  Flags(t, e, due) \in Seq(Flag)
<1>1. e.req.items \in Seq(Item)
  <2>1. e.req \in Request \cup {NoReq}
    BY DEF WaitEntry
  <2>2. QED
    BY <2>1, RequestsTyped DEF ReqType
<1>2. DOMAIN e.req.items = 1..Len(e.req.items) /\ Len(e.req.items) \in Nat
  BY <1>1
<1>3. DOMAIN Flags(t, e, due) = DOMAIN e.req.items
  BY DEF Flags
<1>4. \A i \in DOMAIN e.req.items : Flags(t, e, due)[i] \in Flag
  BY FreeMutexFlag
<1>5. Flags(t, e, due) = [i \in 1..Len(e.req.items) |-> Flags(t, e, due)[i]]
  BY <1>2, <1>3 DEF Flags
<1>6. QED
  BY <1>2, <1>4, <1>5

(* update_wait_state() changes the state of one waiting thread at most.    *)
LEMMA WakeProps ==
  ASSUME TypeOK, NEW t \in Thread, Wake(t)
  PROVE  /\ tstate' \in [Thread -> {"none", "running", "waiting", "suspended", "finished"}]
         /\ \A u \in Thread :
              \/ tstate'[u] = tstate[u]
              \/ tstate[u] = "waiting" /\ tstate'[u] = "running"
  BY DEF Wake, TypeOK

(* The verdict of an entry is -1 or a group number.                        *)
LEMMA VerdictTyped ==
  ASSUME NEW e \in WaitEntry
  PROVE  [e EXCEPT !.signaled = 0, !.reterr = "invobject"] \in WaitEntry
<1> DEFINE a == [e EXCEPT !.signaled = 0]
<1>1. a \in WaitEntry
  BY DEF WaitEntry
<1> HIDE DEF a
<1>2. [a EXCEPT !.reterr = "invobject"] \in WaitEntry
  BY <1>1 DEF WaitEntry
<1>3. [e EXCEPT !.signaled = 0, !.reterr = "invobject"] = [a EXCEPT !.reterr = "invobject"]
  BY DEF a
<1>4. QED
  BY <1>2, <1>3

(* A walk passes an entry that has its verdict.                            *)
LEMMA SkipEntryInv == ASSUME IInv, SkipEntry PROVE IInv'
<1>1. /\ Keeps /\ Wake(wlist[at]) /\ at' = at + 1
      /\ UNCHANGED <<cur, waitfor, dying, objVars, listVars, pass, target, hit, pulsed>>
  BY DEF SkipEntry
<1>2. wlist[at] \in Thread /\ at' \in Nat \ {0}
  BY <1>1 DEF Keeps, Walking, IInv, TypeOK
<1>3. TypeOK'
  BY <1>1, <1>2, WakeProps DEF IInv, TypeOK, objVars, listVars
<1>4. OwnerInv'
  BY <1>1, <1>2, WakeProps DEF IInv, OwnerInv, TypeOK, objVars
<1>5. QED
  BY <1>1, <1>3, <1>4, NextEntryInv DEF listVars

(* A walk fails an entry whose object is gone.                             *)
LEMMA FailEntryInv ==
  ASSUME IInv, NEW due \in BOOLEAN, FailEntry(due)
  PROVE  IInv'
<1>1. /\ Keeps /\ Wake(wlist[at]) /\ at' = at + 1
      /\ we' = [we EXCEPT ![wlist[at]].signaled = 0, ![wlist[at]].reterr = "invobject"]
      /\ UNCHANGED <<cur, waitfor, dying, objVars, wlist, pass, target, hit, pulsed>>
  BY DEF FailEntry
<1>2. wlist[at] \in Thread /\ at' \in Nat \ {0}
  BY <1>1 DEF Keeps, Walking, IInv, TypeOK
<1>3. we' \in [Thread -> WaitEntry]
  <2>1. we \in [Thread -> WaitEntry]
    BY DEF IInv, TypeOK
  <2>2. [we[wlist[at]] EXCEPT !.signaled = 0, !.reterr = "invobject"] \in WaitEntry
    BY <1>2, <2>1, VerdictTyped
  <2>3. we' = [we EXCEPT ![wlist[at]] =
                 [we[wlist[at]] EXCEPT !.signaled = 0, !.reterr = "invobject"]]
    BY <1>1, <1>2, <2>1
  <2>4. QED
    BY <1>2, <2>1, <2>2, <2>3
<1>4. TypeOK'
  BY <1>1, <1>2, <1>3, WakeProps DEF IInv, TypeOK, objVars
<1>5. OwnerInv'
  BY <1>1, <1>2, WakeProps DEF IInv, OwnerInv, TypeOK, objVars
<1>6. QED
  BY <1>1, <1>4, <1>5, NextEntryInv

(* A walk leaves an entry waiting.                                         *)
LEMMA PassEntryInv ==
  ASSUME IInv, NEW due \in BOOLEAN, PassEntry(due)
  PROVE  IInv'
<1> DEFINE f == Flags(wlist[at], we[wlist[at]], due)
<1>1. /\ Keeps /\ at' = at + 1
      /\ we' = [we EXCEPT ![wlist[at]].sigf = f]
      /\ UNCHANGED <<thrVars, objVars, wlist, pass, target, hit, pulsed>>
  BY DEF PassEntry
<1>2. wlist[at] \in Thread
  BY <1>1 DEF Keeps, Walking, IInv, TypeOK
<1>3. f \in Seq(Flag)
  BY <1>2, FlagsTyped DEF IInv, TypeOK
<1> HIDE DEF f
<1>4. we' \in [Thread -> WaitEntry]
  <2>1. we \in [Thread -> WaitEntry]
    BY DEF IInv, TypeOK
  <2>2. [we[wlist[at]] EXCEPT !.sigf = f] \in WaitEntry
    BY <1>2, <1>3, <2>1 DEF WaitEntry
  <2>3. we' = [we EXCEPT ![wlist[at]] = [we[wlist[at]] EXCEPT !.sigf = f]]
    BY <1>1, <1>2, <2>1
  <2>4. QED
    BY <1>2, <2>1, <2>2, <2>3
<1>5. TypeOK'
  BY <1>1, <1>4 DEF IInv, TypeOK, thrVars, objVars
<1>6. OwnerInv'
  BY <1>1 DEF IInv, OwnerInv, thrVars, objVars
<1>7. QED
  BY <1>1, <1>5, <1>6, NextEntryInv DEF thrVars

(* The entry that a grant leaves behind is typed.                          *)
LEMMA GrantTyped ==
  ASSUME NEW e \in WaitEntry, NEW f \in Seq(Flag), NEW v \in Int,
         NEW err \in {"ok", "locklimit"}
  PROVE  [e EXCEPT !.sigf = f, !.signaled = v, !.reterr = err] \in WaitEntry
<1> DEFINE a == [e EXCEPT !.sigf = f]
           b == [a EXCEPT !.signaled = v]
<1>1. a \in WaitEntry
  BY DEF WaitEntry
<1> HIDE DEF a
<1>2. b \in WaitEntry
  BY <1>1 DEF WaitEntry
<1> HIDE DEF b
<1>3. [b EXCEPT !.reterr = err] \in WaitEntry
  BY <1>2 DEF WaitEntry
<1>4. [e EXCEPT !.sigf = f, !.signaled = v, !.reterr = err] = [b EXCEPT !.reterr = err]
  BY DEF a, b
<1>5. QED
  BY <1>3, <1>4

(* The groups a walk collects are groups of the request.                   *)
LEMMA GroupsTyped ==
  ASSUME NEW r, ReqType(r), NEW f, NEW k, NEW v \in {0} \cup SignaledGroups(r, f, k)
  PROVE  v \in Nat
<1>1. ASSUME NEW i \in DOMAIN r.items
      PROVE  r.items[i].group \subseteq Nat
  <2>1. r.items[i] \in Item
    BY DEF ReqType
  <2>2. QED
    BY <2>1 DEF Item
<1>2. QED
  BY <1>1 DEF ReqType, SignaledGroups

(* The objects a verdict captures: only mutexes that may be captured once  *)
(* more, and pulsed events.                                                *)
LEMMA GrabbedObjects ==
  ASSUME NEW t, NEW e \in WaitEntry, NEW due \in BOOLEAN, NEW k, NEW v,
         NEW i \in Done(t, e.req, Grabbed(e.req, Flags(t, e, due), k, v)),
         e.req.items[i].obj \in Mutex
  PROVE  LET m == e.req.items[i].obj IN
         /\ m \in alive /\ owner[m] \in {NoThread, t}
         /\ ~(owner[m] = t /\ lockcnt[m] >= MaxLock)
<1> DEFINE f == Flags(t, e, due)
           g == Grabbed(e.req, f, k, v)
<1>1. e.req \in Request \cup {NoReq}
  BY DEF WaitEntry
<1>2. ReqType(e.req)
  BY <1>1, RequestsTyped
<1>3. i \in g /\ \A j \in g : Fails(t, e.req, j) => i < j
  BY DEF Done
<1>4. i \in DOMAIN e.req.items /\ f[i] \in {"muxfree", "evfree"}
  BY <1>3 DEF Grabbed, Winners
<1>5. i \in Int
  BY <1>2, <1>4 DEF ReqType
<1>6. ~Fails(t, e.req, i)
  BY <1>3, <1>5
<1> HIDE DEF f
<1>7. f[i] = "muxfree"
  <2>1. f[i] = "evfree" => e.req.items[i].obj \in Event
    BY <1>4, FreeMutexFlag DEF f
  <2>2. QED
    BY <1>4, <2>1, ObjectAssumption
<1>8. /\ e.req.items[i].kind = "mutex" /\ e.req.items[i].obj \in alive
      /\ owner[e.req.items[i].obj] \in {NoThread, t}
  BY <1>4, <1>7, FreeMutexFlag DEF f
<1>9. QED
  BY <1>6, <1>8 DEF Fails

(* A walk grants an entry: mutexes are captured for the caller, a pulse is *)
(* consumed, the caller is waked.                                          *)
LEMMA GrantEntryInv ==
  ASSUME IInv, NEW due \in BOOLEAN, GrantEntry(due)
  PROVE  IInv'
<1> DEFINE t == wlist[at]
           e == we[t]
           f == Flags(t, e, due)
<1>1. /\ Keeps /\ Wake(t) /\ at' = at + 1
      /\ hit' = (hit \/ (pass = "wait" /\ t = cur))
      /\ UNCHANGED <<cur, waitfor, dying, waitcnt, alive, wlist, pass, target, pulsed>>
  BY DEF GrantEntry
<1>2. /\ t \in Thread /\ at' \in Nat \ {0} /\ Listed(t)
      /\ pass = "exit" => t # cur
  BY <1>1 DEF Keeps, Walking, IInv, TypeOK, Listed
<1>3. e \in WaitEntry
  BY <1>2 DEF IInv, TypeOK
<1> DEFINE Granted(k, v) ==
             LET grab == Grabbed(e.req, f, k, v)
                 done == Done(t, e.req, grab)
                 objs == ObjsAt(e.req, done)
             IN /\ Capture(t, objs \cap Mutex)
                /\ evstate' = [x \in Event |-> IF x \in objs THEN 0 ELSE evstate[x]]
                /\ we' = [we EXCEPT
                     ![t].sigf = [i \in DOMAIN f |-> IF i \in done THEN "on" ELSE f[i]],
                     ![t].signaled = v,
                     ![t].reterr = IF done = grab THEN "ok" ELSE "locklimit"]
<1>4a. PICK k \in 1..(Len(e.req.items) + 1) :
        \E v \in {0} \cup SignaledGroups(e.req, f, k) : Granted(k, v)
  BY DEF GrantEntry
<1>4b. PICK v \in {0} \cup SignaledGroups(e.req, f, k) : Granted(k, v)
  BY <1>4a
<1> DEFINE grab == Grabbed(e.req, f, k, v)
           done == Done(t, e.req, grab)
           objs == ObjsAt(e.req, done)
           ms   == objs \cap Mutex
           ff   == [i \in DOMAIN f |-> IF i \in done THEN "on" ELSE f[i]]
           err  == IF done = grab THEN "ok" ELSE "locklimit"
<1>5. /\ owner' = [m \in Mutex |-> IF m \in ms THEN t ELSE owner[m]]
      /\ lockcnt' = [m \in Mutex |-> IF m \in ms THEN lockcnt[m] + 1 ELSE lockcnt[m]]
      /\ owned' = [owned EXCEPT ![t] = @ \cup ms]
      /\ evstate' = [x \in Event |-> IF x \in objs THEN 0 ELSE evstate[x]]
      /\ we' = [we EXCEPT ![t].sigf = ff, ![t].signaled = v, ![t].reterr = err]
  BY <1>4b DEF Capture
<1> HIDE DEF Granted
<1>6. f \in Seq(Flag)
  BY <1>3, FlagsTyped
<1>7. ASSUME NEW m \in ms
      PROVE  m \in alive /\ owner[m] \in {NoThread, t} /\ ~(owner[m] = t /\ lockcnt[m] >= MaxLock)
  <2>1. PICK i \in done : e.req.items[i].obj = m
    BY DEF ObjsAt
  <2>2. QED
    BY <1>3, <2>1, GrabbedObjects
<1>8. v \in Int
  <2>1. ReqType(e.req)
    BY <1>3, RequestsTyped DEF WaitEntry
  <2>2. QED
    BY <2>1, GroupsTyped
<1> HIDE DEF f, grab, done, objs
<1>9. we' \in [Thread -> WaitEntry]
  <2>1. ff \in Seq(Flag)
    <3>1. \A i \in DOMAIN f : f[i] \in Flag
      BY <1>6
    <3>2. ff \in [DOMAIN f -> Flag]
      BY <3>1 DEF Flag
    <3>3. DOMAIN f = 1..Len(f) /\ Len(f) \in Nat
      BY <1>6
    <3>4. QED
      BY <3>2, <3>3
  <2> DEFINE d == [e EXCEPT !.sigf = ff, !.signaled = v, !.reterr = err]
  <2>2. d \in WaitEntry
    BY <1>3, <1>8, <2>1, GrantTyped
  <2>3. we \in [Thread -> WaitEntry]
    BY DEF IInv, TypeOK
  <2>4. we' = [we EXCEPT ![t] = d]
    BY <1>2, <1>5, <2>3
  <2> HIDE DEF d, t
  <2>5. QED
    BY <1>2, <2>2, <2>3, <2>4
<1> HIDE DEF ff, err, e
<1>10. /\ owner \in [Mutex -> Thread \cup {NoThread}] /\ lockcnt \in [Mutex -> 0..MaxLock]
       /\ owned \in [Thread -> SUBSET Mutex] /\ MaxLock \in Nat \ {0}
       /\ evstate \in [Event -> 0..2]
  BY MaxLockAssumption DEF IInv, TypeOK
<1>11. \A m \in Mutex : lockcnt[m] = 0 <=> owner[m] = NoThread
  BY DEF IInv, OwnerInv
<1> HIDE DEF ms
<1>12. ms \subseteq Mutex
  BY DEF ms
<1>13. TypeOK'
  <2>1. owner' \in [Mutex -> Thread \cup {NoThread}] /\ owned' \in [Thread -> SUBSET Mutex]
    BY <1>2, <1>5, <1>10, <1>12
  <2>2. lockcnt' \in [Mutex -> 0..MaxLock]
    BY <1>2, <1>5, <1>7, <1>10, <1>11, <1>12
  <2>3. evstate' \in [Event -> 0..2]
    BY <1>5, <1>10
  <2>4. hit' \in BOOLEAN
    BY <1>1
  <2>5. QED
    BY <1>1, <1>2, <1>9, <2>1, <2>2, <2>3, <2>4, WakeProps DEF IInv, TypeOK
<1>14. OwnerInv'
  <2>1. \A u \in Thread : owned[u] = {m \in Mutex : owner[m] = u}
    BY DEF IInv, OwnerInv
  <2>2. \A u \in Thread : owned'[u] = {m \in Mutex : owner'[m] = u}
    BY <1>2, <1>5, <1>7, <1>10, <1>12, <2>1, ThreadAssumption
  <2>3. \A m \in Mutex : lockcnt'[m] = 0 <=> owner'[m] = NoThread
    BY <1>2, <1>5, <1>7, <1>10, <1>11, <1>12, ThreadAssumption
  <2>4. \A m \in Mutex : owner'[m] # NoThread => m \in alive
    BY <1>5, <1>7, <1>10 DEF IInv, OwnerInv
  <2>5. tstate[t] \notin {"none", "finished"}
    BY <1>2 DEF IInv, WaitersListed, SchedInv
  <2>6. \A u \in Thread : tstate[u] \notin {"none", "finished"}
                             => tstate'[u] \notin {"none", "finished"}
    BY <1>1, <1>2, WakeProps DEF IInv
  <2>7. \A m \in Mutex : owner'[m] # NoThread
                             => tstate'[owner'[m]] \notin {"none", "finished"}
    BY <1>2, <1>5, <1>10, <2>5, <2>6 DEF IInv, OwnerInv
  <2>8. QED
    BY <1>1, <2>2, <2>3, <2>4, <2>7 DEF OwnerInv
<1>15. QED
  BY <1>1, <1>13, <1>14, NextEntryInv

-----------------------------------------------------------------------------
(* The timer interrupt begins a walk of switch_context().                  *)
LEMMA TimerInv == ASSUME IInv, Timer PROVE IInv'
<1>1. /\ pass = "run" /\ pass' = "switch" /\ at' = 1 /\ target' = NoThread
      /\ UNCHANGED <<thrVars, objVars, listVars, pulsed>>
  BY DEF Timer, StartPass
<1>2. hit' \in BOOLEAN
  BY DEF Timer, StartPass
<1>3. TypeOK'
  BY <1>1, <1>2 DEF IInv, TypeOK, thrVars, objVars, listVars
<1>4. OwnerInv' /\ JoinInv'
  BY <1>1 DEF IInv, OwnerInv, JoinInv, thrVars, objVars
<1>5. WaitersListed'
  BY <1>1 DEF IInv, WaitersListed, Listed, thrVars, listVars
<1>6. SchedInv'
  BY <1>1 DEF IInv, SchedInv, thrVars, listVars
<1>7. QED
  BY <1>3, <1>4, <1>5, <1>6 DEF IInv

(* switch_context() chooses the next thread.                               *)
LEMMA DispatchInv ==
  ASSUME IInv, NEW t \in Thread \cup {Idle}, Dispatch(t)
  PROVE  IInv'
<1>1. /\ pass = "switch" /\ pass' = "run" /\ cur' = t /\ target' = NoThread
      /\ UNCHANGED <<tstate, waitfor, dying, objVars, listVars, at, hit, pulsed>>
  BY DEF Dispatch
<1>2. t # Idle => tstate[t] = "running"
  BY DEF Dispatch, MayRun, Runnable, IInv, SchedInv
<1>3. TypeOK'
  BY <1>1 DEF IInv, TypeOK, objVars, listVars
<1>4. OwnerInv' /\ JoinInv'
  BY <1>1 DEF IInv, OwnerInv, JoinInv, objVars
<1>5. WaitersListed'
  BY <1>1 DEF IInv, WaitersListed, Listed, listVars
<1>6. SchedInv'
  BY <1>1, <1>2 DEF IInv, SchedInv, listVars
<1>7. QED
  BY <1>3, <1>4, <1>5, <1>6 DEF IInv

(* mt_createthread() takes a free slot.                                    *)
LEMMA CreateThreadInv ==
  ASSUME IInv, NEW t \in Thread, NEW u \in Thread, NEW s \in BOOLEAN, CreateThread(t, u, s)
  PROVE  IInv'
<1>1. /\ pass = "run" /\ tstate[u] = "none"
      /\ UNCHANGED <<cur, waitfor, dying, objVars, listVars, passVars>>
  BY DEF CreateThread, Calls
<1>2. PICK new \in {"running", "suspended"} : tstate' = [tstate EXCEPT ![u] = new]
  BY DEF CreateThread
<1>3. TypeOK'
  BY <1>1, <1>2 DEF IInv, TypeOK, objVars, listVars, passVars
<1>4. OwnerInv'
  BY <1>1, <1>2 DEF IInv, TypeOK, OwnerInv, objVars
<1>5. WaitersListed'
  BY <1>1, <1>2 DEF IInv, TypeOK, WaitersListed, Listed, listVars, passVars
<1>6. JoinInv'
  BY <1>1, <1>2 DEF IInv, TypeOK, JoinInv
<1>7. SchedInv'
  BY <1>1, <1>2 DEF IInv, TypeOK, SchedInv, listVars, passVars
<1>8. QED
  BY <1>3, <1>4, <1>5, <1>6, <1>7 DEF IInv

(* mt_suspendthread() of another thread or of the caller.                  *)
LEMMA SuspendInv ==
  ASSUME IInv, NEW t \in Thread, NEW u \in Thread, Suspend(t, u)
  PROVE  IInv'
<1>1. /\ pass = "run" /\ cur = t /\ tstate[u] = "running"
      /\ tstate' = [tstate EXCEPT ![u] = "suspended"]
      /\ UNCHANGED <<cur, waitfor, dying, objVars, listVars, pulsed>>
  BY DEF Suspend, MaySuspend, Calls
<1>2. \/ u = t /\ pass' = "switch" /\ at' = 1 /\ target' = NoThread
      \/ u # t /\ UNCHANGED <<pass, at, target>>
  BY DEF Suspend, StartPass
<1>3. TypeOK'
  <2>1. hit' \in BOOLEAN
    BY DEF Suspend, StartPass, IInv, TypeOK
  <2>2. QED
    BY <1>1, <1>2, <2>1 DEF IInv, TypeOK, objVars, listVars
<1>4. OwnerInv'
  BY <1>1 DEF IInv, TypeOK, OwnerInv, objVars
<1>5. WaitersListed'
  BY <1>1, <1>2 DEF IInv, TypeOK, WaitersListed, SchedInv, Listed, listVars
<1>6. JoinInv'
  BY <1>1 DEF IInv, TypeOK, JoinInv
<1>7. SchedInv'
  BY <1>1, <1>2 DEF IInv, TypeOK, SchedInv, listVars
<1>8. QED
  BY <1>3, <1>4, <1>5, <1>6, <1>7 DEF IInv

(* mt_resumethread().                                                      *)
LEMMA ResumeInv ==
  ASSUME IInv, NEW t \in Thread, NEW u \in Thread, Resume(t, u)
  PROVE  IInv'
<1>1. /\ pass = "run" /\ tstate[u] = "suspended"
      /\ tstate' = [tstate EXCEPT ![u] = "running"]
      /\ UNCHANGED <<cur, waitfor, dying, objVars, listVars, passVars>>
  BY DEF Resume, Calls
<1>2. TypeOK'
  BY <1>1 DEF IInv, TypeOK, objVars, listVars, passVars
<1>3. OwnerInv'
  BY <1>1 DEF IInv, TypeOK, OwnerInv, objVars
<1>4. WaitersListed'
  BY <1>1 DEF IInv, TypeOK, WaitersListed, Listed, listVars, passVars
<1>5. JoinInv'
  BY <1>1 DEF IInv, TypeOK, JoinInv
<1>6. SchedInv'
  BY <1>1 DEF IInv, TypeOK, SchedInv, listVars, passVars
<1>7. QED
  BY <1>2, <1>3, <1>4, <1>5, <1>6 DEF IInv

(* mt_termthread(): w_term(), the exit fiber, the caller's wait.           *)
LEMMA TerminateInv ==
  ASSUME IInv, NEW t \in Thread, NEW u \in Thread, Terminate(t, u)
  PROVE  IInv'
<1>1. /\ pass = "run" /\ cur = t /\ t \notin dying /\ ~Listed(t) /\ u # t
      /\ tstate[u] # "none" /\ tstate[u] # "finished" /\ tstate[t] = "running"
  BY CallerRuns DEF Terminate, Calls, IInv, SchedInv
<1>2. /\ dying' = dying \cup {u}
      /\ tstate' = [tstate EXCEPT ![u] = "running", ![t] = "waiting"]
      /\ waitfor' = [waitfor EXCEPT ![t] = u]
      /\ pass' = "switch" /\ at' = 1 /\ target' = u
      /\ UNCHANGED <<cur, owner, lockcnt, owned, evstate, alive, pulsed>>
  BY DEF Terminate, StartPass
<1>3. /\ tstate \in [Thread -> {"none", "running", "waiting", "suspended", "finished"}]
      /\ waitfor \in [Thread -> Thread \cup {"none", "obj"}]
  BY DEF IInv, TypeOK
<1>4. /\ tstate'[u] = "running" /\ tstate'[t] = "waiting" /\ waitfor'[t] = u
      /\ \A x \in Thread \ {t, u} : tstate'[x] = tstate[x]
      /\ \A x \in Thread \ {t} : waitfor'[x] = waitfor[x]
  BY <1>1, <1>2, <1>3
<1>5. /\ wlist' \in Seq(Thread)
      /\ we' \in [Thread -> WaitEntry]
      /\ waitcnt' \in [Object -> Nat]
      /\ \A i, j \in DOMAIN wlist' : wlist'[i] = wlist'[j] => i = j
      /\ \A x \in Thread : Listed(x)' => Listed(x)
      /\ \A x \in Thread \ {u} : Listed(x) => Listed(x)'
  <2>1. CASE tstate[u] = "waiting" /\ waitfor[u] = "obj"
    <3>1. PICK k \in DOMAIN wlist : wlist[k] = u /\ Unlink(k)
      BY <2>1 DEF Terminate
    <3>2. QED
      BY <3>1, UnlinkProps
  <2>2. CASE ~(tstate[u] = "waiting" /\ waitfor[u] = "obj")
    BY <2>2 DEF Terminate, IInv, TypeOK, WaitersListed, Listed
  <2>3. QED
    BY <2>1, <2>2
<1>6. TypeOK'
  <2>1. hit' \in BOOLEAN
    BY DEF Terminate, StartPass
  <2>2. tstate' \in [Thread -> {"none", "running", "waiting", "suspended", "finished"}]
    BY <1>2, <1>3
  <2>3. waitfor' \in [Thread -> Thread \cup {"none", "obj"}]
    BY <1>2, <1>3
  <2>4. QED
    BY <1>2, <1>5, <2>1, <2>2, <2>3 DEF IInv, TypeOK
<1>7. OwnerInv'
  BY <1>2, <1>3, <1>4 DEF IInv, TypeOK, OwnerInv
<1>8. WaitersListed'
  <2>1. ASSUME NEW x \in Thread, tstate'[x] = "waiting", waitfor'[x] = "obj"
        PROVE  Listed(x)'
    <3>1. x # t /\ x # u
      BY <1>1, <1>4, <2>1, ThreadAssumption
    <3>2. tstate[x] = "waiting" /\ waitfor[x] = "obj"
      BY <1>4, <2>1, <3>1
    <3>3. QED
      BY <1>5, <3>1, <3>2 DEF IInv, WaitersListed
  <2>2. ASSUME NEW x \in Thread, Listed(x)'
        PROVE  tstate'[x] # "none" /\ tstate'[x] # "finished"
    <3>1. tstate[x] # "none" /\ tstate[x] # "finished"
      BY <1>1, <1>5, <2>2 DEF IInv, WaitersListed
    <3>2. QED
      BY <1>4, <3>1
  <2>3. QED
    BY <1>5, <2>1, <2>2 DEF WaitersListed
<1>9. JoinInv'
  <2>1. ASSUME NEW x \in Thread, NEW y \in Thread, tstate'[x] = "waiting", waitfor'[x] = y
        PROVE  y \in dying' /\ tstate'[y] \in {"running", "suspended"}
    <3>1. CASE x = t
      BY <1>2, <1>4, <2>1, <3>1
    <3>2. CASE x # t
      <4>1. y \in dying /\ tstate[y] \in {"running", "suspended"}
        BY <1>4, <2>1, <3>2 DEF IInv, JoinInv
      <4>2. QED
        BY <1>1, <1>2, <1>4, <4>1
    <3>3. QED
      BY <3>1, <3>2
  <2>2. QED
    BY <2>1 DEF JoinInv
<1>10. SchedInv'
  <2>1. \A x \in dying' : tstate'[x] \in {"running", "suspended", "finished"}
    BY <1>1, <1>2, <1>4 DEF IInv, TypeOK, SchedInv
  <2>2. \A x \in Thread : tstate'[x] # "finished"
    BY <1>1, <1>4 DEF IInv, SchedInv
  <2>3. QED
    BY <1>2, <1>4, <2>1, <2>2 DEF SchedInv
<1>11. QED
  BY <1>6, <1>7, <1>8, <1>9, <1>10 DEF IInv

(* mt_exitthread_int(): joiners wake up, mutex_release_all() runs.         *)
LEMMA ExitThreadInv == ASSUME IInv, NEW t \in Thread, ExitThread(t) PROVE IInv'
<1>1. pass = "run" /\ cur = t /\ tstate[t] = "running" /\ t # NoThread /\ cur # Idle
  BY CallerRuns DEF ExitThread
<1>2. /\ tstate'  = [u \in Thread |->
                   IF u = t THEN "finished"
                   ELSE IF tstate[u] = "waiting" /\ waitfor[u] = t THEN "running"
                   ELSE tstate[u]]
      /\ owner'   = [m \in Mutex |-> IF m \in owned[t] THEN NoThread ELSE owner[m]]
      /\ lockcnt' = [m \in Mutex |-> IF m \in owned[t] THEN 0 ELSE lockcnt[m]]
      /\ owned'   = [u \in Thread |-> owned[u] \ owned[t]]
      /\ pass' = "exit" /\ at' = 1
      /\ UNCHANGED <<cur, waitfor, dying, waitcnt, evstate, alive, listVars, target, pulsed>>
  BY DEF ExitThread, FreeJoiners, Unowned, StartPass
<1>3. TypeOK'
  <2>1. hit' \in BOOLEAN
    BY DEF ExitThread, StartPass
  <2>2. tstate' \in [Thread -> {"none", "running", "waiting", "suspended", "finished"}]
    BY <1>2 DEF IInv, TypeOK
  <2>3. /\ owner' \in [Mutex -> Thread \cup {NoThread}]
        /\ lockcnt' \in [Mutex -> 0..MaxLock]
        /\ owned' \in [Thread -> SUBSET Mutex]
    BY <1>2, MaxLockAssumption DEF IInv, TypeOK
  <2>4. QED
    BY <1>2, <2>1, <2>2, <2>3 DEF IInv, TypeOK, listVars
<1>4. OwnerInv'
  <2>1. /\ owned \in [Thread -> SUBSET Mutex]
        /\ \A u \in Thread : owned[u] = {m \in Mutex : owner[m] = u}
    BY DEF IInv, TypeOK, OwnerInv
  <2>2. \A m \in Mutex : owner'[m] # NoThread => owner'[m] = owner[m] /\ owner[m] # t
    BY <1>2, <2>1
  <2>3. \A u \in Thread : owned'[u] = {m \in Mutex : owner'[m] = u}
    BY <1>2, <2>1, ThreadAssumption
  <2>4. \A m \in Mutex : lockcnt'[m] = 0 <=> owner'[m] = NoThread
    BY <1>2 DEF IInv, OwnerInv
  <2>5. \A m \in Mutex : owner'[m] # NoThread =>
          m \in alive /\ tstate'[owner'[m]] \notin {"none", "finished"}
    BY <1>2, <2>2 DEF IInv, TypeOK, OwnerInv
  <2>6. QED
    BY <1>2, <2>3, <2>4, <2>5 DEF OwnerInv
<1>5. WaitersListed'
  <2>1. \A x \in Thread : Listed(x)' <=> Listed(x)
    BY <1>2 DEF Listed, listVars
  <2>2. ASSUME NEW x \in Thread, tstate'[x] = "waiting"
        PROVE  tstate[x] = "waiting" /\ waitfor'[x] = waitfor[x]
    BY <1>2, <2>2
  <2>3. ASSUME NEW x \in Thread, tstate'[x] = "none"
        PROVE  tstate[x] = "none"
    BY <1>2, <2>3
  <2>4. \A i, j \in DOMAIN wlist' : wlist'[i] = wlist'[j] => i = j
    BY <1>2 DEF IInv, WaitersListed, listVars
  <2>5. QED
    BY <1>2, <2>1, <2>2, <2>3, <2>4 DEF IInv, WaitersListed
<1>6. JoinInv'
  BY <1>1, <1>2 DEF IInv, JoinInv
<1>7. SchedInv'
  <2>1. \A k \in DOMAIN wlist' : ~(k < 1)
    BY <1>2 DEF IInv, TypeOK, listVars
  <2>2. \A x \in dying' : tstate'[x] \in {"running", "suspended", "finished"}
    BY <1>1, <1>2 DEF IInv, TypeOK, SchedInv
  <2>3. \A x \in Thread : tstate'[x] = "finished" => x = t
    BY <1>1, <1>2 DEF IInv, SchedInv
  <2>4. QED
    BY <1>1, <1>2, <2>1, <2>2, <2>3 DEF IInv, SchedInv
<1>8. QED
  BY <1>3, <1>4, <1>5, <1>6, <1>7 DEF IInv

(* mt_freethread() at the end of the exiting thread's walk.                *)
LEMMA EndExitInv ==
  ASSUME IInv, NEW t \in Thread \cup {Idle}, EndExit(t)
  PROVE  IInv'
<1>1. /\ pass = "exit" /\ at > Len(wlist) /\ cur \in Thread /\ tstate[cur] = "finished"
      /\ \A k \in DOMAIN wlist : k < at => wlist[k] # cur
  BY DEF EndExit, IInv, SchedInv, TypeOK
<1>2. /\ tstate' = [tstate EXCEPT ![cur] = "none"]
      /\ waitfor' = [waitfor EXCEPT ![cur] = "none"]
      /\ dying' = dying \ {cur} /\ cur' = t /\ pass' = "run"
      /\ t # Idle => t \in Thread /\ tstate'[t] = "running"
      /\ UNCHANGED <<objVars, listVars, at, target, hit, pulsed>>
  BY DEF EndExit
<1>3. ~Listed(cur)
  BY <1>1 DEF Listed, IInv, TypeOK
<1>4. TypeOK'
  BY <1>1, <1>2 DEF IInv, TypeOK, objVars, listVars
<1>5. OwnerInv'
  BY <1>1, <1>2 DEF IInv, TypeOK, OwnerInv, objVars
<1>6. WaitersListed'
  BY <1>1, <1>2, <1>3 DEF IInv, TypeOK, WaitersListed, SchedInv, Listed, listVars
<1>7. JoinInv'
  BY <1>1, <1>2 DEF IInv, TypeOK, JoinInv
<1>8. SchedInv'
  <2>1. \A x \in Thread : tstate'[x] # "finished"
    BY <1>1, <1>2 DEF IInv, TypeOK, SchedInv
  <2>2. QED
    BY <1>1, <1>2, <2>1 DEF IInv, TypeOK, SchedInv
<1>9. QED
  BY <1>4, <1>5, <1>6, <1>7, <1>8 DEF IInv

-----------------------------------------------------------------------------
(* Every step preserves IInv.                                              *)
LEMMA NextInv == IInv /\ [Next]_vars => IInv'
<1> SUFFICES ASSUME IInv, [Next]_vars PROVE IInv'
  OBVIOUS
<1>1. CASE Walk
  <2>1. CASE CheckEntry
    BY <2>1, DropEntryInv, SkipEntryInv, FailEntryInv, PassEntryInv, GrantEntryInv
    DEF CheckEntry
  <2>2. CASE EndEvent
    BY <2>2, EventInv
  <2>3. CASE EndWait
    BY <2>3, EndWaitInv
  <2>4. CASE \E t \in Thread \cup {Idle} : Dispatch(t) \/ EndExit(t)
    BY <2>4, DispatchInv, EndExitInv
  <2>5. QED
    BY <1>1, <2>1, <2>2, <2>3, <2>4 DEF Walk
<1>2. CASE Timer
  BY <1>2, TimerInv
<1>3. ASSUME NEW t \in Thread, Call(t)
      PROVE  IInv'
  <2>1. ASSUME NEW m \in Mutex, Release(t, m) \/ \E s \in BOOLEAN : CreateMutex(t, m, s)
        PROVE  IInv'
    BY <2>1, ReleaseInv, CreateMutexInv
  <2>2. ASSUME NEW e \in Event, \/ EventReset(t, e)
                                \/ EventSet(t, e)
                                \/ \E b \in BOOLEAN : EventPulse(t, e, b)
        PROVE  IInv'
    BY <2>2, EventInv
  <2>3. ASSUME NEW e \in Event, NEW b \in BOOLEAN, CreateEvent(t, e, b)
        PROVE  IInv'
    BY <2>3, CreateEventInv
  <2>4. ASSUME NEW o \in Object, NEW force \in Forced, Free(t, o, force)
        PROVE  IInv'
    BY <2>4, FreeInv, ForcedAssumption
  <2>5. ASSUME NEW r \in Request, WaitObject(t, r)
        PROVE  IInv'
    BY <2>5, WaitObjectInv
  <2>6. CASE WaitReturn(t)
    BY <2>6, WaitReturnInv
  <2>7. ASSUME NEW u \in Thread, \/ Suspend(t, u)
                                 \/ Resume(t, u)
                                 \/ Terminate(t, u)
                                 \/ \E s \in BOOLEAN : CreateThread(t, u, s)
        PROVE  IInv'
    BY <2>7, SuspendInv, ResumeInv, TerminateInv, CreateThreadInv
  <2>8. CASE ExitThread(t)
    BY <2>8, ExitThreadInv
  <2>9. QED
    BY <1>3, <2>1, <2>2, <2>3, <2>4, <2>5, <2>6, <2>7, <2>8 DEF Call
<1>4. CASE UNCHANGED vars
  BY <1>4 DEF vars, thrVars, objVars, listVars, passVars, IInv, TypeOK, OwnerInv,
              WaitersListed, JoinInv, SchedInv, Listed
<1>5. QED
  BY <1>1, <1>2, <1>3, <1>4 DEF Next

(* IInv is an invariant of every run of the library, whatever the program  *)
(* calls and whenever the timer ticks.                                     *)
THEOREM Invariant == Spec => []IInv
  BY InitInv, NextInv, PTL DEF Spec

(* Every variable keeps its type: in particular a lock counter stays       *)
(* within MUTEX_MAXLOCK, whatever a walk captures.                         *)
THEOREM TypeCorrect == Spec => []TypeOK
  BY Invariant, PTL DEF IInv

(* A mutex has one living owner whose list holds it, or none and count 0.  *)
THEOREM OwnerCorrect == Spec => []OwnerInv
  BY Invariant, PTL DEF IInv

(* No waiting thread is missing from the list, none is in it twice, no     *)
(* entry outlives its thread.                                              *)
THEOREM WaitersCorrect == Spec => []WaitersListed
  BY Invariant, PTL DEF IInv

(* mt_termthread() only waits for a thread that is about to exit.          *)
THEOREM JoinCorrect == Spec => []JoinInv
  BY Invariant, PTL DEF IInv

(* Who runs and who is exiting: switch_context() never runs, and a call is *)
(* never made by, a thread in another state.                               *)
THEOREM SchedCorrect == Spec => []SchedInv
  BY Invariant, PTL DEF IInv

-----------------------------------------------------------------------------
(***************************************************************************)
(* The wait list between and during the walks of w_check_conditions().     *)
(***************************************************************************)

(* An entry without a verdict.                                             *)
Pending(t) == Listed(t) /\ we[t].signaled < 0

Sleeps(t) == tstate[t] = "waiting" /\ waitfor[t] = "obj"

(* It belongs to a thread that sleeps, or to the one whose own             *)
(* mt_waitobject() walks.                                                  *)
PendingInv ==
  \A t \in Thread : Pending(t) => Sleeps(t) \/ (pass = "wait" /\ t = cur)

Sticky(t) == {i \in DOMAIN we[t].req.items : we[t].sigf[i] = "on"}

(* What was on before does not meet its condition, and no mutex stays on.  *)
StickyInv ==
  \A t \in Thread : Pending(t) =>
    /\ ~Ready(we[t].req, Sticky(t))
    /\ \A i \in Sticky(t) : we[t].req.items[i].kind # "mutex"

(* Behind a walk nobody sleeps with a verdict or with its condition met.   *)
Settled(t) ==
  /\ we[t].signaled < 0 => ~Ready(we[t].req, OnNow(t))
  /\ we[t].signaled >= 0 => ~Sleeps(t)

Behind(t) == \E k \in DOMAIN wlist : k < at /\ wlist[k] = t

WalkInv == pass # "run" => \A t \in Thread : Behind(t) => Settled(t)

WInv == PendingInv /\ StickyInv /\ WalkInv

(* A condition that some items meet is met by more of them.                *)
LEMMA ReadyGrows ==
  ASSUME NEW r, NEW a, NEW b, a \subseteq b, Ready(r, a)
  PROVE  Ready(r, b)
<1>1. CASE \E i \in a : r.items[i].group = {}
  BY <1>1 DEF Ready
<1>2. CASE \E g \in Groups(r) : GroupReady(r, a, g)
  <2>1. PICK g \in Groups(r) : GroupReady(r, a, g)
    BY <1>2
  <2>2. GroupReady(r, b, g)
    BY <2>1 DEF GroupReady
  <2>3. QED
    BY <2>2 DEF Ready
<1>3. QED
  BY <1>1, <1>2 DEF Ready

(* No items meet no condition.                                             *)
LEMMA NothingReady == \A r : ~Ready(r, {})
  BY DEF Ready, GroupReady

(* A wait for one object is over when that object is on.                   *)
LEMMA OneItemReady ==
  ASSUME NEW r, ReqType(r), Len(r.items) = 1, NEW on, 1 \in on
  PROVE  Ready(r, on)
<1>1. DOMAIN r.items = {1}
  BY DEF ReqType
<1>2. CASE r.items[1].group = {}
  BY <1>2 DEF Ready
<1>3. CASE r.items[1].group # {}
  <2>1. PICK g : g \in r.items[1].group
    BY <1>3
  <2>2. g \in Groups(r)
    BY <1>1, <2>1 DEF Groups
  <2>3. {i \in DOMAIN r.items : g \in r.items[i].group} = {1}
    BY <1>1, <2>1
  <2>4. GroupReady(r, on, g)
    BY <2>3 DEF GroupReady
  <2>5. QED
    BY <2>2, <2>4 DEF Ready
<1>4. QED
  BY <1>2, <1>3

(* The items that the flags f call on.                                     *)
OnIn(r, f) == {i \in DOMAIN r.items : IsOn(f, i)}

(* A second loop that ends without a verdict has met no condition.         *)
LEMMA NoVerdict ==
  ASSUME NEW r, ReqType(r), NEW f, NEW k \in 1..(Len(r.items) + 1),
         LeavesAt(r, f, k), Verdict(r, f, k, -1)
  PROVE  ~Ready(r, OnIn(r, f))
<1> DEFINE gs == SignaledGroups(r, f, k)
<1>1. \A v \in gs : v # -1
  <2>1. \A v \in gs : v \in Nat
    BY GroupsTyped
  <2>2. QED
    BY <2>1
<1>2. gs = {} /\ ~(k \in DOMAIN r.items /\ r.items[k].group = {})
  BY <1>1 DEF Verdict
<1>3. k \notin DOMAIN r.items
  BY <1>2 DEF LeavesAt, Stops, SignaledGroups
<1>4. DOMAIN r.items = 1..(k - 1)
  BY <1>3 DEF ReqType
<1>5. \A i \in DOMAIN r.items : IsOn(f, i) =>
        r.items[i].group # {} /\ r.items[i].group \subseteq r.logic
  BY <1>4 DEF LeavesAt, Stops
<1>6. ASSUME NEW g \in r.logic
      PROVE  \E j \in DOMAIN r.items : ~IsOn(f, j) /\ g \in r.items[j].group
  BY <1>2, <1>4 DEF SignaledGroups
<1>7. ASSUME NEW g \in Groups(r) PROVE ~GroupReady(r, OnIn(r, f), g)
  <2> DEFINE members == {i \in DOMAIN r.items : g \in r.items[i].group}
  <2>1. CASE g \in r.logic
    <3>1. ~(members \subseteq OnIn(r, f))
      BY <1>6, <2>1 DEF OnIn
    <3>2. QED
      BY <2>1, <3>1 DEF GroupReady
  <2>2. CASE g \notin r.logic
    <3>1. members \cap OnIn(r, f) = {}
      BY <1>5, <2>2 DEF OnIn
    <3>2. QED
      BY <2>2, <3>1 DEF GroupReady
  <2>3. QED
    BY <2>1, <2>2
<1>8. QED
  BY <1>5, <1>7 DEF Ready, OnIn

(* Steps that only take entries from the list and end or begin a walk.     *)
LEMMA CalmW ==
  ASSUME IInv', WInv,
         \A x \in Thread : Listed(x)' => Listed(x) /\ we'[x] = we[x],
         pass' = "run" \/ at' = 1,
         \A x \in Thread : Pending(x) /\ Listed(x)' =>
                             Sleeps(x)' \/ (pass' = "wait" /\ x = cur')
  PROVE  WInv'
<1>1. \A x \in Thread : Pending(x)' => Pending(x) /\ Listed(x)' /\ we'[x] = we[x]
  BY DEF Pending
<1>2. PendingInv'
  BY <1>1 DEF PendingInv
<1>3. StickyInv'
  <2>1. ASSUME NEW x \in Thread, Pending(x)'
        PROVE  Sticky(x)' = Sticky(x) /\ we'[x] = we[x] /\ Pending(x)
    BY <1>1, <2>1 DEF Sticky
  <2>2. QED
    BY <2>1 DEF WInv, StickyInv
<1>4. WalkInv'
  <2>1. wlist' \in Seq(Thread)
    BY DEF IInv, TypeOK
  <2>2. \A k \in DOMAIN wlist' : ~(k < 1)
    BY <2>1
  <2>3. QED
    BY <2>2 DEF WalkInv, Behind
<1>5. QED
  BY <1>2, <1>3, <1>4 DEF WInv

(* Where a thread calls the library, every entry without a verdict belongs *)
(* to a thread that sleeps.                                                *)
LEMMA CalledAsleep ==
  ASSUME IInv, WInv, pass # "wait", NEW x \in Thread, Pending(x)
  PROVE  Sleeps(x)
  BY DEF WInv, PendingInv

(* Calls on objects, the timer, the choice of a thread: no thread changes  *)
(* its state.                                                              *)
LEMMA CallW ==
  ASSUME IInv, IInv', WInv, UNCHANGED <<tstate, waitfor, wlist, we>>,
         pass # "wait", pass' = "run" \/ at' = 1
  PROVE  WInv'
<1>1. \A x \in Thread : Listed(x)' => Listed(x) /\ we'[x] = we[x]
  BY DEF Listed
<1>2. \A x \in Thread : Pending(x) => Sleeps(x)'
  BY CalledAsleep DEF Sleeps
<1>3. QED
  BY <1>1, <1>2, CalmW

(* Calls on threads that do not sleep.                                     *)
LEMMA ThreadCallW ==
  ASSUME IInv, IInv', WInv, UNCHANGED <<wlist, we>>,
         pass = "run", pass' = "run" \/ at' = 1,
         \A x \in Thread : Listed(x) /\ Sleeps(x) => Sleeps(x)'
  PROVE  WInv'
<1>1. \A x \in Thread : Listed(x)' => Listed(x) /\ we'[x] = we[x]
  BY DEF Listed
<1>2. \A x \in Thread : Pending(x) => Sleeps(x)'
  BY CalledAsleep DEF Pending
<1>3. QED
  BY <1>1, <1>2, CalmW

(* w_del() of one entry leaves the other entries as they are.              *)
LEMMA UnlinkOthers ==
  ASSUME IInv, NEW k \in DOMAIN wlist, Unlink(k)
  PROVE  \A x \in Thread : Listed(x)' => x # wlist[k] /\ Listed(x) /\ we'[x] = we[x]
<1>1. \A x \in Thread : Listed(x)' <=> x # wlist[k] /\ Listed(x)
  BY UnlinkProps
<1>2. we \in [Thread -> WaitEntry] /\ we' = [we EXCEPT ![wlist[k]] = NoEntry]
  BY DEF IInv, TypeOK, Unlink
<1>3. QED
  BY <1>1, <1>2

(* w_del() at the end of a wait.                                           *)
LEMMA UnlinkW ==
  ASSUME IInv, IInv', WInv, NEW k \in DOMAIN wlist, Unlink(k), UNCHANGED thrVars,
         pass # "wait" \/ wlist[k] = cur, pass' = "run"
  PROVE  WInv'
<1>1. \A x \in Thread : Listed(x)' => x # wlist[k] /\ Listed(x) /\ we'[x] = we[x]
  BY UnlinkOthers
<1>2. \A x \in Thread : Pending(x) /\ Listed(x)' => Sleeps(x)'
  BY <1>1 DEF WInv, PendingInv, Sleeps, thrVars
<1>3. QED
  BY <1>1, <1>2, CalmW

(* mt_waitobject() adds an entry that nothing has been found on for yet.   *)
LEMMA WaitObjectW ==
  ASSUME IInv, IInv', WInv, NEW t \in Thread, NEW r \in Request, WaitObject(t, r)
  PROVE  WInv'
<1> DEFINE e == [req |-> r, sigf |-> [i \in DOMAIN r.items |-> "off"],
                 signaled |-> -1, reterr |-> "ok"]
<1>1. /\ we' = [we EXCEPT ![t] = e] /\ wlist' = Append(wlist, t)
      /\ pass = "run" /\ pass' = "wait" /\ at' = 1 /\ cur = t /\ cur' = cur
      /\ UNCHANGED <<tstate, waitfor>>
  BY DEF WaitObject, Enlist, StartPass, Calls, thrVars
<1>2. we \in [Thread -> WaitEntry] /\ wlist \in Seq(Thread) /\ wlist' \in Seq(Thread)
  BY DEF IInv, TypeOK
<1>3. \A x \in Thread : x # t => (Listed(x)' => Listed(x)) /\ we'[x] = we[x]
  <2>1. ASSUME NEW x \in Thread, x # t, NEW k \in DOMAIN wlist', wlist'[k] = x
        PROVE  k \in DOMAIN wlist /\ wlist[k] = x
    BY <1>1, <1>2, <2>1
  <2>2. \A x \in Thread : x # t => we'[x] = we[x]
    BY <1>1, <1>2
  <2>3. QED
    BY <2>1, <2>2 DEF Listed
<1>4. Sticky(t)' = {}
  <2>1. we'[t] = e
    BY <1>1, <1>2
  <2>2. QED
    BY <2>1 DEF Sticky
<1>5. \A x \in Thread : x # t /\ Pending(x)' => Pending(x) /\ we'[x] = we[x]
  BY <1>3 DEF Pending
<1>6. PendingInv'
  BY <1>1, <1>5 DEF WInv, PendingInv, Sleeps
<1>7. StickyInv'
  <2>1. ASSUME NEW x \in Thread, x # t, Pending(x)'
        PROVE  Sticky(x)' = Sticky(x) /\ we'[x] = we[x] /\ Pending(x)
    BY <1>5, <2>1 DEF Sticky
  <2>2. ~Ready(we[t].req, Sticky(t))'
    BY <1>4, NothingReady
  <2>3. QED
    BY <1>4, <2>1, <2>2 DEF WInv, StickyInv
<1>8. WalkInv'
  <2>1. \A k \in DOMAIN wlist' : ~(k < 1)
    BY <1>2
  <2>2. QED
    BY <1>1, <2>1 DEF WalkInv, Behind
<1>9. QED
  BY <1>6, <1>7, <1>8 DEF WInv

(* A step of a walk changes its own entry only, and meets no condition of  *)
(* an earlier one.                                                         *)
LEMMA NextEntryW ==
  ASSUME IInv, WInv, Keeps, NEW t \in Thread, wlist[at] = t, at' = at + 1,
         UNCHANGED <<cur, waitfor, wlist, pass>>,
         Wake(t) \/ tstate' = tstate,
         \A x \in Thread : x # t => we'[x] = we[x] /\ OnNow(x)' \subseteq OnNow(x),
         Pending(t)' =>
           /\ Pending(t) /\ tstate' = tstate
           /\ ~Ready(we[t].req, Sticky(t))'
           /\ \A i \in Sticky(t)' : we'[t].req.items[i].kind # "mutex",
         Settled(t)'
  PROVE  WInv'
<1>1. /\ at \in DOMAIN wlist /\ at \in Nat /\ pass # "run"
      /\ \A k \in DOMAIN wlist : k \in Nat
  BY DEF Keeps, Walking, IInv, TypeOK
<1>2. \A x \in Thread : x # t => tstate'[x] = tstate[x]
  BY DEF Wake, IInv, TypeOK
<1>3. \A x \in Thread : Listed(x)' <=> Listed(x)
  BY DEF Listed
<1>4. \A x \in Thread : x # t /\ Pending(x)' => Pending(x) /\ we'[x] = we[x]
  BY <1>3 DEF Pending
<1>5. PendingInv'
  <2>1. ASSUME NEW x \in Thread, Pending(x)'
        PROVE  Pending(x) /\ tstate'[x] = tstate[x]
    BY <1>2, <1>4, <2>1
  <2>2. QED
    BY <2>1 DEF WInv, PendingInv, Sleeps
<1>6. StickyInv'
  <2>1. ASSUME NEW x \in Thread, x # t, Pending(x)'
        PROVE  Sticky(x)' = Sticky(x) /\ we'[x] = we[x] /\ Pending(x)
    BY <1>4, <2>1 DEF Sticky
  <2>2. ASSUME NEW x \in Thread, x # t, Pending(x)'
        PROVE  /\ ~Ready(we[x].req, Sticky(x))'
               /\ \A i \in Sticky(x)' : we'[x].req.items[i].kind # "mutex"
    BY <2>1, <2>2 DEF WInv, StickyInv
  <2>3. QED
    BY <2>2 DEF StickyInv
<1>7. WalkInv'
  <2>1. ASSUME NEW x \in Thread, x # t, Behind(x)'
        PROVE  Settled(x)'
    <3>1. Behind(x)
      BY <1>1, <2>1 DEF Behind
    <3>2. Settled(x)
      BY <1>1, <3>1 DEF WInv, WalkInv
    <3>3. /\ we'[x] = we[x] /\ OnNow(x)' \subseteq OnNow(x)
          /\ tstate'[x] = tstate[x]
      BY <1>2, <2>1
    <3>4. ~Ready(we[x].req, OnNow(x)) => ~Ready(we[x].req, OnNow(x)')
      BY <3>3, ReadyGrows
    <3>5. QED
      BY <3>2, <3>3, <3>4 DEF Settled, Sleeps
  <2>2. QED
    BY <2>1 DEF WalkInv
<1>8. QED
  BY <1>5, <1>6, <1>7 DEF WInv

(* Steps that change no object and no entry but their own.                 *)
LEMMA OnNowKept ==
  ASSUME UNCHANGED <<owner, evstate, alive>>, NEW x, we'[x] = we[x]
  PROVE  OnNow(x)' = OnNow(x)
  BY DEF OnNow

(* The walk of an exit drops the entry of the exiting thread.              *)
LEMMA DropEntryW == ASSUME IInv, WInv, DropEntry PROVE WInv'
<1>1. /\ at \in DOMAIN wlist /\ Unlink(at) /\ pass = "exit" /\ pass' = "exit"
      /\ UNCHANGED <<owner, evstate, alive, cur, tstate, waitfor, at>>
  BY DEF DropEntry, Walking, IInv, TypeOK, passVars, thrVars
<1>2. \A x \in Thread : Listed(x)' => x # wlist[at] /\ Listed(x) /\ we'[x] = we[x]
  BY <1>1, UnlinkOthers
<1>3. \A i \in DOMAIN wlist' : i < at => i \in DOMAIN wlist /\ wlist'[i] = wlist[i]
  BY <1>1, UnlinkProps
<1>4. PendingInv'
  BY <1>1, <1>2 DEF WInv, PendingInv, Pending, Sleeps
<1>5. StickyInv'
  <2>1. ASSUME NEW x \in Thread, Pending(x)'
        PROVE  Sticky(x)' = Sticky(x) /\ we'[x] = we[x] /\ Pending(x)
    BY <1>2, <2>1 DEF Sticky, Pending
  <2>2. QED
    BY <2>1 DEF WInv, StickyInv
<1>6. WalkInv'
  <2>1. ASSUME NEW x \in Thread, Behind(x)'
        PROVE  Settled(x)'
    <3>1. Behind(x) /\ Listed(x)'
      BY <1>1, <1>3, <2>1 DEF Behind, Listed
    <3>2. Settled(x)
      BY <1>1, <3>1 DEF WInv, WalkInv
    <3>3. we'[x] = we[x]
      BY <1>2, <3>1
    <3>4. OnNow(x)' = OnNow(x)
      BY <1>1, <3>3, OnNowKept
    <3>5. QED
      BY <1>1, <3>2, <3>3, <3>4 DEF Settled, Sleeps
  <2>2. QED
    BY <1>1, <2>1 DEF WalkInv
<1>7. QED
  BY <1>4, <1>5, <1>6 DEF WInv

(* The entry of a walk, where it is kept.                                  *)
LEMMA WalkedEntry ==
  ASSUME IInv, Keeps
  PROVE  /\ wlist[at] \in Thread /\ Listed(wlist[at])
         /\ we[wlist[at]] \in WaitEntry
         /\ ReqType(we[wlist[at]].req)
         /\ pass # "run" /\ at \in DOMAIN wlist
<1>1. at \in DOMAIN wlist /\ wlist[at] \in Thread /\ pass # "run"
  BY DEF Keeps, Walking, IInv, TypeOK
<1>2. we[wlist[at]] \in WaitEntry
  BY <1>1 DEF IInv, TypeOK
<1>3. we[wlist[at]].req \in Request \cup {NoReq}
  BY <1>2 DEF WaitEntry
<1>4. QED
  BY <1>1, <1>2, <1>3, RequestsTyped DEF Listed

(* A thread that update_wait_state() has met does not sleep.               *)
LEMMA Woken ==
  ASSUME IInv, NEW t \in Thread, Wake(t), waitfor' = waitfor
  PROVE  ~Sleeps(t)'
  BY DEF IInv, TypeOK, Wake, Sleeps

(* A walk passes an entry that has its verdict.                            *)
LEMMA SkipEntryW == ASSUME IInv, WInv, SkipEntry PROVE WInv'
<1>1. /\ Keeps /\ at' = at + 1
      /\ UNCHANGED <<cur, waitfor, wlist, pass, owner, evstate, alive, we>>
  BY DEF SkipEntry, objVars, listVars
<1>2. PICK t \in Thread : wlist[at] = t /\ we[t].signaled >= 0 /\ Wake(t)
  BY <1>1, WalkedEntry DEF SkipEntry
<1>3. \A x : we'[x] = we[x] /\ OnNow(x)' \subseteq OnNow(x)
  BY <1>1, OnNowKept
<1>4. ~(we[t].signaled < 0) /\ we'[t] = we[t]
  <2>1. we[t] \in WaitEntry
    BY DEF IInv, TypeOK
  <2>2. we[t].signaled \in Int
    BY <2>1 DEF WaitEntry
  <2>3. QED
    BY <1>1, <1>2, <2>2
<1>5. Settled(t)' /\ ~Pending(t)'
  BY <1>1, <1>2, <1>4, Woken DEF Settled, Pending
<1>6. QED
  BY <1>1, <1>2, <1>3, <1>5, NextEntryW

(* A walk fails an entry whose object is gone.                             *)
LEMMA FailEntryW ==
  ASSUME IInv, WInv, NEW due \in BOOLEAN, FailEntry(due)
  PROVE  WInv'
<1>1. /\ Keeps /\ at' = at + 1
      /\ UNCHANGED <<cur, waitfor, wlist, pass, owner, evstate, alive>>
  BY DEF FailEntry, objVars
<1>2. PICK t \in Thread : wlist[at] = t
  BY <1>1, WalkedEntry
<1>3. Wake(t) /\ we' = [we EXCEPT ![t].signaled = 0, ![t].reterr = "invobject"]
  BY <1>2 DEF FailEntry
<1>4. we \in [Thread -> WaitEntry]
  BY DEF IInv, TypeOK
<1>5. \A x \in Thread : x # t => we'[x] = we[x] /\ OnNow(x)' \subseteq OnNow(x)
  <2>1. \A x \in Thread : x # t => we'[x] = we[x]
    BY <1>3, <1>4
  <2>2. QED
    BY <1>1, <2>1, OnNowKept
<1>6. we'[t].signaled = 0
  <2>1. we[t] \in WaitEntry
    BY <1>4
  <2>2. we'[t] = [we[t] EXCEPT !.signaled = 0, !.reterr = "invobject"]
    BY <1>3, <1>4
  <2>3. QED
    BY <2>1, <2>2 DEF WaitEntry
<1>7. Settled(t)' /\ ~Pending(t)'
  BY <1>1, <1>3, <1>6, Woken DEF Settled, Pending
<1>8. QED
  BY <1>1, <1>2, <1>3, <1>5, <1>7, NextEntryW

(* Items found on by a walk that gives no verdict do not meet the          *)
(* condition: either nothing new was found, or the second loop said so.    *)
LEMMA PassNotReady ==
  ASSUME IInv, WInv, NEW due \in BOOLEAN, PassEntry(due),
         NEW t \in Thread, wlist[at] = t
  PROVE  ~Ready(we[t].req, OnIn(we[t].req, Flags(t, we[t], due)))
<1> DEFINE r == we[t].req
           f == Flags(t, we[t], due)
<1>1. Keeps /\ we[t].signaled < 0
  BY DEF PassEntry
<1>2. ReqType(r) /\ Pending(t)
  BY <1>1, WalkedEntry DEF Pending
<1>3. CASE \A i \in DOMAIN f : we[t].sigf[i] # "on" => f[i] = "off"
  <2>1. DOMAIN f = DOMAIN r.items
    BY DEF Flags
  <2>2. OnIn(r, f) \subseteq Sticky(t)
    BY <1>3, <2>1 DEF OnIn, IsOn, Sticky
  <2>3. ~Ready(r, Sticky(t))
    BY <1>2 DEF WInv, StickyInv
  <2>4. QED
    BY <2>2, <2>3, ReadyGrows
<1>4. CASE \E k \in 1..(Len(r.items) + 1) : LeavesAt(r, f, k) /\ Verdict(r, f, k, -1)
  <2> HIDE DEF r, f
  <2>1. ~Ready(r, OnIn(r, f))
    BY <1>2, <1>4, NoVerdict
  <2>2. QED
    BY <2>1 DEF r, f
<1>5. QED
  BY <1>3, <1>4 DEF PassEntry

(* A walk leaves an entry waiting.                                         *)
LEMMA PassEntryW ==
  ASSUME IInv, WInv, NEW due \in BOOLEAN, PassEntry(due)
  PROVE  WInv'
<1>1. /\ Keeps /\ at' = at + 1
      /\ UNCHANGED <<cur, tstate, waitfor, wlist, pass, owner, evstate, alive>>
  BY DEF PassEntry, objVars, thrVars
<1>2. PICK t \in Thread : wlist[at] = t
  BY <1>1, WalkedEntry
<1> DEFINE r == we[t].req
           f == Flags(t, we[t], due)
<1>3. we' = [we EXCEPT ![t].sigf = f] /\ we[t].signaled < 0
  BY <1>2 DEF PassEntry
<1>4. we \in [Thread -> WaitEntry]
  BY DEF IInv, TypeOK
<1>5. \A x \in Thread : x # t => we'[x] = we[x] /\ OnNow(x)' \subseteq OnNow(x)
  <2>1. \A x \in Thread : x # t => we'[x] = we[x]
    BY <1>3, <1>4
  <2>2. QED
    BY <1>1, <2>1, OnNowKept
<1>6. we'[t].signaled = we[t].signaled /\ we'[t].req = r /\ we'[t].sigf = f
  <2>1. we[t] \in WaitEntry
    BY <1>4
  <2>2. we'[t] = [we[t] EXCEPT !.sigf = f]
    BY <1>3, <1>4
  <2>3. QED
    BY <2>1, <2>2 DEF WaitEntry
<1>7. ~Ready(r, OnIn(r, f))
  BY <1>2, PassNotReady
<1>8. \A i \in DOMAIN r.items :
        /\ f[i] = IF we[t].sigf[i] = "on" THEN "on"
                  ELSE ItemState(t, r.items[i], due)
        /\ r.items[i].kind \in Kind
  <2>1. ReqType(r)
    BY <1>1, <1>2, WalkedEntry
  <2>2. \A i \in DOMAIN r.items : r.items[i] \in Item
    BY <2>1 DEF ReqType
  <2>3. QED
    BY <2>2 DEF Flags, Item
<1>9. OnNow(t)' \subseteq OnIn(r, f)
  <2>1. ASSUME NEW i \in OnNow(t)'
        PROVE  i \in DOMAIN r.items /\ IsOn(f, i)
    BY <1>1, <1>6, <1>8 DEF OnNow, IsOn, ItemState, Kind
  <2>2. QED
    BY <2>1 DEF OnIn
<1>10. Sticky(t)' = {i \in DOMAIN r.items : f[i] = "on"}
  BY <1>6 DEF Sticky
<1>11. Pending(t)
  BY <1>1, <1>2, <1>3, WalkedEntry DEF Pending
<1> HIDE DEF f
<1>12. ~Ready(we[t].req, Sticky(t))'
  <2>1. Sticky(t)' \subseteq OnIn(r, f)
    BY <1>10 DEF OnIn, IsOn
  <2>2. QED
    BY <1>6, <1>7, <2>1, ReadyGrows
<1>13. \A i \in Sticky(t)' : we'[t].req.items[i].kind # "mutex"
  <2>1. ASSUME NEW i \in DOMAIN r.items, f[i] = "on"
        PROVE  r.items[i].kind # "mutex"
    <3>1. CASE we[t].sigf[i] = "on"
      BY <1>11, <3>1 DEF WInv, StickyInv, Sticky
    <3>2. CASE we[t].sigf[i] # "on"
      BY <1>8, <2>1, <3>2 DEF ItemState
    <3>3. QED
      BY <3>1, <3>2
  <2>2. QED
    BY <1>6, <1>10, <2>1
<1>14. Settled(t)'
  <2>1. ~Ready(we[t].req, OnNow(t))'
    BY <1>6, <1>7, <1>9, ReadyGrows
  <2>2. we[t].signaled \in Int
    BY <1>4 DEF WaitEntry
  <2>3. QED
    BY <1>3, <1>6, <2>1, <2>2 DEF Settled
<1>15. QED
  BY <1>1, <1>2, <1>5, <1>11, <1>12, <1>13, <1>14, NextEntryW

(* What a grant does to the entry of t, item by item: f are the flags, k   *)
(* is where the second loop leaves, v is the verdict.                      *)
GrantOf(t, f, k, v) ==
  LET r    == we[t].req
      grab == Grabbed(r, f, k, v)
      done == Done(t, r, grab)
  IN
  /\ LeavesAt(r, f, k)
  /\ v \in {0} \cup SignaledGroups(r, f, k)
  /\ Verdict(r, f, k, v)
  /\ \A m \in Mutex : owner'[m] = IF m \in ObjsAt(r, done) THEN t ELSE owner[m]
  /\ \A e \in Event : evstate'[e] = IF e \in ObjsAt(r, done) THEN 0 ELSE evstate[e]
  /\ \A x \in Thread : x # t => we'[x] = we[x]
  /\ we'[t].req = r /\ we'[t].signaled = v
  /\ we'[t].reterr = IF done = grab THEN "ok" ELSE "locklimit"
  /\ we'[t].sigf = [i \in DOMAIN f |-> IF i \in done THEN "on" ELSE f[i]]

(* The entry of t takes its new fields one by one.                         *)
LEMMA EntryFields ==
  ASSUME NEW e \in WaitEntry, NEW f, NEW v, NEW err
  PROVE  LET d == [e EXCEPT !.sigf = f, !.signaled = v, !.reterr = err] IN
         /\ d.req = e.req /\ d.sigf = f /\ d.signaled = v /\ d.reterr = err
  BY DEF WaitEntry

(* Every grant is of that form.                                            *)
LEMMA GrantFacts ==
  ASSUME IInv, NEW due \in BOOLEAN, GrantEntry(due)
  PROVE  LET t == wlist[at] IN
         \E k \in 1..(Len(we[t].req.items) + 1), v \in Nat :
           GrantOf(t, Flags(t, we[t], due), k, v)
<1> DEFINE t == wlist[at]
           r == we[t].req
           f == Flags(t, we[t], due)
           Granted(k, v) ==
             LET grab == Grabbed(r, f, k, v)
                 done == Done(t, r, grab)
                 objs == ObjsAt(r, done)
             IN /\ Capture(t, objs \cap Mutex)
                /\ evstate' = [x \in Event |-> IF x \in objs THEN 0 ELSE evstate[x]]
                /\ we' = [we EXCEPT
                     ![t].sigf = [i \in DOMAIN f |-> IF i \in done THEN "on" ELSE f[i]],
                     ![t].signaled = v,
                     ![t].reterr = IF done = grab THEN "ok" ELSE "locklimit"]
<1>1. PICK k \in 1..(Len(r.items) + 1) :
        /\ LeavesAt(r, f, k)
        /\ \E v \in {0} \cup SignaledGroups(r, f, k) : Verdict(r, f, k, v) /\ Granted(k, v)
  BY DEF GrantEntry
<1>2. PICK v \in {0} \cup SignaledGroups(r, f, k) : Verdict(r, f, k, v) /\ Granted(k, v)
  BY <1>1
<1> DEFINE grab == Grabbed(r, f, k, v)
           done == Done(t, r, grab)
           objs == ObjsAt(r, done)
           ff   == [i \in DOMAIN f |-> IF i \in done THEN "on" ELSE f[i]]
           err  == IF done = grab THEN "ok" ELSE "locklimit"
<1>3. /\ owner' = [m \in Mutex |-> IF m \in objs \cap Mutex THEN t ELSE owner[m]]
      /\ evstate' = [x \in Event |-> IF x \in objs THEN 0 ELSE evstate[x]]
      /\ we' = [we EXCEPT ![t].sigf = ff, ![t].signaled = v, ![t].reterr = err]
  BY <1>2 DEF Capture
<1>4. we \in [Thread -> WaitEntry] /\ ReqType(r) /\ t \in Thread
  BY WalkedEntry DEF GrantEntry, IInv, TypeOK
<1>5. v \in Nat
  BY <1>4, GroupsTyped
<1> HIDE DEF Granted, f, r, ff, err, objs, t
<1>6. /\ \A x \in Thread : x # t => we'[x] = we[x]
      /\ we'[t] = [we[t] EXCEPT !.sigf = ff, !.signaled = v, !.reterr = err]
  BY <1>3, <1>4
<1>7. we'[t].req = we[t].req /\ we'[t].sigf = ff /\ we'[t].signaled = v /\ we'[t].reterr = err
  BY <1>4, <1>6, EntryFields
<1>8. /\ \A m \in Mutex : owner'[m] = IF m \in objs THEN t ELSE owner[m]
      /\ \A e \in Event : evstate'[e] = IF e \in objs THEN 0 ELSE evstate[e]
  BY <1>3
<1>9. GrantOf(t, f, k, v)
  BY <1>1, <1>2, <1>6, <1>7, <1>8, Zenon DEF GrantOf, r, ff, err, objs
<1>10. QED
  BY <1>1, <1>5, <1>9 DEF f, r, t

(* The same for a thread t known by name.                                  *)
LEMMA GrantStep ==
  ASSUME IInv, NEW due \in BOOLEAN, GrantEntry(due), NEW t \in Thread, wlist[at] = t
  PROVE  \E k \in 1..(Len(we[t].req.items) + 1), v \in Nat :
           GrantOf(t, Flags(t, we[t], due), k, v)
  BY GrantFacts

(* A grant takes free mutexes and mutexes of the thread itself.            *)
LEMMA GrantTakes ==
  ASSUME IInv, NEW due \in BOOLEAN, NEW t \in Thread, NEW k, NEW v,
         GrantOf(t, Flags(t, we[t], due), k, v), NEW m \in Mutex
  PROVE  \/ owner'[m] = owner[m]
         \/ owner'[m] = t /\ owner[m] = NoThread /\ m \in alive
<1> DEFINE r == we[t].req
           done == Done(t, r, Grabbed(r, Flags(t, we[t], due), k, v))
<1>1. owner'[m] = IF m \in ObjsAt(r, done) THEN t ELSE owner[m]
  BY DEF GrantOf
<1>2. CASE m \in ObjsAt(r, done)
  <2>1. PICK i \in done : r.items[i].obj = m
    BY <1>2 DEF ObjsAt
  <2>2. we[t] \in WaitEntry
    BY DEF IInv, TypeOK
  <2>3. m \in alive /\ owner[m] \in {NoThread, t}
    BY <2>1, <2>2, GrabbedObjects
  <2>4. QED
    BY <1>1, <1>2, <2>3
<1>3. CASE m \notin ObjsAt(r, done)
  BY <1>1, <1>3
<1>4. QED
  BY <1>2, <1>3

(* For the other entries a grant turns nothing on.                         *)
LEMMA GrantOnNow ==
  ASSUME IInv, NEW due \in BOOLEAN, NEW t \in Thread, NEW k, NEW v,
         GrantOf(t, Flags(t, we[t], due), k, v), alive' = alive,
         NEW x \in Thread, x # t
  PROVE  we'[x] = we[x] /\ OnNow(x)' \subseteq OnNow(x)
<1>1. we'[x] = we[x]
  BY DEF GrantOf
<1>2. \A m \in Mutex : owner'[m] \in {NoThread, x} => owner[m] = owner'[m]
  BY GrantTakes, ThreadAssumption
<1>3. \A e \in Event : evstate'[e] = 1 => evstate[e] = 1
  BY DEF GrantOf
<1>4. \A i \in DOMAIN we[x].req.items :
        LET y == we[x].req.items[i] IN
        (y.kind = "mutex" => y.obj \in Mutex) /\ (y.kind = "event" => y.obj \in Event)
  <2>1. we[x].req \in Request \cup {NoReq}
    BY DEF IInv, TypeOK, WaitEntry
  <2>2. QED
    BY <2>1, RequestsTyped DEF ReqType, WellFormed
<1>5. QED
  BY <1>1, <1>2, <1>3, <1>4 DEF OnNow

(* A walk grants an entry.                                                 *)
LEMMA GrantEntryW ==
  ASSUME IInv, WInv, NEW due \in BOOLEAN, GrantEntry(due)
  PROVE  WInv'
<1>1. /\ Keeps /\ at' = at + 1
      /\ UNCHANGED <<cur, waitfor, wlist, pass, alive>>
  BY DEF GrantEntry
<1>2. PICK t \in Thread : wlist[at] = t
  BY <1>1, WalkedEntry
<1>3. PICK k, v \in Nat : GrantOf(t, Flags(t, we[t], due), k, v)
  BY <1>2, GrantStep
<1>4. Wake(t)
  BY <1>2 DEF GrantEntry
<1>5. \A x \in Thread : x # t => we'[x] = we[x] /\ OnNow(x)' \subseteq OnNow(x)
  BY <1>1, <1>3, GrantOnNow
<1>6. we'[t].signaled = v
  BY <1>3 DEF GrantOf
<1>7. Settled(t)' /\ ~Pending(t)'
  BY <1>1, <1>4, <1>6, Woken DEF Settled, Pending
<1>8. QED
  BY <1>1, <1>2, <1>4, <1>5, <1>7, NextEntryW

(* The end of mt_waitobject()'s own walk.                                  *)
LEMMA EndWaitW == ASSUME IInv, IInv', WInv, EndWait PROVE WInv'
<1>1. pass = "wait"
  BY DEF EndWait
<1>2. CASE hit
  <2>1. PICK k \in DOMAIN wlist : wlist[k] = cur /\ Unlink(k)
    BY <1>2 DEF EndWait
  <2>2. UNCHANGED thrVars /\ pass' = "run"
    BY <1>2 DEF EndWait, thrVars
  <2>3. QED
    BY <2>1, <2>2, UnlinkW
<1>3. CASE ~hit
  <2>1. /\ tstate' = [tstate EXCEPT ![cur] = "waiting"]
        /\ waitfor' = [waitfor EXCEPT ![cur] = "obj"]
        /\ at' = 1 /\ UNCHANGED <<wlist, we, cur>>
    BY <1>3 DEF EndWait, StartPass
  <2>2. \A x \in Thread : Listed(x)' => Listed(x) /\ we'[x] = we[x]
    BY <2>1 DEF Listed
  <2>3. /\ tstate \in [Thread -> {"none", "running", "waiting", "suspended", "finished"}]
        /\ waitfor \in [Thread -> Thread \cup {"none", "obj"}]
    BY DEF IInv, TypeOK
  <2>4. \A x \in Thread : Pending(x) => Sleeps(x)'
    BY <2>1, <2>3 DEF WInv, PendingInv, Sleeps
  <2>5. QED
    BY <2>1, <2>2, <2>4, CalmW
<1>4. QED
  BY <1>2, <1>3

(* mt_waitobject() returns.                                                *)
LEMMA WaitReturnW ==
  ASSUME IInv, IInv', WInv, NEW t \in Thread, WaitReturn(t)
  PROVE  WInv'
<1>1. PICK k \in DOMAIN wlist : wlist[k] = t /\ Unlink(k)
  BY DEF WaitReturn
<1>2. UNCHANGED thrVars /\ pass = "run" /\ pass' = "run"
  BY DEF WaitReturn, passVars
<1>3. QED
  BY <1>1, <1>2, UnlinkW

(* mt_termthread(): the entry of a thread that sleeps is deleted before it *)
(* is made to run.                                                         *)
LEMMA TerminateW ==
  ASSUME IInv, IInv', WInv, NEW t \in Thread, NEW u \in Thread, Terminate(t, u)
  PROVE  WInv'
<1>1. /\ pass = "run" /\ ~Listed(t) /\ u # t /\ at' = 1
      /\ tstate' = [tstate EXCEPT ![u] = "running", ![t] = "waiting"]
      /\ waitfor' = [waitfor EXCEPT ![t] = u]
  BY DEF Terminate, Calls, StartPass
<1>2. /\ tstate \in [Thread -> {"none", "running", "waiting", "suspended", "finished"}]
      /\ waitfor \in [Thread -> Thread \cup {"none", "obj"}]
  BY DEF IInv, TypeOK
<1>3. /\ \A x \in Thread : Listed(x)' => Listed(x) /\ we'[x] = we[x]
      /\ Listed(u)' => ~Sleeps(u)
  <2>1. CASE Sleeps(u)
    <3>1. PICK k \in DOMAIN wlist : wlist[k] = u /\ Unlink(k)
      BY <2>1 DEF Terminate, Sleeps
    <3>2. QED
      BY <3>1, UnlinkOthers
  <2>2. CASE ~Sleeps(u)
    BY <2>2 DEF Terminate, Sleeps, Listed
  <2>3. QED
    BY <2>1, <2>2
<1>4. ASSUME NEW x \in Thread, Pending(x), Listed(x)'
      PROVE  Sleeps(x)'
  <2>1. Sleeps(x) /\ x # t
    BY <1>1, <1>4, CalledAsleep DEF Pending
  <2>2. x # u
    BY <1>3, <1>4, <2>1
  <2>3. QED
    BY <1>1, <1>2, <2>1, <2>2 DEF Sleeps
<1>5. QED
  BY <1>1, <1>3, <1>4, CalmW

(* mt_createthread(), mt_suspendthread(), mt_resumethread() and an exit    *)
(* leave a thread that sleeps asleep.                                      *)
LEMMA ThreadCallsW ==
  ASSUME IInv, IInv', WInv, NEW t \in Thread,
         \/ \E u \in Thread : \/ Suspend(t, u) \/ Resume(t, u)
                              \/ \E s \in BOOLEAN : CreateThread(t, u, s)
         \/ ExitThread(t)
  PROVE  WInv'
<1> USE DEF IInv, TypeOK, Sleeps
<1>1. ASSUME NEW u \in Thread, Suspend(t, u) PROVE WInv'
  <2>1. /\ UNCHANGED <<wlist, we, waitfor>> /\ pass = "run" /\ tstate[u] = "running"
        /\ tstate' = [tstate EXCEPT ![u] = "suspended"]
        /\ pass' = "run" \/ at' = 1
    BY <1>1 DEF Suspend, MaySuspend, Calls, StartPass, listVars
  <2>2. \A x \in Thread : Sleeps(x) => Sleeps(x)'
    BY <2>1
  <2>3. QED
    BY <2>1, <2>2, ThreadCallW
<1>2. ASSUME NEW u \in Thread, Resume(t, u) PROVE WInv'
  <2>1. /\ UNCHANGED <<wlist, we, waitfor>> /\ pass = "run" /\ tstate[u] = "suspended"
        /\ tstate' = [tstate EXCEPT ![u] = "running"] /\ pass' = "run"
    BY <1>2 DEF Resume, Calls, listVars, passVars
  <2>2. \A x \in Thread : Sleeps(x) => Sleeps(x)'
    BY <2>1
  <2>3. QED
    BY <2>1, <2>2, ThreadCallW
<1>3. ASSUME NEW u \in Thread, NEW s \in BOOLEAN, CreateThread(t, u, s) PROVE WInv'
  <2>1. /\ UNCHANGED <<wlist, we, waitfor>> /\ pass = "run" /\ tstate[u] = "none"
        /\ \E n : tstate' = [tstate EXCEPT ![u] = n]
        /\ pass' = "run"
    BY <1>3 DEF CreateThread, Calls, listVars, passVars
  <2>2. \A x \in Thread : Sleeps(x) => Sleeps(x)'
    BY <2>1
  <2>3. QED
    BY <2>1, <2>2, ThreadCallW
<1>4. CASE ExitThread(t)
  <2>1. /\ UNCHANGED <<wlist, we, waitfor>> /\ pass = "run" /\ cur = t /\ at' = 1
        /\ tstate' = FreeJoiners(t)
    BY <1>4 DEF ExitThread, listVars, StartPass
  <2>2. tstate[t] = "running"
    BY <2>1, CallerRuns
  <2>3. \A x \in Thread : Sleeps(x) => Sleeps(x)'
    BY <2>1, <2>2, ThreadAssumption DEF FreeJoiners
  <2>4. QED
    BY <2>1, <2>3, ThreadCallW
<1>5. QED
  BY <1>1, <1>2, <1>3, <1>4

(* The end of an exit: the thread that goes has no entry any more.         *)
LEMMA EndExitW ==
  ASSUME IInv, IInv', WInv, NEW t, EndExit(t)
  PROVE  WInv'
<1>1. /\ UNCHANGED <<wlist, we>> /\ pass = "exit" /\ pass' = "run"
      /\ tstate' = [tstate EXCEPT ![cur] = "none"]
      /\ waitfor' = [waitfor EXCEPT ![cur] = "none"]
  BY DEF EndExit, listVars
<1>2. tstate[cur] = "finished"
  BY <1>1 DEF IInv, SchedInv
<1>3. /\ \A x \in Thread : Listed(x)' => Listed(x) /\ we'[x] = we[x]
      /\ \A x \in Thread : Pending(x) => Sleeps(x)
  BY <1>1, CalledAsleep DEF Listed
<1>4. \A x \in Thread : Sleeps(x) => Sleeps(x)'
  BY <1>1, <1>2 DEF Sleeps, IInv, TypeOK
<1>5. QED
  BY <1>1, <1>3, <1>4, CalmW

(* Every step keeps the wait list in order.                                *)
LEMMA NextW == ASSUME IInv, IInv', WInv, [Next]_vars PROVE WInv'
<1>1. CASE Walk
  <2>1. CASE CheckEntry
    BY <2>1, DropEntryW, SkipEntryW, FailEntryW, PassEntryW, GrantEntryW DEF CheckEntry
  <2>2. CASE EndEvent
    BY <2>2, CallW DEF EndEvent, thrVars, listVars
  <2>3. CASE EndWait
    BY <2>3, EndWaitW
  <2>4. ASSUME NEW t \in Thread \cup {Idle}, Dispatch(t) \/ EndExit(t)
        PROVE  WInv'
    BY <2>4, CallW, EndExitW DEF Dispatch, listVars
  <2>5. QED
    BY <1>1, <2>1, <2>2, <2>3, <2>4 DEF Walk
<1>2. CASE Timer
  BY <1>2, CallW DEF Timer, StartPass, thrVars, listVars
<1>3. ASSUME NEW t \in Thread, Call(t)
      PROVE  WInv'
  <2> USE DEF Calls, thrVars, listVars, passVars
  <2>1. ASSUME NEW m \in Mutex, Release(t, m) \/ \E s \in BOOLEAN : CreateMutex(t, m, s)
        PROVE  WInv'
    BY <2>1, CallW DEF Release, CreateMutex
  <2>2. ASSUME NEW e \in Event, \/ EventReset(t, e)
                                \/ EventSet(t, e)
                                \/ \E b \in BOOLEAN :
                                     EventPulse(t, e, b) \/ CreateEvent(t, e, b)
        PROVE  WInv'
    BY <2>2, CallW DEF EventReset, EventSet, EventPulse, CreateEvent, StartPass
  <2>3. ASSUME NEW o \in Object, NEW force \in Forced, Free(t, o, force)
        PROVE  WInv'
    BY <2>3, CallW DEF Free
  <2>4. ASSUME NEW r \in Request, WaitObject(t, r)
        PROVE  WInv'
    BY <2>4, WaitObjectW
  <2>5. CASE WaitReturn(t)
    BY <2>5, WaitReturnW
  <2>6. ASSUME NEW u \in Thread, \/ Suspend(t, u)
                                 \/ Resume(t, u)
                                 \/ \E s \in BOOLEAN : CreateThread(t, u, s)
        PROVE  WInv'
    BY <2>6, ThreadCallsW
  <2>7. ASSUME NEW u \in Thread, Terminate(t, u)
        PROVE  WInv'
    BY <2>7, TerminateW
  <2>8. CASE ExitThread(t)
    BY <2>8, ThreadCallsW
  <2>9. QED
    BY <1>3, <2>1, <2>2, <2>3, <2>4, <2>5, <2>6, <2>7, <2>8 DEF Call
<1>4. CASE UNCHANGED vars
  <2>1. UNCHANGED <<tstate, waitfor, wlist, we, pass, cur, at, owner, evstate, alive>>
    BY <1>4 DEF vars, thrVars, objVars, listVars, passVars
  <2>2. QED
    BY <2>1 DEF WInv, PendingInv, StickyInv, WalkInv, Behind, Pending, Listed, Sleeps,
                Settled, Sticky, OnNow
<1>5. QED
  BY <1>1, <1>2, <1>3, <1>4 DEF Next

(* The wait list is in order in every run.                                 *)
THEOREM WaitInvariant == Spec => [](IInv /\ WInv)
<1>1. Init => WInv
  BY DEF Init, WInv, PendingInv, StickyInv, WalkInv, Pending, Listed
<1>2. IInv /\ IInv' /\ WInv /\ [Next]_vars => WInv'
  BY NextW
<1>3. QED
  BY <1>1, <1>2, Invariant, PTL DEF Spec

(* switch_context() never goes to a thread while one that sleeps has its   *)
(* condition met: what the walk has passed stays unmet to its end.         *)
THEOREM NothingMissed == Spec => []NoMissedWakeup
<1>1. IInv /\ WInv => NoMissedWakeup
  <2>1. SUFFICES ASSUME IInv, WInv, pass = "switch", at > Len(wlist),
                        NEW t \in Thread, tstate[t] = "waiting", waitfor[t] = "obj"
                 PROVE  ~Ready(we[t].req, OnNow(t))
    BY DEF NoMissedWakeup
  <2>2. PICK k \in DOMAIN wlist : wlist[k] = t
    BY <2>1 DEF IInv, WaitersListed, Listed
  <2>3. k < at
    BY <2>1, <2>2 DEF IInv, TypeOK
  <2>4. Settled(t)
    BY <2>1, <2>2, <2>3 DEF WInv, WalkInv, Behind
  <2>5. we[t].signaled \in Int
    BY <2>1 DEF IInv, TypeOK, WaitEntry
  <2>6. QED
    BY <2>1, <2>4, <2>5 DEF Settled, Sleeps
<1>2. QED
  BY <1>1, WaitInvariant, PTL

-----------------------------------------------------------------------------
(***************************************************************************)
(* Who gets a mutex, and when.                                             *)
(***************************************************************************)

(* A mutex gets an owner by its creation or from a walk only.              *)
LEMMA OwnerChanges ==
  ASSUME IInv, [Next]_vars, NEW m \in Mutex
  PROVE  \/ owner'[m] \in {owner[m], NoThread}
         \/ /\ \E t \in Thread, s \in BOOLEAN : CreateMutex(t, m, s)
            /\ m \notin alive /\ owner'[m] = cur /\ tstate' = tstate
         \/ \E due \in BOOLEAN : GrantEntry(due)
<1> DEFINE Kept == owner'[m] \in {owner[m], NoThread}
<1> USE DEF objVars
<1>1. CASE Walk
  BY <1>1 DEF Walk, CheckEntry, DropEntry, SkipEntry, FailEntry, PassEntry,
              EndEvent, EndWait, Dispatch, EndExit
<1>2. CASE Timer
  BY <1>2 DEF Timer
<1>3. ASSUME NEW t \in Thread, Call(t)
      PROVE  \/ Kept
             \/ /\ \E s \in BOOLEAN : CreateMutex(t, m, s)
                /\ m \notin alive /\ owner'[m] = cur /\ tstate' = tstate
  <2>0. owner \in [Mutex -> Thread \cup {NoThread}]
    BY DEF IInv, TypeOK
  <2>1. ASSUME NEW n \in Mutex, Release(t, n) PROVE Kept
    BY <2>1 DEF Release, Unowned
  <2>2. ASSUME NEW n \in Mutex, NEW s \in BOOLEAN, CreateMutex(t, n, s)
        PROVE  \/ Kept
               \/ /\ \E b \in BOOLEAN : CreateMutex(t, m, b)
                  /\ m \notin alive /\ owner'[m] = cur /\ tstate' = tstate
    <3>1. CASE n = m
      BY <2>0, <2>2, <3>1 DEF CreateMutex, Calls, thrVars
    <3>2. CASE n # m
      BY <2>0, <2>2, <3>2 DEF CreateMutex
    <3>3. QED
      BY <3>1, <3>2
  <2>3. ASSUME NEW e \in Event, \/ EventReset(t, e)
                                \/ EventSet(t, e)
                                \/ \E b \in BOOLEAN :
                                     EventPulse(t, e, b) \/ CreateEvent(t, e, b)
        PROVE  Kept
    BY <2>3 DEF EventReset, EventSet, EventPulse, CreateEvent
  <2>4. ASSUME NEW o \in Object, NEW force \in Forced, Free(t, o, force)
        PROVE  Kept
    BY <2>4 DEF Free, Unowned
  <2>5. ASSUME NEW r \in Request, WaitObject(t, r)
        PROVE  Kept
    BY <2>5 DEF WaitObject
  <2>6. CASE WaitReturn(t)
    BY <2>6 DEF WaitReturn
  <2>7. ASSUME NEW u \in Thread, \/ Suspend(t, u)
                                 \/ Resume(t, u)
                                 \/ Terminate(t, u)
                                 \/ \E s \in BOOLEAN : CreateThread(t, u, s)
        PROVE  Kept
    BY <2>7 DEF Suspend, Resume, Terminate, CreateThread
  <2>8. CASE ExitThread(t)
    BY <2>8 DEF ExitThread, Unowned
  <2>9. QED
    BY <1>3, <2>1, <2>2, <2>3, <2>4, <2>5, <2>6, <2>7, <2>8 DEF Call
<1>4. CASE UNCHANGED vars
  BY <1>4 DEF vars
<1>5. QED
  BY <1>1, <1>2, <1>3, <1>4 DEF Next

(* A thread becomes suspended by mt_suspendthread() or at its creation:    *)
(* it owns no mutex then.                                                  *)
LEMMA SuspendChanges ==
  ASSUME IInv, [Next]_vars, NEW x \in Thread, tstate'[x] = "suspended"
  PROVE  tstate[x] = "suspended" \/ owned[x] = {}
<1> DEFINE Goal == tstate[x] = "suspended" \/ owned[x] = {}
<1>0. tstate \in [Thread -> {"none", "running", "waiting", "suspended", "finished"}]
  BY DEF IInv, TypeOK
<1> USE DEF thrVars
<1>1. CASE Walk
  BY <1>0, <1>1 DEF Walk, CheckEntry, DropEntry, SkipEntry, FailEntry, PassEntry, Wake,
                    GrantEntry, EndEvent, EndWait, Dispatch, EndExit
<1>2. CASE Timer
  BY <1>2 DEF Timer
<1>3. ASSUME NEW t \in Thread, Call(t)
      PROVE  Goal
  <2>1. ASSUME NEW m \in Mutex, Release(t, m) \/ \E s \in BOOLEAN : CreateMutex(t, m, s)
        PROVE  Goal
    BY <2>1 DEF Release, CreateMutex
  <2>2. ASSUME NEW e \in Event, \/ EventReset(t, e)
                                \/ EventSet(t, e)
                                \/ \E b \in BOOLEAN :
                                     EventPulse(t, e, b) \/ CreateEvent(t, e, b)
        PROVE  Goal
    BY <2>2 DEF EventReset, EventSet, EventPulse, CreateEvent
  <2>3. ASSUME NEW o \in Object, NEW force \in Forced, Free(t, o, force)
        PROVE  Goal
    BY <2>3 DEF Free
  <2>4. ASSUME NEW r \in Request, WaitObject(t, r)
        PROVE  Goal
    BY <2>4 DEF WaitObject
  <2>5. CASE WaitReturn(t)
    BY <2>5 DEF WaitReturn
  <2>6. ASSUME NEW u \in Thread, Suspend(t, u)
        PROVE  Goal
    BY <1>0, <2>6 DEF Suspend, MaySuspend
  <2>7. ASSUME NEW u \in Thread, Resume(t, u) \/ Terminate(t, u)
        PROVE  Goal
    BY <1>0, <2>7 DEF Resume, Terminate
  <2>8. ASSUME NEW u \in Thread, NEW s \in BOOLEAN, CreateThread(t, u, s)
        PROVE  Goal
    <3>1. tstate[u] = "none" => owned[u] = {}
      BY ThreadAssumption DEF IInv, OwnerInv
    <3>2. QED
      BY <1>0, <2>8, <3>1 DEF CreateThread
  <2>9. CASE ExitThread(t)
    BY <2>9 DEF ExitThread, FreeJoiners
  <2>10. QED
    BY <1>3, <2>1, <2>2, <2>3, <2>4, <2>5, <2>6, <2>7, <2>8, <2>9 DEF Call
<1>4. CASE UNCHANGED vars
  BY <1>4 DEF vars
<1>5. QED
  BY <1>1, <1>2, <1>3, <1>4 DEF Next

(* Nothing gives a mutex to a suspended thread: a walk captures only for   *)
(* entries without a verdict, whose threads sleep or call.                 *)
THEOREM SuspendedCorrect == Spec => []SuspendedOwnsNothing
<1>1. Init => SuspendedOwnsNothing
  BY DEF Init, SuspendedOwnsNothing
<1>2. ASSUME IInv, IInv', WInv, SuspendedOwnsNothing, [Next]_vars
      PROVE  SuspendedOwnsNothing'
  <2>1. SUFFICES ASSUME NEW x \in Thread, tstate'[x] = "suspended", NEW m \in Mutex,
                        owner'[m] = x
                 PROVE  FALSE
    BY <1>2 DEF IInv, OwnerInv, SuspendedOwnsNothing
  <2>2. owned[x] = {}
    BY <1>2, <2>1, SuspendChanges DEF SuspendedOwnsNothing
  <2>3. owner[m] # x /\ x # NoThread
    BY <1>2, <2>2, ThreadAssumption DEF IInv, OwnerInv
  <2>4. CASE m \notin alive /\ owner'[m] = cur /\ tstate' = tstate
             /\ \E t \in Thread, s \in BOOLEAN : CreateMutex(t, m, s)
    BY <1>2, <2>1, <2>4, CallerRuns DEF CreateMutex, Calls
  <2>5. ASSUME NEW due \in BOOLEAN, GrantEntry(due) PROVE FALSE
    <3>1. PICK t \in Thread : wlist[at] = t /\ Listed(t)
      BY <1>2, <2>5, WalkedEntry DEF GrantEntry
    <3>2. PICK k, v : GrantOf(t, Flags(t, we[t], due), k, v)
      BY <1>2, <2>5, <3>1, GrantStep
    <3>3. t = x
      BY <1>2, <2>1, <2>3, <3>2, GrantTakes
    <3>4. Pending(t) /\ Wake(t)
      BY <2>5, <3>1 DEF GrantEntry, Pending
    <3>5. tstate[t] \in {"waiting", "running"}
      BY <1>2, <3>4 DEF WInv, PendingInv, Sleeps, IInv, SchedInv
    <3>6. tstate'[t] # "suspended"
      BY <1>2, <3>4, <3>5 DEF IInv, TypeOK, Wake
    <3>7. QED
      BY <2>1, <3>3, <3>6
  <2>6. QED
    BY <1>2, <2>1, <2>3, <2>4, <2>5, OwnerChanges
<1>3. QED
  BY <1>1, <1>2, WaitInvariant, PTL DEF Spec

(* A free mutex goes to the earliest entry that waits for it alone: an     *)
(* entry behind the walk would have been met.                              *)
THEOREM GrantsInOrder == Spec => FifoGrant
<1> DEFINE Order ==
      \A m \in Mutex : \A t \in Thread :
        owner[m] = NoThread /\ owner'[m] = t /\ m \in alive =>
          \A i, j \in DOMAIN wlist :
            wlist[j] = t /\ i < j => ~WaitsOnlyFor(wlist[i], m)
<1>1. ASSUME IInv, WInv, [Next]_vars PROVE Order
  <2>1. SUFFICES ASSUME NEW m \in Mutex, NEW t \in Thread,
                        owner[m] = NoThread, owner'[m] = t, m \in alive,
                        NEW i \in DOMAIN wlist, NEW j \in DOMAIN wlist,
                        wlist[j] = t, i < j, NEW x, x = wlist[i], WaitsOnlyFor(x, m)
                 PROVE  FALSE
    OBVIOUS
  <2>2. PICK due \in BOOLEAN : GrantEntry(due)
    BY <1>1, <2>1, OwnerChanges, ThreadAssumption
  <2>3. PICK u \in Thread : wlist[at] = u /\ pass # "run" /\ at \in DOMAIN wlist
    BY <1>1, <2>2, WalkedEntry DEF GrantEntry
  <2>4. PICK k, v : GrantOf(u, Flags(u, we[u], due), k, v)
    BY <1>1, <2>2, <2>3, GrantStep
  <2>5. u = t
    BY <1>1, <2>1, <2>4, GrantTakes, ThreadAssumption
  <2>6. j = at
    BY <1>1, <2>1, <2>3, <2>5 DEF IInv, WaitersListed
  <2>7. x \in Thread /\ Behind(x)
    BY <1>1, <2>1, <2>6 DEF Behind, IInv, TypeOK
  <2>8. Settled(x)
    BY <1>1, <2>3, <2>7 DEF WInv, WalkInv
  <2>9. ~Ready(we[x].req, OnNow(x))
    BY <2>1, <2>8 DEF Settled, WaitsOnlyFor
  <2>10. ReqType(we[x].req) /\ Len(we[x].req.items) = 1
    <3>1. we[x].req \in Request \cup {NoReq}
      BY <1>1, <2>7 DEF IInv, TypeOK, WaitEntry
    <3>2. QED
      BY <2>1, <3>1, RequestsTyped DEF WaitsOnlyFor
  <2>11. 1 \in OnNow(x)
    <3>1. 1 \in DOMAIN we[x].req.items
      BY <2>10 DEF ReqType
    <3>2. QED
      BY <2>1, <3>1 DEF OnNow, WaitsOnlyFor
  <2>12. QED
    BY <2>9, <2>10, <2>11, OneItemReady
<1>2. QED
  BY <1>1, WaitInvariant, PTL DEF Spec, FifoGrant

-----------------------------------------------------------------------------
(***************************************************************************)
(* What a wait reports.  A request with both AND and OR groups may get a   *)
(* verdict for an AND group that is not met, when an OR group ends the     *)
(* second loop early; the theorems below are about the others, and about   *)
(* AND groups that have items.                                             *)
(***************************************************************************)
Unmixed(r) ==
  /\ r.logic \subseteq Groups(r)
  /\ \/ r.logic = {}
     \/ \A i \in DOMAIN r.items : r.items[i].group \subseteq r.logic

(* The items of the group reported are on: one of them, where the second   *)
(* loop stops, or for an AND group all, when it has seen every item.       *)
LEMMA VerdictMet ==
  ASSUME NEW r, ReqType(r), Unmixed(r), NEW f, NEW k \in 1..(Len(r.items) + 1),
         NEW v \in {0} \cup SignaledGroups(r, f, k),
         LeavesAt(r, f, k), Verdict(r, f, k, v)
  PROVE  \/ /\ v \notin r.logic /\ k \in Winners(r, v) /\ IsOn(f, k)
         \/ /\ v \in r.logic /\ k = Len(r.items) + 1
            /\ \A i \in Winners(r, v) : IsOn(f, i)
<1>0. /\ DOMAIN r.items = 1..Len(r.items) /\ Len(r.items) \in Nat
      /\ r.logic \subseteq Nat \ {0}
      /\ \A i \in DOMAIN r.items : r.items[i].group \subseteq Nat \ {0}
  <2>1. \A i \in DOMAIN r.items : r.items[i] \in Item
    BY DEF ReqType
  <2>2. \A i \in DOMAIN r.items : r.items[i].group \subseteq Nat \ {0}
    BY <2>1 DEF Item
  <2>3. QED
    BY <2>2 DEF ReqType
<1>1. CASE k \in DOMAIN r.items /\ r.items[k].group = {}
  <2>1. v = 0 /\ IsOn(f, k)
    BY <1>1 DEF Verdict, LeavesAt, Stops
  <2>2. QED
    BY <1>0, <1>1, <2>1 DEF Winners
<1>2. CASE k \in DOMAIN r.items /\ r.items[k].group # {}
  <2>1. IsOn(f, k) /\ r.items[k].group \ r.logic # {}
    BY <1>2 DEF LeavesAt, Stops
  <2>2. r.logic = {}
    BY <1>2, <2>1 DEF Unmixed
  <2>3. SignaledGroups(r, f, k) = r.items[k].group
    BY <1>2, <2>2 DEF SignaledGroups
  <2>4. v \in r.items[k].group
    BY <1>0, <1>2, <2>3 DEF Verdict
  <2>5. QED
    BY <1>0, <1>2, <2>1, <2>2, <2>4 DEF Winners
<1>3. CASE k \notin DOMAIN r.items
  <2>1. k = Len(r.items) + 1 /\ DOMAIN r.items = 1..(k - 1)
    BY <1>0, <1>3
  <2>2. v \in SignaledGroups(r, f, k)
    <3>1. v \in {0} => v \in Nat
      OBVIOUS
    <3>2. v \in Nat
      BY <3>1, GroupsTyped
    <3>3. QED
      BY <1>3, <3>2 DEF Verdict
  <2>3. v \in r.logic /\ \A i \in 1..(k - 1) : ~IsOn(f, i) => v \notin r.items[i].group
    BY <1>3, <2>2 DEF SignaledGroups
  <2>4. QED
    BY <1>0, <2>1, <2>3 DEF Winners
<1>4. QED
  BY <1>1, <1>2, <1>3

(* An entry gets a verdict from a walk only.                               *)
LEMMA EntryChanges ==
  ASSUME IInv, [Next]_vars, NEW t \in Thread
  PROVE  \/ we'[t] = we[t] /\ (Listed(t)' => Listed(t))
         \/ we'[t].signaled < 0
         \/ /\ wlist[at] = t
            /\ \E due \in BOOLEAN : GrantEntry(due) \/ FailEntry(due)
<1> DEFINE Goal == \/ we'[t] = we[t] /\ (Listed(t)' => Listed(t))
                   \/ we'[t].signaled < 0
                   \/ /\ wlist[at] = t
                      /\ \E due \in BOOLEAN : GrantEntry(due) \/ FailEntry(due)
<1>0. we \in [Thread -> WaitEntry] /\ wlist \in Seq(Thread)
  BY DEF IInv, TypeOK
<1> USE DEF listVars
<1>a. UNCHANGED listVars => Goal
  BY DEF Listed
<1>b. ASSUME NEW k \in DOMAIN wlist, Unlink(k) PROVE Goal
  <2>1. CASE t = wlist[k]
    BY <1>0, <1>b, <2>1 DEF Unlink, NoEntry
  <2>2. CASE t # wlist[k]
    <3>1. we'[t] = we[t]
      BY <1>0, <1>b, <2>2 DEF Unlink
    <3>2. QED
      BY <1>b, <3>1, UnlinkProps
  <2>3. QED
    BY <2>1, <2>2
<1>c. ASSUME wlist' = wlist, we'[t] = we[t] PROVE Goal
  BY <1>c DEF Listed
<1>1. CASE Walk
  <2>1. CASE DropEntry
    <3>1. at \in DOMAIN wlist
      BY <2>1 DEF DropEntry, Walking, IInv, TypeOK
    <3>2. QED
      BY <1>b, <2>1, <3>1 DEF DropEntry
  <2>2. CASE SkipEntry
    BY <1>a, <2>2 DEF SkipEntry
  <2>3. ASSUME NEW due \in BOOLEAN, FailEntry(due) PROVE Goal
    <3>1. wlist' = wlist /\ (wlist[at] # t => we'[t] = we[t])
      BY <1>0, <2>3 DEF FailEntry
    <3>2. QED
      BY <1>c, <2>3, <3>1
  <2>4. ASSUME NEW due \in BOOLEAN, GrantEntry(due) PROVE Goal
    <3>1. PICK u \in Thread : wlist[at] = u
      BY <2>4, WalkedEntry DEF GrantEntry
    <3>2. PICK k, v : GrantOf(u, Flags(u, we[u], due), k, v)
      BY <2>4, <3>1, GrantStep
    <3>3. wlist' = wlist
      BY <2>4 DEF GrantEntry
    <3>4. u # t => we'[t] = we[t]
      BY <3>2 DEF GrantOf
    <3>5. QED
      BY <1>c, <2>4, <3>1, <3>3, <3>4
  <2>5. ASSUME NEW due \in BOOLEAN, PassEntry(due) PROVE Goal
    <3>1. PICK u \in Thread : wlist[at] = u
      BY <2>5, WalkedEntry DEF PassEntry
    <3>2. /\ wlist' = wlist /\ we[u].signaled < 0
          /\ \E f : we' = [we EXCEPT ![u].sigf = f]
      BY <2>5, <3>1 DEF PassEntry
    <3>3. u # t => we'[t] = we[t]
      BY <1>0, <3>2
    <3>4. u = t => we'[t].signaled = we[t].signaled
      BY <1>0, <3>2 DEF WaitEntry
    <3>5. QED
      BY <1>c, <3>2, <3>3, <3>4
  <2>6. CASE EndEvent \/ \E u \in Thread \cup {Idle} : Dispatch(u) \/ EndExit(u)
    BY <1>a, <2>6 DEF EndEvent, Dispatch, EndExit
  <2>7. CASE EndWait
    <3>1. CASE hit
      BY <1>b, <2>7, <3>1 DEF EndWait
    <3>2. CASE ~hit
      BY <1>a, <2>7, <3>2 DEF EndWait
    <3>3. QED
      BY <3>1, <3>2
  <2>8. QED
    BY <1>1, <2>1, <2>2, <2>3, <2>4, <2>5, <2>6, <2>7 DEF Walk, CheckEntry
<1>2. CASE Timer
  BY <1>a, <1>2 DEF Timer
<1>3. ASSUME NEW x \in Thread, Call(x)
      PROVE  Goal
  <2>1. ASSUME NEW m \in Mutex, Release(x, m) \/ \E s \in BOOLEAN : CreateMutex(x, m, s)
        PROVE  Goal
    BY <1>a, <2>1 DEF Release, CreateMutex
  <2>2. ASSUME NEW e \in Event, \/ EventReset(x, e)
                                \/ EventSet(x, e)
                                \/ \E b \in BOOLEAN :
                                     EventPulse(x, e, b) \/ CreateEvent(x, e, b)
        PROVE  Goal
    BY <1>a, <2>2 DEF EventReset, EventSet, EventPulse, CreateEvent
  <2>3. ASSUME NEW o \in Object, NEW force \in Forced, Free(x, o, force)
        PROVE  Goal
    BY <1>a, <2>3 DEF Free
  <2>4. ASSUME NEW r \in Request, WaitObject(x, r)
        PROVE  Goal
    <3>1. /\ \E e : e.signaled = -1 /\ we' = [we EXCEPT ![x] = e]
          /\ wlist' = Append(wlist, x)
      <4>1. [req |-> r, sigf |-> [i \in DOMAIN r.items |-> "off"],
             signaled |-> -1, reterr |-> "ok"].signaled = -1
        OBVIOUS
      <4>2. QED
        BY <2>4, <4>1 DEF WaitObject, Enlist
    <3>2. CASE x = t
      BY <1>0, <3>1, <3>2
    <3>3. CASE x # t
      <4>1. we'[t] = we[t]
        BY <1>0, <3>1, <3>3
      <4>2. ASSUME NEW k \in DOMAIN wlist', wlist'[k] = t
            PROVE  k \in DOMAIN wlist /\ wlist[k] = t
        BY <1>0, <3>1, <3>3, <4>2
      <4>3. QED
        BY <4>1, <4>2 DEF Listed
    <3>4. QED
      BY <3>2, <3>3
  <2>5. CASE WaitReturn(x)
    BY <1>b, <2>5 DEF WaitReturn
  <2>6. ASSUME NEW u \in Thread, \/ Suspend(x, u)
                                 \/ Resume(x, u)
                                 \/ \E s \in BOOLEAN : CreateThread(x, u, s)
        PROVE  Goal
    BY <1>a, <2>6 DEF Suspend, Resume, CreateThread
  <2>7. ASSUME NEW u \in Thread, Terminate(x, u)
        PROVE  Goal
    BY <1>a, <1>b, <2>7 DEF Terminate
  <2>8. CASE ExitThread(x)
    BY <1>a, <2>8 DEF ExitThread
  <2>9. QED
    BY <1>3, <2>1, <2>2, <2>3, <2>4, <2>5, <2>6, <2>7, <2>8 DEF Call
<1>4. CASE UNCHANGED vars
  BY <1>a, <1>4 DEF vars
<1>5. QED
  BY <1>1, <1>2, <1>3, <1>4 DEF Next

(* The group that a grant reports is on, for requests of one logic.        *)
THEOREM GroupsReported ==
  ASSUME \A r \in Request : Unmixed(r)
  PROVE  Spec => ReportedGroupReady
<1> DEFINE Reported(t) ==
      we[t].signaled < 0 /\ we'[t].signaled >= 0 /\ we'[t].reterr # "invobject" =>
        LET r  == we'[t].req
            on == {i \in DOMAIN r.items : IsOn(we'[t].sigf, i)}
        IN IF we'[t].signaled = 0 THEN \E i \in on : r.items[i].group = {}
                                  ELSE GroupReady(r, on, we'[t].signaled)
<1>1. ASSUME IInv, IInv', [Next]_vars, NEW t \in Thread,
             we[t].signaled < 0, we'[t].signaled >= 0, we'[t].reterr # "invobject"
      PROVE  Reported(t)
  <2>0. we[t] \in WaitEntry /\ we'[t] \in WaitEntry
    BY <1>1 DEF IInv, TypeOK
  <2>1. ~(we'[t].signaled < 0) /\ we'[t] # we[t]
    BY <1>1, <2>0 DEF WaitEntry
  <2>2. PICK due \in BOOLEAN : wlist[at] = t /\ (GrantEntry(due) \/ FailEntry(due))
    BY <1>1, <2>1, EntryChanges
  <2>3. CASE FailEntry(due)
    <3>1. we'[t] = [we[t] EXCEPT !.signaled = 0, !.reterr = "invobject"]
      BY <1>1, <2>2, <2>3 DEF FailEntry, IInv, TypeOK
    <3>2. we'[t].reterr = "invobject"
      BY <2>0, <3>1 DEF WaitEntry
    <3>3. QED
      BY <1>1, <3>2
  <2>4. CASE GrantEntry(due)
    <3> DEFINE r == we[t].req
               f == Flags(t, we[t], due)
    <3>1. PICK k \in 1..(Len(r.items) + 1), v \in Nat : GrantOf(t, f, k, v)
      BY <1>1, <2>2, <2>4, GrantStep
    <3>2. ReqType(r) /\ (Unmixed(r) \/ r = NoReq)
      BY <2>0, RequestsTyped DEF WaitEntry
    <3>3. DOMAIN f = DOMAIN r.items
      BY DEF Flags
    <3> DEFINE done == Done(t, r, Grabbed(r, f, k, v))
               on == {i \in DOMAIN r.items : IsOn(we'[t].sigf, i)}
    <3>4. /\ we'[t].req = r /\ we'[t].signaled = v
          /\ we'[t].sigf = [i \in DOMAIN f |-> IF i \in done THEN "on" ELSE f[i]]
          /\ LeavesAt(r, f, k) /\ Verdict(r, f, k, v)
          /\ v \in {0} \cup SignaledGroups(r, f, k)
      BY <3>1 DEF GrantOf
    <3> HIDE DEF f, done, r
    <3>5. \A i \in DOMAIN r.items : IsOn(f, i) => i \in on
      BY <3>3, <3>4 DEF IsOn
    <3>6. Unmixed(r)
      BY <3>2 DEF NoReq, Unmixed
    <3>7. \/ /\ v \notin r.logic /\ k \in Winners(r, v) /\ IsOn(f, k)
          \/ /\ v \in r.logic /\ \A i \in Winners(r, v) : IsOn(f, i)
      BY <3>2, <3>4, <3>6, VerdictMet
    <3>8. CASE v = 0
      <4>1. v \notin r.logic
        BY <3>2, <3>8 DEF ReqType
      <4>2. k \in DOMAIN r.items /\ r.items[k].group = {} /\ IsOn(f, k)
        BY <3>7, <3>8, <4>1 DEF Winners
      <4>3. QED
        BY <3>4, <3>5, <3>8, <4>2
    <3>9. CASE v # 0
      <4> DEFINE members == {i \in DOMAIN r.items : v \in r.items[i].group}
      <4>1. members = Winners(r, v)
        BY <3>9 DEF Winners
      <4>2. CASE v \notin r.logic
        <5>1. k \in members \cap on
          BY <3>5, <3>7, <4>1, <4>2
        <5>2. GroupReady(r, on, v)
          BY <4>2, <5>1 DEF GroupReady
        <5> HIDE DEF on
        <5>3. QED
          BY <3>4, <3>9, <5>2 DEF on
      <4>3. CASE v \in r.logic
        <5>1. members \subseteq on
          BY <3>5, <3>7, <4>1, <4>3
        <5>2. members # {}
          BY <3>6, <4>3 DEF Unmixed, Groups
        <5>3. GroupReady(r, on, v)
          BY <4>3, <5>1, <5>2 DEF GroupReady
        <5>4. QED
          BY <3>4, <3>9, <5>3
      <4>4. QED
        BY <4>2, <4>3
    <3>10. QED
      BY <3>8, <3>9
  <2>5. QED
    BY <2>2, <2>3, <2>4
<1>2. IInv /\ IInv' /\ [Next]_vars => \A t \in Thread : Reported(t)
  BY <1>1
<1>3. QED
  BY <1>2, Invariant, PTL DEF Spec, ReportedGroupReady

(* The mutexes of a listed thread are its own until it exits, when nobody  *)
(* closes objects by force: the thread itself is not running.              *)
LEMMA MutexKept ==
  ASSUME Forced \subseteq {FALSE}, IInv, [Next]_vars, NEW m \in Mutex, NEW t \in Thread,
         owner[m] = t, Listed(t)
  PROVE  owner'[m] = t \/ tstate'[t] = "finished"
<1>0. owner \in [Mutex -> Thread \cup {NoThread}] /\ t # NoThread /\ m \in alive
  BY ThreadAssumption DEF IInv, TypeOK, OwnerInv
<1> USE DEF objVars
<1>1. CASE Walk
  <2>1. ASSUME NEW due \in BOOLEAN, GrantEntry(due) PROVE owner'[m] = t
    <3>1. PICK u \in Thread : wlist[at] = u
      BY <2>1, WalkedEntry DEF GrantEntry
    <3>2. PICK k, v : GrantOf(u, Flags(u, we[u], due), k, v)
      BY <2>1, <3>1, GrantStep
    <3>3. QED
      BY <1>0, <3>2, GrantTakes
  <2>2. QED
    BY <1>1, <2>1 DEF Walk, CheckEntry, DropEntry, SkipEntry, FailEntry, PassEntry,
                      EndEvent, EndWait, Dispatch, EndExit
<1>2. CASE Timer
  BY <1>2 DEF Timer
<1>3. ASSUME NEW x \in Thread, Call(x)
      PROVE  owner'[m] = t \/ tstate'[t] = "finished"
  <2>1. ASSUME NEW n \in Mutex, Release(x, n) PROVE owner'[m] = t
    BY <1>0, <2>1 DEF Release, Unowned, Calls
  <2>2. ASSUME NEW n \in Mutex, NEW s \in BOOLEAN, CreateMutex(x, n, s)
        PROVE  owner'[m] = t
    BY <1>0, <2>2 DEF CreateMutex
  <2>3. ASSUME NEW e \in Event, \/ EventReset(x, e)
                                \/ EventSet(x, e)
                                \/ \E b \in BOOLEAN :
                                     EventPulse(x, e, b) \/ CreateEvent(x, e, b)
        PROVE  owner'[m] = t
    BY <2>3 DEF EventReset, EventSet, EventPulse, CreateEvent
  <2>4. ASSUME NEW o \in Object, NEW force \in Forced, Free(x, o, force)
        PROVE  owner'[m] = t
    <3>1. o # m
      BY <1>0, <2>4 DEF Free
    <3>2. QED
      BY <1>0, <2>4, <3>1 DEF Free, Unowned
  <2>5. ASSUME NEW r \in Request, WaitObject(x, r)
        PROVE  owner'[m] = t
    BY <2>5 DEF WaitObject
  <2>6. CASE WaitReturn(x)
    BY <2>6 DEF WaitReturn
  <2>7. ASSUME NEW u \in Thread, \/ Suspend(x, u)
                                 \/ Resume(x, u)
                                 \/ Terminate(x, u)
                                 \/ \E s \in BOOLEAN : CreateThread(x, u, s)
        PROVE  owner'[m] = t
    BY <2>7 DEF Suspend, Resume, Terminate, CreateThread
  <2>8. CASE ExitThread(x)
    <3>1. CASE x = t
      BY <2>8, <3>1 DEF ExitThread, FreeJoiners
    <3>2. CASE x # t
      <4>1. m \notin owned[x]
        BY <3>2 DEF IInv, OwnerInv
      <4>2. QED
        BY <2>8, <4>1 DEF ExitThread, Unowned
    <3>3. QED
      BY <3>1, <3>2
  <2>9. QED
    BY <1>3, <2>1, <2>2, <2>3, <2>4, <2>5, <2>6, <2>7, <2>8 DEF Call
<1>4. CASE UNCHANGED vars
  BY <1>4 DEF vars
<1>5. QED
  BY <1>1, <1>2, <1>3, <1>4 DEF Next

(* An exiting thread stays so until it is gone.                            *)
LEMMA FinishedStays ==
  ASSUME IInv, IInv', [Next]_vars, NEW t \in Thread, tstate[t] = "finished", Listed(t)'
  PROVE  tstate'[t] = "finished"
<1>1. pass = "exit" /\ tstate'[t] # "none"
  BY DEF IInv, SchedInv, WaitersListed
<1>2. tstate \in [Thread -> {"none", "running", "waiting", "suspended", "finished"}]
  BY DEF IInv, TypeOK
<1> USE DEF thrVars
<1>3. CASE Walk
  BY <1>1, <1>2, <1>3 DEF Walk, CheckEntry, DropEntry, SkipEntry, FailEntry, PassEntry,
       GrantEntry, Wake, EndEvent, EndWait, Dispatch, EndExit
<1>4. CASE \E x \in Thread : Call(x)
  BY <1>1, <1>4 DEF Call, Calls, Release, CreateMutex, CreateEvent, EventReset, EventSet,
       EventPulse, Free, WaitObject, WaitReturn, Suspend, Resume, Terminate, CreateThread,
       ExitThread
<1>5. CASE Timer
  BY <1>1, <1>5 DEF Timer
<1>6. CASE UNCHANGED vars
  BY <1>6 DEF vars
<1>7. QED
  BY <1>3, <1>4, <1>5, <1>6 DEF Next

(* t owns the mutex of item i, if that is one.                             *)
Has(t, i) ==
  we[t].req.items[i].kind = "mutex" => owner[we[t].req.items[i].obj] = t

(* What the verdict of t lets it believe.                                  *)
Believes(t) ==
  LET r == we[t].req
      g == we[t].signaled
  IN IF g \in r.logic THEN \A i \in Winners(r, g) : Has(t, i)
                      ELSE \E i \in Winners(r, g) : Has(t, i)

(* GrantedOwns in these words.                                             *)
LEMMA GrantedBelieves ==
  GrantedOwns <=> \A t \in Thread :
                    /\ Listed(t) /\ tstate[t] # "finished"
                    /\ we[t].signaled >= 0 /\ we[t].reterr = "ok"
                    => Believes(t)
  BY DEF GrantedOwns, Believes, Has, Winners

(* A grant without an error captures every mutex that the verdict is about.*)
LEMMA GrantBelieved ==
  ASSUME \A r \in Request : Unmixed(r), IInv, IInv', WInv,
         NEW due \in BOOLEAN, GrantEntry(due), NEW t \in Thread, wlist[at] = t,
         we'[t].reterr = "ok"
  PROVE  Believes(t)'
<1> DEFINE r == we[t].req
           f == Flags(t, we[t], due)
<1>1. PICK k \in 1..(Len(r.items) + 1), v \in Nat : GrantOf(t, f, k, v)
  BY GrantStep
<1> DEFINE grab == Grabbed(r, f, k, v)
           done == Done(t, r, grab)
<1>2. we[t] \in WaitEntry
  BY DEF IInv, TypeOK
<1>3. ReqType(r) /\ (Unmixed(r) \/ r = NoReq)
  BY <1>2, RequestsTyped DEF WaitEntry
<1>4. Unmixed(r)
  BY <1>3 DEF NoReq, Unmixed
<1>5. Pending(t)
  BY WalkedEntry DEF GrantEntry, Pending
<1>6. \A i \in DOMAIN r.items : r.items[i].kind = "mutex" /\ IsOn(f, i) =>
        f[i] = "muxfree" /\ r.items[i].obj \in Mutex
  <2>1. ASSUME NEW i \in DOMAIN r.items, r.items[i].kind = "mutex", IsOn(f, i)
        PROVE  f[i] = "muxfree"
    <3>1. we[t].sigf[i] # "on"
      BY <1>5, <2>1 DEF WInv, StickyInv, Sticky
    <3>2. f[i] = ItemState(t, r.items[i], due)
      BY <3>1 DEF Flags
    <3>3. f[i] \in {"bad", "muxfree", "off"}
      BY <2>1, <3>2 DEF ItemState
    <3>4. QED
      BY <2>1, <3>3 DEF IsOn
  <2>2. QED
    BY <1>3, <2>1 DEF ReqType, WellFormed
<1>7. /\ we'[t].req = r /\ we'[t].signaled = v /\ done = grab
      /\ LeavesAt(r, f, k) /\ Verdict(r, f, k, v) /\ v \in {0} \cup SignaledGroups(r, f, k)
      /\ \A m \in Mutex : owner'[m] = IF m \in ObjsAt(r, done) THEN t ELSE owner[m]
  <2>1. we'[t].reterr = IF done = grab THEN "ok" ELSE "locklimit"
    BY <1>1 DEF GrantOf
  <2>2. done = grab
    BY <2>1
  <2>3. QED
    BY <1>1, <2>2 DEF GrantOf
<1> HIDE DEF f, r, done
<1>8. ASSUME NEW i \in Winners(r, v), IsOn(f, i), i =< k
      PROVE  r.items[i].kind = "mutex" => owner'[r.items[i].obj] = t
  <2>1. SUFFICES ASSUME r.items[i].kind = "mutex" PROVE owner'[r.items[i].obj] = t
    OBVIOUS
  <2>2. i \in DOMAIN r.items
    BY DEF Winners
  <2>3. f[i] = "muxfree" /\ r.items[i].obj \in Mutex
    BY <1>6, <1>8, <2>1, <2>2
  <2>4. i \in grab
    <3>1. v >= 0
      OBVIOUS
    <3>2. QED
      BY <1>8, <2>2, <2>3, <3>1 DEF Grabbed
  <2>5. r.items[i].obj \in ObjsAt(r, done)
    BY <1>7, <2>4 DEF ObjsAt
  <2>6. QED
    BY <1>7, <2>3, <2>5
<1>9. DOMAIN r.items = 1..Len(r.items) /\ Len(r.items) \in Nat
  BY <1>3 DEF ReqType
<1>10. \/ v \notin r.logic /\ k \in Winners(r, v) /\ IsOn(f, k)
       \/ v \in r.logic /\ k = Len(r.items) + 1 /\ \A i \in Winners(r, v) : IsOn(f, i)
  BY <1>1, <1>3, <1>4, <1>7, VerdictMet DEF r
<1>11. IF v \in r.logic
         THEN \A i \in Winners(r, v) : r.items[i].kind = "mutex" => owner'[r.items[i].obj] = t
         ELSE \E i \in Winners(r, v) : r.items[i].kind = "mutex" => owner'[r.items[i].obj] = t
  <2>1. CASE v \in r.logic
    <3>1. \A i \in Winners(r, v) : IsOn(f, i) /\ i =< k
      BY <1>9, <1>10, <2>1 DEF Winners
    <3>2. QED
      BY <1>8, <2>1, <3>1
  <2>2. CASE v \notin r.logic
    <3>1. k \in Winners(r, v) /\ IsOn(f, k) /\ k =< k
      BY <1>9, <1>10, <2>2
    <3>2. QED
      BY <1>8, <2>2, <3>1
  <2>3. QED
    BY <2>1, <2>2
<1>12. QED
  BY <1>7, <1>11 DEF Believes, Has

(* A thread that a wait has released owns what it was told it has got.     *)
THEOREM GrantedCorrect ==
  ASSUME Forced \subseteq {FALSE}, \A r \in Request : Unmixed(r)
  PROVE  Spec => []GrantedOwns
<1>1. Init => GrantedOwns
  BY GrantedBelieves DEF Init, Listed
<1>2. ASSUME IInv, IInv', WInv, GrantedOwns, [Next]_vars
      PROVE  GrantedOwns'
  <2>1. SUFFICES ASSUME NEW t \in Thread, Listed(t)', tstate'[t] # "finished",
                        we'[t].signaled >= 0, we'[t].reterr = "ok"
                 PROVE  Believes(t)'
    BY Zenon DEF GrantedOwns, Believes, Has, Winners
  <2>2. tstate[t] # "finished"
    BY <1>2, <2>1, FinishedStays
  <2>3. we[t] \in WaitEntry /\ we'[t] \in WaitEntry
    BY <1>2 DEF IInv, TypeOK
  <2>4. CASE we'[t] = we[t] /\ Listed(t)
    <3>1. Believes(t)
      BY <1>2, <2>1, <2>2, <2>4, GrantedBelieves
    <3>2. \A i \in DOMAIN we[t].req.items : Has(t, i) => Has(t, i)'
      <4>1. ReqType(we[t].req)
        BY <2>3, RequestsTyped DEF WaitEntry
      <4>2. \A i \in DOMAIN we[t].req.items :
              we[t].req.items[i].kind = "mutex" => we[t].req.items[i].obj \in Mutex
        BY <4>1 DEF ReqType, WellFormed
      <4>3. \A m \in Mutex : owner[m] = t => owner'[m] = t
        BY <1>2, <2>1, <2>4, MutexKept
      <4>4. QED
        BY <2>4, <4>2, <4>3 DEF Has
    <3>3. \A r, g : Winners(r, g) \subseteq DOMAIN r.items
      BY DEF Winners
    <3>4. QED
      BY <2>4, <3>1, <3>2, <3>3 DEF Believes
  <2>5. ~(we'[t].signaled < 0)
    BY <2>1, <2>3 DEF WaitEntry
  <2>6. ASSUME NEW due \in BOOLEAN, wlist[at] = t, FailEntry(due) PROVE FALSE
    <3>1. we'[t] = [we[t] EXCEPT !.signaled = 0, !.reterr = "invobject"]
      BY <1>2, <2>6 DEF FailEntry, IInv, TypeOK
    <3>2. we'[t].reterr = "invobject"
      BY <2>3, <3>1 DEF WaitEntry
    <3>3. QED
      BY <2>1, <3>2
  <2>7. ASSUME NEW due \in BOOLEAN, wlist[at] = t, GrantEntry(due) PROVE Believes(t)'
    BY <1>2, <2>1, <2>7, GrantBelieved
  <2>8. QED
    BY <1>2, <2>1, <2>4, <2>5, <2>6, <2>7, EntryChanges
<1>3. QED
  BY <1>1, <1>2, WaitInvariant, PTL DEF Spec

-----------------------------------------------------------------------------
(***************************************************************************)
(* The waiter counters, when nobody closes objects by force.               *)
(***************************************************************************)

(* The threads whose entries name the object o.                            *)
Users(o) == {t \in Thread : Listed(t) /\ o \in Counted(we[t])}

(* An entry counts for objects that exist only.                            *)
CountedAlive == \A t \in Thread : Listed(t) => Counted(we[t]) \subseteq alive

CInv == CountedAlive /\ WaitCntExact

(* There are finitely many of them.                                        *)
LEMMA UsersFinite ==
  ASSUME IInv, NEW o
  PROVE  IsFiniteSet(Users(o))
<1> DEFINE all == {t \in Thread : Listed(t)}
<1>1. wlist \in Surjection(1..Len(wlist), all) /\ Len(wlist) \in Nat
  <2>1. wlist \in Seq(Thread)
    BY DEF IInv, TypeOK
  <2>2. /\ wlist \in [1..Len(wlist) -> Thread] /\ Len(wlist) \in Nat
        /\ DOMAIN wlist = 1..Len(wlist)
    BY <2>1
  <2>3. \A k \in 1..Len(wlist) : wlist[k] \in all
    BY <2>2 DEF Listed
  <2>4. \A t \in all : \E k \in 1..Len(wlist) : wlist[k] = t
    BY <2>2 DEF Listed
  <2>5. wlist \in [1..Len(wlist) -> all]
    BY <2>2, <2>3
  <2> HIDE DEF all
  <2>6. QED
    BY <2>2, <2>4, <2>5 DEF Surjection
<1>2. IsFiniteSet(1..Len(wlist))
  BY <1>1, FS_Interval
<1>3. IsFiniteSet(all)
  BY <1>1, <1>2, FS_Surjection
<1>4. Users(o) \in SUBSET all
  BY DEF Users
<1>5. QED
  BY <1>3, <1>4, FS_Subset

(* The counters do not change where the list and the requests do not.      *)
LEMMA SameUsers ==
  ASSUME \A x \in Thread : Listed(x)' <=> Listed(x),
         \A x \in Thread : Listed(x) => we'[x].req = we[x].req, NEW o
  PROVE  Users(o)' = Users(o)
  BY DEF Users, Counted

(* Steps that change neither the counters nor what they count.             *)
LEMMA QuietC ==
  ASSUME CInv, UNCHANGED <<waitcnt, alive>>,
         \A x \in Thread : Listed(x)' <=> Listed(x),
         \A x \in Thread : Listed(x) => we'[x].req = we[x].req
  PROVE  CInv'
<1>1. \A o : Users(o)' = Users(o)
  BY SameUsers
<1>2. WaitCntExact'
  BY <1>1 DEF CInv, WaitCntExact, Users
<1>3. CountedAlive'
  BY DEF CInv, CountedAlive, Counted
<1>4. QED
  BY <1>2, <1>3 DEF CInv

(* The same where list and entries are left alone.                         *)
LEMMA ListKeptC ==
  ASSUME CInv, UNCHANGED <<waitcnt, alive, wlist, we>>
  PROVE  CInv'
<1>1. \A x \in Thread : Listed(x)' <=> Listed(x)
  BY DEF Listed
<1>2. QED
  BY <1>1, QuietC

(* w_del() takes its own count back.                                       *)
LEMMA UnlinkC ==
  ASSUME IInv, CInv, NEW k \in DOMAIN wlist, Unlink(k), alive' = alive
  PROVE  CInv'
<1> DEFINE t == wlist[k]
<1>1. /\ t \in Thread /\ Listed(t)
      /\ \A x \in Thread : Listed(x)' <=> x # t /\ Listed(x)
      /\ \A x \in Thread : Listed(x)' => we'[x] = we[x]
  <2>1. t \in Thread /\ Listed(t)
    BY DEF IInv, TypeOK, Listed
  <2>2. QED
    BY <2>1, UnlinkProps, UnlinkOthers
<1>2. Counted(we[t]) \subseteq alive
  BY <1>1 DEF CInv, CountedAlive
<1>3. \A o \in Object : waitcnt'[o] =
        IF o \in Counted(we[t]) \cap alive /\ waitcnt[o] > 0 THEN waitcnt[o] - 1
                                                            ELSE waitcnt[o]
  BY DEF Unlink
<1> HIDE DEF t
<1>4. ASSUME NEW o \in Object
      PROVE  waitcnt'[o] = Cardinality(Users(o)')
  <2>1. Users(o)' = Users(o) \ {t}
    BY <1>1 DEF Users
  <2>2. /\ IsFiniteSet(Users(o))
        /\ Cardinality(Users(o) \ {t}) =
             IF t \in Users(o) THEN Cardinality(Users(o)) - 1 ELSE Cardinality(Users(o))
    BY UsersFinite, FS_RemoveElement
  <2>3. /\ Cardinality(Users(o)) \in Nat
        /\ t \in Users(o) => Cardinality(Users(o)) # 0
    BY <2>2, FS_CardinalityType, FS_EmptySet
  <2>4. t \in Users(o) <=> o \in Counted(we[t])
    BY <1>1 DEF Users
  <2>5. waitcnt[o] = Cardinality(Users(o))
    BY DEF CInv, WaitCntExact, Users
  <2>6. QED
    BY <1>2, <1>3, <2>1, <2>2, <2>3, <2>4, <2>5
<1>5. WaitCntExact'
  BY <1>4 DEF WaitCntExact, Users
<1>6. CountedAlive'
  BY <1>1 DEF CInv, CountedAlive
<1>7. QED
  BY <1>5, <1>6 DEF CInv

(* mt_waitobject() adds one to the counter of each object it names.        *)
LEMMA WaitObjectC ==
  ASSUME IInv, IInv', CInv, NEW t \in Thread, NEW r \in Request, WaitObject(t, r)
  PROVE  CInv'
<1> DEFINE e == [req |-> r, sigf |-> [i \in DOMAIN r.items |-> "off"],
                 signaled |-> -1, reterr |-> "ok"]
<1>1. /\ ~Listed(t) /\ Acceptable(r) /\ alive' = alive
      /\ we' = [we EXCEPT ![t] = e] /\ wlist' = Append(wlist, t)
      /\ waitcnt' = [o \in Object |-> IF o \in Counted(e) THEN waitcnt[o] + 1
                                                          ELSE waitcnt[o]]
  BY DEF WaitObject, Enlist, Calls
<1>2. Counted(e) \subseteq alive
  BY <1>1 DEF Counted, Acceptable
<1> HIDE DEF e
<1>3. we \in [Thread -> WaitEntry] /\ wlist \in Seq(Thread)
  BY DEF IInv, TypeOK
<1>4. /\ \A x \in Thread : Listed(x)' <=> x = t \/ Listed(x)
      /\ we'[t] = e /\ \A x \in Thread : x # t => we'[x] = we[x]
  <2>1. /\ DOMAIN wlist' = 1..(Len(wlist) + 1) /\ Len(wlist) \in Nat
        /\ DOMAIN wlist = 1..Len(wlist) /\ wlist'[Len(wlist) + 1] = t
        /\ \A k \in DOMAIN wlist : wlist'[k] = wlist[k]
    BY <1>1, <1>3
  <2>2. \A k \in DOMAIN wlist' : k \in DOMAIN wlist \/ k = Len(wlist) + 1
    BY <2>1
  <2>3. Len(wlist) + 1 \in DOMAIN wlist' /\ DOMAIN wlist \subseteq DOMAIN wlist'
    BY <2>1
  <2>4. \A x \in Thread : Listed(x)' <=> x = t \/ Listed(x)
    BY <2>1, <2>2, <2>3 DEF Listed
  <2>5. QED
    BY <1>1, <1>3, <2>4
<1>5. ASSUME NEW o \in Object
      PROVE  waitcnt'[o] = Cardinality(Users(o)')
  <2>1. Users(o)' = IF o \in Counted(e) THEN Users(o) \cup {t} ELSE Users(o)
    BY <1>1, <1>4 DEF Users
  <2>2. t \notin Users(o)
    BY <1>1 DEF Users
  <2>3. Cardinality(Users(o) \cup {t}) = Cardinality(Users(o)) + 1
    BY <2>2, UsersFinite, FS_AddElement
  <2>4. waitcnt[o] = Cardinality(Users(o))
    BY DEF CInv, WaitCntExact, Users
  <2>5. waitcnt'[o] = IF o \in Counted(e) THEN waitcnt[o] + 1 ELSE waitcnt[o]
    BY <1>1
  <2>6. QED
    BY <2>1, <2>3, <2>4, <2>5
<1>6. WaitCntExact'
  BY <1>5 DEF WaitCntExact, Users
<1>7. CountedAlive'
  BY <1>1, <1>2, <1>4 DEF CInv, CountedAlive
<1>8. QED
  BY <1>6, <1>7 DEF CInv

(* Nobody waits for an object that does not exist.                         *)
LEMMA DeadUnused ==
  ASSUME CInv, NEW o, o \notin alive
  PROVE  Users(o) = {}
  BY DEF CInv, CountedAlive, Users

(* A block that becomes an object, or stops to be one that nobody waits    *)
(* for.                                                                    *)
LEMMA ObjectC ==
  ASSUME CInv, NEW o \in Object, Users(o) = {}, IInv,
         waitcnt' = [waitcnt EXCEPT ![o] = 0], UNCHANGED <<wlist, we>>,
         alive \ {o} \subseteq alive'
  PROVE  CInv'
<1>1. \A p : Users(p)' = Users(p)
  BY DEF Users, Listed
<1>2. waitcnt \in [Object -> Nat]
  BY DEF IInv, TypeOK
<1>3. ASSUME NEW p \in Object
      PROVE  waitcnt'[p] = Cardinality(Users(p)')
  <2>1. CASE p = o
    BY <1>1, <1>2, <2>1, FS_EmptySet
  <2>2. CASE p # o
    BY <1>1, <1>2, <2>2 DEF CInv, WaitCntExact, Users
  <2>3. QED
    BY <2>1, <2>2
<1>4. WaitCntExact'
  BY <1>3 DEF WaitCntExact, Users
<1>5. CountedAlive'
  <2>1. \A t \in Thread : Listed(t) => o \notin Counted(we[t])
    BY DEF Users
  <2>2. QED
    BY <2>1 DEF CInv, CountedAlive, Listed
<1>6. QED
  BY <1>4, <1>5 DEF CInv

(* A walk changes flags and verdicts, never what an entry asks for.        *)
LEMMA CheckEntryC ==
  ASSUME IInv, CInv, CheckEntry
  PROVE  CInv'
<1>1. CASE DropEntry
  <2>1. at \in DOMAIN wlist
    BY <1>1 DEF DropEntry, Walking, IInv, TypeOK
  <2>2. QED
    BY <1>1, <2>1, UnlinkC DEF DropEntry
<1>2. CASE SkipEntry
  BY <1>2, ListKeptC DEF SkipEntry, objVars, listVars
<1>3. ASSUME NEW due \in BOOLEAN, FailEntry(due) \/ PassEntry(due) \/ GrantEntry(due)
      PROVE  CInv'
  <2>1. PICK t \in Thread : wlist[at] = t
    BY <1>3, WalkedEntry DEF FailEntry, PassEntry, GrantEntry
  <2>2. we \in [Thread -> WaitEntry] /\ we[t] \in WaitEntry
    BY DEF IInv, TypeOK
  <2>3. UNCHANGED <<waitcnt, alive, wlist>>
    BY <1>3 DEF FailEntry, PassEntry, GrantEntry, objVars
  <2>4. \A x \in Thread : we'[x].req = we[x].req
    <3>1. CASE FailEntry(due)
      <4>1. /\ \A x \in Thread : x # t => we'[x] = we[x]
            /\ we'[t] = [we[t] EXCEPT !.signaled = 0, !.reterr = "invobject"]
        BY <2>1, <2>2, <3>1 DEF FailEntry
      <4>2. we'[t].req = we[t].req
        BY <2>2, <4>1 DEF WaitEntry
      <4>3. QED
        BY <4>1, <4>2
    <3>2. CASE PassEntry(due)
      <4>1. PICK f : we' = [we EXCEPT ![t].sigf = f]
        BY <2>1, <3>2 DEF PassEntry
      <4>2. /\ \A x \in Thread : x # t => we'[x] = we[x]
            /\ we'[t] = [we[t] EXCEPT !.sigf = f]
        BY <2>2, <4>1
      <4>3. we'[t].req = we[t].req
        BY <2>2, <4>2 DEF WaitEntry
      <4>4. QED
        BY <4>2, <4>3
    <3>3. CASE GrantEntry(due)
      <4>1. PICK k, v : GrantOf(t, Flags(t, we[t], due), k, v)
        BY <2>1, <3>3, GrantStep
      <4>2. /\ \A x \in Thread : x # t => we'[x] = we[x]
            /\ we'[t].req = we[t].req
        BY <4>1 DEF GrantOf
      <4>3. QED
        BY <4>2
    <3>4. QED
      BY <1>3, <3>1, <3>2, <3>3
  <2>5. \A x \in Thread : Listed(x)' <=> Listed(x)
    BY <2>3 DEF Listed
  <2>6. QED
    BY <2>3, <2>4, <2>5, QuietC
<1>4. QED
  BY <1>1, <1>2, <1>3 DEF CheckEntry

(* Every step keeps the counters exact.                                    *)
LEMMA NextC ==
  ASSUME Forced \subseteq {FALSE}, IInv, IInv', CInv, [Next]_vars
  PROVE  CInv'
<1> USE DEF objVars, listVars
<1>1. CASE Walk
  <2>1. CASE CheckEntry
    BY <2>1, CheckEntryC
  <2>2. CASE EndEvent \/ \E t \in Thread \cup {Idle} : Dispatch(t) \/ EndExit(t)
    BY <2>2, ListKeptC DEF EndEvent, Dispatch, EndExit
  <2>3. CASE EndWait
    BY <2>3, UnlinkC, ListKeptC DEF EndWait
  <2>4. QED
    BY <1>1, <2>1, <2>2, <2>3 DEF Walk
<1>2. CASE Timer
  BY <1>2, ListKeptC DEF Timer
<1>3. ASSUME NEW t \in Thread, Call(t)
      PROVE  CInv'
  <2>1. ASSUME NEW m \in Mutex, Release(t, m) PROVE CInv'
    BY <2>1, ListKeptC DEF Release
  <2>2. ASSUME NEW m \in Mutex, NEW s \in BOOLEAN, CreateMutex(t, m, s)
        PROVE  CInv'
    BY <2>2, DeadUnused, ObjectC DEF CreateMutex, Object
  <2>3. ASSUME NEW e \in Event, \/ EventReset(t, e)
                                \/ EventSet(t, e)
                                \/ \E b \in BOOLEAN : EventPulse(t, e, b)
        PROVE  CInv'
    BY <2>3, ListKeptC DEF EventReset, EventSet, EventPulse
  <2>4. ASSUME NEW e \in Event, NEW s \in BOOLEAN, CreateEvent(t, e, s)
        PROVE  CInv'
    BY <2>4, DeadUnused, ObjectC DEF CreateEvent, Object
  <2>5. ASSUME NEW o \in Object, NEW force \in Forced, Free(t, o, force)
        PROVE  CInv'
    <3>1. waitcnt[o] = 0
      BY <2>5 DEF Free
    <3>2. Users(o) = {}
      <4>1. Cardinality(Users(o)) = 0
        BY <3>1 DEF CInv, WaitCntExact, Users
      <4>2. QED
        BY <4>1, UsersFinite, FS_EmptySet
    <3>3. QED
      BY <2>5, <3>2, ObjectC DEF Free
  <2>6. ASSUME NEW r \in Request, WaitObject(t, r)
        PROVE  CInv'
    BY <2>6, WaitObjectC
  <2>7. CASE WaitReturn(t)
    BY <2>7, UnlinkC DEF WaitReturn
  <2>8. ASSUME NEW u \in Thread, \/ Suspend(t, u)
                                 \/ Resume(t, u)
                                 \/ \E s \in BOOLEAN : CreateThread(t, u, s)
        PROVE  CInv'
    BY <2>8, ListKeptC DEF Suspend, Resume, CreateThread
  <2>9. ASSUME NEW u \in Thread, Terminate(t, u)
        PROVE  CInv'
    BY <2>9, UnlinkC, ListKeptC DEF Terminate
  <2>10. CASE ExitThread(t)
    BY <2>10, ListKeptC DEF ExitThread
  <2>11. QED
    BY <1>3, <2>1, <2>2, <2>3, <2>4, <2>5, <2>6, <2>7, <2>8, <2>9, <2>10 DEF Call
<1>4. CASE UNCHANGED vars
  BY <1>4, ListKeptC DEF vars
<1>5. QED
  BY <1>1, <1>2, <1>3, <1>4 DEF Next

(* The counters that w_add() and w_del() keep are exact, and every object   *)
(* an entry of the wait list names still exists.                           *)
THEOREM CountersHold ==
  ASSUME Forced \subseteq {FALSE}
  PROVE  Spec => []CInv
<1>1. Init => CInv
  <2>1. SUFFICES ASSUME Init PROVE CInv
    OBVIOUS
  <2>2. \A t \in Thread : ~Listed(t)
    BY <2>1 DEF Init, Listed
  <2>3. \A o : {t \in Thread : Listed(t) /\ o \in Counted(we[t])} = {}
    BY <2>2
  <2>4. WaitCntExact
    BY <2>1, <2>3, FS_EmptySet DEF Init, WaitCntExact
  <2>5. QED
    BY <2>2, <2>4 DEF CInv, CountedAlive
<1>2. IInv /\ IInv' /\ CInv /\ [Next]_vars => CInv'
  BY NextC
<1>3. QED
  BY <1>1, <1>2, Invariant, PTL DEF Spec

(* waitcnt is the number of entries that name the object, so muxev_free()  *)
(* never frees an object that somebody waits for.                          *)
THEOREM CountersExact ==
  ASSUME Forced \subseteq {FALSE}
  PROVE  Spec => []WaitCntExact
<1>1. CInv => WaitCntExact
  BY DEF CInv
<1>2. QED
  BY <1>1, CountersHold, PTL

-----------------------------------------------------------------------------
(***************************************************************************)
(* The mutexes implement FifoLock.  A step touches the queue of a mutex or *)
(* its owner, or both in a grant.                                          *)
(***************************************************************************)

(* The four moves of a lock, in terms of owners and askers.                *)
Holds(m) == owner'[m] = owner[m] /\ lockcnt'[m] = lockcnt[m]
Queues(m) == /\ Askers(m)' = Askers(m) /\ Firm(m)' = Firm(m)
             /\ \A u \in Firm(m), t \in Askers(m) : Elder(u, t)' <=> Elder(u, t)
Leaves(m, x) ==
  /\ x \in Askers(m)
  /\ Askers(m)' = Askers(m) \ {x} /\ Firm(m)' = Firm(m) \ {x}
  /\ \A u \in Firm(m), t \in Askers(m) : u # x /\ t # x => (Elder(u, t)' <=> Elder(u, t))
Joins(m, x) ==
  /\ x \in Thread /\ x \notin Askers(m)
  /\ Askers(m)' = Askers(m) \cup {x}
  /\ Firm(m)' \in {Firm(m), Firm(m) \cup {x}}
  /\ \A u \in Firm(m), t \in Askers(m) : Elder(u, t)' <=> Elder(u, t)
  /\ \A u \in Firm(m) : Elder(u, x)'
  /\ \A u \in Askers(m)' : ~Elder(x, u)'

(* The queue as a function of its members and their order.                 *)
LEMMA QueueKept ==
  ASSUME NEW m \in Mutex, Queues(m)
  PROVE  FirmAhead(m)' = FirmAhead(m)
<1> DEFINE F(t) == {u \in Firm(m) : t \in Askers(m) /\ Elder(u, t)}
           G(t) == {u \in Firm(m)' : t \in Askers(m)' /\ Elder(u, t)'}
<1>1. FirmAhead(m) = [t \in Thread |-> F(t)] /\ FirmAhead(m)' = [t \in Thread |-> G(t)]
  BY DEF FirmAhead
<1>2. \A t \in Thread : G(t) = F(t)
  BY DEF Queues
<1> HIDE DEF F, G
<1>3. QED
  BY <1>1, <1>2

LEMMA QueueLeft ==
  ASSUME NEW m \in Mutex, NEW x \in Thread, Leaves(m, x)
  PROVE  FirmAhead(m)' = [u \in Thread |-> IF u = x THEN {} ELSE FirmAhead(m)[u] \ {x}]
<1> DEFINE F(t) == {u \in Firm(m) : t \in Askers(m) /\ Elder(u, t)}
           G(t) == {u \in Firm(m)' : t \in Askers(m)' /\ Elder(u, t)'}
           H(t) == IF t = x THEN {} ELSE F(t) \ {x}
<1>1. FirmAhead(m) = [t \in Thread |-> F(t)] /\ FirmAhead(m)' = [t \in Thread |-> G(t)]
  BY DEF FirmAhead
<1>2. \A t \in Thread : G(t) = H(t)
  BY DEF Leaves
<1> HIDE DEF F, G
<1>3. QED
  BY <1>1, <1>2

LEMMA QueueJoined ==
  ASSUME NEW m \in Mutex, NEW x \in Thread, Joins(m, x)
  PROVE  FirmAhead(m)' = [FirmAhead(m) EXCEPT ![x] = Firm(m)]
<1> DEFINE F(t) == {u \in Firm(m) : t \in Askers(m) /\ Elder(u, t)}
           G(t) == {u \in Firm(m)' : t \in Askers(m)' /\ Elder(u, t)'}
           H(t) == IF t = x THEN Firm(m) ELSE F(t)
<1>1. FirmAhead(m) = [t \in Thread |-> F(t)] /\ FirmAhead(m)' = [t \in Thread |-> G(t)]
  BY DEF FirmAhead
<1>2. ASSUME NEW t \in Thread PROVE G(t) = H(t)
  <2>0. ~Elder(x, t)' \/ t \notin Askers(m)'
    BY DEF Joins
  <2>1. CASE t = x
    BY <2>0, <2>1 DEF Joins
  <2>2. CASE t # x
    <3>1. t \in Askers(m)' <=> t \in Askers(m)
      BY <2>2 DEF Joins
    <3>2. ASSUME NEW u, u # x PROVE u \in G(t) <=> u \in F(t)
      BY <3>1, <3>2 DEF Joins
    <3>3. x \notin F(t)
      BY DEF Joins, Firm
    <3>4. x \notin G(t)
      BY <2>0
    <3> HIDE DEF F, G
    <3>5. QED
      BY <2>2, <3>2, <3>3, <3>4
  <2>3. QED
    BY <2>1, <2>2
<1> HIDE DEF F, G
<1>3. QED
  BY <1>1, <1>2

-----------------------------------------------------------------------------
(* The moves of one lock as steps of FifoLock.                             *)
LockMoves(m) ==
  \/ Holds(m) /\ Queues(m)
  \/ Holds(m) /\ \E x \in Thread : Joins(m, x) \/ Leaves(m, x)
  \/ \E x \in Thread : /\ Leaves(m, x)
                       /\ \/ owner[m] = NoThread /\ \A u \in Firm(m) : ~Elder(u, x)
                          \/ owner[m] = x
                       /\ owner'[m] = x /\ lockcnt'[m] = lockcnt[m] + 1
  \/ \E x \in Thread : /\ Queues(m)
                       /\ owner[m] = NoThread /\ Askers(m) = {}
                       /\ owner'[m] = x /\ lockcnt'[m] = 1
  \/ \E x \in Thread : /\ Queues(m)
                       /\ owner[m] = x /\ lockcnt'[m] \in {0, lockcnt[m] - 1}
                       /\ owner'[m] = IF lockcnt'[m] = 0 THEN NoThread ELSE x

LEMMA LockMoveStep ==
  ASSUME NEW m \in Mutex, LockMoves(m)
  PROVE  Locks!LockStep(m)
<1>0. USE DEF Locks!KeepLock, Locks!KeepQueue
<1>1. Queues(m) => Locks!KeepQueue(m)
  BY QueueKept DEF Queues
<1>2. Holds(m) => Locks!KeepLock(m)
  BY DEF Holds
<1>3. ASSUME NEW x \in Thread, Leaves(m, x) PROVE Locks!Leave(m, x)
  BY <1>3, QueueLeft DEF Locks!Leave, Leaves
<1>4. ASSUME NEW x \in Thread, Joins(m, x), Holds(m) PROVE Locks!Ask(m, x)
  BY <1>2, <1>4, QueueJoined DEF Locks!Ask, Joins
<1>5. CASE Holds(m) /\ Queues(m)
  BY <1>1, <1>2, <1>5 DEF Locks!LockStep
<1>6. CASE Holds(m) /\ \E x \in Thread : Joins(m, x) \/ Leaves(m, x)
  BY <1>2, <1>3, <1>4, <1>6 DEF Locks!LockStep, Locks!Withdraw
<1>7. ASSUME NEW x \in Thread, Leaves(m, x),
             \/ owner[m] = NoThread /\ \A u \in Firm(m) : ~Elder(u, x)
             \/ owner[m] = x,
             owner'[m] = x, lockcnt'[m] = lockcnt[m] + 1
      PROVE  Locks!LockStep(m)
  <2>1. (\A u \in Firm(m) : ~Elder(u, x)) => FirmAhead(m)[x] = {}
    BY DEF FirmAhead
  <2>2. Locks!Grant(m, x)
    BY <1>3, <1>7, <2>1 DEF Locks!Grant
  <2>3. QED
    BY <2>2 DEF Locks!LockStep
<1>8. ASSUME NEW x \in Thread, Queues(m), owner[m] = NoThread, Askers(m) = {},
             owner'[m] = x, lockcnt'[m] = 1
      PROVE  Locks!LockStep(m)
  BY <1>1, <1>8 DEF Locks!LockStep, Locks!Born
<1>9. ASSUME NEW x \in Thread, Queues(m), owner[m] = x,
             lockcnt'[m] \in {0, lockcnt[m] - 1},
             owner'[m] = IF lockcnt'[m] = 0 THEN NoThread ELSE x
      PROVE  Locks!LockStep(m)
  BY <1>1, <1>9 DEF Locks!LockStep, Locks!GiveUp
<1>10. QED
  BY <1>5, <1>6, <1>7, <1>8, <1>9 DEF LockMoves

(* Steps that leave the list and what its entries ask for alone.           *)
LEMMA QueuesStay ==
  ASSUME NEW m \in Mutex, wlist' = wlist,
         \A x \in Thread : we'[x].req = we[x].req /\ we'[x].signaled = we[x].signaled
  PROVE  Queues(m)
<1>1. \A x \in Thread : /\ AsksFor(x, m)' <=> AsksFor(x, m)
                        /\ Suffices(x, m)' <=> Suffices(x, m)
  BY DEF AsksFor, Listed, Suffices, ItemsFor
<1>2. Askers(m)' = Askers(m) /\ Firm(m)' = Firm(m)
  BY <1>1 DEF Askers, Firm
<1>3. QED
  BY <1>2 DEF Queues, Elder

(* An entry gets its verdict.                                              *)
LEMMA QueueAnswered ==
  ASSUME NEW m \in Mutex, wlist' = wlist, NEW t \in Thread, we'[t].signaled \in Nat,
         \A x \in Thread : x # t => we'[x] = we[x]
  PROVE  Leaves(m, t) \/ (t \notin Askers(m) /\ Queues(m))
<1>1. ~AsksFor(t, m)'
  BY DEF AsksFor
<1>2. \A x \in Thread : x # t => /\ AsksFor(x, m)' <=> AsksFor(x, m)
                                 /\ Suffices(x, m)' <=> Suffices(x, m)
  BY DEF AsksFor, Listed, Suffices, ItemsFor
<1>3. Askers(m)' = Askers(m) \ {t} /\ Firm(m)' = Firm(m) \ {t}
  BY <1>1, <1>2 DEF Askers, Firm
<1>4. \A u, x : Elder(u, x)' <=> Elder(u, x)
  BY DEF Elder
<1>5. CASE t \in Askers(m)
  BY <1>3, <1>4, <1>5 DEF Leaves
<1>6. CASE t \notin Askers(m)
  <2>1. Askers(m)' = Askers(m) /\ Firm(m)' = Firm(m)
    BY <1>3, <1>6 DEF Firm
  <2>2. QED
    BY <1>4, <1>6, <2>1 DEF Queues
<1>7. QED
  BY <1>5, <1>6

(* w_del() keeps the others in order.                                      *)
LEMMA UnlinkOrder ==
  ASSUME IInv, NEW k \in DOMAIN wlist, Unlink(k), NEW u, NEW t,
         u # wlist[k], t # wlist[k]
  PROVE  Elder(u, t)' <=> Elder(u, t)
<1>1. /\ wlist \in Seq(Thread) /\ Len(wlist) \in Nat /\ DOMAIN wlist = 1..Len(wlist)
      /\ k \in 1..Len(wlist) /\ k \in Int
  BY DEF IInv, TypeOK
<1>2. /\ wlist' \in Seq(Thread) /\ Len(wlist') = Len(wlist) - 1
      /\ \A i \in 1..(Len(wlist) - 1) :
           wlist'[i] = IF i < k THEN wlist[i] ELSE wlist[i + 1]
  BY <1>1, RemoveAtProps DEF Unlink
<1>3. DOMAIN wlist' = 1..(Len(wlist) - 1)
  BY <1>2
<1>4. ASSUME Elder(u, t)' PROVE Elder(u, t)
  <2>1. PICK i \in DOMAIN wlist', j \in DOMAIN wlist' :
          i < j /\ wlist'[i] = u /\ wlist'[j] = t
    BY <1>4 DEF Elder
  <2> DEFINE a == IF i < k THEN i ELSE i + 1
             b == IF j < k THEN j ELSE j + 1
  <2>2. a \in DOMAIN wlist /\ b \in DOMAIN wlist /\ a < b
    BY <1>1, <1>3, <2>1
  <2>3. wlist[a] = u /\ wlist[b] = t
    BY <1>1, <1>2, <1>3, <2>1
  <2> HIDE DEF a, b
  <2>4. QED
    BY <2>2, <2>3 DEF Elder
<1>5. ASSUME Elder(u, t) PROVE Elder(u, t)'
  <2>1. PICK i \in DOMAIN wlist, j \in DOMAIN wlist :
          i < j /\ wlist[i] = u /\ wlist[j] = t
    BY <1>5 DEF Elder
  <2>2. i # k /\ j # k
    BY <2>1
  <2> DEFINE a == IF i < k THEN i ELSE i - 1
             b == IF j < k THEN j ELSE j - 1
  <2>3. a \in DOMAIN wlist' /\ b \in DOMAIN wlist' /\ a < b
    BY <1>1, <1>3, <2>1, <2>2
  <2>4. wlist'[a] = u /\ wlist'[b] = t
    BY <1>1, <1>2, <2>1, <2>2
  <2> HIDE DEF a, b
  <2>5. QED
    BY <2>3, <2>4 DEF Elder
<1>6. QED
  BY <1>4, <1>5

(* w_del() withdraws a request, if the entry still has one.                *)
LEMMA UnlinkMoves ==
  ASSUME IInv, NEW m \in Mutex, NEW k \in DOMAIN wlist, Unlink(k), Holds(m)
  PROVE  LockMoves(m)
<1> DEFINE t == wlist[k]
<1>1. /\ t \in Thread
      /\ \A x \in Thread : Listed(x)' <=> x # t /\ Listed(x)
      /\ \A x \in Thread : Listed(x)' => we'[x] = we[x]
  <2>1. t \in Thread
    BY DEF IInv, TypeOK
  <2>2. QED
    BY <2>1, UnlinkProps, UnlinkOthers
<1>2. \A u, x : u # t /\ x # t => (Elder(u, x)' <=> Elder(u, x))
  BY UnlinkOrder
<1> HIDE DEF t
<1>3. \A x \in Thread : AsksFor(x, m)' <=> x # t /\ AsksFor(x, m)
  BY <1>1 DEF AsksFor, ItemsFor
<1>4. \A x \in Thread : AsksFor(x, m)' => (Suffices(x, m)' <=> Suffices(x, m))
  BY <1>1 DEF AsksFor, ItemsFor, Suffices
<1>5. Askers(m)' = Askers(m) \ {t} /\ Firm(m)' = Firm(m) \ {t}
  BY <1>3, <1>4 DEF Askers, Firm
<1>6. CASE t \in Askers(m)
  <2>1. Leaves(m, t)
    BY <1>2, <1>5, <1>6 DEF Leaves
  <2>2. QED
    BY <1>1, <2>1 DEF LockMoves
<1>7. CASE t \notin Askers(m)
  <2>1. Askers(m)' = Askers(m) /\ Firm(m)' = Firm(m)
    BY <1>5, <1>7 DEF Firm
  <2>2. Queues(m)
    BY <1>2, <1>7, <2>1 DEF Queues, Firm
  <2>3. QED
    BY <2>2 DEF LockMoves
<1>8. QED
  BY <1>6, <1>7

(* mt_waitobject() adds a request at the bottom of the list.               *)
LEMMA WaitObjectMoves ==
  ASSUME IInv, NEW m \in Mutex, NEW t \in Thread, NEW r \in Request, WaitObject(t, r)
  PROVE  LockMoves(m)
<1>1. Holds(m)
  BY DEF WaitObject, Holds
<1>2. /\ ~Listed(t) /\ wlist' = Append(wlist, t)
      /\ \E e : we' = [we EXCEPT ![t] = e]
  BY DEF WaitObject, Enlist, Calls
<1>3. we \in [Thread -> WaitEntry] /\ wlist \in Seq(Thread)
  BY DEF IInv, TypeOK
<1>4. \A x \in Thread : x # t => we'[x] = we[x]
  BY <1>2, <1>3
<1>5. /\ DOMAIN wlist' = 1..(Len(wlist) + 1) /\ Len(wlist) \in Nat
      /\ DOMAIN wlist = 1..Len(wlist) /\ wlist'[Len(wlist) + 1] = t
      /\ \A k \in DOMAIN wlist : wlist'[k] = wlist[k] /\ wlist[k] # t
  BY <1>2, <1>3 DEF Listed
<1>6. /\ Len(wlist) + 1 \in DOMAIN wlist' /\ DOMAIN wlist \subseteq DOMAIN wlist'
      /\ \A k \in DOMAIN wlist' : k \in DOMAIN wlist \/ k = Len(wlist) + 1
      /\ \A k \in DOMAIN wlist : k < Len(wlist) + 1 /\ ~(Len(wlist) + 1 < k)
      /\ ~(Len(wlist) + 1 < Len(wlist) + 1)
  BY <1>5
<1>7. \A x \in Thread : x # t => (Listed(x)' <=> Listed(x))
  BY <1>5, <1>6 DEF Listed
<1>8. \A u, x : u # t /\ x # t => (Elder(u, x)' <=> Elder(u, x))
  <2>1. SUFFICES ASSUME NEW u, NEW x, u # t, x # t PROVE Elder(u, x)' <=> Elder(u, x)
    OBVIOUS
  <2>2. \A k \in DOMAIN wlist' : wlist'[k] # t => k \in DOMAIN wlist /\ wlist'[k] = wlist[k]
    BY <1>5, <1>6
  <2>3. QED
    BY <1>5, <1>6, <2>1, <2>2 DEF Elder
<1>9. \A u : Listed(u) => Elder(u, t)'
  BY <1>5, <1>6 DEF Listed, Elder
<1>10. \A u : ~Elder(t, u)'
  <2>1. ASSUME NEW i \in DOMAIN wlist', NEW j \in DOMAIN wlist', i < j, wlist'[i] = t
        PROVE  FALSE
    BY <1>5, <1>6, <2>1
  <2>2. QED
    BY <2>1 DEF Elder
<1>11. t \notin Askers(m) /\ t \notin Firm(m)
  BY <1>2 DEF Askers, Firm, AsksFor
<1>12. \A x \in Thread : x # t => /\ AsksFor(x, m)' <=> AsksFor(x, m)
                                  /\ Suffices(x, m)' <=> Suffices(x, m)
  BY <1>4, <1>7 DEF AsksFor, ItemsFor, Suffices
<1>13. CASE AsksFor(t, m)'
  <2>1. Askers(m)' = Askers(m) \cup {t}
    BY <1>12, <1>13 DEF Askers
  <2>2. Firm(m)' \in {Firm(m), Firm(m) \cup {t}}
    <3>1. \A x \in Thread : x # t => (x \in Firm(m)' <=> x \in Firm(m))
      BY <1>12 DEF Firm, Askers
    <3>2. Firm(m) \subseteq Thread /\ Firm(m)' \subseteq Thread
      BY DEF Firm, Askers
    <3>3. QED
      BY <1>11, <3>1, <3>2
  <2>3. \A u \in Askers(m) : Listed(u)
    BY DEF Askers, AsksFor
  <2>4. Joins(m, t)
    BY <1>8, <1>9, <1>10, <1>11, <2>1, <2>2, <2>3 DEF Joins, Firm
  <2>5. QED
    BY <1>1, <2>4 DEF LockMoves
<1>14. CASE ~AsksFor(t, m)'
  <2>1. Askers(m)' = Askers(m) /\ Firm(m)' = Firm(m)
    BY <1>11, <1>12, <1>14 DEF Askers, Firm
  <2>2. Queues(m)
    BY <1>8, <1>11, <2>1 DEF Queues
  <2>3. QED
    BY <1>1, <2>2 DEF LockMoves
<1>15. QED
  BY <1>13, <1>14

-----------------------------------------------------------------------------
(* What a grant captures, with its count: mutexes the entry asks for.      *)
LEMMA GrantCaptures ==
  ASSUME IInv, NEW due \in BOOLEAN, GrantEntry(due), NEW t \in Thread, wlist[at] = t,
         NEW m \in Mutex
  PROVE  \/ Holds(m)
         \/ /\ owner'[m] = t /\ lockcnt'[m] = lockcnt[m] + 1
            /\ owner[m] \in {NoThread, t} /\ m \in alive /\ ItemsFor(t, m) # {}
<1> DEFINE r == we[t].req
           f == Flags(t, we[t], due)
<1>1. PICK k, v :
        Capture(t, ObjsAt(r, Done(t, r, Grabbed(r, f, k, v))) \cap Mutex)
  BY DEF GrantEntry
<1> DEFINE grab == Grabbed(r, f, k, v)
           done == Done(t, r, grab)
<1>2. /\ owner'[m] = IF m \in ObjsAt(r, done) THEN t ELSE owner[m]
      /\ lockcnt'[m] = IF m \in ObjsAt(r, done) THEN lockcnt[m] + 1 ELSE lockcnt[m]
  BY <1>1 DEF Capture
<1>3. we[t] \in WaitEntry
  BY DEF IInv, TypeOK
<1>4. ASSUME NEW i \in done, r.items[i].obj = m
      PROVE  m \in alive /\ owner[m] \in {NoThread, t} /\ i \in ItemsFor(t, m)
  <2>1. m \in alive /\ owner[m] \in {NoThread, t}
    BY <1>3, <1>4, GrabbedObjects
  <2>2. i \in DOMAIN r.items /\ f[i] \in {"muxfree", "evfree"}
    BY <1>4 DEF Done, Grabbed, Winners
  <2>3. f[i] = "evfree" => m \in Event
    BY <1>3, <1>4, <2>2, FreeMutexFlag
  <2>4. f[i] = "muxfree"
    BY <2>2, <2>3, ObjectAssumption
  <2>5. r.items[i].kind = "mutex"
    BY <1>3, <2>2, <2>4, FreeMutexFlag
  <2>6. QED
    BY <1>4, <2>1, <2>2, <2>5 DEF ItemsFor
<1> HIDE DEF done, r
<1>5. CASE m \in ObjsAt(r, done)
  BY <1>2, <1>4, <1>5 DEF ObjsAt
<1>6. CASE m \notin ObjsAt(r, done)
  BY <1>2, <1>6 DEF Holds
<1>7. QED
  BY <1>5, <1>6

(* A request met by a walk finds no older firm one for a free mutex: the   *)
(* walk would have granted that one.                                       *)
LEMMA NobodyAhead ==
  ASSUME IInv, WInv, Keeps, NEW t \in Thread, wlist[at] = t,
         NEW m \in Mutex, m \in alive, owner[m] = NoThread, NEW u \in Firm(m)
  PROVE  ~Elder(u, t)
<1> SUFFICES ASSUME Elder(u, t) PROVE FALSE
  OBVIOUS
<1>1. PICK i \in DOMAIN wlist, j \in DOMAIN wlist : i < j /\ wlist[i] = u /\ wlist[j] = t
  BY DEF Elder
<1>2. j = at /\ pass # "run"
  BY <1>1, WalkedEntry DEF IInv, WaitersListed
<1>3. u \in Thread /\ AsksFor(u, m) /\ Suffices(u, m)
  BY DEF Firm, Askers
<1>4. Settled(u)
  BY <1>1, <1>2, <1>3 DEF WInv, WalkInv, Behind
<1>5. ~Ready(we[u].req, OnNow(u))
  BY <1>3, <1>4 DEF Settled, AsksFor
<1>6. PICK x \in ItemsFor(u, m) : Ready(we[u].req, {x})
  BY <1>3 DEF Suffices
<1>7. x \in OnNow(u)
  BY <1>6 DEF ItemsFor, OnNow
<1>8. {x} \subseteq OnNow(u)
  BY <1>7
<1>9. QED
  BY <1>5, <1>6, <1>8, ReadyGrows

(* One entry of a walk.                                                    *)
LEMMA CheckEntryMoves ==
  ASSUME IInv, IInv', WInv, CheckEntry, NEW m \in Mutex
  PROVE  LockMoves(m)
<1>0. /\ we \in [Thread -> WaitEntry] /\ \A x \in Thread : we[x] \in WaitEntry
      /\ owner' = owner /\ lockcnt' = lockcnt => Holds(m)
  BY DEF IInv, TypeOK, Holds
<1> USE DEF objVars, listVars
<1>1. CASE DropEntry
  <2>1. at \in DOMAIN wlist
    BY <1>1 DEF DropEntry, Walking, IInv, TypeOK
  <2>2. QED
    BY <1>0, <1>1, <2>1, UnlinkMoves DEF DropEntry
<1>2. CASE SkipEntry
  BY <1>0, <1>2, QueuesStay DEF SkipEntry, LockMoves
<1>3. ASSUME NEW due \in BOOLEAN, PassEntry(due) PROVE LockMoves(m)
  <2>1. PICK t \in Thread : wlist[at] = t
    BY <1>3, WalkedEntry DEF PassEntry
  <2>2. PICK f : we' = [we EXCEPT ![t].sigf = f]
    BY <1>3, <2>1 DEF PassEntry
  <2>3. /\ \A x \in Thread : x # t => we'[x] = we[x]
        /\ we'[t] = [we[t] EXCEPT !.sigf = f]
    BY <1>0, <2>2
  <2>4. we'[t].req = we[t].req /\ we'[t].signaled = we[t].signaled
    BY <1>0, <2>3 DEF WaitEntry
  <2>5. wlist' = wlist /\ Holds(m)
    BY <1>0, <1>3 DEF PassEntry
  <2>6. \A x \in Thread : we'[x].req = we[x].req /\ we'[x].signaled = we[x].signaled
    BY <2>3, <2>4
  <2>7. Queues(m)
    BY <2>5, <2>6, QueuesStay
  <2>8. QED
    BY <2>5, <2>7 DEF LockMoves
<1>4. ASSUME NEW due \in BOOLEAN, FailEntry(due) PROVE LockMoves(m)
  <2>1. PICK t \in Thread : wlist[at] = t
    BY <1>4, WalkedEntry DEF FailEntry
  <2>2. we' = [we EXCEPT ![t].signaled = 0, ![t].reterr = "invobject"]
    BY <1>4, <2>1 DEF FailEntry
  <2>3. /\ \A x \in Thread : x # t => we'[x] = we[x]
        /\ we'[t] = [we[t] EXCEPT !.signaled = 0, !.reterr = "invobject"]
    BY <1>0, <2>2
  <2>4. we'[t].signaled \in Nat
    BY <1>0, <2>3 DEF WaitEntry
  <2>5. wlist' = wlist /\ Holds(m)
    BY <1>0, <1>4 DEF FailEntry
  <2>6. Leaves(m, t) \/ Queues(m)
    BY <2>3, <2>4, <2>5, QueueAnswered
  <2>7. QED
    BY <2>5, <2>6 DEF LockMoves
<1>5. ASSUME NEW due \in BOOLEAN, GrantEntry(due) PROVE LockMoves(m)
  <2>1. PICK t \in Thread : wlist[at] = t /\ Listed(t)
    BY <1>5, WalkedEntry DEF GrantEntry
  <2>2. PICK k, v \in Nat : GrantOf(t, Flags(t, we[t], due), k, v)
    BY <1>5, <2>1, GrantStep
  <2>3. /\ \A x \in Thread : x # t => we'[x] = we[x]
        /\ we'[t].signaled \in Nat
    BY <2>2 DEF GrantOf
  <2>4. wlist' = wlist /\ Keeps /\ we[t].signaled < 0
    BY <1>5, <2>1 DEF GrantEntry
  <2>5. Leaves(m, t) \/ (t \notin Askers(m) /\ Queues(m))
    BY <2>3, <2>4, QueueAnswered
  <2>6. CASE Holds(m)
    BY <2>5, <2>6 DEF LockMoves
  <2>7. CASE /\ owner'[m] = t /\ lockcnt'[m] = lockcnt[m] + 1
             /\ owner[m] \in {NoThread, t} /\ m \in alive /\ ItemsFor(t, m) # {}
    <3>1. t \in Askers(m)
      BY <2>1, <2>4, <2>7 DEF Askers, AsksFor
    <3>2. owner[m] = NoThread => \A u \in Firm(m) : ~Elder(u, t)
      BY <2>1, <2>4, <2>7, NobodyAhead
    <3>3. QED
      BY <2>5, <2>7, <3>1, <3>2 DEF LockMoves
  <2>8. QED
    BY <1>5, <2>1, <2>6, <2>7, GrantCaptures
<1>6. QED
  BY <1>1, <1>2, <1>3, <1>4, <1>5 DEF CheckEntry

(* Where only owners and counts change.                                    *)
LEMMA ListQuiet ==
  ASSUME NEW m \in Mutex, UNCHANGED <<wlist, we>>
  PROVE  Queues(m) /\ (owner' = owner /\ lockcnt' = lockcnt => LockMoves(m))
  BY QueuesStay DEF LockMoves, Holds

(* Nobody asks for a mutex that does not exist.                            *)
LEMMA DeadUnasked ==
  ASSUME CInv, NEW m \in Mutex, m \notin alive
  PROVE  Askers(m) = {}
<1> SUFFICES ASSUME NEW t \in Thread, AsksFor(t, m) PROVE FALSE
  BY DEF Askers
<1>1. PICK i \in DOMAIN we[t].req.items :
        we[t].req.items[i].kind = "mutex" /\ we[t].req.items[i].obj = m
  BY DEF AsksFor, ItemsFor
<1>2. m \in Counted(we[t])
  BY <1>1 DEF Counted
<1>3. QED
  BY <1>2 DEF AsksFor, CInv, CountedAlive

(* Every step of the program moves every lock as FifoLock allows.          *)
LEMMA NextMoves ==
  ASSUME Forced \subseteq {FALSE}, IInv, IInv', WInv, CInv, [Next]_vars, NEW m \in Mutex
  PROVE  LockMoves(m)
<1> USE DEF objVars, listVars
<1>0. /\ owner \in [Mutex -> Thread \cup {NoThread}] /\ lockcnt \in [Mutex -> 0..MaxLock]
      /\ owner' = owner /\ lockcnt' = lockcnt => Holds(m)
      /\ NoThread \notin Thread
      /\ lockcnt[m] = 0 <=> owner[m] = NoThread
      /\ owner[m] # NoThread => m \in alive
  BY ThreadAssumption DEF IInv, TypeOK, Holds, OwnerInv
<1>1. CASE Walk
  <2>1. CASE CheckEntry
    BY <2>1, CheckEntryMoves
  <2>2. CASE EndEvent \/ \E t \in Thread \cup {Idle} : Dispatch(t) \/ EndExit(t)
    BY <2>2, ListQuiet DEF EndEvent, Dispatch, EndExit
  <2>3. CASE EndWait
    BY <1>0, <2>3, UnlinkMoves, ListQuiet DEF EndWait
  <2>4. QED
    BY <1>1, <2>1, <2>2, <2>3 DEF Walk
<1>2. CASE Timer
  BY <1>2, ListQuiet DEF Timer
<1>3. ASSUME NEW t \in Thread, Call(t)
      PROVE  LockMoves(m)
  <2>1. ASSUME NEW n \in Mutex, Release(t, n) PROVE LockMoves(m)
    <3>1. UNCHANGED <<wlist, we>> /\ owner[n] = t
      BY <2>1 DEF Release
    <3>2. Queues(m)
      BY <3>1, ListQuiet
    <3>3. CASE n # m
      <4>1. Holds(m)
        BY <1>0, <2>1, <3>3 DEF Release, Unowned, Holds
      <4>2. QED
        BY <3>2, <4>1 DEF LockMoves
    <3>4. CASE n = m /\ lockcnt[m] > 1
      <4>1. lockcnt'[m] = lockcnt[m] - 1 /\ owner'[m] = t /\ lockcnt[m] - 1 # 0
        BY <1>0, <2>1, <3>1, <3>4 DEF Release
      <4>2. QED
        BY <3>1, <3>2, <3>4, <4>1 DEF LockMoves
    <3>5. CASE n = m /\ ~(lockcnt[m] > 1)
      <4>1. lockcnt'[m] = 0 /\ owner'[m] = NoThread
        BY <1>0, <2>1, <3>5 DEF Release, Unowned
      <4>2. QED
        BY <3>1, <3>2, <3>5, <4>1 DEF LockMoves
    <3>6. QED
      BY <3>3, <3>4, <3>5
  <2>2. ASSUME NEW n \in Mutex, NEW s \in BOOLEAN, CreateMutex(t, n, s)
        PROVE  LockMoves(m)
    <3>1. UNCHANGED <<wlist, we>> /\ n \notin alive
      BY <2>2 DEF CreateMutex
    <3>2. Queues(m)
      BY <3>1, ListQuiet
    <3>3. CASE n # m
      <4>1. Holds(m)
        BY <1>0, <2>2, <3>3 DEF CreateMutex, Holds
      <4>2. QED
        BY <3>2, <4>1 DEF LockMoves
    <3>4. CASE n = m
      <4>1. owner[m] = NoThread /\ lockcnt[m] = 0 /\ Askers(m) = {}
        BY <1>0, <3>1, <3>4, DeadUnasked
      <4>2. CASE s = TRUE
        <5>1. owner'[m] = t /\ lockcnt'[m] = 1
          BY <1>0, <2>2, <3>4, <4>2 DEF CreateMutex
        <5>2. QED
          BY <3>2, <4>1, <5>1 DEF LockMoves
      <4>3. CASE s = FALSE
        <5>1. Holds(m)
          BY <1>0, <2>2, <3>4, <4>1, <4>3 DEF CreateMutex, Holds
        <5>2. QED
          BY <3>2, <5>1 DEF LockMoves
      <4>4. QED
        BY <4>2, <4>3
    <3>5. QED
      BY <3>3, <3>4
  <2>3. ASSUME NEW e \in Event, \/ EventReset(t, e)
                                \/ EventSet(t, e)
                                \/ \E b \in BOOLEAN :
                                     EventPulse(t, e, b) \/ CreateEvent(t, e, b)
        PROVE  LockMoves(m)
    BY <2>3, ListQuiet DEF EventReset, EventSet, EventPulse, CreateEvent
  <2>4. ASSUME NEW o \in Object, NEW force \in Forced, Free(t, o, force)
        PROVE  LockMoves(m)
    <3>1. UNCHANGED <<wlist, we>> /\ (o \in Mutex => owner[o] = NoThread)
      BY <2>4 DEF Free
    <3>2. owner'[m] = owner[m] /\ lockcnt'[m] = lockcnt[m]
      BY <1>0, <2>4, <3>1 DEF Free, Unowned
    <3>3. QED
      BY <3>1, <3>2, ListQuiet DEF LockMoves, Holds
  <2>5. ASSUME NEW r \in Request, WaitObject(t, r)
        PROVE  LockMoves(m)
    BY <2>5, WaitObjectMoves
  <2>6. CASE WaitReturn(t)
    BY <1>0, <2>6, UnlinkMoves DEF WaitReturn
  <2>7. ASSUME NEW u \in Thread, \/ Suspend(t, u)
                                 \/ Resume(t, u)
                                 \/ \E s \in BOOLEAN : CreateThread(t, u, s)
        PROVE  LockMoves(m)
    BY <2>7, ListQuiet DEF Suspend, Resume, CreateThread
  <2>8. ASSUME NEW u \in Thread, Terminate(t, u)
        PROVE  LockMoves(m)
    <3>1. owner' = owner /\ lockcnt' = lockcnt /\ Holds(m)
      BY <1>0, <2>8 DEF Terminate
    <3>2. QED
      BY <2>8, <3>1, UnlinkMoves, ListQuiet DEF Terminate
  <2>9. CASE ExitThread(t)
    <3>1. UNCHANGED <<wlist, we>>
      BY <2>9 DEF ExitThread
    <3>2. Queues(m)
      BY <3>1, ListQuiet
    <3>3. owned[t] = {n \in Mutex : owner[n] = t}
      BY DEF IInv, OwnerInv
    <3>4. CASE owner[m] = t
      <4>1. owner'[m] = NoThread /\ lockcnt'[m] = 0
        BY <2>9, <3>3, <3>4 DEF ExitThread, Unowned
      <4>2. QED
        BY <3>2, <3>4, <4>1 DEF LockMoves
    <3>5. CASE owner[m] # t
      <4>1. Holds(m)
        BY <2>9, <3>3, <3>5 DEF ExitThread, Unowned, Holds
      <4>2. QED
        BY <3>2, <4>1 DEF LockMoves
    <3>6. QED
      BY <3>4, <3>5
  <2>10. QED
    BY <1>3, <2>1, <2>2, <2>3, <2>4, <2>5, <2>6, <2>7, <2>8, <2>9 DEF Call
<1>4. CASE UNCHANGED vars
  BY <1>4, ListQuiet DEF vars
<1>5. QED
  BY <1>1, <1>2, <1>3, <1>4 DEF Next

(* mutex.c and wobj.c keep the promise of FifoLock, for any threads,       *)
(* mutexes and requests, as long as nobody closes objects by force.        *)
THEOREM LocksRefine ==
  ASSUME Forced \subseteq {FALSE}
  PROVE  Spec => ImplementsFifoLock
<1>1. Init => Locks!FInit
  <2>1. SUFFICES ASSUME Init PROVE Locks!FInit
    OBVIOUS
  <2>2. \A m \in Mutex : Askers(m) = {} /\ Firm(m) = {}
    BY <2>1 DEF Init, Askers, Firm, AsksFor, Listed
  <2>3. ASSUME NEW m \in Mutex PROVE FirmAhead(m) = [t \in Thread |-> {}]
    BY <2>2 DEF FirmAhead
  <2>4. QED
    BY <2>1, <2>2, <2>3 DEF Init, Locks!FInit
<1>2. ASSUME IInv, IInv', WInv, CInv, [Next]_vars PROVE Locks!FNext
  BY <1>2, NextMoves, LockMoveStep DEF Locks!FNext
<1>3. QED
  BY <1>1, <1>2, WaitInvariant, CountersHold, PTL DEF Spec, ImplementsFifoLock, Locks!FSpec
=============================================================================

------------------------------- MODULE MtWait -------------------------------
(***************************************************************************)
(* Mutexes, events and wait objects of the QSINIT multi-tasking library    *)
(* (ldrapps/mtlib): mutex.c, wobj.c and the thread calls of process.c and  *)
(* sched.c they interact with.                                             *)
(*                                                                         *)
(* One CPU runs pt_current.  Every call below runs under the MT lock, so   *)
(* it is not interleaved with another thread; the walk of the wait list by *)
(* w_check_conditions() is split into one step per list entry, and while a *)
(* walk is on (pass # "run") nothing else is enabled.  A timer interrupt   *)
(* may switch threads between any two calls.  The choice of the next       *)
(* thread is left open here: it is the subject of MtSched.                 *)
(***************************************************************************)
EXTENDS Integers, Sequences, FiniteSets, SequencesExt

CONSTANTS
  Thread,     \* secondary threads of one process (tid > 1)
  Idle,       \* pt_sysidle: TFLM_SYSTEM|TFLM_NOSCHED, runs when nobody else can
  NoThread,   \* null mt_thrdata pointer; in a QWHT_TID item: "any thread"
  Mutex,      \* blocks that may hold a mutex_data
  Event,      \* blocks that may hold an event_data
  Request,    \* mt_waitobject() arguments the program uses
  MaxLock,    \* MUTEX_MAXLOCK
  Forced      \* may io_close_as() force objects closed? a set of BOOLEANs

Object == Mutex \cup Event
Kind   == {"mutex", "event", "clock", "tid"}

(* One mt_waitentry: its type, its object and the set of groups it is in.  *)
Item == [kind : Kind, obj : Object \cup Thread \cup {NoThread},
         group : SUBSET (Nat \ {0})]

(* "logic" is the set of groups combined with AND (glogic).                *)
RequestType == [items : Seq(Item), logic : SUBSET (Nat \ {0})]

(***************************************************************************)
(* A request names an object at most once, mutex items name mutexes and    *)
(* event items events: hlp_cvtmux refuses any other handle.                *)
(***************************************************************************)
WellFormed(r) ==
  /\ \A i \in DOMAIN r.items :
       /\ r.items[i].kind = "mutex" => r.items[i].obj \in Mutex
       /\ r.items[i].kind = "event" => r.items[i].obj \in Event
       /\ r.items[i].kind = "tid" => r.items[i].obj \in Thread \cup {NoThread}
  /\ \A i, j \in DOMAIN r.items :
       /\ i # j
       /\ r.items[i].kind \in {"mutex", "event"}
       /\ r.items[j].kind \in {"mutex", "event"}
       => r.items[i].obj # r.items[j].obj

ASSUME ThreadAssumption  == /\ Idle \notin Thread
                            /\ NoThread \notin Thread \cup {Idle}
                            /\ Thread \cap {"none", "obj"} = {}
ASSUME ObjectAssumption  == Mutex \cap Event = {}
ASSUME RequestAssumption == /\ Request \subseteq RequestType
                            /\ \A r \in Request : WellFormed(r)
ASSUME MaxLockAssumption == MaxLock \in Nat \ {0}
ASSUME ForcedAssumption  == Forced \subseteq BOOLEAN

VARIABLES
  cur,       \* pt_current
  tstate,    \* tiState of each thread slot; "none" is a free slot
  waitfor,   \* tiWaitReason and tiWaitHandle: "obj" is THWR_WAITOBJ, a thread
             \* is THWR_TIDEXIT for that tid
  dying,     \* threads whose current fiber is the mt_exitthreada one made by
             \* mt_termthread()
  owner,     \* mutex_data.owner
  lockcnt,   \* mutex_data.lockcnt
  owned,     \* the list at tiFirstMutex of each thread (as a set)
  waitcnt,   \* waitcnt of mutex_data and event_data
  evstate,   \* event_data.state: 0, 1 set, 2 pulse for one
  alive,     \* blocks whose sign is MUTEX_SIGN or EVENT_SIGN
  wlist,     \* the list we_first..we_last: callers of the entries in it
  we,        \* the we_list_entry of each caller
  pass,      \* the w_check_conditions() walk in progress, "run" if none
  at,        \* position of the walk in wlist
  target,    \* the thread argument of switch_context()
  hit,       \* the result of w_check_conditions() for its special entry
  pulsed     \* the events event_action() resets after its walk

thrVars  == <<cur, tstate, waitfor, dying>>
objVars  == <<owner, lockcnt, owned, waitcnt, evstate, alive>>
listVars == <<wlist, we>>
passVars == <<pass, at, target, hit, pulsed>>
vars     == <<thrVars, objVars, listVars, passVars>>

(* sigf of one item: WOBJ_OK, WOBJ_MUXFREE, WOBJ_EVFREE or none of them;   *)
(* "bad" is the failed signature test that sets reterr.                    *)
Flag == {"off", "on", "muxfree", "evfree", "bad"}

NoReq   == [items |-> <<>>, logic |-> {}]
NoEntry == [req |-> NoReq, sigf |-> <<>>, signaled |-> -1, reterr |-> "ok"]

WaitEntry == [req : Request \cup {NoReq}, sigf : Seq(Flag),
              signaled : Int, reterr : {"ok", "invobject", "locklimit"}]

Listed(t) == \E k \in DOMAIN wlist : wlist[k] = t

(* Objects whose waitcnt counts the entry e.                               *)
Counted(e) ==
  {e.req.items[i].obj : i \in {j \in DOMAIN e.req.items :
                                 e.req.items[j].kind \in {"mutex", "event"}}}

Init ==
  /\ \E run \in SUBSET Thread :
       /\ cur \in run
       /\ tstate = [t \in Thread |-> IF t \in run THEN "running" ELSE "none"]
  /\ waitfor  = [t \in Thread |-> "none"]
  /\ dying    = {}
  /\ owner    = [m \in Mutex |-> NoThread]
  /\ lockcnt  = [m \in Mutex |-> 0]
  /\ owned    = [t \in Thread |-> {}]
  /\ waitcnt  = [o \in Object |-> 0]
  /\ evstate  = [e \in Event |-> 0]
  /\ alive    = {}
  /\ wlist    = <<>>
  /\ we       = [t \in Thread |-> NoEntry]
  /\ pass     = "run"
  /\ at       = 1
  /\ target   = NoThread
  /\ hit      = FALSE
  /\ pulsed   = {}

(* The running thread executes program code: it can call the library.      *)
Calls(t) ==
  /\ pass = "run"
  /\ cur = t
  /\ t \notin dying
  /\ ~Listed(t)

(* Mutant: the walk begins at we_last.                                     *)
StartAtLast(p) ==
  pass' = p /\ at' = (IF wlist = <<>> THEN 1 ELSE Len(wlist)) /\ hit' = FALSE

(* w_check_conditions() is entered.                                        *)
StartPass(p) == pass' = p /\ at' = 1 /\ hit' = FALSE

-----------------------------------------------------------------------------
(***************************************************************************)
(* Mutexes and events.                                                     *)
(***************************************************************************)

(* muxev_create(event = 0): the heap may hand out any free block.          *)
CreateMutex(t, m, signaled) ==
  /\ Calls(t)
  /\ m \notin alive
  /\ alive'   = alive \cup {m}
  /\ waitcnt' = [waitcnt EXCEPT ![m] = 0]
  /\ owner'   = [owner EXCEPT ![m] = IF signaled THEN t ELSE NoThread]
  /\ lockcnt' = [lockcnt EXCEPT ![m] = IF signaled THEN 1 ELSE 0]
  /\ owned'   = [owned EXCEPT ![t] = IF signaled THEN @ \cup {m} ELSE @]
  /\ UNCHANGED <<evstate, thrVars, listVars, passVars>>

(* muxev_create(event = 1).                                                *)
CreateEvent(t, e, signaled) ==
  /\ Calls(t)
  /\ e \notin alive
  /\ alive'   = alive \cup {e}
  /\ waitcnt' = [waitcnt EXCEPT ![e] = 0]
  /\ evstate' = [evstate EXCEPT ![e] = IF signaled THEN 1 ELSE 0]
  /\ UNCHANGED <<owner, lockcnt, owned, thrVars, listVars, passVars>>

(* mutex_unlink() and the reset of the mutexes in ms.                      *)
Unowned(ms) ==
  /\ owner'   = [m \in Mutex |-> IF m \in ms THEN NoThread ELSE owner[m]]
  /\ lockcnt' = [m \in Mutex |-> IF m \in ms THEN 0 ELSE lockcnt[m]]
  /\ owned'   = [u \in Thread |-> owned[u] \ ms]

(* mutex_release() by the owner; anybody else gets E_MT_NOTOWNER.          *)
Release(t, m) ==
  /\ Calls(t)
  /\ m \in alive
  /\ owner[m] = t
  /\ IF lockcnt[m] > 1
       THEN lockcnt' = [lockcnt EXCEPT ![m] = @ - 1] /\ UNCHANGED <<owner, owned>>
       ELSE Unowned({m})
  /\ UNCHANGED <<waitcnt, evstate, alive, thrVars, listVars, passVars>>

(* muxev_free(): refused while the object is owned or waited for, unless   *)
(* forced (io_close_as() at the exit of the process with the last handle). *)
Free(t, o, force) ==
  /\ Calls(t)
  /\ o \in alive
  /\ force \/ waitcnt[o] = 0
  /\ force \/ (o \in Mutex => owner[o] = NoThread)
  /\ alive'   = alive \ {o}
  /\ waitcnt' = [waitcnt EXCEPT ![o] = 0]
  /\ Unowned({o})
  /\ evstate' = [e \in Event |-> IF e = o THEN 0 ELSE evstate[e]]
  /\ UNCHANGED <<thrVars, listVars, passVars>>

(* event_action(QEVA_RESET).                                               *)
EventReset(t, e) ==
  /\ Calls(t)
  /\ e \in alive
  /\ evstate' = [evstate EXCEPT ![e] = 0]
  /\ UNCHANGED <<owner, lockcnt, owned, waitcnt, alive, thrVars, listVars, passVars>>

(* event_action(QEVA_SET): walks the list if anybody waits.                *)
EventSet(t, e) ==
  /\ Calls(t)
  /\ e \in alive
  /\ evstate' = [evstate EXCEPT ![e] = 1]
  /\ IF waitcnt[e] > 0 THEN StartPass("event") /\ pulsed' = {}
                       ELSE UNCHANGED <<pass, at, hit, pulsed>>
  /\ UNCHANGED <<owner, lockcnt, owned, waitcnt, alive, thrVars, listVars, target>>

(* event_action(QEVA_PULSE / QEVA_PULSEONE): the state of the event is     *)
(* visible to one walk only.                                               *)
EventPulse(t, e, one) ==
  /\ Calls(t)
  /\ e \in alive
  /\ IF waitcnt[e] > 0
       THEN /\ evstate' = [evstate EXCEPT ![e] = IF one THEN 2 ELSE 1]
            /\ StartPass("event")
            /\ pulsed' = {e}
       ELSE /\ evstate' = [evstate EXCEPT ![e] = 0]
            /\ UNCHANGED <<pass, at, hit, pulsed>>
  /\ UNCHANGED <<owner, lockcnt, owned, waitcnt, alive, thrVars, listVars, target>>

EndEvent ==
  /\ pass = "event"
  /\ at > Len(wlist)
  /\ pass'    = "run"
  /\ evstate' = [e \in Event |-> IF e \in pulsed THEN 0 ELSE evstate[e]]
  /\ pulsed'  = {}
  /\ UNCHANGED <<owner, lockcnt, owned, waitcnt, alive, thrVars, listVars,
                 at, target, hit>>

-----------------------------------------------------------------------------
(***************************************************************************)
(* mt_waitobject() and the wait list.                                      *)
(***************************************************************************)

(* Entry checks of mt_waitobject(): every object and thread exists.        *)
Acceptable(r) ==
  \A i \in DOMAIN r.items :
    LET x == r.items[i] IN
    /\ x.kind \in {"mutex", "event"} => x.obj \in alive
    /\ (x.kind = "tid" /\ x.obj # NoThread) => tstate[x.obj] # "none"

(* Mutant: new entries go to the top of the list.                          *)
EnlistFirst(t) == wlist' = <<t>> \o wlist

(* w_add(): new entries go to the bottom.                                  *)
Enlist(t) == wlist' = Append(wlist, t)

(* mt_waitobject() up to its own w_check_conditions(0,0,nwe).              *)
WaitObject(t, r) ==
  /\ Calls(t)
  /\ Acceptable(r)
  /\ LET e == [req |-> r, sigf |-> [i \in DOMAIN r.items |-> "off"],
               signaled |-> -1, reterr |-> "ok"]
     IN /\ we'      = [we EXCEPT ![t] = e]
        /\ Enlist(t)
        /\ waitcnt' = [o \in Object |-> IF o \in Counted(e) THEN waitcnt[o] + 1
                                                            ELSE waitcnt[o]]
  /\ StartPass("wait")
  /\ UNCHANGED <<owner, lockcnt, owned, evstate, alive, thrVars, target, pulsed>>

(* Mutant: waitcnt is not decremented.                                     *)
UnlinkOnly(k) ==
  /\ wlist' = RemoveAt(wlist, k)
  /\ we'    = [we EXCEPT ![wlist[k]] = NoEntry]
  /\ UNCHANGED waitcnt

(* w_del() of entry number k.                                              *)
Unlink(k) ==
  LET t == wlist[k] IN
  /\ wlist'   = RemoveAt(wlist, k)
  /\ we'      = [we EXCEPT ![t] = NoEntry]
  /\ waitcnt' = [o \in Object |-> IF o \in Counted(we[t]) \cap alive /\ waitcnt[o] > 0
                                    THEN waitcnt[o] - 1
                                    ELSE waitcnt[o]]

(* The end of mt_waitobject()'s own walk: either the condition is already  *)
(* met and the call returns, or the thread goes to THRD_WAITING and        *)
(* switch_context(0,SWITCH_WAIT) walks the list again.                     *)
EndWait ==
  /\ pass = "wait"
  /\ at > Len(wlist)
  /\ IF hit
       THEN /\ \E k \in DOMAIN wlist : wlist[k] = cur /\ Unlink(k)
            /\ pass' = "run"
            /\ UNCHANGED <<tstate, waitfor, at, target, hit>>
       ELSE /\ tstate'  = [tstate EXCEPT ![cur] = "waiting"]
            /\ waitfor' = [waitfor EXCEPT ![cur] = "obj"]
            /\ StartPass("switch")
            /\ target' = NoThread
            /\ UNCHANGED <<wlist, we, waitcnt>>
  /\ UNCHANGED <<cur, dying, owner, lockcnt, owned, evstate, alive, pulsed>>

(* The awakened thread runs again after switch_context() in mt_waitobject. *)
WaitReturn(t) ==
  /\ pass = "run"
  /\ cur = t
  /\ t \notin dying
  /\ \E k \in DOMAIN wlist : wlist[k] = t /\ Unlink(k)
  /\ UNCHANGED <<owner, lockcnt, owned, evstate, alive, thrVars, passVars>>

-----------------------------------------------------------------------------
(***************************************************************************)
(* One iteration of the w_check_conditions() loop.                         *)
(***************************************************************************)

(* The first switch: what the item x of thread t evaluates to.  "due" says *)
(* that the clock of the entry has run out.                                *)
ItemState(t, x, due) ==
  CASE x.kind = "mutex" -> IF x.obj \notin alive THEN "bad"
                           ELSE IF owner[x.obj] \in {NoThread, t} THEN "muxfree"
                           ELSE "off"
    [] x.kind = "event" -> IF x.obj \notin alive THEN "bad"
                           ELSE IF evstate[x.obj] = 1 THEN "on"
                           ELSE IF evstate[x.obj] = 2 THEN "evfree"
                           ELSE "off"
    [] x.kind = "clock" -> IF due THEN "on" ELSE "off"
    [] x.kind = "tid"   -> IF pass = "exit" /\ x.obj \in {cur, NoThread}
                             THEN "on" ELSE "off"

(* WOBJ_OK is sticky, anything else is evaluated again.                    *)
Flags(t, e, due) ==
  [i \in DOMAIN e.req.items |->
     IF e.sigf[i] = "on" THEN "on" ELSE ItemState(t, e.req.items[i], due)]

IsOn(f, i) == f[i] \in {"on", "muxfree", "evfree"}

(* Mutant: it leaves at any item that is on.                               *)
StopsAtOn(r, f, i) == IsOn(f, i)

(* The second loop leaves at an item that is on and is either ungrouped or *)
(* in a group with OR logic; k is that item, or one past the last.         *)
Stops(r, f, i) ==
  /\ IsOn(f, i)
  /\ r.items[i].group = {} \/ r.items[i].group \ r.logic # {}

LeavesAt(r, f, k) ==
  /\ \A i \in 1..(k - 1) : ~Stops(r, f, i)
  /\ k \in DOMAIN r.items => Stops(r, f, k)

(* Mutant: gs begins with zero instead of clogic.                          *)
OrGroups(r, f, k) == IF k \in DOMAIN r.items THEN r.items[k].group \ r.logic ELSE {}

(* gs at the end of that loop.                                             *)
SignaledGroups(r, f, k) ==
  (r.logic \ UNION {r.items[i].group : i \in {j \in 1..(k - 1) : ~IsOn(f, j)}})
  \cup (IF k \in DOMAIN r.items THEN r.items[k].group \ r.logic ELSE {})

(* we->signaled as that loop leaves it: 0, the lowest group, or still -1.  *)
Verdict(r, f, k, v) ==
  LET gs == SignaledGroups(r, f, k) IN
  IF k \in DOMAIN r.items /\ r.items[k].group = {} THEN v = 0
  ELSE IF gs = {} THEN v = -1
  ELSE v \in gs /\ \A g \in gs : v =< g

(* Items the last loop visits for verdict v.                               *)
Winners(r, v) ==
  {i \in DOMAIN r.items : IF v = 0 THEN r.items[i].group = {}
                                   ELSE v \in r.items[i].group}

(* Mutant: onf is updated after the exits of the second loop.              *)
GrabbedLate(r, f, k, v) ==
  IF v >= 0 /\ \E i \in DOMAIN r.items : i < k /\ f[i] \in {"muxfree", "evfree"}
    THEN {i \in Winners(r, v) : f[i] \in {"muxfree", "evfree"}}
    ELSE {}

(* The capture loop for verdict v: it runs if the loop before has met a    *)
(* free mutex or a pulsed event, and stops at the first capture that fails.*)
Grabbed(r, f, k, v) ==
  IF v >= 0 /\ \E i \in DOMAIN r.items : i =< k /\ f[i] \in {"muxfree", "evfree"}
    THEN {i \in Winners(r, v) : f[i] \in {"muxfree", "evfree"}}
    ELSE {}

(* Mutant: no MUTEX_MAXLOCK test.                                          *)
NeverFails(t, r, i) == FALSE

(* mutex_capture() of item i returns E_MT_LOCKLIMIT.                       *)
Fails(t, r, i) ==
  /\ r.items[i].kind = "mutex"
  /\ owner[r.items[i].obj] = t
  /\ lockcnt[r.items[i].obj] >= MaxLock

Done(t, r, grab) == {i \in grab : \A j \in grab : Fails(t, r, j) => i < j}

ObjsAt(r, is) == {r.items[i].obj : i \in is}

(* Mutant: the captured mutex is not linked to tiFirstMutex.               *)
CaptureNoLink(t, ms) ==
  /\ owner'   = [m \in Mutex |-> IF m \in ms THEN t ELSE owner[m]]
  /\ lockcnt' = [m \in Mutex |-> IF m \in ms THEN lockcnt[m] + 1 ELSE lockcnt[m]]
  /\ UNCHANGED owned

(* mutex_capture() of the mutexes in ms to thread t.                       *)
Capture(t, ms) ==
  /\ owner'   = [m \in Mutex |-> IF m \in ms THEN t ELSE owner[m]]
  /\ lockcnt' = [m \in Mutex |-> IF m \in ms THEN lockcnt[m] + 1 ELSE lockcnt[m]]
  /\ owned'   = [owned EXCEPT ![t] = @ \cup ms]

(* update_wait_state(pd, THWR_WAITOBJ, we).                                *)
Wake(t) ==
  tstate' = [tstate EXCEPT ![t] = IF @ = "waiting" /\ waitfor[t] = "obj"
                                    THEN "running" ELSE @]

Walking == pass # "run" /\ at =< Len(wlist)

(* The caller of the entry is exiting: the entry is dropped.               *)
DropEntry ==
  /\ Walking
  /\ pass = "exit"
  /\ wlist[at] = cur
  /\ Unlink(at)
  /\ UNCHANGED <<owner, lockcnt, owned, evstate, alive, thrVars, passVars>>

(* Mutant: the entry of the exiting thread may stay.                       *)
KeepsAny == Walking

Keeps == Walking /\ (pass = "exit" => wlist[at] # cur)

(* The entry has its verdict already: only the thread state is updated.    *)
SkipEntry ==
  /\ Keeps
  /\ we[wlist[at]].signaled >= 0
  /\ Wake(wlist[at])
  /\ at' = at + 1
  /\ UNCHANGED <<cur, waitfor, dying, objVars, listVars, pass, target, hit, pulsed>>

(* An object of the entry is gone: reterr is returned to the caller.       *)
FailEntry(due) ==
  LET t == wlist[at]
      f == Flags(t, we[t], due)
  IN
  /\ Keeps
  /\ we[t].signaled < 0
  /\ \E i \in DOMAIN f : f[i] = "bad"
  /\ we' = [we EXCEPT ![t].signaled = 0, ![t].reterr = "invobject"]
  /\ Wake(t)
  /\ at' = at + 1
  /\ UNCHANGED <<cur, waitfor, dying, objVars, wlist, pass, target, hit, pulsed>>

(* Nothing new in the entry, or not enough yet.                            *)
PassEntry(due) ==
  LET t == wlist[at]
      e == we[t]
      f == Flags(t, e, due)
  IN
  /\ Keeps
  /\ e.signaled < 0
  /\ \A i \in DOMAIN f : f[i] # "bad"
  /\ \/ \A i \in DOMAIN f : e.sigf[i] # "on" => f[i] = "off"
     \/ \E k \in 1..(Len(e.req.items) + 1) :
          LeavesAt(e.req, f, k) /\ Verdict(e.req, f, k, -1)
  /\ we' = [we EXCEPT ![t].sigf = f]
  /\ at' = at + 1
  /\ UNCHANGED <<thrVars, objVars, wlist, pass, target, hit, pulsed>>

(* The conditions are met: mutexes are captured, a pulse is consumed, and  *)
(* the thread is released.                                                 *)
GrantEntry(due) ==
  LET t == wlist[at]
      e == we[t]
      f == Flags(t, e, due)
  IN
  /\ Keeps
  /\ e.signaled < 0
  /\ \A i \in DOMAIN f : f[i] # "bad"
  /\ \E i \in DOMAIN f : e.sigf[i] # "on" /\ f[i] # "off"
  /\ \E k \in 1..(Len(e.req.items) + 1) :
       /\ LeavesAt(e.req, f, k)
       /\ \E v \in {0} \cup SignaledGroups(e.req, f, k) :
            /\ Verdict(e.req, f, k, v)
            /\ LET grab == Grabbed(e.req, f, k, v)
                   done == Done(t, e.req, grab)
                   objs == ObjsAt(e.req, done)
               IN
               /\ Capture(t, objs \cap Mutex)
               /\ evstate' = [x \in Event |-> IF x \in objs THEN 0 ELSE evstate[x]]
               /\ we' = [we EXCEPT
                    ![t].sigf = [i \in DOMAIN f |-> IF i \in done THEN "on" ELSE f[i]],
                    ![t].signaled = v,
                    ![t].reterr = IF done = grab THEN "ok" ELSE "locklimit"]
  /\ Wake(t)
  /\ hit' = (hit \/ (pass = "wait" /\ t = cur))
  /\ at' = at + 1
  /\ UNCHANGED <<cur, waitfor, dying, waitcnt, alive, wlist, pass, target, pulsed>>

CheckEntry ==
  \/ DropEntry
  \/ SkipEntry
  \/ \E due \in BOOLEAN : FailEntry(due) \/ PassEntry(due) \/ GrantEntry(due)

-----------------------------------------------------------------------------
(***************************************************************************)
(* Threads: switch_context() and the calls of process.c.                   *)
(***************************************************************************)

(* SWITCH_TIMER, or yield() in mt_swunlock(): the walk of switch_context() *)
Timer ==
  /\ pass = "run"
  /\ StartPass("switch")
  /\ target' = NoThread
  /\ UNCHANGED <<thrVars, objVars, listVars, pulsed>>

Runnable == {t \in Thread : tstate[t] = "running"}

(* The tail of switch_context(): the given thread, any running thread, or  *)
(* the idle thread if there is none.                                       *)
MayRun(t) ==
  IF target # NoThread THEN t = target
  ELSE IF Runnable # {} THEN t \in Runnable
  ELSE t = Idle

Dispatch(t) ==
  /\ pass = "switch"
  /\ at > Len(wlist)
  /\ MayRun(t)
  /\ cur'    = t
  /\ pass'   = "run"
  /\ target' = NoThread
  /\ UNCHANGED <<tstate, waitfor, dying, objVars, listVars, at, hit, pulsed>>

(* mt_createthread().                                                      *)
CreateThread(t, u, suspended) ==
  /\ Calls(t)
  /\ tstate[u] = "none"
  /\ tstate' = [tstate EXCEPT ![u] = IF suspended THEN "suspended" ELSE "running"]
  /\ UNCHANGED <<cur, waitfor, dying, objVars, listVars, passVars>>

(* Mutant: the test of tiFirstMutex is gone.                               *)
MaySuspendOwner(u) == tstate[u] = "running"

(* mt_suspendthread() takes a running thread that owns no mutex.           *)
MaySuspend(u) == tstate[u] = "running" /\ owned[u] = {}

Suspend(t, u) ==
  /\ Calls(t)
  /\ MaySuspend(u)
  /\ tstate' = [tstate EXCEPT ![u] = "suspended"]
  /\ IF u = t THEN StartPass("switch") /\ target' = NoThread
              ELSE UNCHANGED <<pass, at, target, hit>>
  /\ UNCHANGED <<cur, waitfor, dying, objVars, listVars, pulsed>>

(* mt_resumethread().                                                      *)
Resume(t, u) ==
  /\ Calls(t)
  /\ tstate[u] = "suspended"
  /\ tstate' = [tstate EXCEPT ![u] = "running"]
  /\ UNCHANGED <<cur, waitfor, dying, objVars, listVars, passVars>>

(* mt_termthread() of another thread of the process: its wait is cancelled *)
(* (w_term), it is switched to an exit fiber and dispatched at once, the   *)
(* caller waits for its end.                                               *)
Terminate(t, u) ==
  /\ Calls(t)
  /\ u # t
  /\ tstate[u] # "none"
  /\ IF tstate[u] = "waiting" /\ waitfor[u] = "obj"
       THEN \E k \in DOMAIN wlist : wlist[k] = u /\ Unlink(k)
       ELSE UNCHANGED <<wlist, we, waitcnt>>
  /\ dying'   = dying \cup {u}
  /\ tstate'  = [tstate EXCEPT ![u] = "running", ![t] = "waiting"]
  /\ waitfor' = [waitfor EXCEPT ![t] = u]
  /\ StartPass("switch")
  /\ target'  = u
  /\ UNCHANGED <<cur, owner, lockcnt, owned, evstate, alive, pulsed>>

(* Mutant: threads waiting in mt_termthread() are forgotten.               *)
ForgetJoiners(t) == [tstate EXCEPT ![t] = "finished"]

(* Thread states once t is on its way out: those that wait for it in       *)
(* mt_termthread() run again.                                              *)
FreeJoiners(t) ==
  [u \in Thread |->
     IF u = t THEN "finished"
     ELSE IF tstate[u] = "waiting" /\ waitfor[u] = t THEN "running"
     ELSE tstate[u]]

(* mt_exitthread_int() of a secondary thread up to the walk of             *)
(* switch_context(0,SWITCH_EXIT): threads waiting in mt_termthread() are   *)
(* released, then mutex_release_all().                                     *)
ExitThread(t) ==
  /\ pass = "run"
  /\ cur = t
  /\ t \in dying \/ ~Listed(t)
  /\ tstate' = FreeJoiners(t)
  /\ Unowned(owned[t])
  /\ StartPass("exit")
  /\ UNCHANGED <<cur, waitfor, dying, waitcnt, evstate, alive, listVars, target, pulsed>>

(* mt_freethread() and the switch away from the thread that is gone.       *)
EndExit(t) ==
  /\ pass = "exit"
  /\ at > Len(wlist)
  /\ LET left == [tstate EXCEPT ![cur] = "none"]
         run  == {u \in Thread : left[u] = "running"}
     IN /\ tstate' = left
        /\ IF run # {} THEN t \in run ELSE t = Idle
  /\ waitfor' = [waitfor EXCEPT ![cur] = "none"]
  /\ dying'   = dying \ {cur}
  /\ cur'     = t
  /\ pass'    = "run"
  /\ UNCHANGED <<objVars, listVars, at, target, hit, pulsed>>

-----------------------------------------------------------------------------
Walk ==
  \/ CheckEntry
  \/ EndEvent
  \/ EndWait
  \/ \E t \in Thread \cup {Idle} : Dispatch(t) \/ EndExit(t)

Call(t) ==
  \/ \E m \in Mutex : Release(t, m) \/ \E s \in BOOLEAN : CreateMutex(t, m, s)
  \/ \E e \in Event : \/ EventReset(t, e)
                      \/ EventSet(t, e)
                      \/ \E b \in BOOLEAN : EventPulse(t, e, b) \/ CreateEvent(t, e, b)
  \/ \E o \in Object, force \in Forced : Free(t, o, force)
  \/ \E r \in Request : WaitObject(t, r)
  \/ WaitReturn(t)
  \/ \E u \in Thread : \/ Suspend(t, u)
                       \/ Resume(t, u)
                       \/ Terminate(t, u)
                       \/ \E s \in BOOLEAN : CreateThread(t, u, s)
  \/ ExitThread(t)

Next == Walk \/ Timer \/ \E t \in Thread : Call(t)

Spec == Init /\ [][Next]_vars
-----------------------------------------------------------------------------
(***************************************************************************)
(* Fairness: the CPU goes on executing the library (Walk).  The timer goes *)
(* on ticking (SF: calls may disable it at any tick, but a tick that comes *)
(* under the MT lock is made good by the yield() of mt_swunlock(), see     *)
(* SliceBound of MtSched; a lock leaked by a wait, LockExact there, breaks *)
(* this assumption).  The scheduler comes back to every thread that stays  *)
(* THRD_RUNNING (NoStarvation of MtSched).  A thread on its exit fiber has *)
(* nothing else to execute.                                                *)
(***************************************************************************)
Fairness ==
  /\ WF_vars(Walk)
  /\ SF_vars(Timer)
  /\ \A t \in Thread : SF_vars(Dispatch(t)) /\ SF_vars(t \in dying /\ ExitThread(t))

FairSpec == Spec /\ Fairness

-----------------------------------------------------------------------------
(***************************************************************************)
(* Properties.                                                             *)
(***************************************************************************)

TypeOK ==
  /\ cur \in Thread \cup {Idle}
  /\ tstate \in [Thread -> {"none", "running", "waiting", "suspended", "finished"}]
  /\ waitfor \in [Thread -> Thread \cup {"none", "obj"}]
  /\ dying \subseteq Thread
  /\ owner \in [Mutex -> Thread \cup {NoThread}]
  /\ lockcnt \in [Mutex -> 0..MaxLock]
  /\ owned \in [Thread -> SUBSET Mutex]
  /\ waitcnt \in [Object -> Nat]
  /\ evstate \in [Event -> 0..2]
  /\ alive \subseteq Object
  /\ wlist \in Seq(Thread)
  /\ we \in [Thread -> WaitEntry]
  /\ pass \in {"run", "wait", "switch", "event", "exit"}
  /\ at \in Nat \ {0}
  /\ target \in Thread \cup {NoThread}
  /\ hit \in BOOLEAN
  /\ pulsed \subseteq Event

(***************************************************************************)
(* A mutex is owned by at most one live thread, whose tiFirstMutex list    *)
(* holds it, and its lock count is zero exactly when it is free: no owner  *)
(* is left dangling by an exit, a termination or a forced close            *)
(* (mutex_capture, mutex_release, mutex_release_all, mutex_unlink).        *)
(***************************************************************************)
OwnerInv ==
  /\ \A t \in Thread : owned[t] = {m \in Mutex : owner[m] = t}
  /\ \A m \in Mutex :
       /\ lockcnt[m] = 0 <=> owner[m] = NoThread
       /\ owner[m] # NoThread => m \in alive
       /\ owner[m] # NoThread => tstate[owner[m]] \notin {"none", "finished"}

(***************************************************************************)
(* A thread in THWR_WAITOBJ has exactly one entry in the wait list and     *)
(* every entry belongs to a thread that still exists, so no thread sleeps  *)
(* where w_check_conditions() cannot see it and the walk never meets the   *)
(* entry of a freed thread (w_add, w_del, w_term, the removal at exit).    *)
(***************************************************************************)
WaitersListed ==
  /\ \A i, j \in DOMAIN wlist : wlist[i] = wlist[j] => i = j
  /\ \A t \in Thread : tstate[t] = "waiting" /\ waitfor[t] = "obj" => Listed(t)
  /\ \A t \in Thread :
       Listed(t) => tstate[t] # "none" /\ (tstate[t] = "finished" => pass = "exit")

(***************************************************************************)
(* A thread that waits in mt_termthread() waits for a thread that is on    *)
(* its exit fiber and still exists: whatever happens in between, the       *)
(* THWR_TIDEXIT wakeup of mt_exitthread_int() is still to come.            *)
(***************************************************************************)
JoinInv ==
  \A t \in Thread : \A u \in Thread :
    tstate[t] = "waiting" /\ waitfor[t] = u =>
      u \in dying /\ tstate[u] \in {"running", "suspended"}

(***************************************************************************)
(* Who may be where: code outside switch_context() runs on a thread that   *)
(* is THRD_RUNNING; only the exiting thread is THRD_FINISHED, it holds no  *)
(* mutex any more and its entry is gone behind the walk; the thread that   *)
(* switch_context() was told to run can run; a thread on its exit fiber    *)
(* never waits.  (mt_exitthread_int, mt_termthread, switch_context)        *)
(***************************************************************************)
SchedInv ==
  /\ pass \in {"wait", "event", "exit"} => cur # Idle
  /\ pass \in {"run", "wait", "event"} /\ cur # Idle => tstate[cur] = "running"
  /\ pass = "wait" => Listed(cur) /\ cur \notin dying
  /\ pass = "exit" => /\ tstate[cur] = "finished"
                      /\ \A k \in DOMAIN wlist : k < at => wlist[k] # cur
  /\ \A t \in Thread : tstate[t] = "finished" => pass = "exit" /\ t = cur
  /\ target # NoThread => pass = "switch" /\ tstate[target] = "running"
  /\ \A t \in dying : tstate[t] \in {"running", "suspended", "finished"}

(* The inductive invariant behind the four above.                          *)
IInv == TypeOK /\ OwnerInv /\ WaitersListed /\ JoinInv /\ SchedInv

(***************************************************************************)
(* mt_suspendthread() refuses the owner of a mutex; no later capture,      *)
(* cancelled wait or termination leaves a suspended thread with one.       *)
(***************************************************************************)
SuspendedOwnsNothing ==
  \A t \in Thread : tstate[t] = "suspended" => owned[t] = {}

(***************************************************************************)
(* waitcnt is the number of listed entries that name the object: the guard *)
(* of muxev_free() and of event_action() never miscounts.  (Without forced *)
(* closing: a block freed under a waiter may be handed out again.)         *)
(***************************************************************************)
WaitCntExact ==
  \A o \in Object :
    waitcnt[o] = Cardinality({t \in Thread : Listed(t) /\ o \in Counted(we[t])})

(* What qstask.h says of a wait: an ungrouped item releases it by itself,  *)
(* an AND group when all its items are on, an OR group when one is.        *)
GroupReady(r, on, g) ==
  LET members == {i \in DOMAIN r.items : g \in r.items[i].group} IN
  /\ members # {}
  /\ IF g \in r.logic THEN members \subseteq on ELSE members \cap on # {}

Groups(r) == UNION {r.items[i].group : i \in DOMAIN r.items}

Ready(r, on) ==
  \/ \E i \in on : r.items[i].group = {}
  \/ \E g \in Groups(r) : GroupReady(r, on, g)

(* Items of the wait of t that are on in this state.                       *)
OnNow(t) ==
  {i \in DOMAIN we[t].req.items :
     LET x == we[t].req.items[i] IN
     \/ we[t].sigf[i] = "on"
     \/ x.kind = "mutex" /\ x.obj \in alive /\ owner[x.obj] \in {NoThread, t}
     \/ x.kind = "event" /\ x.obj \in alive /\ evstate[x.obj] = 1}

(***************************************************************************)
(* When switch_context() is about to choose a thread, nobody is left       *)
(* waiting with its condition met: one walk from the top of the list is    *)
(* enough, whatever the earlier entries captured on the way.               *)
(***************************************************************************)
NoMissedWakeup ==
  pass = "switch" /\ at > Len(wlist) =>
    \A t \in Thread :
      tstate[t] = "waiting" /\ waitfor[t] = "obj" =>
        ~Ready(we[t].req, OnNow(t))

(***************************************************************************)
(* A wait ends only with its condition met: the group reported to the      *)
(* caller is signaled in the sense of qstask.h.                            *)
(***************************************************************************)
ReportedGroupReady ==
  [][\A t \in Thread :
       we[t].signaled < 0 /\ we'[t].signaled >= 0 /\ we'[t].reterr # "invobject" =>
         LET r  == we'[t].req
             on == {i \in DOMAIN r.items : IsOn(we'[t].sigf, i)}
         IN IF we'[t].signaled = 0 THEN \E i \in on : r.items[i].group = {}
                                   ELSE GroupReady(r, on, we'[t].signaled)]_vars

(***************************************************************************)
(* From the moment a wait is released without error until mt_waitobject()  *)
(* returns, the thread owns what it was told it has got: every mutex of an *)
(* AND group, and of any other group one mutex, unless it has an item of   *)
(* another kind.  In between it may be preempted, suspended or terminated, *)
(* and the others may call anything.                                       *)
(***************************************************************************)
GrantedOwns ==
  \A t \in Thread :
    /\ Listed(t) /\ tstate[t] # "finished"
    /\ we[t].signaled >= 0 /\ we[t].reterr = "ok"
    =>
      LET r == we[t].req
          g == we[t].signaled
          members == {i \in DOMAIN r.items :
                        IF g = 0 THEN r.items[i].group = {} ELSE g \in r.items[i].group}
          has(i)  == r.items[i].kind = "mutex" => owner[r.items[i].obj] = t
      IN IF g \in r.logic THEN \A i \in members : has(i)
                          ELSE \E i \in members : has(i)

(* The request is for this mutex alone.                                    *)
WaitsOnlyFor(t, m) ==
  /\ Listed(t)
  /\ we[t].signaled < 0
  /\ Len(we[t].req.items) = 1
  /\ we[t].req.items[1].kind = "mutex"
  /\ we[t].req.items[1].obj = m

(***************************************************************************)
(* A free mutex is never captured past an earlier waiter for it: "long     *)
(* waiting threads ... always will be first in check" (wobj.c).            *)
(***************************************************************************)
FifoGrant ==
  [][\A m \in Mutex : \A t \in Thread :
       owner[m] = NoThread /\ owner'[m] = t /\ m \in alive =>
         \A i, j \in DOMAIN wlist :
           wlist[j] = t /\ i < j => ~WaitsOnlyFor(wlist[i], m)]_vars

(***************************************************************************)
(* Nobody starves on a mutex that keeps being released, even if its owners *)
(* ask for it again at once: the walk of their own mt_waitobject() meets   *)
(* the older entry first.                                                  *)
(***************************************************************************)
NoStarvation ==
  \A m \in Mutex : \A t \in Thread :
    []<>(owner[m] = NoThread) => (WaitsOnlyFor(t, m) ~> ~WaitsOnlyFor(t, m))

(***************************************************************************)
(* mt_termthread() of a thread of the same process comes back, unless      *)
(* somebody suspends the dying thread before it exits.                     *)
(***************************************************************************)
TerminateReturns ==
  \A t \in Thread : \A u \in Thread :
    (tstate[t] = "waiting" /\ waitfor[t] = u)
      ~> (tstate[t] # "waiting" \/ tstate[u] = "suspended")

(***************************************************************************)
(* The mutexes implement the locks of FifoLock: the queue of a mutex is    *)
(* made of the entries of the wait list that ask for it and have no        *)
(* verdict yet, in list order.                                             *)
(***************************************************************************)
ItemsFor(t, m) ==
  {i \in DOMAIN we[t].req.items :
     we[t].req.items[i].kind = "mutex" /\ we[t].req.items[i].obj = m}

AsksFor(t, m) == Listed(t) /\ we[t].signaled < 0 /\ ItemsFor(t, m) # {}

(* The mutex by itself would release the wait.                             *)
Suffices(t, m) == \E i \in ItemsFor(t, m) : Ready(we[t].req, {i})

Askers(m) == {t \in Thread : AsksFor(t, m)}
Firm(m)   == {t \in Askers(m) : Suffices(t, m)}

Elder(u, t) == \E i, j \in DOMAIN wlist : i < j /\ wlist[i] = u /\ wlist[j] = t

FirmAhead(m) ==
  [t \in Thread |-> {u \in Firm(m) : t \in Askers(m) /\ Elder(u, t)}]

Locks == INSTANCE FifoLock WITH
  Lock <- Mutex, None <- NoThread, holder <- owner, depth <- lockcnt,
  waiting <- [m \in Mutex |-> Askers(m)],
  firm    <- [m \in Mutex |-> Firm(m)],
  ahead   <- [m \in Mutex |-> FirmAhead(m)]

(* mutex_capture(), mutex_release() and the wait list implement locks with *)
(* queues: no request is lost, granted twice, or passed by a younger one.  *)
ImplementsFifoLock == Locks!FSpec
=============================================================================

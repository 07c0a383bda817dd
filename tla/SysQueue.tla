------------------------------ MODULE SysQueue ------------------------------
(***************************************************************************)
(* Event queues and the schedule of future events                          *)
(* (ldrapps/start/main/sysque.cpp), with the "attime" callback of mtlib    *)
(* that fires it (callat in mutex.c, switch_context in sched.c).           *)
(*                                                                         *)
(* Every qe_* call works under the MT lock and is one action;              *)
(* qe_waitevent() is several, since the lock is given up between its       *)
(* parts.  A switch_context() is a phase of its own (phase = "switch"):    *)
(* it runs the callback, one step per delivered event, and then looks at   *)
(* the waiting threads.                                                    *)
(*                                                                         *)
(* The threads belong to one process: a handle of another one is refused   *)
(* by io_check_handle() like one that is not open.                         *)
(*                                                                         *)
(* Time is counted in units of which Res make 100 mks; the TSC is finer    *)
(* than a unit.  Blocks of memory are elements of finite sets, a block     *)
(* that is released may be handed out again.                               *)
(***************************************************************************)
EXTENDS Integers, Sequences, FiniteSets, SequencesExt

CONSTANTS
  Thread,       \* threads that may use the queues' handles
  Queue,        \* blocks for sys_queue
  Handle,       \* indices of the handle table
  Event,        \* blocks for qe_event
  Sched,        \* blocks for sched_event: the address is the event id
  Nil,          \* null pointer, free handle
  MaxTime,      \* bound of the clock
  When,         \* delivery times the program asks for
  Res,          \* 100 mks
  StaleIds,     \* does the program use ids of events delivered meanwhile?
  ClosedIds     \* does it use ids it got with a handle it has closed since?

ASSUME NilAssumption  == Nil \notin Queue \cup Handle \cup Event \cup Sched
ASSUME TimeAssumption == MaxTime \in Nat /\ Res \in Nat \ {0} /\ When \subseteq Nat
ASSUME HeapAssumption == IsFiniteSet(Sched)
ASSUME UseAssumption  == StaleIds \in BOOLEAN /\ ClosedIds \in BOOLEAN

NoTime == -1

VARIABLES
  now,      \* sys_clock()
  phase,    \* "run": program code; "switch": inside switch_context();
            \* "close": inside the loop of qe_close()
  closing,  \* the queue and the index "ii" of that loop
  et,       \* "et" of cbattime(), NoTime outside of its loop
  ioh,      \* the queue that each handle leads to
  opened,   \* sys_queue blocks in use: they are never released
  uq,       \* queued events of each queue
  fq,       \* scheduled events of each queue
  sched,    \* contents of the sched_event blocks
  orphans,  \* blocks that were scheduled with a handle closed since
  se_list,  \* head of the sorted list
  alarm,    \* the attcb entry of cbattime()
  heap,     \* qe_event blocks in use
  evtime,   \* evtime of each qe_event
  held,     \* events returned to each thread: it must free() them
  call      \* the qe_waitevent() call of each thread

listVars == <<sched, se_list, fq, alarm>>
evVars   == <<uq, heap, evtime, held>>
iohVars  == <<ioh, opened>>
vars     == <<now, phase, closing, et, listVars, orphans, evVars, iohVars, call>>

Entry == [sign : BOOLEAN, prev : Sched \cup {Nil}, next : Sched \cup {Nil},
          owner : Handle \cup {Nil}, ev : Event \cup {Nil}, qi : Queue \cup {Nil}]

Blank == [sign |-> FALSE, prev |-> Nil, next |-> Nil,
          owner |-> Nil, ev |-> Nil, qi |-> Nil]

NoAlarm == [cbf |-> FALSE, start |-> 0, diff |-> 0, usr |-> Nil]

(* pc: "run" outside of qe_waitevent(), "ask" before waitobject(), "wait"  *)
(* and "got" in it, before and after the verdict; h: the handle; limited:  *)
(* is there a time limit?                                                  *)
NoCall == [pc |-> "run", h |-> Nil, limited |-> FALSE]

Init ==
  /\ now     = 0
  /\ phase   = "run"
  /\ closing = [q |-> Nil, ii |-> 0]
  /\ et      = NoTime
  /\ ioh     = [h \in Handle |-> Nil]
  /\ opened  = {}
  /\ uq      = [q \in Queue |-> <<>>]
  /\ fq      = [q \in Queue |-> <<>>]
  /\ sched   = [s \in Sched |-> Blank]
  /\ orphans = {}
  /\ se_list = Nil
  /\ alarm   = NoAlarm
  /\ heap    = {}
  /\ evtime  = [e \in Event |-> 0]
  /\ held    = [t \in Thread |-> {}]
  /\ call    = [t \in Thread |-> NoCall]

Runs(t) == phase = "run" /\ call[t].pc = "run"

(* io_check_handle(h, IOHT_QUEUE).                                         *)
Valid(h) == h # Nil /\ ioh[h] # Nil

-----------------------------------------------------------------------------
(***************************************************************************)
(* The sorted list and the alarm: operators on the values of listVars.     *)
(***************************************************************************)

Schedules == [head |-> se_list, sched |-> sched, fq |-> fq, alarm |-> alarm]

Install(l) ==
  se_list' = l.head /\ sched' = l.sched /\ fq' = l.fq /\ alarm' = l.alarm

(* (d + 50) / 100 of callat() and switch_context().                        *)
Round(d) == ((d + Res \div 2) \div Res) * Res

Timed(l, a) == [head |-> l.head, sched |-> l.sched, fq |-> l.fq, alarm |-> a]

(* Mutant: no test for a time that has passed.                             *)
ArmedLate(l, times) ==
  LET at == times[l.sched[l.head].ev] IN
  Timed(l, IF l.head = Nil THEN NoAlarm
           ELSE [cbf |-> TRUE, start |-> now, usr |-> l.head, diff |-> Round(at - now)])

(* callat(at, cbattime, l.head), at being the time of the first event; it  *)
(* disarms for an empty list.                                              *)
Armed(l, times) ==
  LET at == times[l.sched[l.head].ev] IN
  Timed(l, IF l.head = Nil THEN NoAlarm
           ELSE [cbf |-> TRUE, start |-> now, usr |-> l.head,
                 diff |-> IF at < now THEN 0 ELSE Round(at - now)])

After(l, epp) == IF epp = Nil THEN l.head ELSE l.sched[epp].next

(* The entries that the loop of eid_add() walks over: from the head as     *)
(* long as they are earlier.                                               *)
Passed(l, times, at) ==
  LET early(s) == s # Nil /\ times[l.sched[s].ev] < at
      walk(S)  == /\ early(l.head) => l.head \in S
                  /\ \A s \in S : early(l.sched[s].next) => l.sched[s].next \in S
  IN {s \in Sched : \A S \in SUBSET Sched : walk(S) => s \in S}

(* Mutant: it stops after any earlier entry.                               *)
StopsAnywhere(l, times, at, epp) == epp # Nil => epp \in Passed(l, times, at)

(* It stops after epp (Nil: before the first one).                         *)
StopsAfter(l, times, at, epp) ==
  /\ epp # Nil => epp \in Passed(l, times, at)
  /\ After(l, epp) # Nil => times[l.sched[After(l, epp)].ev] >= at

NewEntry(h, e, q) ==
  [sign |-> TRUE, prev |-> Nil, next |-> Nil, owner |-> h, ev |-> e, qi |-> q]

Between(x, prev, next) ==
  [sign |-> x.sign, prev |-> prev, next |-> next,
   owner |-> x.owner, ev |-> x.ev, qi |-> x.qi]

(* The new sched_event s of eid_add() and pushto(), linked after epp.      *)
Linked(l, s, new, epp) ==
  LET elp == After(l, epp) IN
  [head  |-> IF epp = Nil THEN s ELSE l.head,
   sched |-> [x \in Sched |->
                LET y == l.sched[x] IN
                IF x = s THEN Between(new, epp, elp)
                ELSE Between(y, IF x = elp THEN s ELSE y.prev,
                                IF x = epp THEN s ELSE y.next)],
   fq    |-> [l.fq EXCEPT ![new.qi] = Append(@, s)],
   alarm |-> l.alarm]

(* fq.Delete(fq.IndexOf(s)), if it is there.                               *)
Without(f, s) ==
  IF \E i \in DOMAIN f : f[i] = s THEN RemoveAt(f, CHOOSE i \in DOMAIN f : f[i] = s)
                                 ELSE f

(* hlp_blistdel(s, .., &se_list, 0) and fq.Delete() for the queue q.       *)
Cut(l, s, q) ==
  LET x == l.sched[s] IN
  [head  |-> IF x.prev = Nil THEN x.next ELSE l.head,
   sched |-> [y \in Sched |->
                LET z == l.sched[y] IN
                IF y = s THEN Between(x, Nil, Nil)
                ELSE Between(z, IF y = x.next THEN x.prev ELSE z.prev,
                                IF y = x.prev THEN x.next ELSE z.next)],
   fq    |-> [l.fq EXCEPT ![q] = Without(@, s)],
   alarm |-> l.alarm]

Freed(l, s) ==
  [head |-> l.head, sched |-> [l.sched EXCEPT ![s] = Blank], fq |-> l.fq, alarm |-> l.alarm]

(* eid_unlink(s, q) and the deletion of s.                                 *)
Unlinked(l, s, q) ==
  Armed(Freed(Cut(l, s, q), s), evtime)

-----------------------------------------------------------------------------
(***************************************************************************)
(* Handles and queues.                                                     *)
(***************************************************************************)

(* common_alloc() takes the lowest slot of the table that is free: the     *)
(* number of a closed handle comes back.  Files and mutexes have slots     *)
(* there too, which of the numbers is the lowest free one is up to them.   *)
FreeHandle(h) == ioh[h] = Nil

(* qe_create(): a new sys_queue.                                           *)
Create(t, h, q) ==
  /\ Runs(t)
  /\ FreeHandle(h)
  /\ q \notin opened
  /\ opened' = opened \cup {q}
  /\ ioh' = [ioh EXCEPT ![h] = q]
  /\ UNCHANGED <<now, phase, closing, et, listVars, orphans, evVars, call>>

(* qe_open(): one more handle of an open queue.                            *)
Open(t, h, q) ==
  /\ Runs(t)
  /\ FreeHandle(h)
  /\ \E g \in Handle : ioh[g] = q
  /\ ioh' = [ioh EXCEPT ![h] = q]
  /\ UNCHANGED <<now, phase, closing, et, listVars, orphans, evVars, opened, call>>

(* free() of event blocks.                                                 *)
Released(es) ==
  /\ heap'   = heap \ es
  /\ evtime' = [e \in Event |-> IF e \in es THEN 0 ELSE evtime[e]]

(* Mutant: the queue goes with any of its handles.                         *)
AnyHandle(h) == TRUE

LastHandle(h) == \A g \in Handle : ioh[g] = ioh[h] => g = h

(* qe_close(): the handle goes; with the last one the loop over fq begins. *)
Close(t, h) ==
  /\ Runs(t)
  /\ Valid(h)
  /\ ioh'     = [ioh EXCEPT ![h] = Nil]
  /\ orphans' = orphans \cup {s \in Sched : sched[s].owner = h}
  /\ IF LastHandle(h) THEN phase' = "close" /\ closing' = [q |-> ioh[h], ii |-> 0]
                      ELSE UNCHANGED <<phase, closing>>
  /\ UNCHANGED <<now, et, listVars, evVars, opened, call>>

(* One round of the loop: eid_unlink() has shortened fq when ii goes on.   *)
CloseNext ==
  /\ phase = "close"
  /\ closing.ii < Len(fq[closing.q])
  /\ LET s == fq[closing.q][closing.ii + 1]
     IN /\ Install(Unlinked(Schedules, s, closing.q))
        /\ Released({sched[s].ev})
  /\ closing' = [closing EXCEPT !.ii = @ + 1]
  /\ UNCHANGED <<now, phase, et, uq, held, orphans, iohVars, call>>

(* fq.Clear(); the sys_queue itself and its uq are not released.           *)
CloseEnd ==
  /\ phase = "close"
  /\ closing.ii >= Len(fq[closing.q])
  /\ fq' = [fq EXCEPT ![closing.q] = <<>>]
  /\ phase' = "run"
  /\ closing' = [q |-> Nil, ii |-> 0]
  /\ UNCHANGED <<now, et, sched, se_list, alarm, evVars, orphans, iohVars, call>>

(* qe_clear(): scheduled events stay.                                      *)
Clear(t, h) ==
  /\ Runs(t)
  /\ Valid(h)
  /\ uq'   = [uq EXCEPT ![ioh[h]] = <<>>]
  /\ Released(ToSet(uq[ioh[h]]))
  /\ UNCHANGED <<now, phase, closing, et, listVars, held, orphans, iohVars, call>>

-----------------------------------------------------------------------------
(***************************************************************************)
(* Events.                                                                 *)
(***************************************************************************)

(* pushto(h, q, .., at) with a new block e, on the schedules l.            *)
PushTo(l, h, q, e, at) ==
  /\ e \notin heap
  /\ heap'   = heap \cup {e}
  /\ evtime' = [evtime EXCEPT ![e] = IF at = 0 THEN now ELSE at]
  /\ IF now < at
       THEN /\ UNCHANGED uq
            /\ \E s \in Sched, epp \in Sched \cup {Nil} :
                 /\ ~sched[s].sign
                 /\ StopsAfter(l, evtime', at, epp)
                 /\ Install(Armed(Linked(l, s, NewEntry(h, e, q), epp), evtime'))
                 /\ orphans' = orphans \ {s}
       ELSE uq' = [uq EXCEPT ![q] = Append(@, e)] /\ Install(l) /\ UNCHANGED orphans

(* qe_postevent() and qe_sendevent().                                      *)
Post(t, h, e) ==
  /\ Runs(t)
  /\ Valid(h)
  /\ PushTo(Schedules, h, ioh[h], e, 0)
  /\ UNCHANGED <<now, phase, closing, et, held, iohVars, call>>

(* qe_schedule().                                                          *)
Schedule(t, h, e, at) ==
  /\ Runs(t)
  /\ Valid(h)
  /\ PushTo(Schedules, h, ioh[h], e, at)
  /\ UNCHANGED <<now, phase, closing, et, held, iohVars, call>>

(* The entries in the list.                                                *)
Scheduled == {s \in Sched : s = se_list \/ sched[s].prev # Nil}

(* Ids a program may pass to qe_reschedule() and qe_unschedule(): the      *)
(* blocks that were returned to it and not deleted by one of these calls.  *)
EventId ==
  {s \in Sched : /\ sched[s].sign
                 /\ s \in Scheduled \/ StaleIds
                 /\ s \notin orphans \/ ClosedIds}

(* qe_reschedule(): the event goes to the new place in a new block; the    *)
(* old block is not released.                                              *)
Reschedule(t, s, e, at) ==
  /\ Runs(t)
  /\ s \in EventId
  /\ Valid(sched[s].owner)
  /\ LET q == ioh[sched[s].owner]
     IN PushTo(Unlinked(Schedules, s, q), sched[s].owner, q, e, at)
  /\ UNCHANGED <<now, phase, closing, et, held, iohVars, call>>

(* qe_unschedule(): the event is returned.                                 *)
Unschedule(t, s) ==
  /\ Runs(t)
  /\ s \in EventId
  /\ Valid(sched[s].owner)
  /\ Install(Unlinked(Schedules, s, ioh[sched[s].owner]))
  /\ held' = [held EXCEPT ![t] = @ \cup {sched[s].ev}]
  /\ UNCHANGED <<now, phase, closing, et, uq, heap, evtime, orphans, iohVars, call>>

(* Mutant: the event stays in the queue.                                   *)
GetIndexPeek(t, h, i) ==
  held' = [held EXCEPT ![t] = @ \cup {uq[ioh[h]][i]}] /\ UNCHANGED uq

(* get_index(h, i) for a valid h: "a taken event leaves the queue".        *)
GetIndex(t, h, i) ==
  /\ uq'   = [uq EXCEPT ![ioh[h]] = RemoveAt(@, i)]
  /\ held' = [held EXCEPT ![t] = @ \cup {uq[ioh[h]][i]}]

(* qe_takeevent().                                                         *)
Take(t, h, i) ==
  /\ Runs(t)
  /\ Valid(h)
  /\ i \in DOMAIN uq[ioh[h]]
  /\ GetIndex(t, h, i)
  /\ UNCHANGED <<now, phase, closing, et, listVars, heap, evtime, orphans, iohVars, call>>

(* The program releases an event it was given.                             *)
FreeEvent(t, e) ==
  /\ Runs(t)
  /\ e \in held[t]
  /\ held' = [held EXCEPT ![t] = @ \ {e}]
  /\ Released({e})
  /\ UNCHANGED <<now, phase, closing, et, listVars, uq, orphans, iohVars, call>>

-----------------------------------------------------------------------------
(***************************************************************************)
(* qe_waitevent().                                                         *)
(***************************************************************************)

(* The first get_index(): an event that is there is returned at once.      *)
WaitEvent(t, h, limit) ==
  /\ Runs(t)
  /\ Valid(h)
  /\ IF uq[ioh[h]] # <<>>
       THEN GetIndex(t, h, 1) /\ UNCHANGED call
       ELSE /\ call' = [call EXCEPT ![t] = [pc |-> "ask", h |-> h, limited |-> limit]]
            /\ UNCHANGED <<uq, held>>
  /\ UNCHANGED <<now, phase, closing, et, listVars, heap, evtime, orphans, iohVars>>

(* Mutant: one event is not enough.                                        *)
OutcomeTwo(c) ==
  IF ~Valid(c.h) THEN {NoCall}
  ELSE IF Len(uq[ioh[c.h]]) > 1 THEN {[c EXCEPT !.pc = "got"]}
  ELSE {[c EXCEPT !.pc = "wait"], [c EXCEPT !.pc = "ask"]}
       \cup (IF c.limited THEN {NoCall} ELSE {})

(* What w_check_conditions() makes of the wait {QUEUE,1},{SIGNAL,2},       *)
(* {CLOCK,0}: "got" is signaled = 1; a signal makes the thread wait again; *)
(* a lost handle and the clock end the call.                               *)
Outcome(c) ==
  IF ~Valid(c.h) THEN {NoCall}
  ELSE IF uq[ioh[c.h]] # <<>> THEN {[c EXCEPT !.pc = "got"]}
  ELSE {[c EXCEPT !.pc = "wait"], [c EXCEPT !.pc = "ask"]}
       \cup (IF c.limited THEN {NoCall} ELSE {})

Waiting == {t \in Thread : call[t].pc = "wait"}

(* The walk over the entries of the threads in ts.                         *)
CheckWaits(ts) ==
  \E f \in [ts -> UNION {Outcome(call[t]) : t \in ts}] :
    /\ \A t \in ts : f[t] \in Outcome(call[t])
    /\ call' = [t \in Thread |-> IF t \in ts THEN f[t] ELSE call[t]]

(* waitobject(): the walk sees everybody's entry.                          *)
Ask(t) ==
  /\ phase = "run"
  /\ call[t].pc = "ask"
  /\ CheckWaits(Waiting \cup {t})
  /\ UNCHANGED <<now, phase, closing, et, listVars, evVars, orphans, iohVars>>

(* The second get_index(): another thread may have been faster.            *)
Got(t) ==
  /\ phase = "run"
  /\ call[t].pc = "got"
  /\ IF Valid(call[t].h) /\ uq[ioh[call[t].h]] # <<>>
       THEN GetIndex(t, call[t].h, 1)
       ELSE UNCHANGED <<uq, held>>
  /\ call' = [call EXCEPT ![t] = NoCall]
  /\ UNCHANGED <<now, phase, closing, et, listVars, heap, evtime, orphans, iohVars>>

-----------------------------------------------------------------------------
(***************************************************************************)
(* switch_context().                                                       *)
(***************************************************************************)

Tick ==
  /\ phase = "run"
  /\ now < MaxTime
  /\ now' = now + 1
  /\ UNCHANGED <<phase, closing, et, listVars, evVars, orphans, iohVars, call>>

(* A timer interrupt, a yield or a wait enters it.                         *)
Switch ==
  /\ phase = "run"
  /\ phase' = "switch"
  /\ UNCHANGED <<now, closing, et, listVars, evVars, orphans, iohVars, call>>

(* The test of the callback loop.  The TSC has a better resolution than    *)
(* "now": in the unit in which the difference is reached both answers are  *)
(* possible.                                                               *)
MayFire  == alarm.cbf /\ (alarm.diff = 0 \/ now - alarm.start >= alarm.diff)
MustFire == alarm.cbf /\ (alarm.diff = 0 \/ now - alarm.start > alarm.diff)

(* Mutant: the user data is not updated.                                   *)
RearmedOld(l, first) ==
  Timed(l, IF l.head = Nil THEN NoAlarm
           ELSE [cbf |-> TRUE, start |-> alarm.start + alarm.diff, usr |-> alarm.usr,
                 diff |-> Round(evtime[l.sched[l.head].ev] - first)])

(* "next" of cbattime() as the caller uses it.                             *)
Rearmed(l, first) ==
  Timed(l, IF l.head = Nil THEN NoAlarm
           ELSE [cbf |-> TRUE, start |-> alarm.start + alarm.diff, usr |-> l.head,
                 diff |-> Round(evtime[l.sched[l.head].ev] - first)])

(* Mutant: the whole list is posted.                                       *)
AnyInBatch(time, first) == TRUE

InBatch(time, first) == time - first =< Res

(* One round of the do loop of cbattime(), or its refusal to work on       *)
(* another list than it was armed with.  The sched_event block is not      *)
(* released, and keeps its signature.                                      *)
Deliver ==
  /\ phase = "switch"
  /\ et # NoTime \/ MayFire
  /\ IF et = NoTime /\ alarm.usr # se_list
       THEN alarm' = NoAlarm /\ UNCHANGED <<et, uq, sched, se_list, fq>>
       ELSE LET s     == se_list
                first == IF et = NoTime THEN evtime[sched[s].ev] ELSE et
                l     == Cut(Schedules, s, sched[s].qi)
                more  == l.head # Nil /\ InBatch(evtime[l.sched[l.head].ev], first)
            IN /\ uq' = [uq EXCEPT ![sched[s].qi] = Append(@, sched[s].ev)]
               /\ et' = IF more THEN first ELSE NoTime
               /\ Install(IF more THEN l ELSE Rearmed(l, first))
  /\ UNCHANGED <<now, phase, closing, heap, evtime, held, orphans, iohVars, call>>

(* The callback loop is over: w_check_conditions(0,0,0).                   *)
EndSwitch ==
  /\ phase = "switch"
  /\ et = NoTime
  /\ ~MustFire
  /\ CheckWaits(Waiting)
  /\ phase' = "run"
  /\ UNCHANGED <<now, closing, et, listVars, evVars, orphans, iohVars>>

-----------------------------------------------------------------------------
Program(t) ==
  \/ \E h \in Handle :
       \/ \E q \in Queue : Create(t, h, q) \/ Open(t, h, q)
       \/ Close(t, h)
       \/ Clear(t, h)
       \/ \E e \in Event : Post(t, h, e) \/ \E at \in When : Schedule(t, h, e, at)
       \/ \E i \in 1..Cardinality(Event) : Take(t, h, i)
       \/ \E b \in BOOLEAN : WaitEvent(t, h, b)
  \/ \E s \in Sched : \/ Unschedule(t, s)
                      \/ \E e \in Event : \E at \in When : Reschedule(t, s, e, at)
  \/ \E e \in Event : FreeEvent(t, e)

Kernel == Switch \/ Deliver \/ EndSwitch

Next ==
  \/ Tick
  \/ Kernel
  \/ CloseNext
  \/ CloseEnd
  \/ \E t \in Thread : Program(t) \/ Ask(t) \/ Got(t)

Spec == Init /\ [][Next]_vars

(***************************************************************************)
(* Fairness: the clock goes on; the timer enters switch_context() again    *)
(* and again and gets through it; a thread inside qe_waitevent() that can  *)
(* run does so (see MtSched).                                              *)
(***************************************************************************)
Fairness ==
  /\ SF_vars(Tick)
  /\ SF_vars(Switch)
  /\ WF_vars(Deliver \/ EndSwitch \/ CloseNext \/ CloseEnd)
  /\ \A t \in Thread : SF_vars(Ask(t)) /\ SF_vars(Got(t))

FairSpec == Spec /\ Fairness

-----------------------------------------------------------------------------
(***************************************************************************)
(* Properties.                                                             *)
(***************************************************************************)

TypeOK ==
  /\ now \in 0..MaxTime
  /\ phase \in {"run", "switch", "close"}
  /\ closing \in [q : Queue \cup {Nil}, ii : Nat]
  /\ et \in Nat \cup {NoTime}
  /\ ioh \in [Handle -> Queue \cup {Nil}]
  /\ opened \subseteq Queue
  /\ uq \in [Queue -> Seq(Event)]
  /\ fq \in [Queue -> Seq(Sched)]
  /\ sched \in [Sched -> Entry]
  /\ orphans \subseteq Sched
  /\ se_list \in Sched \cup {Nil}
  /\ alarm \in [cbf : BOOLEAN, start : Nat, diff : Nat, usr : Sched \cup {Nil}]
  /\ heap \subseteq Event
  /\ evtime \in [Event -> Nat]
  /\ held \in [Thread -> SUBSET Event]
  /\ call \in [Thread -> [pc : {"run", "ask", "wait", "got"}, h : Handle \cup {Nil},
                          limited : BOOLEAN]]

(* The list from se_list along the "next" links.                           *)
Link[n \in 0..Cardinality(Sched)] ==
  IF n = 0 THEN se_list
  ELSE LET s == Link[n - 1] IN IF s = Nil THEN Nil ELSE sched[s].next

Chain ==
  [n \in {m \in 1..Cardinality(Sched) : Link[m - 1] # Nil} |-> Link[n - 1]]

(***************************************************************************)
(* The list from se_list is sorted and properly linked both ways, and the  *)
(* fq arrays of the open queues hold exactly its entries: eid_add(),       *)
(* eid_unlink() and cbattime() keep the two structures together whatever   *)
(* order they are called in.                                               *)
(***************************************************************************)
ListSound ==
  LET c == Chain IN
  /\ \A i \in DOMAIN c :
       /\ sched[c[i]].sign
       /\ sched[c[i]].prev = IF i = 1 THEN Nil ELSE c[i - 1]
       /\ i + 1 \in DOMAIN c => evtime[sched[c[i]].ev] =< evtime[sched[c[i + 1]].ev]
  /\ \A h \in Handle : Valid(h) =>
       /\ ToSet(fq[ioh[h]]) = {s \in ToSet(c) : sched[s].qi = ioh[h]}
       /\ \A i, j \in DOMAIN fq[ioh[h]] : fq[ioh[h]][i] = fq[ioh[h]][j] => i = j

(***************************************************************************)
(* Outside of cbattime() the alarm is set if and only if something is   *)
(* scheduled, and for the entry that comes first: the "head mismatch" of   *)
(* cbattime(), which disarms it for good, does not occur, and no schedule  *)
(* is left without an alarm.                                               *)
(***************************************************************************)
AlarmFollowsList ==
  et = NoTime => /\ alarm.cbf <=> se_list # Nil
                 /\ alarm.cbf => alarm.usr = se_list

(***************************************************************************)
(* What is behind them, link by link: a block is either unused or complete;*)
(* "next" and "prev" belong together and lead to used blocks, forward to   *)
(* later times; fq names scheduled entries of its own queue; the owner     *)
(* handle of an entry leads to that queue as long as it is open.           *)
(***************************************************************************)
LinkInv ==
  /\ se_list # Nil => sched[se_list].sign /\ sched[se_list].prev = Nil
  /\ \A s \in Sched :
       LET x == sched[s] IN
       /\ x.sign => x.ev \in Event /\ x.qi \in Queue /\ x.owner \in Handle
       /\ ~x.sign => x = Blank
       /\ x.next # Nil => /\ sched[x.next].sign
                          /\ sched[x.next].prev = s
                          /\ evtime[x.ev] =< evtime[sched[x.next].ev]
                          /\ s \in Scheduled
       /\ x.prev # Nil => sched[x.prev].sign /\ sched[x.prev].next = s

LoopInv ==
  /\ et # NoTime => /\ phase = "switch"
                    /\ se_list # Nil
                    /\ alarm.cbf
                    /\ et =< evtime[sched[se_list].ev]
  /\ phase = "close" => closing.q \in Queue

OwnerInv ==
  /\ \A s \in Sched :
       sched[s].sign => s \in orphans \/ ioh[sched[s].owner] = sched[s].qi
  /\ \A q \in Queue : \A i \in DOMAIN fq[q] :
       /\ fq[q][i] \in Scheduled
       /\ sched[fq[q][i]].qi = q
       /\ \A j \in DOMAIN fq[q] : fq[q][i] = fq[q][j] => i = j

(***************************************************************************)
(* An event block is in one place at a time - one schedule, one queue or   *)
(* one thread that has to free it - and it is allocated there: nothing is  *)
(* freed twice and nobody is given an event that is still in a queue.      *)
(***************************************************************************)
Queued(e) == \E q \in Queue : \E i \in DOMAIN uq[q] : uq[q][i] = e
Held(e)   == \E t \in Thread : e \in held[t]

OnePlace ==
  /\ \A s \in Scheduled :
       /\ sched[s].ev \in heap
       /\ ~Queued(sched[s].ev) /\ ~Held(sched[s].ev)
       /\ \A r \in Scheduled : sched[r].ev = sched[s].ev => r = s
  /\ \A q, r \in Queue : \A i \in DOMAIN uq[q], j \in DOMAIN uq[r] :
       /\ uq[q][i] \in heap
       /\ ~Held(uq[q][i])
       /\ uq[q][i] = uq[r][j] => q = r /\ i = j
  /\ \A t, u \in Thread : t # u => held[t] \cap held[u] = {}
  /\ \A t \in Thread : held[t] \subseteq heap

(* The inductive invariant of all these.                                   *)
QInv == TypeOK /\ LinkInv /\ LoopInv /\ AlarmFollowsList /\ OwnerInv /\ OnePlace

(***************************************************************************)
(* cbattime() "posts all events with 100 mks resolution": an event is not  *)
(* posted earlier than that, plus the half that callat() rounds.           *)
(***************************************************************************)
PostedInTime ==
  [][\A s \in Sched :
       se_list = s /\ phase = "switch" /\ se_list' # s =>
         evtime[sched[s].ev] =< now + Res + Res \div 2]_vars

(* After the last qe_close() "all scheduled entries" are gone.             *)
CloseFreesSchedule ==
  phase = "run" => \A s \in Scheduled : \E h \in Handle : ioh[h] = sched[s].qi

(***************************************************************************)
(* The id of a scheduled event is good as long as the handle that it was   *)
(* scheduled with is open, and whenever qe_unschedule() and                *)
(* qe_reschedule() get to eid_unlink() the entry is in the queue that the  *)
(* owner handle leads to ("qe_eid not found in queue!"), although numbers  *)
(* of closed handles are given to other queues.                            *)
(***************************************************************************)
UnlinkFindsEntry ==
  \A s \in Scheduled \cap EventId :
    LET q == ioh[sched[s].owner] IN
    /\ s \notin orphans => q # Nil
    /\ q # Nil => \E i \in DOMAIN fq[q] : fq[q][i] = s

(***************************************************************************)
(* What is scheduled does not stay scheduled: it is delivered, or somebody *)
(* takes it out.                                                           *)
(***************************************************************************)
Delivered == \A s \in Sched : s \in Scheduled ~> s \notin Scheduled

(***************************************************************************)
(* A thread that waits for an event wakes up when there is one, unless     *)
(* another thread takes it first.                                          *)
(***************************************************************************)
WaiterWakes ==
  \A t \in Thread :
    (call[t].pc = "wait" /\ Valid(call[t].h) /\ uq[ioh[call[t].h]] # <<>>)
      ~> (\/ call[t].pc # "wait"
          \/ ~Valid(call[t].h)
          \/ uq[ioh[call[t].h]] = <<>>)

(***************************************************************************)
(* The list, the alarm and the arrays implement the queues that qstask.h   *)
(* promises: what is ready or pending there is what uq holds and what the  *)
(* list links for the queues that still have a handle.  cbattime() works   *)
(* with 100 mks, and every alarm that follows another one adds half of it. *)
(***************************************************************************)
OpenQueues == {q \in Queue : \E h \in Handle : ioh[h] = q}

Ready == [q \in Queue |-> IF q \in OpenQueues THEN uq[q] ELSE <<>>]

Planned(s) == [event |-> sched[s].ev, queue |-> sched[s].qi, time |-> evtime[sched[s].ev]]

Pending == {Planned(s) : s \in {x \in Scheduled : sched[x].qi \in OpenQueues}}

Promise == INSTANCE EventQueue WITH
  Times <- When,
  Early <- Res + (Res \div 2) * Cardinality(Sched),
  clock <- now, open <- OpenQueues, ready <- Ready, pending <- Pending

ImplementsEventQueue == Promise!QSpec
=============================================================================

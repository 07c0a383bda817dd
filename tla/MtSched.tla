------------------------------ MODULE MtSched ------------------------------
(***************************************************************************)
(* The scheduler of the QSINIT multi-tasking library (ldrapps/mtlib):      *)
(* switch_context() in sched.c, the timer interrupt and mt_yield() in      *)
(* tmproc.c and timer.asm, the MT lock in init/misc/util.asm.              *)
(*                                                                         *)
(* Threads are numbered in the order the search of switch_context() meets  *)
(* them.  Time is counted in scheduler tics (rdtsc >> tsc_shift, about one *)
(* millisecond); only the order of the tiLastTime stamps matters, so "age" *)
(* holds their ranks.  Why a thread waits is the subject of MtWait: here   *)
(* every wait check may wake any set of waiting threads.                   *)
(***************************************************************************)
EXTENDS Integers, FiniteSets

CONSTANTS
  N,            \* thread slots
  Tick,         \* tick_ms in tics: the time slice
  MaxDepth,     \* nesting of mt_swlock() in the code of one thread
  MaxBorn,      \* bound: threads created in a behaviour
  Apic,         \* TmAPIC (a periodic interrupt) or TmIrq0 (mt_yield() only)
  EarlyWake,    \* may a wait come true between its check and its switch?
  YieldLocked,  \* may a program call mt_yield() under the MT lock?
  Efi           \* does the host run 64-bit code (call64)?

ASSUME NAssumption        == N \in Nat \ {0}
ASSUME TickAssumption     == Tick \in Nat \ {0}
ASSUME MaxDepthAssumption == MaxDepth \in Nat \ {0}
ASSUME MaxBornAssumption  == MaxBorn \in Nat
ASSUME ModeAssumption     == {Apic, EarlyWake, YieldLocked, Efi} \subseteq BOOLEAN

Thread  == 1..N
Idle    == 0             \* pt_sysidle
Never   == Tick + 1      \* next_rdtsc = FFFF64
Late    == 2 * Tick + 1  \* more than two ticks: the thread is an "eater"
MaxLock == MaxDepth + 1  \* bound: values of mtcb_glock

VARIABLES
  cur,      \* pt_current
  state,    \* tiState of every slot, "none" for a free one
  ending,   \* threads mt_termthread() has put on an exit fiber
  fresh,    \* threads with tiLastTime = 0
  age,      \* rank of now - tiLastTime, 0 is "this tic"
  tlp,      \* threads with TFLM_TLP
  glock,    \* mtcb_glock, the MT lock counter
  depth,    \* locks the code of a thread has taken and not given back
  ran,      \* tics since last_shed_tsc, up to Late
  left,     \* tics until next_rdtsc, 0: mt_yield() is due
  irq,      \* tics until the next APIC timer interrupt
  in64,     \* the CPU executes 64-bit host code
  born      \* threads created so far (bound)

vars == <<cur, state, ending, fresh, age, tlp, glock, depth, ran, left, irq, in64, born>>
locks == <<glock, depth>>
clock == <<left, irq>>

(***************************************************************************)
(* After mt_initialize() the current process owns the CPU and its parents  *)
(* wait for it (THWR_CHILDEXEC); no thread has been scheduled yet.         *)
(***************************************************************************)
Init ==
  /\ cur = 1
  /\ state \in [Thread -> {"run", "wait", "none"}]
  /\ \A t \in Thread : state[t] = "run" <=> t = 1
  /\ ending = {}
  /\ fresh = {t \in Thread : state[t] # "none"}
  /\ age = [t \in Thread |-> 0]
  /\ tlp = {}
  /\ glock = 0
  /\ depth = [t \in Thread |-> 0]
  /\ ran = 0
  /\ left = Tick
  /\ irq = Tick
  /\ in64 = FALSE
  /\ born = 0
-----------------------------------------------------------------------------
(***************************************************************************)
(* switch_context().  The thread that leaves gets the stamp of this tic,   *)
(* the wait check wakes the threads of W, then the search runs over the    *)
(* threads of "st".                                                        *)
(***************************************************************************)
Waiting == {t \in Thread : state[t] = "wait"}

Woken(st, W) == [t \in Thread |-> IF t \in W THEN "run" ELSE st[t]]

Runs(st) == {t \in Thread : st[t] = "run"}

(* Ranks of the stamps of the threads of S that have one; 0 stays 0.       *)
Ranks(a, S) ==
  [t \in Thread |->
     IF t \in S THEN Cardinality({a[u] : u \in S} \cap 1..a[t]) ELSE 0]

Stamped == [t \in Thread |-> IF t = cur THEN 0 ELSE age[t]]

(* New threads that are ready: the first of them ends the search.          *)
New(st) == Runs(st) \cap (fresh \ {cur})

Scanned(st) == {t \in Runs(st) : \A u \in New(st) : t < u}

(* Threads that did not run in this tic, without and with TFLM_TLP.        *)
Prompt(st) == {t \in Scanned(st) : Stamped[t] > 0 /\ t \notin tlp}
Eaters(st) == {t \in Scanned(st) : Stamped[t] > 0 /\ t \in tlp}

(* Mutant: the comparison of the stamps the other way round.               *)
Youngest(S) ==
  {t \in S : \A u \in S : Stamped[t] < Stamped[u] \/ (Stamped[u] = Stamped[t] /\ t <= u)}

(* The one whose stamp is the oldest, the first of equals.                 *)
Eldest(S) ==
  {t \in S : \A u \in S : Stamped[u] < Stamped[t] \/ (Stamped[u] = Stamped[t] /\ t <= u)}

FirstOf(S) == {t \in S : \A u \in S : t <= u}
LastOf(S)  == {t \in S : \A u \in S : u <= t}

(* The thread the search ends with (a set of one element).                 *)
Found(st) ==
  IF New(st) # {} THEN FirstOf(New(st))
  ELSE IF Prompt(st) # {} THEN Eldest(Prompt(st))
  ELSE IF Eaters(st) # {} THEN Eldest(Eaters(st))
  ELSE LastOf(Scanned(st))

(* Mutant: no pt_sysidle.                                                  *)
FoundOrNull(st) == IF Runs(st) = {} THEN {-1} ELSE Found(st)

Choice(st) == IF Runs(st) = {} THEN {Idle} ELSE Found(st)

(* A thread that held the CPU for more than two ticks is marked, the marks *)
(* the search has passed over are used up.                                 *)
MarkedEater == IF ran = Late /\ cur # Idle THEN {cur} ELSE {}

Live(st) == {t \in Thread : st[t] # "none"}

(* What every switch leaves behind, "dying" are the threads on exit fibers. *)
Stamp(st, dying) ==
  /\ state' = st
  /\ fresh' = fresh \ {cur}
  /\ age' = Ranks(Stamped, Live(st) \ (fresh' \cup {cur'}))
  /\ ending' = dying \cap Live(st)
  /\ ran' = 0
  /\ UNCHANGED <<in64, born>>

(* switch_context(0, ...): search for a thread.                            *)
SwitchAny(st) ==
  /\ cur' \in Choice(st)
  /\ tlp' = ((tlp \ Eaters(st)) \cup MarkedEater) \cap Live(st)
  /\ Stamp(st, ending)

(* switch_context(thread, ...): the caller names the thread.               *)
SwitchTo(t, st, dying) ==
  /\ cur' = t
  /\ tlp' = tlp \cap Live(st)
  /\ Stamp(st, dying)

(* swapregs32() resets the MT lock, but it is called only for another      *)
(* thread; the code that was switched out counts on the reset.             *)
ManualSwap ==
  /\ glock' = IF cur' = cur THEN glock ELSE 0
  /\ depth' = [depth EXCEPT ![cur] = 0]
  /\ UNCHANGED clock
-----------------------------------------------------------------------------
(***************************************************************************)
(* Time, the timer interrupt and mt_yield().                               *)
(***************************************************************************)

(* One tic passes; on a host with an APIC its interrupt does not wait.     *)
Clock ==
  /\ Apic => irq > 0
  /\ irq' = IF Apic THEN irq - 1 ELSE irq
  /\ left' = IF left \in 1..Tick THEN left - 1 ELSE left
  /\ ran' = IF ran = Late THEN Late ELSE ran + 1
  /\ age' = Ranks([t \in Thread |-> age[t] + 1],
                  Live(state) \ (fresh \cup {cur}))
  /\ UNCHANGED <<cur, state, ending, fresh, tlp, locks, in64, born>>

(* Mutant: the counter is compared with the wrong value.                   *)
WrongModeNested == glock > 1 \/ in64

(* timer32cb() and timer64cb(): the lock and 64-bit code are the wrong     *)
(* mode for a switch.                                                      *)
WrongMode == glock > 0 \/ in64

(* switch_context_timer() and the next_rdtsc that follows it.              *)
TimedSwitch ==
  /\ \E W \in SUBSET Waiting : SwitchAny(Woken(state, W))
  /\ left' = Tick

(* The APIC timer interrupt.                                               *)
Timer ==
  /\ Apic
  /\ irq = 0
  /\ irq' = Tick
  /\ IF WrongMode
     THEN UNCHANGED <<cur, state, ending, fresh, age, tlp, ran, left, in64, born>>
     ELSE TimedSwitch
  /\ UNCHANGED locks

(* yield() of timer.asm, when its time has come: it turns itself off and   *)
(* calls timer32(), which turns it on again unless the mode is wrong.      *)
YieldOff ==
  /\ left' = Never
  /\ UNCHANGED <<cur, state, ending, fresh, age, tlp, ran, in64, born>>

YieldCall ==
  /\ left = 0
  /\ IF WrongMode THEN YieldOff ELSE TimedSwitch
  /\ UNCHANGED <<locks, irq>>

Yield ==
  /\ cur # Idle
  /\ ~in64
  /\ glock > 0 => YieldLocked
  /\ YieldCall

(* sleeper(): without an APIC the idle thread yields after any interrupt.  *)
IdleYield ==
  /\ ~Apic
  /\ cur = Idle
  /\ YieldCall
-----------------------------------------------------------------------------
(***************************************************************************)
(* What threads do.  A library call is a step made under the lock the call *)
(* has taken with Lock and gives back with Unlock.                         *)
(***************************************************************************)
Executing == cur # Idle /\ ~in64
InCall    == Executing /\ depth[cur] > 0 /\ cur \notin ending

(* A call that gives the CPU away holds no lock of its caller: the switch  *)
(* would drop it, too.                                                     *)
InLastCall == InCall /\ depth[cur] = 1

Lock ==
  /\ Executing
  /\ depth[cur] < MaxDepth
  /\ glock < MaxLock
  /\ glock' = glock + 1
  /\ depth' = [depth EXCEPT ![cur] = @ + 1]
  /\ UNCHANGED <<cur, state, ending, fresh, age, tlp, ran, clock, in64, born>>

(* Mutant: mt_swunlock() only counts.                                      *)
YieldsNever(newlock) == FALSE

(* mt_swunlock(): a call of yield() when the counter comes to zero.        *)
YieldsAt(newlock) == newlock = 0 /\ left = 0

Unlock ==
  /\ Executing
  /\ depth[cur] > 0
  /\ glock > 0
  /\ glock' = glock - 1
  /\ depth' = [depth EXCEPT ![cur] = @ - 1]
  /\ IF YieldsAt(glock - 1)
     THEN TimedSwitch /\ UNCHANGED irq
     ELSE UNCHANGED <<cur, state, ending, fresh, age, tlp, ran, clock, in64, born>>

(* Threads the wait check of a switch may wake; the one that begins its    *)
(* wait is among them when its clock or an attime callback comes between.  *)
Wakeable == Waiting \cup (IF EarlyWake THEN {cur} ELSE {})

(* mt_waitobject(), once its own check has failed.                         *)
Wait ==
  /\ InLastCall
  /\ \E W \in SUBSET Wakeable :
       SwitchAny(Woken([state EXCEPT ![cur] = "wait"], W))
  /\ ManualSwap

(* mt_suspendthread() of the caller.                                       *)
SuspendSelf ==
  /\ InLastCall
  /\ \E W \in SUBSET Waiting :
       SwitchAny(Woken([state EXCEPT ![cur] = "susp"], W))
  /\ ManualSwap

(* mt_suspendthread() of another thread, mt_resumethread().                *)
SetState(t, from, to) ==
  /\ InCall
  /\ t # cur
  /\ state[t] = from
  /\ state' = [state EXCEPT ![t] = to]
  /\ UNCHANGED <<cur, ending, fresh, age, tlp, locks, ran, clock, in64, born>>

Suspend(t) == SetState(t, "run", "susp")
Resume(t)  == SetState(t, "susp", "run")

(* mt_createthread(); mt_new() creates the suspended first thread of a     *)
(* process.                                                                *)
Create(t, st) ==
  /\ InCall
  /\ born < MaxBorn
  /\ state[t] = "none"
  /\ born' = born + 1
  /\ state' = [state EXCEPT ![t] = st]
  /\ fresh' = fresh \cup {t}
  /\ UNCHANGED <<cur, ending, age, tlp, locks, ran, clock, in64>>

(* mt_exec(): run the new process, wait for its end.  mod_execcall() has   *)
(* given the lock back by then, and mt_exec() does not take it.            *)
Exec(t) ==
  /\ Executing
  /\ depth[cur] = 0
  /\ cur \notin ending
  /\ state[t] = "susp"
  /\ t \in fresh
  /\ \E W \in SUBSET Waiting :
       SwitchTo(t, Woken([state EXCEPT ![cur] = "wait", ![t] = "run"], W), ending)
  /\ ManualSwap

(* mt_termthread(): force thread t to an exit fiber and switch to it; in   *)
(* its own process the caller waits for the end, else it stays runnable.   *)
Terminate(t, st) ==
  /\ InLastCall
  /\ t # cur
  /\ state[t] # "none"
  /\ \E W \in SUBSET (Waiting \ {t}) :
       SwitchTo(t, Woken([state EXCEPT ![cur] = st, ![t] = "run"], W), ending \cup {t})
  /\ ManualSwap

(* mt_exitthread_int(): the thread is gone; the end of a process goes to   *)
(* the thread of the parent that waits for it.                             *)
Exit ==
  /\ Executing
  /\ depth[cur] > 0
  /\ \E W \in SUBSET Waiting :
       LET st == Woken([state EXCEPT ![cur] = "none"], W)
       IN  \/ SwitchAny(st)
           \/ \E t \in W : SwitchTo(t, st, ending)
  /\ ManualSwap

(* call64(): a call of the EFI host; timer64cb() does not switch in it.    *)
Enter64 ==
  /\ Efi
  /\ Executing
  /\ in64' = TRUE
  /\ UNCHANGED <<cur, state, ending, fresh, age, tlp, locks, ran, clock, born>>

Leave64 ==
  /\ in64
  /\ in64' = FALSE
  /\ UNCHANGED <<cur, state, ending, fresh, age, tlp, locks, ran, clock, born>>

Program ==
  \/ Yield \/ Lock \/ Unlock \/ Wait \/ SuspendSelf \/ Exit
  \/ \E t \in Thread :
       \/ Suspend(t) \/ Resume(t) \/ Exec(t)
       \/ \E st \in {"run", "susp"} : Create(t, st)
       \/ \E st \in {"run", "wait"} : Terminate(t, st)
  \/ Enter64 \/ Leave64

Next == Clock \/ Timer \/ IdleYield \/ Program

Spec == Init /\ [][Next]_vars

(***************************************************************************)
(* Fairness: time passes and an interrupt is not held back for ever (with  *)
(* an APIC neither Clock nor Timer goes on without the other), a thread    *)
(* gives the lock back and returns from a host call, the idle thread goes  *)
(* on after its hlt.  Without an APIC preemption is up to the programs:    *)
(* one that runs for ever comes to mt_yield() again (a key wait, a         *)
(* real-mode call) or to the end of a lock.                                *)
(***************************************************************************)
Fairness ==
  /\ WF_vars(Clock \/ Timer)
  /\ WF_vars(Unlock) /\ WF_vars(Leave64)
  /\ ~Apic => WF_vars(Yield) /\ WF_vars(IdleYield)

FairSpec == Spec /\ Fairness
-----------------------------------------------------------------------------
(***************************************************************************)
(* Properties.                                                             *)
(***************************************************************************)

(* Every variable of the scheduler keeps its type.                         *)
TypeOK ==
  /\ cur \in Thread \cup {Idle}
  /\ state \in [Thread -> {"none", "run", "wait", "susp"}]
  /\ ending \subseteq Thread
  /\ fresh \subseteq Thread
  /\ age \in [Thread -> 0..N]
  /\ tlp \subseteq Thread
  /\ glock \in 0..MaxLock
  /\ depth \in [Thread -> 0..MaxDepth]
  /\ ran \in 0..Late
  /\ left \in 0..Never
  /\ irq \in 0..Tick
  /\ in64 \in BOOLEAN
  /\ born \in 0..MaxBorn

(* The lock counter is exactly what the code of the current thread thinks  *)
(* it is, nobody else holds a lock and pt_current is able to run           *)
(* (switch_context() resets the counter when it gives the CPU away).       *)
LockExact ==
  /\ glock = IF cur = Idle THEN 0 ELSE depth[cur]
  /\ \A t \in Thread : t # cur => depth[t] = 0
  /\ cur # Idle => state[cur] = "run"

(* Outside of the lock no thread runs longer than two ticks: a tick lost   *)
(* to the lock is made good by the yield() of mt_swunlock().               *)
SliceBound == Apic /\ glock = 0 => ran < Late

(* Why: until the yield is due a thread has run for less than the slice,   *)
(* and outside of the lock the interrupt comes before two ticks are over.  *)
SliceInv ==
  /\ ran \in Nat /\ glock \in Nat /\ ~in64
  /\ left \in 0..Tick
  /\ irq \in 0..Tick
  /\ left > 0 => ran + left <= Tick
  /\ glock = 0 => ran + irq <= 2 * Tick

(* A thread that stays ready to run gets the CPU (switch_context() takes   *)
(* the one that has waited for the longest time, new threads first).       *)
NoStarvation == \A t \in Thread : state[t] = "run" ~> (cur = t \/ state[t] # "run")

(* A return from 64-bit host code is a switch point: an overdue yield does *)
(* not stay overdue.                                                       *)
YieldAfterCall == [][in64 /\ ~in64' /\ glock = 0 /\ left = 0 => left' # 0]_vars
=============================================================================

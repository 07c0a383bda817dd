--------------------------- MODULE MtSchedProofs ---------------------------
(***************************************************************************)
(* The MT lock is exact: TypeOK and LockExact together are inductive when  *)
(* no wait comes true between its check and its switch (EarlyWake).        *)
(***************************************************************************)
EXTENDS MtSched, FiniteSetTheorems, TLAPS

States == {"none", "run", "wait", "susp"}

SchedInv == TypeOK /\ LockExact

USE NAssumption DEF Thread, Idle, States

(***************************************************************************)
(* Parts of switch_context().                                              *)
(***************************************************************************)

(* The ranks of stamps fit the number of slots.                            *)
LEMMA RanksType ==
  ASSUME NEW a \in [Thread -> Nat], NEW S \in SUBSET Thread
  PROVE  Ranks(a, S) \in [Thread -> 0..N]
<1>1. IsFiniteSet(Thread) /\ Cardinality(Thread) = N
  BY FS_Interval
<1>2. IsFiniteSet(S) /\ Cardinality(S) \in 0..N
  <2>1. IsFiniteSet(S) /\ Cardinality(S) <= Cardinality(Thread)
    BY <1>1, FS_Subset
  <2>2. Cardinality(S) \in Nat
    BY <2>1, FS_CardinalityType
  <2>3. QED
    BY <1>1, <2>1, <2>2
<1>3. ASSUME NEW t \in Thread
      PROVE  Cardinality({a[u] : u \in S} \cap 1..a[t]) \in 0..N
  <2> DEFINE T == {a[u] : u \in S}
             g == [u \in S |-> a[u]]
  <2>1. g \in Surjection(S, T)
    BY DEF Surjection
  <2>2. IsFiniteSet(T) /\ Cardinality(T) <= Cardinality(S)
    BY <2>1, <1>2, FS_Surjection
  <2>3. /\ IsFiniteSet(T \cap 1..a[t])
        /\ Cardinality(T \cap 1..a[t]) <= Cardinality(T)
    BY <2>2, FS_Subset
  <2>4. Cardinality(T) \in Nat /\ Cardinality(T \cap 1..a[t]) \in Nat
    BY <2>2, <2>3, FS_CardinalityType
  <2>5. QED
    BY <1>2, <2>2, <2>3, <2>4
<1>4. QED
  BY <1>3 DEF Ranks

(* The search ends with a thread that is ready to run, or the idle thread. *)
LEMMA ChoiceRuns ==
  ASSUME NEW st, NEW t \in Choice(st)
  PROVE  t = Idle \/ (t \in Thread /\ st[t] = "run")
BY DEF Choice, Found, Runs, New, Scanned, Prompt, Eaters, Eldest, FirstOf, LastOf

(* What a wait check leaves of the thread states.                          *)
LEMMA WokenType ==
  ASSUME NEW st \in [Thread -> States], NEW W
  PROVE  /\ Woken(st, W) \in [Thread -> States]
         /\ \A t \in Thread : t \notin W => Woken(st, W)[t] = st[t]
         /\ \A t \in Thread : st[t] = "run" => Woken(st, W)[t] = "run"
BY DEF Woken

(* The variables a switch assigns keep their types.                        *)
LEMMA StampType ==
  ASSUME TypeOK, NEW st \in [Thread -> States], NEW dying \in SUBSET Thread,
         Stamp(st, dying)
  PROVE  /\ state' = st
         /\ fresh' \subseteq Thread /\ ending' \subseteq Thread
         /\ age' \in [Thread -> 0..N]
         /\ ran' \in 0..Late /\ in64' = in64 /\ born' = born
<1>1. Stamped \in [Thread -> Nat]
  BY DEF Stamped, TypeOK
<1>2. Live(st) \subseteq Thread
  BY DEF Live
<1>3. age' \in [Thread -> 0..N]
  BY <1>1, <1>2, RanksType DEF Stamp
<1>4. fresh' \subseteq Thread /\ ending' \subseteq Thread
  BY <1>2 DEF Stamp, TypeOK
<1>5. ran' \in 0..Late /\ state' = st /\ in64' = in64 /\ born' = born
  BY TickAssumption DEF Stamp, Late
<1>6. QED
  BY <1>3, <1>4, <1>5

LEMMA SwitchAnyType ==
  ASSUME TypeOK, NEW st \in [Thread -> States], SwitchAny(st)
  PROVE  /\ state' = st
         /\ cur' \in Thread \cup {Idle}
         /\ cur' # Idle => st[cur'] = "run"
         /\ tlp' \subseteq Thread
         /\ fresh' \subseteq Thread /\ ending' \subseteq Thread
         /\ age' \in [Thread -> 0..N]
         /\ ran' \in 0..Late /\ in64' = in64 /\ born' = born
<1>1. Stamp(st, ending) /\ ending \in SUBSET Thread
  BY DEF SwitchAny, TypeOK
<1>2. cur' \in Choice(st) /\ tlp' \subseteq Live(st) /\ Live(st) \subseteq Thread
  BY DEF SwitchAny, Live
<1>3. cur' = Idle \/ (cur' \in Thread /\ st[cur'] = "run")
  BY <1>2, ChoiceRuns
<1>4. QED
  BY <1>1, <1>2, <1>3, StampType

LEMMA SwitchToType ==
  ASSUME TypeOK, NEW t \in Thread, NEW st \in [Thread -> States],
         NEW dying \in SUBSET Thread, st[t] = "run", SwitchTo(t, st, dying)
  PROVE  /\ state' = st
         /\ cur' = t
         /\ tlp' \subseteq Thread
         /\ fresh' \subseteq Thread /\ ending' \subseteq Thread
         /\ age' \in [Thread -> 0..N]
         /\ ran' \in 0..Late /\ in64' = in64 /\ born' = born
<1>1. Stamp(st, dying) /\ tlp' \subseteq Thread /\ cur' = t
  BY DEF SwitchTo, TypeOK
<1>2. QED
  BY <1>1, StampType

(* A switch of timer or mt_yield(), in a state without a lock.             *)
LEMMA TimedSwitchInv ==
  ASSUME SchedInv, TimedSwitch, glock' = 0,
         depth' = [t \in Thread |-> 0], irq' \in 0..Tick
  PROVE  SchedInv'
<1>1. PICK W \in SUBSET Waiting : SwitchAny(Woken(state, W))
  BY DEF TimedSwitch
<1>2. Woken(state, W) \in [Thread -> States]
  BY WokenType DEF SchedInv, TypeOK
<1>3. TypeOK
  BY DEF SchedInv
<1>4. left' \in 0..Never
  BY TickAssumption DEF TimedSwitch, Never
<1>5. 0 \in 0..MaxLock /\ 0 \in 0..MaxDepth
  BY MaxDepthAssumption DEF MaxLock
<1>6. TypeOK'
  BY <1>1, <1>2, <1>3, <1>4, <1>5, SwitchAnyType DEF TypeOK
<1>7. LockExact'
  BY <1>1, <1>2, <1>3, SwitchAnyType DEF LockExact
<1>8. QED
  BY <1>6, <1>7 DEF SchedInv

(* A manual switch to another thread.                                      *)
LEMMA ManualSwapInv ==
  ASSUME SchedInv, cur # Idle, ManualSwap, cur' # cur,
         cur' \in Thread \cup {Idle}, cur' # Idle => state'[cur'] = "run",
         state' \in [Thread -> States],
         tlp' \subseteq Thread, fresh' \subseteq Thread, ending' \subseteq Thread,
         age' \in [Thread -> 0..N], ran' \in 0..Late, in64' = in64, born' = born
  PROVE  SchedInv'
<1>1. \A t \in Thread : depth'[t] = 0
  BY DEF SchedInv, TypeOK, LockExact, ManualSwap
<1>2. glock' = 0 /\ depth' \in [Thread -> 0..MaxDepth]
  BY MaxDepthAssumption DEF SchedInv, TypeOK, ManualSwap
<1>3. 0 \in 0..MaxLock
  BY MaxDepthAssumption DEF MaxLock
<1>4. TypeOK'
  BY <1>2, <1>3 DEF SchedInv, TypeOK, ManualSwap, clock
<1>5. LockExact'
  BY <1>1, <1>2 DEF LockExact
<1>6. QED
  BY <1>4, <1>5 DEF SchedInv

(***************************************************************************)
(* One lemma per group of actions.                                         *)
(***************************************************************************)

LEMMA InitInv == Init => SchedInv
<1> SUFFICES ASSUME Init PROVE SchedInv
  OBVIOUS
<1>1. TypeOK
  <2>1. /\ cur \in Thread \cup {Idle} /\ state \in [Thread -> States]
        /\ ending \subseteq Thread /\ fresh \subseteq Thread /\ tlp \subseteq Thread
    BY DEF Init
  <2>2. /\ age \in [Thread -> 0..N] /\ glock \in 0..MaxLock
        /\ depth \in [Thread -> 0..MaxDepth] /\ born \in 0..MaxBorn
    BY MaxDepthAssumption, MaxBornAssumption DEF Init, MaxLock
  <2>3. ran \in 0..Late /\ left \in 0..Never /\ irq \in 0..Tick
    BY TickAssumption DEF Init, Late, Never
  <2>4. in64 \in BOOLEAN
    BY DEF Init
  <2>5. QED
    BY <2>1, <2>2, <2>3, <2>4 DEF TypeOK
<1>2. LockExact
  BY DEF Init, LockExact
<1>3. QED
  BY <1>1, <1>2 DEF SchedInv

LEMMA ClockInv == SchedInv /\ Clock => SchedInv'
<1> SUFFICES ASSUME SchedInv, Clock PROVE SchedInv'
  OBVIOUS
<1>1. age' \in [Thread -> 0..N]
  <2>1. [t \in Thread |-> age[t] + 1] \in [Thread -> Nat]
    BY DEF SchedInv, TypeOK
  <2>2. Live(state) \ (fresh \cup {cur}) \in SUBSET Thread
    BY DEF Live
  <2>3. QED
    BY <2>1, <2>2, RanksType DEF Clock
<1>2. ran' \in 0..Late /\ left' \in 0..Never /\ irq' \in 0..Tick
  BY TickAssumption DEF SchedInv, TypeOK, Clock, Late, Never
<1>3. TypeOK'
  BY <1>1, <1>2 DEF SchedInv, TypeOK, Clock, locks
<1>4. LockExact'
  BY DEF SchedInv, LockExact, Clock, locks
<1>5. QED
  BY <1>3, <1>4 DEF SchedInv

(* In a state without a lock no thread holds one.                          *)
LEMMA Unlocked ==
  ASSUME SchedInv, glock = 0
  PROVE  depth = [t \in Thread |-> 0]
BY DEF SchedInv, TypeOK, LockExact

LEMMA TimerInv == SchedInv /\ Timer => SchedInv'
<1> SUFFICES ASSUME SchedInv, Timer PROVE SchedInv'
  OBVIOUS
<1>1. irq' \in 0..Tick
  BY TickAssumption DEF Timer
<1>2. CASE WrongMode
  BY <1>1, <1>2 DEF Timer, SchedInv, TypeOK, LockExact, locks
<1>3. CASE ~WrongMode
  <2>1. glock = 0
    BY <1>3 DEF WrongMode, SchedInv, TypeOK, MaxLock
  <2>2. TimedSwitch /\ glock' = 0 /\ depth' = [t \in Thread |-> 0]
    BY <1>3, <2>1, Unlocked DEF Timer, locks
  <2>3. QED
    BY <1>1, <2>2, TimedSwitchInv
<1>4. QED
  BY <1>2, <1>3

LEMMA YieldCallInv == SchedInv /\ YieldCall => SchedInv'
<1> SUFFICES ASSUME SchedInv, YieldCall PROVE SchedInv'
  OBVIOUS
<1>1. CASE WrongMode
  <2>1. left' \in 0..Never
    BY <1>1, TickAssumption DEF YieldCall, YieldOff, Never
  <2>2. TypeOK'
    BY <1>1, <2>1 DEF YieldCall, YieldOff, SchedInv, TypeOK, locks
  <2>3. LockExact'
    BY <1>1 DEF YieldCall, YieldOff, SchedInv, LockExact, locks
  <2>4. QED
    BY <2>2, <2>3 DEF SchedInv
<1>2. CASE ~WrongMode
  <2>1. glock = 0
    BY <1>2 DEF WrongMode, SchedInv, TypeOK, MaxLock
  <2>2. TimedSwitch /\ glock' = 0 /\ depth' = [t \in Thread |-> 0] /\ irq' \in 0..Tick
    BY <1>2, <2>1, Unlocked DEF YieldCall, locks, SchedInv, TypeOK
  <2>3. QED
    BY <2>2, TimedSwitchInv
<1>3. QED
  BY <1>1, <1>2

LEMMA LockInv == SchedInv /\ Lock => SchedInv'
<1> SUFFICES ASSUME SchedInv, Lock PROVE SchedInv'
  OBVIOUS
<1>1. cur \in Thread /\ cur # Idle /\ glock = depth[cur]
  BY DEF Lock, Executing, SchedInv, TypeOK, LockExact
<1>2. depth' \in [Thread -> 0..MaxDepth] /\ glock' \in 0..MaxLock
  <2>1. depth[cur] \in 0..MaxDepth /\ depth[cur] + 1 \in 0..MaxDepth
    BY <1>1, MaxDepthAssumption DEF Lock, SchedInv, TypeOK
  <2>2. depth' = [depth EXCEPT ![cur] = depth[cur] + 1] /\ glock' = glock + 1
    BY DEF Lock
  <2>3. QED
    BY <1>1, <2>1, <2>2, MaxDepthAssumption DEF SchedInv, TypeOK, MaxLock
<1>3. TypeOK'
  BY <1>2 DEF Lock, SchedInv, TypeOK, clock
<1>4. LockExact'
  BY <1>1 DEF Lock, SchedInv, TypeOK, LockExact
<1>5. QED
  BY <1>3, <1>4 DEF SchedInv

LEMMA UnlockInv == SchedInv /\ Unlock => SchedInv'
<1> SUFFICES ASSUME SchedInv, Unlock PROVE SchedInv'
  OBVIOUS
<1>1. cur \in Thread /\ cur # Idle /\ glock = depth[cur] /\ glock \in 1..MaxLock
  BY DEF Unlock, Executing, SchedInv, TypeOK, LockExact, MaxLock
<1>2. depth' \in [Thread -> 0..MaxDepth] /\ glock' \in 0..MaxLock
  <2>1. depth[cur] \in 0..MaxDepth /\ depth[cur] - 1 \in 0..MaxDepth
    BY <1>1, MaxDepthAssumption DEF Unlock, SchedInv, TypeOK
  <2>2. depth' = [depth EXCEPT ![cur] = depth[cur] - 1] /\ glock' = glock - 1
    BY DEF Unlock
  <2>3. QED
    BY <1>1, <2>1, <2>2, MaxDepthAssumption DEF SchedInv, TypeOK, MaxLock
<1>3. CASE YieldsAt(glock - 1)
  <2>1. glock' = 0 /\ depth' = [t \in Thread |-> 0]
    BY <1>1, <1>3, MaxDepthAssumption DEF YieldsAt, Unlock, SchedInv, TypeOK, LockExact
  <2>2. TimedSwitch /\ irq' \in 0..Tick
    BY <1>3 DEF Unlock, SchedInv, TypeOK
  <2>3. QED
    BY <2>1, <2>2, TimedSwitchInv
<1>4. CASE ~YieldsAt(glock - 1)
  <2>1. UNCHANGED <<cur, state, ending, fresh, age, tlp, ran, clock, in64, born>>
    BY <1>4 DEF Unlock
  <2>2. TypeOK'
    BY <1>2, <2>1 DEF SchedInv, TypeOK, clock
  <2>3. LockExact'
    BY <1>1, <2>1, MaxDepthAssumption DEF Unlock, SchedInv, TypeOK, LockExact
  <2>4. QED
    BY <2>2, <2>3 DEF SchedInv
<1>5. QED
  BY <1>3, <1>4

(* A call that gives the CPU away, in general: the caller is not ready to  *)
(* run any more, or names another thread.                                  *)
LEMMA LeaveInv ==
  ASSUME SchedInv, cur # Idle, ManualSwap,
         NEW st \in [Thread -> States], NEW dying \in SUBSET Thread,
         \/ SwitchAny(st) /\ st[cur] # "run"
         \/ \E t \in Thread : t # cur /\ st[t] = "run" /\ SwitchTo(t, st, dying)
  PROVE  SchedInv'
<1>1. TypeOK /\ cur \in Thread
  BY DEF SchedInv, TypeOK
<1>2. CASE SwitchAny(st) /\ st[cur] # "run"
  <2>1. /\ state' = st
        /\ cur' \in Thread \cup {Idle}
        /\ cur' # Idle => st[cur'] = "run"
        /\ tlp' \subseteq Thread
        /\ fresh' \subseteq Thread /\ ending' \subseteq Thread
        /\ age' \in [Thread -> 0..N]
        /\ ran' \in 0..Late /\ in64' = in64 /\ born' = born
    BY <1>1, <1>2, SwitchAnyType
  <2>2. cur' # cur
    BY <1>2, <2>1
  <2>3. QED
    BY <2>1, <2>2, ManualSwapInv
<1>3. CASE \E t \in Thread : t # cur /\ st[t] = "run" /\ SwitchTo(t, st, dying)
  <2>1. PICK t \in Thread : t # cur /\ st[t] = "run" /\ SwitchTo(t, st, dying)
    BY <1>3
  <2>2. /\ state' = st /\ cur' = t
        /\ tlp' \subseteq Thread
        /\ fresh' \subseteq Thread /\ ending' \subseteq Thread
        /\ age' \in [Thread -> 0..N]
        /\ ran' \in 0..Late /\ in64' = in64 /\ born' = born
    BY <1>1, <2>1, SwitchToType
  <2>3. QED
    BY <2>1, <2>2, ManualSwapInv
<1>4. QED
  BY <1>2, <1>3

(* mt_waitobject(): without EarlyWake the wait check does not wake the     *)
(* thread that begins to wait, so another one is chosen and the lock reset. *)
LEMMA WaitInv == SchedInv /\ EarlyWake = FALSE /\ Wait => SchedInv'
<1> SUFFICES ASSUME SchedInv, EarlyWake = FALSE, Wait PROVE SchedInv'
  OBVIOUS
<1> DEFINE st0 == [state EXCEPT ![cur] = "wait"]
<1>1. PICK W \in SUBSET Waiting : SwitchAny(Woken(st0, W))
  BY DEF Wait, Wakeable
<1>2. cur \in Thread /\ cur # Idle /\ state[cur] = "run" /\ ManualSwap
  BY DEF Wait, InLastCall, InCall, Executing, SchedInv, TypeOK, LockExact
<1>3. cur \notin W /\ st0 \in [Thread -> States] /\ st0[cur] = "wait"
  BY <1>2 DEF Waiting, SchedInv, TypeOK
<1> DEFINE st == Woken(st0, W)
<1>4. st \in [Thread -> States] /\ st[cur] # "run"
  BY <1>2, <1>3, WokenType
<1> HIDE DEF st0, st
<1>5. SwitchAny(st) /\ st[cur] # "run"
  BY <1>1, <1>4 DEF st
<1>6. QED
  BY <1>2, <1>4, <1>5, LeaveInv

LEMMA SuspendSelfInv == SchedInv /\ SuspendSelf => SchedInv'
<1> SUFFICES ASSUME SchedInv, SuspendSelf PROVE SchedInv'
  OBVIOUS
<1> DEFINE st0 == [state EXCEPT ![cur] = "susp"]
<1>1. PICK W \in SUBSET Waiting : SwitchAny(Woken(st0, W))
  BY DEF SuspendSelf
<1>2. cur \in Thread /\ cur # Idle /\ state[cur] = "run" /\ ManualSwap
  BY DEF SuspendSelf, InLastCall, InCall, Executing, SchedInv, TypeOK, LockExact
<1>3. cur \notin W /\ st0 \in [Thread -> States] /\ st0[cur] = "susp"
  BY <1>2 DEF Waiting, SchedInv, TypeOK
<1> DEFINE st == Woken(st0, W)
<1>4. st \in [Thread -> States] /\ st[cur] # "run"
  BY <1>2, <1>3, WokenType
<1> HIDE DEF st0, st
<1>5. SwitchAny(st) /\ st[cur] # "run"
  BY <1>1, <1>4 DEF st
<1>6. QED
  BY <1>2, <1>4, <1>5, LeaveInv

LEMMA SetStateInv ==
  ASSUME SchedInv, NEW t \in Thread, NEW from, NEW to \in States,
         SetState(t, from, to)
  PROVE  SchedInv'
<1>1. TypeOK'
  BY DEF SetState, SchedInv, TypeOK, locks, clock
<1>2. LockExact'
  BY DEF SetState, SchedInv, TypeOK, LockExact, locks
<1>3. QED
  BY <1>1, <1>2 DEF SchedInv

LEMMA CreateInv ==
  ASSUME SchedInv, NEW t \in Thread, NEW st \in {"run", "susp"}, Create(t, st)
  PROVE  SchedInv'
<1>1. cur # t
  BY DEF Create, InCall, Executing, SchedInv, LockExact
<1>2. born' \in 0..MaxBorn
  BY MaxBornAssumption DEF Create, SchedInv, TypeOK
<1>3. TypeOK'
  BY <1>2 DEF Create, SchedInv, TypeOK, locks, clock
<1>4. LockExact'
  BY <1>1 DEF Create, SchedInv, TypeOK, LockExact, locks
<1>5. QED
  BY <1>3, <1>4 DEF SchedInv

LEMMA ExecInv ==
  ASSUME SchedInv, NEW t \in Thread, Exec(t)
  PROVE  SchedInv'
<1> DEFINE st0 == [state EXCEPT ![cur] = "wait", ![t] = "run"]
<1>1. PICK W \in SUBSET Waiting : SwitchTo(t, Woken(st0, W), ending)
  BY DEF Exec
<1>2. cur \in Thread /\ cur # Idle /\ state[cur] = "run" /\ ManualSwap /\ t # cur
  BY DEF Exec, Executing, SchedInv, TypeOK, LockExact
<1>3. st0 \in [Thread -> States] /\ st0[t] = "run"
  BY <1>2 DEF SchedInv, TypeOK
<1> HIDE DEF st0
<1> DEFINE st == Woken(st0, W)
<1>4. st \in [Thread -> States] /\ st[t] = "run"
  BY <1>3, WokenType
<1>5. ending \in SUBSET Thread
  BY DEF SchedInv, TypeOK
<1> HIDE DEF st
<1>6. SwitchTo(t, st, ending)
  BY <1>1 DEF st
<1>7. QED
  BY <1>2, <1>4, <1>5, <1>6, LeaveInv

LEMMA TerminateInv ==
  ASSUME SchedInv, NEW t \in Thread, NEW to \in {"run", "wait"}, Terminate(t, to)
  PROVE  SchedInv'
<1> DEFINE st0 == [state EXCEPT ![cur] = to, ![t] = "run"]
           dying == ending \cup {t}
<1>1. PICK W \in SUBSET (Waiting \ {t}) : SwitchTo(t, Woken(st0, W), dying)
  BY DEF Terminate
<1>2. cur \in Thread /\ cur # Idle /\ ManualSwap /\ t # cur
  BY DEF Terminate, InLastCall, InCall, Executing, SchedInv, TypeOK
<1>3. st0 \in [Thread -> States] /\ st0[t] = "run"
  BY <1>2 DEF SchedInv, TypeOK
<1> HIDE DEF st0
<1> DEFINE st == Woken(st0, W)
<1>4. st \in [Thread -> States] /\ st[t] = "run"
  BY <1>3, WokenType
<1>5. dying \in SUBSET Thread
  BY DEF SchedInv, TypeOK
<1> HIDE DEF st, dying
<1>6. SwitchTo(t, st, dying)
  BY <1>1 DEF st
<1>7. QED
  BY <1>2, <1>4, <1>5, <1>6, LeaveInv

LEMMA ExitInv == SchedInv /\ Exit => SchedInv'
<1> SUFFICES ASSUME SchedInv, Exit PROVE SchedInv'
  OBVIOUS
<1> DEFINE st0 == [state EXCEPT ![cur] = "none"]
<1>1. PICK W \in SUBSET Waiting :
        \/ SwitchAny(Woken(st0, W))
        \/ \E t \in W : SwitchTo(t, Woken(st0, W), ending)
  BY DEF Exit
<1>2. cur \in Thread /\ cur # Idle /\ state[cur] = "run" /\ ManualSwap
  BY DEF Exit, Executing, SchedInv, TypeOK, LockExact
<1>3. W \subseteq Thread /\ cur \notin W
  BY <1>2 DEF Waiting
<1>4. st0 \in [Thread -> States] /\ st0[cur] = "none"
  BY <1>2 DEF SchedInv, TypeOK
<1> DEFINE st == Woken(st0, W)
<1>5. st \in [Thread -> States] /\ st[cur] # "run"
  BY <1>2, <1>3, <1>4, WokenType
<1>6. \A t \in W : t \in Thread /\ t # cur /\ st[t] = "run"
  BY <1>3 DEF Woken
<1>7. ending \in SUBSET Thread
  BY DEF SchedInv, TypeOK
<1> HIDE DEF st0, st
<1>8. \/ SwitchAny(st)
      \/ \E t \in W : SwitchTo(t, st, ending)
  BY <1>1 DEF st
<1>9. QED
  BY <1>2, <1>5, <1>6, <1>7, <1>8, LeaveInv

LEMMA HostCallInv == SchedInv /\ (Enter64 \/ Leave64) => SchedInv'
<1> SUFFICES ASSUME SchedInv, Enter64 \/ Leave64 PROVE SchedInv'
  OBVIOUS
<1>1. in64' \in BOOLEAN
  BY DEF Enter64, Leave64
<1>2. UNCHANGED <<cur, state, ending, fresh, age, tlp, locks, ran, clock, born>>
  BY DEF Enter64, Leave64
<1>3. TypeOK'
  BY <1>1, <1>2 DEF SchedInv, TypeOK, locks, clock
<1>4. LockExact'
  BY <1>2 DEF SchedInv, LockExact, locks
<1>5. QED
  BY <1>3, <1>4 DEF SchedInv

(* Every step of the scheduler and of the programs preserves SchedInv.     *)
LEMMA NextInv == SchedInv /\ EarlyWake = FALSE /\ [Next]_vars => SchedInv'
<1> SUFFICES ASSUME SchedInv, EarlyWake = FALSE, [Next]_vars PROVE SchedInv'
  OBVIOUS
<1>1. CASE Clock
  BY <1>1, ClockInv
<1>2. CASE Timer
  BY <1>2, TimerInv
<1>3. CASE Yield \/ IdleYield
  BY <1>3, YieldCallInv DEF Yield, IdleYield
<1>4. CASE Lock
  BY <1>4, LockInv
<1>5. CASE Unlock
  BY <1>5, UnlockInv
<1>6. CASE Wait
  BY <1>6, WaitInv
<1>7. CASE SuspendSelf
  BY <1>7, SuspendSelfInv
<1>8. CASE Exit
  BY <1>8, ExitInv
<1>9. ASSUME NEW t \in Thread, Suspend(t) \/ Resume(t)
      PROVE  SchedInv'
  BY <1>9, SetStateInv DEF Suspend, Resume
<1>10. ASSUME NEW t \in Thread, Exec(t)
       PROVE  SchedInv'
  BY <1>10, ExecInv
<1>11. ASSUME NEW t \in Thread, NEW st \in {"run", "susp"}, Create(t, st)
       PROVE  SchedInv'
  BY <1>11, CreateInv
<1>12. ASSUME NEW t \in Thread, NEW st \in {"run", "wait"}, Terminate(t, st)
       PROVE  SchedInv'
  BY <1>12, TerminateInv
<1>13. CASE Enter64 \/ Leave64
  BY <1>13, HostCallInv
<1>14. CASE UNCHANGED vars
  <2>1. TypeOK'
    BY <1>14 DEF SchedInv, TypeOK, vars
  <2>2. LockExact'
    BY <1>14 DEF SchedInv, LockExact, vars
  <2>3. QED
    BY <2>1, <2>2 DEF SchedInv
<1>15. QED
  BY <1>1, <1>2, <1>3, <1>4, <1>5, <1>6, <1>7, <1>8, <1>9, <1>10, <1>11,
     <1>12, <1>13, <1>14 DEF Next, Program
-----------------------------------------------------------------------------
(***************************************************************************)
(* The theorems.                                                           *)
(***************************************************************************)

(* The MT lock counter is what the running code believes, and a thread     *)
(* that is not current holds no lock: mtcb_glock is reset exactly when the *)
(* CPU is given away (sched.c, swapregs32), for any number of threads, any *)
(* nesting and any order of ticks, yields, waits and terminations, as long *)
(* as no wait comes true in the switch that begins it.                     *)
THEOREM LockStaysExact ==
  ASSUME EarlyWake = FALSE
  PROVE  Spec => []LockExact
<1>1. SchedInv /\ [Next]_vars => SchedInv'
  BY NextInv, Zenon
<1>2. SchedInv => LockExact
  BY DEF SchedInv
<1>3. QED
  BY InitInv, <1>1, <1>2, PTL DEF Spec

(* Every variable of the scheduler keeps its type, in particular the lock  *)
(* counter never leaves 0..MaxLock.                                        *)
THEOREM SchedTypes ==
  ASSUME EarlyWake = FALSE
  PROVE  Spec => []TypeOK
<1>1. SchedInv /\ [Next]_vars => SchedInv'
  BY NextInv, Zenon
<1>2. SchedInv => TypeOK
  BY DEF SchedInv
<1>3. QED
  BY InitInv, <1>1, <1>2, PTL DEF Spec
-----------------------------------------------------------------------------
(***************************************************************************)
(* The time slice, for a BIOS host with an APIC.                           *)
(***************************************************************************)

(* Any switch begins a new slice.                                          *)
LEMMA SwitchStarts ==
  ASSUME NEW st, NEW t, NEW dying, SwitchAny(st) \/ SwitchTo(t, st, dying)
  PROVE  ran' = 0 /\ in64' = in64
BY DEF SwitchAny, SwitchTo, Stamp

LEMMA TimedSwitchStarts ==
  ASSUME TimedSwitch
  PROVE  ran' = 0 /\ in64' = in64 /\ left' = Tick
BY SwitchStarts DEF TimedSwitch

(* Waiting, suspending oneself, exec, termination and exit.                *)
LeaveCpu ==
  \/ Wait \/ SuspendSelf \/ Exit
  \/ \E t \in Thread : Exec(t) \/ \E st \in {"run", "wait"} : Terminate(t, st)

LEMMA LeaveCpuStarts ==
  ASSUME LeaveCpu
  PROVE  ran' = 0 /\ in64' = in64 /\ ManualSwap
<1>1. CASE Wait \/ SuspendSelf \/ Exit
  BY <1>1, SwitchStarts DEF Wait, SuspendSelf, Exit
<1>2. CASE \E t \in Thread : Exec(t) \/ \E st \in {"run", "wait"} : Terminate(t, st)
  BY <1>2, SwitchStarts DEF Exec, Terminate
<1>3. QED
  BY <1>1, <1>2 DEF LeaveCpu

(* Steps that leave time, the lock and the CPU alone.                      *)
InsideCall ==
  \E t \in Thread : \/ Suspend(t) \/ Resume(t)
                    \/ \E st \in {"run", "susp"} : Create(t, st)

LEMMA SliceStep ==
  ASSUME Apic = TRUE, Efi = FALSE, YieldLocked = FALSE, SliceInv, [Next]_vars
  PROVE  SliceInv'
<1> USE TickAssumption
<1>1. CASE Clock
  BY <1>1 DEF SliceInv, Clock, Late, locks
<1>2. CASE Timer
  <2>1. irq' = Tick /\ glock' = glock
    BY <1>2 DEF Timer, locks
  <2>2. CASE WrongMode
    <3>1. glock > 0 /\ UNCHANGED <<ran, left, in64>>
      BY <1>2, <2>2 DEF Timer, WrongMode, SliceInv
    <3>2. QED
      BY <2>1, <3>1 DEF SliceInv
  <2>3. CASE ~WrongMode
    <3>1. ran' = 0 /\ in64' = in64 /\ left' = Tick
      BY <1>2, <2>3, TimedSwitchStarts DEF Timer
    <3>2. QED
      BY <2>1, <3>1 DEF SliceInv
  <2>4. QED
    BY <2>2, <2>3
<1>3. CASE Yield
  <2>1. glock = 0 /\ ~WrongMode /\ UNCHANGED <<locks, irq>>
    BY <1>3 DEF Yield, YieldCall, SliceInv, WrongMode
  <2>2. ran' = 0 /\ in64' = in64 /\ left' = Tick
    BY <1>3, <2>1, TimedSwitchStarts DEF Yield, YieldCall
  <2>3. QED
    BY <2>1, <2>2 DEF SliceInv, locks
<1>4. CASE IdleYield
  BY <1>4 DEF IdleYield
<1>5. CASE Lock
  BY <1>5 DEF Lock, SliceInv, clock
<1>6. CASE Unlock
  <2>1. glock' = glock - 1 /\ glock > 0 /\ UNCHANGED irq
    BY <1>6 DEF Unlock, clock
  <2>2. CASE YieldsAt(glock - 1)
    <3>1. ran' = 0 /\ in64' = in64 /\ left' = Tick
      BY <1>6, <2>2, TimedSwitchStarts DEF Unlock
    <3>2. QED
      BY <2>1, <3>1 DEF SliceInv
  <2>3. CASE ~YieldsAt(glock - 1)
    <3>1. UNCHANGED <<ran, left, in64>>
      BY <1>6, <2>3 DEF Unlock, clock
    <3>2. glock' = 0 => left > 0
      BY <2>1, <2>3 DEF YieldsAt, SliceInv
    <3>3. QED
      BY <2>1, <3>1, <3>2 DEF SliceInv
  <2>4. QED
    BY <2>2, <2>3
<1>7. CASE LeaveCpu
  <2>1. ran' = 0 /\ in64' = in64 /\ UNCHANGED clock /\ glock' \in {0, glock}
    BY <1>7, LeaveCpuStarts DEF ManualSwap
  <2>2. QED
    BY <2>1 DEF SliceInv, clock
<1>8. CASE InsideCall
  BY <1>8 DEF InsideCall, Suspend, Resume, SetState, Create, SliceInv, locks, clock
<1>9. CASE Enter64 \/ Leave64
  BY <1>9 DEF Enter64, Leave64, SliceInv
<1>10. CASE UNCHANGED vars
  BY <1>10 DEF vars, SliceInv
<1>11. QED
  BY <1>1, <1>2, <1>3, <1>4, <1>5, <1>6, <1>7, <1>8, <1>9, <1>10
     DEF Next, Program, LeaveCpu, InsideCall

(* On a BIOS host with an APIC no thread holds the CPU outside of the lock *)
(* for more than two ticks, whatever the locks do to the interrupts: the   *)
(* yield() at the end of mt_swunlock() makes a lost tick good.             *)
THEOREM SliceBounded ==
  ASSUME Apic = TRUE, Efi = FALSE, YieldLocked = FALSE
  PROVE  Spec => []SliceBound
<1>1. Init => SliceInv
  BY TickAssumption DEF Init, SliceInv
<1>2. SliceInv /\ [Next]_vars => SliceInv'
  BY SliceStep, Zenon
<1>3. SliceInv => SliceBound
  BY TickAssumption DEF SliceInv, SliceBound, Late
<1>4. QED
  BY <1>1, <1>2, <1>3, PTL DEF Spec
=============================================================================

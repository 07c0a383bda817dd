------------------------------- MODULE MCWait -------------------------------
EXTENDS MtWait, TLC

CONSTANTS t1, t2, t3, m1, m2, e1

M(m, g) == [kind |-> "mutex", obj |-> m, group |-> g]
E(e, g) == [kind |-> "event", obj |-> e, group |-> g]
C(g)    == [kind |-> "clock", obj |-> NoThread, group |-> g]
T(t, g) == [kind |-> "tid", obj |-> t, group |-> g]

Capture1 == [items |-> <<M(m1, {})>>, logic |-> {}]
Timed1   == [items |-> <<M(m1, {1}), C({})>>, logic |-> {}]
Both     == [items |-> <<M(m1, {1}), M(m2, {1})>>, logic |-> {1}]
EvAndMux == [items |-> <<E(e1, {1}), M(m1, {1})>>, logic |-> {1}]
OnExit   == [items |-> <<T(NoThread, {})>>, logic |-> {}]

MixedOr  == [items |-> <<E(e1, {2}), M(m1, {1})>>, logic |-> {1}]

MutexRequests  == {Capture1, Timed1, Both}
ObjectRequests == {EvAndMux, OnExit}
LiveRequests   == {Capture1}
MixedRequests  == {MixedOr}

(* Events and objects closed by force, without suspension.                 *)
ObjectNext ==
  \/ Walk
  \/ Timer
  \/ \E t \in Thread :
       \/ \E m \in Mutex : Release(t, m) \/ \E s \in BOOLEAN : CreateMutex(t, m, s)
       \/ \E e \in Event : \/ EventReset(t, e)
                           \/ EventSet(t, e)
                           \/ \E b \in BOOLEAN : EventPulse(t, e, b) \/ CreateEvent(t, e, b)
       \/ \E o \in Object, force \in Forced : Free(t, o, force)
       \/ \E r \in Request : WaitObject(t, r)
       \/ WaitReturn(t)
       \/ \E u \in Thread : Terminate(t, u) \/ \E s \in BOOLEAN : CreateThread(t, u, s)
       \/ ExitThread(t)

ObjectSpec == Init /\ [][ObjectNext]_vars

(***************************************************************************)
(* The liveness run looks at a part of the program interface: threads that *)
(* share a mutex and end, suspend and resume each other.                   *)
(***************************************************************************)
LiveNext ==
  \/ Walk
  \/ Timer
  \/ \E t \in Thread :
       \/ WaitReturn(t)
       \/ \E r \in Request : WaitObject(t, r)
       \/ \E m \in Mutex : Release(t, m) \/ CreateMutex(t, m, TRUE)
       \/ \E u \in Thread : Terminate(t, u) \/ Suspend(t, u) \/ Resume(t, u)
       \/ ExitThread(t)

LiveFair == Init /\ [][LiveNext]_vars /\ Fairness

Symm == Permutations(Thread)
=============================================================================

------------------------------ MODULE FifoLock ------------------------------
(***************************************************************************)
(* What qstask.h and wobj.c promise of mutexes: each is a recursive lock   *)
(* with a queue.  A thread that asks joins the queue; a free lock is never *)
(* granted past an older request that it would satisfy; the owner's own    *)
(* request is granted at once; the owner gives the lock up level by level, *)
(* or all of it at its end; a request may be withdrawn (timeout, another   *)
(* item of the wait, termination).                                         *)
(***************************************************************************)
EXTENDS Naturals

CONSTANTS Lock, Thread, None

VARIABLES
  holder,   \* of each lock: a thread or None
  depth,    \* how many times the holder has got it
  waiting,  \* the threads that ask for it
  firm,     \* those among them that need nothing else (no AND group)
  ahead     \* of each thread that asks: the firm requests older than its own

fvars == <<holder, depth, waiting, firm, ahead>>

FInit ==
  /\ holder  = [l \in Lock |-> None]
  /\ depth   = [l \in Lock |-> 0]
  /\ waiting = [l \in Lock |-> {}]
  /\ firm    = [l \in Lock |-> {}]
  /\ ahead   = [l \in Lock |-> [t \in Thread |-> {}]]

KeepLock(l)  == UNCHANGED <<holder[l], depth[l]>>
KeepQueue(l) == UNCHANGED <<waiting[l], firm[l], ahead[l]>>

Ask(l, t) ==
  /\ t \notin waiting[l]
  /\ waiting'[l] = waiting[l] \cup {t}
  /\ firm'[l] \in {firm[l], firm[l] \cup {t}}
  /\ ahead'[l] = [ahead[l] EXCEPT ![t] = firm[l]]
  /\ KeepLock(l)

Leave(l, t) ==
  /\ t \in waiting[l]
  /\ waiting'[l] = waiting[l] \ {t}
  /\ firm'[l] = firm[l] \ {t}
  /\ ahead'[l] = [u \in Thread |-> IF u = t THEN {} ELSE ahead[l][u] \ {t}]

Withdraw(l, t) == Leave(l, t) /\ KeepLock(l)

(* A free lock goes to a request with nobody ahead of it.                  *)
Grant(l, t) ==
  /\ Leave(l, t)
  /\ \/ holder[l] = None /\ ahead[l][t] = {}
     \/ holder[l] = t
  /\ holder'[l] = t
  /\ depth'[l] = depth[l] + 1

(* mt_muxcreate() with an initial owner.                                   *)
Born(l, t) ==
  /\ holder[l] = None /\ waiting[l] = {}
  /\ holder'[l] = t /\ depth'[l] = 1
  /\ KeepQueue(l)

GiveUp(l, t) ==
  /\ holder[l] = t
  /\ depth'[l] \in {0, depth[l] - 1}
  /\ holder'[l] = IF depth'[l] = 0 THEN None ELSE t
  /\ KeepQueue(l)

LockStep(l) ==
  \/ KeepLock(l) /\ KeepQueue(l)
  \/ \E t \in Thread :
       Ask(l, t) \/ Withdraw(l, t) \/ Grant(l, t) \/ Born(l, t) \/ GiveUp(l, t)

(* The locks are independent of each other: the exit of a thread gives up  *)
(* several of them in one step.                                            *)
FNext == \A l \in Lock : LockStep(l)

FSpec == FInit /\ [][FNext]_fvars
=============================================================================

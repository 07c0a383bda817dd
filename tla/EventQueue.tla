----------------------------- MODULE EventQueue -----------------------------
(***************************************************************************)
(* What qstask.h promises of queues and of future delivery: an event is    *)
(* ready in the order it was posted; a scheduled one becomes ready once,   *)
(* in the order of the delivery times and not long before its own, unless  *)
(* it was withdrawn, moved to another time or its queue closed before.     *)
(***************************************************************************)
EXTENDS Integers, Sequences, SequencesExt

CONSTANTS Queue, Event,
  Times,   \* delivery times
  Early    \* how long before its time an event may be ready

VARIABLES clock, open, ready, pending

qvars == <<clock, open, ready, pending>>

(* Open queues, ready events by queue, and events with a delivery time.    *)
QInit ==
  /\ clock = 0
  /\ open = {}
  /\ ready = [q \in Queue |-> <<>>]
  /\ pending = {}

Advance == clock' = clock + 1 /\ UNCHANGED <<open, ready, pending>>

NewQueue(q) ==
  /\ q \notin open
  /\ open' = open \cup {q}
  /\ UNCHANGED <<clock, ready, pending>>

(* The end of a queue is the end of its events.                            *)
EndQueue(q) ==
  /\ q \in open
  /\ open' = open \ {q}
  /\ ready' = [ready EXCEPT ![q] = <<>>]
  /\ pending' = {p \in pending : p.queue # q}
  /\ UNCHANGED clock

PostNow(q, e) ==
  /\ q \in open
  /\ ready' = [ready EXCEPT ![q] = Append(@, e)]
  /\ UNCHANGED <<clock, open, pending>>

PostAt(q, e, at) ==
  /\ q \in open
  /\ at > clock
  /\ pending' = pending \cup {[event |-> e, queue |-> q, time |-> at]}
  /\ UNCHANGED <<clock, open, ready>>

(* The earliest event goes first.                                          *)
Mature(p) ==
  /\ p \in pending
  /\ p.time =< clock + Early
  /\ \A r \in pending : p.time =< r.time
  /\ ready' = [ready EXCEPT ![p.queue] = Append(@, p.event)]
  /\ pending' = pending \ {p}
  /\ UNCHANGED <<clock, open>>

Withdraw(p) == p \in pending /\ pending' = pending \ {p} /\ UNCHANGED <<clock, open, ready>>

(* A copy e of the event gets the new time, or is ready if it has passed.  *)
Move(p, e, at) ==
  /\ p \in pending
  /\ e # p.event
  /\ IF at > clock
       THEN /\ pending' = (pending \ {p})
                            \cup {[event |-> e, queue |-> p.queue, time |-> at]}
            /\ UNCHANGED ready
       ELSE /\ pending' = pending \ {p}
            /\ ready' = [ready EXCEPT ![p.queue] = Append(@, e)]
  /\ UNCHANGED <<clock, open>>

Pick(q, i) ==
  /\ i \in DOMAIN ready[q]
  /\ ready' = [ready EXCEPT ![q] = RemoveAt(@, i)]
  /\ UNCHANGED <<clock, open, pending>>

Empty(q) == ready' = [ready EXCEPT ![q] = <<>>] /\ UNCHANGED <<clock, open, pending>>

QNext ==
  \/ Advance
  \/ \E q \in Queue :
       \/ NewQueue(q)
       \/ EndQueue(q)
       \/ Empty(q)
       \/ \E i \in 1..Len(ready[q]) : Pick(q, i)
       \/ \E e \in Event : PostNow(q, e) \/ \E at \in Times : PostAt(q, e, at)
  \/ \E p \in pending :
       \/ Mature(p)
       \/ Withdraw(p)
       \/ \E e \in Event, at \in Times : Move(p, e, at)

QSpec == QInit /\ [][QNext]_qvars
=============================================================================

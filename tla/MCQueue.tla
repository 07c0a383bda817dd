------------------------------ MODULE MCQueue ------------------------------
EXTENDS SysQueue, TLC

(* Queues and schedules without threads that wait.                         *)
ListNext ==
  \/ Tick
  \/ Kernel
  \/ CloseNext
  \/ CloseEnd
  \/ \E t \in Thread : Program(t) /\ UNCHANGED call

ListSpec == Init /\ [][ListNext]_vars

Symm ==
  UNION {Permutations(Event), Permutations(Sched), Permutations(Thread),
         Permutations(Queue), Permutations(Handle)}
=============================================================================

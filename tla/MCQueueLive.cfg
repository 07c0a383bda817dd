SPECIFICATION FairSpec
CONSTANTS
  Thread = {t1}
  Queue = {q1}
  Handle = {h1}
  Event = {e1, e2}
  Sched = {s1, s2}
  Nil = Nil
  MaxTime = 7
  When = {1, 3}
  Res = 1
  StaleIds = FALSE
  ClosedIds = FALSE
PROPERTIES Delivered WaiterWakes

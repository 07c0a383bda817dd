SPECIFICATION Spec
CONSTANTS
  Thread = {t1, t2}
  Queue = {q1, q2}
  Handle = {h1, h2}
  Event = {e1, e2}
  Sched = {s1, s2}
  Nil = Nil
  MaxTime = 2
  When = {1}
  Res = 1
  StaleIds = FALSE
  ClosedIds = FALSE
SYMMETRY Symm
INVARIANTS OnePlace UnlinkFindsEntry

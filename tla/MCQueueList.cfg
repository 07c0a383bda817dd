SPECIFICATION ListSpec
CONSTANTS
  Thread = {t1}
  Queue = {q1}
  Handle = {h1}
  Event = {e1, e2, e3}
  Sched = {s1, s2, s3}
  Nil = Nil
  MaxTime = 7
  When = {1, 3, 7}
  Res = 2
  StaleIds = FALSE
  ClosedIds = FALSE
SYMMETRY Symm
INVARIANTS TypeOK ListSound AlarmFollowsList
PROPERTIES ImplementsEventQueue

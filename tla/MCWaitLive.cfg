SPECIFICATION LiveFair
CONSTANTS
  t1 = t1
  t2 = t2
  t3 = t3
  m1 = m1
  m2 = m2
  e1 = e1
  Thread = {t1, t2, t3}
  Idle = Idle
  NoThread = NoThread
  Mutex = {m1}
  Event = {}
  Request <- LiveRequests
  MaxLock = 2
  Forced = {}
PROPERTIES NoStarvation TerminateReturns

SPECIFICATION Spec
CONSTANTS
  t1 = t1
  t2 = t2
  t3 = t3
  m1 = m1
  m2 = m2
  e1 = e1
  Thread = {t1, t2, t3}
  Idle = Idle
  NoThread = NoThread
  Mutex = {m1, m2}
  Event = {}
  Request <- MutexRequests
  MaxLock = 2
  Forced = {FALSE}
SYMMETRY Symm
INVARIANTS TypeOK OwnerInv JoinInv SuspendedOwnsNothing WaitCntExact GrantedOwns
PROPERTIES FifoGrant ImplementsFifoLock

SPECIFICATION Spec
CONSTANTS
  Pd = {root, a, b}
  Root = root
  None = None
  MaxTid = 2
  MaxMore = 1
  MaxPid = 3
  Kinds = {"exec", "session", "waitfor", "chain"}
  Uses = {}
SYMMETRY Symm
INVARIANTS TypeOK NoTrap TreeWhole CallersPaired OneReaper HeirWaits NobodyForgotten
CHECK_DEADLOCK FALSE

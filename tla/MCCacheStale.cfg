SPECIFICATION Spec
CONSTANTS
  NBlocks = 4
  DiskSize = 4
  Sin32k = 1
  GSize = 2
  Handles = {"plain"}
  Faults = FALSE
  MaxIo = 1
  SysLocs = {0}
  GoOn = TRUE
INVARIANT ReadsFresh

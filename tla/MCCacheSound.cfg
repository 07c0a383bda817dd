SPECIFICATION Spec
CONSTANTS
  NBlocks = 4
  DiskSize = 7
  Sin32k = 2
  GSize = 3
  Handles = {"plain", "direct"}
  Faults = TRUE
  MaxIo = 2
  SysLocs = {0}
  GoOn = FALSE
INVARIANTS TypeOK CirclesClose Findable CopiesFresh

SPECIFICATION FairSpec
CONSTANTS
  N = 3
  Tick = 1
  MaxDepth = 1
  MaxBorn = 1
  Apic = TRUE
  EarlyWake = FALSE
  YieldLocked = FALSE
  Efi = FALSE
PROPERTIES NoStarvation
INVARIANT SliceBound

SPECIFICATION Spec
CONSTANTS
  N = 3
  Tick = 1
  MaxDepth = 2
  MaxBorn = 2
  Apic = FALSE
  EarlyWake = FALSE
  YieldLocked = TRUE
  Efi = TRUE
INVARIANTS TypeOK LockExact

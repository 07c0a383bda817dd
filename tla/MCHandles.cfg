SPECIFICATION Spec
CONSTANTS
  p1 = p1
  p2 = p2
  f1 = f1
  f2 = f2
  Proc = {p1, p2}
  Name = {f1}
  MaxHandles = 3
  MaxPos = 1
  Modes <- MCModes
  Uses = {}
SYMMETRY Symm
INVARIANTS TypeOK TablesAgree NothingLeft
PROPERTY ImplementsPositions

SPECIFICATION Spec
CONSTANTS
  Worker = {w1, w2}
  Main = main
  Secret = {s1}
  None = None
  Faults = {}
  LiveReprovision = FALSE
  MaxHash = 3
SYMMETRY Symmetry
CHECK_DEADLOCK FALSE
PROPERTIES
  RefreshReturns

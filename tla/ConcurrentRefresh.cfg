SPECIFICATION Spec
CONSTANTS
  Worker = {w1, w2, w3}
  Main = main
  Secret = {s1, s2}
  None = None
  Faults = {"request", "reply", "backend", "disk", "setenv", "crash"}
  LiveReprovision = TRUE
  MaxHash = 3
SYMMETRY Symmetry
CHECK_DEADLOCK FALSE
INVARIANTS
  TypeOK
  RefreshExclusive
  IndInv
  EnvComplete
  PublishInv
  HashNeverSkips
  PairInv
PROPERTIES
  TokenNeverRegresses
  SaveIsLatest
  ImplementsStore

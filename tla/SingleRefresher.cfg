SPECIFICATION Spec
CONSTANTS
  Worker = {w1}
  Main = main
  Secret = {s1, s2}
  None = None
  Faults = {"request", "backend"}
  LiveReprovision = FALSE
  MaxHash = 4
SYMMETRY Symmetry
CHECK_DEADLOCK FALSE
INVARIANTS
  SessionAccepted
  CredentialKept
  EnvPersisted
  EnvPaired
PROPERTIES
  SecretSpentBeforeDeleted

SPECIFICATION FairSendSpec
CONSTANTS
  Worker = {h1, h2, periodic}
  Main = main
  Periodic = periodic
  Secret = {s1}
  None = None
  Faults = {"reply", "backend", "setenv", "crash"}
  LiveReprovision = FALSE
  MaxHash = 6
  Length = {"short", "long"}
  MaxExpired = 2
CHECK_DEADLOCK FALSE
INVARIANTS
  RequestInv
  ExecutedOnce
  AnswerTruthful
PROPERTIES
  RetryCarriesNewerToken
  RequestEnds

SPECIFICATION FairSpec
CONSTANTS
  Message = {m1, m2, m3}
  MaxSent = 3
  SizeT = 100
CHECK_DEADLOCK FALSE
INVARIANTS
  TypeOK
  StreamConserved
  ExecutedInOrder
  AnsweredInKind
PROPERTIES
  EveryMessageExecuted

SPECIFICATION Spec
CONSTANTS
  Message = {m1, m2}
  MaxSent = 2
  SizeT = 100
CHECK_DEADLOCK FALSE
INVARIANTS
  RunsIndefinitely

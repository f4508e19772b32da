SPECIFICATION FairSpec
CONSTANTS
  c1 = c1
  c2 = c2
  Client = {c1, c2}
  Stream <- Streams
  MaxFd = {1, 2}
  MaxSession = 2
CHECK_DEADLOCK FALSE
INVARIANTS
  TypeOK
  WholeStream
  ReadOnce
  OneMoreAfterStop
PROPERTIES
  AnsweredInTurn
  StopNoticed
  EndServed

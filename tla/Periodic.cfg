SPECIFICATION FairSpec
CONSTANTS
  Life = {1, 3, 9}
  Shift = 4
  Garbage <- StackReadings
  MaxExchange = 1
CHECK_DEADLOCK FALSE
INVARIANTS
  TypeOK
  TokenKept
  AsksSeldom
PROPERTIES
  AsksAgain
  StopEndsLoop

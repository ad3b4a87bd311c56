SPECIFICATION FairSpec
CONSTANTS
  x = x
  y = y
  Tickets = {x, y}
  NoRequestId = NoRequestId
  SlotCount = 3
  MaxAttempts = 2
  BatchSize = 2
  QueueLimit = 2
  MaxRestarts = 1
  Troubles = {"throw", "age", "corrupt"}
INVARIANTS
  TypeOK
  PrintedOnce
PROPERTIES
  JobsSettle
\* The jobs of this instance are used up at the end.
CHECK_DEADLOCK FALSE

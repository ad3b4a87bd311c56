SPECIFICATION Spec
CONSTANTS
  a = a
  j1 = j1
  j2 = j2
  k1 = k1
  Jobs = {j1}
  Keys = {k1}
  Tabs = {a}
  QueueAttempts = 1
  Routes = 2
  MaxBatch = 1
  Parallel = 1
  AckHistory = 1
  Disturbances = {}
  NoRequestId = NoRequestId
  SlotCount = 2
  BridgeAttempts = 2
  BatchSize = 1
  QueueLimit = 1
  MaxRestarts = 1
  Troubles = {"throw", "age", "corrupt"}
  RowCount = 1
  Losses = {"patch", "stop"}
INVARIANTS
  TypeOK
  AckedIsHandedOn
  PrintedWasSent
\* The receipts of this instance are used up at the end.
CHECK_DEADLOCK FALSE

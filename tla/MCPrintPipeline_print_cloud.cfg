SPECIFICATION Spec
CONSTANTS
  a = a
  j1 = j1
  j2 = j2
  k1 = k1
  Jobs = {j1, j2}
  Keys = {k1}
  Tabs = {a}
  QueueAttempts = 1
  Routes = 2
  MaxBatch = 1
  Parallel = 1
  AckHistory = 1
  Disturbances = {}
  NoRequestId = NoRequestId
  SlotCount = 2
  BridgeAttempts = 1
  BatchSize = 1
  QueueLimit = 1
  MaxRestarts = 0
  Troubles = {}
  RowCount = 2
  Losses = {}
INVARIANTS
  PrintedWasQueued
\* The receipts of this instance are used up at the end.
CHECK_DEADLOCK FALSE

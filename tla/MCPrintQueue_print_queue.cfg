SPECIFICATION HSpec
CONSTANTS
  a = a
  b = b
  j1 = j1
  j2 = j2
  j3 = j3
  k1 = k1
  k2 = k2
  Jobs = {j1, j2}
  Keys = {k1}
  Tabs = {a, b}
  MaxAttempts = 2
  Routes = 2
  MaxBatch = 1
  Parallel = 1
  AckHistory = 1
  Disturbances = {"close", "clear", "offline", "reprint", "storage"}
SYMMETRY Symmetry
INVARIANTS
  TypeOK
  AckedIsAccepted
  RowsKeptUntilAccepted
  NothingStrands

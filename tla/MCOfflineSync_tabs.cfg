SPECIFICATION HSpec
CONSTANTS
  s1 = s1
  s2 = s2
  s3 = s3
  a = a
  b = b
  n1 = n1
  n2 = n2
  n3 = n3
  Snapshots = {s1, s2}
  Tabs = {a, b}
  Requests = {n1, n2, n3}
  Disturbances = {"close", "clear"}
SYMMETRY Symmetry
INVARIANTS
  TypeOK
  SyncedIsStored
  
PROPERTIES
  ImplementsDelivery
\* The requests of this instance are used up at the end.
CHECK_DEADLOCK FALSE

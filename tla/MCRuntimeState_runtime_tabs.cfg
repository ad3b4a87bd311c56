SPECIFICATION HSpec
CONSTANTS
  a = a
  b = b
  ten1 = ten1
  ten2 = ten2
  m = m
  p = p
  c1 = c1
  c2 = c2
  Tabs = {a, b}
  Tenants = {ten1}
  Anonymous = Anonymous
  TableKeys = {m}
  DomainKeys = {m}
  PlainKeys = {}
  Calls = {c1}
  MaxWrites = 2
  MaxMail = 1
  Disturbances = {"clear", "error"}
SYMMETRY Symmetry
INVARIANTS
  UnsentIsScheduled
PROPERTIES
  RecentWritesStay
  TableNeverOlder

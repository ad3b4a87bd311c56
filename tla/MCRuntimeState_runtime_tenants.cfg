SPECIFICATION HSpec
CONSTANTS
  a = a
  b = b
  ten1 = ten1
  ten2 = ten2
  m = m
  p = p
  c1 = c1
  c2 = c2
  Tabs = {a, b}
  Tenants = {ten1, ten2}
  Anonymous = Anonymous
  TableKeys = {}
  DomainKeys = {}
  PlainKeys = {p}
  Calls = {c1, c2}
  MaxWrites = 1
  MaxMail = 1
  Disturbances = {"switch", "error"}
SYMMETRY Symmetry
INVARIANTS
  TypeOK
  TenantsApart

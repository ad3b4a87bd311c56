SPECIFICATION HSpec
CONSTANTS
  p = p
  q = q
  o1 = o1
  o2 = o2
  Products = {p}
  SharedKeys = {p}
  MaxClicks = 2
  Others = {o1}
  Old = Old
  MaxQty = 2
  Disturbances = {"fail", "switch"}
INVARIANTS
  TypeOK
  GhostsWereOvertaken
PROPERTIES
  PendingLineStays
  NewerChangeStays
  ScreenCatchesUp

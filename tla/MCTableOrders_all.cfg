SPECIFICATION HSpec
CONSTANTS
  r1 = r1
  r2 = r2
  r3 = r3
  t1 = t1
  tea = tea
  s1 = s1
  k1 = k1
  k2 = k2
  acc = acc
  NoAccount = NoAccount
  Requests = {r1, r2, r3}
  Tables = {t1}
  Products = {tea}
  Price <- TeaPrice
  Quantities = {0, 1}
  Keys = {k1, k2}
  Accounts = {acc}
  Offers <- MixedOffers
  Kinds = {"add", "line", "sent", "save", "clear", "partial", "close", "cancel"}
  SeedIds = {s1}
  SeedLines <- SeedTea
SYMMETRY Symmetry
INVARIANTS
  TypeOK
  PaymentsReadAreCurrent
  OnePaymentPerKey
  OneLinePerProduct
  CollectedWithinOrdered
  LedgersFollowPayments
PROPERTIES
  OnlyAddsCreateLines
  ImplementsLedger
\* Every request is served once: at the end nothing is left to do.
CHECK_DEADLOCK FALSE

SPECIFICATION Spec
CONSTANTS
  Payment = {p1}
  AmountOf <- Amounts
  KeyOf <- KeysDiffer
  Call = {c1, c2}
  EventId = {e1, e2}
  MaxDepth = 1
  NoJob = NoJob
SYMMETRY Symmetry
INVARIANTS TypeOK SettledWhole BalancesAreExact NothingBookedUnconfirmed

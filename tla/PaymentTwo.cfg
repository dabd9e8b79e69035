SPECIFICATION FairSpec
CONSTANTS
  Payment = {p1, p2}
  AmountOf <- Amounts
  KeyOf <- KeysDiffer
  Call = {c1, c2}
  EventId = {e1, e2}
  MaxDepth = 0
  NoJob = NoJob
PROPERTIES ImplementsBook PaidIsSettled

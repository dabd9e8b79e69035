CONSTANTS
  Call = {c1, c2}
  NoCall = NoCall
  NoteRide = {r1}
  Announced = {"ride.cancelled"}
  OutEvent = {good, poison, orphan}
  Poison = {poison}
  Orphan = {orphan}
  BatchSize = 2
  MaxAttempts = 5
  ConvId = {k1, k2}
  NoConv = NoConv
  ClientId = {m1, m2}
  PageLimit = 2
SPECIFICATION Spec
INVARIANTS
  TypeOK
  ToldOnce
  FallbackIsLast
  DeliveredOnce
  SaidOnce
PROPERTIES
  HistoryOnlyGrows
  DispatchIsStored
  GoodIsDelivered
CHECK_DEADLOCK FALSE

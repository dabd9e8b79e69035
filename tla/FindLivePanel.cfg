CONSTANTS
  Tick = {k1, k2}
  NoTick = NoTick
  NoFix = NoFix
  OnRideEvery = 1
  IdleEvery = 2
  StaleAfter = 3
  ExpiredAfter = 4
  MaxClock = 5
  OpenRide = {r1, r2}
  Driver = {1, 2}
  Facts <- Candidates
  MaxOffers = 1
  Nobody = Nobody
  User <- PanelUsers
  RoleOf <- PanelRoles
  PageRide = {p1}
  BroadcastFails = FALSE
  Runtimes = {TRUE}
  RidesSaved = FALSE
  NoOne = "nobody"
  Unrequested = Unrequested
  Trip <- Trips
  SurgeMilli = {999, 1000, 1001, 1500, 1801}
  Tolls = {0, 1450}
  Waits = {0, 181, 300}
  Discounts = {0, 500, 9999}
  NoQuote = NoQuote
SPECIFICATION Spec
INVARIANT LivePanelIsCurrent
SYMMETRY Symmetry
CHECK_DEADLOCK FALSE

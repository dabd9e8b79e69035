CONSTANTS
  Driver = {d1, d2}
  NoDriver = NoDriver
  RideId = {r1}
  PixRide = {}
  Call = {c1, c2}
  AdvanceTarget <- ServiceTargets
  AdvanceTrigger <- ProviderTriggers
  Changing = {d1, d2}
  Live = FALSE
  Serialised = FALSE
  RidesSaved = FALSE
  IntentsSaved = FALSE
  NoRide = NoRide
  NoJob = NoJob
SPECIFICATION Spec
INVARIANTS
  TypeOK
  WinnerIsPersisted
  TimestampsMatchHistory
PROPERTIES
  ImplementsLifecycle
SYMMETRY Symmetry

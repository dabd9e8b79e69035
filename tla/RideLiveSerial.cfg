CONSTANTS
  Driver = {d1, d2}
  NoDriver = NoDriver
  RideId = {r1}
  PixRide = {}
  Call = {c1, c2}
  AdvanceTarget <- ServiceTargets
  AdvanceTrigger <- ServiceTriggers
  Changing = {}
  Live = TRUE
  Serialised = TRUE
  RidesSaved = FALSE
  IntentsSaved = FALSE
  NoRide = NoRide
  NoJob = NoJob
SPECIFICATION Spec
INVARIANTS
  PassengerCancelObeysPolicy
  PublishedWasHeld
PROPERTIES
  ImplementsLifecycle
SYMMETRY Symmetry
CHECK_DEADLOCK FALSE

CONSTANTS
  Driver = {d1, d2}
  NoDriver = NoDriver
  RideId = {r1}
  PixRide = {}
  Call = {c1, c2}
  AdvanceTarget <- PageTargets
  AdvanceTrigger <- PageTriggers
  Changing = {}
  Live = TRUE
  Serialised = FALSE
  RidesSaved = FALSE
  IntentsSaved = FALSE
  NoRide = NoRide
  NoJob = NoJob
SPECIFICATION Spec
INVARIANTS
  SingleWinner
SYMMETRY Symmetry
CHECK_DEADLOCK FALSE

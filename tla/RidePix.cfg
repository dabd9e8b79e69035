CONSTANTS
  Driver = {d1}
  NoDriver = NoDriver
  RideId = {r1}
  PixRide = {r1}
  Call = {c1, c2}
  AdvanceTarget <- PickupTargets
  AdvanceTrigger <- PageTriggers
  Changing = {d1}
  Live = FALSE
  Serialised = FALSE
  RidesSaved = FALSE
  IntentsSaved = FALSE
  NoRide = NoRide
  NoJob = NoJob
SPECIFICATION Spec
INVARIANTS
  AnnouncedPixIsPaid
SYMMETRY Symmetry

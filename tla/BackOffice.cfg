CONSTANTS
  Call = {c1, c2}
  NoCall = NoCall
  TenantId = {t1, t2}
  Slug = {"demo-a"}
  Checklist <- Checklists
  Brand <- Brands
  NoTenant = NoTenant
  NoBrand = NoBrand
  ProfileId = {p1, p2}
  UserId = {u1}
  NoProfile = NoProfile
  ProfileRowsSaved = FALSE
  SubId = {s1, s2}
  Customer = {"tenant-a"}
  Price <- Prices
  FirstPlan = "launch"
  TrialDays = 1
  GraceDays = 1
  MaxDay = 2
  NoSub = NoSub
  NoDay = NoDay
  Key = {"tenant-a:ride.request", "tenant-b:ride.request"}
  MaxTokens = 2
  RefillTokensPerSecond = 1
  MaxMs = 2500
  MsStep = 500
  NoBucket = NoBucket
SPECIFICATION Spec
INVARIANTS
  TypeOK
  EndIsFinal
  StagesInOrder
  SuspensionHolds
  VerificationInOrder
  OperatesOrLapses
  SaasBalances
  PlanIsCharged
  OneOfEach
PROPERTIES
  AdmitsExactly
SYMMETRY Symmetry
CHECK_DEADLOCK FALSE

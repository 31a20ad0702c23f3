SPECIFICATION EjectsSpec
CONSTANTS
  ann = ann
  ben = ben
  cat = cat
  phoneA = phoneA
  phoneB = phoneB
  phoneC = phoneC
  keyA = keyA
  keyB = keyB
  keyC = keyC
  Person = {ann, ben, cat}
  Device = {phoneB, phoneC}
  KeyId = {keyB, keyC}
  None = None
  Id = {c1, c2, c3}
  Key = {k1, k2}
  Nonce = {n1, n2}
  Code = {}
  Secret = {}
  Blocked = {}
  Participation <- MCReady
  PersonAvailability <- MCAvailable
  PlanCeiling <- MCPlanCeiling
  PlanUntil <- MCPlanUntil
  PhysicalCeiling = 3
  SeedPolicies <- MCMetered
  SeedRelationships <- MCAllConnected
  SeedDevices <- MCTwoDevices
  Route <- Crossing
  Reply = {None}
  Observation <- Reports
  SenderLimit = 2
  DefaultCooldown = 1
  CommandTTL = 1
  Hour = 2
  NonceTTL = 1
  ClockSkew = 0
  InvitationTTL = 1
  EnrollmentTTL = 1
  Retention = 1
  Lag = 1
  MaxClock = 4
INVARIANTS
  CooldownSeparates
  QuotasHold
  OneCommandPerRequest
PROPERTIES
  CommandsSettle
CHECK_DEADLOCK FALSE

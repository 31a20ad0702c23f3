SPECIFICATION ConsentSpec
CONSTANTS
  ann = ann
  ben = ben
  cat = cat
  phoneA = phoneA
  phoneB = phoneB
  phoneC = phoneC
  keyA = keyA
  keyB = keyB
  keyC = keyC
  Person = {ann, ben}
  Device = {phoneB}
  KeyId = {keyB}
  None = None
  Id = {c1}
  Key = {k1}
  Nonce = {n1}
  Code = {}
  Secret = {}
  Blocked = {}
  Participation <- MCReady
  PersonAvailability <- MCAvailable
  PlanCeiling <- MCPlanCeiling
  PlanUntil <- MCPlanUntil
  PhysicalCeiling = 3
  SeedPolicies <- MCPolicies
  SeedRelationships <- MCConnected
  SeedDevices <- MCOneDevice
  Route <- OneWay
  Reply = {None}
  Observation <- Reports
  SenderLimit = 5
  DefaultCooldown = 1
  CommandTTL = 1
  Hour = 3
  NonceTTL = 1
  ClockSkew = 0
  InvitationTTL = 1
  EnrollmentTTL = 1
  Retention = 1
  Lag = 1
  MaxClock = 1
SYMMETRY Symmetry
PROPERTIES
  TimestampsAdvance

SPECIFICATION PeopleSpec
CONSTANTS
  ann = ann
  ben = ben
  cat = cat
  phoneA = phoneA
  phoneB = phoneB
  phoneC = phoneC
  keyA = keyA
  keyB = keyB
  keyC = keyC
  Person = {ann, ben}
  Device = {phoneA, phoneB}
  KeyId = {keyA, keyB}
  None = None
  Id = {c1}
  Key = {k1}
  Nonce = {n1}
  Code = {i1, i2}
  Secret = {s1, s2}
  Blocked = {}
  Participation <- MCReady
  PersonAvailability <- MCAvailable
  PlanCeiling <- MCPlanCeiling
  PlanUntil <- MCPlanUntil
  PhysicalCeiling = 3
  SeedPolicies <- MCPolicies
  SeedRelationships <- MCStrangers
  SeedDevices <- MCOneDeviceOrNone
  Route <- OneWay
  Reply = {None}
  Observation <- Reports
  SenderLimit = 5
  DefaultCooldown = 1
  CommandTTL = 1
  Hour = 3
  NonceTTL = 1
  ClockSkew = 0
  InvitationTTL = 1
  EnrollmentTTL = 1
  Retention = 1
  Lag = 1
  MaxClock = 3
SYMMETRY Symmetry
INVARIANTS
  GrantsNeedRelationship
  RevokedDeviceIsLeftAlone
  OneLiveDevice
  OpenEnrollmentIsAlone
PROPERTIES
  ConnectingTakesACode

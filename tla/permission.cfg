SPECIFICATION PermissionSpec
CONSTANTS
  ann = ann
  ben = ben
  cat = cat
  phoneA = phoneA
  phoneB = phoneB
  phoneC = phoneC
  keyA = keyA
  keyB = keyB
  keyC = keyC
  Person = {ann, ben}
  Device = {phoneA, phoneB}
  KeyId = {keyA, keyB}
  None = None
  Id = {c1, c2, c3}
  Key = {k1, k2}
  Nonce = {n1}
  Code = {}
  Secret = {}
  Blocked = {}
  Participation <- MCReady
  PersonAvailability <- MCAvailable
  PlanCeiling <- MCPlanCeiling
  PlanUntil <- MCPlanUntil
  PhysicalCeiling = 3
  SeedPolicies <- MCScopes
  SeedRelationships <- MCConnected
  SeedDevices <- MCOneOrBothDevices
  Route <- BothRoutes
  Reply <- AnyReply
  Observation <- Accepted
  SenderLimit = 5
  DefaultCooldown = 1
  CommandTTL = 1
  Hour = 3
  NonceTTL = 1
  ClockSkew = 0
  InvitationTTL = 1
  EnrollmentTTL = 1
  Retention = 1
  Lag = 0
  MaxClock = 1
INVARIANTS
  EjectBackIsOnce
PROPERTIES
  ImplementsConsent
  DispatchIsPermitted

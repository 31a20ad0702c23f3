SPECIFICATION Spec
CONSTANTS
  None = None
  Device = {pc}
  Nonce = {n1, n2}
  Handler = {h1, h2}
  Timestamp <- MCTimestamp
  MaximumClockSkew = 1
  Retention = 4
  MaxDuration = 1
  MaxClock = 5
SYMMETRY Symmetry
INVARIANTS
  AcceptedOnce
PROPERTIES
  AcceptedInTime

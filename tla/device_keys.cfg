SPECIFICATION EitherMachineSpec
CONSTANTS
  None = None
  Platform = Platform
  Software = Software
  Agent = a
  Caller = {a, c1, c2}
  KeyId = {i1, i2}
  Unreliable = {Platform}
  MaxCreates = 3
SYMMETRY Symmetry
INVARIANTS
  OneKeySpeaks

SPECIFICATION AccountsSpec
CONSTANTS
  None = None
  Kept = Kept
  ann = ann
  home = home
  Run = {r1, r2}
  Email = {ann, ben}
  Id = {i1, i2, i3}
  Lossy = {"CREATE", "COMMIT", "DELETE"}
  Browser = {home, work}
  Challenge = {p1, p2, p3}
  MaxFaults = 2
INVARIANT PeopleHaveIdentities
CHECK_DEADLOCK FALSE

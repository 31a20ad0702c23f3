SPECIFICATION FairSpec
CONSTANTS
  None = None
  Original = Original
  Edited = Edited
  Run = {r1, r2, r3}
  File <- MCFile
  Content = {Original, Edited}
  Checkouts <- MCCheckouts
INVARIANTS
  LedgerIsTheSchema
  DoneMeansApplied
  NobodyIsAhead
PROPERTIES
  EveryRunEnds

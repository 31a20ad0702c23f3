SPECIFICATION MCSpec
CONSTANTS
  None = None
  Person = {1, 2, 3}
  Process = {1, 2, 3}
  Job <- MCJob
  SeedCommand <- MCSeedCommand
  SeedRows <- MCSeedRows
  Limit = 2
  MaxAttempts = 2
INVARIANTS
  HandlersAreAtomic
PROPERTIES
  PollsAnswerWhatIsOutstanding
  EveryHandlerEnds
  ImplementsConsent
CHECK_DEADLOCK FALSE

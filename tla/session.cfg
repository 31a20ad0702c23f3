SPECIFICATION EitherPersonSpec
CONSTANTS
  None = None
  Ann = Ann
  Ben = Ben
  Person <- MCPerson
  Call <- MCCall
  MaxSession = 2
  MaxRefresh = 2
INVARIANTS
  EndedSessionShowsNothing
  SignedOutStaysOut
  PatientLoadsOwnData
PROPERTIES
  RetriesFollowRotation
  EverythingSettles

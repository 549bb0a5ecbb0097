SPECIFICATION FairSpec
CONSTANTS
  Routes <- SessionRoutes
  Transactional <- MCTransactional
  MaxCalls = 4
  MaxSessions = 3
CHECK_DEADLOCK FALSE
INVARIANTS
  AnswersAreForTheUser
PROPERTIES
  CanSignInAgain

SPECIFICATION FairSpec
CONSTANTS
  Routes <- ProgramRoutes
  Transactional <- MCTransactional
  MaxCalls = 3
  MaxFailures = 2
  MaxSessions = 2
  MaxMishaps = 1
  MaxWrongs = 2
  MaxRuns = 1
  MaxSwitches = 2
CHECK_DEADLOCK FALSE
INVARIANTS
  WaitsAreWatched
  AnswersAreForTheSession
  ChartFitsRange
PROPERTIES
  ButtonComesBack
  SignInStaysPossible

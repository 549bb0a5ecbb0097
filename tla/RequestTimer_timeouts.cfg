SPECIFICATION FairSpec
CONSTANTS
  Routes <- MCRoutes
  Transactional <- MCTransactional
  EndsSession <- MCEndsSession
  Announced <- MCAnnounced
  MaxRequests = 4
  MaxGeneration = 3
  Timeout = 2
  ClockMayStepBack = TRUE
  MaxWall = 4
INVARIANTS
  ReportedOnce
  DeadlinesAreWatched
PROPERTIES
  ImplementsTable
  ImplementsFacade
  EveryRequestEnds

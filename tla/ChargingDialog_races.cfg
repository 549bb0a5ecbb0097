SPECIFICATION FairSpec
CONSTANTS
  Routes <- DialogRoutes
  Transactional <- MCTransactional
  MaxCalls = 3
  MaxTimers = 1
CHECK_DEADLOCK FALSE
INVARIANTS
  NeverAheadOfServer
  WaitIsWatched
PROPERTIES
  LapseIsNoticed

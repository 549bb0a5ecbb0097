SPECIFICATION FairSpec
CONSTANTS
  Routes <- DialogRoutes
  Transactional <- MCTransactional
  MaxCalls = 2
  MaxTimers = 1
CHECK_DEADLOCK FALSE
PROPERTIES
  ConfirmationEnds

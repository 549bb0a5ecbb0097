SPECIFICATION Spec
CONSTANTS
  Routes <- MCRoutes
  Transactional <- MCTransactional
  MaxCalls = 3
  MaxOrders = 2
  MaxChargers = 2
  MaxRecharges = 2
  Stations = {1}
CHECK_DEADLOCK FALSE
INVARIANTS
  RequestsAreWatched
  PlanFitsCharger
  RechargesAreShown
PROPERTIES
  OffMeansQuiet

SPECIFICATION Spec
CONSTANTS
  Stations = {s1}
  Chargers = {c1}
  Users = {u1, u2}
  Routes <- AdminRoutes
  Transactional <- AdminRoutes
  MaxCalls = 2
  MaxActions = 2
  MaxFilters = 1
SYMMETRY MCSymmetry
CHECK_DEADLOCK FALSE
INVARIANTS
  ChargersHaveStations
  ActsOnWhatWasMeant
  ConfirmedChangesAreShown
PROPERTIES
  CustomersKeepTheirCharger

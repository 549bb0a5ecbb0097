SPECIFICATION StartupSpec
CONSTANTS
  p1 = p1
  Starters = {p1, p2}
  Databases <- MCDatabases
  Mobiles <- MCMobiles
  Chargers <- MCChargers
  LegacyName <- MCLegacyName
  NoOne = NoOne
  MaxStarts = 3
CHECK_DEADLOCK FALSE
INVARIANTS
  RecordsAreOrders
  RefusedForCause
PROPERTIES
  HistoryIsKept
  BackedUpFirst

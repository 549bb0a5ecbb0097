SPECIFICATION StartupSpec
CONSTANTS
  p1 = p1
  Starters = {p1, p2}
  Databases <- MCRecorded
  Mobiles <- MCMobiles
  Chargers <- MCChargers
  LegacyName <- MCLegacyName
  NoOne = NoOne
  MaxStarts = 2
CHECK_DEADLOCK FALSE
PROPERTY ReviewsReferToOrders

CONSTANTS
  Users = {u1}
  Chargers = {c1}
  ReservationTime = 1
  MinBalance = 1
  MinuteLength = 2
  Prices = {1, 2}
  RechargeAmounts = {2}
  InitialBalance = 2
  ClockMayStepBack = TRUE
  MaxOrders = 2
  MaxTime = 3
  MaxBalance = 4
SPECIFICATION FairSpec
INVARIANTS
  ReceiptsAddUp
  MoneyConserved
  UsageMatchesOrders
PROPERTIES
  ReservationsEndIfAsked

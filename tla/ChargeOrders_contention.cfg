CONSTANTS
  Users = {u1, u2}
  Chargers = {c1, c2}
  ReservationTime = 1
  MinBalance = 1
  MinuteLength = 1
  Prices = {2}
  RechargeAmounts = {}
  InitialBalance = 2
  ClockMayStepBack = FALSE
  MaxOrders = 3
  MaxTime = 2
  MaxBalance = 2
SPECIFICATION Spec
SYMMETRY MCSymmetry
INVARIANTS
  TypeOK
  UsingMeansOrdered
  InsertNeverConflicts
  ActiveOrdersCanEnd
PROPERTIES
  HoldsAreRespected
  ImplementsLease

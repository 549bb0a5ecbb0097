------------------------- MODULE ChargeOrderProofs -------------------------
(***************************************************************************)
(* Proofs about the order core, for every set of users and chargers, every *)
(* price and every bound.                                                  *)
(***************************************************************************)
EXTENDS ChargeOrderProperties, TLAPS, SequenceTheorems, FiniteSetTheorems, WellFoundedInduction

(* A row of the order table can be replaced by another row.                *)
LEMMA UpdateIsTable ==
  ASSUME NEW rows \in Seq(Order), NEW o \in DOMAIN rows, NEW row \in Order
  PROVE  /\ [rows EXCEPT ![o] = row] \in Seq(Order)
         /\ DOMAIN [rows EXCEPT ![o] = row] = DOMAIN rows
  BY ExceptSeq

(* The sweep keeps the table a table of the same ids ...                   *)
LEMMA SweptOrderType ==
  ASSUME TypeOK
  PROVE  SweptOrder \in Seq(Order) /\ DOMAIN SweptOrder = DOMAIN order
<1>1. order \in [1..Len(order) -> Order] /\ DOMAIN order = 1..Len(order) /\ Len(order) \in Nat
  BY DEF TypeOK
<1>2. ASSUME NEW o \in DOMAIN order PROVE SweptOrder[o] \in Order
  BY <1>1, <1>2, ZenonT(40) DEF SweptOrder, Order, OrderStatus, TypeOK
<1>3. SweptOrder \in [1..Len(order) -> Order]
  BY <1>1, <1>2 DEF SweptOrder
<1>4. QED
  BY <1>1, <1>3, SeqDef

(* ... and a charger's state a state.                                      *)
LEMMA SweptChargerType ==
  ASSUME TypeOK
  PROVE  SweptCharger \in [Chargers -> ChargerStatus]
  BY DEF TypeOK, SweptCharger, ChargerStatus

(* What the sweep does to one row.                                         *)
LEMMA SweptRow ==
  ASSUME TypeOK, NEW o \in DOMAIN order
  PROVE  /\ SweptOrder[o].user = order[o].user
         /\ SweptOrder[o].charger = order[o].charger
         /\ IsActive(SweptOrder[o]) <=> IsActive(order[o]) /\ o \notin Expired
         /\ o \notin Expired => SweptOrder[o] = order[o]
<1>1. order[o] \in Order
  BY DEF TypeOK
<1>2. QED
  BY <1>1 DEF SweptOrder, IsActive, Expired, Order

-----------------------------------------------------------------------------
(* The sweep keeps the invariant: a lapsed reservation is the only active  *)
(* order on its charger, so the charger it frees is free.                  *)
LEMMA SweepPreserves ==
  ASSUME IInv
  PROVE  /\ Agree(SweptOrder, SweptCharger)
         /\ Disjoint(SweptOrder)
         /\ \A o \in DOMAIN SweptOrder : RowMatchesStatus(SweptOrder[o])
<1>1. TypeOK
  BY DEF IInv
<1>2. DOMAIN SweptOrder = DOMAIN order
  BY <1>1, SweptOrderType
<1>3. Disjoint(SweptOrder)
  BY <1>1, <1>2, SweptRow DEF IInv, ActiveOrdersDisjoint, Disjoint
<1>4. ASSUME NEW o \in DOMAIN order PROVE RowMatchesStatus(SweptOrder[o])
  <2>1. order[o] \in Order /\ RowMatchesStatus(order[o])
    BY <1>1 DEF IInv, TypeOK, ColumnsMatchStatus
  <2>2. QED
    BY <2>1 DEF SweptOrder, RowMatchesStatus, IsActive, Order
<1>5. ASSUME NEW c \in Chargers
      PROVE  SweptCharger[c] = "Using" <=> ActiveOn(SweptOrder, c) # {}
  <2>1. charger[c] = "Using" <=> ActiveOn(order, c) # {}
    BY DEF IInv, UsingMeansOrdered, Agree
  <2>2. CASE \E o \in Expired : order[o].charger = c
    <3>1. PICK o \in Expired : order[o].charger = c
      BY <2>2
    <3>2. o \in DOMAIN order /\ IsActive(order[o])
      BY DEF Expired, IsActive
    <3>3. ActiveOn(SweptOrder, c) = {}
      <4>1. ASSUME NEW p \in ActiveOn(SweptOrder, c) PROVE FALSE
        <5>1. p \in DOMAIN order /\ IsActive(order[p]) /\ order[p].charger = c /\ p \notin Expired
          BY <1>1, <1>2, SweptRow DEF ActiveOn
        <5>2. QED
          BY <3>1, <3>2, <5>1 DEF IInv, ActiveOrdersDisjoint, Disjoint
      <4>2. QED
        BY <4>1
    <3>4. SweptCharger[c] # "Using"
      BY <2>2 DEF SweptCharger
    <3>5. QED
      BY <3>3, <3>4
  <2>3. CASE ~ \E o \in Expired : order[o].charger = c
    <3>1. ActiveOn(SweptOrder, c) = ActiveOn(order, c)
      BY <1>1, <1>2, <2>3, SweptRow DEF ActiveOn
    <3>2. SweptCharger[c] = charger[c]
      BY <2>3 DEF SweptCharger
    <3>3. QED
      BY <2>1, <3>1, <3>2
  <2>4. QED
    BY <2>2, <2>3
<1>6. QED
  BY <1>2, <1>3, <1>4, <1>5 DEF Agree

(* An order for a user and a charger with no active order, and the charger *)
(* taken into use with it.                                                 *)
LEMMA InsertPreserves ==
  ASSUME NEW rows \in Seq(Order), NEW status \in [Chargers -> ChargerStatus],
         Agree(rows, status), Disjoint(rows),
         \A o \in DOMAIN rows : RowMatchesStatus(rows[o]),
         NEW row \in Order, IsActive(row), RowMatchesStatus(row),
         ActiveFor(rows, row.user) = {}, ActiveOn(rows, row.charger) = {}
  PROVE  /\ Append(rows, row) \in Seq(Order)
         /\ [status EXCEPT ![row.charger] = "Using"] \in [Chargers -> ChargerStatus]
         /\ Agree(Append(rows, row), [status EXCEPT ![row.charger] = "Using"])
         /\ Disjoint(Append(rows, row))
         /\ \A o \in DOMAIN Append(rows, row) : RowMatchesStatus(Append(rows, row)[o])
<1> DEFINE table == Append(rows, row)
           last  == Len(rows) + 1
<1>1. /\ table \in Seq(Order)
      /\ DOMAIN rows = 1..Len(rows) /\ Len(rows) \in Nat
      /\ DOMAIN table = 1..last
      /\ table[last] = row
      /\ \A o \in DOMAIN rows : table[o] = rows[o]
  BY AppendProperties
<1>2. \A o \in DOMAIN table : o \in DOMAIN rows \/ o = last
  BY <1>1
<1>3. last \notin DOMAIN rows /\ last \in DOMAIN table /\ DOMAIN rows \subseteq DOMAIN table
  BY <1>1
<1> HIDE DEF table, last
<1>4. Disjoint(table)
  BY <1>1, <1>2 DEF Disjoint, ActiveFor, ActiveOn
<1>5. \A o \in DOMAIN table : RowMatchesStatus(table[o])
  BY <1>1, <1>2
<1>6. row.charger \in Chargers
  BY DEF Order
<1>7. [status EXCEPT ![row.charger] = "Using"] \in [Chargers -> ChargerStatus]
  BY DEF ChargerStatus
<1>8. ASSUME NEW c \in Chargers
      PROVE  [status EXCEPT ![row.charger] = "Using"][c] = "Using" <=> ActiveOn(table, c) # {}
  <2>1. CASE c = row.charger
    <3>1. last \in ActiveOn(table, c)
      BY <1>1, <1>3, <2>1 DEF ActiveOn
    <3>2. QED
      BY <2>1, <3>1
  <2>2. CASE c # row.charger
    <3>1. ActiveOn(table, c) = ActiveOn(rows, c)
      BY <1>1, <1>2, <1>3, <2>2 DEF ActiveOn
    <3>2. QED
      BY <2>2, <3>1 DEF Agree
  <2>3. QED
    BY <2>1, <2>2
<1>9. QED
  BY <1>1, <1>4, <1>5, <1>7, <1>8 DEF Agree, table

(* An active order that stays active with its user and charger.            *)
LEMMA ProgressPreserves ==
  ASSUME NEW rows \in Seq(Order), NEW status \in [Chargers -> ChargerStatus],
         Agree(rows, status), Disjoint(rows),
         \A p \in DOMAIN rows : RowMatchesStatus(rows[p]),
         NEW o \in DOMAIN rows, IsActive(rows[o]),
         NEW row \in Order, IsActive(row), RowMatchesStatus(row),
         row.user = rows[o].user, row.charger = rows[o].charger
  PROVE  /\ Agree([rows EXCEPT ![o] = row], status)
         /\ Disjoint([rows EXCEPT ![o] = row])
         /\ \A p \in DOMAIN rows : RowMatchesStatus([rows EXCEPT ![o] = row][p])
<1> DEFINE table == [rows EXCEPT ![o] = row]
<1>1. DOMAIN table = DOMAIN rows /\ table[o] = row
  BY UpdateIsTable
<1>2. \A p \in DOMAIN rows : p # o => table[p] = rows[p]
  OBVIOUS
<1> HIDE DEF table
<1>3. Disjoint(table)
  BY <1>1, <1>2 DEF Disjoint
<1>4. \A c \in Chargers : ActiveOn(table, c) = ActiveOn(rows, c)
  BY <1>1, <1>2 DEF ActiveOn
<1>5. QED
  BY <1>1, <1>2, <1>3, <1>4 DEF Agree, table

(* An active order that ends, and its charger freed with it.               *)
LEMMA EndPreserves ==
  ASSUME NEW rows \in Seq(Order), NEW status \in [Chargers -> ChargerStatus],
         Agree(rows, status), Disjoint(rows),
         \A p \in DOMAIN rows : RowMatchesStatus(rows[p]),
         NEW o \in DOMAIN rows, IsActive(rows[o]),
         NEW row \in Order, ~IsActive(row), RowMatchesStatus(row),
         row.charger = rows[o].charger
  PROVE  /\ Agree([rows EXCEPT ![o] = row], [status EXCEPT ![row.charger] = "Idle"])
         /\ Disjoint([rows EXCEPT ![o] = row])
         /\ \A p \in DOMAIN rows : RowMatchesStatus([rows EXCEPT ![o] = row][p])
<1> DEFINE table == [rows EXCEPT ![o] = row]
           freed == [status EXCEPT ![row.charger] = "Idle"]
<1>1. DOMAIN table = DOMAIN rows /\ table[o] = row
  BY UpdateIsTable
<1>2. \A p \in DOMAIN rows : p # o => table[p] = rows[p]
  OBVIOUS
<1>3. \A c \in Chargers : freed[c] = IF c = row.charger THEN "Idle" ELSE status[c]
  OBVIOUS
<1> HIDE DEF table, freed
<1>4. Disjoint(table)
  BY <1>1, <1>2 DEF Disjoint
<1>5. ASSUME NEW c \in Chargers
      PROVE  freed[c] = "Using" <=> ActiveOn(table, c) # {}
  <2>1. CASE c = row.charger
    <3>1. ActiveOn(table, c) = {}
      BY <1>1, <1>2, <2>1 DEF ActiveOn, Disjoint
    <3>2. QED
      BY <1>3, <2>1, <3>1
  <2>2. CASE c # row.charger
    <3>1. ActiveOn(table, c) = ActiveOn(rows, c)
      BY <1>1, <1>2, <2>2 DEF ActiveOn
    <3>2. QED
      BY <1>3, <2>2, <3>1 DEF Agree
  <2>3. QED
    BY <2>1, <2>2
<1>6. QED
  BY <1>1, <1>2, <1>4, <1>5 DEF Agree, table, freed

-----------------------------------------------------------------------------
(* The steps, one lemma per way the tables change.                         *)

(* The sweep alone: charge.active, the station list, a late start or       *)
(* cancel.                                                                 *)
LEMMA CommitSweepPreserves ==
  ASSUME IInv, CommitSweep
  PROVE  IInv'
<1>1. TypeOK
  BY DEF IInv
<1>2. TypeOK'
  BY <1>1, SweptOrderType, SweptChargerType DEF CommitSweep, TypeOK
<1>3. QED
  BY <1>2, SweepPreserves DEF CommitSweep, IInv, UsingMeansOrdered, ActiveOrdersDisjoint, ColumnsMatchStatus

(* The insert statement of reserve and of a direct start, run after the    *)
(* sweep on a free user and a free charger.                                *)
LEMMA InsertOrderPreserves ==
  ASSUME IInv, NEW u \in Users, NEW c \in Chargers, IndexesAdmit(u, c),
         NEW row \in Order, row.user = u, row.charger = c,
         IsActive(row), RowMatchesStatus(row), InsertOrder(c, row)
  PROVE  IInv'
<1>1. TypeOK
  BY DEF IInv
<1>2. SweptOrder \in Seq(Order) /\ SweptCharger \in [Chargers -> ChargerStatus]
  BY <1>1, SweptOrderType, SweptChargerType
<1>3. ActiveFor(SweptOrder, row.user) = {} /\ ActiveOn(SweptOrder, row.charger) = {}
  BY DEF IndexesAdmit
<1>4. order' = Append(SweptOrder, row) /\ charger' = [SweptCharger EXCEPT ![row.charger] = "Using"]
  BY DEF InsertOrder
<1>5. /\ order' \in Seq(Order)
      /\ charger' \in [Chargers -> ChargerStatus]
      /\ Agree(order', charger')
      /\ Disjoint(order')
      /\ \A o \in DOMAIN order' : RowMatchesStatus(order'[o])
  BY <1>2, <1>3, <1>4, SweepPreserves, InsertPreserves
<1>6. TypeOK'
  BY <1>1, <1>5 DEF InsertOrder, TypeOK
<1>7. QED
  BY <1>5, <1>6 DEF IInv, UsingMeansOrdered, ActiveOrdersDisjoint, ColumnsMatchStatus

(* The row those statements write fits the table.                          *)
LEMMA NewOrderIsOrder ==
  ASSUME TypeOK, NEW u \in Users, NEW c \in Chargers, NEW status \in OrderStatus,
         NEW expireAt \in Nat \cup {NoTime}, NEW startTime \in Nat \cup {NoTime}
  PROVE  NewOrder(u, c, status, expireAt, startTime) \in Order
  BY DEF NewOrder, Order, TypeOK

(* charge.reserve.                                                         *)
LEMMA ReservePreserves ==
  ASSUME IInv, NEW u \in Users, NEW c \in Chargers, Reserve(u, c)
  PROVE  IInv'
<1> DEFINE row == NewOrder(u, c, "Reserved", now + ReservationTime, NoTime)
<1>1. TypeOK /\ now \in Nat /\ now + ReservationTime \in Nat
  BY TimeAssumption DEF IInv, TypeOK
<1>2. row \in Order
  BY <1>1, NewOrderIsOrder DEF OrderStatus
<1>3. row.user = u /\ row.charger = c /\ IsActive(row) /\ RowMatchesStatus(row)
  BY <1>1 DEF NewOrder, IsActive, RowMatchesStatus, NoTime
<1>4. IndexesAdmit(u, c) /\ InsertOrder(c, row)
  BY DEF Reserve
<1>5. QED
  BY <1>2, <1>3, <1>4, InsertOrderPreserves

(* charge.start without a reservation.                                     *)
LEMMA StartDirectPreserves ==
  ASSUME IInv, NEW u \in Users, NEW c \in Chargers, StartDirect(u, c)
  PROVE  IInv'
<1> DEFINE row == NewOrder(u, c, "Charging", NoTime, now)
<1>1. TypeOK /\ now \in Nat
  BY DEF IInv, TypeOK
<1>2. row \in Order
  BY <1>1, NewOrderIsOrder DEF OrderStatus
<1>3. row.user = u /\ row.charger = c /\ IsActive(row) /\ RowMatchesStatus(row)
  BY <1>1 DEF NewOrder, IsActive, RowMatchesStatus, NoTime
<1>4. IndexesAdmit(u, c) /\ InsertOrder(c, row)
  BY DEF StartDirect
<1>5. QED
  BY <1>2, <1>3, <1>4, InsertOrderPreserves

(* charge.start on a reservation that has not lapsed.                      *)
LEMMA BeginChargingPreserves ==
  ASSUME IInv, NEW u \in Users, NEW o \in DOMAIN order, BeginCharging(u, o)
  PROVE  IInv'
<1> DEFINE row == [SweptOrder[o] EXCEPT !.status = "Charging", !.startTime = now]
<1>1. TypeOK /\ now \in Nat
  BY DEF IInv, TypeOK
<1>2. /\ SweptOrder \in Seq(Order) /\ SweptCharger \in [Chargers -> ChargerStatus]
      /\ o \in DOMAIN SweptOrder
  BY <1>1, SweptOrderType, SweptChargerType
<1>3. SweptOrder[o] \in Order /\ SweptOrder[o].status = "Reserved" /\ RowMatchesStatus(SweptOrder[o])
  BY <1>2, SweepPreserves DEF BeginCharging
<1>4. row \in Order
  BY <1>1, <1>3 DEF Order, OrderStatus
<1>5. /\ IsActive(SweptOrder[o]) /\ IsActive(row) /\ RowMatchesStatus(row)
      /\ row.user = SweptOrder[o].user /\ row.charger = SweptOrder[o].charger
  BY <1>1, <1>3 DEF Order, IsActive, RowMatchesStatus, NoTime
<1>6. order' = [SweptOrder EXCEPT ![o] = row] /\ charger' = SweptCharger
  BY DEF BeginCharging
<1> HIDE DEF row
<1>7. order' \in Seq(Order) /\ DOMAIN order' = DOMAIN SweptOrder
  BY <1>2, <1>4, <1>6, UpdateIsTable
<1>8. /\ Agree(order', charger')
      /\ Disjoint(order')
      /\ \A p \in DOMAIN order' : RowMatchesStatus(order'[p])
  BY <1>2, <1>4, <1>5, <1>6, <1>7, SweepPreserves, ProgressPreserves
<1>9. TypeOK'
  BY <1>1, <1>2, <1>6, <1>7 DEF BeginCharging, TypeOK
<1>10. QED
  BY <1>8, <1>9 DEF IInv, UsingMeansOrdered, ActiveOrdersDisjoint, ColumnsMatchStatus

(* charge.cancel frees the charger together with the order.                *)
LEMMA CancelPreserves ==
  ASSUME IInv, NEW u \in Users, NEW o \in DOMAIN order, Cancel(u, o)
  PROVE  IInv'
<1> DEFINE row == [SweptOrder[o] EXCEPT !.status = "Cancelled", !.endTime = now]
<1>1. TypeOK /\ now \in Nat
  BY DEF IInv, TypeOK
<1>2. /\ SweptOrder \in Seq(Order) /\ SweptCharger \in [Chargers -> ChargerStatus]
      /\ o \in DOMAIN SweptOrder
  BY <1>1, SweptOrderType, SweptChargerType
<1>3. SweptOrder[o] = order[o] /\ order[o] \in Order /\ order[o].status = "Reserved"
  BY <1>1, SweptRow DEF Cancel, MayCancel, TypeOK
<1>4. row \in Order
  BY <1>1, <1>3 DEF Order, OrderStatus
<1>5. /\ IsActive(SweptOrder[o]) /\ ~IsActive(row) /\ RowMatchesStatus(row)
      /\ row.charger = SweptOrder[o].charger /\ row.charger = order[o].charger
  BY <1>1, <1>3 DEF Order, IsActive, RowMatchesStatus
<1>6. order' = [SweptOrder EXCEPT ![o] = row] /\ charger' = [SweptCharger EXCEPT ![row.charger] = "Idle"]
  BY <1>5 DEF Cancel
<1> HIDE DEF row
<1>7. order' \in Seq(Order) /\ DOMAIN order' = DOMAIN SweptOrder
  BY <1>2, <1>4, <1>6, UpdateIsTable
<1>8. /\ Agree(order', charger')
      /\ Disjoint(order')
      /\ \A p \in DOMAIN order' : RowMatchesStatus(order'[p])
  BY <1>2, <1>4, <1>5, <1>6, <1>7, SweepPreserves, EndPreserves
<1>9. charger' \in [Chargers -> ChargerStatus]
  BY <1>2, <1>6 DEF ChargerStatus
<1>10. TypeOK'
  BY <1>1, <1>7, <1>9 DEF Cancel, TypeOK
<1>11. QED
  BY <1>8, <1>10 DEF IInv, UsingMeansOrdered, ActiveOrdersDisjoint, ColumnsMatchStatus

(* Arithmetic for the bill.                                                *)
LEMMA NatProduct == ASSUME NEW a \in Nat, NEW b \in Nat PROVE a * b \in Nat
  OBVIOUS

(* Arithmetic for the minutes of use.                                      *)
LEMMA NatQuotient == ASSUME NEW a \in Nat, NEW b \in Nat \ {0} PROVE a \div b \in Nat
  OBVIOUS

(* The bill and what is left of a balance are amounts of money: the clock  *)
(* may have been set back and the balance may be short.                    *)
LEMMA BillIsMoney ==
  ASSUME NEW row \in Order, row.startTime # NoTime, NEW end \in Nat, NEW b \in Nat
  PROVE  /\ Elapsed(row, end) \in Nat
         /\ AmountDue(row, end) \in Nat
         /\ SubtractFloorZero(b, AmountDue(row, end)) \in Nat
         /\ SubtractFloorZero(AmountDue(row, end), b) \in Nat
<1>1. row.startTime \in Nat /\ row.price \in Nat
  BY DEF Order
<1>2. Elapsed(row, end) \in Nat
  BY <1>1 DEF Elapsed
<1>3. AmountDue(row, end) \in Nat
  BY <1>1, <1>2, NatProduct DEF AmountDue
<1>4. ASSUME NEW x \in Nat, NEW y \in Nat PROVE SubtractFloorZero(x, y) \in Nat
  BY DEF SubtractFloorZero
<1>5. QED
  BY <1>2, <1>3, <1>4

(* charge.settle ends the order and frees the charger, without a sweep.    *)
LEMMA SettlePreserves ==
  ASSUME IInv, NEW u \in Users, NEW o \in DOMAIN order, Settle(u, o)
  PROVE  IInv'
<1> DEFINE cost == AmountDue(order[o], now)
           left == SubtractFloorZero(balance[u], cost)
           row == [order[o] EXCEPT !.status = "Completed", !.endTime = now,
                                   !.amount = cost,
                                   !.debt = SubtractFloorZero(cost, balance[u]),
                                   !.balanceAfter = left]
           c == order[o].charger
<1>1. TypeOK /\ now \in Nat /\ order \in Seq(Order) /\ order[o] \in Order /\ balance[u] \in Nat
  BY DEF IInv, TypeOK
<1>2. order[o].status = "Charging" /\ order[o].startTime # NoTime
  BY DEF Settle, MaySettle, IInv, ColumnsMatchStatus, RowMatchesStatus
<1>3. /\ Elapsed(order[o], now) \in Nat
      /\ cost \in Nat
      /\ left \in Nat
      /\ SubtractFloorZero(cost, balance[u]) \in Nat
  BY <1>1, <1>2, BillIsMoney
<1>4. /\ order' = [order EXCEPT ![o] = row]
      /\ charger' = [charger EXCEPT ![c] = "Idle"]
      /\ usage' = [usage EXCEPT ![c] =
                      [count   |-> @.count + 1,
                       minutes |-> @.minutes + Elapsed(order[o], now) \div MinuteLength]]
      /\ balance' = [balance EXCEPT ![u] = left]
      /\ UNCHANGED <<now, frozen, recharged, price>>
  BY DEF Settle
<1> HIDE DEF cost, left
<1>5. row \in Order
  BY <1>1, <1>3 DEF Order, OrderStatus
<1>6. /\ IsActive(order[o]) /\ ~IsActive(row) /\ RowMatchesStatus(row)
      /\ row.charger = c
  BY <1>1, <1>2 DEF Order, IsActive, RowMatchesStatus
<1> HIDE DEF row
<1>7. order' \in Seq(Order) /\ DOMAIN order' = DOMAIN order
  BY <1>1, <1>4, <1>5, UpdateIsTable
<1>8. /\ Agree(order', charger')
      /\ Disjoint(order')
      /\ \A p \in DOMAIN order' : RowMatchesStatus(order'[p])
  <2>1. /\ charger \in [Chargers -> ChargerStatus] /\ Agree(order, charger) /\ Disjoint(order)
        /\ \A p \in DOMAIN order : RowMatchesStatus(order[p])
    BY DEF IInv, TypeOK, UsingMeansOrdered, ActiveOrdersDisjoint, ColumnsMatchStatus
  <2>2. QED
    BY <1>1, <1>4, <1>5, <1>6, <1>7, <2>1, EndPreserves
<1>9. usage' \in [Chargers -> [count : Nat, minutes : Nat]]
  <2>1. Elapsed(order[o], now) \div MinuteLength \in Nat
    BY <1>3, NatQuotient, TimeAssumption
  <2>2. c \in Chargers /\ usage \in [Chargers -> [count : Nat, minutes : Nat]]
    BY <1>1 DEF Order, TypeOK
  <2> HIDE DEF c
  <2>3. QED
    BY <1>4, <2>1, <2>2
<1>10. charger' \in [Chargers -> ChargerStatus] /\ balance' \in [Users -> Nat]
  BY <1>1, <1>3, <1>4 DEF TypeOK, ChargerStatus
<1>11. TypeOK'
  BY <1>1, <1>4, <1>7, <1>9, <1>10 DEF TypeOK
<1>12. QED
  BY <1>8, <1>11 DEF IInv, UsingMeansOrdered, ActiveOrdersDisjoint, ColumnsMatchStatus

(* wallet.recharge.                                                        *)
LEMMA RechargePreserves ==
  ASSUME IInv, NEW u \in Users, NEW a \in RechargeAmounts, Recharge(u, a)
  PROVE  IInv'
<1>1. a \in Nat
  BY MoneyAssumption
<1>2. TypeOK'
  BY <1>1 DEF IInv, TypeOK, Recharge
<1>3. QED
  BY <1>2 DEF Recharge, IInv, UsingMeansOrdered, ActiveOrdersDisjoint, ColumnsMatchStatus

(* The administrator moves a charger only between states other than "Using"*)
(* and only while no active order is on it.                                *)
LEMMA IdleChangePreserves ==
  ASSUME IInv, NEW c \in Chargers, charger[c] # "Using",
         NEW next \in ChargerStatus \ {"Using"},
         charger' = [charger EXCEPT ![c] = next],
         UNCHANGED <<now, order, frozen, balance, recharged, price>>,
         usage' \in [Chargers -> [count : Nat, minutes : Nat]]
  PROVE  IInv'
<1>1. TypeOK'
  BY DEF IInv, TypeOK
<1>2. \A d \in Chargers : charger'[d] = "Using" <=> charger[d] = "Using"
  BY DEF IInv, TypeOK
<1>3. \A d \in Chargers : ActiveOn(order', d) = ActiveOn(order, d)
  OBVIOUS
<1>4. QED
  BY <1>1, <1>2, <1>3 DEF IInv, UsingMeansOrdered, Agree, ActiveOrdersDisjoint, ColumnsMatchStatus

(* The administrator's four operations on a charger.                       *)
LEMMA ChargerAdminPreserves ==
  ASSUME IInv, NEW c \in Chargers,
         MarkFault(c) \/ Recover(c) \/ RemoveCharger(c) \/ CreateCharger(c)
  PROVE  IInv'
<1>1. usage \in [Chargers -> [count : Nat, minutes : Nat]]
  BY DEF IInv, TypeOK
<1>2. CASE MarkFault(c)
  BY <1>1, <1>2, IdleChangePreserves DEF MarkFault, ChangeStatus, ChargerStatus
<1>3. CASE Recover(c)
  BY <1>1, <1>3, IdleChangePreserves DEF Recover, ChangeStatus, ChargerStatus
<1>4. CASE RemoveCharger(c)
  BY <1>1, <1>4, IdleChangePreserves DEF RemoveCharger, ChargerStatus
<1>5. CASE CreateCharger(c)
  <2>1. usage' \in [Chargers -> [count : Nat, minutes : Nat]]
    BY <1>1, <1>5 DEF CreateCharger, Unused
  <2>2. QED
    BY <1>5, <2>1, IdleChangePreserves DEF CreateCharger, ChargerStatus
<1>6. QED
  BY <1>2, <1>3, <1>4, <1>5

(* Steps that write neither the order table nor a charger.                 *)
LEMMA OtherRowsPreserve ==
  ASSUME IInv, UNCHANGED <<order, charger, usage, recharged>>,
         now' \in Nat, frozen' \in [Users -> BOOLEAN], price' \in Nat, balance' \in [Users -> Nat]
  PROVE  IInv'
  BY DEF IInv, TypeOK, UsingMeansOrdered, Agree, ActiveOn, ActiveOrdersDisjoint, Disjoint,
         ColumnsMatchStatus

(* Freezing and unfreezing an account leave its order as it is.            *)
LEMMA SetFrozenPreserves ==
  ASSUME IInv, NEW u \in Users, NEW value \in BOOLEAN, SetFrozen(u, value)
  PROVE  IInv'
<1>1. frozen' \in [Users -> BOOLEAN]
  BY DEF IInv, TypeOK, SetFrozen
<1>2. QED
  BY <1>1, OtherRowsPreserve DEF SetFrozen, IInv, TypeOK

(* A new price is for orders made after it.                                *)
LEMMA UpdatePricePreserves ==
  ASSUME IInv, NEW p \in Prices, UpdatePrice(p)
  PROVE  IInv'
  BY MoneyAssumption, OtherRowsPreserve DEF UpdatePrice, IInv, TypeOK

(* The wall clock, running or set back.                                    *)
LEMMA ClockPreserves ==
  ASSUME IInv, Tick \/ StepBack
  PROVE  IInv'
<1>1. now' \in Nat
  BY DEF IInv, TypeOK, Tick, StepBack
<1>2. QED
  BY <1>1, OtherRowsPreserve DEF Tick, StepBack, ClockUnchanged, IInv, TypeOK

(* The empty tables of a new platform satisfy the invariant.               *)
LEMMA InitEstablishes == Init => IInv
<1> SUFFICES ASSUME Init PROVE IInv
  OBVIOUS
<1>1. order = <<>> /\ DOMAIN order = {} /\ order \in Seq(Order)
  BY DEF Init
<1>2. TypeOK
  BY <1>1, MoneyAssumption DEF Init, TypeOK, ChargerStatus, Unused
<1>3. QED
  BY <1>1, <1>2 DEF Init, IInv, UsingMeansOrdered, Agree, ActiveOn, ActiveOrdersDisjoint,
                    Disjoint, ColumnsMatchStatus

(* Every operation keeps the invariant.                                    *)
LEMMA UserStepPreserves == ASSUME IInv, UserStep PROVE IInv'
<1>1. CASE \E u \in Users, c \in Chargers :
             Reserve(u, c) \/ StartHeld(u, c) \/ StartLapsedAt(u, c) \/ StartDirect(u, c)
  <2>1. PICK u \in Users, c \in Chargers :
          Reserve(u, c) \/ StartHeld(u, c) \/ StartLapsedAt(u, c) \/ StartDirect(u, c)
    BY <1>1
  <2>2. CASE Reserve(u, c)
    BY <2>2, ReservePreserves
  <2>3. CASE StartHeld(u, c)
    <3>1. PICK o \in ActiveFor(SweptOrder, u) : BeginCharging(u, o)
      BY <2>3 DEF StartHeld
    <3>2. o \in DOMAIN order
      BY SweptOrderType DEF ActiveFor, IInv
    <3>3. QED
      BY <3>1, <3>2, BeginChargingPreserves
  <2>4. CASE StartLapsedAt(u, c)
    BY <2>4, CommitSweepPreserves DEF StartLapsedAt
  <2>5. CASE StartDirect(u, c)
    BY <2>5, StartDirectPreserves
  <2>6. QED
    BY <2>1, <2>2, <2>3, <2>4, <2>5
<1>2. CASE \E u \in Users, o \in DOMAIN order :
             \/ StartReserved(u, o) \/ StartLapsed(u, o)
             \/ Cancel(u, o) \/ CancelLapsed(u, o)
             \/ Settle(u, o)
  <2>1. PICK u \in Users, o \in DOMAIN order :
          \/ StartReserved(u, o) \/ StartLapsed(u, o)
          \/ Cancel(u, o) \/ CancelLapsed(u, o)
          \/ Settle(u, o)
    BY <1>2
  <2>2. CASE StartReserved(u, o)
    BY <2>2, BeginChargingPreserves DEF StartReserved
  <2>3. CASE StartLapsed(u, o) \/ CancelLapsed(u, o)
    BY <2>3, CommitSweepPreserves DEF StartLapsed, CancelLapsed
  <2>4. CASE Cancel(u, o)
    BY <2>4, CancelPreserves
  <2>5. CASE Settle(u, o)
    BY <2>5, SettlePreserves
  <2>6. QED
    BY <2>1, <2>2, <2>3, <2>4, <2>5
<1>3. CASE \E u \in Users, a \in RechargeAmounts : Recharge(u, a)
  BY <1>3, RechargePreserves
<1>4. CASE Active \/ CleanupExpired
  BY <1>4, CommitSweepPreserves DEF Active, CleanupExpired
<1>5. QED
  BY <1>1, <1>2, <1>3, <1>4 DEF UserStep

(* So does every step of the administrator.                                *)
LEMMA AdminStepPreserves == ASSUME IInv, AdminStep PROVE IInv'
<1>1. CASE \E c \in Chargers :
             MarkFault(c) \/ Recover(c) \/ RemoveCharger(c) \/ CreateCharger(c)
  BY <1>1, ChargerAdminPreserves
<1>2. CASE \E u \in Users : FreezeUser(u) \/ UnfreezeUser(u)
  BY <1>2, SetFrozenPreserves DEF FreezeUser, UnfreezeUser
<1>3. CASE \E p \in Prices : UpdatePrice(p)
  BY <1>3, UpdatePricePreserves
<1>4. QED
  BY <1>1, <1>2, <1>3 DEF AdminStep

(* The invariant is inductive.                                             *)
LEMMA NextPreserves == IInv /\ [Next]_vars => IInv'
<1> SUFFICES ASSUME IInv, [Next]_vars PROVE IInv'
  OBVIOUS
<1>1. CASE UserStep
  BY <1>1, UserStepPreserves
<1>2. CASE AdminStep
  BY <1>2, AdminStepPreserves
<1>3. CASE Tick \/ StepBack
  BY <1>3, ClockPreserves
<1>4. CASE UNCHANGED vars
  BY <1>4 DEF vars, IInv, TypeOK, UsingMeansOrdered, Agree, ActiveOn, ActiveOrdersDisjoint,
              Disjoint, ColumnsMatchStatus
<1>5. QED
  BY <1>1, <1>2, <1>3, <1>4 DEF Next

-----------------------------------------------------------------------------
(* The inductive invariant holds of every behaviour of the platform.       *)
THEOREM InvariantHolds == Spec => []IInv
  BY InitEstablishes, NextPreserves, PTL DEF Spec

(* Every column of every table keeps its type: no balance goes negative,   *)
(* whatever the bill, and no counter or time does, whatever the clock.     *)
THEOREM TypesHold == Spec => []TypeOK
<1>1. IInv => TypeOK
  BY DEF IInv
<1>2. QED
  BY <1>1, InvariantHolds, PTL

(* A charger is in use exactly while some order on it is active.           *)
THEOREM ChargersAgreeWithOrders == Spec => []UsingMeansOrdered
<1>1. IInv => UsingMeansOrdered
  BY DEF IInv
<1>2. QED
  BY <1>1, InvariantHolds, PTL

(* Two active orders share neither a user nor a charger.                   *)
THEOREM ActiveOrdersAreDisjoint == Spec => []ActiveOrdersDisjoint
<1>1. IInv => ActiveOrdersDisjoint
  BY DEF IInv
<1>2. QED
  BY <1>1, InvariantHolds, PTL

(* The service's checks imply the unique indexes of active orders: since   *)
(* the swept tables still agree, an idle charger has no active order.      *)
THEOREM InsertsNeverConflict == Spec => []InsertNeverConflicts
<1>1. ASSUME IInv, NEW u \in Users, NEW c \in Chargers, Admits(u, c)
      PROVE  IndexesAdmit(u, c)
  <2>1. SweptCharger[c] # "Using" /\ ActiveFor(SweptOrder, u) = {}
    BY <1>1 DEF Admits
  <2>2. Agree(SweptOrder, SweptCharger)
    BY <1>1, SweepPreserves
  <2>3. QED
    BY <2>1, <2>2 DEF Agree, IndexesAdmit
<1>2. IInv => InsertNeverConflicts
  BY <1>1 DEF InsertNeverConflicts
<1>3. QED
  BY <1>2, InvariantHolds, PTL

(* The owner of an active order can always end it.  A reservation's        *)
(* charger stays in use through the sweep of the others because no lapsed  *)
(* reservation shares it.                                                  *)
THEOREM ActiveOrdersCanBeEnded == Spec => []ActiveOrdersCanEnd
<1>1. ASSUME IInv, NEW o \in DOMAIN order
      PROVE  /\ order[o].status = "Charging" => MaySettle(order[o].user, o)
             /\ order[o].status = "Reserved" /\ o \notin Expired => MayCancel(order[o].user, o)
  <2>1. TypeOK /\ order[o] \in Order /\ order[o].charger \in Chargers
    <3>1. TypeOK
      BY <1>1 DEF IInv
    <3>2. order[o] \in Order
      BY <1>1, <3>1 DEF TypeOK
    <3>3. QED
      BY <3>1, <3>2 DEF Order
  <2>2. CASE order[o].status = "Charging"
    <3>1. order[o].endTime = NoTime
      BY <1>1, <2>2 DEF IInv, ColumnsMatchStatus, RowMatchesStatus, IsActive
    <3>2. o \in ActiveOn(order, order[o].charger)
      BY <1>1, <2>2 DEF ActiveOn, IsActive
    <3>3. charger[order[o].charger] = "Using"
      BY <1>1, <2>1, <3>2 DEF IInv, UsingMeansOrdered, Agree
    <3>4. QED
      BY <2>2, <3>1, <3>3 DEF MaySettle
  <2>3. CASE order[o].status = "Reserved" /\ o \notin Expired
    <3>1. SweptOrder[o] = order[o] /\ DOMAIN SweptOrder = DOMAIN order
      BY <1>1, <2>1, <2>3, SweptRow, SweptOrderType
    <3>2. o \in ActiveOn(SweptOrder, order[o].charger)
      BY <1>1, <2>3, <3>1 DEF ActiveOn, IsActive
    <3>3. SweptCharger[order[o].charger] = "Using"
      BY <1>1, <2>1, <3>2, SweepPreserves DEF Agree
    <3>4. QED
      BY <2>3, <3>3 DEF MayCancel
  <2>4. QED
    BY <2>2, <2>3
<1>2. IInv => ActiveOrdersCanEnd
  BY <1>1 DEF ActiveOrdersCanEnd
<1>3. QED
  BY <1>2, InvariantHolds, PTL

-----------------------------------------------------------------------------
(* What one step does to one row that is there before it: nothing, a sweep *)
(* of a lapsed reservation, or its owner's start, cancel or settlement.    *)
RowStep(o) ==
  /\ o \in DOMAIN order'
  /\ \/ order'[o] = order[o]
     \/ o \in Expired /\ order'[o] = SweptOrder[o]
     \/ BeginCharging(order[o].user, o)
     \/ Cancel(order[o].user, o)
     \/ Settle(order[o].user, o)

(* A row the step leaves as the sweep made it.                             *)
LEMMA SweptIsRowStep ==
  ASSUME TypeOK, NEW o \in DOMAIN order, o \in DOMAIN order', order'[o] = SweptOrder[o]
  PROVE  RowStep(o)
  BY SweptRow DEF RowStep

(* An insert leaves the other rows as the sweep made them.                 *)
LEMMA InsertOrderSteps ==
  ASSUME TypeOK, NEW o \in DOMAIN order, NEW c, NEW row \in Order, InsertOrder(c, row)
  PROVE  RowStep(o)
<1>1. SweptOrder \in Seq(Order) /\ o \in DOMAIN SweptOrder /\ order' = Append(SweptOrder, row)
  BY SweptOrderType DEF InsertOrder
<1>2. o \in DOMAIN order' /\ order'[o] = SweptOrder[o]
  BY <1>1, AppendProperties
<1>3. QED
  BY <1>2, SweptIsRowStep

(* A start, a cancel and a settlement change the row they name.            *)
LEMMA OwnersStep ==
  ASSUME TypeOK, NEW o \in DOMAIN order, NEW u \in Users, NEW p \in DOMAIN order,
         BeginCharging(u, p) \/ Cancel(u, p) \/ Settle(u, p)
  PROVE  RowStep(o)
<1>1. SweptOrder \in Seq(Order) /\ DOMAIN SweptOrder = DOMAIN order
  BY SweptOrderType
<1>2. order[p].user = u
  BY DEF BeginCharging, Cancel, MayCancel, Settle, MaySettle
<1>3. CASE BeginCharging(u, p)
  <2>1. DOMAIN order' = DOMAIN order /\ (o # p => order'[o] = SweptOrder[o])
    BY <1>1, <1>3 DEF BeginCharging
  <2>2. QED
    BY <1>2, <1>3, <2>1, SweptIsRowStep DEF RowStep
<1>4. CASE Cancel(u, p)
  <2>1. DOMAIN order' = DOMAIN order /\ (o # p => order'[o] = SweptOrder[o])
    BY <1>1, <1>4 DEF Cancel
  <2>2. QED
    BY <1>2, <1>4, <2>1, SweptIsRowStep DEF RowStep
<1>5. CASE Settle(u, p)
  <2>1. DOMAIN order' = DOMAIN order /\ (o # p => order'[o] = order[o])
    BY <1>5 DEF Settle
  <2>2. QED
    BY <1>2, <1>5, <2>1 DEF RowStep
<1>6. QED
  BY <1>3, <1>4, <1>5

(* The sweep alone steps every row as the sweep does.                      *)
LEMMA CommitSweepSteps ==
  ASSUME TypeOK, NEW o \in DOMAIN order, CommitSweep
  PROVE  RowStep(o)
  BY SweptIsRowStep, SweptOrderType DEF CommitSweep

(* Every step of the platform is a step of each row.                       *)
LEMMA EveryRowSteps ==
  ASSUME IInv, [Next]_vars, NEW o \in DOMAIN order
  PROVE  RowStep(o)
<1>1. TypeOK /\ now \in Nat /\ now + ReservationTime \in Nat
  BY TimeAssumption DEF IInv, TypeOK
<1>2. CASE UserStep
  <2>1. ASSUME NEW u \in Users, NEW c \in Chargers, Reserve(u, c) PROVE RowStep(o)
    <3>1. NewOrder(u, c, "Reserved", now + ReservationTime, NoTime) \in Order
      BY <1>1, NewOrderIsOrder DEF OrderStatus
    <3>2. QED
      BY <1>1, <2>1, <3>1, InsertOrderSteps DEF Reserve
  <2>2. ASSUME NEW u \in Users, NEW c \in Chargers, StartDirect(u, c) PROVE RowStep(o)
    <3>1. NewOrder(u, c, "Charging", NoTime, now) \in Order
      BY <1>1, NewOrderIsOrder DEF OrderStatus
    <3>2. QED
      BY <1>1, <2>2, <3>1, InsertOrderSteps DEF StartDirect
  <2>3. ASSUME NEW u \in Users, NEW c \in Chargers, StartHeld(u, c) PROVE RowStep(o)
    <3>1. PICK p \in ActiveFor(SweptOrder, u) : BeginCharging(u, p)
      BY <2>3 DEF StartHeld
    <3>2. p \in DOMAIN order
      BY <1>1, SweptOrderType DEF ActiveFor
    <3>3. QED
      BY <1>1, <3>1, <3>2, OwnersStep
  <2>4. ASSUME NEW u \in Users, NEW p \in DOMAIN order,
               StartReserved(u, p) \/ Cancel(u, p) \/ Settle(u, p)
        PROVE  RowStep(o)
    BY <1>1, <2>4, OwnersStep DEF StartReserved
  <2>5. ASSUME CommitSweep PROVE RowStep(o)
    BY <1>1, <2>5, CommitSweepSteps
  <2>6. ASSUME NEW u \in Users, NEW a \in RechargeAmounts, Recharge(u, a) PROVE RowStep(o)
    BY <2>6 DEF Recharge, RowStep
  <2>7. ASSUME NEW u \in Users, NEW c \in Chargers, StartLapsedAt(u, c) PROVE RowStep(o)
    BY <2>5, <2>7 DEF StartLapsedAt
  <2>8. ASSUME NEW u \in Users, NEW p \in DOMAIN order, StartLapsed(u, p) \/ CancelLapsed(u, p)
        PROVE  RowStep(o)
    BY <2>5, <2>8 DEF StartLapsed, CancelLapsed
  <2>9. ASSUME Active \/ CleanupExpired PROVE RowStep(o)
    BY <2>5, <2>9 DEF Active, CleanupExpired
  <2>10. QED
    BY <1>2, <2>1, <2>2, <2>3, <2>4, <2>6, <2>7, <2>8, <2>9 DEF UserStep
<1>3. CASE AdminStep \/ Tick \/ StepBack \/ UNCHANGED vars
  <2>1. order' = order
    BY <1>3 DEF AdminStep, MarkFault, Recover, ChangeStatus, RemoveCharger, CreateCharger,
                FreezeUser, UnfreezeUser, SetFrozen, UpdatePrice, Tick, StepBack,
                ClockUnchanged, vars
  <2>2. QED
    BY <2>1 DEF RowStep
<1>4. QED
  BY <1>2, <1>3 DEF Next

-----------------------------------------------------------------------------
(* No step touches a finished order: it is not lapsed, and start, cancel   *)
(* and settle each ask for an active one.                                  *)
THEOREM FinishedOrdersStayFinal == Spec => FinishedOrdersFinal
<1>1. ASSUME IInv, [Next]_vars, NEW o \in DOMAIN order, ~IsActive(order[o])
      PROVE  FinishedStays(o)
  <2>1. o \notin Expired
    BY <1>1 DEF Expired, IsActive
  <2>2. TypeOK /\ SweptOrder[o] = order[o]
    BY <1>1, <2>1, SweptRow DEF IInv
  <2>3. ~BeginCharging(order[o].user, o) /\ ~Cancel(order[o].user, o) /\ ~Settle(order[o].user, o)
    BY <1>1, <2>2 DEF BeginCharging, Cancel, MayCancel, Settle, MaySettle, IsActive
  <2>4. QED
    BY <1>1, <2>1, <2>3, EveryRowSteps DEF RowStep, FinishedStays
<1>2. IInv /\ [Next]_vars =>
        [\A o \in DOMAIN order : ~IsActive(order[o]) => FinishedStays(o)]_vars
  BY <1>1
<1>3. QED
  BY <1>2, InvariantHolds, PTL DEF Spec, FinishedOrdersFinal

(* A start on a lapsed or an altered reservation is not a step.            *)
THEOREM StartsHonourReservations == Spec => StartHonoursReservation
<1>1. ASSUME IInv, [Next]_vars, NEW o \in DOMAIN order,
             order[o].status = "Reserved", order'[o].status = "Charging"
      PROVE  StartsInTime(o)
  <2>1. TypeOK /\ now \in Nat /\ order[o] \in Order
    <3>1. TypeOK
      BY <1>1 DEF IInv
    <3>2. QED
      BY <1>1, <3>1 DEF TypeOK
  <2>2. SweptOrder \in Seq(Order) /\ DOMAIN SweptOrder = DOMAIN order
    BY <2>1, SweptOrderType
  <2>3. CASE o \in Expired /\ order'[o] = SweptOrder[o]
    BY <1>1, <2>1, <2>3 DEF SweptOrder, Order
  <2>4. CASE Cancel(order[o].user, o)
    BY <1>1, <2>1, <2>2, <2>4, SweptRow DEF Cancel, MayCancel, Order
  <2>5. CASE Settle(order[o].user, o)
    BY <1>1, <2>5 DEF Settle, MaySettle
  <2>6. CASE BeginCharging(order[o].user, o)
    <3>1. order[o].expireAt > now
      BY <2>6 DEF BeginCharging
    <3>2. order[o].expireAt \in Nat \cup {NoTime}
      BY <2>1 DEF Order
    <3>3. o \notin Expired
      BY <2>1, <3>1, <3>2 DEF Expired, NoTime
    <3>4. SweptOrder[o] = order[o]
      BY <1>1, <2>1, <3>3, SweptRow
    <3>5. order'[o] = [order[o] EXCEPT !.status = "Charging", !.startTime = now]
      BY <1>1, <2>2, <2>6, <3>4 DEF BeginCharging
    <3>6. QED
      BY <2>1, <3>1, <3>2, <3>5 DEF StartsInTime, NoTime
  <2>7. QED
    BY <1>1, <2>3, <2>4, <2>5, <2>6, EveryRowSteps DEF RowStep
<1>2. IInv /\ [Next]_vars =>
        [\A o \in DOMAIN order :
           order[o].status = "Reserved" /\ order'[o].status = "Charging" => StartsInTime(o)]_vars
  BY <1>1
<1>3. QED
  BY <1>2, InvariantHolds, PTL DEF Spec, StartHonoursReservation

(* While a reservation has time left, no step of anyone else ends it.      *)
THEOREM ReservationsAreRespected == Spec => HoldsAreRespected
<1>1. ASSUME IInv, [Next]_vars, NEW o \in DOMAIN order,
             order[o].status = "Reserved", order[o].expireAt > now, order'[o].status # "Reserved"
      PROVE  CancelledOrStarted(o)
  <2>1. TypeOK /\ now \in Nat /\ order[o] \in Order
    <3>1. TypeOK
      BY <1>1 DEF IInv
    <3>2. QED
      BY <1>1, <3>1 DEF TypeOK
  <2>2. order[o].expireAt \in Nat \cup {NoTime}
    BY <2>1 DEF Order
  <2>3. o \notin Expired
    BY <1>1, <2>1, <2>2 DEF Expired, NoTime
  <2>4. ~Settle(order[o].user, o)
    BY <1>1 DEF Settle, MaySettle
  <2>5. QED
    BY <1>1, <2>3, <2>4, EveryRowSteps DEF RowStep, CancelledOrStarted
<1>2. IInv /\ [Next]_vars =>
        [\A o \in DOMAIN order :
           /\ order[o].status = "Reserved"
           /\ order[o].expireAt > now
           /\ order'[o].status # "Reserved"
           => CancelledOrStarted(o)]_vars
  BY <1>1
<1>3. QED
  BY <1>2, InvariantHolds, PTL DEF Spec, HoldsAreRespected

(* A settlement takes what its receipt says, in full or to the last cent   *)
(* of the balance.                                                         *)
LEMMA SettleReceipts ==
  ASSUME IInv, NEW u \in Users, NEW o \in DOMAIN order, Settle(u, o)
  PROVE  Receipts(u, o)
<1> DEFINE cost == AmountDue(order[o], now)
           left == SubtractFloorZero(balance[u], cost)
           debt == SubtractFloorZero(cost, balance[u])
<1>1. TypeOK /\ ColumnsMatchStatus
  BY DEF IInv
<1>2. order[o] \in Order /\ now \in Nat /\ balance[u] \in Nat
  BY <1>1 DEF TypeOK
<1>3. order[o].status = "Charging" /\ order[o].user = u /\ order[o].startTime # NoTime
  BY <1>1 DEF Settle, MaySettle, ColumnsMatchStatus, RowMatchesStatus
<1>4. cost \in Nat
  BY <1>2, <1>3, BillIsMoney
<1>5. /\ order'[o].status = "Completed"
      /\ order'[o].amount = cost
      /\ order'[o].debt = debt
      /\ order'[o].balanceAfter = left
  BY <1>2 DEF Settle, Order
<1>6. balance'[u] = left
  BY <1>1 DEF Settle, TypeOK
<1> HIDE DEF cost
<1>7. balance[u] - left = cost - debt
  BY <1>2, <1>4 DEF SubtractFloorZero
<1> HIDE DEF left, debt
<1>8. QED
  BY <1>3, <1>5, <1>6, <1>7 DEF Receipts

(* Nothing else takes money: a recharge adds to a balance.                 *)
THEOREM ChargesHaveReceipts == Spec => ChargesAreReceipted
<1>1. ASSUME IInv, [Next]_vars, NEW u \in Users, balance'[u] < balance[u]
      PROVE  \E o \in DOMAIN order : Receipts(u, o)
  <2>1. balance \in [Users -> Nat]
    BY <1>1 DEF IInv, TypeOK
  <2>2. CASE \E v \in Users, o \in DOMAIN order : Settle(v, o)
    <3>1. PICK v \in Users, o \in DOMAIN order : Settle(v, o)
      BY <2>2
    <3>2. v = u
      BY <1>1, <2>1, <3>1 DEF Settle
    <3>3. QED
      BY <1>1, <3>1, <3>2, SettleReceipts
  <2>3. CASE \E v \in Users, a \in RechargeAmounts : Recharge(v, a)
    <3>1. PICK v \in Users, a \in RechargeAmounts : balance' = [balance EXCEPT ![v] = @ + a]
      BY <2>3 DEF Recharge
    <3>2. a \in Nat /\ balance[v] \in Nat /\ balance[u] \in Nat
      BY <2>1, <3>1, MoneyAssumption
    <3>3. ~(balance'[u] < balance[u])
      BY <2>1, <3>1, <3>2
    <3>4. QED
      BY <1>1, <3>3
  <2>4. CASE balance' = balance
    BY <1>1, <2>1, <2>4
  <2>5. \/ \E v \in Users, o \in DOMAIN order : Settle(v, o)
        \/ \E v \in Users, a \in RechargeAmounts : Recharge(v, a)
        \/ balance' = balance
    <3>1. CASE UserStep
      BY <3>1 DEF UserStep, Reserve, StartHeld, StartLapsedAt, StartDirect, StartReserved,
                  StartLapsed, Cancel, CancelLapsed, Active, CleanupExpired, CommitSweep,
                  InsertOrder, BeginCharging
    <3>2. CASE AdminStep \/ Tick \/ StepBack \/ UNCHANGED vars
      BY <3>2 DEF AdminStep, MarkFault, Recover, ChangeStatus, RemoveCharger, CreateCharger,
                  FreezeUser, UnfreezeUser, SetFrozen, UpdatePrice, Tick, StepBack,
                  ClockUnchanged, vars
    <3>3. QED
      BY <1>1, <3>1, <3>2 DEF Next
  <2>6. QED
    BY <2>2, <2>3, <2>4, <2>5
<1>2. IInv /\ [Next]_vars =>
        [\A u \in Users : balance'[u] < balance[u] => \E o \in DOMAIN order : Receipts(u, o)]_vars
  BY <1>1
<1>3. QED
  BY <1>2, InvariantHolds, PTL DEF Spec, ChargesAreReceipted

-----------------------------------------------------------------------------
(* Receipts.                                                               *)

\* ReceiptsAddUp, said of one row
Adds(row) ==
  row.status = "Completed" =>
    /\ row.startTime # NoTime
    /\ row.amount = AmountDue(row, row.endTime)
    /\ row.debt <= row.amount
    /\ row.debt > 0 => row.balanceAfter = 0

(* The last row of a table an insert has lengthened is the one inserted.   *)
LEMMA InsertedRow ==
  ASSUME TypeOK, NEW c, NEW row \in Order, InsertOrder(c, row),
         NEW o \in DOMAIN order', o \notin DOMAIN order
  PROVE  order'[o] = row
<1>1. /\ SweptOrder \in Seq(Order) /\ DOMAIN SweptOrder = DOMAIN order
      /\ order' = Append(SweptOrder, row)
  BY SweptOrderType DEF InsertOrder
<1>2. /\ DOMAIN order' = 1..(Len(SweptOrder) + 1) /\ Len(SweptOrder) \in Nat
      /\ DOMAIN SweptOrder = 1..Len(SweptOrder)
      /\ order'[Len(SweptOrder) + 1] = row
  BY <1>1, AppendProperties
<1>3. o = Len(SweptOrder) + 1
  BY <1>1, <1>2
<1>4. QED
  BY <1>2, <1>3

(* A row is made by reserve or by a direct start, and is active then.      *)
LEMMA NewRowsAreActive ==
  ASSUME IInv, [Next]_vars, NEW o \in DOMAIN order', o \notin DOMAIN order
  PROVE  IsActive(order'[o])
<1>1. TypeOK /\ now \in Nat /\ now + ReservationTime \in Nat
  BY TimeAssumption DEF IInv, TypeOK
<1>2. DOMAIN SweptOrder = DOMAIN order /\ SweptOrder \in Seq(Order)
  BY <1>1, SweptOrderType
<1>3. ASSUME NEW u \in Users, NEW c \in Chargers, Reserve(u, c) PROVE IsActive(order'[o])
  <2>1. NewOrder(u, c, "Reserved", now + ReservationTime, NoTime) \in Order
    BY <1>1, NewOrderIsOrder DEF OrderStatus
  <2>2. order'[o] = NewOrder(u, c, "Reserved", now + ReservationTime, NoTime)
    BY <1>1, <1>3, <2>1, InsertedRow DEF Reserve
  <2>3. QED
    BY <2>2 DEF NewOrder, IsActive
<1>4. ASSUME NEW u \in Users, NEW c \in Chargers, StartDirect(u, c) PROVE IsActive(order'[o])
  <2>1. NewOrder(u, c, "Charging", NoTime, now) \in Order
    BY <1>1, NewOrderIsOrder DEF OrderStatus
  <2>2. order'[o] = NewOrder(u, c, "Charging", NoTime, now)
    BY <1>1, <1>4, <2>1, InsertedRow DEF StartDirect
  <2>3. QED
    BY <2>2 DEF NewOrder, IsActive
<1>5. ASSUME DOMAIN order' = DOMAIN order PROVE FALSE
  BY <1>5
<1>6. CASE UserStep
  <2>1. CASE \E u \in Users, c \in Chargers : Reserve(u, c) \/ StartDirect(u, c)
    BY <1>3, <1>4, <2>1
  <2>2. CASE CommitSweep
    BY <1>2, <1>5, <2>2 DEF CommitSweep
  <2>3. CASE \E u \in Users, p \in DOMAIN order : BeginCharging(u, p) \/ Cancel(u, p) \/ Settle(u, p)
    BY <1>2, <1>5, <2>3 DEF BeginCharging, Cancel, Settle
  <2>4. CASE \E u \in Users, a \in RechargeAmounts : Recharge(u, a)
    BY <1>5, <2>4 DEF Recharge
  <2>5. CASE \E u \in Users, c \in Chargers : StartHeld(u, c)
    BY <1>2, <2>3, <2>5 DEF StartHeld, ActiveFor
  <2>6. QED
    BY <1>6, <2>1, <2>2, <2>3, <2>4, <2>5
    DEF UserStep, StartLapsedAt, StartReserved, StartLapsed, CancelLapsed, Active, CleanupExpired
<1>7. CASE AdminStep \/ Tick \/ StepBack \/ UNCHANGED vars
  <2>1. order' = order
    BY <1>7 DEF AdminStep, MarkFault, Recover, ChangeStatus, RemoveCharger, CreateCharger,
                FreezeUser, UnfreezeUser, SetFrozen, UpdatePrice, Tick, StepBack,
                ClockUnchanged, vars
  <2>2. QED
    BY <1>5, <2>1
<1>8. QED
  BY <1>6, <1>7 DEF Next

(* The receipt a settlement writes adds up, whatever the balance was and   *)
(* wherever the clock has been.                                            *)
LEMMA SettlementAddsUp ==
  ASSUME IInv, NEW u \in Users, NEW o \in DOMAIN order, Settle(u, o)
  PROVE  Adds(order'[o])
<1> DEFINE cost == AmountDue(order[o], now)
           left == SubtractFloorZero(balance[u], cost)
           debt == SubtractFloorZero(cost, balance[u])
<1>1. TypeOK /\ ColumnsMatchStatus
  BY DEF IInv
<1>2. order[o] \in Order /\ now \in Nat /\ balance[u] \in Nat
  BY <1>1 DEF TypeOK
<1>3. order[o].startTime # NoTime
  BY <1>1 DEF Settle, MaySettle, ColumnsMatchStatus, RowMatchesStatus
<1>4. cost \in Nat
  BY <1>2, <1>3, BillIsMoney
<1>5. /\ order'[o].amount = cost
      /\ order'[o].debt = debt
      /\ order'[o].balanceAfter = left
      /\ order'[o].startTime = order[o].startTime
      /\ order'[o].price = order[o].price
      /\ order'[o].endTime = now
  BY <1>2 DEF Settle, Order
<1>6. AmountDue(order'[o], order'[o].endTime) = cost
  BY <1>5 DEF AmountDue, Elapsed
<1> HIDE DEF cost
<1>7. debt <= cost /\ (debt > 0 => left = 0)
  BY <1>2, <1>4 DEF SubtractFloorZero
<1> HIDE DEF left, debt
<1>8. QED
  BY <1>3, <1>5, <1>6, <1>7 DEF Adds

(* No step leaves a receipt that does not add up: a settlement writes one  *)
(* that does, and a finished row is never written again.                   *)
LEMMA ReceiptsStep ==
  ASSUME IInv, ReceiptsAddUp, [Next]_vars, NEW o \in DOMAIN order'
  PROVE  Adds(order'[o])
<1>1. CASE o \notin DOMAIN order
  BY <1>1, NewRowsAreActive DEF IsActive, Adds
<1>2. CASE o \in DOMAIN order
  <2>1. TypeOK /\ order[o] \in Order /\ DOMAIN SweptOrder = DOMAIN order /\ SweptOrder \in Seq(Order)
    BY <1>2, SweptOrderType DEF IInv, TypeOK
  <2>2. SweptOrder[o] \in Order /\ o \in DOMAIN SweptOrder
    BY <1>2, <2>1
  <2>3. CASE order'[o] = order[o]
    BY <1>2, <2>3 DEF ReceiptsAddUp, Adds
  <2>4. CASE o \in Expired /\ order'[o] = SweptOrder[o]
    <3>1. order'[o].status = "Cancelled"
      BY <1>2, <2>1, <2>4 DEF SweptOrder, Order
    <3>2. QED
      BY <3>1 DEF Adds
  <2>5. CASE BeginCharging(order[o].user, o)
    <3>1. order'[o].status = "Charging"
      BY <2>5, <2>2 DEF BeginCharging, Order
    <3>2. QED
      BY <3>1 DEF Adds
  <2>6. CASE Cancel(order[o].user, o)
    <3>1. order'[o].status = "Cancelled"
      BY <2>6, <2>2 DEF Cancel, Order
    <3>2. QED
      BY <3>1 DEF Adds
  <2>7. CASE Settle(order[o].user, o)
    <3>1. order[o].user \in Users
      BY <2>1 DEF Order
    <3>2. QED
      BY <1>2, <2>7, <3>1, SettlementAddsUp
  <2>8. QED
    BY <1>2, <2>3, <2>4, <2>5, <2>6, <2>7, EveryRowSteps DEF RowStep
<1>3. QED
  BY <1>1, <1>2

(* Every receipt bills the time charged at the price agreed, and records a *)
(* debt only where the balance was used up.                                *)
THEOREM ReceiptsAlwaysAddUp == Spec => []ReceiptsAddUp
<1>1. Init => ReceiptsAddUp
  BY DEF Init, ReceiptsAddUp
<1>2. IInv /\ ReceiptsAddUp /\ [Next]_vars => ReceiptsAddUp'
  <2> SUFFICES ASSUME IInv, ReceiptsAddUp, [Next]_vars PROVE ReceiptsAddUp'
    OBVIOUS
  <2>1. \A o \in DOMAIN order' : Adds(order'[o])
    BY ReceiptsStep
  <2>2. ReceiptsAddUp' <=> \A o \in DOMAIN order' : Adds(order'[o])
    BY DEF ReceiptsAddUp, Adds, AmountDue, Elapsed
  <2>3. QED
    BY <2>1, <2>2
<1>3. QED
  BY <1>1, <1>2, InvariantHolds, PTL DEF Spec

-----------------------------------------------------------------------------
(***************************************************************************)
(* Sums over finite sets.  A claim about a sum is shown by looking at a    *)
(* smallest set of which it would be false.                                *)
(***************************************************************************)

(* A property of some subset of a finite set is one of a smallest subset.  *)
LEMMA SmallestSubset ==
  ASSUME NEW S, IsFiniteSet(S), NEW T, T \subseteq SUBSET S, T # {}
  PROVE  \E s \in T : \A t \in T : t \subseteq s => t = s
<1>1. IsWellFoundedOn(StrictSubsetOrdering(S), SUBSET S)
  BY FS_StrictSubsetOrderingWellFounded, FS_FiniteSubsetsOfFinite
<1>2. PICK s \in T : \A t \in T : <<t, s>> \notin StrictSubsetOrdering(S)
  BY <1>1, WFMin, Zenon
<1>3. QED
  BY <1>2 DEF StrictSubsetOrdering

\* g adds up f on the subsets of S, as the recursive function behind
\* SumFunctionOnSet does
Addend(g, f, s) ==
  IF s = {} THEN 0 ELSE LET x == CHOOSE x \in s : TRUE IN f[x] + g[s \ {x}]
IsTotal(g, f, S) == \A s \in SUBSET S : g[s] = Addend(g, f, s)

(* There is one way to add up.                                             *)
LEMMA TotalsAgree ==
  ASSUME NEW S, IsFiniteSet(S), NEW f, NEW h, \A x \in S : f[x] = h[x],
         NEW g, IsTotal(g, f, S), NEW k, IsTotal(k, h, S)
  PROVE  \A s \in SUBSET S : g[s] = k[s]
<1> DEFINE T == {s \in SUBSET S : g[s] # k[s]}
<1> SUFFICES ASSUME T # {} PROVE FALSE
  OBVIOUS
<1>1. PICK s \in T : \A t \in T : t \subseteq s => t = s
  <2>1. T \subseteq SUBSET S /\ T # {}
    OBVIOUS
  <2> HIDE DEF T
  <2>2. QED
    BY <2>1, SmallestSubset, SMT
<1>2. g[s] = Addend(g, f, s) /\ k[s] = Addend(k, h, s) /\ g[s] # k[s]
  BY <1>1 DEF IsTotal
<1>3. CASE s = {}
  BY <1>2, <1>3 DEF Addend
<1>4. CASE s # {}
  <2>1. PICK x \in s : x = CHOOSE y \in s : TRUE
    BY <1>4
  <2>2. g[s] = f[x] + g[s \ {x}] /\ k[s] = h[x] + k[s \ {x}]
    BY <1>2, <1>4, <2>1 DEF Addend
  <2>3. f[x] = h[x]
    BY <1>1, <2>1
  <2>4. g[s \ {x}] = k[s \ {x}]
    BY <1>1, <2>1
  <2>5. QED
    BY <1>2, <2>2, <2>3, <2>4
<1>5. QED
  BY <1>3, <1>4

LEMMA TotalBelow ==
  ASSUME NEW S, NEW f, NEW g, IsTotal(g, f, S), NEW R \in SUBSET S
  PROVE  IsTotal(g, f, R)
BY DEF IsTotal

(* and there is one.                                                       *)
LEMMA TotalExists ==
  ASSUME NEW S, IsFiniteSet(S), NEW f
  PROVE  \E g : g = [s \in SUBSET S |-> Addend(g, f, s)]
<1> DEFINE T == {s \in SUBSET S : ~ \E g : IsTotal(g, f, s)}
<1>1. T = {}
  <2> SUFFICES ASSUME T # {} PROVE FALSE
    OBVIOUS
  <2>1. PICK s \in T : \A t \in T : t \subseteq s => t = s
    <3>1. T \subseteq SUBSET S /\ T # {}
      OBVIOUS
    <3> HIDE DEF T
    <3>2. QED
      BY <3>1, SmallestSubset, SMT
  <2> DEFINE part(t) == CHOOSE g : IsTotal(g, f, t)
  <2>2. ASSUME NEW t \in SUBSET s, t # s PROVE IsTotal(part(t), f, t)
    <3>1. \E g : IsTotal(g, f, t)
      BY <2>1, <2>2
    <3>2. QED
      BY <3>1
  <2> DEFINE x == CHOOSE y \in s : TRUE
             value == IF s = {} THEN 0 ELSE f[x] + part(s \ {x})[s \ {x}]
             g == [t \in SUBSET s |-> IF t = s THEN value ELSE part(t)[t]]
  <2>3. ASSUME NEW t \in SUBSET s PROVE g[t] = Addend(g, f, t)
    <3>1. CASE t = {}
      <4>1. CASE s = {}
        BY <3>1, <4>1 DEF Addend
      <4>2. CASE s # {}
        BY <2>2, <3>1, <4>2 DEF Addend, IsTotal
      <4>3. QED
        BY <4>1, <4>2
    <3>2. CASE t # {}
      <4>1. PICK y \in t : y = CHOOSE z \in t : TRUE
        BY <3>2
      <4>2. Addend(g, f, t) = f[y] + g[t \ {y}]
        BY <3>2, <4>1 DEF Addend
      <4>3. t \ {y} \in SUBSET s /\ t \ {y} # s
        BY <4>1
      <4>4. g[t \ {y}] = part(t \ {y})[t \ {y}]
        BY <4>3
      <4>5. CASE t = s
        BY <3>2, <4>1, <4>2, <4>4, <4>5
      <4>6. CASE t # s
        <5> HIDE DEF part
        <5>1. IsTotal(part(t), f, t) /\ IsTotal(part(t \ {y}), f, t \ {y})
          BY <2>2, <4>3, <4>6
        <5>2. IsTotal(part(t), f, t \ {y}) /\ IsFiniteSet(t \ {y})
          <6>1. IsFiniteSet(t \ {y})
            BY FS_Subset
          <6>2. QED
            BY <5>1, <6>1, TotalBelow
        <5>3. part(t)[t \ {y}] = part(t \ {y})[t \ {y}]
          BY <5>1, <5>2, TotalsAgree
        <5>4. part(t)[t] = Addend(part(t), f, t)
          BY <5>1 DEF IsTotal
        <5>6. part(t)[t] = f[y] + part(t)[t \ {y}]
          BY <3>2, <4>1, <5>4 DEF Addend
        <5>5. QED
          BY <4>2, <4>4, <4>6, <5>3, <5>6
      <4>7. QED
        BY <4>5, <4>6
    <3>3. QED
      BY <3>1, <3>2
  <2>4. IsTotal(g, f, s)
    BY <2>3 DEF IsTotal
  <2>5. QED
    BY <2>1, <2>4
<1>2. PICK k : IsTotal(k, f, S)
  BY <1>1
<1> DEFINE g == [s \in SUBSET S |-> k[s]]
<1>3. ASSUME NEW s \in SUBSET S PROVE Addend(g, f, s) = k[s]
  <2>1. k[s] = Addend(k, f, s)
    BY <1>2 DEF IsTotal
  <2>2. CASE s = {}
    BY <2>1, <2>2 DEF Addend
  <2>3. CASE s # {}
    <3>1. PICK x \in s : x = CHOOSE y \in s : TRUE
      BY <2>3
    <3>2. s \ {x} \in SUBSET S
      OBVIOUS
    <3>3. QED
      BY <2>1, <2>3, <3>1, <3>2 DEF Addend
  <2>4. QED
    BY <2>2, <2>3
<1>4. g = [s \in SUBSET S |-> Addend(g, f, s)]
  BY <1>3
<1>5. QED
  BY <1>4

(* The sum of the library is one.                                          *)
LEMMA SumIsTotal ==
  ASSUME NEW S, IsFiniteSet(S), NEW f
  PROVE  \E g : IsTotal(g, f, S) /\ SumFunctionOnSet(f, S) = g[S]
<1> DEFINE g == CHOOSE g : g = [s \in SUBSET S |-> Addend(g, f, s)]
<1>1. g = [s \in SUBSET S |-> Addend(g, f, s)]
  BY TotalExists
<1>2. SumFunctionOnSet(f, S) = g[S]
  BY DEF SumFunctionOnSet, FoldFunctionOnSet, MapThenFoldSet, Addend
<1> HIDE DEF g
<1>3. IsTotal(g, f, S)
  BY <1>1 DEF IsTotal
<1>4. QED
  BY <1>2, <1>3

(* The empty sum.                                                          *)
LEMMA SumOfNone ==
  ASSUME NEW f
  PROVE  SumFunctionOnSet(f, {}) = 0
<1>1. PICK g : IsTotal(g, f, {}) /\ SumFunctionOnSet(f, {}) = g[{}]
  BY SumIsTotal, FS_EmptySet
<1>2. QED
  BY <1>1 DEF IsTotal, Addend

(* A sum looks at the values on its set only.                              *)
LEMMA SumOfSame ==
  ASSUME NEW S, IsFiniteSet(S), NEW f, NEW h, \A x \in S : f[x] = h[x]
  PROVE  SumFunctionOnSet(f, S) = SumFunctionOnSet(h, S)
<1>1. PICK g : IsTotal(g, f, S) /\ SumFunctionOnSet(f, S) = g[S]
  BY SumIsTotal
<1>2. PICK k : IsTotal(k, h, S) /\ SumFunctionOnSet(h, S) = k[S]
  BY SumIsTotal
<1>3. g[S] = k[S]
  BY <1>1, <1>2, TotalsAgree
<1>4. QED
  BY <1>1, <1>2, <1>3

(* Any member may be taken out first.                                      *)
LEMMA SumTakesOut ==
  ASSUME NEW S, IsFiniteSet(S), NEW f, \A x \in S : f[x] \in Int,
         NEW g, IsTotal(g, f, S)
  PROVE  g[S] \in Int /\ \A e \in S : g[S] = f[e] + g[S \ {e}] /\ g[S \ {e}] \in Int
<1> DEFINE T == {s \in SUBSET S : ~ (g[s] \in Int /\ \A e \in s : g[s] = f[e] + g[s \ {e}])}
<1> SUFFICES ASSUME T # {} PROVE FALSE
  <2>1. ASSUME NEW s \in SUBSET S
        PROVE  T = {} => g[s] \in Int /\ \A e \in s : g[s] = f[e] + g[s \ {e}]
    OBVIOUS
  <2> HIDE DEF T
  <2>2. QED
    BY <2>1
<1>1. PICK s \in T : \A t \in T : t \subseteq s => t = s
  <2>1. T \subseteq SUBSET S /\ T # {}
    OBVIOUS
  <2> HIDE DEF T
  <2>2. QED
    BY <2>1, SmallestSubset, SMT
<1>2. g[s] = Addend(g, f, s)
  BY <1>1 DEF IsTotal
<1>3. CASE s = {}
  BY <1>1, <1>2, <1>3 DEF Addend
<1>4. CASE s # {}
  <2>1. PICK x \in s : x = CHOOSE y \in s : TRUE
    BY <1>4
  <2>2. g[s] = f[x] + g[s \ {x}]
    BY <1>2, <1>4, <2>1 DEF Addend
  <2>3. ASSUME NEW t \in SUBSET s, t # s
        PROVE  g[t] \in Int /\ \A e \in t : g[t] = f[e] + g[t \ {e}]
    BY <1>1, <2>3
  <2>4. g[s \ {x}] \in Int
    BY <2>1, <2>3
  <2>5. ASSUME NEW e \in s PROVE g[s] = f[e] + g[s \ {e}]
    <3>1. CASE e = x
      BY <2>2, <3>1
    <3>2. CASE e # x
      <4>0. s \ {x} # s /\ s \ {e} # s /\ e \in s \ {x} /\ x \in s \ {e}
        BY <2>1, <3>2
      <4>1. g[s \ {x}] = f[e] + g[(s \ {x}) \ {e}]
        BY <2>3, <4>0
      <4>2. g[s \ {e}] = f[x] + g[(s \ {e}) \ {x}]
        BY <2>3, <4>0
      <4>3. (s \ {x}) \ {e} = (s \ {e}) \ {x}
        OBVIOUS
      <4>4. g[(s \ {x}) \ {e}] \in Int /\ f[e] \in Int /\ f[x] \in Int
        <5>1. (s \ {x}) \ {e} # s
          BY <2>1
        <5>2. QED
          BY <1>1, <2>1, <2>3, <5>1
      <4>5. g[s] = f[x] + (f[e] + g[(s \ {x}) \ {e}]) /\ g[s \ {e}] = f[x] + g[(s \ {x}) \ {e}]
        BY <2>2, <4>1, <4>2, <4>3
      <4>6. QED
        BY <4>4, <4>5
    <3>3. QED
      BY <3>1, <3>2
  <2>6. f[x] \in Int
    BY <2>1
  <2>7. g[s] \in Int
    BY <2>2, <2>4, <2>6
  <2>8. QED
    BY <1>1, <2>5, <2>7
<1>5. QED
  BY <1>3, <1>4

(* A sum of integers falls by the value of the element that is taken out.  *)
LEMMA SumOfOneLess ==
  ASSUME NEW S, IsFiniteSet(S), NEW e \in S, NEW f, \A x \in S : f[x] \in Int
  PROVE  /\ SumFunctionOnSet(f, S \ {e}) \in Int
         /\ SumFunctionOnSet(f, S) = SumFunctionOnSet(f, S \ {e}) + f[e]
<1>1. IsFiniteSet(S \ {e})
  BY FS_Subset
<1>2. PICK g : IsTotal(g, f, S) /\ SumFunctionOnSet(f, S) = g[S]
  BY SumIsTotal
<1>3. PICK k : IsTotal(k, f, S \ {e}) /\ SumFunctionOnSet(f, S \ {e}) = k[S \ {e}]
  BY <1>1, SumIsTotal
<1>4. IsTotal(g, f, S \ {e})
  BY <1>2, TotalBelow
<1>5. k[S \ {e}] = g[S \ {e}]
  BY <1>1, <1>3, <1>4, TotalsAgree
<1>6. IsTotal(g, f, S)
  BY <1>2
<1>7. g[S] = f[e] + g[S \ {e}] /\ g[S \ {e}] \in Int /\ f[e] \in Int
  <2>1. \A x \in S : f[x] \in Int
    OBVIOUS
  <2>2. IsFiniteSet(S)
    OBVIOUS
  <2>3. g[S] \in Int
    BY <1>6, <2>1, <2>2, SumTakesOut, Zenon
  <2>4. g[S] = f[e] + g[S \ {e}]
    BY <1>6, <2>1, <2>2, SumTakesOut, SMT
  <2>5. g[S \ {e}] \in Int
    BY <1>6, <2>1, <2>2, SumTakesOut, Zenon
  <2>6. QED
    BY <2>1, <2>4, <2>5
<1>8. QED
  BY <1>2, <1>3, <1>5, <1>7

(* A sum of integers is one.                                               *)
LEMMA SumIsWhole ==
  ASSUME NEW S, IsFiniteSet(S), NEW f, \A x \in S : f[x] \in Int
  PROVE  SumFunctionOnSet(f, S) \in Int
<1>1. PICK g : IsTotal(g, f, S) /\ SumFunctionOnSet(f, S) = g[S]
  BY SumIsTotal
<1>2. g[S] \in Int
  BY <1>1, SumTakesOut
<1>3. QED
  BY <1>1, <1>2

(* A sum of integers grows by the value of the element that is added.      *)
LEMMA SumOfOneMore ==
  ASSUME NEW S, IsFiniteSet(S), NEW e, e \notin S, NEW f,
         \A x \in S \cup {e} : f[x] \in Int
  PROVE  /\ SumFunctionOnSet(f, S) \in Int
         /\ SumFunctionOnSet(f, S \cup {e}) = SumFunctionOnSet(f, S) + f[e]
<1>1. IsFiniteSet(S \cup {e}) /\ e \in S \cup {e} /\ (S \cup {e}) \ {e} = S
  BY FS_AddElement
<1>2. QED
  BY <1>1, SumOfOneLess

-----------------------------------------------------------------------------
(***************************************************************************)
(* The ledgers.  Only a settlement adds to the completed orders, and it    *)
(* adds the one order it bills to those of its user and of its charger.    *)
(***************************************************************************)

IsCompleted(row) == row.status = "Completed"

(* Ids are finite, and so are the completed orders of anyone.              *)
LEMMA CompletedAreFinite ==
  ASSUME TypeOK, NEW x
  PROVE  IsFiniteSet(CompletedBy(x)) /\ IsFiniteSet(CompletedOn(x))
<1>1. DOMAIN order = 1..Len(order) /\ Len(order) \in Nat
  BY DEF TypeOK
<1>2. IsFiniteSet(DOMAIN order)
  BY <1>1, FS_Interval
<1>3. CompletedBy(x) \subseteq DOMAIN order /\ CompletedOn(x) \subseteq DOMAIN order
  BY DEF CompletedBy, CompletedOn
<1>4. QED
  BY <1>2, <1>3, FS_Subset

(* What a receipt bills and what was paid of it are whole numbers.         *)
LEMMA ReceiptsAreWhole ==
  ASSUME IInv, NEW o \in DOMAIN order
  PROVE  Paid[o] \in Int
<1>1. order[o] \in Order
  BY DEF IInv, TypeOK
<1>2. order[o].amount \in Nat /\ order[o].debt \in Nat
  BY <1>1 DEF Order
<1>3. QED
  BY <1>2 DEF Paid

(* A step that settles nothing leaves the completed orders as they were.   *)
LEMMA OthersSettleNothing ==
  ASSUME IInv, [Next]_vars, \A u \in Users, o \in DOMAIN order : ~Settle(u, o)
  PROVE  /\ \A o \in DOMAIN order : IsCompleted(order[o]) => o \in DOMAIN order' /\ order'[o] = order[o]
         /\ \A o \in DOMAIN order' : IsCompleted(order'[o]) => o \in DOMAIN order /\ IsCompleted(order[o])
<1>1. ASSUME NEW o \in DOMAIN order
      PROVE  /\ o \in DOMAIN order'
             /\ order'[o] # order[o] => ~IsCompleted(order[o]) /\ ~IsCompleted(order'[o])
  <2>1. TypeOK /\ order[o] \in Order /\ DOMAIN SweptOrder = DOMAIN order /\ SweptOrder \in Seq(Order)
    BY SweptOrderType DEF IInv, TypeOK
  <2>2. SweptOrder[o] \in Order /\ o \in DOMAIN SweptOrder /\ order[o].user \in Users
    <3>1. SweptOrder[o] \in Order /\ o \in DOMAIN SweptOrder
      BY <2>1
    <3>2. QED
      BY <2>1, <3>1 DEF Order
  <2>3. RowStep(o)
    BY EveryRowSteps
  <2>4. CASE o \in Expired /\ order'[o] = SweptOrder[o]
    <3>1. order[o].status = "Reserved" /\ SweptOrder[o].status = "Cancelled"
      BY <2>1, <2>4 DEF Expired, SweptOrder, Order
    <3>2. QED
      BY <2>4, <2>3, <3>1 DEF IsCompleted, RowStep
  <2>5. CASE BeginCharging(order[o].user, o)
    <3>1. order'[o].status = "Charging" /\ SweptOrder[o].status = "Reserved"
      BY <2>5, <2>2 DEF BeginCharging, Order
    <3>2. order[o].status # "Completed"
      BY <3>1, <2>1, SweptRow DEF SweptOrder, Expired
    <3>3. QED
      BY <2>3, <3>1, <3>2 DEF IsCompleted, RowStep
  <2>6. CASE Cancel(order[o].user, o)
    <3>1. order'[o].status = "Cancelled" /\ order[o].status = "Reserved"
      BY <2>6, <2>2 DEF Cancel, MayCancel, Order
    <3>2. QED
      BY <2>3, <3>1 DEF IsCompleted, RowStep
  <2>7. QED
    BY <2>2, <2>4, <2>5, <2>6, <2>3 DEF RowStep
<1>2. ASSUME NEW o \in DOMAIN order', o \notin DOMAIN order PROVE ~IsCompleted(order'[o])
  BY <1>2, NewRowsAreActive DEF IsActive, IsCompleted
<1>3. QED
  BY <1>1, <1>2 DEF IsCompleted

(* A settlement completes the order it names and touches no other row.     *)
LEMMA SettleCompletes ==
  ASSUME IInv, NEW u \in Users, NEW o \in DOMAIN order, Settle(u, o)
  PROVE  /\ DOMAIN order' = DOMAIN order
         /\ ~IsCompleted(order[o]) /\ IsCompleted(order'[o])
         /\ order'[o].user = u /\ order[o].user = u
         /\ order'[o].charger = order[o].charger /\ order[o].charger \in Chargers
         /\ \A p \in DOMAIN order : p # o => order'[p] = order[p]
<1>1. order \in Seq(Order) /\ order[o] \in Order
  BY DEF IInv, TypeOK
<1>2. QED
  BY <1>1 DEF Settle, MaySettle, IsCompleted, Order

(* Where an order is added to some completed ones, what it sums up to      *)
(* grows by the order's own value, and elsewhere it stays.                 *)
LEMMA SumAfterSettlement ==
  ASSUME NEW S, IsFiniteSet(S), NEW f, NEW g, NEW o, o \notin S,
         \A p \in S : f[p] \in Int /\ g[p] = f[p], g[o] \in Int
  PROVE  /\ SumFunctionOnSet(f, S) \in Int
         /\ SumFunctionOnSet(g, S) = SumFunctionOnSet(f, S)
         /\ SumFunctionOnSet(g, S \cup {o}) = SumFunctionOnSet(f, S) + g[o]
<1>1. SumFunctionOnSet(g, S) = SumFunctionOnSet(f, S)
  BY SumOfSame
<1>2. \A p \in S \cup {o} : g[p] \in Int
  OBVIOUS
<1>3. /\ SumFunctionOnSet(g, S) \in Int
      /\ SumFunctionOnSet(g, S \cup {o}) = SumFunctionOnSet(g, S) + g[o]
  BY <1>2, SumOfOneMore
<1>4. QED
  BY <1>1, <1>3

(* A receipt that stays goes on saying the same.                           *)
LEMMA SameReceipt ==
  ASSUME NEW o \in DOMAIN order, o \in DOMAIN order', order'[o] = order[o]
  PROVE  Paid'[o] = Paid[o] /\ BilledMinutes'[o] = BilledMinutes[o]
  BY DEF Paid, BilledMinutes, Elapsed

(* What the completed orders of anyone sum up to, after a step that settles*)
(* nothing.                                                                *)
LEMMA LedgersStay ==
  ASSUME IInv, [Next]_vars, \A u \in Users, o \in DOMAIN order : ~Settle(u, o), NEW x
  PROVE  /\ CompletedBy(x)' = CompletedBy(x)
         /\ CompletedOn(x)' = CompletedOn(x)
         /\ SumFunctionOnSet(Paid', CompletedBy(x)) = SumFunctionOnSet(Paid, CompletedBy(x))
         /\ SumFunctionOnSet(BilledMinutes', CompletedOn(x))
              = SumFunctionOnSet(BilledMinutes, CompletedOn(x))
<1>1. /\ \A o \in DOMAIN order : IsCompleted(order[o]) => o \in DOMAIN order' /\ order'[o] = order[o]
      /\ \A o \in DOMAIN order' : IsCompleted(order'[o]) => o \in DOMAIN order /\ IsCompleted(order[o])
  BY OthersSettleNothing
<1>2. CompletedBy(x)' = CompletedBy(x) /\ CompletedOn(x)' = CompletedOn(x)
  BY <1>1 DEF CompletedBy, CompletedOn, IsCompleted
<1>3. ASSUME NEW o \in CompletedBy(x) \cup CompletedOn(x)
      PROVE  Paid'[o] = Paid[o] /\ BilledMinutes'[o] = BilledMinutes[o]
  <2>1. o \in DOMAIN order /\ IsCompleted(order[o])
    BY <1>3 DEF CompletedBy, CompletedOn, IsCompleted
  <2>2. QED
    BY <1>1, <2>1, SameReceipt
<1>4. IsFiniteSet(CompletedBy(x)) /\ IsFiniteSet(CompletedOn(x))
  BY CompletedAreFinite DEF IInv
<1>5. SumFunctionOnSet(Paid', CompletedBy(x)) = SumFunctionOnSet(Paid, CompletedBy(x))
  <2>1. \A o \in CompletedBy(x) : Paid'[o] = Paid[o]
    BY <1>3
  <2>2. QED
    BY <1>4, <2>1, SumOfSame
<1>6. SumFunctionOnSet(BilledMinutes', CompletedOn(x))
        = SumFunctionOnSet(BilledMinutes, CompletedOn(x))
  <2>1. \A o \in CompletedOn(x) : BilledMinutes'[o] = BilledMinutes[o]
    BY <1>3
  <2>2. QED
    BY <1>4, <2>1, SumOfSame
<1>7. QED
  BY <1>2, <1>5, <1>6

(* A settlement takes from the balance what it adds to the receipts of its *)
(* user; the money of the others stays.                                    *)
LEMMA SettleConservesMoney ==
  ASSUME IInv, NEW u \in Users, NEW o \in DOMAIN order, Settle(u, o), NEW v \in Users
  PROVE  /\ SumFunctionOnSet(Paid, CompletedBy(v)) \in Int
         /\ balance'[v] + SumFunctionOnSet(Paid', CompletedBy(v)')
              = balance[v] + SumFunctionOnSet(Paid, CompletedBy(v))
<1> DEFINE S == CompletedBy(v)
<1>1. /\ DOMAIN order' = DOMAIN order
      /\ ~IsCompleted(order[o]) /\ IsCompleted(order'[o])
      /\ order'[o].user = u /\ order[o].user = u
      /\ \A p \in DOMAIN order : p # o => order'[p] = order[p]
  BY SettleCompletes
<1>2. CompletedBy(v)' = IF v = u THEN S \cup {o} ELSE S
  BY <1>1 DEF CompletedBy, IsCompleted
<1>3. o \notin S /\ S \subseteq DOMAIN order
  BY <1>1 DEF CompletedBy, IsCompleted
<1>4. \A p \in S : Paid[p] \in Int /\ Paid'[p] = Paid[p]
  BY <1>1, <1>3, ReceiptsAreWhole, SameReceipt
<1>5. balance[u] \in Int /\ balance'[u] \in Int /\ balance[v] \in Int
  BY NextPreserves DEF IInv, TypeOK, Next, UserStep
<1>6. Paid'[o] = balance[u] - balance'[u]
  <2>1. balance[u] - balance'[u] = order'[o].amount - order'[o].debt
    BY SettleReceipts DEF Receipts
  <2>2. QED
    BY <1>1, <2>1 DEF Paid
<1>7. IsFiniteSet(S)
  BY CompletedAreFinite DEF IInv
<1> HIDE DEF S
<1>8. /\ SumFunctionOnSet(Paid, S) \in Int
      /\ SumFunctionOnSet(Paid', S) = SumFunctionOnSet(Paid, S)
      /\ SumFunctionOnSet(Paid', S \cup {o}) = SumFunctionOnSet(Paid, S) + Paid'[o]
  <2>1. Paid'[o] \in Int
    BY <1>5, <1>6
  <2>2. QED
    BY <1>3, <1>4, <1>7, <2>1, SumAfterSettlement
<1>9. CASE v = u
  <2>1. balance'[u] + (SumFunctionOnSet(Paid, S) + Paid'[o]) = balance[u] + SumFunctionOnSet(Paid, S)
    BY <1>5, <1>6, <1>8
  <2>2. QED
    BY <1>2, <1>8, <1>9, <2>1 DEF S
<1>10. CASE v # u
  <2>1. balance'[v] = balance[v]
    BY <1>10 DEF Settle, IInv, TypeOK
  <2>2. QED
    BY <1>2, <1>8, <1>10, <2>1 DEF S
<1>11. QED
  BY <1>9, <1>10

(* Money moves in a settlement and in a recharge only, a charger's counters*)
(* in a settlement and when a charger is created.                          *)
LEMMA OthersMoveNothing ==
  ASSUME [Next]_vars, \A u \in Users, o \in DOMAIN order : ~Settle(u, o)
  PROVE  /\ \/ \E u \in Users, a \in RechargeAmounts : Recharge(u, a)
            \/ UNCHANGED <<balance, recharged>>
         /\ (\E c \in Chargers : CreateCharger(c)) \/ UNCHANGED usage
<1>1. CASE UserStep
  BY <1>1 DEF UserStep, Reserve, StartHeld, StartLapsedAt, StartDirect, StartReserved,
              StartLapsed, Cancel, CancelLapsed, Active, CleanupExpired, CommitSweep,
              InsertOrder, BeginCharging, Recharge
<1>2. CASE AdminStep \/ Tick \/ StepBack \/ UNCHANGED vars
  BY <1>2 DEF AdminStep, MarkFault, Recover, ChangeStatus, RemoveCharger, CreateCharger,
              FreezeUser, UnfreezeUser, SetFrozen, UpdatePrice, Tick, StepBack,
              ClockUnchanged, vars
<1>3. QED
  BY <1>1, <1>2 DEF Next

(* No step makes or loses money.                                           *)
LEMMA MoneyStep ==
  ASSUME IInv, MoneyConserved, [Next]_vars, NEW u \in Users
  PROVE  balance'[u] + SumFunctionOnSet(Paid', CompletedBy(u)') = InitialBalance + recharged'[u]
<1>1. balance[u] + SumFunctionOnSet(Paid, CompletedBy(u)) = InitialBalance + recharged[u]
  BY DEF MoneyConserved
<1>2. balance \in [Users -> Nat] /\ recharged \in [Users -> Nat]
  BY DEF IInv, TypeOK
<1>3. CASE \E v \in Users, o \in DOMAIN order : Settle(v, o)
  <2>1. PICK v \in Users, o \in DOMAIN order : Settle(v, o)
    BY <1>3
  <2>2. recharged' = recharged
    BY <2>1 DEF Settle
  <2>3. balance'[u] + SumFunctionOnSet(Paid', CompletedBy(u)')
          = balance[u] + SumFunctionOnSet(Paid, CompletedBy(u))
    BY <2>1, SettleConservesMoney
  <2>4. QED
    BY <1>1, <2>2, <2>3
<1>4. CASE \A v \in Users, o \in DOMAIN order : ~Settle(v, o)
  <2>1. /\ CompletedBy(u)' = CompletedBy(u)
        /\ SumFunctionOnSet(Paid', CompletedBy(u)) = SumFunctionOnSet(Paid, CompletedBy(u))
    BY <1>4, LedgersStay
  <2>2. SumFunctionOnSet(Paid, CompletedBy(u)) \in Int
    <3>1. IsFiniteSet(CompletedBy(u)) /\ CompletedBy(u) \subseteq DOMAIN order
      BY CompletedAreFinite DEF IInv, CompletedBy
    <3>2. \A o \in CompletedBy(u) : Paid[o] \in Int
      BY <3>1, ReceiptsAreWhole
    <3>3. QED
      BY <3>1, <3>2, SumIsWhole
  <2>3. CASE UNCHANGED <<balance, recharged>>
    BY <1>1, <2>1, <2>3
  <2>4. ASSUME NEW v \in Users, NEW a \in RechargeAmounts, Recharge(v, a)
        PROVE  balance'[u] + SumFunctionOnSet(Paid, CompletedBy(u)) = InitialBalance + recharged'[u]
    <3>1. a \in Nat /\ InitialBalance \in Nat /\ balance[u] \in Nat /\ recharged[u] \in Nat
      BY <1>2, MoneyAssumption
    <3>2. CASE v = u
      <4>1. balance'[u] = balance[u] + a /\ recharged'[u] = recharged[u] + a
        BY <1>2, <2>4, <3>2 DEF Recharge
      <4>2. QED
        BY <1>1, <2>2, <3>1, <4>1
    <3>3. CASE v # u
      <4>1. balance'[u] = balance[u] /\ recharged'[u] = recharged[u]
        BY <1>2, <2>4, <3>3 DEF Recharge
      <4>2. QED
        BY <1>1, <4>1
    <3>4. QED
      BY <3>2, <3>3
  <2>5. QED
    BY <1>4, <2>1, <2>3, <2>4, OthersMoveNothing
<1>5. QED
  BY <1>3, <1>4

(* No money is made or lost, for any number of users, orders and payments: *)
(* a balance is what was there and paid in, less what the receipts took.   *)
THEOREM MoneyIsConserved == Spec => []MoneyConserved
<1>1. Init => MoneyConserved
  <2> SUFFICES ASSUME Init, NEW u \in Users
               PROVE  balance[u] + SumFunctionOnSet(Paid, CompletedBy(u)) = InitialBalance + recharged[u]
    BY DEF MoneyConserved
  <2>1. CompletedBy(u) = {}
    BY DEF Init, CompletedBy
  <2>2. balance[u] = InitialBalance /\ recharged[u] = 0 /\ InitialBalance \in Nat
    BY MoneyAssumption DEF Init
  <2>3. SumFunctionOnSet(Paid, {}) = 0
    BY SumOfNone
  <2>4. QED
    BY <2>1, <2>2, <2>3
<1>2. IInv /\ MoneyConserved /\ [Next]_vars => MoneyConserved'
  <2> SUFFICES ASSUME IInv, MoneyConserved, [Next]_vars PROVE MoneyConserved'
    OBVIOUS
  <2>1. \A u \in Users :
          balance'[u] + SumFunctionOnSet(Paid', CompletedBy(u)') = InitialBalance + recharged'[u]
    BY MoneyStep
  <2>2. QED
    BY <2>1 DEF MoneyConserved
<1>3. QED
  BY <1>1, <1>2, InvariantHolds, PTL DEF Spec

(* What an order bills is a whole number of minutes.                       *)
LEMMA MinutesAreWhole ==
  ASSUME IInv, NEW o \in DOMAIN order
  PROVE  BilledMinutes[o] \in Int
<1>1. order[o] \in Order
  BY DEF IInv, TypeOK
<1>2. Elapsed(order[o], order[o].endTime) \in Nat
  BY <1>1 DEF Order, NoTime, Elapsed
<1>3. Elapsed(order[o], order[o].endTime) \div MinuteLength \in Nat
  BY <1>2, NatQuotient, TimeAssumption
<1>4. QED
  BY <1>3 DEF BilledMinutes

(* A settlement adds to its charger's counters one order, and the minutes  *)
(* it bills; the counters of the other chargers stay.                      *)
LEMMA SettleCounts ==
  ASSUME IInv, UsageMatchesOrders, NEW u \in Users, NEW o \in DOMAIN order, Settle(u, o),
         NEW c \in Chargers
  PROVE  /\ usage'[c].count = Cardinality(CompletedOn(c)')
         /\ usage'[c].minutes = SumFunctionOnSet(BilledMinutes', CompletedOn(c)')
<1> DEFINE S == CompletedOn(c)
<1>1. /\ DOMAIN order' = DOMAIN order
      /\ ~IsCompleted(order[o]) /\ IsCompleted(order'[o])
      /\ order'[o].charger = order[o].charger /\ order[o].charger \in Chargers
      /\ \A p \in DOMAIN order : p # o => order'[p] = order[p]
  BY SettleCompletes
<1>2. CompletedOn(c)' = IF c = order[o].charger THEN S \cup {o} ELSE S
  BY <1>1 DEF CompletedOn, IsCompleted
<1>3. o \notin S /\ S \subseteq DOMAIN order
  BY <1>1 DEF CompletedOn, IsCompleted
<1>4. \A p \in S : BilledMinutes[p] \in Int /\ BilledMinutes'[p] = BilledMinutes[p]
  BY <1>1, <1>3, MinutesAreWhole, SameReceipt
<1>5. BilledMinutes'[o] = Elapsed(order[o], now) \div MinuteLength
  <2>1. order[o] \in Order
    BY DEF IInv, TypeOK
  <2>2. order'[o].startTime = order[o].startTime /\ order'[o].endTime = now
    BY <2>1 DEF Settle, Order
  <2>3. QED
    BY <1>1, <2>2 DEF BilledMinutes, Elapsed
<1>6. BilledMinutes'[o] \in Int
  <2>1. order[o] \in Order /\ now \in Nat
    BY DEF IInv, TypeOK
  <2>2. Elapsed(order[o], now) \in Nat
    BY <2>1 DEF Order, NoTime, Elapsed
  <2>3. QED
    BY <1>5, <2>2, NatQuotient, TimeAssumption
<1>7. IsFiniteSet(S)
  BY CompletedAreFinite DEF IInv
<1>8. usage[c].count = Cardinality(S) /\ usage[c].minutes = SumFunctionOnSet(BilledMinutes, S)
  BY DEF UsageMatchesOrders
<1>9. usage \in [Chargers -> [count : Nat, minutes : Nat]]
  BY DEF IInv, TypeOK
<1> HIDE DEF S
<1>10. /\ SumFunctionOnSet(BilledMinutes, S) \in Int
       /\ SumFunctionOnSet(BilledMinutes', S) = SumFunctionOnSet(BilledMinutes, S)
       /\ SumFunctionOnSet(BilledMinutes', S \cup {o})
            = SumFunctionOnSet(BilledMinutes, S) + BilledMinutes'[o]
  BY <1>3, <1>4, <1>6, <1>7, SumAfterSettlement
<1>11. Cardinality(S \cup {o}) = Cardinality(S) + 1
  BY <1>3, <1>7, FS_AddElement
<1>12. CASE c = order[o].charger
  <2>1. /\ usage'[c].count = usage[c].count + 1
        /\ usage'[c].minutes = usage[c].minutes + Elapsed(order[o], now) \div MinuteLength
    BY <1>9, <1>12 DEF Settle
  <2>2. QED
    BY <1>2, <1>5, <1>8, <1>10, <1>11, <1>12, <2>1
<1>13. CASE c # order[o].charger
  <2>1. usage'[c] = usage[c]
    BY <1>9, <1>13 DEF Settle
  <2>2. QED
    BY <1>2, <1>8, <1>10, <1>13, <2>1
<1>14. QED
  BY <1>12, <1>13

(* A charger disappears only when it is removed.                           *)
LEMMA AbsentIsRemoved ==
  ASSUME IInv, [Next]_vars, NEW c \in Chargers, charger'[c] = "Absent", charger[c] # "Absent"
  PROVE  RemoveCharger(c)
<1>1. charger \in [Chargers -> ChargerStatus] /\ SweptCharger \in [Chargers -> ChargerStatus]
  BY SweptChargerType DEF IInv, TypeOK
<1>2. SweptCharger[c] # "Absent"
  BY DEF SweptCharger
<1>3. ASSUME NEW d, NEW row, InsertOrder(d, row) PROVE FALSE
  BY <1>1, <1>2, <1>3 DEF InsertOrder
<1>4. ASSUME charger' = SweptCharger \/ charger' = charger PROVE FALSE
  BY <1>2, <1>4
<1>5. CASE UserStep
  <2>1. CASE \E u \in Users : \E o : Settle(u, o)
    BY <1>1, <2>1 DEF Settle
  <2>2. CASE \E u \in Users : \E o : Cancel(u, o)
    BY <1>1, <1>2, <2>2 DEF Cancel
  <2>3. CASE \E u \in Users, d \in Chargers : Reserve(u, d) \/ StartDirect(u, d)
    BY <1>3, <2>3 DEF Reserve, StartDirect
  <2>4. CASE charger' = SweptCharger \/ charger' = charger
    BY <1>4, <2>4
  <2>5. QED
    BY <1>5, <2>1, <2>2, <2>3, <2>4
    DEF UserStep, StartHeld, StartLapsedAt, StartReserved, StartLapsed, CancelLapsed, Active,
        CleanupExpired, CommitSweep, BeginCharging, Recharge
<1>6. CASE AdminStep
  <2>1. CASE \E d \in Chargers : MarkFault(d) \/ Recover(d) \/ CreateCharger(d)
    BY <1>1, <2>1 DEF MarkFault, Recover, ChangeStatus, CreateCharger
  <2>2. CASE \E d \in Chargers : RemoveCharger(d)
    BY <1>1, <2>2 DEF RemoveCharger
  <2>3. CASE charger' = charger
    BY <1>4, <2>3
  <2>4. QED
    BY <1>6, <2>1, <2>2, <2>3 DEF AdminStep, FreezeUser, UnfreezeUser, SetFrozen, UpdatePrice
<1>7. CASE Tick \/ StepBack \/ UNCHANGED vars
  BY <1>4, <1>7 DEF Tick, StepBack, ClockUnchanged, vars
<1>8. QED
  BY <1>5, <1>6, <1>7 DEF Next

(* A charger that an order names is not removed, and one that is not there *)
(* is not ordered.                                                         *)
LEMMA AbsentStep ==
  ASSUME IInv, AbsentHasNoOrders, [Next]_vars, NEW o \in DOMAIN order'
  PROVE  charger'[order'[o].charger] # "Absent"
<1>1. IInv' /\ order'[o] \in Order /\ order'[o].charger \in Chargers
  <2>1. IInv'
    BY NextPreserves
  <2>2. order'[o] \in Order
    BY <2>1 DEF IInv, TypeOK
  <2>3. QED
    BY <2>1, <2>2 DEF Order
<1>2. CASE o \notin DOMAIN order
  <2>1. IsActive(order'[o])
    BY <1>2, NewRowsAreActive
  <2>2. charger'[order'[o].charger] = "Using"
    BY <1>1, <2>1 DEF IInv, UsingMeansOrdered, Agree, ActiveOn
  <2>3. QED
    BY <2>2
<1>3. CASE o \in DOMAIN order
  <2>1. order'[o].charger = order[o].charger
    <3>1. TypeOK /\ order[o] \in Order /\ DOMAIN SweptOrder = DOMAIN order
          /\ SweptOrder \in Seq(Order)
      BY <1>3, SweptOrderType DEF IInv, TypeOK
    <3>2. SweptOrder[o] \in Order /\ SweptOrder[o].charger = order[o].charger
      BY <1>3, <3>1, SweptRow
    <3>3. CASE BeginCharging(order[o].user, o)
      BY <1>3, <3>1, <3>2, <3>3 DEF BeginCharging, Order
    <3>4. CASE Cancel(order[o].user, o)
      BY <1>3, <3>1, <3>2, <3>4 DEF Cancel, Order
    <3>5. CASE Settle(order[o].user, o)
      BY <1>3, <3>1, <3>5 DEF Settle, Order
    <3>6. QED
      BY <1>3, <3>2, <3>3, <3>4, <3>5, EveryRowSteps DEF RowStep
  <2>2. charger[order[o].charger] # "Absent"
    BY <1>3 DEF AbsentHasNoOrders
  <2>3. ~RemoveCharger(order[o].charger)
    BY <1>3 DEF RemoveCharger
  <2>4. QED
    BY <1>1, <2>1, <2>2, <2>3, AbsentIsRemoved
<1>4. QED
  BY <1>2, <1>3

(* No step leaves a charger's counters behind its orders.                  *)
LEMMA UsageStep ==
  ASSUME IInv, AbsentHasNoOrders, UsageMatchesOrders, [Next]_vars, NEW c \in Chargers
  PROVE  /\ usage'[c].count = Cardinality(CompletedOn(c)')
         /\ usage'[c].minutes = SumFunctionOnSet(BilledMinutes', CompletedOn(c)')
<1>1. CASE \E u \in Users, o \in DOMAIN order : Settle(u, o)
  BY <1>1, SettleCounts
<1>2. CASE \A u \in Users, o \in DOMAIN order : ~Settle(u, o)
  <2>1. /\ CompletedOn(c)' = CompletedOn(c)
        /\ SumFunctionOnSet(BilledMinutes', CompletedOn(c))
             = SumFunctionOnSet(BilledMinutes, CompletedOn(c))
    BY <1>2, LedgersStay
  <2>2. /\ usage[c].count = Cardinality(CompletedOn(c))
        /\ usage[c].minutes = SumFunctionOnSet(BilledMinutes, CompletedOn(c))
    BY DEF UsageMatchesOrders
  <2>3. CASE usage'[c] = usage[c]
    BY <2>1, <2>2, <2>3
  <2>4. CASE CreateCharger(c)
    <3>1. CompletedOn(c) = {}
      BY <2>4 DEF CreateCharger, CompletedOn, AbsentHasNoOrders
    <3>2. usage'[c].count = 0 /\ usage'[c].minutes = 0
      BY <2>4 DEF CreateCharger, Unused, IInv, TypeOK
    <3>3. Cardinality({}) = 0 /\ SumFunctionOnSet(BilledMinutes, {}) = 0
      BY SumOfNone, FS_EmptySet
    <3>4. QED
      BY <2>1, <3>1, <3>2, <3>3
  <2>5. (\E d \in Chargers : CreateCharger(d)) \/ UNCHANGED usage
    BY <1>2, OthersMoveNothing
  <2>6. usage'[c] = usage[c] \/ CreateCharger(c)
    BY <2>5 DEF CreateCharger, IInv, TypeOK
  <2>7. QED
    BY <2>3, <2>4, <2>6
<1>3. QED
  BY <1>1, <1>2

(* A charger's counters count its settled orders, each exactly once, for   *)
(* any number of orders; a new charger starts at zero because a charger    *)
(* with orders is never removed.                                           *)
THEOREM UsageAlwaysMatchesOrders == Spec => []UsageMatchesOrders
<1>1. Init => AbsentHasNoOrders /\ UsageMatchesOrders
  <2> SUFFICES ASSUME Init, NEW c \in Chargers
               PROVE  /\ AbsentHasNoOrders
                      /\ usage[c].count = Cardinality(CompletedOn(c))
                      /\ usage[c].minutes = SumFunctionOnSet(BilledMinutes, CompletedOn(c))
    BY DEF UsageMatchesOrders, AbsentHasNoOrders, Init
  <2>1. CompletedOn(c) = {} /\ AbsentHasNoOrders
    BY DEF Init, CompletedOn, AbsentHasNoOrders
  <2>2. usage[c].count = 0 /\ usage[c].minutes = 0
    BY DEF Init, Unused
  <2>3. Cardinality({}) = 0 /\ SumFunctionOnSet(BilledMinutes, {}) = 0
    BY SumOfNone, FS_EmptySet
  <2>4. QED
    BY <2>1, <2>2, <2>3
<1>2. IInv /\ AbsentHasNoOrders /\ UsageMatchesOrders /\ [Next]_vars
        => AbsentHasNoOrders' /\ UsageMatchesOrders'
  <2> SUFFICES ASSUME IInv, AbsentHasNoOrders, UsageMatchesOrders, [Next]_vars
               PROVE  AbsentHasNoOrders' /\ UsageMatchesOrders'
    OBVIOUS
  <2>1. AbsentHasNoOrders'
    BY AbsentStep DEF AbsentHasNoOrders
  <2>2. \A c \in Chargers :
          /\ usage'[c].count = Cardinality(CompletedOn(c)')
          /\ usage'[c].minutes = SumFunctionOnSet(BilledMinutes', CompletedOn(c)')
    BY UsageStep
  <2>3. UsageMatchesOrders'
    BY <2>2 DEF UsageMatchesOrders
  <2>4. QED
    BY <2>1, <2>3
<1>3. QED
  BY <1>1, <1>2, InvariantHolds, PTL DEF Spec

-----------------------------------------------------------------------------
(***************************************************************************)
(* The order core implements ChargerLease: every step of ChargeOrders is a *)
(* step of the leases read off its tables, or leaves them alone.           *)
(***************************************************************************)

\* the chargers whose reservation the sweep ends
Lapsing == {c \in Chargers : \E o \in Expired : order[o].charger = c}

(* The one active order on a charger is its lease.                         *)
LEMMA LeaseOfOne ==
  ASSUME NEW rows, NEW status, NEW c \in Chargers, NEW o,
         ActiveOn(rows, c) = {o}, IsActive(rows[o])
  PROVE  PhaseOf(rows, status)[c] = rows[o].status /\ HolderOf(rows)[c] = {rows[o].user}
  BY DEF PhaseOf, HolderOf, IsActive

(* On disjoint tables an active order is alone on its charger.             *)
LEMMA AloneOnCharger ==
  ASSUME NEW rows \in Seq(Order), Disjoint(rows), NEW o \in DOMAIN rows, IsActive(rows[o])
  PROVE  /\ rows[o].charger \in Chargers
         /\ ActiveOn(rows, rows[o].charger) = {o}
<1>1. rows[o] \in Order
  OBVIOUS
<1>2. rows[o].charger \in Chargers
  BY <1>1 DEF Order
<1>3. ActiveOn(rows, rows[o].charger) = {o}
  BY DEF ActiveOn, Disjoint
<1>4. QED
  BY <1>2, <1>3

(* A charger with no active order is not leased.                           *)
LEMMA NoLease ==
  ASSUME NEW rows, NEW status, NEW c \in Chargers, ActiveOn(rows, c) = {}
  PROVE  PhaseOf(rows, status)[c] = status[c] /\ HolderOf(rows)[c] = {}
  BY DEF PhaseOf, HolderOf

\* the two pairs of tables say the same of charger c
SameAt(rows, status, table, column, c) ==
  /\ ActiveOn(table, c) = ActiveOn(rows, c)
  /\ \A o \in ActiveOn(rows, c) : table[o].status = rows[o].status /\ table[o].user = rows[o].user
  /\ column[c] = status[c]

(* The lease of a charger depends on the rows and the state of that        *)
(* charger only.                                                           *)
LEMMA SameLease ==
  ASSUME NEW rows, NEW status, NEW table, NEW column, NEW c \in Chargers,
         SameAt(rows, status, table, column, c)
  PROVE  /\ PhaseOf(table, column)[c] = PhaseOf(rows, status)[c]
         /\ HolderOf(table)[c] = HolderOf(rows)[c]
<1>1. (\E o \in ActiveOn(table, c) : table[o].status = "Charging")
        <=> (\E o \in ActiveOn(rows, c) : rows[o].status = "Charging")
  BY DEF SameAt
<1>2. {table[o].user : o \in ActiveOn(table, c)} = {rows[o].user : o \in ActiveOn(rows, c)}
  BY DEF SameAt
<1>3. QED
  BY <1>1, <1>2 DEF PhaseOf, HolderOf, SameAt

(* The sweep lapses exactly the leases of lapsed reservations.             *)
LEMMA SweepLapses ==
  ASSUME IInv
  PROVE  /\ Lapsing \in SUBSET {c \in Chargers : LeasePhase[c] = "Reserved"}
         /\ PhaseOf(SweptOrder, SweptCharger) = Lease!PhaseWithout(Lapsing)
         /\ HolderOf(SweptOrder) = Lease!HolderWithout(Lapsing)
<1>1. TypeOK /\ order \in Seq(Order) /\ Disjoint(order) /\ Agree(order, charger)
  BY DEF IInv, TypeOK, ActiveOrdersDisjoint, UsingMeansOrdered
<1>2. DOMAIN SweptOrder = DOMAIN order
  BY <1>1, SweptOrderType
<1>3. ASSUME NEW c \in Lapsing
      PROVE  /\ LeasePhase[c] = "Reserved"
             /\ PhaseOf(SweptOrder, SweptCharger)[c] = "Idle"
             /\ HolderOf(SweptOrder)[c] = {}
  <2>1. PICK o \in Expired : order[o].charger = c
    BY DEF Lapsing
  <2>2. o \in DOMAIN order /\ IsActive(order[o]) /\ order[o].status = "Reserved"
    BY DEF Expired, IsActive
  <2>3. c \in Chargers /\ ActiveOn(order, c) = {o}
    BY <1>1, <2>1, <2>2, AloneOnCharger
  <2>4. ActiveOn(SweptOrder, c) = {}
    BY <1>1, <1>2, <2>1, <2>3, SweptRow DEF ActiveOn
  <2>5. charger[c] = "Using"
    BY <1>1, <2>3 DEF Agree
  <2>6. SweptCharger[c] = "Idle"
    BY <2>1, <2>3, <2>5 DEF SweptCharger
  <2>7. LeasePhase[c] = "Reserved"
    BY <2>2, <2>3, LeaseOfOne DEF LeasePhase
  <2>8. QED
    BY <2>3, <2>4, <2>6, <2>7, NoLease
<1>4. ASSUME NEW c \in Chargers, c \notin Lapsing
      PROVE  /\ PhaseOf(SweptOrder, SweptCharger)[c] = LeasePhase[c]
             /\ HolderOf(SweptOrder)[c] = LeaseHolder[c]
  <2>1. \A o \in DOMAIN order : order[o].charger = c => o \notin Expired
    BY <1>4 DEF Lapsing
  <2>2. ActiveOn(SweptOrder, c) = ActiveOn(order, c)
    BY <1>1, <1>2, <2>1, SweptRow DEF ActiveOn
  <2>3. \A o \in ActiveOn(order, c) : SweptOrder[o] = order[o]
    BY <1>1, <2>1, SweptRow DEF ActiveOn
  <2>4. SweptCharger[c] = charger[c]
    BY <1>4 DEF SweptCharger, Lapsing
  <2>5. SameAt(order, charger, SweptOrder, SweptCharger, c)
    BY <2>2, <2>3, <2>4 DEF SameAt
  <2>6. QED
    BY <2>5, SameLease DEF LeasePhase, LeaseHolder
<1>5. Lapsing \subseteq Chargers
  BY DEF Lapsing
<1>6. PhaseOf(SweptOrder, SweptCharger) = Lease!PhaseWithout(Lapsing)
  BY <1>3, <1>4, <1>5 DEF PhaseOf, Lease!PhaseWithout
<1>7. HolderOf(SweptOrder) = Lease!HolderWithout(Lapsing)
  BY <1>3, <1>4, <1>5 DEF HolderOf, Lease!HolderWithout
<1>8. QED
  BY <1>3, <1>5, <1>6, <1>7

\* table and column are rows and status but for row o, which is on charger c
ChangedAt(rows, status, table, column, o, c) ==
  /\ DOMAIN table = DOMAIN rows \cup {o}
  /\ table[o].charger = c
  /\ o \in DOMAIN rows => rows[o].charger = c
  /\ \A p \in DOMAIN rows : p # o => table[p] = rows[p]
  /\ \A d \in Chargers : d # c => column[d] = status[d]

(* A change of one row changes the lease of its charger only.              *)
LEMMA OneLeaseChanges ==
  ASSUME NEW rows, NEW status, NEW table, NEW column, NEW o, NEW c \in Chargers,
         ChangedAt(rows, status, table, column, o, c)
  PROVE  /\ PhaseOf(table, column) =
              [PhaseOf(rows, status) EXCEPT ![c] = PhaseOf(table, column)[c]]
         /\ HolderOf(table) = [HolderOf(rows) EXCEPT ![c] = HolderOf(table)[c]]
<1>1. ASSUME NEW d \in Chargers, d # c
      PROVE  /\ PhaseOf(table, column)[d] = PhaseOf(rows, status)[d]
             /\ HolderOf(table)[d] = HolderOf(rows)[d]
  <2>1. ActiveOn(table, d) = ActiveOn(rows, d)
    BY <1>1 DEF ActiveOn, ChangedAt
  <2>2. \A p \in ActiveOn(rows, d) : table[p].status = rows[p].status /\ table[p].user = rows[p].user
    BY <1>1 DEF ActiveOn, ChangedAt
  <2>3. column[d] = status[d]
    BY <1>1 DEF ChangedAt
  <2>4. SameAt(rows, status, table, column, d)
    BY <2>1, <2>2, <2>3 DEF SameAt
  <2>5. QED
    BY <2>4, SameLease
<1>2. PhaseOf(table, column) = [PhaseOf(rows, status) EXCEPT ![c] = PhaseOf(table, column)[c]]
  BY <1>1 DEF PhaseOf
<1>3. HolderOf(table) = [HolderOf(rows) EXCEPT ![c] = HolderOf(table)[c]]
  BY <1>1 DEF HolderOf
<1>4. QED
  BY <1>2, <1>3

(* The active orders on the charger of the changed row, once no other      *)
(* order is active there.                                                  *)
LEMMA ActiveAtChange ==
  ASSUME NEW rows, NEW status, NEW table, NEW column, NEW o, NEW c,
         ChangedAt(rows, status, table, column, o, c), ActiveOn(rows, c) \subseteq {o}
  PROVE  ActiveOn(table, c) = IF IsActive(table[o]) THEN {o} ELSE {}
  BY DEF ActiveOn, ChangedAt

-----------------------------------------------------------------------------
(* The concrete steps, as steps of the leases.                             *)

(* The sweep alone lapses leases.                                          *)
LEMMA CommitSweepRefines ==
  ASSUME IInv, CommitSweep
  PROVE  Lease!Next
<1>1. LeasePhase' = Lease!PhaseWithout(Lapsing) /\ LeaseHolder' = Lease!HolderWithout(Lapsing)
  BY SweepLapses DEF CommitSweep, LeasePhase, LeaseHolder
<1>2. QED
  BY <1>1, SweepLapses DEF Lease!Next, Lease!Lapse

(* A reservation and a direct start take a lease.                          *)
LEMMA InsertOrderRefines ==
  ASSUME IInv, NEW u \in Users, NEW c \in Chargers, Admits(u, c), IndexesAdmit(u, c),
         NEW row \in Order, row.user = u, row.charger = c, IsActive(row), InsertOrder(c, row)
  PROVE  Lease!Next
<1>1. TypeOK
  BY DEF IInv
<1>2. SweptOrder \in Seq(Order) /\ SweptCharger \in [Chargers -> ChargerStatus]
  BY <1>1, SweptOrderType, SweptChargerType
<1>3. ActiveOn(SweptOrder, c) = {} /\ ActiveFor(SweptOrder, u) = {} /\ SweptCharger[c] = "Idle"
  BY DEF IndexesAdmit, Admits
<1>4. Lease!PhaseWithout(Lapsing)[c] = "Idle"
  BY <1>3, NoLease, SweepLapses
<1>5. \A d \in Chargers : u \notin Lease!HolderWithout(Lapsing)[d]
  BY <1>3, SweepLapses DEF HolderOf, ActiveOn, ActiveFor
<1> DEFINE o == Len(SweptOrder) + 1
<1>6. ChangedAt(SweptOrder, SweptCharger, order', charger', o, c) /\ order'[o] = row
  <2>1. order' = Append(SweptOrder, row) /\ charger' = [SweptCharger EXCEPT ![c] = "Using"]
    BY DEF InsertOrder
  <2>2. /\ DOMAIN SweptOrder = 1..Len(SweptOrder) /\ Len(SweptOrder) \in Nat
        /\ DOMAIN order' = 1..o /\ order'[o] = row
        /\ \A p \in DOMAIN SweptOrder : order'[p] = SweptOrder[p]
    BY <1>2, <2>1, AppendProperties
  <2>3. DOMAIN order' = DOMAIN SweptOrder \cup {o} /\ o \notin DOMAIN SweptOrder
    BY <2>2
  <2>4. \A d \in Chargers : d # c => charger'[d] = SweptCharger[d]
    BY <1>2, <2>1
  <2> HIDE DEF o
  <2>5. QED
    BY <2>2, <2>3, <2>4 DEF ChangedAt
<1> HIDE DEF o
<1>7. /\ LeasePhase' = [Lease!PhaseWithout(Lapsing) EXCEPT ![c] = row.status]
      /\ LeaseHolder' = [Lease!HolderWithout(Lapsing) EXCEPT ![c] = {u}]
  <2>1. ActiveOn(order', c) = {o}
    BY <1>3, <1>6, ActiveAtChange
  <2>2. PhaseOf(order', charger')[c] = order'[o].status /\ HolderOf(order')[c] = {order'[o].user}
    <3>1. IsActive(order'[o])
      BY <1>6
    <3>2. QED
      BY <2>1, <3>1, LeaseOfOne
  <2>3. QED
    BY <1>6, <2>2, OneLeaseChanges, SweepLapses DEF LeasePhase, LeaseHolder
<1>8. row.status \in {"Reserved", "Charging"}
  BY DEF IsActive
<1>9. Lease!Take(Lapsing, u, c, row.status)
  BY <1>4, <1>5, <1>7 DEF Lease!Take
<1>10. QED
  BY <1>8, <1>9, SweepLapses DEF Lease!Next

(* A start on a reservation begins to charge on its lease.                 *)
LEMMA BeginChargingRefines ==
  ASSUME IInv, NEW u \in Users, NEW o \in DOMAIN order, BeginCharging(u, o)
  PROVE  Lease!Next
<1> DEFINE row == [SweptOrder[o] EXCEPT !.status = "Charging", !.startTime = now]
           c == row.charger
<1>1. TypeOK /\ now \in Nat
  BY DEF IInv, TypeOK
<1>2. SweptOrder \in Seq(Order) /\ o \in DOMAIN SweptOrder /\ Disjoint(SweptOrder)
  BY <1>1, SweptOrderType, SweepPreserves
<1>3. SweptOrder[o] \in Order /\ SweptOrder[o].status = "Reserved"
  BY <1>2 DEF BeginCharging
<1>4. /\ row \in Order /\ row.status = "Charging"
      /\ row.user = SweptOrder[o].user /\ row.charger = SweptOrder[o].charger
  BY <1>1, <1>3 DEF Order, OrderStatus
<1>5. IsActive(SweptOrder[o]) /\ IsActive(row)
  BY <1>3, <1>4 DEF IsActive
<1>6. order' = [SweptOrder EXCEPT ![o] = row] /\ charger' = SweptCharger
  BY DEF BeginCharging
<1> HIDE DEF row
<1>7. c \in Chargers
  BY <1>4 DEF Order
<1>8. ActiveOn(SweptOrder, c) = {o} /\ IsActive(SweptOrder[o])
  BY <1>2, <1>4, <1>5, AloneOnCharger
<1>9. PhaseOf(SweptOrder, SweptCharger)[c] = "Reserved" /\ HolderOf(SweptOrder)[c] = {row.user}
  BY <1>3, <1>4, <1>7, <1>8, LeaseOfOne
<1>10. ChangedAt(SweptOrder, SweptCharger, order', charger', o, c) /\ order'[o] = row
  BY <1>2, <1>4, <1>6 DEF ChangedAt
<1>11. ActiveOn(order', c) = {o}
  BY <1>5, <1>8, <1>10, ActiveAtChange
<1>12. PhaseOf(order', charger')[c] = "Charging" /\ HolderOf(order')[c] = {row.user}
  BY <1>4, <1>5, <1>7, <1>10, <1>11, LeaseOfOne, SMTT(30)
<1>13. /\ LeasePhase' = [PhaseOf(SweptOrder, SweptCharger) EXCEPT ![c] = "Charging"]
       /\ LeaseHolder' = [HolderOf(SweptOrder) EXCEPT ![c] = {row.user}]
  BY <1>7, <1>10, <1>12, OneLeaseChanges DEF LeasePhase, LeaseHolder
<1>14. LeaseHolder' = HolderOf(SweptOrder)
  BY <1>9, <1>13 DEF HolderOf
<1>15. Lease!Begin(Lapsing, c)
  BY <1>9, <1>13, <1>14, SweepLapses DEF Lease!Begin
<1>16. QED
  BY <1>7, <1>15, SweepLapses DEF Lease!Next

(* A cancel lapses the user's lease with those the sweep ends.             *)
LEMMA CancelRefines ==
  ASSUME IInv, NEW u \in Users, NEW o \in DOMAIN order, Cancel(u, o)
  PROVE  Lease!Next
<1> DEFINE row == [SweptOrder[o] EXCEPT !.status = "Cancelled", !.endTime = now]
           c == row.charger
<1>1. TypeOK /\ now \in Nat /\ order \in Seq(Order) /\ Disjoint(order)
  BY DEF IInv, TypeOK, ActiveOrdersDisjoint
<1>2. /\ SweptOrder \in Seq(Order) /\ o \in DOMAIN SweptOrder /\ Disjoint(SweptOrder)
      /\ SweptCharger \in [Chargers -> ChargerStatus]
  BY <1>1, SweptOrderType, SweptChargerType, SweepPreserves
<1>3. SweptOrder[o] = order[o] /\ order[o] \in Order /\ order[o].status = "Reserved"
  BY <1>1, SweptRow DEF Cancel, MayCancel
<1>4. /\ row \in Order /\ row.status = "Cancelled"
      /\ row.user = SweptOrder[o].user /\ row.charger = SweptOrder[o].charger
      /\ row.charger = order[o].charger
  BY <1>1, <1>3 DEF Order, OrderStatus
<1>5. IsActive(SweptOrder[o]) /\ ~IsActive(row)
  BY <1>3, <1>4 DEF IsActive
<1>6. order' = [SweptOrder EXCEPT ![o] = row] /\ charger' = [SweptCharger EXCEPT ![c] = "Idle"]
  BY <1>4 DEF Cancel
<1> HIDE DEF row
<1>7. c \in Chargers /\ LeasePhase[c] = "Reserved"
  <2>1. c \in Chargers /\ ActiveOn(order, c) = {o}
    BY <1>1, <1>3, <1>4, <1>5, AloneOnCharger
  <2>2. QED
    BY <1>3, <1>5, <2>1, LeaseOfOne DEF LeasePhase
<1>8. /\ ChangedAt(SweptOrder, SweptCharger, order', charger', o, c)
      /\ order'[o] = row /\ charger'[c] = "Idle"
  BY <1>2, <1>4, <1>6, <1>7 DEF ChangedAt
<1>9. /\ LeasePhase' = [PhaseOf(SweptOrder, SweptCharger) EXCEPT ![c] = "Idle"]
      /\ LeaseHolder' = [HolderOf(SweptOrder) EXCEPT ![c] = {}]
  <2>1. ActiveOn(SweptOrder, c) = {o}
    BY <1>2, <1>4, <1>5, AloneOnCharger
  <2>2. ActiveOn(order', c) = {}
    BY <1>5, <1>8, <2>1, ActiveAtChange
  <2>3. PhaseOf(order', charger')[c] = "Idle" /\ HolderOf(order')[c] = {}
    BY <1>7, <1>8, <2>2, NoLease
  <2>4. QED
    BY <1>7, <1>8, <2>3, OneLeaseChanges DEF LeasePhase, LeaseHolder
<1> DEFINE lapsed == Lapsing \cup {c}
<1>10. LeasePhase' = Lease!PhaseWithout(lapsed) /\ LeaseHolder' = Lease!HolderWithout(lapsed)
  BY <1>7, <1>9, SweepLapses DEF Lease!PhaseWithout, Lease!HolderWithout
<1>11. lapsed \in SUBSET {d \in Chargers : LeasePhase[d] = "Reserved"}
  BY <1>7, SweepLapses
<1>12. QED
  BY <1>10, <1>11 DEF Lease!Next, Lease!Lapse

(* A settlement releases the lease on which its user was charging.         *)
LEMMA SettleRefines ==
  ASSUME IInv, NEW u \in Users, NEW o \in DOMAIN order, Settle(u, o)
  PROVE  Lease!Next
<1> DEFINE cost == AmountDue(order[o], now)
           left == SubtractFloorZero(balance[u], cost)
           row == [order[o] EXCEPT !.status = "Completed", !.endTime = now,
                                   !.amount = cost,
                                   !.debt = SubtractFloorZero(cost, balance[u]),
                                   !.balanceAfter = left]
           c == order[o].charger
<1>1. /\ TypeOK /\ now \in Nat /\ order \in Seq(Order) /\ Disjoint(order) /\ balance[u] \in Nat
      /\ charger \in [Chargers -> ChargerStatus]
  BY DEF IInv, TypeOK, ActiveOrdersDisjoint
<1>2. order[o] \in Order /\ order[o].status = "Charging" /\ order[o].startTime # NoTime
  BY <1>1 DEF Settle, MaySettle, IInv, ColumnsMatchStatus, RowMatchesStatus
<1>3. cost \in Nat /\ left \in Nat /\ SubtractFloorZero(cost, balance[u]) \in Nat
  BY <1>1, <1>2, BillIsMoney
<1>4. order' = [order EXCEPT ![o] = row] /\ charger' = [charger EXCEPT ![c] = "Idle"]
  BY DEF Settle
<1> HIDE DEF cost, left
<1>5. /\ row \in Order /\ row.status = "Completed"
      /\ row.user = order[o].user /\ row.charger = c
  BY <1>1, <1>2, <1>3 DEF Order, OrderStatus
<1>6. IsActive(order[o]) /\ ~IsActive(row)
  BY <1>2, <1>5 DEF IsActive
<1> HIDE DEF row
<1>7. c \in Chargers /\ LeasePhase[c] = "Charging"
  <2>1. c \in Chargers /\ ActiveOn(order, c) = {o}
    BY <1>1, <1>6, AloneOnCharger
  <2>2. QED
    BY <1>2, <1>6, <2>1, LeaseOfOne DEF LeasePhase
<1>8. /\ ChangedAt(order, charger, order', charger', o, c)
      /\ order'[o] = row /\ charger'[c] = "Idle"
  BY <1>1, <1>4, <1>5, <1>7 DEF ChangedAt
<1>9. LeasePhase' = [LeasePhase EXCEPT ![c] = "Idle"] /\ LeaseHolder' = [LeaseHolder EXCEPT ![c] = {}]
  <2>1. ActiveOn(order, c) = {o}
    BY <1>1, <1>6, AloneOnCharger
  <2>2. ActiveOn(order', c) = {}
    BY <1>6, <1>8, <2>1, ActiveAtChange
  <2>3. PhaseOf(order', charger')[c] = "Idle" /\ HolderOf(order')[c] = {}
    BY <1>7, <1>8, <2>2, NoLease
  <2>4. QED
    BY <1>7, <1>8, <2>3, OneLeaseChanges DEF LeasePhase, LeaseHolder
<1>10. QED
  BY <1>7, <1>9 DEF Lease!Next, Lease!Release

(* An administrator services a charger nobody holds.                       *)
LEMMA ServiceRefines ==
  ASSUME IInv, NEW c \in Chargers, charger[c] # "Using",
         NEW next \in ChargerStatus \ {"Using"},
         charger' = [charger EXCEPT ![c] = next], order' = order
  PROVE  Lease!Next
<1>1. charger \in [Chargers -> ChargerStatus] /\ Agree(order, charger)
  BY DEF IInv, TypeOK, UsingMeansOrdered
<1>2. ActiveOn(order, c) = {}
  BY <1>1 DEF Agree
<1>3. LeasePhase[c] \in {"Idle", "Fault", "Absent"}
  BY <1>1, <1>2, NoLease DEF LeasePhase, ChargerStatus
<1>4. LeasePhase' = [LeasePhase EXCEPT ![c] = next]
  BY <1>1, <1>2 DEF LeasePhase, PhaseOf
<1>5. LeaseHolder' = LeaseHolder
  BY DEF LeaseHolder, HolderOf, ActiveOn
<1>6. next \in {"Idle", "Fault", "Absent"}
  BY DEF ChargerStatus
<1>7. Lease!Service(c, next)
  BY <1>3, <1>4, <1>5 DEF Lease!Service, Lease!OutOfService
<1>8. QED
  BY <1>6, <1>7 DEF Lease!Next, Lease!OutOfService

(* Every user's step is one of those, or touches no lease.                 *)
LEMMA UserStepRefines ==
  ASSUME IInv, UserStep
  PROVE  Lease!Next \/ UNCHANGED <<order, charger>>
<1>1. TypeOK /\ now \in Nat /\ now + ReservationTime \in Nat
  BY TimeAssumption DEF IInv, TypeOK
<1>2. ASSUME NEW u \in Users, NEW c \in Chargers, Reserve(u, c) PROVE Lease!Next
  <2> DEFINE row == NewOrder(u, c, "Reserved", now + ReservationTime, NoTime)
  <2>1. row \in Order
    BY <1>1, NewOrderIsOrder DEF OrderStatus
  <2>2. row.user = u /\ row.charger = c /\ IsActive(row)
    BY DEF NewOrder, IsActive
  <2>3. Admits(u, c) /\ IndexesAdmit(u, c) /\ InsertOrder(c, row)
    BY <1>2 DEF Reserve
  <2>4. QED
    BY <2>1, <2>2, <2>3, InsertOrderRefines
<1>3. ASSUME NEW u \in Users, NEW c \in Chargers, StartDirect(u, c) PROVE Lease!Next
  <2> DEFINE row == NewOrder(u, c, "Charging", NoTime, now)
  <2>1. row \in Order
    BY <1>1, NewOrderIsOrder DEF OrderStatus
  <2>2. row.user = u /\ row.charger = c /\ IsActive(row)
    BY DEF NewOrder, IsActive
  <2>3. Admits(u, c) /\ IndexesAdmit(u, c) /\ InsertOrder(c, row)
    BY <1>3 DEF StartDirect
  <2>4. QED
    BY <2>1, <2>2, <2>3, InsertOrderRefines
<1>4. ASSUME NEW u \in Users, NEW c \in Chargers, StartHeld(u, c) PROVE Lease!Next
  <2>1. PICK o \in ActiveFor(SweptOrder, u) : BeginCharging(u, o)
    BY <1>4 DEF StartHeld
  <2>2. o \in DOMAIN order
    BY <1>1, SweptOrderType DEF ActiveFor
  <2>3. QED
    BY <2>1, <2>2, BeginChargingRefines
<1>5. ASSUME NEW u \in Users, NEW o \in DOMAIN order,
             StartReserved(u, o) \/ Cancel(u, o) \/ Settle(u, o)
      PROVE  Lease!Next
  BY <1>5, BeginChargingRefines, CancelRefines, SettleRefines DEF StartReserved
<1>6. ASSUME CommitSweep PROVE Lease!Next
  BY <1>6, CommitSweepRefines
<1>7. ASSUME NEW u \in Users, NEW c \in Chargers, StartLapsedAt(u, c) PROVE Lease!Next
  BY <1>6, <1>7 DEF StartLapsedAt
<1>8. ASSUME NEW u \in Users, NEW o \in DOMAIN order, StartLapsed(u, o) \/ CancelLapsed(u, o)
      PROVE  Lease!Next
  BY <1>6, <1>8 DEF StartLapsed, CancelLapsed
<1>9. ASSUME Active \/ CleanupExpired PROVE Lease!Next
  BY <1>6, <1>9 DEF Active, CleanupExpired
<1>10. ASSUME NEW u \in Users, NEW a \in RechargeAmounts, Recharge(u, a)
       PROVE  UNCHANGED <<order, charger>>
  BY <1>10 DEF Recharge
<1>11. QED
  BY <1>2, <1>3, <1>4, <1>5, <1>7, <1>8, <1>9, <1>10 DEF UserStep

(* An administrator's step services a free charger or touches no lease.    *)
LEMMA AdminStepRefines ==
  ASSUME IInv, AdminStep
  PROVE  Lease!Next \/ UNCHANGED <<order, charger>>
<1>1. ASSUME NEW c \in Chargers, MarkFault(c) \/ Recover(c) \/ RemoveCharger(c) \/ CreateCharger(c)
      PROVE  Lease!Next
  BY <1>1, ServiceRefines DEF MarkFault, Recover, ChangeStatus, RemoveCharger, CreateCharger,
                              ChargerStatus
<1>2. ASSUME NEW u \in Users, FreezeUser(u) \/ UnfreezeUser(u) PROVE UNCHANGED <<order, charger>>
  BY <1>2 DEF FreezeUser, UnfreezeUser, SetFrozen
<1>3. ASSUME NEW p \in Prices, UpdatePrice(p) PROVE UNCHANGED <<order, charger>>
  BY <1>3 DEF UpdatePrice
<1>4. QED
  BY <1>1, <1>2, <1>3 DEF AdminStep

(* A platform with no order leases nothing.                                *)
LEMMA InitRefines == Init => Lease!Init
<1> SUFFICES ASSUME Init PROVE Lease!Init
  OBVIOUS
<1>1. \A c \in Chargers : ActiveOn(order, c) = {}
  BY DEF Init, ActiveOn
<1>2. QED
  BY <1>1 DEF Init, Lease!Init, LeasePhase, LeaseHolder, PhaseOf, HolderOf

(* Every step maps to a step of the leases or to a stutter.                *)
LEMMA NextRefines == IInv /\ [Next]_vars => [Lease!Next]_(Lease!lease)
<1> SUFFICES ASSUME IInv, [Next]_vars PROVE Lease!Next \/ UNCHANGED <<LeasePhase, LeaseHolder>>
  BY DEF Lease!lease
<1>1. UNCHANGED <<order, charger>> => UNCHANGED <<LeasePhase, LeaseHolder>>
  BY DEF LeasePhase, LeaseHolder, PhaseOf, HolderOf, ActiveOn
<1>2. CASE UserStep
  BY <1>1, <1>2, UserStepRefines
<1>3. CASE AdminStep
  BY <1>1, <1>3, AdminStepRefines
<1>4. CASE Tick \/ StepBack \/ UNCHANGED vars
  BY <1>1, <1>4 DEF Tick, StepBack, ClockUnchanged, vars
<1>5. QED
  BY <1>2, <1>3, <1>4 DEF Next

(* Whatever users, administrators and the clock do, each charger behaves   *)
(* as a lease: taken only when free, by a user who holds no other, and     *)
(* given up by its holder or, while only reserved, by lapse.               *)
THEOREM OrdersImplementLeases == Spec => ImplementsLease
  BY InvariantHolds, InitRefines, NextRefines, PTL DEF Spec, ImplementsLease, Lease!Spec

-----------------------------------------------------------------------------
(***************************************************************************)
(* What a lease guarantees, for every set of users and chargers, whatever  *)
(* keeps it.                                                               *)
(***************************************************************************)
VARIABLES phase, holder   \* those of some ChargerLease, not of the order core

L == INSTANCE ChargerLease

LeaseTypeOK ==
  /\ phase \in [Chargers -> {"Idle", "Reserved", "Charging"} \cup L!OutOfService]
  /\ holder \in [Chargers -> SUBSET Users]

LeaseInv == LeaseTypeOK /\ L!HeldIsBusy /\ L!OneHolder

(* Leases that lapse leave the others exclusive.                           *)
LEMMA WithoutKeeps ==
  ASSUME LeaseInv, NEW S \in SUBSET {c \in Chargers : phase[c] = "Reserved"}
  PROVE  /\ L!PhaseWithout(S) \in [Chargers -> {"Idle", "Reserved", "Charging"} \cup L!OutOfService]
         /\ L!HolderWithout(S) \in [Chargers -> SUBSET Users]
         /\ \A c \in Chargers :
              L!HolderWithout(S)[c] # {} <=> L!PhaseWithout(S)[c] \in {"Reserved", "Charging"}
         /\ \A c, d \in Chargers : \A u \in L!HolderWithout(S)[c], v \in L!HolderWithout(S)[d] :
              (c = d) <=> (u = v)
<1>1. L!PhaseWithout(S) \in [Chargers -> {"Idle", "Reserved", "Charging"} \cup L!OutOfService]
  BY DEF LeaseInv, LeaseTypeOK, L!PhaseWithout
<1>2. L!HolderWithout(S) \in [Chargers -> SUBSET Users]
  BY DEF LeaseInv, LeaseTypeOK, L!HolderWithout
<1>3. \A c \in Chargers : L!HolderWithout(S)[c] # {} <=> L!PhaseWithout(S)[c] \in {"Reserved", "Charging"}
  BY DEF LeaseInv, L!HeldIsBusy, L!PhaseWithout, L!HolderWithout
<1>4. \A c \in Chargers : L!HolderWithout(S)[c] \subseteq holder[c]
  BY DEF L!HolderWithout
<1>5. QED
  BY <1>1, <1>2, <1>3, <1>4 DEF LeaseInv, L!OneHolder

(* A lease is exclusive: no charger has two holders, no user two chargers, *)
(* and someone holds a charger exactly while it is reserved or charging.   *)
THEOREM LeasesAreExclusive == L!Spec => [](L!OneHolder /\ L!HeldIsBusy)
<1>1. L!Init => LeaseInv
  BY DEF L!Init, LeaseInv, LeaseTypeOK, L!HeldIsBusy, L!OneHolder
<1>2. LeaseInv /\ [L!Next]_(L!lease) => LeaseInv'
  <2> SUFFICES ASSUME LeaseInv, [L!Next]_(L!lease) PROVE LeaseInv'
    OBVIOUS
  <2>1. ASSUME NEW S \in SUBSET {c \in Chargers : phase[c] = "Reserved"}, L!Lapse(S) PROVE LeaseInv'
    BY <2>1, WithoutKeeps DEF L!Lapse, LeaseInv, LeaseTypeOK, L!HeldIsBusy, L!OneHolder
  <2>2. ASSUME NEW S \in SUBSET {c \in Chargers : phase[c] = "Reserved"},
               NEW u \in Users, NEW c \in Chargers, NEW as \in {"Reserved", "Charging"},
               L!Take(S, u, c, as)
        PROVE  LeaseInv'
    <3>1. LeaseTypeOK'
      BY <2>2, WithoutKeeps, ZenonT(40) DEF L!Take, LeaseTypeOK
    <3>2. L!HeldIsBusy'
      BY <2>2, WithoutKeeps, ZenonT(40) DEF L!Take, L!HeldIsBusy
    <3>3. L!HolderWithout(S)[c] = {}
      BY <2>2, WithoutKeeps DEF L!Take
    <3>4. \A d \in Chargers : holder'[d] = IF d = c THEN {u} ELSE L!HolderWithout(S)[d]
      BY <2>2, WithoutKeeps DEF L!Take
    <3>5. L!OneHolder'
      BY <2>2, <3>4, WithoutKeeps DEF L!Take, L!OneHolder
    <3>6. QED
      BY <3>1, <3>2, <3>5 DEF LeaseInv
  <2>3. ASSUME NEW S \in SUBSET {c \in Chargers : phase[c] = "Reserved"},
               NEW c \in Chargers, L!Begin(S, c)
        PROVE  LeaseInv'
    <3>1. LeaseTypeOK'
      BY <2>3, WithoutKeeps DEF L!Begin, LeaseTypeOK
    <3>2. L!HeldIsBusy'
      BY <2>3, WithoutKeeps DEF L!Begin, L!HeldIsBusy
    <3>3. L!OneHolder'
      BY <2>3, WithoutKeeps DEF L!Begin, L!OneHolder
    <3>4. QED
      BY <3>1, <3>2, <3>3 DEF LeaseInv
  <2>4. ASSUME NEW c \in Chargers, L!Release(c) PROVE LeaseInv'
    BY <2>4 DEF L!Release, LeaseInv, LeaseTypeOK, L!HeldIsBusy, L!OneHolder
  <2>5. ASSUME NEW c \in Chargers, NEW to \in L!OutOfService \cup {"Idle"}, L!Service(c, to) PROVE LeaseInv'
    BY <2>5 DEF L!Service, LeaseInv, LeaseTypeOK, L!HeldIsBusy, L!OneHolder, L!OutOfService
  <2>6. CASE UNCHANGED L!lease
    BY <2>6 DEF L!lease, LeaseInv, LeaseTypeOK, L!HeldIsBusy, L!OneHolder
  <2>7. QED
    BY <2>1, <2>2, <2>3, <2>4, <2>5, <2>6 DEF L!Next
<1>3. LeaseInv => L!OneHolder /\ L!HeldIsBusy
  BY DEF LeaseInv
<1>4. QED
  BY <1>1, <1>2, <1>3, PTL DEF L!Spec

=============================================================================

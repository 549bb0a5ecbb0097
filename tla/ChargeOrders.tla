---------------------------- MODULE ChargeOrders ----------------------------
(***************************************************************************)
(* The order core of the charging platform: what ChargeService does to the *)
(* rows of charging_order, charger and user, together with the            *)
(* administrator's operations (ChargerService, AdminService) and the wallet *)
(* (UserService::recharge) that touch the same rows.                       *)
(*                                                                         *)
(* The server thread handles one request at a time and wraps each of these *)
(* operations in one SQLite transaction, so one operation is one step.  A  *)
(* request the code rolls back leaves every row as it was: it is a         *)
(* stuttering step and has no action here.  An operation that COMMITS and  *)
(* then reports an error (a late start, a late cancel) has an action.      *)
(* Definitions marked "variant" are faulty forms of the one that follows;  *)
(* no action uses them, they show which fault each property detects.       *)
(*                                                                         *)
(* Time is a count of seconds at the granularity of SQLite's datetime().   *)
(* Money is a count of cents.  One unit of time at a charger draws one kWh *)
(* (power and time scale are snapshots of the order and never change).     *)
(***************************************************************************)
EXTENDS Integers, Sequences

CONSTANTS
  Users,             \* rows of user; no operation deletes one
  Chargers,          \* identities of the rows of charger
  ReservationTime,   \* ChargeConfig::reservationMinutes
  MinBalance,        \* ChargeConfig::minBalance, in cents
  MinuteLength,      \* units of time in one billed minute
  Prices,            \* prices per kWh an administrator may set, in cents
  RechargeAmounts,   \* amounts a user may pay in, in cents
  InitialBalance,    \* balance of each user at the start
  ClockMayStepBack,  \* TRUE: the wall clock is also set back at times
  MaxOrders,         \* bound: orders ever created
  MaxTime,           \* bound: the last second of a behaviour
  MaxBalance         \* bound: no recharge takes a balance above it

ASSUME TimeAssumption ==
  /\ ReservationTime \in Nat \ {0}
  /\ MinuteLength \in Nat \ {0}
  /\ MaxTime \in Nat
  /\ ClockMayStepBack \in BOOLEAN

ASSUME MoneyAssumption ==
  /\ MinBalance \in Nat
  /\ InitialBalance \in Nat
  /\ MaxBalance \in Nat
  /\ Prices \subseteq Nat
  /\ Prices # {}
  /\ RechargeAmounts \subseteq Nat \ {0}

ASSUME OrderBoundAssumption == MaxOrders \in Nat

VARIABLES
  now,        \* DateTimeStorage::now, read once by each operation
  order,      \* charging_order: a row's id is its index
  charger,    \* charger.status; "Absent" when there is no row
  usage,      \* charger.total_count and charger.total_minutes
  frozen,     \* user.status = 0
  balance,    \* user.balance
  recharged,  \* sum of the user's rows in recharge_log
  price       \* station.price of the station the chargers belong to

vars == <<now, order, charger, usage, frozen, balance, recharged, price>>

NoTime == -1   \* the empty string in a time column

OrderStatus   == {"Reserved", "Charging", "Completed", "Cancelled"}
ChargerStatus == {"Idle", "Using", "Fault", "Absent"}

Order ==
  [status : OrderStatus, user : Users, charger : Chargers,
   expireAt : Nat \cup {NoTime}, startTime : Nat \cup {NoTime},
   endTime : Nat \cup {NoTime}, price : Nat,
   amount : Nat, debt : Nat, balanceAfter : Nat]

IsActive(row) == row.status \in {"Reserved", "Charging"}

\* ids of the active rows of user u, and of those on charger c, in table rows
ActiveFor(rows, u) == {o \in DOMAIN rows : IsActive(rows[o]) /\ rows[o].user = u}
ActiveOn(rows, c)  == {o \in DOMAIN rows : IsActive(rows[o]) /\ rows[o].charger = c}

-----------------------------------------------------------------------------
(* cleanupExpiredInTransaction: the first statements of most operations.   *)

\* variant: an hour glass read one second early
ExpiredEarly ==
  {o \in DOMAIN order : order[o].status = "Reserved" /\ order[o].expireAt <= now + 1}

Expired ==
  {o \in DOMAIN order : /\ order[o].status = "Reserved"
                        /\ order[o].expireAt # NoTime
                        /\ order[o].expireAt <= now}

SweptOrder ==
  [o \in DOMAIN order |->
     IF o \in Expired
     THEN [order[o] EXCEPT !.status = "Cancelled", !.endTime = now]
     ELSE order[o]]

\* variant: the sweep cancels the order and keeps the charger
SweptChargerKept == charger

SweptCharger ==
  [c \in Chargers |->
     IF charger[c] = "Using" /\ \E o \in Expired : order[o].charger = c
     THEN "Idle"
     ELSE charger[c]]

CommitSweep ==
  /\ order' = SweptOrder
  /\ charger' = SweptCharger
  /\ UNCHANGED <<now, usage, frozen, balance, recharged, price>>

-----------------------------------------------------------------------------
(* The user's operations.                                                  *)

\* validateNewChargeUser
MayCharge(u) == ~frozen[u] /\ balance[u] >= MinBalance

\* the partial unique indexes on active orders let the row in
IndexesAdmit(u, c) ==
  ActiveFor(SweptOrder, u) = {} /\ ActiveOn(SweptOrder, c) = {}

NewOrder(u, c, status, expireAt, startTime) ==
  [status |-> status, user |-> u, charger |-> c,
   expireAt |-> expireAt, startTime |-> startTime, endTime |-> NoTime,
   price |-> price, amount |-> 0, debt |-> 0, balanceAfter |-> 0]

\* bound: there is an id left, and the new hold can expire before MaxTime
WithinBounds == Len(order) < MaxOrders /\ now + ReservationTime <= MaxTime

\* variant: the user's other orders are not looked up
AdmitsAnyUser(u, c) == MayCharge(u) /\ SweptCharger[c] = "Idle"

Admits(u, c) ==
  /\ MayCharge(u)
  /\ ActiveFor(SweptOrder, u) = {}
  /\ SweptCharger[c] = "Idle"

InsertOrder(c, row) ==
  /\ order' = Append(SweptOrder, row)
  /\ charger' = [SweptCharger EXCEPT ![c] = "Using"]
  /\ UNCHANGED <<now, usage, frozen, balance, recharged, price>>

Reserve(u, c) ==
  /\ WithinBounds
  /\ Admits(u, c)
  /\ IndexesAdmit(u, c)
  /\ InsertOrder(c, NewOrder(u, c, "Reserved", now + ReservationTime, NoTime))

\* the Reserved row o of u becomes Charging, after the sweep
BeginCharging(u, o) ==
  /\ MayCharge(u)
  /\ order[o].user = u
  /\ SweptOrder[o].status = "Reserved"
  /\ SweptCharger[order[o].charger] = "Using"
  /\ order[o].expireAt > now
  /\ order' = [SweptOrder EXCEPT ![o] =
                 [@ EXCEPT !.status = "Charging", !.startTime = now]]
  /\ charger' = SweptCharger
  /\ UNCHANGED <<now, usage, frozen, balance, recharged, price>>

\* charge.start with an order id: startReserved
StartReserved(u, o) == BeginCharging(u, o)

\* startReserved finds the reservation lapsed: the sweep is kept
StartLapsed(u, o) ==
  /\ MayCharge(u)
  /\ order[o].user = u
  /\ o \in Expired
  /\ CommitSweep

\* charge.start with a charger id only: the user's reservation there ...
StartHeld(u, c) ==
  \E o \in ActiveFor(SweptOrder, u) :
    /\ \A p \in ActiveFor(SweptOrder, u) : p <= o
    /\ order[o].charger = c
    /\ BeginCharging(u, o)

\* ... or one that has just lapsed ...
StartLapsedAt(u, c) ==
  /\ MayCharge(u)
  /\ ActiveFor(SweptOrder, u) = {}
  /\ \E o \in Expired : order[o].user = u /\ order[o].charger = c
  /\ CommitSweep

\* ... or a new order that is charging at once
StartDirect(u, c) ==
  /\ WithinBounds
  /\ Admits(u, c)
  /\ ~ \E o \in Expired : order[o].user = u /\ order[o].charger = c
  /\ IndexesAdmit(u, c)
  /\ InsertOrder(c, NewOrder(u, c, "Charging", NoTime, now))

\* the service's own conditions for a cancel that succeeds
MayCancel(u, o) ==
  /\ o \notin Expired
  /\ order[o].user = u
  /\ order[o].status = "Reserved"
  /\ SweptCharger[order[o].charger] = "Using"

Cancel(u, o) ==
  /\ MayCancel(u, o)
  /\ order' = [SweptOrder EXCEPT ![o] = [@ EXCEPT !.status = "Cancelled", !.endTime = now]]
  /\ charger' = [SweptCharger EXCEPT ![order[o].charger] = "Idle"]
  /\ UNCHANGED <<now, usage, frozen, balance, recharged, price>>

CancelLapsed(u, o) ==
  /\ order[o].user = u
  /\ o \in Expired
  /\ CommitSweep

\* charge.active
Active == CommitSweep

\* variant: the listing leaves lapsed reservations alone
CleanupNothing == UNCHANGED vars

\* station.list and station.detail
CleanupExpired == CommitSweep

\* ChargeCalculator::calculate: a clock set back bills no time at all
Elapsed(row, end) == IF end > row.startTime THEN end - row.startTime ELSE 0
\* variant: billed at the price of the day
AmountDueAtCurrentPrice(row, end) == Elapsed(row, end) * price

AmountDue(row, end) == Elapsed(row, end) * row.price

\* variant: no floor
Subtract(left, right) == left - right

SubtractFloorZero(left, right) == IF left > right THEN left - right ELSE 0

\* variants: a frozen user cannot settle; a settled order is settled again
MaySettleUnlessFrozen(u, o) ==
  /\ ~frozen[u]
  /\ order[o].user = u /\ order[o].status = "Charging"
  /\ charger[order[o].charger] = "Using"

MaySettleAgain(u, o) ==
  /\ order[o].user = u /\ order[o].status \in {"Charging", "Completed"}
  /\ charger[order[o].charger] = "Using"

\* ChargeService::stop, its conditions; the user's state is not one of them
MaySettle(u, o) ==
  /\ order[o].user = u
  /\ order[o].status = "Charging"
  /\ order[o].endTime = NoTime
  /\ charger[order[o].charger] = "Using"

Settle(u, o) ==
  LET row  == order[o]
      cost == AmountDue(row, now)
      left == SubtractFloorZero(balance[u], cost)
  IN
  /\ MaySettle(u, o)
  /\ order' = [order EXCEPT ![o] =
                 [row EXCEPT !.status = "Completed", !.endTime = now,
                             !.amount = cost,
                             !.debt = SubtractFloorZero(cost, balance[u]),
                             !.balanceAfter = left]]
  /\ charger' = [charger EXCEPT ![row.charger] = "Idle"]
  /\ usage' = [usage EXCEPT ![row.charger] =
                 [count   |-> @.count + 1,
                  minutes |-> @.minutes + Elapsed(row, now) \div MinuteLength]]
  /\ balance' = [balance EXCEPT ![u] = left]
  /\ UNCHANGED <<now, frozen, recharged, price>>

\* variant: the payment is not logged
RechargeUnlogged(u, a) ==
  /\ balance[u] + a <= MaxBalance
  /\ balance' = [balance EXCEPT ![u] = @ + a]
  /\ UNCHANGED <<now, order, charger, usage, frozen, recharged, price>>

\* UserService::recharge: open to a frozen user too
Recharge(u, a) ==
  /\ balance[u] + a <= MaxBalance
  /\ balance' = [balance EXCEPT ![u] = @ + a]
  /\ recharged' = [recharged EXCEPT ![u] = @ + a]
  /\ UNCHANGED <<now, order, charger, usage, frozen, price>>

-----------------------------------------------------------------------------
(* The administrator's operations.                                         *)

Unused == [count |-> 0, minutes |-> 0]

\* ChargerService::changeStatus, a read and a conditional update
ChangeStatus(c, expected, next) ==
  /\ charger[c] = expected
  /\ ActiveOn(order, c) = {}
  /\ charger' = [charger EXCEPT ![c] = next]
  /\ UNCHANGED <<now, order, usage, frozen, balance, recharged, price>>

MarkFault(c) == ChangeStatus(c, "Idle", "Fault")
Recover(c)   == ChangeStatus(c, "Fault", "Idle")

\* the foreign key of charging_order restricts the delete
RemoveCharger(c) ==
  /\ charger[c] \notin {"Absent", "Using"}
  /\ \A o \in DOMAIN order : order[o].charger # c
  /\ charger' = [charger EXCEPT ![c] = "Absent"]
  /\ UNCHANGED <<now, order, usage, frozen, balance, recharged, price>>

CreateCharger(c) ==
  /\ charger[c] = "Absent"
  /\ charger' = [charger EXCEPT ![c] = "Idle"]
  /\ usage' = [usage EXCEPT ![c] = Unused]
  /\ UNCHANGED <<now, order, frozen, balance, recharged, price>>

SetFrozen(u, value) ==
  /\ frozen[u] # value
  /\ frozen' = [frozen EXCEPT ![u] = value]
  /\ UNCHANGED <<now, order, charger, usage, balance, recharged, price>>

FreezeUser(u)   == SetFrozen(u, TRUE)
UnfreezeUser(u) == SetFrozen(u, FALSE)

\* the part of AdminService::updateStation that billing depends on
UpdatePrice(p) ==
  /\ price' = p
  /\ UNCHANGED <<now, order, charger, usage, frozen, balance, recharged>>

-----------------------------------------------------------------------------
(* The wall clock, which the server reads and does not control.            *)

ClockUnchanged == UNCHANGED <<order, charger, usage, frozen, balance, recharged, price>>

Tick == now < MaxTime /\ now' = now + 1 /\ ClockUnchanged

StepBack == ClockMayStepBack /\ now > 0 /\ now' = now - 1 /\ ClockUnchanged

-----------------------------------------------------------------------------
Init ==
  /\ now = 0
  /\ order = <<>>
  /\ charger = [c \in Chargers |-> "Idle"]
  /\ usage = [c \in Chargers |-> Unused]
  /\ frozen = [u \in Users |-> FALSE]
  /\ balance = [u \in Users |-> InitialBalance]
  /\ recharged = [u \in Users |-> 0]
  /\ price \in Prices

UserStep ==
  \/ \E u \in Users, c \in Chargers :
       Reserve(u, c) \/ StartHeld(u, c) \/ StartLapsedAt(u, c) \/ StartDirect(u, c)
  \/ \E u \in Users, o \in DOMAIN order :
       \/ StartReserved(u, o) \/ StartLapsed(u, o)
       \/ Cancel(u, o) \/ CancelLapsed(u, o)
       \/ Settle(u, o)
  \/ \E u \in Users, a \in RechargeAmounts : Recharge(u, a)
  \/ Active
  \/ CleanupExpired

AdminStep ==
  \/ \E c \in Chargers :
       MarkFault(c) \/ Recover(c) \/ RemoveCharger(c) \/ CreateCharger(c)
  \/ \E u \in Users : FreezeUser(u) \/ UnfreezeUser(u)
  \/ \E p \in Prices : UpdatePrice(p)

Next == UserStep \/ AdminStep \/ Tick \/ StepBack

Spec == Init /\ [][Next]_vars

\* the clock runs, and is put back only finitely often
ClockFairness == WF_vars(Tick) /\ <>[][~StepBack]_vars

FairSpec == Spec /\ ClockFairness

=============================================================================

----------------------- MODULE ChargeOrderProperties -----------------------
(***************************************************************************)
(* What the order core promises: of its tables, of its receipts and of the *)
(* ledgers.  ChargeOrderProofs proves all of it but the liveness property. *)
(***************************************************************************)
EXTENDS ChargeOrders, FiniteSets, Functions

TypeOK ==
  /\ now \in Nat
  /\ order \in Seq(Order)
  /\ charger \in [Chargers -> ChargerStatus]
  /\ usage \in [Chargers -> [count : Nat, minutes : Nat]]
  /\ frozen \in [Users -> BOOLEAN]
  /\ balance \in [Users -> Nat]
  /\ recharged \in [Users -> Nat]
  /\ price \in Nat

(* The parts of the inductive invariant, over any order table and any      *)
(* column of charger states, so that they can be said of the swept ones.   *)

Agree(rows, status) ==
  \A c \in Chargers : status[c] = "Using" <=> ActiveOn(rows, c) # {}

Disjoint(rows) ==
  \A o, p \in DOMAIN rows :
    IsActive(rows[o]) /\ IsActive(rows[p]) /\ o # p =>
      rows[o].user # rows[p].user /\ rows[o].charger # rows[p].charger

RowMatchesStatus(row) ==
  /\ IsActive(row) => row.endTime = NoTime
  /\ row.status = "Reserved" => row.expireAt # NoTime /\ row.startTime = NoTime
  /\ row.status = "Charging" => row.startTime # NoTime

(* The status column of a charger and the order table agree: a charger is  *)
(* in use exactly while some order on it is reserved or charging.  Reserve,*)
(* start, cancel, settle, the sweep and the administrator's status changes *)
(* each write one of the two, or both, and nothing else ties them.         *)
UsingMeansOrdered == Agree(order, charger)

(* No two active orders share a user or a charger, whatever mix of         *)
(* reservations, direct starts, lapses and administration led here.        *)
ActiveOrdersDisjoint == Disjoint(order)

(* The columns of a row that its status promises: findActive's end_time='' *)
(* test, the sweep's expire_at<>'' test and the calculator rely on them.   *)
ColumnsMatchStatus == \A o \in DOMAIN order : RowMatchesStatus(order[o])

IInv == TypeOK /\ UsingMeansOrdered /\ ActiveOrdersDisjoint /\ ColumnsMatchStatus

(* The conditions the service reads before it inserts an order suffice:    *)
(* the unique indexes never refuse the row, so a user who was told the     *)
(* charger is free never gets the index's error instead.                   *)
InsertNeverConflicts ==
  \A u \in Users, c \in Chargers : Admits(u, c) => IndexesAdmit(u, c)

(* Nobody is stuck with an order: its owner can settle a charging order    *)
(* and can cancel a reservation that has not lapsed, whatever happened to  *)
(* the charger, the price or the account in the meantime.                  *)
ActiveOrdersCanEnd ==
  \A o \in DOMAIN order :
    /\ order[o].status = "Charging" => MaySettle(order[o].user, o)
    /\ order[o].status = "Reserved" /\ o \notin Expired => MayCancel(order[o].user, o)

(* A receipt adds up: it bills the time charged at the price fixed when    *)
(* the order was made, and there is a debt only if the balance was used up.*)
ReceiptsAddUp ==
  \A o \in DOMAIN order :
    order[o].status = "Completed" =>
      /\ order[o].startTime # NoTime
      /\ order[o].amount = AmountDue(order[o], order[o].endTime)
      /\ order[o].debt <= order[o].amount
      /\ order[o].debt > 0 => order[o].balanceAfter = 0

-----------------------------------------------------------------------------
(* The abstract view: each charger is a lease (module ChargerLease).       *)

PhaseOf(rows, status) ==
  [c \in Chargers |->
     IF \E o \in ActiveOn(rows, c) : rows[o].status = "Charging" THEN "Charging"
     ELSE IF ActiveOn(rows, c) # {} THEN "Reserved"
     ELSE status[c]]

HolderOf(rows) == [c \in Chargers |-> {rows[o].user : o \in ActiveOn(rows, c)}]

LeasePhase  == PhaseOf(order, charger)
LeaseHolder == HolderOf(order)

Lease == INSTANCE ChargerLease WITH phase <- LeasePhase, holder <- LeaseHolder

(* Every operation on the rows of orders and chargers is one step of the   *)
(* lease, or none: the sweep at its start lapses some leases and the rest  *)
(* takes, begins, ends or services one.                                    *)
ImplementsLease == Lease!Spec

-----------------------------------------------------------------------------
(* What a step may do to the rows that were there before it.               *)

FinishedStays(o) == o \in DOMAIN order' /\ order'[o] = order[o]

StartsInTime(o) ==
  /\ now < order[o].expireAt
  /\ order'[o] = [order[o] EXCEPT !.status = "Charging", !.startTime = now]

CancelledOrStarted(o) == Cancel(order[o].user, o) \/ BeginCharging(order[o].user, o)

Receipts(u, o) ==
  /\ order[o].user = u
  /\ order[o].status = "Charging"
  /\ order'[o].status = "Completed"
  /\ balance[u] - balance'[u] = order'[o].amount - order'[o].debt
  /\ order'[o].balanceAfter = balance'[u]

(* A finished order is never touched again: a late settle, cancel, start   *)
(* or sweep can neither revive it nor change its receipt, and the row is   *)
(* never deleted or renumbered.                                            *)
FinishedOrdersFinal ==
  [][\A o \in DOMAIN order : ~IsActive(order[o]) => FinishedStays(o)]_vars

(* Charging starts on a reservation only before it lapses, and the price,  *)
(* the parties and the deadline agreed then still hold.                    *)
StartHonoursReservation ==
  [][\A o \in DOMAIN order :
       order[o].status = "Reserved" /\ order'[o].status = "Charging" => StartsInTime(o)]_vars

(* A reservation that has not lapsed ends only by the cancellation or the  *)
(* start of that very order: no sweep, no operation on another order and   *)
(* no administration takes it away.  (Tables show what was done to an      *)
(* order and not who asked: that only the owner may is the guard of        *)
(* Cancel and BeginCharging, and not what is claimed here.)                *)
HoldsAreRespected ==
  [][\A o \in DOMAIN order :
       /\ order[o].status = "Reserved"
       /\ order[o].expireAt > now
       /\ order'[o].status # "Reserved"
       => CancelledOrStarted(o)]_vars

(* Only the settlement of one's own charging order takes money from a      *)
(* balance, and what it takes is what the new receipt says.                *)
ChargesAreReceipted ==
  [][\A u \in Users :
       balance'[u] < balance[u] => \E o \in DOMAIN order : Receipts(u, o)]_vars

-----------------------------------------------------------------------------
(* The ledgers.                                                            *)

CompletedBy(u) == {o \in DOMAIN order : order[o].status = "Completed" /\ order[o].user = u}
CompletedOn(c) == {o \in DOMAIN order : order[o].status = "Completed" /\ order[o].charger = c}

Paid == [o \in DOMAIN order |-> order[o].amount - order[o].debt]
BilledMinutes ==
  [o \in DOMAIN order |-> Elapsed(order[o], order[o].endTime) \div MinuteLength]

(* No money is made or lost: what a user has is what he started with and   *)
(* paid in, less what his receipts say he paid.                            *)
MoneyConserved ==
  \A u \in Users :
    balance[u] + SumFunctionOnSet(Paid, CompletedBy(u)) = InitialBalance + recharged[u]

\* a deleted charger has no orders: the foreign key keeps its row
AbsentHasNoOrders ==
  \A o \in DOMAIN order : charger[order[o].charger] # "Absent"

(* A charger's counters count its settled orders, each exactly once, also  *)
(* when a settlement is repeated or the charger is repaired in between.    *)
UsageMatchesOrders ==
  \A c \in Chargers :
    /\ usage[c].count = Cardinality(CompletedOn(c))
    /\ usage[c].minutes = SumFunctionOnSet(BilledMinutes, CompletedOn(c))

-----------------------------------------------------------------------------
IsReserved(o) == o \in DOMAIN order /\ order[o].status = "Reserved"

(* A reservation does not last: with the clock running it is started,      *)
(* cancelled or swept.  This is what the design document's periodic        *)
(* cleaner is for.  The server has none, and the code violates it.         *)
ReservationsEnd == \A o \in 1..MaxOrders : IsReserved(o) ~> ~IsReserved(o)

(* What the lazy sweep does promise: every reservation ends as long as     *)
(* some client goes on asking for the stations.  The hypothesis is about   *)
(* the users and no part of the program ensures it.                        *)
ReservationsEndIfAsked == WF_vars(CleanupExpired) => ReservationsEnd

=============================================================================

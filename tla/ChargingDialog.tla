--------------------------- MODULE ChargingDialog ---------------------------
(***************************************************************************)
(* The dialog in which a user starts, cancels and settles an order, with   *)
(* the facade, the connection and the order on the server behind it.  The  *)
(* server answers requests in the order they were sent; the user, another  *)
(* client of the same user, the sweep of lapsed reservations, the facade's *)
(* timeouts and the dialog's own timers interleave with that.              *)
(***************************************************************************)
EXTENDS FacadeLink, FiniteSets

CONSTANT MaxTimers   \* bound: timers of one kind that are running

ASSUME DialogBound == MaxTimers \in Nat \ {0}

VARIABLES
  order,         \* the order's status on the server
  lapsed,        \* the server's clock has reached expire_at
  other,         \* the user has another active order
  startedDue,    \* chargeStarted is to be emitted from a zero timer
  record,        \* record_.status
  countdownOver, \* the client's clock has reached expire_at
  route,         \* pendingRoute_, or None
  check,         \* expiryCheckRequested_
  enabled,       \* actionButton_ is enabled
  confirm,       \* confirmation_
  timers         \* how many 10 s timers run for each value of pendingRoute_

server == <<order, lapsed, other>>
facade == <<link, startedDue>>
dialog == <<record, countdownOver, route, check, enabled, confirm, timers>>
vars == <<server, facade, dialog>>

None == "none"
Status == {"Reserved", "Charging", "Completed", "Cancelled"}
DialogRoutes == {"charge.start", "charge.settle", "charge.cancel", "charge.active"}
NoConfirmation == [state |-> "closed", asks |-> None]

\* the other routes of the facade are other windows'
ASSUME DialogAssumption == Routes = DialogRoutes

-----------------------------------------------------------------------------
(* The server.                                                             *)

Lapsing == order = "Reserved" /\ lapsed

Swept == IF Lapsing THEN "Cancelled" ELSE order

\* the order after request r, should it succeed
After(r) ==
  CASE r = "charge.start"  -> "Charging"
    [] r = "charge.settle" -> "Completed"
    [] r = "charge.cancel" -> "Cancelled"
    [] r = "charge.active" -> Swept

Allowed(r) ==
  \/ r \in {"charge.start", "charge.cancel"} /\ order = "Reserved" /\ ~lapsed
  \/ r = "charge.settle" /\ order \in {"Charging", "Completed"}
  \/ r = "charge.active"

\* what charge.active answers
ActiveStatus ==
  IF Swept \in {"Reserved", "Charging"} THEN Swept ELSE IF other THEN "other" ELSE None

\* the server executes the next request; it may also refuse it for reasons
\* of its own (balance, database), and then sweeps or changes nothing
Serve(ok) ==
  LET r == Head(calls).route
  IN  /\ Executes(ok, IF r = "charge.active" THEN ActiveStatus ELSE After(r))
      /\ ok => Allowed(r)
      /\ order' \in IF ok THEN {After(r)} ELSE {order, Swept}
      /\ UNCHANGED <<lapsed, other, startedDue, dialog>>

Lapse ==
  /\ lapsed' = TRUE
  /\ UNCHANGED <<order, other, facade, dialog>>

\* any request of another user
Sweep ==
  /\ order' = Swept
  /\ UNCHANGED <<lapsed, other, facade, dialog>>

\* another client of the same user
OtherClient ==
  /\ \/ order = "Reserved" /\ ~lapsed /\ order' \in {"Charging", "Cancelled"} /\ UNCHANGED other
     \/ order = "Charging" /\ order' = "Completed" /\ UNCHANGED other
     \/ Swept \in {"Completed", "Cancelled"} /\ order' = Swept /\ other' = ~other
  /\ UNCHANGED <<lapsed, facade, dialog>>

-----------------------------------------------------------------------------
(* The buttons and the clock.                                              *)

Ask(r) == Send(r, None) /\ UNCHANGED <<server, startedDue>>

\* without a token requestFailed comes before the call returns, and the
\* facade has none when it is not connected
NotSent == ~connected /\ UNCHANGED <<server, facade>>

Armed(r) == [timers EXCEPT ![r] = @ + 1]

\* zero timers run before the user's next click is looked at
Ready == ~startedDue

\* the action button of a reservation
ClickStart ==
  /\ Ready /\ enabled /\ route = None /\ confirm = NoConfirmation /\ record = "Reserved"
  /\ timers["charge.start"] < MaxTimers     \* bound
  /\ Ask("charge.start")
  /\ route' = "charge.start"
  /\ enabled' = FALSE
  /\ timers' = Armed("charge.start")
  /\ UNCHANGED <<record, countdownOver, check, confirm>>

\* refused: the handler has reset pendingRoute_ when the timer is armed for it
ClickStartRefused ==
  /\ Ready /\ enabled /\ route = None /\ confirm = NoConfirmation /\ record = "Reserved"
  /\ timers[None] < MaxTimers               \* bound
  /\ NotSent
  /\ check' = FALSE
  /\ timers' = Armed(None)
  /\ UNCHANGED <<record, countdownOver, route, enabled, confirm>>

\* the button that settles, or cancels, opens a confirmation
Click ==
  /\ Ready /\ enabled /\ route = None /\ confirm = NoConfirmation
  /\ confirm' \in {[state |-> "open", asks |-> r] :
                     r \in IF record = "Reserved" THEN {"charge.cancel"}
                           ELSE IF record = "Charging" THEN {"charge.settle"} ELSE {}}
  /\ UNCHANGED <<server, facade, record, countdownOver, route, check, enabled, timers>>

Dismiss ==
  /\ Ready /\ confirm.state = "open"
  /\ confirm' = NoConfirmation
  /\ UNCHANGED <<server, facade, record, countdownOver, route, check, enabled, timers>>

Confirm ==
  LET r == confirm.asks
  IN  /\ Ready /\ confirm.state = "open"
      /\ timers[r] < MaxTimers              \* bound
      /\ Ask(r)
      /\ confirm' = [confirm EXCEPT !.state = "pending"]
      /\ route' = r
      /\ enabled' = FALSE
      /\ timers' = Armed(r)
      /\ UNCHANGED <<record, countdownOver, check>>

ConfirmRefused ==
  LET r == confirm.asks
  IN  /\ Ready /\ confirm.state = "open"
      /\ timers[r] < MaxTimers              \* bound
      /\ NotSent
      /\ route' = None
      /\ check' = FALSE
      /\ enabled' = TRUE
      /\ timers' = Armed(r)
      /\ UNCHANGED <<record, countdownOver, confirm>>

MustCheck == record = "Reserved" /\ countdownOver /\ ~check /\ route = None

\* refresh, once a second: when the countdown is over the server is asked
Refresh ==
  /\ MustCheck
  /\ Ask("charge.active")
  /\ check' = TRUE
  /\ route' = "charge.active"
  /\ enabled' = FALSE
  /\ UNCHANGED <<record, countdownOver, confirm, timers>>

-----------------------------------------------------------------------------
(* The handlers.                                                           *)

\* variant: a failed request leaves the expiry check requested
ResetKeepingCheck ==
  /\ route' = None
  /\ enabled' = TRUE
  /\ UNCHANGED check

\* resetRequestState
Reset ==
  /\ route' = None
  /\ check' = FALSE
  /\ enabled' = TRUE

\* finishFailure, on whatever confirmation there is
Reopened == IF confirm = NoConfirmation THEN confirm ELSE [confirm EXCEPT !.state = "open"]

\* refresh without a connection: the check has failed when it returns
RefreshRefused ==
  /\ MustCheck
  /\ NotSent
  /\ Reset
  /\ confirm' = Reopened
  /\ UNCHANGED <<record, countdownOver, timers>>

\* variant: with a confirmation there is nothing else to reset
FailConfirmationFirst(r) ==
  /\ IF r # route THEN UNCHANGED <<route, check, enabled, confirm>>
     ELSE IF confirm = NoConfirmation THEN Reset /\ UNCHANGED confirm
     ELSE confirm' = Reopened /\ UNCHANGED <<route, check, enabled>>
  /\ UNCHANGED <<record, countdownOver, timers>>

\* requestFailed
Fail(r) ==
  /\ IF r = route THEN Reset /\ confirm' = Reopened
     ELSE UNCHANGED <<route, check, enabled, confirm>>
  /\ UNCHANGED <<record, countdownOver, timers>>

\* variant: the answer is taken for a success
TakenForSuccess(a) == TRUE

Success(a) == a.ok

\* chargeStopped, reservationCancelled
Finish(status) ==
  /\ confirm' = NoConfirmation
  /\ route' = None
  /\ record' = status
  /\ enabled' = TRUE
  /\ UNCHANGED <<countdownOver, check, timers>>

\* activeChargeReceived
ShowActive(status) ==
  /\ IF ~check THEN UNCHANGED <<check, route, record, enabled>>
     ELSE /\ check' = FALSE
          /\ route' = None
          /\ record' = IF status = None THEN "Cancelled" ELSE IF status = "other" THEN record ELSE status
          /\ enabled' = IF status = "other" THEN enabled ELSE TRUE
  /\ UNCHANGED <<countdownOver, confirm, timers>>

Succeed(a) ==
  CASE a.route = "charge.start"  -> UNCHANGED dialog
    [] a.route = "charge.active" -> ShowActive(a.value)
    [] OTHER                     -> Finish(a.value)

\* the next answer arrives
Receive ==
  LET a == Head(answers)
  IN  /\ Arrives
      /\ IF ~a.live THEN UNCHANGED <<startedDue, dialog>>
         ELSE /\ startedDue' = (startedDue \/ (Success(a) /\ a.route = "charge.start"))
              /\ IF Success(a) THEN Succeed(a) ELSE Fail(a.route)
      /\ UNCHANGED server

\* the zero timer emits chargeStarted
Started ==
  /\ startedDue
  /\ startedDue' = FALSE
  /\ record' = "Charging"
  /\ route' = None
  /\ enabled' = TRUE
  /\ UNCHANGED <<server, link, countdownOver, check, confirm, timers>>

\* the facade gives a request up
Expire(r) ==
  /\ GivesUp(r)
  /\ Fail(r)
  /\ UNCHANGED <<server, startedDue>>

\* networkError, then requestFailed for all that waits, then disconnected
Disconnect ==
  /\ \E n \in 0..Len(calls) : Breaks(n)
  /\ IF route # None THEN Reset /\ confirm' = Reopened
     ELSE UNCHANGED <<route, check, enabled, confirm>>
  /\ UNCHANGED <<server, startedDue, record, countdownOver, timers>>

CountdownEnds ==
  /\ countdownOver' = TRUE
  /\ UNCHANGED <<server, facade, record, route, check, enabled, confirm, timers>>

\* a timer armed for r: start's does not know of a confirmation
TimerFires(r) ==
  /\ timers[r] > 0
  /\ timers' = [timers EXCEPT ![r] = @ - 1]
  /\ IF r = route
     THEN /\ Reset
          /\ confirm' = IF r \in {"charge.settle", "charge.cancel"} THEN Reopened ELSE confirm
     ELSE UNCHANGED <<route, check, enabled, confirm>>
  /\ UNCHANGED <<server, facade, record, countdownOver>>

-----------------------------------------------------------------------------
\* opened on a new reservation, or on an order recovered at login
Init ==
  /\ order \in {"Reserved", "Charging"} /\ record = order
  /\ lapsed = FALSE /\ other = FALSE
  /\ waiting = {} /\ connected = TRUE /\ calls = <<>> /\ answers = <<>> /\ startedDue = FALSE
  /\ countdownOver = FALSE /\ route = None /\ check = FALSE /\ enabled = TRUE
  /\ confirm = NoConfirmation
  /\ timers = [r \in DialogRoutes \cup {None} |-> 0]

Next ==
  \/ Lapse \/ Sweep \/ OtherClient \/ Disconnect
  \/ \E ok \in BOOLEAN : Serve(ok)
  \/ Receive \/ Started \/ Refresh \/ RefreshRefused \/ CountdownEnds
  \/ ClickStart \/ ClickStartRefused \/ Click \/ Dismiss \/ Confirm \/ ConfirmRefused
  \/ \E r \in DialogRoutes : Expire(r)
  \/ \E r \in DialogRoutes \cup {None} : TimerFires(r)

Spec == Init /\ [][Next]_vars

\* Network, server and event loop go on; refresh comes every second, so often
\* enough to meet a moment in which it may ask.
FairSpec ==
  /\ Spec
  /\ WF_vars(\E ok \in BOOLEAN : Serve(ok))
  /\ WF_vars(Receive) /\ WF_vars(Started) /\ WF_vars(Lapse) /\ WF_vars(CountdownEnds)
  /\ \A r \in DialogRoutes \cup {None} : WF_vars(TimerFires(r))
  /\ SF_vars(Refresh \/ RefreshRefused)

-----------------------------------------------------------------------------
(* Properties.                                                             *)

Ended == {"Completed", "Cancelled"}

\* The dialog is never ahead of the server: it shows a charge that has begun,
\* or an order that is over, only when the server's order is at least there,
\* whichever answers come late, get lost or belong to older requests.
NeverAheadOfServer ==
  /\ record = "Charging"  => order # "Reserved"
  /\ record = "Completed" => order = "Completed"
  /\ record = "Cancelled" => Swept \in Ended

\* Whatever the dialog waits for comes to an end: the facade still waits for
\* the route, or a timer of the dialog runs for it, or chargeStarted is due.
\* Two of them forget about a wait that the others took over.
WaitIsWatched ==
  route # None => route \in waiting \/ timers[route] > 0 \/ startedDue

\* the check of a lapsed reservation, or a wait, goes wrong
CheckTrouble ==
  \/ \E r \in DialogRoutes : Expire(r)
  \/ Serve(FALSE) /\ Head(calls).route = "charge.active"
  \/ \E r \in DialogRoutes : r = route /\ TimerFires(r)

\* A dialog whose countdown is over learns what became of the order, however
\* many checks failed before and whatever the user clicks meanwhile.
LapseIsNoticed ==
  <>[](connected /\ ~other) /\ <>[][~CheckTrouble]_vars =>
    (countdownOver /\ record = "Reserved" ~> record # "Reserved")

\* A confirmation that was confirmed is closed, or can be used again, once its
\* request has succeeded, failed or timed out.
ConfirmationEnds == confirm.state = "pending" ~> confirm.state # "pending"
=============================================================================

----------------------------- MODULE StationDetail -----------------------------
(***************************************************************************)
(* A customer's home window and the window of a station: its chargers with *)
(* the buttons that reserve, start and cancel, the plans for a charge, and *)
(* the charging dialog, which ChargingDialog models.  The window refreshes *)
(* with two requests, the station and the active order; its chargers are   *)
(* drawn when both were answered.  Recommendations and favourites, which   *)
(* nothing else here depends on, are left out.                             *)
(***************************************************************************)
EXTENDS FacadeLink, FiniteSets

CONSTANT MaxChargers   \* the chargers of the station are 1..MaxChargers

ASSUME ChargersAssumption == MaxChargers \in Nat \ {0}

VARIABLES
  order,    \* the customer's active order on the server
  station,  \* StationDetailDialog, with the windows over it
  home      \* UserMainWindow

stationWindows == <<order, station, home>>

Chargers == 1..MaxChargers
StationRoutes ==
  {"station.list", "station.detail", "charge.active",
   "charge.reserve", "charge.start", "charge.cancel"}

NoOrder == [charger |-> 0, status |-> "none"]
Nothing == [window |-> "none", charger |-> 0, plan |-> 0]

\* pending request, its charger, and whether a timer was started for it; what
\* the refresh waits for, its timer, the order it showed; the charger whose
\* plan was chosen; the signal that is due; and the windows over this one
ClosedStation ==
  [open |-> FALSE, pending |-> "none", target |-> 0, timer |-> FALSE,
   detail |-> FALSE, active |-> FALSE, refresh |-> FALSE, buttons |-> "none",
   mine |-> NoOrder, plan |-> 0, due |-> Nothing,
   over |-> Nothing, confirm |-> "closed"]

-----------------------------------------------------------------------------
(* The server.                                                             *)

\* what the request does to the order; other customers and faults are in ok
OrderAfter(c) ==
  CASE c.route = "charge.reserve" -> [charger |-> c.arg, status |-> "reserved"]
    [] c.route = "charge.start" -> [order EXCEPT !.status = "charging"]
    [] c.route = "charge.cancel" -> NoOrder
    [] OTHER -> order

\* the order that the answer carries
Record(c) ==
  CASE c.route \in {"station.list", "station.detail"} -> NoOrder
    [] c.route = "charge.cancel" -> order
    [] OTHER -> OrderAfter(c)

ServeStation(ok) ==
  LET c == Head(calls)
  IN  /\ ok /\ c.route = "charge.reserve" => order = NoOrder
      /\ ok /\ c.route \in {"charge.start", "charge.cancel"} =>
           order = [charger |-> c.arg, status |-> "reserved"]
      /\ order' = IF ok THEN OrderAfter(c) ELSE order
      /\ Executes(ok, IF ok THEN Record(c) ELSE NoOrder)
      /\ UNCHANGED <<station, home>>

\* a reservation expires
ReservationLapses ==
  /\ order.status = "reserved"
  /\ order' = NoOrder
  /\ UNCHANGED <<link, station, home>>

-----------------------------------------------------------------------------
(* What the station window does to itself.                                 *)

ChargersRendered(s) == [s EXCEPT !.buttons = "on"]

\* variant: the plan outlives the reservation that failed
ResetKeepsPlan(s) ==
  [s EXCEPT !.pending = "none", !.target = 0, !.buttons = IF @ = "none" THEN @ ELSE "on"]

ResetAction(s) ==
  [s EXCEPT !.plan = IF s.pending = "charge.reserve" THEN 0 ELSE @,
            !.pending = "none", !.target = 0,
            !.buttons = IF @ = "none" THEN @ ELSE "on"]

BeginAction(s, r, c) ==
  IF s.pending # "none" \/ s.detail \/ s.active THEN s
  ELSE [s EXCEPT !.pending = r, !.target = c, !.timer = TRUE,
                 !.buttons = IF @ = "none" THEN @ ELSE "off"]

\* requestCurrentState
Refreshing(s, withDetail) ==
  [s EXCEPT !.pending = "none", !.target = 0, !.detail = withDetail, !.active = TRUE,
            !.refresh = TRUE, !.buttons = IF @ = "none" THEN @ ELSE "off"]

\* finishRefreshIfReady
Refreshed(s) == IF s.detail \/ s.active THEN s ELSE ChargersRendered([s EXCEPT !.refresh = FALSE])

RefreshFailed(s) == ResetAction([s EXCEPT !.detail = FALSE, !.active = FALSE])

\* the requests of the refresh that are not answered yet
Refreshes(s) ==
  {r \in {"station.detail", "charge.active"} : IF r = "station.detail" THEN s.detail ELSE s.active}

ConfirmFailed(s) == [s EXCEPT !.confirm = IF @ = "pending" THEN "open" ELSE @]

\* requestFailed
StationFailed(s, r) ==
  CASE ~s.open -> s
    [] s.open /\ r = s.pending -> ResetAction(ConfirmFailed(s))
    [] s.open /\ r \in Refreshes(s) -> RefreshFailed(s)
    [] OTHER -> s

\* networkError
StationOffline(s) ==
  IF s.pending = "none" /\ ~s.detail /\ ~s.active THEN s
  ELSE RefreshFailed(ConfirmFailed(s))

\* the signals chargeStarted and reservationCreated open the charging dialog
Charging(s, c) == [s EXCEPT !.over = [window |-> "charging", charger |-> c, plan |-> s.plan]]

Signalled(s) ==
  IF s.pending = s.due.window /\ s.target = s.due.charger
  THEN Charging([s EXCEPT !.pending = "none", !.target = 0, !.due = Nothing], s.due.charger)
  ELSE [s EXCEPT !.due = Nothing]

-----------------------------------------------------------------------------
(* The home window.                                                        *)

\* the same, when the request fails that it waits for
HomeFailed(h, R) ==
  [h EXCEPT !.list = IF "station.list" \in R THEN "failed" ELSE @,
            !.opening = @ /\ "station.detail" \notin R,
            !.recovering = @ /\ "charge.active" \notin R]

\* a dialog over it has closed: refreshStations
HomeQueries == <<"station.list">>

HomeRefreshes ==
  IF connected
  THEN SendAll(HomeQueries) /\ home' = [home EXCEPT !.opening = FALSE, !.list = "loading"]
  ELSE UNCHANGED link /\ home' = [home EXCEPT !.opening = FALSE, !.list = "failed"]

\* requestStationOpen
OpenClicked ==
  /\ ~station.open /\ home.recovered = 0 /\ ~home.due
  /\ home.cards /\ ~home.opening
  /\ IF connected
     THEN Send("station.detail", 0) /\ home' = [home EXCEPT !.opening = TRUE, !.timer = TRUE]
     ELSE UNCHANGED link /\ home' = [home EXCEPT !.timer = TRUE]
  /\ UNCHANGED <<order, station>>

\* showStationDetail: the window is made with the next event
StationOpens ==
  /\ home.due
  /\ home' = [home EXCEPT !.due = FALSE]
  /\ LET s == [ClosedStation EXCEPT !.open = TRUE]
     IN  IF connected
         THEN SendAll(<<"charge.active">>) /\ station' = Refreshing(s, FALSE)
         ELSE UNCHANGED link /\ station' = RefreshFailed(Refreshing(s, FALSE))
  /\ UNCHANGED order

\* its timer names the station, not the attempt: it may be an earlier one's
HomeTimer ==
  /\ home.timer /\ home.opening
  /\ home' = [home EXCEPT !.opening = FALSE, !.timer = FALSE]
  /\ UNCHANGED <<link, order, station>>

-----------------------------------------------------------------------------
(* The station window.                                                     *)

\* nothing modal is open, and no signal is due
Free == station.open /\ station.over = Nothing /\ station.confirm = "closed"
          /\ station.due = Nothing

\* beginAction and the request, which is sent whether the action began or not
Acts(s, r, c) ==
  IF connected
  THEN Send(r, c) /\ station' = BeginAction(s, r, c)
  ELSE UNCHANGED link /\ station' = StationFailed(BeginAction(s, r, c), r)

ReserveClicked(c) ==
  /\ Free /\ station.buttons = "on" /\ c # station.mine.charger
  /\ Acts([station EXCEPT !.plan = 0], "charge.reserve", c)
  /\ UNCHANGED <<order, home>>

\* openSmartCharging: the plans are computed in the window itself
PlansClicked(c) ==
  /\ Free /\ station.buttons = "on" /\ c # station.mine.charger
  /\ station' = [station EXCEPT !.over = [window |-> "plans", charger |-> c, plan |-> 0]]
  /\ UNCHANGED <<link, order, home>>

PlansClosed ==
  /\ station.over.window = "plans"
  /\ LET c == station.over.charger
         s == [station EXCEPT !.over = Nothing]
     IN  \/ Acts([s EXCEPT !.plan = c], "charge.reserve", c)
         \/ UNCHANGED link /\ station' = s
  /\ UNCHANGED <<order, home>>

StartClicked ==
  /\ Free /\ station.buttons = "on" /\ station.mine.status = "reserved"
  /\ Acts(station, "charge.start", station.mine.charger)
  /\ UNCHANGED <<order, home>>

ViewClicked ==
  /\ Free /\ station.buttons = "on" /\ station.mine.status = "charging"
  /\ station' = Charging(station, station.mine.charger)
  /\ UNCHANGED <<link, order, home>>

CancelClicked ==
  /\ Free /\ station.buttons = "on" /\ station.mine.status = "reserved"
  /\ station' = [station EXCEPT !.confirm = "open"]
  /\ UNCHANGED <<link, order, home>>

ConfirmationAnswered ==
  /\ station.confirm = "open"
  /\ \/ Acts([station EXCEPT !.confirm = "pending"], "charge.cancel", station.mine.charger)
     \/ UNCHANGED link /\ station' = [station EXCEPT !.confirm = "closed"]
  /\ UNCHANGED <<order, home>>

\* what ChargingDialog may have done to the order of charger c
OrderUsed(c) ==
  order' \in {order} \cup (IF order.charger # c THEN {}
                           ELSE {NoOrder, [charger |-> c, status |-> "charging"]})

\* the end of openCharging
ChargingClosed ==
  /\ station.over.window = "charging"
  /\ OrderUsed(station.over.charger)
  /\ LET s == [station EXCEPT !.over = Nothing, !.plan = 0]
     IN  IF connected
         THEN SendAll(<<"station.detail", "charge.active">>) /\ station' = Refreshing(s, TRUE)
         ELSE UNCHANGED link /\ station' = RefreshFailed(Refreshing(s, TRUE))
  /\ UNCHANGED home

\* the charging dialog that the home window opened for the order it recovered
RecoveredClosed ==
  /\ home.recovered # 0 /\ ~station.open
  /\ OrderUsed(home.recovered)
  /\ IF connected
     THEN /\ SendAll(HomeQueries)
          /\ home' = [home EXCEPT !.opening = FALSE, !.list = "loading", !.recovered = 0]
     ELSE /\ UNCHANGED link
          /\ home' = [home EXCEPT !.opening = FALSE, !.list = "failed", !.recovered = 0]
  /\ UNCHANGED station

\* the window may be closed while it waits
StationClosed ==
  /\ Free
  /\ station' = ClosedStation
  /\ HomeRefreshes
  /\ UNCHANGED order

\* the timer of an action knows the route and the charger, not the attempt: it
\* may be an earlier one's
ActionTimer ==
  /\ station.timer /\ station.pending # "none"
  /\ station' = [ResetAction(station) EXCEPT !.timer = FALSE]
  /\ UNCHANGED <<link, order, home>>

RefreshTimer ==
  /\ station.refresh
  /\ station' = [IF station.detail \/ station.active THEN RefreshFailed(station) ELSE station
                   EXCEPT !.refresh = FALSE]
  /\ UNCHANGED <<link, order, home>>

-----------------------------------------------------------------------------
(* The answers.                                                            *)

StationDetailReceived(s) == IF s.detail THEN Refreshed([s EXCEPT !.detail = FALSE]) ELSE s

ActiveReceived(s, record) ==
  IF s.active THEN Refreshed([s EXCEPT !.mine = record, !.active = FALSE]) ELSE s

\* recoverActiveOrder
Recovered(h, record) ==
  IF h.recovering THEN [h EXCEPT !.recovering = FALSE, !.recovered = record.charger] ELSE h

\* reservationCancelled, for the window that waits for it
CancelFits(s, a) ==
  a.route = "charge.cancel" /\ s.pending = a.route /\ s.target = a.value.charger

AnnounceStation(a) ==
  IF CancelFits(station, a)
  THEN /\ ArrivesThenAll(<<"station.detail", "charge.active">>)
       /\ station' = Refreshing([station EXCEPT !.confirm = "closed"], TRUE)
       /\ UNCHANGED home
  ELSE /\ Arrives
       /\ station' =
            CASE a.route = "station.detail" -> StationDetailReceived(station)
              [] a.route = "charge.active" -> ActiveReceived(station, a.value)
              [] a.route \in {"charge.reserve", "charge.start"} /\ station.open ->
                   [station EXCEPT !.due = [window |-> a.route, charger |-> a.value.charger, plan |-> 0]]
              [] OTHER -> station
       /\ home' =
            CASE a.route = "station.list" -> [home EXCEPT !.list = "shown", !.cards = TRUE]
              [] a.route = "station.detail" /\ home.opening ->
                   [home EXCEPT !.opening = FALSE, !.due = TRUE]
              [] a.route = "charge.active" -> Recovered(home, a.value)
              [] OTHER -> home

\* a signal that is due comes before the next answer
ReceiveStation ==
  /\ answers # <<>> /\ station.due = Nothing /\ ~home.due
  /\ LET a == Head(answers)
     IN  CASE ~a.live -> Arrives /\ UNCHANGED <<station, home>>
           [] a.live /\ a.ok -> AnnounceStation(a)
           [] OTHER -> /\ Arrives
                       /\ station' = StationFailed(station, a.route)
                       /\ home' = HomeFailed(home, {a.route})
  /\ UNCHANGED order

SignalDue ==
  /\ station.due # Nothing
  /\ station' = Signalled(station)
  /\ UNCHANGED <<link, order, home>>

ExpireStation(r) ==
  /\ GivesUp(r)
  /\ station' = StationFailed(station, r)
  /\ home' = HomeFailed(home, {r})
  /\ UNCHANGED order

DisconnectStation(n) ==
  /\ Breaks(n)
  /\ station' = IF station.open THEN StationOffline(station) ELSE station
  /\ home' = HomeFailed(home, waiting \cup {"station.detail", "charge.active"})
  /\ UNCHANGED order

-----------------------------------------------------------------------------
\* the home window has asked for its stations and for the order to recover
InitStation ==
  /\ order \in {NoOrder} \cup [charger : Chargers, status : {"reserved", "charging"}]
  /\ station = ClosedStation
  /\ home = [list |-> "loading", cards |-> FALSE, opening |-> FALSE, timer |-> FALSE, due |-> FALSE,
             recovering |-> TRUE, recovered |-> 0]

FirstQueries == <<"station.list", "charge.active">>

NextStation ==
  \/ \E ok \in BOOLEAN : calls # <<>> /\ ServeStation(ok)
  \/ ReservationLapses \/ ReceiveStation \/ SignalDue
  \/ \E r \in StationRoutes : ExpireStation(r)
  \/ connected /\ \E n \in 0..Len(calls) : DisconnectStation(n)
  \/ OpenClicked \/ StationOpens \/ HomeTimer
  \/ \E c \in Chargers : ReserveClicked(c) \/ PlansClicked(c)
  \/ PlansClosed \/ StartClicked \/ ViewClicked \/ CancelClicked \/ ConfirmationAnswered
  \/ ChargingClosed \/ RecoveredClosed \/ StationClosed
  \/ ActionTimer \/ RefreshTimer

-----------------------------------------------------------------------------
(* Properties.                                                             *)

\* Home window and station window have a timer or a pending request for
\* whatever they wait for.
StationsWatched ==
  /\ home.list = "loading" => "station.list" \in waiting
  /\ home.opening => home.timer
  /\ home.recovering => "charge.active" \in waiting
  /\ station.detail \/ station.active => station.refresh
  /\ station.pending # "none" => station.timer

\* The question before a cancellation has its buttons back once the window no
\* longer waits for the answer (beginAction's timer, finishFailure).  The code
\* violates it, by that timer.
CancellationRecovers == station.confirm = "pending" => station.pending = "charge.cancel"

\* The plan a customer chose for one charger never drives the charge at
\* another, whatever failed, lapsed or was repeated in between
\* (hasPendingSmartPlan_, which openCharging hands to ChargingDialog).
PlanFitsCharger ==
  station.over.window = "charging" => station.over.plan \in {0, station.over.charger}
=============================================================================

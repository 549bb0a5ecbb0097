------------------------------ MODULE AdminReports ------------------------------
(***************************************************************************)
(* RevenuePage and ChargerStatusPage: panels, each filled by a request.    *)
(* The figures, the last orders and the charger status are fetched alike   *)
(* and are one panel here.  The trend is asked for 7 or for 30 days, and   *)
(* the two requests may wait together (AdminClientFacade::sendAnalytics    *)
(* tells them apart); a failure tells only the route, which they share.    *)
(***************************************************************************)
EXTENDS FacadeLink

CONSTANT MaxSwitches   \* bound: changes of the range, and refreshes

ASSUME ReportBound == MaxSwitches \in Nat

Trend(range) == IF range = 7 THEN "trend7" ELSE "trend30"
Trends == {"trend7", "trend30"}
ReportRoutes == {"figures"} \cup Trends
Panels == {"figures", "trend"}
Panel(route) == IF route \in Trends THEN "trend" ELSE "figures"

\* the panels, the range asked for and the range of the chart (0: hidden)
NoReports == [panel |-> [p \in Panels |-> "empty"], range |-> 7, chart |-> 0, switched |-> 0]

\* refresh, with loadTrend
Refreshing(r) ==
  [r EXCEPT !.panel = [p \in Panels |-> "loading"],
            !.chart = 0,
            !.switched = @ + 1]

\* another range is selected: loadTrend
Switching(r) ==
  [r EXCEPT !.range = 37 - @,
            !.panel["trend"] = "loading",
            !.chart = 0,
            !.switched = @ + 1]

\* requestFailed, for some of the routes
ReportsFailed(r, routes) ==
  [r EXCEPT !.panel = [p \in Panels |->
     IF \E route \in routes \cap ReportRoutes : Panel(route) = p THEN "failed" ELSE @[p]]]

\* variant: whatever trend arrives is drawn
DrawsAny(r, route) ==
  [r EXCEPT !.panel[Panel(route)] = "shown",
            !.chart = IF route \in Trends THEN (IF route = "trend7" THEN 7 ELSE 30) ELSE @]

\* applySummary, applyTrend, applyOrders: a trend of another range is dropped
Drawn(r, route) ==
  IF route \in Trends \ {Trend(r.range)} THEN r
  ELSE [r EXCEPT !.panel[Panel(route)] = "shown",
                 !.chart = IF route \in Trends THEN r.range ELSE @]
=============================================================================

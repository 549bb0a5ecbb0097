------------------------------ MODULE UserWindows ------------------------------
(***************************************************************************)
(* The windows of the user's program on their facade and its connection.   *)
(* They are modal: while one is used the others stand still, so that a     *)
(* behaviour follows one of them.                                          *)
(***************************************************************************)
EXTENDS OrderReviews, StationDetail, UserProfile, Reminders

ASSUME WindowsAssumption ==
  ReviewRoutes \cup StationRoutes \cup AccountRoutes \cup ReminderRoutes \subseteq Routes

VARIABLE screen   \* bound: the window that is used in this behaviour

windows == <<orderWindows, stationWindows, profileWindows, reminderWindows>>
vars == <<link, windows, screen>>

Screens == {"orders", "station", "profile", "reminders"}

Init ==
  /\ InitOrders /\ InitStation /\ InitProfile /\ InitReminders
  /\ screen \in Screens
  /\ screen # "station" => order = NoOrder
  /\ screen # "reminders" => wanted /\ idle = {}
  /\ connected = TRUE /\ answers = <<>>
  /\ calls = IF screen = "station" THEN Queried(<<>>, FirstQueries) ELSE <<>>
  /\ waiting = IF screen = "station" THEN Range(FirstQueries) ELSE {}

UseOrders ==
  /\ screen = "orders" /\ NextOrders
  /\ UNCHANGED <<stationWindows, profileWindows, reminderWindows, screen>>

UseStation ==
  /\ screen = "station" /\ NextStation
  /\ UNCHANGED <<orderWindows, profileWindows, reminderWindows, screen>>

UseProfile ==
  /\ screen = "profile" /\ NextProfile
  /\ UNCHANGED <<orderWindows, stationWindows, reminderWindows, screen>>

UseReminders ==
  /\ screen = "reminders" /\ NextReminders
  /\ UNCHANGED <<orderWindows, stationWindows, profileWindows, screen>>

Next == UseOrders \/ UseStation \/ UseProfile \/ UseReminders

Spec == Init /\ [][Next]_vars

-----------------------------------------------------------------------------
(* Properties.                                                             *)

\* Behind every request a window of the user's program waits for there is a
\* timer of the window, or a request that the facade itself gives up, whatever
\* fails, is lost or is superseded.  It speaks of the requests: a confirmation
\* over the window may outlive its own, see CancellationRecovers and
\* AccountQuestionRecovers.
RequestsAreWatched ==
  CASE screen = "orders" -> OrdersWatched
    [] screen = "station" -> StationsWatched
    [] screen = "profile" -> ProfileWatched
    [] OTHER -> RemindersWatched
=============================================================================

---------------------------- MODULE MCUserWindows ----------------------------
(* The routes of all windows; those that move money, chargers or the       *)
(* session are refused while one like them waits.                          *)
EXTENDS UserWindows

MCRoutes == ReviewRoutes \cup StationRoutes \cup AccountRoutes \cup ReminderRoutes
MCTransactional ==
  {"charge.reserve", "charge.start", "charge.cancel",
   "user.profile.update", "user.recharge", "user.logout"}
=============================================================================

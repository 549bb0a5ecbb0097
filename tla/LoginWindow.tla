---------------------------- MODULE LoginWindow -----------------------------
(***************************************************************************)
(* LoginWindow of the user's program: the request it waits for, its timer, *)
(* the countdown to the next code, and which buttons can be clicked.  The  *)
(* window is hidden after a login, but goes on hearing the facade.  A      *)
(* click counts in every state of authState_ but the two pending ones.     *)
(***************************************************************************)
EXTENDS FacadeView

AuthRoutes == {"user.otp.request", "user.login"}
NoRoute == ""

\* pending: pendingRoute_; timer: requestTimer_ runs; cooling:
\* cooldownRemaining_ > 0; counting: countdownTimer_ runs
NewForm ==
  [pending |-> NoRoute, auth |-> "LoggedOut", timer |-> FALSE,
   cooling |-> FALSE, counting |-> FALSE,
   enabled |-> AuthRoutes]   \* the routes whose button is enabled

\* the button of route r is clicked and the click counts
Clickable(f, r) ==
  /\ r \in f.enabled
  /\ f.pending = NoRoute
  /\ f.auth \notin {"OtpPending", "LoginPending"}

\* beginRequest
Began(f, r) ==
  [f EXCEPT !.pending = r,
            !.auth = IF r = "user.login" THEN "LoginPending" ELSE "OtpPending",
            !.enabled = @ \ {"user.login", r},
            !.timer = TRUE]

\* variant: a request that ends leaves the state as it is
FinishedKeepsState(f) ==
  [f EXCEPT !.pending = NoRoute,
            !.timer = FALSE,
            !.enabled = @ \cup (IF f.cooling THEN {"user.login"} ELSE AuthRoutes)]

\* finishRequest
Finished(f) ==
  [f EXCEPT !.pending = NoRoute,
            !.timer = FALSE,
            !.auth = CASE f.auth = "LoggedIn" -> "LoggedIn"
                       [] f.auth # "LoggedIn" /\ f.pending = "user.login" /\ f.cooling -> "OtpReady"
                       [] OTHER -> "LoggedOut",
            !.enabled = @ \cup (IF f.cooling THEN {"user.login"} ELSE AuthRoutes)]

\* requestFailed for route r
Failed(f, r) == IF r = f.pending THEN Finished(f) ELSE f

\* disconnected, after networkError and the failure of what waited
Dropped(f) == [Finished(f) EXCEPT !.auth = "LoggedOut"]

\* updateCountdown; more: seconds are left after this one
Counted(f, more) ==
  IF f.cooling
  THEN [f EXCEPT !.enabled = @ \ {"user.otp.request"}, !.cooling = more]
  ELSE [f EXCEPT !.counting = FALSE, !.enabled = @ \cup {"user.otp.request"}]

\* otpReceived, whatever the window waits for, and whether or not it is shown
OtpArrived(f, more) ==
  Counted([f EXCEPT !.pending = NoRoute,
                    !.auth = "OtpReady",
                    !.timer = FALSE,
                    !.cooling = TRUE,
                    !.counting = TRUE,
                    !.enabled = @ \cup {"user.login"}], more)

\* loginSucceeded: the buttons stay as they are
LoggedIn(f) == [f EXCEPT !.pending = NoRoute, !.auth = "LoggedIn", !.timer = FALSE]
=============================================================================

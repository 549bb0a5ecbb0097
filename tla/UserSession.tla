---------------------------- MODULE UserSession -----------------------------
(***************************************************************************)
(* Signing in and out: the server's SessionManager, the token the facade   *)
(* holds, and the window the user sees.  A session is named by the number  *)
(* of the login that opened it.  The program connects when it starts and   *)
(* when a button of the login window is clicked, the home window never     *)
(* does; only a successful logout leads from home back to the login        *)
(* window.  Whether a code is right is the server's choice here.           *)
(***************************************************************************)
EXTENDS FacadeLink, LoginWindow, FiniteSets

CONSTANT MaxSessions   \* bound: sessions ever opened

ASSUME SessionBound == MaxSessions \in Nat \ {0}

VARIABLES
  sessions,  \* userSessions_: the tokens the server knows and that are valid
  issued,    \* sessions ever opened
  token,     \* sessionToken_ of the facade, or NoToken
  window,    \* the window that is shown
  form,      \* the login window's own state
  connecting \* the socket tries to connect

client == <<token, window>>
server == <<sessions, issued>>
vars == <<link, server, client, form, connecting>>

NoToken == 0
SessionRoutes == AuthRoutes \cup {"user.logout", "charge.active"}

ASSUME SessionAssumption == SessionRoutes \subseteq Routes

-----------------------------------------------------------------------------
(* The server.                                                             *)

\* issueUserToken, or a wrong code
ServeLogin ==
  /\ calls # <<>> /\ Head(calls).route = "user.login"
  /\ \/ /\ issued < MaxSessions   \* bound
        /\ issued' = issued + 1
        /\ sessions' = sessions \cup {issued'}
        /\ Executes(TRUE, issued')
     \/ /\ Executes(FALSE, NoToken)
        /\ UNCHANGED server
  /\ UNCHANGED <<client, form, connecting>>

\* requestCode: a code, or a refusal
ServeOtp ==
  /\ calls # <<>> /\ Head(calls).route = "user.otp.request"
  /\ \E ok \in BOOLEAN : Executes(ok, NoToken)
  /\ UNCHANGED <<server, client, form, connecting>>

\* resolveUser, then invalidateUser if this is a logout; a query may fail for
\* reasons of its own
ServeAuthenticated(ok) ==
  LET c == Head(calls)
  IN  /\ calls # <<>> /\ c.route \notin AuthRoutes
      /\ ok => c.arg \in sessions
      /\ c.route = "user.logout" => (c.arg \in sessions => ok)
      /\ sessions' = IF ok /\ c.route = "user.logout" THEN sessions \ {c.arg} ELSE sessions
      /\ Executes(ok, c.arg)
      /\ UNCHANGED <<issued, client, form, connecting>>

\* a token is one day old
ExpireSession(t) ==
  /\ sessions' = sessions \ {t}
  /\ UNCHANGED <<link, issued, client, form, connecting>>

-----------------------------------------------------------------------------
(* The client.                                                             *)

Clicked(r) == window = "login" /\ Clickable(form, r)

\* a phone number or a code that cannot be right
ClickInvalid(r) ==
  /\ Clicked(r)
  /\ form' = Finished(form)
  /\ UNCHANGED <<link, server, client, connecting>>

\* connectToServer; an attempt under way is given up for a new one
ClickConnects ==
  /\ \E r \in AuthRoutes : Clicked(r)
  /\ ~connected
  /\ form' = Finished(form)
  /\ connecting' = TRUE
  /\ UNCHANGED <<link, server, client>>

\* requestOtp, submit
ClickSends(r) ==
  /\ Clicked(r)
  /\ form' = Began(form, r)
  /\ Send(r, NoToken)
  /\ UNCHANGED <<server, client, connecting>>

\* connected, or networkError
Connects(ok) ==
  /\ connecting
  /\ connecting' = FALSE
  /\ connected' = ok
  /\ form' = IF ok /\ form.pending # NoRoute THEN form ELSE Finished(form)
  /\ UNCHANGED <<waiting, calls, answers, server, client>>

FormTimeout ==
  /\ form.timer
  /\ form' = IF form.pending # NoRoute THEN Finished(form) ELSE [form EXCEPT !.timer = FALSE]
  /\ UNCHANGED <<link, server, client, connecting>>

Countdown ==
  /\ form.counting
  /\ \E more \in BOOLEAN : form' = Counted(form, more)
  /\ UNCHANGED <<link, server, client, connecting>>

\* logout and any query; without a token both fail and change nothing
Authenticated(r) ==
  /\ window = "home" /\ token # NoToken
  /\ Send(r, token)
  /\ UNCHANGED <<server, client, form, connecting>>

\* variant: the requests of the session that ends stay pending
LeaveSessionOnly ==
  /\ waiting' = waiting \ {"user.logout"}
  /\ answers' = Tail(answers)
  /\ UNCHANGED <<connected, calls>>

\* advanceSession: nothing waits any more
LeaveSession ==
  /\ EndAll
  /\ calls' = AllOrphaned(calls)
  /\ answers' = AllOrphaned(Tail(answers))
  /\ UNCHANGED connected

Received(r, ok) ==
  answers # <<>> /\ Head(answers).live /\ Head(answers).route = r /\ Head(answers).ok = ok

LoginSucceeds ==
  /\ Received("user.login", TRUE)
  /\ Arrives
  /\ token' = Head(answers).value
  /\ window' = "home"
  /\ form' = LoggedIn(form)
  /\ UNCHANGED <<server, connecting>>

\* resetForLogout
LogoutSucceeds ==
  /\ Received("user.logout", TRUE)
  /\ LeaveSession
  /\ token' = NoToken
  /\ window' = "login"
  /\ form' = NewForm
  /\ UNCHANGED <<server, connecting>>

OtpReceived ==
  /\ Received("user.otp.request", TRUE)
  /\ Arrives
  /\ \E more \in BOOLEAN : form' = OtpArrived(form, more)
  /\ UNCHANGED <<server, client, connecting>>

\* any other answer, one that says that the session has expired, and one that
\* nobody waits for
OtherAnswer ==
  /\ \A r \in AuthRoutes \cup {"user.logout"} : ~Received(r, TRUE)
  /\ Arrives
  /\ form' = IF Received(Head(answers).route, FALSE) THEN Failed(form, Head(answers).route)
             ELSE form
  /\ UNCHANGED <<server, client, connecting>>

Receive == LoginSucceeds \/ LogoutSucceeds \/ OtpReceived \/ OtherAnswer

Expire(r) ==
  /\ GivesUp(r)
  /\ form' = Failed(form, r)
  /\ UNCHANGED <<server, client, connecting>>

\* the token is cleared; the home window does not hear of it
Disconnect ==
  /\ \E n \in 0..Len(calls) : Breaks(n)
  /\ token' = NoToken
  /\ form' = Dropped(form)
  /\ UNCHANGED <<server, window, connecting>>

\* the server restarts, while a client is connected or not
Restart ==
  /\ sessions' = {}
  /\ IF connected THEN Breaks(0) /\ token' = NoToken /\ form' = Dropped(form)
     ELSE /\ calls' = <<>>
          /\ UNCHANGED <<waiting, connected, answers, token, form>>
  /\ UNCHANGED <<issued, window, connecting>>

-----------------------------------------------------------------------------
Init ==
  /\ InitLink
  /\ sessions = {} /\ issued = 0
  /\ token = NoToken /\ window = "login"
  /\ form = NewForm /\ connecting = TRUE

Next ==
  \/ ServeLogin \/ ServeOtp \/ \E ok \in BOOLEAN : ServeAuthenticated(ok)
  \/ \E t \in sessions : ExpireSession(t)
  \/ \E r \in AuthRoutes : ClickInvalid(r) \/ ClickSends(r)
  \/ ClickConnects \/ \E ok \in BOOLEAN : Connects(ok)
  \/ FormTimeout \/ Countdown
  \/ \E r \in {"user.logout", "charge.active"} : Authenticated(r)
  \/ Receive \/ \E r \in SessionRoutes : Expire(r)
  \/ Disconnect \/ Restart

Spec == Init /\ [][Next]_vars

\* Network and server go on, and the user keeps trying to sign in or out.
FairSpec ==
  /\ Spec
  /\ WF_vars(ServeLogin) /\ WF_vars(ServeOtp)
  /\ WF_vars(\E ok \in BOOLEAN : ServeAuthenticated(ok))
  /\ WF_vars(Receive) /\ WF_vars(\E ok \in BOOLEAN : Connects(ok))
  /\ WF_vars(ClickConnects) /\ SF_vars(ClickSends("user.login"))
  /\ SF_vars(Authenticated("user.logout"))

-----------------------------------------------------------------------------
(* Properties.                                                             *)

\* Whatever can still reach the window was asked for by the user who is signed
\* in: no answer to a request of one user is shown to the next, who signs in at
\* the same window, whichever requests were under way at the logout.
AnswersAreForTheUser ==
  /\ \A i \in DOMAIN calls :
       calls[i].live /\ calls[i].route \notin AuthRoutes => calls[i].arg = token
  /\ \A i \in DOMAIN answers :
       answers[i].live /\ answers[i].route \notin AuthRoutes => answers[i].value = token

\* Who sees the home window holds a token of the server, until the connection is
\* lost: no order of answers, of attempts to connect and of logouts leads to a
\* home window that is connected and belongs to nobody.
HomeHoldsToken == window = "home" /\ connected => token \in 1..issued

\* a request, or its answer, comes to grief
SessionTrouble ==
  \/ \E r \in SessionRoutes : Expire(r)
  \/ Disconnect \/ Restart \/ \E t \in sessions : ExpireSession(t)
  \/ ServeLogin /\ UNCHANGED issued
  \/ Connects(FALSE)

\* Whoever is at the login window can sign in, again and after whatever went
\* wrong before, once nothing goes wrong any more: neither the window's request,
\* which its timer, a code that comes late or the facade may end first, nor a
\* login suppressed as a duplicate leaves it waiting for good.
CanSignInAgain ==
  <>[][~SessionTrouble]_vars /\ []<>(issued < MaxSessions) =>
    (window = "login" ~> window = "home")

\* Who sits at the home window with a session that the server no longer knows,
\* after a restart, a lost connection or a day, can sign in again
\* (SessionManager's "please sign in again", main.cpp's logoutRequested).  The
\* code violates it: nothing leads from home to the login window.
SignsInAgainFromHome ==
  <>[][~SessionTrouble]_vars /\ []<>(issued < MaxSessions) =>
    (window = "home" /\ token \notin sessions ~> token \in sessions)
=============================================================================

------------------------------ MODULE AdminProgram ------------------------------
(***************************************************************************)
(* The administrator's program: its server, the login window with the lock *)
(* after wrong passwords, the main window with its summary and its logout, *)
(* and the pages of the prediction and of the reports.  Window and server  *)
(* are two threads that talk over a connection to the own machine.  Once   *)
(* that connection is lost the program does not connect again.             *)
(***************************************************************************)
EXTENDS AdminReports, PredictionRun, Functions

CONSTANTS
  MaxFailures,   \* wrong passwords until the account is locked
  MaxSessions,   \* bound: tokens issued
  MaxWrongs,     \* bound: wrong passwords tried between two sessions
  MaxMishaps,    \* bound: failed, slow and unanswered requests, sessions that lapse
  MaxRuns        \* bound: clicks on the run button

ASSUME ProgramBounds == /\ MaxFailures \in Nat \ {0} /\ MaxSessions \in Nat
                        /\ MaxWrongs \in Nat /\ MaxMishaps \in Nat /\ MaxRuns \in Nat

VARIABLES
  listening,  \* the server has started
  failures,   \* LoginState::failures of the account
  lock,       \* LoginState::lockedUntil: "none", "locked" or "lapsed"
  sessions,   \* adminSessions_: the tokens that are valid
  issued,     \* tokens issued so far
  mishaps,    \* counts against MaxMishaps
  token,      \* the facade's sessionToken_, 0 when it has none
  login,      \* the login window
  main,       \* the main window, NoMain when there is none
  predict,    \* PredictPage
  reports,    \* RevenuePage and ChargerStatusPage
  page,       \* bound: the page that is shown
  toSend      \* requests the handler under way has yet to send

auth == <<failures, lock, sessions, issued>>
windows == <<token, login, main, predict, reports, toSend>>
pages == <<predict, reports>>
vars == <<link, service, listening, auth, mishaps, windows, page>>

Sessions == 1..MaxSessions
ProgramRoutes == {"login", "logout", "summary", "list", "run"} \cup ReportRoutes
Queries == {"summary"}   \* a new request supersedes the one that waits

\* the other routes of the facade are those of AdminPages
ASSUME ProgramAssumption == ProgramRoutes \subseteq Routes

NoMain == [open |-> FALSE, due |-> FALSE, summary |-> FALSE, refreshOn |-> TRUE,
           dialog |-> "closed", logoutOn |-> TRUE]
NewMain == [NoMain EXCEPT !.open = TRUE, !.due = TRUE]
NewPredict == [running |-> FALSE, on |-> TRUE, polling |-> FALSE, runs |-> 0]

Mishap == mishaps < MaxMishaps /\ mishaps' = mishaps + 1

-----------------------------------------------------------------------------
(* The login window's own operations.                                      *)

\* variant: the request stays pending
FinishesPending(l, linked) ==
  [l EXCEPT !.timer = FALSE, !.on = IF l.locked THEN @ ELSE l.ready /\ linked]

\* finish: the request is over, the button comes back unless the window is locked
Finish(l, linked) ==
  [l EXCEPT !.timer = FALSE, !.pending = FALSE, !.on = IF l.locked THEN @ ELSE l.ready /\ linked]

\* beginLock, which leaves the request pending until updateLock ends the lock
BeginLock(l) == [l EXCEPT !.timer = FALSE, !.locked = TRUE, !.on = FALSE]

\* setServerError
ServerFailed(l) == Finish([l EXCEPT !.ready = FALSE, !.on = FALSE], FALSE)

-----------------------------------------------------------------------------
(* The server.                                                             *)

\* of: the session the answer belongs to; flag: the account is locked, the script runs
Reply(ok, of, flag) ==
  Executes(ok, [of |-> of, flag |-> flag]) /\ UNCHANGED <<listening, windows, page>>

\* a wrong password; the last one locks the account
WrongPassword ==
  LET count == IF lock = "lapsed" THEN 1 ELSE failures + 1
  IN  /\ failures' = count
      /\ lock' = IF count >= MaxFailures THEN "locked" ELSE "none"
      /\ UNCHANGED <<sessions, issued>>
      /\ Reply(FALSE, 0, count >= MaxFailures)

RightPassword ==
  /\ issued < MaxSessions   \* bound
  /\ issued' = issued + 1
  /\ sessions' = sessions \cup {issued + 1}
  /\ failures' = 0
  /\ lock' = "none"
  /\ Reply(TRUE, issued + 1, FALSE)

\* AdminService::login; while it is locked no password is looked at
ServeLogin ==
  /\ calls # <<>> /\ Head(calls).route = "login"
  /\ IF lock = "locked" THEN UNCHANGED auth /\ Reply(FALSE, 0, TRUE)
     ELSE IF Head(calls).arg = "wrong" THEN WrongPassword ELSE RightPassword
  /\ UNCHANGED <<service, mishaps>>

LockLapses ==
  /\ lock = "locked"
  /\ lock' = "lapsed"
  /\ UNCHANGED <<link, service, listening, failures, sessions, issued, mishaps, windows, page>>

\* resolveAdmin: a request with a session has its token looked up first
Valid(c) == c.arg \in sessions

ServeLogout(c) ==
  /\ c.route = "logout"
  /\ sessions' = sessions \ {c.arg}
  /\ UNCHANGED service
  /\ Reply(Valid(c), c.arg, FALSE)

\* the script may be missing
ServeRun(c) ==
  /\ c.route = "run" /\ Valid(c)
  /\ \E found \in BOOLEAN : RunScript(found) /\ Reply(found, c.arg, TRUE)
  /\ UNCHANGED sessions

\* the summary, the reports, and the predictions with the state of the run
ServeQuery(c) ==
  /\ c.route # "logout" /\ (c.route = "run" => ~Valid(c))
  /\ Reply(Valid(c), c.arg, running)
  /\ UNCHANGED <<sessions, service>>

ServeSession ==
  /\ calls # <<>> /\ Head(calls).route # "login"
  /\ LET c == Head(calls) IN ServeLogout(c) \/ ServeRun(c) \/ ServeQuery(c)
  /\ UNCHANGED <<failures, lock, issued, mishaps>>

\* the database fails, or the answer is too long for a frame and is not sent,
\* which is reported like a server that cannot start
ServeBadly ==
  /\ calls # <<>>
  /\ Mishap
  /\ UNCHANGED <<service, auth, listening, token, main, pages, toSend, page>>
  /\ \/ /\ Executes(FALSE, [of |-> IF Head(calls).route = "login" THEN 0 ELSE Head(calls).arg,
                            flag |-> FALSE])
        /\ UNCHANGED login
     \/ /\ Head(calls).route \in {"list"} \cup ReportRoutes
        /\ calls' = Tail(calls)
        /\ UNCHANGED <<waiting, connected, answers>>
        /\ login' = ServerFailed(login)

SessionLapses ==
  /\ sessions # {}
  /\ Mishap
  /\ sessions' = {}
  /\ UNCHANGED <<link, service, listening, failures, lock, issued, windows, page>>

\* steps of the script and of the service that runs it
ServiceStep ==
  /\ ScriptEnds \/ WatchdogFires \/ ProcessEvent
  /\ UNCHANGED <<link, listening, auth, mishaps, windows, page>>

-----------------------------------------------------------------------------
(* The start of the program, and the login window.                         *)

\* started, then connectToServer and setServerReady
ServerStarts ==
  /\ ~listening
  /\ login.starting
  /\ listening' = TRUE
  /\ login' = [login EXCEPT !.starting = FALSE, !.ready = TRUE]
  /\ UNCHANGED <<link, service, auth, mishaps, token, main, pages, toSend, page>>

\* databaseError or serverError
ServerFails ==
  /\ login.starting
  /\ login' = ServerFailed([login EXCEPT !.starting = FALSE])
  /\ UNCHANGED <<link, service, listening, auth, mishaps, token, main, pages, toSend, page>>

Connects ==
  /\ listening /\ ~connected /\ ~login.lost
  /\ connected' = TRUE
  /\ login' = Finish(login, TRUE)
  /\ UNCHANGED <<waiting, calls, answers, service, listening, auth, mishaps, token, main,
                 pages, toSend, page>>

Submit(password) ==
  /\ ~main.open /\ login.on /\ ~login.pending
  /\ password = "wrong" => login.wrongs < MaxWrongs   \* bound
  /\ IF connected
     THEN /\ login' = [login EXCEPT !.on = FALSE, !.pending = TRUE, !.timer = TRUE,
                                   !.wrongs = IF password = "wrong" THEN @ + 1 ELSE @]
          /\ Send("login", password)
     ELSE login' = Finish(login, FALSE) /\ UNCHANGED link
  /\ UNCHANGED <<service, listening, auth, mishaps, token, main, pages, toSend, page>>

\* the window's own timeout, or the end of the lock it counts down
LoginTimer ==
  /\ \/ login.timer /\ login' = Finish(login, connected)
     \/ login.locked /\ login' = Finish([login EXCEPT !.locked = FALSE], connected)
  /\ toSend = <<>>
  /\ UNCHANGED <<link, service, listening, auth, mishaps, token, main, pages, toSend, page>>

-----------------------------------------------------------------------------
(* requestFailed, for the routes R, in the windows.                        *)

LoginFailed(l, R, linked) == IF "login" \in R THEN Finish(l, linked) ELSE l

MainFailed(m, R) ==
  [m EXCEPT !.summary = @ /\ "summary" \notin R,
            !.refreshOn = @ \/ "summary" \in R,
            !.logoutOn = @ \/ "logout" \in R,
            !.dialog = IF @ = "pending" /\ "logout" \in R THEN "open" ELSE @]

PredictFailed(p, R) ==
  IF "run" \in R THEN [p EXCEPT !.running = FALSE, !.on = TRUE, !.polling = FALSE] ELSE p

Failed(R, linked) ==
  /\ login' = LoginFailed(login, R, linked)
  /\ main' = MainFailed(main, R)
  /\ predict' = PredictFailed(predict, R)
  /\ reports' = ReportsFailed(reports, R)

\* a request with the facade's session, or its failure on the spot
Asking(r) ==
  IF connected /\ token # 0 THEN Send(r, token) ELSE UNCHANGED link

Refused(r) == IF connected /\ token # 0 THEN {} ELSE {r}

Busy == toSend # <<>>

\* bound: a handler starts when there is room for all it sends
Room(requests) == Len(calls) + Len(answers) + Len(requests) <= MaxCalls

-----------------------------------------------------------------------------
(* The main window.                                                        *)

\* the rest of the handler under way
SendNext ==
  /\ Busy
  /\ toSend' = Tail(toSend)
  /\ Asking(Head(toSend))
  /\ Failed(Refused(Head(toSend)), connected)
  /\ UNCHANGED <<service, listening, auth, mishaps, token, page>>

\* requestSummary and the refresh of the page p
Summary(m) == [m EXCEPT !.summary = TRUE, !.refreshOn = FALSE]

PageRequests == IF page = "predict" THEN <<"list">> ELSE <<"figures", Trend(reports.range)>>

\* (the refreshes of PredictPage are counted where those of the reports are)
PageRefreshed ==
  /\ reports' = IF page = "predict" THEN [reports EXCEPT !.switched = @ + 1] ELSE Refreshing(reports)
  /\ UNCHANGED predict

\* the window opens: its page asks, and the summary is asked for next
Opened ==
  /\ main.open /\ main.due /\ ~Busy
  /\ main' = Summary([main EXCEPT !.due = FALSE])
  /\ PageRefreshed
  /\ toSend' = PageRequests \o <<"summary">>
  /\ Room(toSend')
  /\ UNCHANGED <<link, service, listening, auth, mishaps, token, login, page>>

\* the refresh button asks for the summary, and for the page
RefreshClicked ==
  /\ main.open /\ main.refreshOn /\ main.dialog = "closed" /\ ~Busy
  /\ reports.switched < MaxSwitches   \* bound
  /\ main' = Summary(main)
  /\ PageRefreshed
  /\ toSend' = <<"summary">> \o PageRequests
  /\ Room(toSend')
  /\ UNCHANGED <<link, service, listening, auth, mishaps, token, login, page>>

\* confirmLogout and the confirmation's buttons
LogoutDialog ==
  /\ main.open /\ ~Busy
  /\ \/ /\ main.dialog = "closed" /\ main.logoutOn
        /\ main' = [main EXCEPT !.dialog = "open"]
        /\ UNCHANGED <<link, predict, reports, login>>
     \/ /\ main.dialog = "open"
        /\ main' = [main EXCEPT !.dialog = "closed"]
        /\ UNCHANGED <<link, predict, reports, login>>
     \/ /\ main.dialog = "open"
        /\ Asking("logout")
        /\ main' = MainFailed([main EXCEPT !.dialog = "pending", !.logoutOn = FALSE], Refused("logout"))
        /\ UNCHANGED <<predict, reports, login>>
  /\ UNCHANGED <<service, listening, auth, mishaps, token, toSend, page>>

-----------------------------------------------------------------------------
(* The pages.                                                              *)

RunClicked ==
  /\ main.open /\ page = "predict" /\ main.dialog = "closed" /\ ~Busy
  /\ predict.on /\ ~predict.running
  /\ predict.runs < MaxRuns   \* bound
  /\ Asking("run")
  /\ predict' = PredictFailed([predict EXCEPT !.running = TRUE, !.on = FALSE, !.runs = @ + 1],
                              Refused("run"))
  /\ UNCHANGED <<service, listening, auth, mishaps, token, login, main, reports, toSend, page>>

\* pollTimer_; a failed list changes nothing
Poll ==
  /\ predict.polling /\ ~Busy
  /\ connected /\ token # 0
  /\ Asking("list")
  /\ UNCHANGED <<service, listening, auth, mishaps, windows, page>>

\* the range of the trend is changed
Switch ==
  /\ main.open /\ page = "reports" /\ main.dialog = "closed" /\ ~Busy
  /\ reports.switched < MaxSwitches   \* bound
  /\ reports' = Switching(reports)
  /\ toSend' = <<Trend(reports'.range)>>
  /\ Room(toSend')
  /\ UNCHANGED <<link, service, listening, auth, mishaps, token, login, main, predict, page>>

-----------------------------------------------------------------------------
(* The answers.                                                            *)

\* variant: requests of the session that ended stay pending
LogoutKeepsRequests ==
  /\ Arrives
  /\ token' = 0
  /\ main' = NoMain /\ predict' = NewPredict /\ reports' = NoReports
  /\ login' = Finish(login, connected)

\* the facade ends the session; the main window goes, the login window returns
LogoutSucceeds ==
  /\ ArrivesAndEndsAll
  /\ token' = 0
  /\ main' = NoMain /\ predict' = NewPredict /\ reports' = NoReports
  /\ login' = Finish(login, connected)

LoginSucceeds(a) ==
  /\ Arrives
  /\ token' = a.value.of
  /\ main' = NewMain /\ predict' = NewPredict /\ reports' = NoReports
  /\ login' = [login EXCEPT !.timer = FALSE, !.pending = FALSE, !.on = TRUE,
                            !.wrongs = 0]

\* variant: a list that says the script runs starts no polling
AppliesOnce(p, runs) ==
  IF runs THEN [p EXCEPT !.running = TRUE, !.on = FALSE]
  ELSE [p EXCEPT !.polling = FALSE, !.running = FALSE, !.on = @ \/ p.polling \/ p.running]

\* applyPredictions
ApplyPredictions(p, runs) ==
  IF runs THEN [p EXCEPT !.running = TRUE, !.on = FALSE, !.polling = TRUE]
  ELSE [p EXCEPT !.polling = FALSE, !.running = FALSE, !.on = @ \/ p.polling \/ p.running]

\* an answer that leaves the session as it is
Answered(a) ==
  /\ Arrives
  /\ UNCHANGED token
  /\ IF ~a.ok
     THEN IF a.route = "login" /\ a.value.flag
          THEN login' = BeginLock(login) /\ UNCHANGED <<main, pages>>
          ELSE Failed({a.route}, connected)
     ELSE /\ UNCHANGED login
          /\ main' = IF a.route = "summary" THEN [main EXCEPT !.summary = FALSE, !.refreshOn = TRUE]
                     ELSE main
          /\ predict' = CASE a.route = "list" -> ApplyPredictions(predict, a.value.flag)
                          [] a.route = "run" -> [predict EXCEPT !.running = TRUE, !.on = FALSE,
                                                                !.polling = TRUE]
                          [] OTHER -> predict
          /\ reports' = IF a.route \in ReportRoutes THEN Drawn(reports, a.route) ELSE reports

Receive ==
  /\ answers # <<>> /\ ~Busy
  /\ LET a == Head(answers)
     IN  CASE ~a.live -> Arrives /\ UNCHANGED <<token, login, main, pages>>
           [] a.live /\ a.ok /\ a.route = "login" -> LoginSucceeds(a)
           [] a.live /\ a.ok /\ a.route = "logout" -> LogoutSucceeds
           [] OTHER -> Answered(a)
  /\ UNCHANGED <<service, listening, auth, mishaps, toSend, page>>

UnderWay(r) ==
  \E q \in {calls, answers} : \E i \in DOMAIN q : q[i].live /\ q[i].route = r

\* the facade's timeout; too early only when the answer is slow
Expire(r) ==
  /\ ~Busy
  /\ GivesUp(r)
  /\ IF UnderWay(r) THEN Mishap ELSE UNCHANGED mishaps
  /\ Failed({r}, connected)
  /\ UNCHANGED <<service, listening, auth, token, toSend, page>>

\* disconnected, with networkError
Disconnect(n) ==
  /\ ~Busy
  /\ Breaks(n)
  /\ token' = 0
  /\ login' = Finish([login EXCEPT !.ready = FALSE, !.lost = TRUE], FALSE)
  /\ main' = MainFailed(main, waiting \cup {"summary", "logout"})
  /\ predict' = PredictFailed(predict, waiting)
  /\ reports' = ReportsFailed(reports, waiting)
  /\ UNCHANGED <<service, listening, auth, mishaps, toSend, page>>

-----------------------------------------------------------------------------
Init ==
  /\ InitLink
  /\ InitService
  /\ listening = FALSE
  /\ failures = 0 /\ lock = "none" /\ sessions = {} /\ issued = 0
  /\ mishaps = 0
  /\ token = 0
  /\ login = [starting |-> TRUE, ready |-> FALSE, lost |-> FALSE, on |-> FALSE,
              timer |-> FALSE, pending |-> FALSE, locked |-> FALSE, wrongs |-> 0]
  /\ main = NoMain /\ predict = NewPredict /\ reports = NoReports
  /\ page \in {"predict", "reports"}
  /\ toSend = <<>>

Next ==
  \/ ServeLogin \/ ServeSession \/ ServeBadly \/ LockLapses \/ SessionLapses \/ ServiceStep
  \/ ServerStarts \/ ServerFails \/ Connects \/ LoginTimer
  \/ \E password \in {"right", "wrong"} : Submit(password)
  \/ SendNext \/ Opened \/ RefreshClicked \/ LogoutDialog \/ RunClicked \/ Poll \/ Switch
  \/ Receive
  \/ \E r \in ProgramRoutes : Expire(r)
  \/ \E n \in 0..Len(calls) : Disconnect(n)

\* Both threads handle what is due, timers run down and the administrator
\* goes on trying the right password.  The script may hang.
Fairness ==
  /\ WF_vars(ServeLogin \/ ServeSession) /\ WF_vars(Receive) /\ WF_vars(SendNext)
  /\ WF_vars(WatchdogFires /\ ServiceStep) /\ WF_vars(ProcessEvent /\ ServiceStep)
  /\ WF_vars(LockLapses) /\ WF_vars(LoginTimer) /\ WF_vars(Poll)
  /\ \A r \in ProgramRoutes : WF_vars(Expire(r))
  /\ SF_vars(Submit("right"))

Spec == Init /\ [][Next]_vars
FairSpec == Spec /\ Fairness

-----------------------------------------------------------------------------
(* Properties.                                                             *)

\* A window that shows it is waiting has something that will end the wait: a
\* request the facade's timeout watches, a timer of its own, or the poll.
WaitsAreWatched ==
  /\ login.pending => login.timer \/ login.locked \/ "login" \in waiting
  /\ main.summary => "summary" \in waiting \cup Range(toSend)
  /\ main.dialog = "pending" => "logout" \in waiting
  /\ predict.running => predict.polling \/ "run" \in waiting
  /\ \A p \in Panels : reports.panel[p] = "loading" =>
       \E r \in waiting \cup Range(toSend) : r \in ReportRoutes /\ Panel(r) = p

\* What the facade still waits for was asked in the session it is in: no
\* answer of an earlier session reaches the main window of a later one
\* (AdminClientFacade's handling of admin.logout).
AnswersAreForTheSession ==
  /\ \A i \in DOMAIN calls : calls[i].live /\ calls[i].route # "login" => calls[i].arg = token
  /\ \A i \in DOMAIN answers :
       answers[i].live /\ answers[i].route # "login" => answers[i].value.of = token

\* The chart shows the range that is selected, whichever of two trends
\* arrives last (RevenuePage::applyTrend).
ChartFitsRange == reports.chart \in {0, reports.range}

\* The run button comes back, however the script ends and in whichever order
\* its end, its error and the watchdog are handled, also after answers that are
\* lost or too long, as long as they do not go on being so (MaxMishaps), unless
\* the connection or the session is gone.
ButtonComesBack ==
  ~predict.on ~> predict.on \/ ~connected \/ token \notin sessions

\* After wrong passwords, a lock or slow answers the right password still
\* signs in, as long as the server answers and the window has not been told
\* that it is gone.  (It is told so after an answer that is too long, too; then
\* the button stays away, and this property says nothing.)
SignInStaysPossible ==
  ~main.open /\ connected /\ login.ready /\ issued < MaxSessions
    ~> main.open \/ ~connected \/ ~login.ready \/ issued = MaxSessions
=============================================================================

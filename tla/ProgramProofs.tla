---------------------------- MODULE ProgramProofs ----------------------------
(***************************************************************************)
(* Proofs about the administrator's program, for any number of sessions,   *)
(* failures and messages under way.  First the windows: what they wait for *)
(* and what they show.  Then, with what is known of the windows, the       *)
(* sessions that requests and answers belong to.  Last the other program   *)
(* of the administrator's computer, the server: what any number of starts, *)
(* failures and crashes on one file leave of any database.                 *)
(***************************************************************************)
EXTENDS AdminProgram, DatabaseStartup, LinkProofs, FiniteSetTheorems, WellFoundedInduction

LoginType == [starting : BOOLEAN, ready : BOOLEAN, lost : BOOLEAN, on : BOOLEAN,
              timer : BOOLEAN, pending : BOOLEAN, locked : BOOLEAN, wrongs : Nat]
MainType == [open : BOOLEAN, due : BOOLEAN, summary : BOOLEAN, refreshOn : BOOLEAN,
             dialog : {"closed", "open", "pending"}, logoutOn : BOOLEAN]
PredictType == [running : BOOLEAN, on : BOOLEAN, polling : BOOLEAN, runs : Nat]
PanelStates == {"empty", "loading", "shown", "failed"}
ReportsType == [panel : [Panels -> PanelStates], range : {7, 30}, chart : {0, 7, 30},
                switched : Nat]

\* what the handlers of the main window send
Asked == {"summary", "list"} \cup ReportRoutes

\* what has been asked for, or will be before the handler under way returns
Awaited == waiting \cup Range(toSend)

\* Each wait that a window shows has something that will end it.  The chart
\* waits for the trend of the range it is to show, not for just any trend.
LoginOK ==
  /\ login \in LoginType
  /\ login.pending => login.timer \/ login.locked
MainOK ==
  /\ main \in MainType
  /\ main.summary => "summary" \in Awaited
  /\ main.dialog = "pending" => "logout" \in waiting
PredictOK ==
  /\ predict \in PredictType
  /\ predict.running => predict.polling \/ "run" \in waiting
ReportsOK ==
  /\ reports \in ReportsType
  /\ reports.panel["figures"] = "loading" => "figures" \in Awaited
  /\ reports.panel["trend"] = "loading" => Trend(reports.range) \in Awaited
  /\ ChartFitsRange

\* The inductive invariant of the windows.
WindowInv ==
  /\ connected \in BOOLEAN
  /\ page \in {"predict", "reports"}
  /\ toSend \in Seq(Asked)
  /\ LoginOK /\ MainOK /\ PredictOK /\ ReportsOK

\* a login carries a password, any other request its session; an answer says
\* whose it is and whether the account is locked or the script runs
Arguments == {"right", "wrong"} \cup Nat
Values == [of : Arguments, flag : BOOLEAN]

SessionOK ==
  /\ issued \in Nat
  /\ token \in 0..issued
  /\ ~main.open => token = 0
  /\ running \in BOOLEAN

\* what a message that is waited for says about the session
Belongs(m, of) ==
  /\ m.route # "login" => token # 0 /\ of = token
  /\ m.route = "login" => ~main.open

\* The inductive invariant of the messages: those that are waited for belong
\* to the session, and a login that succeeded brings a new one.
MessageInv ==
  /\ LinkTypeOK(Arguments, Values) /\ LinkInv
  /\ SessionOK
  /\ \A m \in Live(calls) : Belongs(m, m.arg)
  /\ \A m \in Live(answers) : Belongs(m, m.value.of)
  /\ \A m \in Live(answers) : m.route = "login" /\ m.ok => m.value.of \in 1..issued

\* at most the routes R are no longer waited for
Loses(R) == waiting \ R \subseteq waiting' /\ Awaited \ R \subseteq Awaited'

-----------------------------------------------------------------------------
(* What the windows' own operations do.                                    *)

(* The end of a login, or a lock, leaves the login window no open wait.    *)
LEMMA LoginOperations ==
  ASSUME NEW l \in LoginType, NEW linked \in BOOLEAN
  PROVE  /\ Finish(l, linked) \in LoginType /\ ~Finish(l, linked).pending
         /\ ServerFailed(l) \in LoginType /\ ~ServerFailed(l).pending
         /\ BeginLock(l) \in LoginType /\ BeginLock(l).locked
<1>1. Finish(l, linked) \in LoginType /\ ~Finish(l, linked).pending
  BY DEF Finish, LoginType
<1>2. ServerFailed(l) \in LoginType /\ ~ServerFailed(l).pending
  BY DEF ServerFailed, Finish, LoginType
<1>3. BeginLock(l) \in LoginType /\ BeginLock(l).locked
  BY DEF BeginLock, LoginType
<1>4. QED
  BY <1>1, <1>2, <1>3

(* Failed requests end the waits of the main window that are theirs.       *)
LEMMA MainOperations ==
  ASSUME NEW m \in MainType, NEW R
  PROVE  /\ MainFailed(m, R) \in MainType /\ MainFailed(m, R).open = m.open
         /\ MainFailed(m, R).summary => m.summary /\ "summary" \notin R
         /\ MainFailed(m, R).dialog = "pending" => m.dialog = "pending" /\ "logout" \notin R
         /\ Summary(m) \in MainType /\ Summary(m).open = m.open
         /\ Summary(m).dialog = m.dialog
<1> DEFINE f == MainFailed(m, R)
<1>1. /\ f.open = m.open /\ f.due = m.due
      /\ f.summary = (m.summary /\ "summary" \notin R)
      /\ f.refreshOn = (m.refreshOn \/ "summary" \in R)
      /\ f.logoutOn = (m.logoutOn \/ "logout" \in R)
      /\ f.dialog = IF m.dialog = "pending" /\ "logout" \in R THEN "open" ELSE m.dialog
  BY DEF MainFailed, MainType
<1>2. f \in MainType
  BY DEF MainFailed, MainType
<1>3. /\ Summary(m) \in MainType /\ Summary(m).open = m.open
      /\ Summary(m).dialog = m.dialog
  BY DEF Summary, MainType
<1>4. QED
  BY <1>1, <1>2, <1>3

(* A failed run ends the wait for it.                                      *)
LEMMA PredictOperations ==
  ASSUME NEW p \in PredictType, NEW R, NEW runs \in BOOLEAN
  PROVE  /\ PredictFailed(p, R) \in PredictType
         /\ PredictFailed(p, R).running =>
              p.running /\ "run" \notin R /\ PredictFailed(p, R).polling = p.polling
         /\ ApplyPredictions(p, runs) \in PredictType
         /\ ApplyPredictions(p, runs).running => ApplyPredictions(p, runs).polling
<1>1. /\ PredictFailed(p, R) \in PredictType
      /\ PredictFailed(p, R).running =>
           p.running /\ "run" \notin R /\ PredictFailed(p, R).polling = p.polling
  BY DEF PredictFailed, PredictType
<1>2. /\ ApplyPredictions(p, runs) \in PredictType
      /\ ApplyPredictions(p, runs).running => ApplyPredictions(p, runs).polling
  BY DEF ApplyPredictions, PredictType
<1>3. QED
  BY <1>1, <1>2

(* A failed report ends the loading of its panel, whichever range it had.  *)
LEMMA ReportsFailing ==
  ASSUME NEW r \in ReportsType, NEW R
  PROVE  LET f == ReportsFailed(r, R)
         IN  /\ f \in ReportsType /\ f.range = r.range /\ f.chart = r.chart
             /\ f.panel["figures"] = "loading" =>
                  r.panel["figures"] = "loading" /\ "figures" \notin R
             /\ f.panel["trend"] = "loading" =>
                  r.panel["trend"] = "loading" /\ Trend(r.range) \notin R
<1> DEFINE f == ReportsFailed(r, R)
<1>1. /\ f \in ReportsType /\ f.range = r.range /\ f.chart = r.chart
      /\ \A p \in Panels :
           f.panel[p] = IF \E route \in R \cap ReportRoutes : Panel(route) = p THEN "failed"
                        ELSE r.panel[p]
  BY DEF ReportsFailed, ReportsType, PanelStates
<1>2. /\ "figures" \in ReportRoutes /\ Panel("figures") = "figures"
      /\ Trend(r.range) \in ReportRoutes /\ Panel(Trend(r.range)) = "trend"
      /\ "figures" \in Panels /\ "trend" \in Panels
  BY DEF ReportRoutes, Trends, Trend, Panel, Panels
<1>3. QED
  BY <1>1, <1>2

(* A report that arrives fills its panel; a trend of another range does    *)
(* not, and the panel goes on loading.                                     *)
LEMMA ReportsDrawing ==
  ASSUME NEW r \in ReportsType, NEW route \in ReportRoutes, r.chart \in {0, r.range}
  PROVE  LET d == Drawn(r, route)
         IN  /\ d \in ReportsType /\ d.range = r.range /\ d.chart \in {0, d.range}
             /\ d.panel["figures"] = "loading" =>
                  r.panel["figures"] = "loading" /\ route # "figures"
             /\ d.panel["trend"] = "loading" =>
                  r.panel["trend"] = "loading" /\ route # Trend(r.range)
BY DEF Drawn, ReportsType, PanelStates, ReportRoutes, Trends, Trend, Panel, Panels

(* A refresh, or another range, starts with an empty chart.                *)
LEMMA ReportsAsking ==
  ASSUME NEW r \in ReportsType
  PROVE  /\ Refreshing(r) \in ReportsType /\ Refreshing(r).range = r.range
         /\ Refreshing(r).chart = 0
         /\ Switching(r) \in ReportsType /\ Switching(r).chart = 0
         /\ Switching(r).panel["figures"] = r.panel["figures"]
<1>1. /\ Refreshing(r) \in ReportsType /\ Refreshing(r).range = r.range
      /\ Refreshing(r).chart = 0
  <2>1. r.switched + 1 \in Nat /\ [p \in Panels |-> "loading"] \in [Panels -> PanelStates]
    BY DEF ReportsType, PanelStates
  <2>2. QED
    BY <2>1 DEF Refreshing, ReportsType
<1>2. /\ Switching(r).chart = 0
      /\ Switching(r).panel["figures"] = r.panel["figures"]
  BY DEF Switching, ReportsType, Panels
<1>3. Switching(r) \in ReportsType
  <2>1. r.range \in {7, 30} /\ r.switched \in Nat /\ r.panel \in [Panels -> PanelStates]
    BY DEF ReportsType
  <2>2. 37 - r.range \in {7, 30} /\ r.switched + 1 \in Nat
    BY <2>1
  <2>3. [r.panel EXCEPT !["trend"] = "loading"] \in [Panels -> PanelStates]
    BY <2>1 DEF PanelStates
  <2>4. QED
    BY <2>2, <2>3 DEF Switching, ReportsType
<1>4. QED
  BY <1>1, <1>2, <1>3

(* What is still to be sent shrinks by its first request.                  *)
LEMMA ToSendShrinks ==
  ASSUME NEW S, NEW q \in Seq(S), q # <<>>
  PROVE  /\ Head(q) \in S /\ Tail(q) \in Seq(S)
         /\ Range(q) = {Head(q)} \cup Range(Tail(q))
<1>1. q \in [1..Len(q) -> S] /\ DOMAIN q = 1..Len(q) /\ Len(q) \in Nat \ {0}
  BY EmptySeq
<1>2. /\ Head(q) = q[1] /\ Head(q) \in S
      /\ Tail(q) \in Seq(S) /\ DOMAIN Tail(q) = 1..(Len(q) - 1)
      /\ \A i \in 1..(Len(q) - 1) : Tail(q)[i] = q[i+1]
  BY <1>1, HeadTailProperties
<1>3. \A x : x \in Range(q) <=> \E i \in 1..Len(q) : x = q[i]
  BY <1>1 DEF Range
<1>4. \A x : x \in Range(Tail(q)) <=> \E i \in 1..(Len(q) - 1) : x = q[i+1]
  BY <1>2 DEF Range
<1>5. \A i \in 1..Len(q) : i = 1 \/ (i - 1 \in 1..(Len(q) - 1) /\ i = (i - 1) + 1)
  BY <1>1
<1>6. \A i \in 1..(Len(q) - 1) : i + 1 \in 1..Len(q)
  BY <1>1
<1>7. 1 \in 1..Len(q)
  BY <1>1
<1>8. ASSUME NEW x PROVE x \in Range(q) <=> x = Head(q) \/ x \in Range(Tail(q))
  BY <1>2, <1>3, <1>4, <1>5, <1>6, <1>7
<1>9. QED
  BY <1>2, <1>8

(* What two lists send is sent one after the other.                        *)
LEMMA ToSendJoins ==
  ASSUME NEW S, NEW p \in Seq(S), NEW q \in Seq(S)
  PROVE  p \o q \in Seq(S) /\ Range(p \o q) = Range(p) \cup Range(q)
<1>1. /\ p \o q \in Seq(S) /\ DOMAIN (p \o q) = 1..(Len(p) + Len(q))
      /\ Len(p) \in Nat /\ Len(q) \in Nat /\ DOMAIN p = 1..Len(p) /\ DOMAIN q = 1..Len(q)
      /\ \A i \in 1..(Len(p) + Len(q)) :
           (p \o q)[i] = IF i <= Len(p) THEN p[i] ELSE q[i - Len(p)]
  BY ConcatProperties
<1>2. ASSUME NEW i \in DOMAIN (p \o q) PROVE (p \o q)[i] \in Range(p) \cup Range(q)
  <2>1. CASE i <= Len(p)
    BY <1>1, <2>1 DEF Range
  <2>2. CASE ~(i <= Len(p))
    <3>1. i - Len(p) \in DOMAIN q /\ (p \o q)[i] = q[i - Len(p)]
      BY <1>1, <2>2
    <3>2. QED
      BY <3>1 DEF Range
  <2>3. QED
    BY <2>1, <2>2
<1>3. ASSUME NEW i \in DOMAIN p PROVE p[i] \in Range(p \o q)
  <2>1. i \in DOMAIN (p \o q) /\ (p \o q)[i] = p[i]
    BY <1>1
  <2>2. QED
    BY <2>1 DEF Range
<1>4. ASSUME NEW i \in DOMAIN q PROVE q[i] \in Range(p \o q)
  <2>1. i + Len(p) \in DOMAIN (p \o q) /\ (p \o q)[i + Len(p)] = q[i]
    BY <1>1
  <2>2. QED
    BY <2>1 DEF Range
<1>5. QED
  BY <1>1, <1>2, <1>3, <1>4 DEF Range

-----------------------------------------------------------------------------
(* Each window, when some requests are no longer waited for.               *)

(* The login window.                                                       *)
LEMMA LoginKeeps ==
  ASSUME WindowInv, NEW R, NEW linked \in BOOLEAN,
         login' = login \/ login' = LoginFailed(login, R, linked)
  PROVE  LoginOK'
BY LoginOperations DEF WindowInv, LoginOK, LoginFailed

(* The main window waits for the summary and for the logout.               *)
LEMMA MainKeeps ==
  ASSUME WindowInv, NEW R, Loses(R),
         \/ main' = MainFailed(main, R)
         \/ main' = main /\ R \cap {"summary", "logout"} = {}
  PROVE  MainOK'
<1>1. CASE main' = MainFailed(main, R)
  BY <1>1, MainOperations DEF WindowInv, MainOK, Loses
<1>2. CASE main' = main /\ R \cap {"summary", "logout"} = {}
  BY <1>2 DEF WindowInv, MainOK, Loses
<1>3. QED
  BY <1>1, <1>2

(* The page of the prediction waits for the run.                           *)
LEMMA PredictKeeps ==
  ASSUME WindowInv, NEW R, Loses(R),
         predict' = PredictFailed(predict, R) \/ (predict' = predict /\ "run" \notin R)
  PROVE  PredictOK'
<1>1. CASE predict' = PredictFailed(predict, R)
  BY <1>1, PredictOperations DEF WindowInv, PredictOK, Loses
<1>2. CASE predict' = predict /\ "run" \notin R
  BY <1>2 DEF WindowInv, PredictOK, Loses
<1>3. QED
  BY <1>1, <1>2

(* The reports wait for the figures and the trend.                         *)
LEMMA ReportsKeep ==
  ASSUME WindowInv, NEW R, Loses(R),
         \/ reports' = ReportsFailed(reports, R)
         \/ reports' = reports /\ R \cap ReportRoutes = {}
  PROVE  ReportsOK'
<1>1. reports \in ReportsType /\ ChartFitsRange
  BY DEF WindowInv, ReportsOK
<1>2. CASE reports' = ReportsFailed(reports, R)
  BY <1>1, <1>2, ReportsFailing DEF WindowInv, ReportsOK, Loses, ChartFitsRange
<1>3. CASE reports' = reports /\ R \cap ReportRoutes = {}
  <2>1. "figures" \notin R /\ Trend(reports.range) \notin R
    BY <1>3 DEF ReportRoutes, Trends, Trend
  <2>2. QED
    BY <1>3, <2>1 DEF WindowInv, ReportsOK, Loses, ChartFitsRange
<1>4. QED
  BY <1>2, <1>3

(* A step after which all that was awaited still is, and that changes      *)
(* only the login window.                                                  *)
LEMMA OnlyLogin ==
  ASSUME WindowInv, waiting \subseteq waiting', LoginOK', connected' \in BOOLEAN,
         UNCHANGED <<main, predict, reports, page, toSend>>
  PROVE  WindowInv'
<1>1. Loses({})
  BY DEF Loses, Awaited
<1>2. MainOK' /\ PredictOK' /\ ReportsOK'
  BY <1>1, MainKeeps, PredictKeeps, ReportsKeep
<1>3. QED
  BY <1>2 DEF WindowInv

(* Some requests fail, and every window hears of it.                       *)
LEMMA FailedKeeps ==
  ASSUME WindowInv, NEW R, Failed(R, connected), Loses(R),
         connected' \in BOOLEAN, toSend' \in Seq(Asked), page' = page
  PROVE  WindowInv'
<1>1. /\ login' = LoginFailed(login, R, connected) /\ main' = MainFailed(main, R)
      /\ predict' = PredictFailed(predict, R) /\ reports' = ReportsFailed(reports, R)
      /\ connected \in BOOLEAN
  BY DEF Failed, WindowInv
<1>2. LoginOK'
  BY <1>1, LoginKeeps
<1>3. MainOK' /\ PredictOK' /\ ReportsOK'
  BY <1>1, MainKeeps, PredictKeeps, ReportsKeep
<1>4. QED
  BY <1>2, <1>3 DEF WindowInv

-----------------------------------------------------------------------------
(* Each step keeps the invariant of the windows.                           *)

(* The initial state satisfies it.                                         *)
LEMMA WindowInit == Init => WindowInv
<1> SUFFICES ASSUME Init PROVE WindowInv
  OBVIOUS
<1>1. connected \in BOOLEAN /\ page \in {"predict", "reports"} /\ toSend \in Seq(Asked)
  <2>1. connected = FALSE /\ toSend = <<>> /\ page \in {"predict", "reports"}
    BY DEF Init, InitLink
  <2>2. connected \in BOOLEAN
    BY <2>1
  <2>3. toSend \in Seq(Asked)
    BY <2>1
  <2>4. QED
    BY <2>1, <2>2, <2>3
<1>2. LoginOK
  BY DEF Init, LoginOK, LoginType
<1>3. MainOK
  BY DEF Init, MainOK, NoMain, MainType
<1>4. PredictOK
  BY DEF Init, PredictOK, NewPredict, PredictType
<1>5. ReportsOK
  <2>1. reports.panel \in [Panels -> PanelStates] /\ reports \in ReportsType
    BY DEF Init, NoReports, ReportsType, PanelStates
  <2>2. reports.panel["figures"] = "empty" /\ reports.panel["trend"] = "empty"
    BY DEF Init, NoReports, Panels
  <2>3. reports.chart = 0
    BY DEF Init, NoReports
  <2>4. QED
    BY <2>1, <2>2, <2>3 DEF ReportsOK, ChartFitsRange
<1>6. QED
  BY <1>1, <1>2, <1>3, <1>4, <1>5 DEF WindowInv

(* What the server and its script do is not seen by the windows.           *)
LEMMA ServerKeepsWindows ==
  ASSUME WindowInv,
         \/ ServeLogin \/ ServeSession \/ LockLapses \/ SessionLapses \/ ServiceStep
         \/ UNCHANGED vars
  PROVE  WindowInv'
<1>1. UNCHANGED <<waiting, connected, windows, page>>
  <2>1. CASE ServeLogin
    BY <2>1 DEF ServeLogin, WrongPassword, RightPassword, Reply, Executes
  <2>2. CASE ServeSession
    BY <2>2 DEF ServeSession, ServeLogout, ServeRun, ServeQuery, Reply, Executes
  <2>3. CASE LockLapses \/ SessionLapses \/ ServiceStep \/ UNCHANGED vars
    BY <2>3 DEF LockLapses, SessionLapses, ServiceStep, vars, link
  <2>4. QED
    BY <2>1, <2>2, <2>3
<1>2. UNCHANGED <<login, main, predict, reports, page, toSend>>
  BY <1>1 DEF windows
<1>3. LoginOK' /\ connected' \in BOOLEAN /\ waiting' = waiting
  BY <1>1, <1>2 DEF WindowInv, LoginOK
<1>4. QED
  BY <1>2, <1>3, OnlyLogin

(* An answer the server cannot send is reported in the login window.       *)
LEMMA ServeBadlyKeepsWindows == ASSUME WindowInv, ServeBadly PROVE WindowInv'
<1>1. /\ UNCHANGED <<waiting, connected, main, predict, reports, page, toSend>>
      /\ login' = login \/ login' = ServerFailed(login)
  BY DEF ServeBadly, Executes, pages
<1>2. LoginOK'
  BY <1>1, LoginOperations DEF WindowInv, LoginOK
<1>3. QED
  BY <1>1, <1>2, OnlyLogin DEF WindowInv

(* The login window, while the program starts and while a login is tried.  *)
LEMMA LoginStepKeepsWindows ==
  ASSUME WindowInv,
         \/ ServerStarts \/ ServerFails \/ Connects \/ LoginTimer
         \/ \E password \in {"right", "wrong"} : Submit(password)
  PROVE  WindowInv'
<1>1. login \in LoginType /\ connected \in BOOLEAN
      /\ (login.pending => login.timer \/ login.locked)
  BY DEF WindowInv, LoginOK
<1>2. /\ UNCHANGED <<main, predict, reports, page, toSend>>
      /\ waiting \subseteq waiting' /\ connected' \in BOOLEAN
  <2>1. CASE ServerStarts \/ ServerFails \/ Connects \/ LoginTimer
    BY <1>1, <2>1 DEF ServerStarts, ServerFails, Connects, LoginTimer, link, pages
  <2>2. ASSUME NEW password, Submit(password)
        PROVE  /\ UNCHANGED <<main, predict, reports, page, toSend>>
               /\ waiting \subseteq waiting' /\ connected' = connected
    BY <2>2 DEF Submit, Send, Asks, link, pages
  <2>3. QED
    BY <1>1, <2>1, <2>2
<1>3. LoginOK'
  <2>1. CASE ServerStarts
    BY <1>1, <2>1 DEF ServerStarts, LoginOK, LoginType
  <2>2. CASE ServerFails
    <3>1. [login EXCEPT !.starting = FALSE] \in LoginType
      BY <1>1 DEF LoginType
    <3>2. QED
      BY <2>2, <3>1, LoginOperations DEF ServerFails, LoginOK
  <2>3. CASE Connects
    BY <1>1, <2>3, LoginOperations DEF Connects, LoginOK
  <2>4. CASE LoginTimer
    <3>1. [login EXCEPT !.locked = FALSE] \in LoginType
      BY <1>1 DEF LoginType
    <3>2. QED
      BY <1>1, <2>4, <3>1, LoginOperations DEF LoginTimer, LoginOK
  <2>5. ASSUME NEW password \in {"right", "wrong"}, Submit(password) PROVE LoginOK'
    <3>1. CASE connected
      <4>1. login' = [login EXCEPT !.on = FALSE, !.pending = TRUE, !.timer = TRUE,
                        !.wrongs = IF password = "wrong" THEN @ + 1 ELSE @]
        BY <2>5, <3>1 DEF Submit
      <4>2. (IF password = "wrong" THEN login.wrongs + 1 ELSE login.wrongs) \in Nat
        BY <1>1 DEF LoginType
      <4>3. login' \in LoginType /\ login'.timer
        BY <1>1, <4>1, <4>2 DEF LoginType
      <4>4. QED
        BY <4>3 DEF LoginOK
    <3>2. CASE ~connected
      BY <1>1, <2>5, <3>2, LoginOperations DEF Submit, LoginOK
    <3>3. QED
      BY <3>1, <3>2
  <2>6. QED
    BY <2>1, <2>2, <2>3, <2>4, <2>5
<1>4. QED
  BY <1>2, <1>3, OnlyLogin

(* A request is waited for, or refused on the spot.                        *)
LEMMA AskingWaits ==
  ASSUME NEW r, Asking(r)
  PROVE  /\ connected' = connected /\ waiting \subseteq waiting'
         /\ Refused(r) \subseteq {r}
         /\ r \in waiting' \cup Refused(r)
BY DEF Asking, Refused, Send, Suppressed, Asks, link

(* The handler under way sends its next request.                           *)
LEMMA SendNextKeepsWindows == ASSUME WindowInv, SendNext PROVE WindowInv'
<1> DEFINE r == Head(toSend)
<1>1. PICK R : R = Refused(Head(toSend))
  OBVIOUS
<1>2. /\ toSend # <<>> /\ toSend' = Tail(toSend) /\ page' = page
      /\ Asking(r) /\ Failed(R, connected)
  BY <1>1 DEF SendNext, Busy
<1>3. toSend' \in Seq(Asked) /\ Range(toSend) = {r} \cup Range(toSend')
  BY <1>2, ToSendShrinks DEF WindowInv
<1>4. connected' = connected /\ waiting \subseteq waiting' /\ r \in waiting' \cup R
  BY <1>1, <1>2, AskingWaits
<1>5. Loses(R)
  BY <1>3, <1>4 DEF Loses, Awaited
<1>6. QED
  BY <1>2, <1>3, <1>4, <1>5, FailedKeeps DEF WindowInv

(* A list of requests is to be sent, when none was.                        *)
LEMMA ToSendGrows ==
  ASSUME WindowInv, ~Busy, UNCHANGED waiting
  PROVE  waiting = Awaited /\ Loses({})
BY DEF Busy, Loses, Awaited, Range

(* A page has requests of its own.                                         *)
LEMMA PageRequestsAreAsked == PageRequests \in Seq(Asked)
<1>1. CASE page = "predict"
  BY <1>1 DEF PageRequests, Asked
<1>2. CASE page # "predict"
  BY <1>2 DEF PageRequests, Asked, ReportRoutes, Trends, Trend
<1>3. QED
  BY <1>1, <1>2

(* What the page that is shown asks for when it is refreshed.              *)
LEMMA PageRefreshes ==
  ASSUME WindowInv, ~Busy, PageRefreshed, UNCHANGED waiting,
         Range(PageRequests) \subseteq Range(toSend')
  PROVE  ReportsOK'
<1>1. /\ reports \in ReportsType /\ page \in {"predict", "reports"} /\ ChartFitsRange
      /\ reports.panel["figures"] = "loading" => "figures" \in waiting
      /\ reports.panel["trend"] = "loading" => Trend(reports.range) \in waiting
  BY ToSendGrows DEF WindowInv, ReportsOK
<1>2. CASE page = "predict"
  <2>1. reports' = [reports EXCEPT !.switched = @ + 1]
    BY <1>2 DEF PageRefreshed
  <2>2. /\ reports' \in ReportsType /\ reports'.panel = reports.panel
        /\ reports'.range = reports.range /\ reports'.chart = reports.chart
    BY <1>1, <2>1 DEF ReportsType
  <2>3. QED
    BY <1>1, <2>2 DEF ReportsOK, ChartFitsRange, Awaited
<1>3. CASE page = "reports"
  <2>1. reports' = Refreshing(reports) /\ PageRequests = <<"figures", Trend(reports.range)>>
    BY <1>3 DEF PageRefreshed, PageRequests
  <2>2. /\ reports' \in ReportsType /\ reports'.range = reports.range
        /\ reports'.chart = 0
    BY <1>1, <2>1, ReportsAsking
  <2>3. "figures" \in Range(PageRequests) /\ Trend(reports.range) \in Range(PageRequests)
    <3>1. /\ DOMAIN PageRequests = {1, 2} /\ PageRequests[1] = "figures"
          /\ PageRequests[2] = Trend(reports.range)
      BY <2>1
    <3>2. QED
      BY <3>1 DEF Range
  <2>4. QED
    BY <2>2, <2>3 DEF ReportsOK, ChartFitsRange, Awaited
<1>4. QED
  BY <1>1, <1>2, <1>3

(* The main window opens, or is refreshed.                                 *)
LEMMA OpenedKeepsWindows ==
  ASSUME WindowInv, Opened \/ RefreshClicked PROVE WindowInv'
<1>1. /\ UNCHANGED <<waiting, connected, login, page>> /\ ~Busy
      /\ PageRefreshed /\ UNCHANGED predict
      /\ \/ toSend' = PageRequests \o <<"summary">>
         \/ toSend' = <<"summary">> \o PageRequests
  BY DEF Opened, RefreshClicked, PageRefreshed, link
<1>2. PICK s : s = <<"summary">>
  OBVIOUS
<1>3. toSend' \in Seq(Asked) /\ Range(toSend') = Range(PageRequests) \cup {"summary"}
  <2>1. s \in Seq(Asked)
    BY <1>2 DEF Asked
  <2>2. Range(s) = {"summary"}
    <3>1. DOMAIN s = {1} /\ s[1] = "summary"
      BY <1>2
    <3>2. QED
      BY <3>1 DEF Range
  <2>3. toSend' = PageRequests \o s \/ toSend' = s \o PageRequests
    BY <1>1, <1>2
  <2>4. /\ PageRequests \o s \in Seq(Asked)
        /\ Range(PageRequests \o s) = Range(PageRequests) \cup Range(s)
    BY <2>1, PageRequestsAreAsked, ToSendJoins
  <2>5. /\ s \o PageRequests \in Seq(Asked)
        /\ Range(s \o PageRequests) = Range(s) \cup Range(PageRequests)
    BY <2>1, PageRequestsAreAsked, ToSendJoins
  <2>6. QED
    BY <2>2, <2>3, <2>4, <2>5
<1>4. ReportsOK'
  BY <1>1, <1>3, PageRefreshes
<1>5. MainOK'
  <2>1. PICK m \in MainType : m.dialog = main.dialog /\ main' = Summary(m)
    <3>1. main \in MainType
      BY DEF WindowInv, MainOK
    <3>2. CASE Opened
      <4>1. /\ [main EXCEPT !.due = FALSE] \in MainType
            /\ [main EXCEPT !.due = FALSE].dialog = main.dialog
        BY <3>1 DEF MainType
      <4>2. QED
        BY <3>2, <4>1 DEF Opened
    <3>3. CASE RefreshClicked
      BY <3>1, <3>3 DEF RefreshClicked
    <3>4. QED
      BY <3>2, <3>3
  <2>2. main' \in MainType /\ main'.dialog = main.dialog
    BY <2>1, MainOperations
  <2>3. QED
    BY <1>1, <1>3, <2>2 DEF WindowInv, MainOK, Awaited
<1>6. LoginOK' /\ PredictOK'
  BY <1>1 DEF WindowInv, LoginOK, PredictOK
<1>7. QED
  BY <1>1, <1>3, <1>4, <1>5, <1>6 DEF WindowInv

(* The confirmation of the logout.                                         *)
LEMMA LogoutDialogKeepsWindows == ASSUME WindowInv, LogoutDialog PROVE WindowInv'
<1>1. UNCHANGED <<predict, reports, login, page, toSend>>
  BY DEF LogoutDialog
<1>2. main \in MainType /\ (main.summary => "summary" \in Awaited)
  BY DEF WindowInv, MainOK
<1>3. CASE UNCHANGED link /\ main' \in {[main EXCEPT !.dialog = "open"], [main EXCEPT !.dialog = "closed"]}
  <2>1. UNCHANGED <<waiting, connected>>
    BY <1>3 DEF link
  <2>2. /\ main' \in MainType /\ main'.summary = main.summary /\ main'.dialog # "pending"
    BY <1>2, <1>3 DEF MainType
  <2>3. MainOK'
    BY <1>1, <1>2, <2>1, <2>2 DEF MainOK, Awaited
  <2>4. QED
    BY <1>1, <2>1, <2>3 DEF WindowInv, LoginOK, PredictOK, ReportsOK, ChartFitsRange, Awaited
<1>4. CASE /\ Asking("logout")
           /\ main' = MainFailed([main EXCEPT !.dialog = "pending", !.logoutOn = FALSE],
                                 Refused("logout"))
  <2>1. PICK m : m = [main EXCEPT !.dialog = "pending", !.logoutOn = FALSE]
    OBVIOUS
  <2>2. m \in MainType /\ m.summary = main.summary
    BY <1>2, <2>1 DEF MainType
  <2>3. /\ connected' = connected /\ waiting \subseteq waiting'
        /\ "logout" \in waiting' \cup Refused("logout")
    BY <1>4, AskingWaits
  <2>4. main' = MainFailed(m, Refused("logout"))
    BY <1>4, <2>1
  <2>5. /\ main' \in MainType /\ (main'.summary => main.summary)
        /\ main'.dialog = "pending" => "logout" \in waiting'
    BY <2>2, <2>3, <2>4, MainOperations
  <2>6. MainOK'
    BY <1>1, <1>2, <2>3, <2>5 DEF MainOK, Awaited
  <2>7. Loses({})
    BY <1>1, <2>3 DEF Loses, Awaited
  <2>8. LoginOK' /\ PredictOK' /\ ReportsOK'
    BY <1>1, <2>7, PredictKeeps, ReportsKeep DEF WindowInv, LoginOK
  <2>9. QED
    BY <1>1, <2>3, <2>6, <2>8 DEF WindowInv
<1>5. QED
  BY <1>3, <1>4 DEF LogoutDialog

(* A run, a poll, another range.                                           *)
LEMMA RunKeepsWindows == ASSUME WindowInv, RunClicked PROVE WindowInv'
<1>1. /\ Asking("run") /\ UNCHANGED <<login, main, reports, toSend, page>>
      /\ predict' = PredictFailed([predict EXCEPT !.running = TRUE, !.on = FALSE, !.runs = @ + 1],
                                  Refused("run"))
  BY DEF RunClicked
<1>2. predict \in PredictType
  BY DEF WindowInv, PredictOK
<1>3. PICK p : p = [predict EXCEPT !.running = TRUE, !.on = FALSE, !.runs = @ + 1]
  OBVIOUS
<1>4. p \in PredictType
  <2>1. predict.runs + 1 \in Nat
    BY <1>2 DEF PredictType
  <2>2. QED
    BY <1>2, <1>3, <2>1 DEF PredictType
<1>5. /\ connected' = connected /\ waiting \subseteq waiting'
      /\ "run" \in waiting' \cup Refused("run")
  BY <1>1, AskingWaits
<1>6. predict' = PredictFailed(p, Refused("run"))
  BY <1>1, <1>3
<1>7. PredictOK'
  BY <1>4, <1>5, <1>6, PredictOperations DEF PredictOK
<1>8. Loses({})
  BY <1>1, <1>5 DEF Loses, Awaited
<1>9. LoginOK' /\ MainOK' /\ ReportsOK'
  BY <1>1, <1>8, MainKeeps, ReportsKeep DEF WindowInv, LoginOK
<1>10. QED
  BY <1>1, <1>5, <1>7, <1>9 DEF WindowInv

(* The prediction page asks for the list again.                            *)
LEMMA PollKeepsWindows == ASSUME WindowInv, Poll PROVE WindowInv'
<1>1. Asking("list") /\ UNCHANGED <<login, main, predict, reports, toSend, page>>
  BY DEF Poll, windows
<1>2. connected' = connected /\ waiting \subseteq waiting'
  BY <1>1, AskingWaits
<1>3. LoginOK' /\ connected' \in BOOLEAN
  BY <1>1, <1>2 DEF WindowInv, LoginOK
<1>4. QED
  BY <1>1, <1>2, <1>3, OnlyLogin

(* Another range of the chart: the trend is asked for anew.                *)
LEMMA SwitchKeepsWindows == ASSUME WindowInv, Switch PROVE WindowInv'
<1>1. /\ ~Busy /\ reports' = Switching(reports) /\ toSend' = <<Trend(reports'.range)>>
      /\ UNCHANGED <<waiting, connected, login, main, predict, page>>
  BY DEF Switch, link
<1>2. /\ reports \in ReportsType
      /\ reports.panel["figures"] = "loading" => "figures" \in waiting
      /\ main.summary => "summary" \in waiting
  BY <1>1, ToSendGrows DEF WindowInv, ReportsOK, MainOK
<1>3. /\ reports' \in ReportsType /\ reports'.chart = 0
      /\ reports'.panel["figures"] = reports.panel["figures"]
  BY <1>1, <1>2, ReportsAsking
<1>4. toSend' \in Seq(Asked) /\ Trend(reports'.range) \in Range(toSend')
  <2>1. /\ Trend(reports'.range) \in Asked
        /\ DOMAIN toSend' = {1} /\ toSend'[1] = Trend(reports'.range)
    BY <1>1 DEF Asked, ReportRoutes, Trends, Trend
  <2>2. toSend' \in Seq(Asked)
    BY <1>1, <2>1
  <2>3. QED
    BY <2>1, <2>2 DEF Range
<1>5. ReportsOK'
  BY <1>1, <1>2, <1>3, <1>4 DEF ReportsOK, ChartFitsRange, Awaited
<1>6. LoginOK' /\ MainOK' /\ PredictOK'
  BY <1>1, <1>2 DEF WindowInv, LoginOK, MainOK, PredictOK, Awaited
<1>7. QED
  BY <1>1, <1>4, <1>5, <1>6 DEF WindowInv

-----------------------------------------------------------------------------
(* The answers, the timeouts and the end of the connection.                *)

(* An answer ends at most the wait for it.                                 *)
LEMMA ArrivesLoses ==
  ASSUME Arrives, toSend' = toSend
  PROVE  /\ connected' = connected /\ Loses({Head(answers).route})
         /\ ~Head(answers).live => waiting' = waiting
BY DEF Arrives, Ends, Loses, Awaited

(* A new session opens a new main window, the end of a session closes it.  *)
LEMMA NewWindowsAreOK ==
  ASSUME main' \in {NoMain, NewMain}, predict' = NewPredict, reports' = NoReports
  PROVE  MainOK' /\ PredictOK' /\ ReportsOK'
<1>1. NoMain \in MainType
  BY DEF NoMain, MainType
<1>2. main' \in MainType /\ ~main'.summary /\ main'.dialog # "pending"
  BY <1>1 DEF NoMain, NewMain, MainType
<1>3. PredictOK'
  BY DEF PredictOK, NewPredict, PredictType
<1>4. reports'.panel \in [Panels -> PanelStates] /\ reports' \in ReportsType /\ reports'.chart = 0
  BY DEF NoReports, ReportsType, PanelStates
<1>5. reports'.panel["figures"] = "empty" /\ reports'.panel["trend"] = "empty"
  BY DEF NoReports, Panels
<1>6. QED
  BY <1>2, <1>3, <1>4, <1>5 DEF MainOK, ReportsOK, ChartFitsRange

(* A login or a logout puts fresh windows in the place of the old.         *)
LEMMA SessionChangeKeepsWindows ==
  ASSUME WindowInv, NEW a, LoginSucceeds(a) \/ LogoutSucceeds, UNCHANGED <<toSend, page>>
  PROVE  WindowInv'
<1>1. /\ connected' = connected /\ main' \in {NoMain, NewMain}
      /\ predict' = NewPredict /\ reports' = NoReports
  BY DEF LoginSucceeds, LogoutSucceeds, Arrives, ArrivesAndEndsAll
<1>2. LoginOK'
  <2>1. login \in LoginType /\ connected \in BOOLEAN
    BY DEF WindowInv, LoginOK
  <2>2. CASE LoginSucceeds(a)
    <3>1. login' = [login EXCEPT !.timer = FALSE, !.pending = FALSE, !.on = TRUE, !.wrongs = 0]
      BY <2>2 DEF LoginSucceeds
    <3>2. QED
      BY <2>1, <3>1 DEF LoginOK, LoginType
  <2>3. CASE LogoutSucceeds
    BY <2>1, <2>3, LoginOperations DEF LogoutSucceeds, LoginOK
  <2>4. QED
    BY <2>2, <2>3
<1>3. QED
  BY <1>1, <1>2, NewWindowsAreOK DEF WindowInv

(* A request has failed.                                                   *)
LEMMA FailureKeepsWindows ==
  ASSUME WindowInv, NEW a, a = Head(answers), Answered(a), ~a.ok, UNCHANGED <<toSend, page>>
  PROVE  WindowInv'
<1>1. connected' = connected /\ Loses({a.route})
  BY ArrivesLoses DEF Answered
<1>2. CASE a.route = "login" /\ a.value.flag
  <2>1. login' = BeginLock(login) /\ UNCHANGED <<main, predict, reports>>
    BY <1>2 DEF Answered, pages
  <2>2. LoginOK'
    BY <2>1, LoginOperations DEF WindowInv, LoginOK
  <2>3. MainOK' /\ PredictOK' /\ ReportsOK'
    <3>1. /\ {a.route} \cap {"summary", "logout"} = {} /\ "run" \notin {a.route}
          /\ {a.route} \cap ReportRoutes = {}
      BY <1>2 DEF ReportRoutes, Trends
    <3>2. QED
      BY <1>1, <2>1, <3>1, MainKeeps, PredictKeeps, ReportsKeep
  <2>4. QED
    BY <1>1, <2>2, <2>3 DEF WindowInv
<1>3. CASE ~(a.route = "login" /\ a.value.flag)
  <2>1. Failed({a.route}, connected)
    BY <1>3 DEF Answered
  <2>2. QED
    BY <1>1, <2>1, FailedKeeps DEF WindowInv
<1>4. QED
  BY <1>2, <1>3

(* A request has succeeded.                                                *)
LEMMA SuccessKeepsWindows ==
  ASSUME WindowInv, NEW a \in Answer(Values), a = Head(answers), Answered(a), a.ok,
         a.route # "logout", UNCHANGED <<toSend, page>>
  PROVE  WindowInv'
<1>1. connected' = connected /\ Loses({a.route})
  BY ArrivesLoses DEF Answered
<1>2. a.value.flag \in BOOLEAN
  BY DEF Answer, Values
<1>3. LoginOK'
  BY DEF Answered, WindowInv, LoginOK
<1>4. MainOK'
  <2>1. CASE a.route = "summary"
    <3>1. main' = [main EXCEPT !.summary = FALSE, !.refreshOn = TRUE] /\ main \in MainType
      BY <2>1 DEF Answered, WindowInv, MainOK
    <3>2. main' \in MainType /\ ~main'.summary /\ main'.dialog = main.dialog
      BY <3>1 DEF MainType
    <3>3. QED
      BY <1>1, <2>1, <3>2 DEF WindowInv, MainOK, Loses
  <2>2. CASE a.route # "summary"
    <3>1. main' = main /\ {a.route} \cap {"summary", "logout"} = {}
      BY <2>2 DEF Answered
    <3>2. QED
      BY <1>1, <3>1, MainKeeps
  <2>3. QED
    BY <2>1, <2>2
<1>5. PredictOK'
  <2>1. predict \in PredictType
    BY DEF WindowInv, PredictOK
  <2>2. CASE a.route = "list"
    <3>1. predict' = ApplyPredictions(predict, a.value.flag)
      BY <2>2 DEF Answered
    <3>2. QED
      BY <1>2, <2>1, <3>1, PredictOperations DEF PredictOK
  <2>3. CASE a.route = "run"
    <3>1. predict' = [predict EXCEPT !.running = TRUE, !.on = FALSE, !.polling = TRUE]
      BY <2>3 DEF Answered
    <3>2. QED
      BY <2>1, <3>1 DEF PredictOK, PredictType
  <2>4. CASE a.route \notin {"list", "run"}
    <3>1. predict' = predict /\ "run" \notin {a.route}
      BY <2>4 DEF Answered
    <3>2. QED
      BY <1>1, <3>1, PredictKeeps
  <2>5. QED
    BY <2>2, <2>3, <2>4
<1>6. ReportsOK'
  <2>1. CASE a.route \in ReportRoutes
    <3>1. reports' = Drawn(reports, a.route) /\ reports \in ReportsType
          /\ reports.chart \in {0, reports.range}
      BY <2>1 DEF Answered, WindowInv, ReportsOK, ChartFitsRange
    <3>2. /\ reports' \in ReportsType /\ reports'.range = reports.range
          /\ reports'.chart \in {0, reports'.range}
          /\ reports'.panel["figures"] = "loading" =>
               reports.panel["figures"] = "loading" /\ a.route # "figures"
          /\ reports'.panel["trend"] = "loading" =>
               reports.panel["trend"] = "loading" /\ a.route # Trend(reports.range)
      BY <2>1, <3>1, ReportsDrawing
    <3>3. QED
      BY <1>1, <3>2 DEF WindowInv, ReportsOK, ChartFitsRange, Loses
  <2>2. CASE a.route \notin ReportRoutes
    <3>1. reports' = reports /\ {a.route} \cap ReportRoutes = {}
      BY <2>2 DEF Answered
    <3>2. QED
      BY <1>1, <3>1, ReportsKeep
  <2>3. QED
    BY <2>1, <2>2
<1>7. QED
  BY <1>1, <1>3, <1>4, <1>5, <1>6 DEF WindowInv

(* The next answer, whichever it is.                                       *)
LEMMA ReceiveKeepsWindows ==
  ASSUME WindowInv, answers \in Seq(Answer(Values)), Receive PROVE WindowInv'
<1>1. PICK a : a = Head(answers)
  OBVIOUS
<1>2. /\ a \in Answer(Values) /\ UNCHANGED <<toSend, page>>
      /\ \/ ~a.live /\ Arrives /\ UNCHANGED <<login, main, predict, reports>>
         \/ LoginSucceeds(a) \/ LogoutSucceeds
         \/ Answered(a) /\ (a.ok => a.route # "logout")
  <2>1. answers # <<>> /\ UNCHANGED <<toSend, page>>
    BY DEF Receive
  <2>2. a \in Answer(Values)
    BY <1>1, <2>1
  <2>3. CASE ~a.live
    BY <1>1, <2>1, <2>2, <2>3 DEF Receive, pages
  <2>4. CASE a.live /\ a.ok /\ a.route = "login"
    BY <1>1, <2>1, <2>2, <2>4 DEF Receive
  <2>5. CASE a.live /\ a.ok /\ a.route = "logout"
    BY <1>1, <2>1, <2>2, <2>5 DEF Receive
  <2>6. CASE a.live /\ ~(a.ok /\ a.route \in {"login", "logout"})
    BY <1>1, <2>1, <2>2, <2>6 DEF Receive
  <2>7. QED
    BY <2>3, <2>4, <2>5, <2>6
<1>3. CASE ~a.live /\ Arrives /\ UNCHANGED <<login, main, predict, reports>>
  <2>1. connected' = connected /\ waiting' = waiting
    BY <1>1, <1>2, <1>3, ArrivesLoses
  <2>2. LoginOK' /\ connected' \in BOOLEAN
    BY <1>3, <2>1 DEF WindowInv, LoginOK
  <2>3. QED
    BY <1>2, <1>3, <2>1, <2>2, OnlyLogin
<1>4. CASE LoginSucceeds(a) \/ LogoutSucceeds
  BY <1>2, <1>4, SessionChangeKeepsWindows
<1>5. CASE Answered(a) /\ (a.ok => a.route # "logout")
  BY <1>1, <1>2, <1>5, FailureKeepsWindows, SuccessKeepsWindows
<1>6. QED
  BY <1>2, <1>3, <1>4, <1>5

(* A request times out, the connection is lost.                            *)
LEMMA ExpireKeepsWindows == ASSUME WindowInv, NEW r, Expire(r) PROVE WindowInv'
<1>1. /\ Failed({r}, connected) /\ Loses({r}) /\ UNCHANGED <<connected, toSend, page>>
  BY DEF Expire, GivesUp, Ends, Loses, Awaited
<1>2. QED
  BY <1>1, FailedKeeps DEF WindowInv

(* The connection breaks: every wait of every window fails.                *)
LEMMA DisconnectKeepsWindows == ASSUME WindowInv, NEW n, Disconnect(n) PROVE WindowInv'
<1>1. /\ waiting' = {} /\ connected' = FALSE /\ UNCHANGED <<toSend, page>>
      /\ login' = Finish([login EXCEPT !.ready = FALSE, !.lost = TRUE], FALSE)
      /\ main' = MainFailed(main, waiting \cup {"summary", "logout"})
      /\ predict' = PredictFailed(predict, waiting)
      /\ reports' = ReportsFailed(reports, waiting)
  BY DEF Disconnect, Breaks, EndAll
<1>2. LoginOK'
  <2>1. [login EXCEPT !.ready = FALSE, !.lost = TRUE] \in LoginType
    BY DEF WindowInv, LoginOK, LoginType
  <2>2. QED
    BY <1>1, <2>1, LoginOperations DEF LoginOK
<1>3. Loses(waiting) /\ Loses(waiting \cup {"summary", "logout"})
  BY <1>1 DEF Loses, Awaited
<1>4. MainOK' /\ PredictOK' /\ ReportsOK'
  BY <1>1, <1>3, MainKeeps, PredictKeeps, ReportsKeep
<1>5. connected' \in BOOLEAN
  BY <1>1
<1>6. QED
  BY <1>1, <1>2, <1>4, <1>5 DEF WindowInv

(* The invariant of the windows is inductive, given the types of answers.  *)
LEMMA WindowNext ==
  WindowInv /\ answers \in Seq(Answer(Values)) /\ [Next]_vars => WindowInv'
<1> SUFFICES ASSUME WindowInv, answers \in Seq(Answer(Values)), [Next]_vars
             PROVE  WindowInv'
  OBVIOUS
<1>1. CASE \/ ServeLogin \/ ServeSession \/ LockLapses \/ SessionLapses \/ ServiceStep
           \/ UNCHANGED vars
  BY <1>1, ServerKeepsWindows
<1>2. CASE ServeBadly
  BY <1>2, ServeBadlyKeepsWindows
<1>3. CASE \/ ServerStarts \/ ServerFails \/ Connects \/ LoginTimer
           \/ \E password \in {"right", "wrong"} : Submit(password)
  BY <1>3, LoginStepKeepsWindows
<1>4. CASE SendNext
  BY <1>4, SendNextKeepsWindows
<1>5. CASE Opened \/ RefreshClicked
  BY <1>5, OpenedKeepsWindows
<1>6. CASE LogoutDialog \/ RunClicked \/ Poll \/ Switch
  BY <1>6, LogoutDialogKeepsWindows, RunKeepsWindows, PollKeepsWindows, SwitchKeepsWindows
<1>7. CASE Receive
  BY <1>7, ReceiveKeepsWindows
<1>8. CASE \E r \in ProgramRoutes : Expire(r)
  BY <1>8, ExpireKeepsWindows
<1>9. CASE \E n \in 0..Len(calls) : Disconnect(n)
  BY <1>9, DisconnectKeepsWindows
<1>10. QED
  BY <1>1, <1>2, <1>3, <1>4, <1>5, <1>6, <1>7, <1>8, <1>9 DEF Next

-----------------------------------------------------------------------------
(* The messages, with what is known of the windows.                        *)

\* the session, and whether the main window shows it
SessionStays == token' = token /\ main'.open = main.open

(* The initial state satisfies it.                                         *)
LEMMA MessageInit == Init => MessageInv
<1> SUFFICES ASSUME Init PROVE MessageInv
  OBVIOUS
<1>1. connected = FALSE /\ waiting = {} /\ calls = <<>> /\ answers = <<>>
  BY DEF Init, InitLink, InitFacade
<1>2. connected \in BOOLEAN
  BY <1>1
<1>3. LinkTypeOK(Arguments, Values) /\ LinkInv /\ Live(calls) = {} /\ Live(answers) = {}
  BY <1>1, <1>2, LinkInit
<1>4. issued = 0 /\ token = 0 /\ running \in BOOLEAN
  BY DEF Init, InitService
<1>5. QED
  BY <1>3, <1>4 DEF MessageInv, SessionOK

(* Messages are only given up, in the session there was.                   *)
LEMMA FewerMessages ==
  ASSUME MessageInv, SessionStays, issued' = issued, running' \in BOOLEAN,
         LinkTypeOK(Arguments, Values)', LinkInv',
         Live(calls)' \subseteq Live(calls), Live(answers)' \subseteq Live(answers)
  PROVE  MessageInv'
BY DEF MessageInv, SessionOK, SessionStays, Belongs

(* When nothing is waited for, only the session itself matters.            *)
LEMMA NoMessages ==
  ASSUME Live(calls)' = {}, Live(answers)' = {}, LinkTypeOK(Arguments, Values)', LinkInv',
         SessionOK'
  PROVE  MessageInv'
BY DEF MessageInv

(* A request is executed, and answered for its session.                    *)
LEMMA ReplyKeeps ==
  ASSUME MessageInv, NEW ok \in BOOLEAN, NEW v \in Values, Executes(ok, v), SessionStays,
         issued' \in Nat, issued' >= issued, running' \in BOOLEAN,
         Head(calls).route # "login" => v.of = Head(calls).arg,
         Head(calls).route = "login" /\ ok => v.of \in 1..issued'
  PROVE  MessageInv'
<1>0. PICK c : c = Head(calls)
  OBVIOUS
<1> DEFINE m == [route |-> c.route, live |-> TRUE, ok |-> ok, value |-> v]
<1>1. /\ LinkTypeOK(Arguments, Values)' /\ LinkInv' /\ UNCHANGED <<waiting, connected>>
      /\ c.live => /\ c \in Live(calls)
                   /\ Live(calls)' = LiveBut(calls, c.route)
                   /\ Live(answers)' = Live(answers) \cup {m}
      /\ ~c.live => Live(calls)' = Live(calls) /\ answers' = answers
  BY <1>0, ExecutesKeeps DEF MessageInv
<1>2. SessionOK'
  BY DEF MessageInv, SessionOK, SessionStays
<1>3. \A x : Belongs(x, x.arg) => Belongs(x, x.arg)'
  BY DEF Belongs, SessionStays
<1>4. \A x : Belongs(x, x.value.of) => Belongs(x, x.value.of)'
  BY DEF Belongs, SessionStays
<1>5. issued \in Nat /\ \A n : n \in 1..issued => n \in 1..issued'
  BY DEF MessageInv, SessionOK
<1>6. CASE c.live
  <2>1. Belongs(m, m.value.of)' /\ (m.route = "login" /\ m.ok => m.value.of \in 1..issued')
    <3>1. /\ c.route # "login" => token # 0 /\ v.of = token
          /\ c.route = "login" => ~main.open
      BY <1>0, <1>1, <1>6 DEF MessageInv, Belongs
    <3>2. Belongs(m, v.of)'
      BY <3>1 DEF Belongs, SessionStays
    <3>3. c.route = "login" /\ ok => v.of \in 1..issued'
      BY <1>0
    <3>4. QED
      BY <3>2, <3>3
  <2>2. Live(calls)' \subseteq Live(calls) /\ Live(answers)' = Live(answers) \cup {m}
    BY <1>1, <1>6 DEF LiveBut
  <2>3. QED
    BY <1>1, <1>2, <1>3, <1>4, <1>5, <2>1, <2>2 DEF MessageInv
<1>7. CASE ~c.live
  <2>1. Live(answers)' = Live(answers) /\ Live(calls)' = Live(calls)
    BY <1>1, <1>7 DEF Live
  <2>2. QED
    BY <1>1, <1>2, <1>3, <1>4, <1>5, <2>1 DEF MessageInv
<1>8. QED
  BY <1>6, <1>7

(* A request is sent, of the session or for a new one.                     *)
LEMMA SendingKeeps ==
  ASSUME MessageInv, NEW r \in Routes, NEW a \in Arguments, Send(r, a), SessionStays,
         issued' = issued, running' = running,
         r # "login" => token # 0 /\ a = token,
         r = "login" => ~main.open
  PROVE  MessageInv'
<1> DEFINE m == [route |-> r, live |-> TRUE, arg |-> a]
<1>1. /\ LinkTypeOK(Arguments, Values)' /\ LinkInv'
      /\ \/ UNCHANGED <<calls, answers>>
         \/ Live(calls)' = LiveBut(calls, r) \cup {m} /\ Live(answers)' = LiveBut(answers, r)
  BY SendKeeps DEF MessageInv
<1>2. running' \in BOOLEAN
  BY DEF MessageInv, SessionOK
<1>3. CASE UNCHANGED <<calls, answers>>
  <2>1. Live(calls)' = Live(calls) /\ Live(answers)' = Live(answers)
    BY <1>3 DEF Live
  <2>2. QED
    BY <1>1, <1>2, <2>1, FewerMessages
<1>4. CASE Live(calls)' = LiveBut(calls, r) \cup {m} /\ Live(answers)' = LiveBut(answers, r)
  BY <1>1, <1>2, <1>4 DEF MessageInv, SessionOK, SessionStays, Belongs, LiveBut
<1>5. QED
  BY <1>1, <1>3, <1>4

(* A window asks, with the session's token or not at all.                  *)
LEMMA AskingKeeps ==
  ASSUME MessageInv, NEW r \in ProgramRoutes, r # "login", Asking(r), SessionStays,
         issued' = issued, running' = running
  PROVE  MessageInv'
<1>1. CASE connected /\ token # 0
  <2>1. Send(r, token) /\ r \in Routes /\ token \in Arguments
    BY <1>1, ProgramAssumption DEF Asking, Arguments, MessageInv, SessionOK
  <2>2. QED
    BY <1>1, <2>1, SendingKeeps
<1>2. CASE ~(connected /\ token # 0)
  <2>1. UNCHANGED link
    BY <1>2 DEF Asking
  <2>2. /\ LinkTypeOK(Arguments, Values)' /\ LinkInv'
        /\ Live(calls)' = Live(calls) /\ Live(answers)' = Live(answers)
    BY <2>1, LinkStays DEF MessageInv
  <2>3. running' \in BOOLEAN
    BY DEF MessageInv, SessionOK
  <2>4. QED
    BY <2>2, <2>3, FewerMessages
<1>3. QED
  BY <1>1, <1>2

(* What leaves the link and the session alone.                             *)
LEMMA ElsewhereKeeps ==
  ASSUME MessageInv, UNCHANGED link, SessionStays, issued' = issued, running' \in BOOLEAN
  PROVE  MessageInv'
<1>1. /\ LinkTypeOK(Arguments, Values)' /\ LinkInv'
      /\ Live(calls)' = Live(calls) /\ Live(answers)' = Live(answers)
  BY LinkStays DEF MessageInv
<1>2. QED
  BY <1>1, FewerMessages

-----------------------------------------------------------------------------
(* Each step keeps the invariant of the messages.                          *)

(* A login is executed, right or wrong, or while the account is locked.    *)
LEMMA ServeLoginKeeps == ASSUME MessageInv, ServeLogin PROVE MessageInv'
<1>1. /\ Head(calls).route = "login" /\ SessionStays /\ running' = running
      /\ running \in BOOLEAN /\ issued \in Nat
  <2>1. Head(calls).route = "login" /\ UNCHANGED <<windows, service>>
    BY DEF ServeLogin, WrongPassword, RightPassword, Reply
  <2>2. QED
    BY <2>1 DEF windows, service, SessionStays, MessageInv, SessionOK
<1>2. ASSUME issued' = issued, NEW flag \in BOOLEAN, Executes(FALSE, [of |-> 0, flag |-> flag])
      PROVE  MessageInv'
  <2>1. PICK v : v = [of |-> 0, flag |-> flag]
    OBVIOUS
  <2>2. v \in Values
    BY <1>2, <2>1 DEF Values, Arguments
  <2>3. issued' \in Nat /\ issued' >= issued /\ running' \in BOOLEAN
    BY <1>1, <1>2
  <2>4. Executes(FALSE, v)
    BY <1>2, <2>1
  <2>5. QED
    BY <1>1, <2>2, <2>3, <2>4, ReplyKeeps
<1>3. CASE lock = "locked"
  BY <1>2, <1>3 DEF ServeLogin, Reply, auth
<1>4. CASE lock # "locked" /\ Head(calls).arg = "wrong"
  <2>1. PICK count : count = IF lock = "lapsed" THEN 1 ELSE failures + 1
    OBVIOUS
  <2>2. issued' = issued /\ Executes(FALSE, [of |-> 0, flag |-> count >= MaxFailures])
    BY <1>4, <2>1 DEF ServeLogin, WrongPassword, Reply
  <2>3. (count >= MaxFailures) \in BOOLEAN
    OBVIOUS
  <2>4. QED
    BY <1>2, <2>2, <2>3
<1>5. CASE lock # "locked" /\ Head(calls).arg # "wrong"
  <2>1. issued' = issued + 1 /\ Executes(TRUE, [of |-> issued + 1, flag |-> FALSE])
    BY <1>5 DEF ServeLogin, RightPassword, Reply
  <2>2. PICK v : v = [of |-> issued + 1, flag |-> FALSE]
    OBVIOUS
  <2>3. /\ v \in Values /\ v.of \in 1..issued'
        /\ issued' \in Nat /\ issued' >= issued /\ running' \in BOOLEAN
    BY <1>1, <2>1, <2>2 DEF Values, Arguments
  <2>4. QED
    BY <1>1, <2>1, <2>2, <2>3, ReplyKeeps
<1>6. QED
  BY <1>3, <1>4, <1>5

(* A request of a session is answered for that session.                    *)
LEMMA ServeSessionKeeps == ASSUME MessageInv, ServeSession PROVE MessageInv'
<1>1. PICK c : c = Head(calls)
  OBVIOUS
<1>2. /\ calls # <<>> /\ c.route # "login" /\ issued' = issued
      /\ ServeLogout(c) \/ ServeRun(c) \/ ServeQuery(c)
  BY <1>1 DEF ServeSession
<1>3. c.arg \in Arguments
  <2>1. calls \in Seq(Call(Arguments))
    BY DEF MessageInv, LinkTypeOK
  <2>2. c \in Call(Arguments)
    BY <1>1, <1>2, <2>1
  <2>3. QED
    BY <2>2 DEF Call
<1>4. \E ok \in BOOLEAN, flag \in BOOLEAN : Executes(ok, [of |-> c.arg, flag |-> flag])
  <2>1. running \in BOOLEAN /\ Valid(c) \in BOOLEAN
    BY DEF MessageInv, SessionOK, Valid
  <2>2. CASE ServeLogout(c)
    BY <2>1, <2>2 DEF ServeLogout, Reply
  <2>3. CASE ServeRun(c)
    BY <2>3 DEF ServeRun, Reply
  <2>4. CASE ServeQuery(c)
    BY <2>1, <2>4 DEF ServeQuery, Reply
  <2>5. QED
    BY <1>2, <2>2, <2>3, <2>4
<1>5. SessionStays /\ running' \in BOOLEAN
  <2>1. running \in BOOLEAN
    BY DEF MessageInv, SessionOK
  <2>2. UNCHANGED windows /\ running' \in {running, TRUE}
    <3>1. CASE ServeLogout(c) \/ ServeQuery(c)
      BY <3>1 DEF ServeLogout, ServeQuery, Reply, service
    <3>2. CASE ServeRun(c)
      BY <3>2 DEF ServeRun, Reply, RunScript, StartScriptProcess, service
    <3>3. QED
      BY <1>2, <3>1, <3>2
  <2>3. QED
    BY <2>1, <2>2 DEF windows, SessionStays
<1>6. PICK ok \in BOOLEAN, v \in Values : Executes(ok, v) /\ v.of = c.arg
  BY <1>3, <1>4 DEF Values
<1>7. issued' \in Nat /\ issued' >= issued
  BY <1>2 DEF MessageInv, SessionOK
<1>8. QED
  BY <1>1, <1>2, <1>5, <1>6, <1>7, ReplyKeeps

(* The database fails, or an answer is lost: nobody else's answer comes.   *)
LEMMA ServeBadlyKeeps == ASSUME MessageInv, ServeBadly PROVE MessageInv'
<1>1. PICK c : c = Head(calls)
  OBVIOUS
<1>2. /\ calls # <<>> /\ SessionStays /\ issued' = issued /\ running' = running
  BY DEF ServeBadly, auth, service, SessionStays
<1>3. calls \in Seq(Call(Arguments)) /\ Distinct(calls) /\ issued \in Nat /\ running \in BOOLEAN
  BY DEF MessageInv, LinkTypeOK, LinkInv, SessionOK
<1>4. CASE Executes(FALSE, [of |-> IF c.route = "login" THEN 0 ELSE c.arg, flag |-> FALSE])
  <2>1. PICK v : v = [of |-> IF c.route = "login" THEN 0 ELSE c.arg, flag |-> FALSE]
    OBVIOUS
  <2>2. c \in Call(Arguments)
    BY <1>1, <1>2, <1>3
  <2>3. v \in Values /\ (c.route # "login" => v.of = c.arg)
    BY <2>1, <2>2 DEF Call, Values, Arguments
  <2>4. Executes(FALSE, v)
    BY <1>4, <2>1
  <2>5. issued' \in Nat /\ issued' >= issued /\ running' \in BOOLEAN
    BY <1>2, <1>3
  <2>6. QED
    BY <1>1, <1>2, <2>3, <2>4, <2>5, ReplyKeeps
<1>5. CASE calls' = Tail(calls) /\ UNCHANGED <<waiting, connected, answers>>
  <2>1. /\ calls' \in Seq(Call(Arguments)) /\ Distinct(calls')
        /\ Live(calls') \subseteq Live(calls)
    BY <1>2, <1>3, <1>5, TailLeaves, CallsAreMessages DEF LiveBut
  <2>2. LinkTypeOK(Arguments, Values)'
    BY <1>5, <2>1 DEF MessageInv, LinkTypeOK
  <2>3. LinkInv'
    BY <1>5, <2>1 DEF MessageInv, LinkInv, LiveRoutes
  <2>4. Live(answers)' = Live(answers)
    BY <1>5 DEF Live
  <2>5. QED
    BY <1>2, <1>3, <2>1, <2>2, <2>3, <2>4, FewerMessages
<1>6. QED
  BY <1>1, <1>4, <1>5 DEF ServeBadly

(* The server's own events, and the login window without its request.      *)
LEMMA OwnEventsKeep ==
  ASSUME MessageInv,
         \/ LockLapses \/ SessionLapses \/ ServiceStep \/ ServerStarts \/ ServerFails
         \/ LoginTimer \/ UNCHANGED vars
  PROVE  MessageInv'
<1>1. running \in BOOLEAN
  BY DEF MessageInv, SessionOK
<1>2. /\ UNCHANGED <<link, token, main, issued>>
      /\ running' \in {running, FALSE}
  <2>1. CASE LockLapses \/ SessionLapses
    BY <2>1 DEF LockLapses, SessionLapses, service, windows
  <2>2. CASE ServiceStep
    BY <2>2 DEF ServiceStep, ScriptEnds, WatchdogFires, ProcessEvent, auth, windows
  <2>3. CASE ServerStarts \/ ServerFails \/ LoginTimer
    BY <2>3 DEF ServerStarts, ServerFails, LoginTimer, service, auth
  <2>4. CASE UNCHANGED vars
    BY <2>4 DEF vars, service, auth, windows
  <2>5. QED
    BY <2>1, <2>2, <2>3, <2>4
<1>3. SessionStays /\ running' \in BOOLEAN /\ issued' = issued
  BY <1>1, <1>2 DEF SessionStays
<1>4. QED
  BY <1>2, <1>3, ElsewhereKeeps

(* A new connection finds no message under way.                            *)
LEMMA ConnectsKeeps == ASSUME MessageInv, Connects PROVE MessageInv'
<1>1. /\ UNCHANGED <<waiting, calls, answers, running, issued, token, main>>
      /\ connected' = TRUE
  BY DEF Connects, service, auth
<1>2. /\ Live(calls)' = Live(calls) /\ Live(answers)' = Live(answers)
      /\ connected' \in BOOLEAN
  BY <1>1 DEF Live
<1>3. LinkTypeOK(Arguments, Values)' /\ LinkInv'
  BY <1>1, <1>2 DEF MessageInv, LinkTypeOK, LinkInv, LiveRoutes, Distinct
<1>4. SessionStays /\ running' \in BOOLEAN
  BY <1>1 DEF SessionStays, MessageInv, SessionOK
<1>5. QED
  BY <1>1, <1>2, <1>3, <1>4, FewerMessages

(* A login is only asked for while there is no main window.                *)
LEMMA SubmitKeeps ==
  ASSUME MessageInv, NEW password \in {"right", "wrong"}, Submit(password) PROVE MessageInv'
<1>1. ~main.open /\ SessionStays /\ issued' = issued /\ running' = running
  BY DEF Submit, service, auth, SessionStays
<1>2. CASE connected
  <2>1. Send("login", password) /\ "login" \in Routes /\ password \in Arguments
    BY <1>2, ProgramAssumption DEF Submit, ProgramRoutes, Arguments
  <2>2. QED
    BY <1>1, <2>1, SendingKeeps
<1>3. CASE ~connected
  <2>1. UNCHANGED link /\ running' \in BOOLEAN
    BY <1>1, <1>3 DEF Submit, MessageInv, SessionOK
  <2>2. QED
    BY <1>1, <2>1, ElsewhereKeeps
<1>4. QED
  BY <1>2, <1>3

(* What the main window and its pages do leaves the main window open.      *)
LEMMA MainStaysOpen ==
  ASSUME WindowInv,
         \/ UNCHANGED main
         \/ \E R : main' = MainFailed(main, R)
         \/ Opened \/ RefreshClicked \/ LogoutDialog
  PROVE  main'.open = main.open
<1>1. main \in MainType
  BY DEF WindowInv, MainOK
<1>2. \A x \in {TRUE, FALSE} :
        /\ [main EXCEPT !.due = x] \in MainType
        /\ [main EXCEPT !.due = x].open = main.open
  BY <1>1 DEF MainType
<1>3. /\ [main EXCEPT !.dialog = "open"].open = main.open
      /\ [main EXCEPT !.dialog = "closed"].open = main.open
  BY <1>1 DEF MainType
<1>4. /\ [main EXCEPT !.dialog = "pending", !.logoutOn = FALSE] \in MainType
      /\ [main EXCEPT !.dialog = "pending", !.logoutOn = FALSE].open = main.open
  BY <1>1 DEF MainType
<1>5. CASE UNCHANGED main \/ \E R : main' = MainFailed(main, R)
  BY <1>1, <1>5, MainOperations
<1>6. CASE Opened
  BY <1>2, <1>6, MainOperations DEF Opened
<1>7. CASE RefreshClicked
  BY <1>1, <1>7, MainOperations DEF RefreshClicked
<1>8. CASE LogoutDialog
  <2>1. \/ main' = [main EXCEPT !.dialog = "open"]
        \/ main' = [main EXCEPT !.dialog = "closed"]
        \/ main' = MainFailed([main EXCEPT !.dialog = "pending", !.logoutOn = FALSE],
                              Refused("logout"))
    BY <1>8 DEF LogoutDialog
  <2>2. CASE main' = [main EXCEPT !.dialog = "open"] \/ main' = [main EXCEPT !.dialog = "closed"]
    BY <1>3, <2>2
  <2>3. CASE main' = MainFailed([main EXCEPT !.dialog = "pending", !.logoutOn = FALSE],
                                Refused("logout"))
    <3>1. PICK m : m = [main EXCEPT !.dialog = "pending", !.logoutOn = FALSE]
      OBVIOUS
    <3>2. m \in MainType /\ m.open = main.open /\ main' = MainFailed(m, Refused("logout"))
      BY <1>4, <2>3, <3>1
    <3>3. QED
      BY <3>2, MainOperations
  <2>4. QED
    BY <2>1, <2>2, <2>3
<1>9. QED
  BY <1>5, <1>6, <1>7, <1>8

(* The requests of the main window and of its pages.                       *)
LEMMA MainStepsKeep ==
  ASSUME WindowInv, MessageInv,
         SendNext \/ Opened \/ RefreshClicked \/ LogoutDialog \/ RunClicked \/ Poll \/ Switch
  PROVE  MessageInv'
<1>1. token' = token /\ issued' = issued /\ running' = running
  BY DEF SendNext, Opened, RefreshClicked, LogoutDialog, RunClicked, Poll, Switch,
         windows, service, auth
<1>2. main'.open = main.open
  <2>1. CASE Opened \/ RefreshClicked \/ LogoutDialog
    BY <2>1, MainStaysOpen
  <2>2. CASE SendNext
    <3>1. \E R : main' = MainFailed(main, R)
      BY <2>2 DEF SendNext, Failed
    <3>2. QED
      BY <3>1, MainStaysOpen
  <2>3. CASE RunClicked \/ Poll \/ Switch
    BY <2>3 DEF RunClicked, Poll, Switch, windows
  <2>4. QED
    BY <2>1, <2>2, <2>3
<1>3. \/ UNCHANGED link
      \/ \E r \in ProgramRoutes : r # "login" /\ Asking(r)
  <2>1. CASE Opened \/ RefreshClicked \/ Switch
    BY <2>1 DEF Opened, RefreshClicked, Switch
  <2>2. CASE LogoutDialog \/ RunClicked \/ Poll
    BY <2>2 DEF LogoutDialog, RunClicked, Poll, ProgramRoutes
  <2>3. CASE SendNext
    <3>1. toSend \in Seq(Asked) /\ toSend # <<>> /\ Asking(Head(toSend))
      BY <2>3 DEF SendNext, Busy, WindowInv
    <3>2. Head(toSend) \in Asked
      BY <3>1
    <3>3. Head(toSend) \in ProgramRoutes /\ Head(toSend) # "login"
      BY <3>2 DEF Asked, ProgramRoutes, ReportRoutes, Trends
    <3>4. QED
      BY <3>1, <3>3
  <2>4. QED
    BY <2>1, <2>2, <2>3
<1>4. SessionStays /\ running' \in BOOLEAN
  BY <1>1, <1>2 DEF SessionStays, MessageInv, SessionOK
<1>5. QED
  BY <1>1, <1>3, <1>4, AskingKeeps, ElsewhereKeeps

(* After a login nothing is waited for: while there is no main window      *)
(* there is no token to ask with.                                          *)
LEMMA LoginSucceedsKeeps ==
  ASSUME MessageInv, NEW a, a = Head(answers), a.live, a.ok, a.route = "login",
         LoginSucceeds(a), issued' = issued, running' = running
  PROVE  MessageInv'
<1>1. /\ LinkTypeOK(Arguments, Values)' /\ LinkInv' /\ UNCHANGED calls
      /\ a \in Live(answers) /\ Live(answers)' = LiveBut(answers, "login")
  BY ArrivesKeeps DEF MessageInv, LoginSucceeds
<1>2. Live(calls)' = Live(calls)
  BY <1>1 DEF Live
<1>3. ~main.open /\ token = 0 /\ a.value.of \in 1..issued
  BY <1>1 DEF MessageInv, SessionOK, Belongs
<1>4. "login" \notin LiveRoutes(calls)
  BY <1>1 DEF MessageInv, LinkInv, LiveRoutes
<1>5. Live(calls)' = {} /\ Live(answers)' = {}
  BY <1>1, <1>2, <1>3, <1>4 DEF MessageInv, Belongs, LiveBut, LiveRoutes
<1>6. token' = a.value.of /\ main'.open
  <2>1. NoMain \in MainType
    BY DEF NoMain, MainType
  <2>2. QED
    BY <2>1 DEF LoginSucceeds, NewMain, MainType
<1>7. SessionOK'
  BY <1>3, <1>6 DEF MessageInv, SessionOK
<1>8. QED
  BY <1>1, <1>5, <1>7, NoMessages

(* A logout, or the loss of the connection, ends whatever was under way.   *)
LEMMA LogoutSucceedsKeeps ==
  ASSUME MessageInv, LogoutSucceeds, issued' = issued, running' = running
  PROVE  MessageInv'
<1>1. LinkTypeOK(Arguments, Values)' /\ LinkInv' /\ NothingWaits
  BY ArrivesAndEndsAllKeeps DEF MessageInv, LogoutSucceeds
<1>2. SessionOK'
  BY DEF MessageInv, SessionOK, LogoutSucceeds
<1>3. QED
  BY <1>1, <1>2, NoMessages DEF NothingWaits

(* A broken connection ends the session and orphans what was under way.    *)
LEMMA DisconnectKeeps ==
  ASSUME MessageInv, NEW n \in 0..Len(calls), Disconnect(n) PROVE MessageInv'
<1>1. LinkTypeOK(Arguments, Values)' /\ LinkInv' /\ NothingWaits
  BY BreaksKeeps DEF MessageInv, Disconnect
<1>2. token' = 0 /\ issued' = issued /\ running' = running
  BY DEF Disconnect, auth, service
<1>3. SessionOK'
  BY <1>2 DEF MessageInv, SessionOK
<1>4. QED
  BY <1>1, <1>3, NoMessages DEF NothingWaits

(* Any other answer, and a timeout, ends at most its own wait.             *)
LEMMA AnsweredKeeps ==
  ASSUME WindowInv, MessageInv, NEW a, a = Head(answers), Arrives, token' = token,
         Answered(a) \/ UNCHANGED main, issued' = issued, running' = running
  PROVE  MessageInv'
<1>1. /\ LinkTypeOK(Arguments, Values)' /\ LinkInv' /\ UNCHANGED calls
      /\ Live(answers)' \subseteq Live(answers)
  BY ArrivesKeeps DEF MessageInv, LiveBut
<1>2. Live(calls)' = Live(calls)
  BY <1>1 DEF Live
<1>3. main'.open = main.open
  <2>1. [main EXCEPT !.summary = FALSE, !.refreshOn = TRUE].open = main.open
    BY DEF WindowInv, MainOK, MainType
  <2>2. \/ UNCHANGED main
        \/ \E R : main' = MainFailed(main, R)
        \/ main' = [main EXCEPT !.summary = FALSE, !.refreshOn = TRUE]
    <3>1. CASE UNCHANGED main
      BY <3>1
    <3>2. CASE Answered(a) /\ a.ok
      BY <3>2 DEF Answered
    <3>3. CASE Answered(a) /\ ~a.ok
      BY <3>3 DEF Answered, Failed
    <3>4. QED
      BY <3>1, <3>2, <3>3
  <2>3. QED
    BY <2>1, <2>2, MainStaysOpen
<1>4. SessionStays /\ running' \in BOOLEAN
  BY <1>3 DEF SessionStays, MessageInv, SessionOK
<1>5. QED
  BY <1>1, <1>2, <1>4, FewerMessages

(* An answer that arrives, wanted or not.                                  *)
LEMMA ReceiveKeeps == ASSUME WindowInv, MessageInv, Receive PROVE MessageInv'
<1>1. PICK a : a = Head(answers)
  OBVIOUS
<1>2. issued' = issued /\ running' = running
  BY DEF Receive, auth, service
<1>3. CASE ~a.live
  <2>1. Arrives /\ UNCHANGED <<token, main>>
    BY <1>1, <1>3 DEF Receive
  <2>2. QED
    BY <1>1, <1>2, <2>1, AnsweredKeeps
<1>4. CASE a.live /\ a.ok /\ a.route = "login"
  <2>1. LoginSucceeds(a)
    BY <1>1, <1>4 DEF Receive
  <2>2. QED
    BY <1>1, <1>2, <1>4, <2>1, LoginSucceedsKeeps
<1>5. CASE a.live /\ a.ok /\ a.route = "logout"
  <2>1. LogoutSucceeds
    BY <1>1, <1>5 DEF Receive
  <2>2. QED
    BY <1>2, <2>1, LogoutSucceedsKeeps
<1>6. CASE a.live /\ ~(a.ok /\ a.route \in {"login", "logout"})
  <2>1. Answered(a)
    BY <1>1, <1>6 DEF Receive
  <2>2. Arrives /\ token' = token
    BY <2>1 DEF Answered
  <2>3. QED
    BY <1>1, <1>2, <2>1, <2>2, AnsweredKeeps
<1>7. QED
  BY <1>3, <1>4, <1>5, <1>6

(* A request that times out: its answer will find nobody waiting.          *)
LEMMA ExpireKeeps == ASSUME WindowInv, MessageInv, NEW r, Expire(r) PROVE MessageInv'
<1>1. /\ GivesUp(r) /\ token' = token /\ issued' = issued /\ running' = running
      /\ main' = MainFailed(main, {r})
  BY DEF Expire, Failed, auth, service
<1>2. /\ LinkTypeOK(Arguments, Values)' /\ LinkInv'
      /\ Live(calls)' \subseteq Live(calls) /\ Live(answers)' \subseteq Live(answers)
  BY <1>1, GivesUpKeeps DEF MessageInv, LiveBut
<1>3. SessionStays /\ running' \in BOOLEAN
  BY <1>1, MainStaysOpen DEF SessionStays, MessageInv, SessionOK
<1>4. QED
  BY <1>1, <1>2, <1>3, FewerMessages

(* The invariants are inductive together.                                  *)
ProgramInv == WindowInv /\ MessageInv

(* Both halves of the invariant are kept by every step.                    *)
LEMMA ProgramNext == ProgramInv /\ [Next]_vars => ProgramInv'
<1> SUFFICES ASSUME WindowInv, MessageInv, [Next]_vars PROVE WindowInv' /\ MessageInv'
  BY DEF ProgramInv
<1>1. WindowInv'
  BY WindowNext DEF MessageInv, LinkTypeOK
<1>2. MessageInv'
  <2>1. CASE ServeLogin \/ ServeSession \/ ServeBadly
    BY <2>1, ServeLoginKeeps, ServeSessionKeeps, ServeBadlyKeeps
  <2>2. CASE \/ LockLapses \/ SessionLapses \/ ServiceStep \/ ServerStarts \/ ServerFails
             \/ LoginTimer \/ UNCHANGED vars
    BY <2>2, OwnEventsKeep
  <2>3. CASE Connects \/ \E password \in {"right", "wrong"} : Submit(password)
    BY <2>3, ConnectsKeeps, SubmitKeeps
  <2>4. CASE SendNext \/ Opened \/ RefreshClicked \/ LogoutDialog \/ RunClicked \/ Poll \/ Switch
    BY <2>4, MainStepsKeep
  <2>5. CASE Receive
    BY <2>5, ReceiveKeeps
  <2>6. CASE \E r \in ProgramRoutes : Expire(r)
    BY <2>6, ExpireKeeps
  <2>7. CASE \E n \in 0..Len(calls) : Disconnect(n)
    BY <2>7, DisconnectKeeps
  <2>8. QED
    BY <2>1, <2>2, <2>3, <2>4, <2>5, <2>6, <2>7 DEF Next
<1>3. QED
  BY <1>1, <1>2

-----------------------------------------------------------------------------
(* The inductive invariant holds of every behaviour.                       *)
THEOREM ProgramInvariantHolds == Spec => []ProgramInv
<1>1. Init => ProgramInv
  BY WindowInit, MessageInit DEF ProgramInv
<1>2. QED
  BY <1>1, ProgramNext, PTL DEF Spec

(* What a window of the administrator's program shows as waiting comes to  *)
(* an end: the facade, a timer or the poll watches it.                     *)
THEOREM ProgramWaitsAreWatched == Spec => []WaitsAreWatched
<1>1. WindowInv => WaitsAreWatched
  <2> SUFFICES ASSUME WindowInv PROVE WaitsAreWatched
    OBVIOUS
  <2>1. ASSUME NEW p \in Panels, reports.panel[p] = "loading"
        PROVE  \E r \in Awaited : r \in ReportRoutes /\ Panel(r) = p
    <3>1. /\ "figures" \in ReportRoutes /\ Panel("figures") = "figures"
          /\ Trend(reports.range) \in ReportRoutes
          /\ Panel(Trend(reports.range)) = "trend"
      BY DEF ReportRoutes, Trends, Trend, Panel
    <3>2. QED
      BY <2>1, <3>1 DEF WindowInv, ReportsOK, Panels
  <2>2. QED
    BY <2>1 DEF WindowInv, LoginOK, MainOK, PredictOK, WaitsAreWatched, Awaited
<1>2. ProgramInv => WaitsAreWatched
  BY <1>1 DEF ProgramInv
<1>3. QED
  BY <1>2, ProgramInvariantHolds, PTL

(* No answer of an earlier session of the administrator reaches the main   *)
(* window of a later one.                                                  *)
THEOREM ProgramAnswersItsSession == Spec => []AnswersAreForTheSession
<1>1. MessageInv => AnswersAreForTheSession
  BY DEF MessageInv, Belongs, AnswersAreForTheSession, Live
<1>2. ProgramInv => AnswersAreForTheSession
  BY <1>1 DEF ProgramInv
<1>3. QED
  BY <1>2, ProgramInvariantHolds, PTL

(* The chart shows the range that is selected, or nothing.                 *)
THEOREM ProgramChartFits == Spec => []ChartFitsRange
<1>1. ProgramInv => ChartFitsRange
  BY DEF ProgramInv, WindowInv, ReportsOK
<1>2. QED
  BY <1>1, ProgramInvariantHolds, PTL
-----------------------------------------------------------------------------
(* The start of the server: the database file.                             *)

Current == {"Seed", "SeedUpgrade", "Seeding", "Ready"}
Old == {"Backup", "Begin", "Upgrade", "Migrating"}

\* Every order of db is of the user and the charger of the record it names, and
\* unless it was running there it is not running.
Traced(db) ==
  \A o \in db.orders :
    o.key[1] = "charging_record" =>
      \E r \in db.records :
        /\ r.id = o.key[2] /\ o.user = r.user /\ o.charger = r.charger
        /\ o.active => r.active

Complete(db) ==
  \A r \in db.records : \E o \in db.orders : o.key = <<"charging_record", r.id>>

\* the orders the first database has, and those its records stand for
Rows(first) == Rebuilt(first.orders) \cup Imported(first)

\* o is a row, perhaps ended since
IsLater(o, rows) ==
  \E n \in rows :
    /\ o.key = n.key /\ o.user = n.user /\ o.charger = n.charger
    /\ o.active => n.active

\* nobody need decide whose these rows are and which of them is the active one
Fits(first) ==
  /\ Linked(first.orders \cup first.records, first)
  /\ OneActive(Rows(first))

\* What every copy of the database has in common with the first one.
Sourced(db, first) ==
  /\ db \in Database
  /\ db.records = first.records
  /\ DOMAIN db.users = DOMAIN first.users
  /\ (db.drift = "unknown") <=> (first.drift = "unknown")
  /\ OneKey(db.orders) /\ Traced(db)
  /\ \A o \in db.orders : IsLater(o, Rows(first))
  /\ db.version < 6 => db.orders = first.orders
  /\ db.version >= 6 => Complete(db) /\ (first.version < 6 => Fits(first))
  /\ Orphans(db) => first.version \in 1..5

\* a holds everything that counts in b
Keeps(a, b) ==
  /\ \A i \in DOMAIN b.users :
       b.users[i].phone \in Mobiles => a.users[i].phone = b.users[i].phone
  /\ \A o \in b.orders : \E n \in a.orders :
       /\ n.key = o.key /\ n.user = o.user /\ n.charger = o.charger
       /\ n.active => o.active
  /\ b.reviewed => a.reviewed

StartsRight(p) ==
  /\ (writer = p) <=> pc[p] \in {"Migrating", "Seeding"}
  /\ pc[p] \in Current => ~Contradictory(original)
  /\ pc[p] \in Current \ {"Seeding"} => file.version = LatestVersion
  /\ pc[p] \in Old =>
       /\ from[p] \in 1..LatestVersion
       /\ from[p] = LatestVersion \/ original.version \in 1..from[p]
       /\ pc[p] # "Migrating" => from[p] <= file.version
       /\ file.version \in 1..LatestVersion
  /\ pc[p] \in Old \ {"Backup"} =>
       file.version = LatestVersion \/ original \in backups
  /\ pc[p] = "SeedUpgrade" => ~HasCatalog(view[p])
  /\ pc[p] = "Migrating" =>
       /\ view[p].version \in from[p]..LatestVersion
       /\ view[p].drift # "known"
       /\ view[p].stations = file.stations /\ view[p].demo = file.demo
       /\ view[p].taken = file.taken
  /\ pc[p] = "Seeding" => /\ view[p].version = LatestVersion /\ ~view[p].taken
                          /\ file.version \in {0, LatestVersion} /\ ~file.taken
  /\ pc[p] \in {"Migrating", "Seeding"} => Keeps(view[p], file)
  /\ pc[p] = "Refused" =>
       \/ Contradictory(original)
       \/ ~HasCatalog(file) /\ ~Seedable(file)
       \/ TookOrdersAway(view[p])

\* The inductive invariant of the start.
StartupInv ==
  /\ original \in Databases
  /\ pc \in [Starters -> Working \cup Ended]
  /\ from \in [Starters -> Nat]
  /\ view \in [Starters -> Database]
  /\ writer \in Starters \cup {NoOne}
  /\ Sourced(file, original)
  /\ \/ file = original
     \/ file.version = LatestVersion /\ ~Contradictory(original)
  /\ \A p \in Starters : Sourced(view[p], original) /\ StartsRight(p)
-----------------------------------------------------------------------------
(* The names the first migration gives.                                    *)

Names == STRING \X Nat

\* f tells the names that the first n users get
IsNaming(f, users) ==
  \A n \in 0..Len(users) : f[n] = IF n = 0 THEN <<>> ELSE Named(f[n - 1], users[n])

\* n names, no two alike
AreNames(names, n) ==
  /\ names \in Seq(Names)
  /\ Len(names) = n
  /\ \A i, j \in 1..n : names[i] = names[j] => i = j

(* A set of numbers that is not empty has a least one.                     *)
LEMMA LeastNumber ==
  ASSUME NEW T, T \subseteq Nat, T # {}
  PROVE  \E t \in T : \A u \in T : t <= u
<1>1. PICK t \in T : \A u \in T : ~ (<<u, t>> \in OpToRel(<, Nat))
  BY NatLessThanWellFounded, WFMin
<1>2. ASSUME NEW u \in T PROVE t <= u
  <2>1. t \in Nat /\ u \in Nat
    OBVIOUS
  <2>2. ~ (u < t)
    BY <1>1, <2>1 DEF OpToRel
  <2>3. QED
    BY <2>1, <2>2
<1>3. QED
  BY <1>2

(* Among one more number than there are names one gives a free name.       *)
LEMMA SomeNameIsFree ==
  ASSUME NEW t, NEW k \in Nat, NEW used \in Seq(Names)
  PROVE  \E n \in k..(k + Len(used)) : \A i \in DOMAIN used : used[i] # <<t, n>>
<1> DEFINE S == k..(k + Len(used))
           f == [n \in S |-> CHOOSE i \in 1..Len(used) : used[i] = <<t, n>>]
<1>0. Len(used) \in Nat /\ DOMAIN used = 1..Len(used)
  OBVIOUS
<1> SUFFICES ASSUME \A n \in S : \E i \in 1..Len(used) : used[i] = <<t, n>>
             PROVE  FALSE
  BY <1>0
<1>1. f \in [S -> 1..Len(used)] /\ \A n \in S : used[f[n]] = <<t, n>>
  OBVIOUS
<1>2. IsFiniteSet(S) /\ Cardinality(S) = Len(used) + 1
  <2>1. k \in Int /\ k + Len(used) \in Int
    BY <1>0
  <2>2. IsFiniteSet(S) /\ Cardinality(S) = IF k > k + Len(used) THEN 0 ELSE (k + Len(used)) - k + 1
    BY <2>1, FS_Interval
  <2>3. QED
    BY <1>0, <2>2
<1>3. IsFiniteSet(1..Len(used)) /\ Cardinality(1..Len(used)) = Len(used)
  <2>1. 1 \in Int /\ Len(used) \in Int
    BY <1>0
  <2>2. /\ IsFiniteSet(1..Len(used))
        /\ Cardinality(1..Len(used)) = IF 1 > Len(used) THEN 0 ELSE Len(used) - 1 + 1
    BY <2>1, FS_Interval
  <2>3. QED
    BY <1>0, <2>2
<1> HIDE DEF S, f
<1>4. PICK m, n \in S : m # n /\ f[m] = f[n]
  <2>1. Cardinality(1..Len(used)) < Cardinality(S)
    BY <1>0, <1>2, <1>3
  <2>2. QED
    BY <1>1, <1>2, <1>3, <2>1, FS_PigeonHole
<1>5. <<t, m>> = <<t, n>>
  BY <1>1, <1>4
<1>6. QED
  BY <1>4, <1>5

(* FreeName finds a name that is free.                                     *)
LEMMA FreeNameIsFree ==
  ASSUME NEW name \in Names, NEW used \in Seq(Names)
  PROVE  /\ FreeName(name, used) \in Names
         /\ \A i \in DOMAIN used : used[i] # FreeName(name, used)
<1> DEFINE S == name[2]..(name[2] + Len(used))
           Free(n) == \A i \in DOMAIN used : used[i] # <<name[1], n>>
           T == {n \in S : Free(n)}
           IsFirst(n) == /\ Free(n)
                         /\ \A m \in name[2]..(n - 1) :
                              \E i \in DOMAIN used : used[i] = <<name[1], m>>
           first == CHOOSE n \in S : IsFirst(n)
<1>1. name[1] \in STRING /\ name[2] \in Nat /\ Len(used) \in Nat
  BY DEF Names
<1>2. T \subseteq Nat /\ T # {}
  <2>1. \E n \in S : Free(n)
    BY <1>1, SomeNameIsFree
  <2>2. S \subseteq Nat
    BY <1>1
  <2>3. QED
    BY <2>1, <2>2
<1>3. PICK n \in T : \A m \in T : n <= m
  BY <1>2, LeastNumber
<1>4. IsFirst(n)
  <2>1. ASSUME NEW m \in name[2]..(n - 1) PROVE ~Free(m)
    <3>1. m \in S /\ ~ (n <= m) /\ n \in Nat
      BY <1>1, <1>2
    <3>2. QED
      BY <1>3, <3>1
  <2>2. QED
    BY <2>1
<1>5. first \in S /\ IsFirst(first)
  BY <1>4
<1>6. FreeName(name, used) = <<name[1], first>>
  BY DEF FreeName
<1>7. first \in Nat /\ \A i \in DOMAIN used : used[i] # <<name[1], first>>
  BY <1>1, <1>5
<1> HIDE DEF first
<1>8. <<name[1], first>> \in Names
  BY <1>1, <1>7 DEF Names
<1>9. QED
  BY <1>6, <1>7, <1>8

(* One more user gets one more name.                                       *)
LEMMA NamedAddsAName ==
  ASSUME NEW names, NEW n \in Nat, AreNames(names, n), NEW account \in Account,
         LegacyName[n + 1] \in STRING
  PROVE  AreNames(Named(names, account), n + 1)
<1> DEFINE own  == IF account.name # NoName THEN account.name ELSE <<account.phone, 0>>
           base == IF own = NoName \/ \E i \in DOMAIN names : names[i] = own
                   THEN <<LegacyName[n + 1], 0>> ELSE own
           new  == FreeName(base, names)
<1>1. names \in Seq(Names) /\ Len(names) = n
  BY DEF AreNames
<1>2. base \in Names
  <2>1. account.name \in STRING \X Nat /\ account.phone \in STRING \cup {""}
    BY DEF Account
  <2>2. own = NoName \/ own \in STRING \X Nat
    BY <2>1 DEF NoName
  <2> HIDE DEF own
  <2>3. QED
    BY <2>2 DEF Names
<1> HIDE DEF base
<1>3. new \in Names /\ \A i \in 1..n : names[i] # new
  BY <1>1, <1>2, FreeNameIsFree
<1>4. Named(names, account) = Append(names, new)
  BY <1>1 DEF Named, base
<1> HIDE DEF new
<1>5. \A i \in 1..(n + 1) : Append(names, new)[i] = IF i = n + 1 THEN new ELSE names[i]
  BY <1>1
<1>6. QED
  <2>1. Append(names, new) \in Seq(Names) /\ Len(Append(names, new)) = n + 1
    BY <1>1, <1>3
  <2>2. ASSUME NEW i \in 1..(n + 1), NEW j \in 1..(n + 1),
               Append(names, new)[i] = Append(names, new)[j]
        PROVE  i = j
    <3>1. CASE i = n + 1 \/ j = n + 1
      BY <1>3, <1>5, <2>2, <3>1
    <3>2. CASE i \in 1..n /\ j \in 1..n
      BY <1>5, <2>2, <3>2 DEF AreNames
    <3>3. QED
      BY <3>1, <3>2
  <2>3. QED
    BY <1>4, <2>1, <2>2 DEF AreNames

(* The names of the first users can be given,                              *)
LEMMA NamingExists ==
  ASSUME NEW users \in Seq(Account)
  PROVE  \E f : f = [n \in 0..Len(users) |-> IF n = 0 THEN <<>> ELSE Named(f[n - 1], users[n])]
<1> DEFINE Upto(f, m) == \A n \in 0..m : f[n] = IF n = 0 THEN <<>> ELSE Named(f[n - 1], users[n])
           T == {m \in 0..Len(users) : ~ \E f : Upto(f, m)}
<1>0. Len(users) \in Nat
  OBVIOUS
<1>1. T = {}
  <2> SUFFICES ASSUME T # {} PROVE FALSE
    OBVIOUS
  <2>1. PICK m \in T : \A u \in T : m <= u
    <3>1. T \subseteq Nat
      BY <1>0
    <3> HIDE DEF T
    <3>2. QED
      BY <3>1, LeastNumber
  <2>2. CASE m = 0
    <3> DEFINE f == [n \in 0..0 |-> <<>>]
    <3>1. Upto(f, 0)
      OBVIOUS
    <3>2. QED
      BY <2>1, <2>2, <3>1
  <2>3. CASE m # 0
    <3>1. m - 1 \in 0..Len(users) /\ ~ (m <= m - 1) /\ m \in Nat
      BY <1>0, <2>1, <2>3
    <3>2. PICK g : Upto(g, m - 1)
      BY <2>1, <3>1
    <3> DEFINE f == [n \in 0..m |-> IF n = m THEN Named(g[m - 1], users[m]) ELSE g[n]]
    <3>3. ASSUME NEW n \in 0..m
          PROVE  f[n] = IF n = 0 THEN <<>> ELSE Named(f[n - 1], users[n])
      <4>1. CASE n = m
        <5>1. f[n - 1] = g[m - 1]
          BY <3>1, <4>1
        <5>2. QED
          BY <2>3, <4>1, <5>1
      <4>2. CASE n # m /\ n # 0
        <5>1. n \in 0..(m - 1) /\ n - 1 \in 0..m /\ n - 1 # m
          BY <3>1, <4>2
        <5>2. QED
          BY <3>2, <4>2, <5>1
      <4>3. CASE n # m /\ n = 0
        BY <3>1, <3>2, <4>3
      <4>4. QED
        BY <4>1, <4>2, <4>3
    <3>4. QED
      BY <2>1, <3>3
  <2>4. QED
    BY <2>2, <2>3
<1>2. PICK k : Upto(k, Len(users))
  BY <1>0, <1>1
<1> DEFINE f == [n \in 0..Len(users) |-> k[n]]
<1>3. ASSUME NEW n \in 0..Len(users)
      PROVE  f[n] = IF n = 0 THEN <<>> ELSE Named(f[n - 1], users[n])
  <2>1. n # 0 => n - 1 \in 0..Len(users)
    BY <1>0
  <2>2. QED
    BY <1>2, <2>1
<1>4. QED
  BY <1>3

(* and no two are alike.                                                   *)
LEMMA RenamedIsDistinct ==
  ASSUME NEW users \in Seq(Account), \A i \in DOMAIN users : LegacyName[i] \in STRING
  PROVE  /\ Renamed(users) \in Seq(Account)
         /\ DOMAIN Renamed(users) = DOMAIN users
         /\ \A i \in DOMAIN users : Renamed(users)[i].phone = users[i].phone
         /\ DistinctNames(Renamed(users))
<1> DEFINE N == Len(users)
           f == CHOOSE f : f = [n \in 0..N |-> IF n = 0 THEN <<>> ELSE Named(f[n - 1], users[n])]
<1>0. N \in Nat /\ DOMAIN users = 1..N
  OBVIOUS
<1>1. f = [n \in 0..N |-> IF n = 0 THEN <<>> ELSE Named(f[n - 1], users[n])]
  BY NamingExists
<1>2. Renamed(users) = [i \in DOMAIN users |-> [users[i] EXCEPT !.name = f[N][i]]]
  BY DEF Renamed
<1> HIDE DEF f
<1>3. IsNaming(f, users)
  BY <1>1 DEF IsNaming
<1> DEFINE T == {n \in 0..N : ~AreNames(f[n], n)}
<1>4. T = {}
  <2> SUFFICES ASSUME T # {} PROVE FALSE
    OBVIOUS
  <2>1. PICK n \in T : \A m \in T : n <= m
    <3>1. T \subseteq Nat
      BY <1>0
    <3> HIDE DEF T
    <3>2. QED
      BY <3>1, LeastNumber
  <2>2. CASE n = 0
    <3>1. f[0] = <<>>
      BY <1>0, <1>3 DEF IsNaming
    <3>2. AreNames(f[0], 0)
      BY <3>1 DEF AreNames
    <3>3. QED
      BY <2>1, <2>2, <3>2
  <2>3. CASE n # 0
    <3>1. n - 1 \in 0..N /\ ~ (n <= n - 1) /\ n \in 1..N /\ n - 1 \in Nat /\ (n - 1) + 1 = n
      BY <1>0, <2>1, <2>3
    <3>2. AreNames(f[n - 1], n - 1)
      BY <2>1, <3>1
    <3>3. f[n] = Named(f[n - 1], users[n])
      BY <1>3, <2>3, <3>1 DEF IsNaming
    <3>4. AreNames(f[n], n)
      BY <1>0, <3>1, <3>2, <3>3, NamedAddsAName
    <3>5. QED
      BY <2>1, <3>4
  <2>4. QED
    BY <2>2, <2>3
<1>5. AreNames(f[N], N)
  BY <1>0, <1>4
<1>6. ASSUME NEW i \in 1..N
      PROVE  /\ Renamed(users)[i] = [users[i] EXCEPT !.name = f[N][i]]
             /\ users[i] \in Account /\ f[N][i] \in Names
  BY <1>0, <1>2, <1>5 DEF AreNames
<1>7. ASSUME NEW i \in 1..N
      PROVE  /\ Renamed(users)[i] \in Account /\ Renamed(users)[i].name = f[N][i]
             /\ Renamed(users)[i].phone = users[i].phone
  BY <1>6 DEF Account, Names
<1>8. Renamed(users) \in Seq(Account) /\ DOMAIN Renamed(users) = 1..N
  BY <1>0, <1>2, <1>7
<1>9. QED
  BY <1>0, <1>5, <1>7, <1>8 DEF DistinctNames, AreNames
-----------------------------------------------------------------------------
(* What the steps of the migration leave of the rows.                      *)

(* The rebuild of the order table changes no row.                          *)
LEMMA RebuiltIsSame == ASSUME NEW orders, orders \subseteq OrderRow PROVE Rebuilt(orders) = orders
<1>1. \A o \in orders : [o EXCEPT !.key = o.key] = o
  BY DEF OrderRow
<1>2. QED
  BY <1>1 DEF Rebuilt

(* An imported row is new, and stands for a record.                        *)
LEMMA ImportedRow ==
  ASSUME NEW db \in Database, NEW o \in Imported(db)
  PROVE  /\ o \in OrderRow /\ o.key[1] = "charging_record"
         /\ \E r \in db.records :
              /\ o.key = <<"charging_record", r.id>> /\ r.id = o.key[2]
              /\ o.user = r.user /\ o.charger = r.charger /\ o.active = r.active
         /\ \A n \in db.orders : n.key # o.key
<1>1. PICK r \in db.records :
        /\ o = [key |-> <<"charging_record", r.id>>, user |-> r.user,
                charger |-> r.charger, active |-> r.active]
        /\ ~\E n \in db.orders : n.key = <<"charging_record", r.id>>
  BY DEF Imported
<1>2. r \in LegacyRecord
  BY DEF Database
<1>3. /\ o \in OrderRow /\ o.key = <<"charging_record", r.id>>
      /\ o.key[1] = "charging_record" /\ o.key[2] = r.id
      /\ o.user = r.user /\ o.charger = r.charger /\ o.active = r.active
  BY <1>1, <1>2 DEF LegacyRecord, OrderRow
<1>4. QED
  BY <1>1, <1>3

(* A record that no order names has such a row.                            *)
LEMMA RecordHasRow ==
  ASSUME NEW db \in Database, NEW r \in db.records,
         \A o \in db.orders : o.key # <<"charging_record", r.id>>
  PROVE  \E o \in Imported(db) :
           /\ o.key = <<"charging_record", r.id>>
           /\ o.user = r.user /\ o.charger = r.charger /\ o.active = r.active
<1> DEFINE o == [key |-> <<"charging_record", r.id>>, user |-> r.user,
                 charger |-> r.charger, active |-> r.active]
<1>1. o \in Imported(db)
  BY DEF Imported
<1>2. /\ o.key = <<"charging_record", r.id>>
      /\ o.user = r.user /\ o.charger = r.charger /\ o.active = r.active
  OBVIOUS
<1> HIDE DEF o
<1>3. QED
  BY <1>1, <1>2

(* The first database is its own source.                                   *)
LEMMA FirstIsSourced == ASSUME NEW db \in Databases PROVE Sourced(db, db)
<1>1. /\ db \in Database /\ OneKey(db.orders)
      /\ \A r, s \in db.records : r.id = s.id => r = s
      /\ db.version = 0 => db.records = {} /\ db.orders = {}
      /\ db.version \in 1..5 => \A o \in db.orders : o.key[1] = "charging_order"
      /\ db.version >= 6 => AllImported(db)
      /\ ~Orphans(db)
  BY DatabasesAssumption DEF Orphans
<1>2. db.version \in Nat /\ db.orders \subseteq OrderRow /\ db.records \subseteq LegacyRecord
  BY <1>1 DEF Database
<1>3. \A o \in db.orders : IsLater(o, Rows(db))
  BY <1>2, RebuiltIsSame DEF IsLater, Rows
<1>4. CASE db.version >= 6
  <2>1. Complete(db)
    BY <1>1, <1>4 DEF AllImported, Complete
  <2>2. ASSUME NEW o \in db.orders, o.key[1] = "charging_record"
        PROVE  \E r \in db.records :
                 /\ r.id = o.key[2] /\ o.user = r.user /\ o.charger = r.charger
                 /\ o.active => r.active
    <3>1. PICK r \in db.records : r.id = o.key[2]
      BY <1>1, <1>4, <2>2 DEF AllImported
    <3>2. PICK n \in db.orders :
            /\ n.key = <<"charging_record", r.id>> /\ n.user = r.user /\ n.charger = r.charger
            /\ n.active => r.active
      BY <1>1, <1>4 DEF AllImported
    <3>3. o.key = n.key
      BY <1>2, <2>2, <3>1, <3>2 DEF OrderRow
    <3>4. QED
      BY <1>1, <3>1, <3>2, <3>3 DEF OneKey
  <2>3. QED
    BY <1>1, <1>2, <1>3, <1>4, <2>1, <2>2 DEF Sourced, Traced
<1>5. CASE db.version = 0
  BY <1>1, <1>3, <1>5 DEF Sourced, Traced
<1>6. CASE db.version \in 1..5
  BY <1>1, <1>3, <1>6 DEF Sourced, Traced
<1>7. QED
  BY <1>2, <1>4, <1>5, <1>6

(* A change that concerns no record, account or order leaves the source.   *)
LEMMA SameRowsAreSourced ==
  ASSUME NEW first, NEW db, Sourced(db, first), NEW e \in Database,
         e.records = db.records, DOMAIN e.users = DOMAIN db.users, e.orders = db.orders,
         (e.drift = "unknown") <=> (db.drift = "unknown"),
         e.version >= 6 <=> db.version >= 6, Orphans(e) => Orphans(db)
  PROVE  Sourced(e, first)
<1>1. e.version \in Nat /\ db.version \in Nat
  BY DEF Sourced, Database
<1>2. Traced(e) /\ (Complete(db) => Complete(e))
  BY DEF Sourced, Traced, Complete
<1>3. QED
  BY <1>1, <1>2 DEF Sourced

(* Nor does the end of an order, once the orders are complete.             *)
LEMMA SettledIsSourced ==
  ASSUME NEW first, NEW db, Sourced(db, first), db.version >= 6, NEW o \in db.orders,
         NEW e, e = [db EXCEPT !.orders = (@ \ {o}) \cup {[o EXCEPT !.active = FALSE]}]
  PROVE  Sourced(e, first) /\ Keeps(e, db)
<1> DEFINE ended == [o EXCEPT !.active = FALSE]
<1>1. db \in Database /\ db.orders \subseteq OrderRow /\ db.version \in Nat
  BY DEF Sourced, Database
<1>2. /\ ended \in OrderRow /\ ended.key = o.key /\ ended.user = o.user
      /\ ended.charger = o.charger /\ ~ended.active
  BY <1>1 DEF OrderRow
<1> HIDE DEF ended
<1>3. /\ e \in Database /\ e.records = db.records /\ e.users = db.users /\ e.drift = db.drift
      /\ e.version = db.version /\ e.orders = (db.orders \ {o}) \cup {ended}
      /\ e.reviews = db.reviews /\ e.reviewed = db.reviewed
  BY <1>1, <1>2 DEF Database, ended
<1>4. OneKey(e.orders)
  BY <1>2, <1>3 DEF Sourced, OneKey
<1>5. Traced(e)
  <2>1. ASSUME NEW n \in e.orders, n.key[1] = "charging_record"
        PROVE  \E r \in e.records : /\ r.id = n.key[2] /\ n.user = r.user
                                    /\ n.charger = r.charger
                                    /\ n.active => r.active
    <3>1. PICK m \in db.orders : /\ m.key = n.key /\ m.user = n.user /\ m.charger = n.charger
                                 /\ n.active => m.active
      BY <1>2, <1>3
    <3>2. PICK r \in db.records : /\ r.id = m.key[2] /\ m.user = r.user
                                  /\ m.charger = r.charger
                                  /\ m.active => r.active
      BY <2>1, <3>1 DEF Sourced, Traced
    <3>3. QED
      BY <1>3, <3>1, <3>2
  <2>2. QED
    BY <2>1 DEF Traced
<1>6. \A n \in e.orders : IsLater(n, Rows(first))
  <2>1. ASSUME NEW n \in e.orders PROVE IsLater(n, Rows(first))
    <3>1. PICK m \in db.orders : /\ m.key = n.key /\ m.user = n.user /\ m.charger = n.charger
                                 /\ n.active => m.active
      BY <1>2, <1>3
    <3>2. IsLater(m, Rows(first))
      BY DEF Sourced
    <3>3. QED
      BY <3>1, <3>2 DEF IsLater
  <2>2. QED
    BY <2>1
<1>7. Complete(e)
  BY <1>2, <1>3 DEF Sourced, Complete
<1>8. Keeps(e, db)
  BY <1>2, <1>3 DEF Keeps
<1>9. QED
  BY <1>1, <1>3, <1>4, <1>5, <1>6, <1>7, <1>8 DEF Sourced, Orphans

(* Every database keeps itself.                                            *)
LEMMA KeepsItself ==
  ASSUME NEW a, NEW b, a.users = b.users, a.orders = b.orders, b.reviewed => a.reviewed
  PROVE  Keeps(a, b)
BY DEF Keeps

(* What is owned by somebody in the first database stays so.               *)
LEMMA OrdersStayLinked ==
  ASSUME NEW first \in Databases, NEW db, Sourced(db, first), db.version >= 6
  PROVE  Linked(db.orders, db)
<1>1. first \in Database /\ first.version \in Nat /\ first.orders \subseteq OrderRow
  BY DatabasesAssumption DEF Database
<1>2. Linked(Rows(first), first)
  <2>1. CASE first.version < 6
    <3>1. Linked(first.orders \cup first.records, first)
      BY <2>1 DEF Sourced, Fits
    <3>2. ASSUME NEW o \in Imported(first)
          PROVE  \E r \in first.records : o.user = r.user /\ o.charger = r.charger
      BY <1>1, ImportedRow
    <3>3. Rebuilt(first.orders) = first.orders
      BY <1>1, RebuiltIsSame
    <3>4. QED
      BY <3>1, <3>2, <3>3 DEF Linked, Rows
  <2>2. CASE first.version >= 6
    <3>1. Linked(first.orders, first) /\ AllImported(first)
      BY <2>2, DatabasesAssumption
    <3>2. Imported(first) = {}
      BY <3>1 DEF AllImported, Imported
    <3>3. QED
      BY <1>1, <3>1, <3>2, RebuiltIsSame DEF Rows
  <2>3. QED
    BY <1>1, <2>1, <2>2
<1>3. ASSUME NEW o \in db.orders PROVE o.user \in DOMAIN db.users /\ o.charger \in Chargers
  BY <1>2 DEF Sourced, IsLater, Linked
<1>4. QED
  BY <1>3 DEF Linked

(* No two of the rows of a rebuilt and completed table have the same key.  *)
LEMMA RowsHaveOneKey ==
  ASSUME NEW first \in Databases, NEW db, Sourced(db, first)
  PROVE  OneKey(Rebuilt(db.orders) \cup Imported(db))
<1>1. db \in Database /\ db.orders \subseteq OrderRow
  BY DEF Sourced, Database
<1>2. ASSUME NEW o \in Imported(db), NEW n \in Imported(db), o.key = n.key PROVE o = n
  <2>1. PICK r \in db.records : /\ r.id = o.key[2] /\ o.user = r.user
                                /\ o.charger = r.charger /\ o.active = r.active
    BY <1>1, ImportedRow
  <2>2. PICK s \in db.records : /\ s.id = n.key[2] /\ n.user = s.user
                                /\ n.charger = s.charger /\ n.active = s.active
    BY <1>1, ImportedRow
  <2>3. r = s
    BY <1>2, <2>1, <2>2, DatabasesAssumption DEF Sourced
  <2>4. o \in OrderRow /\ n \in OrderRow
    BY <1>1, ImportedRow
  <2>5. QED
    BY <1>2, <2>1, <2>2, <2>3, <2>4 DEF OrderRow
<1>3. \A o \in Imported(db), n \in db.orders : n.key # o.key
  BY <1>1, ImportedRow
<1>4. Rebuilt(db.orders) = db.orders
  BY <1>1, RebuiltIsSame
<1>5. QED
  BY <1>2, <1>3, <1>4 DEF Sourced, OneKey

(* The step to version 6 makes an order of every record.                   *)
LEMMA ImportIsSourced ==
  ASSUME NEW first \in Databases, first.version \in 1..5, NEW db, Sourced(db, first),
         Linked(db.orders \cup db.records, db),
         OneActive(Rebuilt(db.orders) \cup Imported(db)),
         NEW e \in Database, e.records = db.records, e.users = db.users, e.drift = db.drift,
         e.orders = Rebuilt(db.orders) \cup Imported(db), e.version >= 6,
         db.reviewed => e.reviewed
  PROVE  Sourced(e, first) /\ Keeps(e, db)
<1>1. /\ db \in Database /\ db.orders \subseteq OrderRow /\ e.version \in Nat
      /\ db.version \in Nat /\ first \in Database
  BY DatabasesAssumption DEF Sourced, Database
<1>2. e.orders = db.orders \cup Imported(db) /\ first.version < 6
  BY <1>1, RebuiltIsSame
<1>3. OneKey(e.orders)
  BY RowsHaveOneKey
<1>4. Traced(e)
  <2>1. ASSUME NEW o \in Imported(db)
        PROVE  \E r \in db.records : /\ r.id = o.key[2] /\ o.user = r.user
                                     /\ o.charger = r.charger
                                     /\ o.active => r.active
    BY <1>1, ImportedRow
  <2>2. QED
    BY <1>2, <2>1 DEF Sourced, Traced
<1>5. \A o \in e.orders : IsLater(o, Rows(first))
  <2>1. ASSUME NEW o \in Imported(db) PROVE IsLater(o, Rows(first))
    <3>1. PICK r \in first.records :
            /\ o.key = <<"charging_record", r.id>>
            /\ o.user = r.user /\ o.charger = r.charger /\ o.active = r.active
      BY <1>1, ImportedRow DEF Sourced
    <3>2. \A n \in first.orders : n.key[1] = "charging_order"
      BY DatabasesAssumption
    <3>3. \A n \in first.orders : n.key # <<"charging_record", r.id>>
      BY <3>2
    <3>4. PICK n \in Imported(first) :
            /\ n.key = <<"charging_record", r.id>>
            /\ n.user = r.user /\ n.charger = r.charger /\ n.active = r.active
      BY <1>1, <3>3, RecordHasRow
    <3>5. QED
      BY <3>1, <3>4 DEF IsLater, Rows
  <2>2. QED
    BY <1>2, <2>1 DEF Sourced
<1>6. Complete(e)
  <2>1. ASSUME NEW r \in db.records
        PROVE  \/ \E o \in db.orders : o.key = <<"charging_record", r.id>>
               \/ \E o \in Imported(db) : o.key = <<"charging_record", r.id>>
    BY <1>1, RecordHasRow
  <2>2. QED
    BY <1>2, <2>1 DEF Complete
<1>7. Fits(first)
  <2>1. CASE db.version >= 6
    BY <1>2, <2>1 DEF Sourced
  <2>2. CASE db.version < 6
    <3>1. /\ db.orders = first.orders /\ db.records = first.records
          /\ DOMAIN db.users = DOMAIN first.users
      BY <2>2 DEF Sourced
    <3>2. Imported(db) = Imported(first)
      BY <3>1 DEF Imported
    <3>3. QED
      BY <3>1, <3>2 DEF Fits, Rows, Linked
  <2>3. QED
    BY <1>1, <2>1, <2>2
<1>8. Keeps(e, db)
  BY <1>2 DEF Keeps
<1>9. QED
  BY <1>1, <1>3, <1>4, <1>5, <1>6, <1>7, <1>8 DEF Sourced

(* Whether rows of an old database fit shows in its records alone, and in   *)
(* what became of its orders.                                              *)
LEMMA RowsThatFit ==
  ASSUME NEW first \in Databases, first.version \in 1..5, Fits(first)
  PROVE  /\ OneActive(first.records)
         /\ \A db : Sourced(db, first) =>
              /\ Linked(db.orders \cup db.records, db)
              /\ OneActive(Rebuilt(db.orders) \cup Imported(db))
<1>1. first \in Database /\ first.orders \subseteq OrderRow
  BY DatabasesAssumption DEF Database
<1>2. ASSUME NEW r \in first.records
      PROVE  \E o \in Rows(first) :
               /\ o.key = <<"charging_record", r.id>>
               /\ o.user = r.user /\ o.charger = r.charger /\ o.active = r.active
  <2>1. \A n \in first.orders : n.key[1] = "charging_order"
    BY DatabasesAssumption
  <2>2. \A n \in first.orders : n.key # <<"charging_record", r.id>>
    BY <2>1
  <2>3. QED
    BY <1>1, <2>2, RecordHasRow DEF Rows
<1>3. OneActive(first.records)
  <2>1. ASSUME NEW r \in first.records, NEW s \in first.records, r.active, s.active,
               r.user = s.user \/ r.charger = s.charger
        PROVE  r = s
    <3>1. PICK o \in Rows(first) :
            /\ o.key = <<"charging_record", r.id>>
            /\ o.user = r.user /\ o.charger = r.charger /\ o.active = r.active
      BY <1>2
    <3>2. PICK n \in Rows(first) :
            /\ n.key = <<"charging_record", s.id>>
            /\ n.user = s.user /\ n.charger = s.charger /\ n.active = s.active
      BY <1>2
    <3>3. o = n
      BY <2>1, <3>1, <3>2 DEF Fits, OneActive
    <3>4. r.id = s.id
      BY <3>1, <3>2, <3>3
    <3>5. QED
      BY <3>4, DatabasesAssumption
  <2>2. QED
    BY <2>1 DEF OneActive
<1>4. ASSUME NEW db, Sourced(db, first)
      PROVE  /\ Linked(db.orders \cup db.records, db)
             /\ OneActive(Rebuilt(db.orders) \cup Imported(db))
  <2>1. /\ db \in Database /\ db.orders \subseteq OrderRow /\ db.records = first.records
        /\ DOMAIN db.users = DOMAIN first.users
    BY <1>4 DEF Sourced, Database
  <2>2. ASSUME NEW o \in Rebuilt(db.orders) \cup Imported(db) PROVE IsLater(o, Rows(first))
    <3>1. CASE o \in db.orders
      BY <1>4, <3>1 DEF Sourced
    <3>2. CASE o \in Imported(db)
      <4>1. PICK r \in first.records :
              /\ o.key = <<"charging_record", r.id>>
              /\ o.user = r.user /\ o.charger = r.charger /\ o.active = r.active
        BY <2>1, <3>2, ImportedRow
      <4>2. QED
        BY <1>2, <4>1 DEF IsLater
    <3>3. QED
      BY <2>1, <3>1, <3>2, RebuiltIsSame
  <2>3. ASSUME NEW o \in Rebuilt(db.orders) \cup Imported(db),
               NEW n \in Rebuilt(db.orders) \cup Imported(db),
               o.active, n.active, o.user = n.user \/ o.charger = n.charger
        PROVE  o = n
    <3>1. PICK r \in Rows(first) : /\ o.key = r.key /\ o.user = r.user
                                   /\ o.charger = r.charger /\ r.active
      BY <2>2, <2>3 DEF IsLater
    <3>2. PICK s \in Rows(first) : /\ n.key = s.key /\ n.user = s.user
                                   /\ n.charger = s.charger /\ s.active
      BY <2>2, <2>3 DEF IsLater
    <3>3. r = s
      BY <2>3, <3>1, <3>2 DEF Fits, OneActive
    <3>4. o.key = n.key
      BY <3>1, <3>2, <3>3
    <3>5. QED
      BY <1>4, <2>3, <3>4, RowsHaveOneKey DEF OneKey
  <2>4. \A r \in first.orders \cup first.records :
          r.user \in DOMAIN db.users /\ r.charger \in Chargers
    BY <2>1 DEF Fits, Linked
  <2>5. ASSUME NEW o \in db.orders PROVE o.user \in DOMAIN db.users /\ o.charger \in Chargers
    <3>1. PICK r \in Rows(first) : o.user = r.user /\ o.charger = r.charger
      BY <1>4 DEF Sourced, IsLater
    <3>2. \E s \in first.orders \cup first.records : r.user = s.user /\ r.charger = s.charger
      BY <1>1, RebuiltIsSame, ImportedRow DEF Rows
    <3>3. QED
      BY <2>4, <3>1, <3>2
  <2>6. QED
    BY <2>1, <2>3, <2>4, <2>5 DEF Linked, OneActive
<1>5. QED
  BY <1>3, <1>4
-----------------------------------------------------------------------------
(* The invariant of the start is inductive.                                *)

(* The recorded version changes nothing else.                              *)
LEMMA OnlyTheVersion ==
  ASSUME NEW db \in Database, NEW v \in Nat
  PROVE  /\ AtVersion(db, v) \in Database
         /\ AtVersion(db, v).version = IF v > db.version THEN v ELSE db.version
         /\ AtVersion(db, v).drift = db.drift
         /\ AtVersion(db, v).users = db.users
         /\ AtVersion(db, v).records = db.records
         /\ AtVersion(db, v).orders = db.orders
         /\ AtVersion(db, v).reviews = db.reviews
         /\ AtVersion(db, v).reviewed = db.reviewed
         /\ AtVersion(db, v).stations = db.stations
         /\ AtVersion(db, v).demo = db.demo
         /\ AtVersion(db, v).taken = db.taken
BY DEF AtVersion, Database

(* What keeps what keeps a database keeps the database.                    *)
LEMMA KeepsOn ==
  ASSUME NEW a, NEW b, NEW c, Keeps(a, b), Keeps(b, c), DOMAIN b.users = DOMAIN c.users
  PROVE  Keeps(a, c)
<1>1. ASSUME NEW i \in DOMAIN c.users, c.users[i].phone \in Mobiles
      PROVE  a.users[i].phone = c.users[i].phone
  BY <1>1 DEF Keeps
<1>2. ASSUME NEW o \in c.orders
      PROVE  \E n \in a.orders : /\ n.key = o.key /\ n.user = o.user /\ n.charger = o.charger
                                 /\ n.active => o.active
  <2>1. PICK m \in b.orders : /\ m.key = o.key /\ m.user = o.user /\ m.charger = o.charger
                              /\ m.active => o.active
    BY DEF Keeps
  <2>2. PICK n \in a.orders : /\ n.key = m.key /\ n.user = m.user /\ n.charger = m.charger
                              /\ n.active => m.active
    BY DEF Keeps
  <2>3. QED
    BY <2>1, <2>2
<1>3. QED
  BY <1>1, <1>2 DEF Keeps

(* A process that does not write and has not got far has nothing to keep.  *)
LEMMA RestsRight ==
  ASSUME NEW p \in Starters, pc'[p] \in {"Off", "Opened", "Creating", "Failed"}, writer' # p
  PROVE  StartsRight(p)'
BY DEF StartsRight, Current, Old

(* A process that does nothing, while no other commits.                    *)
LEMMA StandsStill ==
  ASSUME NEW q \in Starters, StartsRight(q), original' = original, file' = file,
         pc'[q] = pc[q], from'[q] = from[q], view'[q] = view[q],
         (writer' = q) <=> (writer = q), backups \subseteq backups'
  PROVE  StartsRight(q)'
BY DEF StartsRight, Current, Old, HasCatalog, Seedable, TookOrdersAway, Orphans

(* A step of one process that leaves the file alone.                       *)
LEMMA StartupQuietly ==
  ASSUME StartupInv, NEW p \in Starters, NEW w \in Working \cup Ended, Goes(p, w),
         original' = original, file' = file, backups \subseteq backups',
         from' \in [Starters -> Nat], view' \in [Starters -> Database],
         writer' \in Starters \cup {NoOne},
         \A q \in Starters \ {p} : /\ from'[q] = from[q] /\ view'[q] = view[q]
                                   /\ (writer' = q) <=> (writer = q),
         Sourced(view'[p], original), StartsRight(p)'
  PROVE  StartupInv'
<1>1. pc' \in [Starters -> Working \cup Ended] /\ \A q \in Starters \ {p} : pc'[q] = pc[q]
  BY DEF StartupInv, Goes
<1>2. ASSUME NEW q \in Starters \ {p} PROVE Sourced(view'[q], original) /\ StartsRight(q)'
  BY <1>1, StandsStill DEF StartupInv
<1>3. \A q \in Starters : Sourced(view[q], original)' /\ StartsRight(q)'
  BY <1>2
<1>4. Sourced(file, original)' /\ (original \in Databases)'
  BY DEF StartupInv
<1>5. (file = original \/ (file.version = LatestVersion /\ ~Contradictory(original)))'
  BY DEF StartupInv
<1>6. QED
  BY <1>1, <1>3, <1>4, <1>5 DEF StartupInv

(* A process that does nothing, while the file changes.                    *)
LEMMA SeesTheFileChange ==
  ASSUME NEW q \in Starters, StartsRight(q), original' = original, backups' = backups,
         file'.version = LatestVersion, ~Contradictory(original),
         ~HasCatalog(file) /\ ~Seedable(file) => ~HasCatalog(file') /\ ~Seedable(file'),
         pc'[q] = pc[q], from'[q] = from[q], view'[q] = view[q],
         pc[q] \notin {"Migrating", "Seeding"}, writer' # q, from[q] \in Nat
  PROVE  StartsRight(q)'
<1>1. ~Contradictory(original')
  OBVIOUS
<1> HIDE DEF Contradictory
<1>2. QED
  BY <1>1 DEF StartsRight, Current, Old, LatestVersion, HasCatalog, Seedable, TookOrdersAway,
              Orphans

(* The file changes.                                                       *)
LEMMA StartupChanges ==
  ASSUME StartupInv, original' = original, backups' = backups, from' = from, view' = view,
         pc' \in [Starters -> Working \cup Ended], writer' = NoOne,
         Sourced(file', original), file'.version = LatestVersion, ~Contradictory(original),
         ~HasCatalog(file) /\ ~Seedable(file) => ~HasCatalog(file') /\ ~Seedable(file'),
         \A q \in Starters : \/ pc'[q] = pc[q] /\ pc[q] \notin {"Migrating", "Seeding"}
                             \/ StartsRight(q)'
  PROVE  StartupInv'
<1>1. ASSUME NEW q \in Starters PROVE StartsRight(q)'
  BY SeesTheFileChange, StartupAssumption DEF StartupInv
<1>2. \A q \in Starters : Sourced(view[q], original)' /\ StartsRight(q)'
  BY <1>1 DEF StartupInv
<1>3. Sourced(file, original)' /\ (original \in Databases)'
  BY DEF StartupInv
<1>4. (file = original \/ (file.version = LatestVersion /\ ~Contradictory(original)))'
  OBVIOUS
<1>5. (writer \in Starters \cup {NoOne})' /\ (from \in [Starters -> Nat])'
      /\ (view \in [Starters -> Database])'
  BY DEF StartupInv
<1>6. QED
  BY <1>2, <1>3, <1>4, <1>5 DEF StartupInv

-----------------------------------------------------------------------------
(* Any database that a start may find is one to begin with.                *)
LEMMA StartupBegins == InitStartup => StartupInv
<1> SUFFICES ASSUME InitStartup PROVE StartupInv
  OBVIOUS
<1>1. original \in Databases /\ original \in Database
  BY DatabasesAssumption DEF InitStartup
<1>2. Sourced(original, original)
  BY <1>1, FirstIsSourced
<1>3. ASSUME NEW p \in Starters PROVE StartsRight(p)
  <2>1. pc[p] = "Off" /\ writer # p
    BY StartupAssumption DEF InitStartup
  <2>2. QED
    BY <2>1 DEF StartsRight, Current, Old
<1>4. pc \in [Starters -> Working \cup Ended]
  BY DEF InitStartup, Ended
<1>5. QED
  BY <1>1, <1>2, <1>3, <1>4 DEF StartupInv, InitStartup

(* A process starts.                                                       *)
LEMMA OpenStands == ASSUME StartupInv, NEW p \in Starters, Open(p) PROVE StartupInv'
<1>1. Goes(p, "Opened") /\ pc'[p] = "Opened" /\ writer' # p /\ "Opened" \in Working
  BY DEF Open, Goes, StartupInv, StartsRight, Working
<1>2. StartsRight(p)'
  BY <1>1, RestsRight
<1>3. QED
  BY <1>1, <1>2, StartupQuietly DEF Open, StartupInv

(* A process decides what is to be done by what it reads in the file.      *)
LEMMA InspectStands == ASSUME StartupInv, NEW p \in Starters, Inspect(p) PROVE StartupInv'
<1>0. /\ pc[p] = "Opened" /\ writer # p /\ writer' = writer
      /\ file \in Database /\ original \in Database
      /\ file.version \in Nat /\ original.version \in Nat
  BY DatabasesAssumption DEF Inspect, StartupInv, StartsRight, Sourced, Database
<1>1. /\ original' = original /\ file' = file /\ backups' = backups /\ view' = view
      /\ from' \in [Starters -> Nat] /\ from'[p] = file.version
      /\ \A q \in Starters \ {p} : from'[q] = from[q]
  BY <1>0 DEF Inspect, StartupInv
<1> DEFINE OK(w) == Goes(p, w) /\ w \in Working \cup Ended
           todo == CASE file.version = 0                -> "Creating"
                     [] file.version > LatestVersion    -> "Refused"
                     [] \/ file.version \in 1..(LatestVersion - 1)
                        \/ file.version = LatestVersion /\ ~HasColumns(file) -> "Backup"
                     [] file.version = LatestVersion /\ HasColumns(file) -> "Seed"
<1>g. Goes(p, todo) /\ \A w : todo = w => Goes(p, w) /\ pc'[p] = w
  BY DEF Inspect, Goes, StartupInv
<1>w. {"Creating", "Backup", "Seed", "Refused"} \subseteq Working \cup Ended
  BY DEF Working, Writing, Ended
<1>2. ASSUME NEW w, OK(w), w \in {"Creating", "Backup", "Seed", "Refused"}, StartsRight(p)'
      PROVE  StartupInv'
  BY <1>0, <1>1, <1>2, StartupQuietly DEF StartupInv
<1>3. CASE file.version = 0
  <2>1. OK("Creating") /\ pc'[p] = "Creating"
    <3>1. todo = "Creating"
      BY <1>0, <1>3 DEF LatestVersion
    <3>2. QED
      BY <1>g, <1>w, <3>1
  <2>2. StartsRight(p)'
    BY <1>0, <2>1, RestsRight
  <2>3. QED
    BY <1>2, <2>1, <2>2
<1>4. CASE file.version > LatestVersion
  <2>1. OK("Refused") /\ pc'[p] = "Refused"
    <3>1. todo = "Refused"
      BY <1>0, <1>4 DEF LatestVersion
    <3>2. QED
      BY <1>g, <1>w, <3>1
  <2>2. Contradictory(original)
    BY <1>0, <1>4 DEF StartupInv, Contradictory, LatestVersion
  <2>3. Contradictory(original)'
    BY <1>1, <2>2
  <2>4. StartsRight(p)'
    BY <1>0, <2>1, <2>3 DEF StartsRight, Current, Old
  <2>5. QED
    BY <1>2, <2>1, <2>4
<1>5. CASE \/ file.version \in 1..(LatestVersion - 1)
           \/ file.version = LatestVersion /\ ~HasColumns(file)
  <2>1. OK("Backup") /\ pc'[p] = "Backup"
    <3>1. todo = "Backup"
      BY <1>0, <1>5 DEF LatestVersion
    <3>2. QED
      BY <1>g, <1>w, <3>1
  <2>2. file.version = LatestVersion \/ original.version \in 1..file.version
    BY <1>0, <1>5 DEF StartupInv, LatestVersion
  <2>3. StartsRight(p)'
    BY <1>0, <1>1, <1>5, <2>1, <2>2 DEF StartsRight, Current, Old, LatestVersion
  <2>4. QED
    BY <1>2, <2>1, <2>3
<1>6. CASE file.version = LatestVersion /\ HasColumns(file)
  <2>1. OK("Seed") /\ pc'[p] = "Seed"
    <3>1. todo = "Seed"
      BY <1>0, <1>6 DEF LatestVersion
    <3>2. QED
      BY <1>g, <1>w, <3>1
  <2>2. ~Contradictory(original)
    BY <1>0, <1>6 DEF StartupInv, Contradictory, LatestVersion, HasColumns
  <2>3. ~Contradictory(original)'
    BY <1>1, <2>2
  <2>4. StartsRight(p)'
    BY <1>0, <1>1, <1>6, <2>1, <2>3 DEF StartsRight, Current, Old
  <2>5. QED
    BY <1>2, <2>1, <2>4
<1>7. QED
  BY <1>0, <1>3, <1>4, <1>5, <1>6 DEF LatestVersion
(* The backup holds what the file is, so the first database while it is.   *)
LEMMA BackUpStands == ASSUME StartupInv, NEW p \in Starters, BackUp(p) PROVE StartupInv'
<1>1. /\ Goes(p, "Begin") /\ pc'[p] = "Begin" /\ "Begin" \in Working /\ pc[p] = "Backup"
      /\ backups' = backups \cup {file} /\ writer' = writer /\ StartsRight(p)
      /\ original' = original /\ file' = file /\ from' = from /\ view' = view
  BY DEF BackUp, Goes, StartupInv, Working
<1>2. file.version = LatestVersion \/ original \in backups'
  BY <1>1 DEF StartupInv
<1>3. StartsRight(p)'
  BY <1>1, <1>2 DEF StartsRight, Current, Old
<1>4. QED
  BY <1>1, <1>3, StartupQuietly DEF StartupInv

(* A process that gives up, or ends.                                       *)
LEMMA GivingUpStands ==
  ASSUME StartupInv, NEW p \in Starters, NEW w \in {"Failed", "Off"}, Goes(p, w),
         writer' = Released(p),
         UNCHANGED <<original, file, backups, from, view>>
  PROVE  StartupInv'
<1>1. pc'[p] = w /\ w \in Working \cup Ended
  BY DEF Goes, StartupInv, Ended
<1>2. /\ writer' # p /\ writer' \in Starters \cup {NoOne}
      /\ \A q \in Starters \ {p} : (writer' = q) <=> (writer = q)
  BY StartupAssumption DEF StartupInv, Released
<1>3. StartsRight(p)'
  BY <1>1, <1>2, RestsRight
<1>4. QED
  BY <1>1, <1>2, <1>3, StartupQuietly DEF StartupInv

(* A backup or a statement fails, the file is locked, or the process dies. *)
LEMMA FailureStands ==
  ASSUME StartupInv, NEW p \in Starters, BackUpFails(p) \/ IsBusy(p) \/ Fails(p) \/ Crash(p)
  PROVE  StartupInv'
<1>1. StartsRight(p)
  BY DEF StartupInv
<1>2. CASE BackUpFails(p)
  <2>1. writer' = Released(p)
    BY <1>1, <1>2 DEF BackUpFails, StartsRight, Released
  <2>2. QED
    BY <1>2, <2>1, GivingUpStands DEF BackUpFails
<1>3. CASE IsBusy(p)
  <2>1. writer' = Released(p)
    BY <1>1, <1>3 DEF IsBusy, StartsRight, Released
  <2>2. QED
    BY <1>3, <2>1, GivingUpStands DEF IsBusy
<1>4. CASE Fails(p)
  BY <1>4, GivingUpStands DEF Fails
<1>5. CASE Crash(p)
  BY <1>5, GivingUpStands DEF Crash
<1>6. QED
  BY <1>2, <1>3, <1>4, <1>5

(* The first read of a transaction.                                        *)
LEMMA BeginsStands ==
  ASSUME StartupInv, NEW p \in Starters, NEW here, NEW next \in Working \cup Ended,
         Begins(p, here, next), here \in {"Begin", "Seed"},
         next \in {"Upgrade", "SeedUpgrade", "Ready"},
         here = "Begin" <=> next = "Upgrade", next = "SeedUpgrade" => ~HasCatalog(file)
  PROVE  StartupInv'
<1>1. /\ Goes(p, next) /\ pc'[p] = next /\ pc[p] = here
      /\ view'[p] = file /\ writer' = writer /\ StartsRight(p)
      /\ original' = original /\ file' = file /\ from' = from /\ backups' = backups
      /\ \A q \in Starters \ {p} : view'[q] = view[q]
  BY DEF Begins, Goes, StartupInv
<1>2. view' \in [Starters -> Database] /\ Sourced(view'[p], original)
  BY <1>1 DEF Begins, StartupInv, Sourced
<1>3. next = "SeedUpgrade" => ~HasCatalog(view'[p])
  BY <1>1
<1> HIDE DEF HasCatalog
<1>4. StartsRight(p)'
  BY <1>1, <1>3 DEF StartsRight, Current, Old
<1>5. QED
  BY <1>1, <1>2, <1>4, StartupQuietly DEF StartupInv

(* A transaction begins, and sees the file as it is.                       *)
LEMMA BeginStands ==
  ASSUME StartupInv, NEW p \in Starters, BeginMigration(p) \/ BeginSeed(p)
  PROVE  StartupInv'
<1>1. {"Upgrade", "SeedUpgrade", "Ready"} \subseteq Working \cup Ended
  BY DEF Working, Ended
<1>2. CASE BeginMigration(p)
  BY <1>1, <1>2, BeginsStands DEF BeginMigration
<1>3. CASE HasCatalog(file) /\ Begins(p, "Seed", "Ready")
  BY <1>1, <1>3, BeginsStands
<1>4. CASE ~HasCatalog(file) /\ Begins(p, "Seed", "SeedUpgrade")
  BY <1>1, <1>4, BeginsStands
<1>5. QED
  BY <1>2, <1>3, <1>4 DEF BeginSeed

(* The first write, which repairs the columns it knows.                    *)
LEMMA RepairStands == ASSUME StartupInv, NEW p \in Starters, Repair(p) PROVE StartupInv'
<1> DEFINE drift == IF file.drift = "known" THEN "none" ELSE file.drift
           db == [file EXCEPT !.drift = drift]
<1>1. /\ Goes(p, "Migrating") /\ pc'[p] = "Migrating" /\ pc[p] = "Upgrade"
      /\ view[p] = file /\ writer = NoOne /\ writer' = p /\ StartsRight(p)
      /\ original' = original /\ file' = file /\ from' = from /\ backups' = backups
      /\ file \in Database /\ "Migrating" \in Working
      /\ from[p] \in Nat
  BY DEF Repair, MayWrite, Goes, StartupInv, Sourced, Working, Writing
<1>2. /\ view'[p] = db /\ \A q \in Starters \ {p} : view'[q] = view[q]
      /\ view' = [view EXCEPT ![p] = db]
  BY <1>1 DEF Repair, StartupInv
<1>3. /\ db \in Database /\ db.drift = drift /\ db.version = file.version
      /\ db.users = file.users /\ db.records = file.records /\ db.orders = file.orders
      /\ db.stations = file.stations /\ db.demo = file.demo /\ db.taken = file.taken
      /\ db.reviews = file.reviews /\ db.reviewed = file.reviewed
      /\ drift # "known" /\ (drift = "unknown" <=> file.drift = "unknown")
  BY <1>1 DEF Database
<1> HIDE DEF db, drift
<1>4. Sourced(file, original)
  BY DEF StartupInv
<1>5. Sourced(db, original)
  BY <1>3, <1>4, SameRowsAreSourced DEF Orphans
<1>6. Keeps(db, file)
  BY <1>3, KeepsItself
<1>7. from[p] \in 1..LatestVersion /\ from[p] <= file.version /\ file.version \in 1..LatestVersion
  BY <1>1 DEF StartsRight, Old
<1>8. db.version \in from[p]..LatestVersion
  BY <1>3, <1>7 DEF LatestVersion
<1>9. StartsRight(p)'
  BY <1>1, <1>2, <1>3, <1>6, <1>7, <1>8 DEF StartsRight, Current, Old
<1>10. view' \in [Starters -> Database] /\ writer' \in Starters \cup {NoOne}
  BY <1>1, <1>2, <1>3 DEF StartupInv
<1>11. \A q \in Starters \ {p} : (writer' = q) <=> (writer = q)
  BY <1>1, StartupAssumption
<1>12. QED
  BY <1>1, <1>2, <1>5, <1>9, <1>10, <1>11, StartupQuietly DEF StartupInv

(* A migration that is refused.                                            *)
LEMMA RefusalStands ==
  ASSUME StartupInv, NEW p \in Starters, RollsBack(p, "Refused"), writer \in {p, NoOne},
         \/ Contradictory(original)
         \/ ~HasCatalog(file) /\ ~Seedable(file)
         \/ TookOrdersAway(view[p])
  PROVE  StartupInv'
<1>1. /\ Goes(p, "Refused") /\ pc'[p] = "Refused" /\ "Refused" \in Ended
      /\ writer' = NoOne /\ NoOne \notin Starters
      /\ original' = original /\ file' = file /\ from' = from /\ backups' = backups /\ view' = view
  BY StartupAssumption DEF RollsBack, Goes, StartupInv, Ended
<1>2. \/ Contradictory(original') \/ (~HasCatalog(file') /\ ~Seedable(file'))
      \/ TookOrdersAway(view[p])'
  BY <1>1 DEF TookOrdersAway, Orphans
<1>3. StartsRight(p)'
  BY <1>1, <1>2 DEF StartsRight, Current, Old
<1>4. QED
  BY <1>1, <1>3, StartupQuietly DEF StartupInv

(* A step of the migration.                                                *)
LEMMA MigratesStands ==
  ASSUME StartupInv, NEW p \in Starters, NEW v \in 1..9, NEW fits, NEW result,
         Migrates(p, v, fits, result),
         ~fits => Contradictory(original),
         fits => /\ result \in Database /\ result.version = view[p].version
                 /\ result.drift = view[p].drift /\ result.stations = view[p].stations
                 /\ result.demo = view[p].demo /\ result.taken = view[p].taken
                 /\ DOMAIN view[p].users = DOMAIN file.users
                 /\ Keeps(result, view[p]) /\ Sourced(AtVersion(result, v + 1), original)
  PROVE  StartupInv'
<1>1. /\ pc[p] = "Migrating" /\ from[p] = v /\ writer = p /\ StartsRight(p)
      /\ view[p] \in Database /\ view[p].version \in v..LatestVersion
  BY DEF Migrates, StartupInv, StartsRight
<1>2. CASE ~fits
  <2>1. RollsBack(p, "Refused")
    BY <1>2 DEF Migrates
  <2>2. QED
    BY <1>1, <1>2, <2>1, RefusalStands
<1>3. CASE fits
  <2> DEFINE db == AtVersion(result, v + 1)
  <2>1. /\ result \in Database /\ result.version = view[p].version
        /\ result.drift = view[p].drift /\ result.stations = view[p].stations
        /\ result.demo = view[p].demo /\ result.taken = view[p].taken
        /\ Keeps(result, view[p]) /\ Sourced(db, original)
        /\ DOMAIN view[p].users = DOMAIN file.users
    BY <1>3
  <2>2. /\ db \in Database
        /\ db.version = (IF v + 1 > view[p].version THEN v + 1 ELSE view[p].version)
        /\ db.drift = view[p].drift /\ db.stations = view[p].stations
        /\ db.demo = view[p].demo /\ db.taken = view[p].taken
        /\ db.users = result.users /\ db.orders = result.orders
        /\ db.reviewed = result.reviewed
    BY <2>1, OnlyTheVersion
  <2> HIDE DEF db
  <2>3. Keeps(db, view[p])
    BY <2>1, <2>2 DEF Keeps
  <2>4. Keeps(db, file)
    BY <1>1, <2>1, <2>3, KeepsOn DEF StartsRight
  <2>5. /\ view' = [view EXCEPT ![p] = db] /\ from' = [from EXCEPT ![p] = v + 1]
        /\ UNCHANGED <<original, file, backups, pc, writer>>
    BY <1>1, <1>3 DEF Migrates, RollsBack, Goes, StartupInv, db
  <2>6. /\ view'[p] = db /\ from'[p] = v + 1 /\ pc'[p] = "Migrating"
        /\ \A q \in Starters \ {p} : from'[q] = from[q] /\ view'[q] = view[q]
        /\ view' \in [Starters -> Database] /\ from' \in [Starters -> Nat]
    BY <1>1, <2>2, <2>5 DEF StartupInv
  <2>7. /\ v + 1 \in 1..LatestVersion /\ original.version \in 1..(v + 1)
        /\ file.version \in 1..LatestVersion
    <3>1. original.version \in 1..v /\ file.version \in 1..LatestVersion
      BY <1>1 DEF StartsRight, Old, LatestVersion
    <3>2. QED
      BY <3>1 DEF LatestVersion
  <2>8. db.version \in (v + 1)..LatestVersion
    BY <1>1, <2>2 DEF LatestVersion
  <2>9. StartsRight(p)'
    BY <1>1, <2>2, <2>4, <2>5, <2>6, <2>7, <2>8 DEF StartsRight, Current, Old
  <2>10. Goes(p, "Migrating") /\ "Migrating" \in Working
    BY <1>1, <2>5 DEF Goes, StartupInv, Working, Writing
  <2>11. QED
    BY <2>1, <2>5, <2>6, <2>9, <2>10, StartupQuietly DEF StartupInv
<1>4. QED
  BY <1>2, <1>3
(* Each step of the migration.                                             *)
LEMMA MigrationStands ==
  ASSUME StartupInv, NEW p \in Starters,
         \/ MigrateUsers(p) \/ MigrateCharging(p) \/ MigrateReservationOrders(p)
         \/ MigrateV5ToV6(p) \/ MigrateV6ToV7(p) \/ MigrateUserSchema(p) \/ ExtendSchema(p)
  PROVE  StartupInv'
<1> DEFINE db == view[p]
<1>1. /\ db \in Database /\ db.version \in Nat /\ db.users \in Seq(Account)
      /\ Sourced(db, original) /\ Sourced(file, original) /\ StartsRight(p)
      /\ DOMAIN db.users = DOMAIN file.users
      /\ original \in Databases /\ original \in Database
      /\ original.version \in Nat /\ original.orders \subseteq OrderRow
      /\ db.records = original.records /\ DOMAIN db.users = DOMAIN original.users
  BY DatabasesAssumption DEF StartupInv, Sourced, Database
<1> HIDE DEF db
\* a step that extends the schema, or changes the accounts only
<1>2. ASSUME NEW v \in {1, 2, 3, 4, 6, 7, 8, 9}, NEW fits, NEW result \in Database,
             Migrates(p, v, fits, result), ~fits => Contradictory(original),
             result.version = db.version, result.drift = db.drift,
             result.stations = db.stations, result.demo = db.demo, result.taken = db.taken,
             result.records = db.records, result.orders = db.orders,
             result.reviews = "broken" => db.reviews = "broken",
             result.reviewed = db.reviewed,
             DOMAIN result.users = DOMAIN db.users,
             \A i \in DOMAIN db.users :
               db.users[i].phone \in Mobiles => result.users[i].phone = db.users[i].phone
      PROVE  StartupInv'
  <2> DEFINE e == AtVersion(result, v + 1)
  <2>1. /\ e \in Database /\ e.version = (IF v + 1 > db.version THEN v + 1 ELSE db.version)
        /\ e.drift = db.drift /\ e.users = result.users /\ e.records = db.records
        /\ e.orders = db.orders /\ e.reviews = result.reviews /\ e.reviewed = db.reviewed
    BY <1>2, OnlyTheVersion
  <2> HIDE DEF e
  <2>2. db.version >= v
    BY <1>1, <1>2 DEF Migrates, StartsRight, db
  <2>3. e.version >= 6 <=> db.version >= 6
    BY <1>1, <1>2, <2>1, <2>2
  <2>4. Sourced(e, original)
    BY <1>1, <1>2, <2>1, <2>3, SameRowsAreSourced DEF Orphans
  <2>5. Keeps(result, db)
    BY <1>2 DEF Keeps
  <2>6. v \in 1..9
    BY <1>2
  <2>7. QED
    BY <1>1, <1>2, <2>4, <2>5, <2>6, MigratesStands DEF db, e
<1>3. ASSUME NEW v, NEW fits, NEW result, Migrates(p, v, fits, result)
      PROVE  v = LatestVersion \/ original.version \in 1..v
  BY <1>1, <1>3 DEF Migrates, StartsRight, Old
<1>4. ASSUME original.version \in 1..5, ~Contradictory(original)
      PROVE  /\ OneActive(original.records)
             /\ Linked(db.orders \cup db.records, db)
             /\ OneActive(Rebuilt(db.orders) \cup Imported(db))
  <2>1. Fits(original)
    BY <1>4 DEF Contradictory, Fits, Rows
  <2>2. QED
    BY <1>1, <1>4, <2>1, RowsThatFit
<1>5. CASE MigrateUsers(p)
  <2> DEFINE users == Renamed(db.users)
             result == [db EXCEPT !.users = users]
  <2>1. \A i \in DOMAIN db.users : LegacyName[i] \in STRING
    BY <1>1, DatabasesAssumption
  <2>2. /\ users \in Seq(Account) /\ DOMAIN users = DOMAIN db.users
        /\ \A i \in DOMAIN db.users : users[i].phone = db.users[i].phone
        /\ DistinctNames(users)
    BY <1>1, <2>1, RenamedIsDistinct
  <2>3. Migrates(p, 1, DistinctNames(users), result)
    BY <1>5 DEF MigrateUsers, db
  <2> HIDE DEF users
  <2>4. /\ result \in Database /\ result.users = users /\ result.version = db.version
        /\ result.drift = db.drift /\ result.stations = db.stations /\ result.demo = db.demo
        /\ result.taken = db.taken /\ result.records = db.records /\ result.orders = db.orders
        /\ result.reviews = db.reviews /\ result.reviewed = db.reviewed
    BY <1>1, <2>2 DEF Database
  <2> HIDE DEF result
  <2>5. QED
    BY <1>2, <2>2, <2>3, <2>4
<1>6. CASE MigrateCharging(p)
  <2> DEFINE fits == \A r, s \in db.records :
                       r.active /\ s.active /\ r.charger = s.charger => r = s
  <2>1. Migrates(p, 2, fits, db)
    BY <1>6 DEF MigrateCharging, db
  <2> HIDE DEF fits
  <2>2. original.version \in 1..2
    BY <1>3, <2>1 DEF LatestVersion
  <2>3. ~fits => Contradictory(original)
    <3>1. ~Contradictory(original) => OneActive(db.records)
      BY <1>1, <1>4, <2>2
    <3>2. QED
      BY <3>1 DEF OneActive, fits
  <2>4. QED
    BY <1>1, <1>2, <2>1, <2>3
<1>7. CASE MigrateReservationOrders(p)
  <2>1. Migrates(p, 4, OneActive(db.records), db)
    BY <1>7 DEF MigrateReservationOrders, db
  <2>2. original.version \in 1..4
    BY <1>3, <2>1 DEF LatestVersion
  <2>3. ~OneActive(db.records) => Contradictory(original)
    BY <1>1, <1>4, <2>2
  <2>4. QED
    BY <1>1, <1>2, <2>1, <2>3
<1>8. CASE MigrateV5ToV6(p)
  <2> DEFINE orders == Rebuilt(db.orders) \cup Imported(db)
             fits == Linked(db.orders \cup db.records, db) /\ OneActive(orders)
             reviews == Unlinked(db.reviews)
             result == [db EXCEPT !.orders = orders, !.reviews = reviews]
             e == AtVersion(result, 6)
  <2>1. Migrates(p, 5, fits, result)
    BY <1>8 DEF MigrateV5ToV6, db
  <2>2. original.version \in 1..5
    <3> HIDE DEF fits, result
    <3>1. QED
      BY <1>3, <2>1 DEF LatestVersion
  <2>3. ~fits => Contradictory(original)
    BY <1>4, <2>2
  <2>4. orders \subseteq OrderRow
    <3>1. db.orders \subseteq OrderRow
      BY <1>1 DEF Database
    <3>2. \A o \in Imported(db) : o \in OrderRow
      BY <1>1, ImportedRow
    <3>3. QED
      BY <3>1, <3>2, RebuiltIsSame
  <2>12. reviews \in {"absent", "sound", "broken"}
    BY <1>1 DEF Unlinked, Database
  <2> HIDE DEF orders, reviews
  <2>5. /\ result \in Database /\ result.users = db.users /\ result.version = db.version
        /\ result.drift = db.drift /\ result.stations = db.stations /\ result.demo = db.demo
        /\ result.taken = db.taken /\ result.records = db.records /\ result.orders = orders
        /\ result.reviewed = db.reviewed
    BY <1>1, <2>4, <2>12 DEF Database
  <2> HIDE DEF result
  <2>6. /\ e \in Database /\ e.version = (IF 6 > db.version THEN 6 ELSE db.version)
        /\ e.drift = db.drift /\ e.users = db.users /\ e.records = db.records
        /\ e.orders = orders /\ e.reviewed = db.reviewed
    BY <2>5, OnlyTheVersion
  <2> HIDE DEF e
  <2>7. e.version >= 6
    BY <1>1, <2>6
  <2>8. fits => Sourced(e, original) /\ Keeps(e, db)
    BY <1>1, <2>2, <2>6, <2>7, ImportIsSourced DEF orders
  <2>9. fits => Keeps(result, db)
    BY <2>5, <2>6, <2>8 DEF Keeps
  <2>10. fits => Sourced(AtVersion(result, 5 + 1), original)
    BY <2>8 DEF e
  <2> HIDE DEF fits
  <2>11. QED
    BY <1>1, <2>1, <2>3, <2>5, <2>9, <2>10, MigratesStands DEF db
<1>9. CASE MigrateUserSchema(p)
  <2> DEFINE users == Normalised(db.users)
             result == [db EXCEPT !.users = users]
  <2>1. Migrates(p, 8, TRUE, result)
    BY <1>9 DEF MigrateUserSchema, db
  <2>2. ASSUME NEW i \in DOMAIN db.users
        PROVE  /\ users[i] \in Account
               /\ db.users[i].phone \in Mobiles => users[i].phone = db.users[i].phone
    <3> DEFINE u == db.users[i]
               phone == IF u.phone \in Mobiles THEN u.phone ELSE ""
    <3>0. u \in Account
      BY <1>1
    <3>2. users[i] = [u EXCEPT !.phone = phone]
      BY DEF Normalised
    <3> HIDE DEF u, users
    <3>1. phone \in STRING \cup {""}
      BY <3>0 DEF Account
    <3> HIDE DEF phone
    <3>3. users[i] \in Account /\ users[i].phone = phone
      BY <3>0, <3>1, <3>2 DEF Account
    <3>4. db.users[i].phone \in Mobiles => users[i].phone = db.users[i].phone
      BY <3>3 DEF u, phone
    <3>5. QED
      BY <3>3, <3>4
  <2>3. users \in Seq(Account) /\ DOMAIN users = DOMAIN db.users
    <3>1. DOMAIN db.users = 1..Len(db.users) /\ Len(db.users) \in Nat
      BY <1>1
    <3>2. users = [i \in 1..Len(db.users) |-> users[i]]
      BY <3>1 DEF Normalised
    <3>3. QED
      BY <2>2, <3>1, <3>2
  <2> HIDE DEF users
  <2>4. /\ result \in Database /\ result.users = users /\ result.version = db.version
        /\ result.drift = db.drift /\ result.stations = db.stations /\ result.demo = db.demo
        /\ result.taken = db.taken /\ result.records = db.records /\ result.orders = db.orders
        /\ result.reviews = db.reviews /\ result.reviewed = db.reviewed
    BY <1>1, <2>3 DEF Database
  <2> HIDE DEF result
  <2>5. QED
    BY <1>2, <2>1, <2>2, <2>3, <2>4
<1>10. CASE MigrateV6ToV7(p)
  <2> DEFINE reviews == IF db.reviews = "absent" THEN "sound" ELSE db.reviews
             result == [db EXCEPT !.reviews = reviews]
  <2>1. Migrates(p, 6, TRUE, result)
    BY <1>10 DEF MigrateV6ToV7, db
  <2>2. reviews \in {"absent", "sound", "broken"} /\ (reviews = "broken" => db.reviews = "broken")
    BY <1>1 DEF Database
  <2> HIDE DEF reviews
  <2>3. /\ result \in Database /\ result.users = db.users /\ result.version = db.version
        /\ result.drift = db.drift /\ result.stations = db.stations /\ result.demo = db.demo
        /\ result.taken = db.taken /\ result.records = db.records /\ result.orders = db.orders
        /\ result.reviews = reviews /\ result.reviewed = db.reviewed
    BY <1>1, <2>2 DEF Database
  <2> HIDE DEF result
  <2>4. QED
    BY <1>2, <2>1, <2>2, <2>3
<1>11. CASE ExtendSchema(p)
  BY <1>1, <1>2, <1>11 DEF ExtendSchema, db
<1>12. QED
  BY <1>5, <1>6, <1>7, <1>8, <1>9, <1>10, <1>11
(* The migration commits, or is rolled back: columns are missing, or the    *)
(* step from version 5 has taken the orders away from the reviews.         *)
LEMMA FinishStands ==
  ASSUME StartupInv, NEW p \in Starters, FinishMigration(p)
  PROVE  /\ StartupInv'
         /\ file' = file \/ (file' = view[p] /\ Keeps(view[p], file)
                             /\ (file.version = LatestVersion \/ original \in backups))
<1>1. /\ pc[p] = "Migrating" /\ from[p] = LatestVersion /\ writer = p /\ StartsRight(p)
      /\ Sourced(view[p], original) /\ original \in Databases /\ original.version \in Nat
      /\ view[p].drift # "known" /\ view[p].drift \in {"none", "known", "unknown"}
      /\ view[p].version \in from[p]..LatestVersion
      /\ file.version \in 1..LatestVersion
      /\ view[p].stations = file.stations /\ view[p].demo = file.demo /\ view[p].taken = file.taken
  BY DatabasesAssumption DEF FinishMigration, StartupInv, StartsRight, Sourced, Database, Old
<1>2. view[p].version = LatestVersion
  BY <1>1 DEF LatestVersion
<1>3. Linked(view[p].orders, view[p])
  BY <1>1, <1>2, OrdersStayLinked DEF LatestVersion
<1>4. Validates(view[p]) <=> ~Contradictory(original) /\ ~Orphans(view[p])
  <2>1. Validates(view[p]) <=> original.drift # "unknown" /\ ~Orphans(view[p])
    BY <1>1, <1>3 DEF Validates, HasColumns, Sourced
  <2>2. original.version <= LatestVersion
    BY <1>1 DEF StartupInv, Contradictory, LatestVersion
  <2>3. original.version < 6 => Fits(original)
    BY <1>1, <1>2 DEF Sourced, LatestVersion
  <2>4. QED
    BY <1>1, <2>1, <2>2, <2>3 DEF Contradictory, Fits, Rows, LatestVersion
<1>5. CASE Validates(view[p])
  <2>1. /\ file' = view[p] /\ writer' = NoOne /\ Goes(p, "Seed")
        /\ UNCHANGED <<original, backups, from, view>>
    BY <1>1, <1>5 DEF FinishMigration, RollsBack
  <2>2. /\ pc' \in [Starters -> Working \cup Ended] /\ pc'[p] = "Seed"
        /\ \A q \in Starters \ {p} : pc'[q] = pc[q]
    BY <2>1 DEF Goes, StartupInv, Working
  <2>3. StartsRight(p)'
    <3>1. ~Contradictory(original') /\ writer' # p
      BY <1>4, <1>5, <2>1, StartupAssumption
    <3> HIDE DEF Contradictory
    <3>2. QED
      BY <1>2, <2>1, <2>2, <3>1 DEF StartsRight, Current, Old
  <2>4. ASSUME NEW q \in Starters
        PROVE  \/ pc'[q] = pc[q] /\ pc[q] \notin {"Migrating", "Seeding"}
               \/ StartsRight(q)'
    <3>1. CASE q = p
      BY <2>3, <3>1
    <3>2. CASE q # p
      BY <1>1, <2>2, <3>2 DEF StartupInv, StartsRight
    <3>3. QED
      BY <3>1, <3>2
  <2>5. ~HasCatalog(file) /\ ~Seedable(file) => ~HasCatalog(file') /\ ~Seedable(file')
    BY <1>1, <2>1 DEF HasCatalog, Seedable
  <2>6. StartupInv'
    BY <1>1, <1>2, <1>4, <1>5, <2>1, <2>2, <2>4, <2>5, StartupChanges
  <2>7. QED
    BY <1>1, <2>1, <2>6 DEF StartsRight, Old
<1>6. CASE ~Validates(view[p])
  <2>1. RollsBack(p, "Refused")
    BY <1>6 DEF FinishMigration
  <2>2. Orphans(view[p]) => TookOrdersAway(view[p])
    BY <1>1 DEF Sourced, TookOrdersAway
  <2>3. StartupInv'
    BY <1>1, <1>4, <1>6, <2>1, <2>2, RefusalStands
  <2>4. QED
    BY <2>1, <2>3 DEF RollsBack
<1>7. QED
  BY <1>5, <1>6

(* The first write of the seeding, and of a new database.                  *)
LEMMA SeedingStands ==
  ASSUME StartupInv, NEW p \in Starters, writer = NoOne, writer' = p, Goes(p, "Seeding"),
         UNCHANGED <<original, file, backups, from>>, ~file.taken, ~Contradictory(original),
         file.version \in {0, LatestVersion},
         NEW db \in Database, view' = [view EXCEPT ![p] = db],
         db.version = LatestVersion, db.users = file.users, db.orders = file.orders,
         db.reviewed = file.reviewed, ~db.taken, Sourced(db, original)
  PROVE  StartupInv'
<1>1. /\ pc'[p] = "Seeding" /\ view'[p] = db /\ view' \in [Starters -> Database]
      /\ \A q \in Starters \ {p} : view'[q] = view[q]
      /\ "Seeding" \in Working
  BY DEF Goes, StartupInv, Working, Writing
<1>2. Keeps(db, file)
  BY KeepsItself
<1>3. ~Contradictory(original')
  OBVIOUS
<1>4. StartsRight(p)'
  BY <1>1, <1>2, <1>3 DEF StartsRight, Current, Old
<1>5. QED
  BY <1>1, <1>4, StartupQuietly, StartupAssumption DEF StartupInv

(* The demonstration data goes into an empty catalogue, or does not fit it. *)
LEMMA PopulateStands == ASSUME StartupInv, NEW p \in Starters, Populate(p) PROVE StartupInv'
<1>1. /\ pc[p] = "SeedUpgrade" /\ writer = NoOne /\ view[p] = file /\ StartsRight(p)
      /\ Sourced(file, original) /\ file \in Database
      /\ file.version = LatestVersion /\ ~Contradictory(original) /\ ~HasCatalog(file)
  BY DEF Populate, MayWrite, StartupInv, StartsRight, Sourced, Current
<1>2. CASE Seedable(view[p])
  <2> DEFINE db == [file EXCEPT !.demo = TRUE]
  <2>1. /\ writer' = p /\ Goes(p, "Seeding") /\ view' = [view EXCEPT ![p] = db]
        /\ UNCHANGED <<original, file, backups, from>> /\ ~file.taken
    BY <1>1, <1>2 DEF Populate, Seedable, StartupInv, RollsBack
  <2>2. /\ db \in Database /\ db.version = file.version /\ db.users = file.users
        /\ db.orders = file.orders /\ db.records = file.records /\ db.drift = file.drift
        /\ db.taken = file.taken /\ db.reviews = file.reviews /\ db.reviewed = file.reviewed
    BY <1>1 DEF Database
  <2> HIDE DEF db
  <2>3. Sourced(db, original)
    BY <1>1, <2>2, SameRowsAreSourced DEF Orphans
  <2>4. QED
    BY <1>1, <2>1, <2>2, <2>3, SeedingStands
<1>3. CASE ~Seedable(view[p])
  <2>1. RollsBack(p, "Refused")
    BY <1>3 DEF Populate
  <2>2. QED
    BY <1>1, <1>3, <2>1, RefusalStands
<1>4. QED
  BY <1>2, <1>3

(* An empty file gets the schema, unless another process was quicker.      *)
LEMMA CreateStands == ASSUME StartupInv, NEW p \in Starters, Create(p) PROVE StartupInv'
<1>1. /\ pc[p] = "Creating" /\ writer = NoOne /\ original \in Databases
      /\ Sourced(file, original) /\ file \in Database
  BY DEF Create, StartupInv, Sourced
<1>2. CASE file.version = 0
  <2> DEFINE db == [file EXCEPT !.version = LatestVersion, !.reviews = "sound", !.demo = TRUE]
  <2>1. /\ writer' = p /\ Goes(p, "Seeding") /\ view' = [view EXCEPT ![p] = db]
        /\ UNCHANGED <<original, file, backups, from>>
    BY <1>1, <1>2 DEF Create, StartupInv, RollsBack
  <2>2. /\ db \in Database /\ db.version = LatestVersion /\ db.users = file.users
        /\ db.orders = file.orders /\ db.records = file.records /\ db.drift = file.drift
        /\ db.taken = file.taken /\ db.reviews = "sound" /\ db.reviewed = file.reviewed
    BY <1>1 DEF Database, LatestVersion
  <2> HIDE DEF db
  <2>3. file = original
    BY <1>2 DEF StartupInv, LatestVersion
  <2>4. /\ original.records = {} /\ original.orders = {} /\ ~original.taken
        /\ original.drift = "none"
    BY <1>1, <1>2, <2>3, DatabasesAssumption
  <2>5. Rows(original) = {}
    BY <2>4 DEF Rows, Rebuilt, Imported
  <2>6. Fits(original)
    BY <2>4, <2>5 DEF Fits, Linked, OneActive
  <2>7. ~Contradictory(original)
    BY <1>2, <2>3, <2>4, <2>6 DEF Contradictory, Fits, Rows, LatestVersion
  <2>8. Sourced(db, original)
    <3>1. Complete(db) /\ Traced(db)
      BY <2>2, <2>3, <2>4 DEF Complete, Traced
    <3>2. OneKey(db.orders)
      BY <2>2, <2>3, <2>4 DEF OneKey
    <3>3. ~Orphans(db)
      BY <2>2 DEF Orphans
    <3>4. QED
      BY <2>2, <2>3, <2>4, <2>6, <3>1, <3>2, <3>3 DEF Sourced
  <2>9. ~file.taken /\ ~db.taken /\ file.version \in {0, LatestVersion}
    BY <1>2, <2>2, <2>3, <2>4
  <2>10. QED
    BY <1>1, <2>1, <2>2, <2>7, <2>8, <2>9, SeedingStands
<1>3. CASE file.version # 0
  <2>1. RollsBack(p, "Failed")
    BY <1>3 DEF Create
  <2>2. writer' = Released(p)
    BY <1>1, <2>1 DEF RollsBack, Released
  <2>3. QED
    BY <2>1, <2>2, GivingUpStands DEF RollsBack
<1>4. QED
  BY <1>2, <1>3

(* The seeding commits.                                                    *)
LEMMA CommitStands ==
  ASSUME StartupInv, NEW p \in Starters, Commit(p)
  PROVE  /\ StartupInv'
         /\ file' = view[p] /\ Keeps(view[p], file)
         /\ view[p].version = LatestVersion
<1>1. /\ pc[p] = "Seeding" /\ StartsRight(p) /\ Sourced(view[p], original) /\ writer = p
      /\ view[p].version = LatestVersion /\ ~Contradictory(original)
      /\ ~file.taken /\ Keeps(view[p], file)
  BY DEF Commit, StartupInv, StartsRight, Current
<1>2. /\ file' = view[p] /\ writer' = NoOne /\ Goes(p, "Ready")
      /\ UNCHANGED <<original, backups, from, view>>
  BY DEF Commit
<1>3. /\ pc' \in [Starters -> Working \cup Ended] /\ pc'[p] = "Ready"
      /\ \A q \in Starters \ {p} : pc'[q] = pc[q]
  BY <1>2 DEF Goes, StartupInv, Ended
<1>4. StartsRight(p)'
  <2>1. ~Contradictory(original') /\ writer' # p
    BY <1>1, <1>2, StartupAssumption
  <2>2. QED
    BY <1>1, <1>2, <1>3, <2>1 DEF StartsRight, Current, Old
<1>5. ASSUME NEW q \in Starters
      PROVE  \/ pc'[q] = pc[q] /\ pc[q] \notin {"Migrating", "Seeding"}
             \/ StartsRight(q)'
  <2>1. CASE q = p
    BY <1>4, <2>1
  <2>2. CASE q # p
    BY <1>1, <1>3, <2>2 DEF StartupInv, StartsRight
  <2>3. QED
    BY <2>1, <2>2
<1>6. Seedable(file)
  BY <1>1 DEF Seedable
<1>7. StartupInv'
  BY <1>1, <1>2, <1>3, <1>5, <1>6, StartupChanges
<1>8. QED
  BY <1>1, <1>2, <1>7

(* The work of a running server.                                           *)
LEMMA ServesStands ==
  ASSUME StartupInv, NEW db, Serves(db), Sourced(db, original), db.version = file.version,
         ~HasCatalog(file) /\ ~Seedable(file) => ~HasCatalog(db) /\ ~Seedable(db)
  PROVE  StartupInv'
<1>1. PICK p \in Starters : pc[p] = "Ready"
  BY DEF Serves
<1>2. file.version = LatestVersion /\ ~Contradictory(original)
  BY <1>1 DEF StartupInv, StartsRight, Current
<1>3. /\ writer = NoOne /\ writer' = NoOne /\ file' = db
      /\ original' = original /\ backups' = backups /\ pc' = pc /\ from' = from /\ view' = view
  BY DEF Serves
<1>4. ASSUME NEW q \in Starters PROVE pc'[q] = pc[q] /\ pc[q] \notin {"Migrating", "Seeding"}
  BY <1>3, StartupAssumption DEF StartupInv, StartsRight
<1>5. pc' \in [Starters -> Working \cup Ended]
  BY <1>3 DEF StartupInv
<1>6. QED
  BY <1>2, <1>3, <1>4, <1>5, StartupChanges

(* An order ends or is reviewed, the catalogue is emptied, somebody registers. *)
LEMMA ServingStands ==
  ASSUME StartupInv, (\E o \in file.orders : Settle(o) \/ Review(o)) \/ EmptyCatalog \/ Register
  PROVE  StartupInv' /\ Keeps(file', file) /\ file'.version = file.version
<1>1. Sourced(file, original) /\ file \in Database
  BY DEF StartupInv, Sourced
<1>2. (\E p \in Starters : pc[p] = "Ready") => file.version = LatestVersion
  BY DEF StartupInv, StartsRight, Current
<1>3. ASSUME NEW o \in file.orders, Settle(o)
      PROVE  StartupInv' /\ Keeps(file', file) /\ file'.version = file.version
  <2> DEFINE db == [file EXCEPT !.orders = (@ \ {o}) \cup {[o EXCEPT !.active = FALSE]}]
  <2>1. Serves(db) /\ file.version >= 6
    BY <1>2, <1>3 DEF Settle, Serves, LatestVersion
  <2>2. Sourced(db, original) /\ Keeps(db, file)
    BY <1>1, <2>1, SettledIsSourced
  <2>3. db.version = file.version /\ db.stations = file.stations /\ db.demo = file.demo
        /\ db.taken = file.taken
    BY <1>1 DEF Database
  <2> HIDE DEF db
  <2>4. file' = db
    BY <2>1 DEF Serves
  <2>5. QED
    BY <2>1, <2>2, <2>3, <2>4, ServesStands DEF HasCatalog, Seedable
<1>4. CASE EmptyCatalog
  <2> DEFINE db == [file EXCEPT !.stations = FALSE]
  <2>1. Serves(db)
    BY <1>4 DEF EmptyCatalog
  <2>2. /\ db \in Database /\ db.version = file.version /\ db.users = file.users
        /\ db.orders = file.orders /\ db.records = file.records /\ db.drift = file.drift
        /\ ~db.stations /\ db.demo = file.demo /\ db.taken = file.taken
        /\ db.reviews = file.reviews /\ db.reviewed = file.reviewed
    BY <1>1 DEF Database
  <2> HIDE DEF db
  <2>3. Sourced(db, original) /\ Keeps(db, file)
    BY <1>1, <2>2, SameRowsAreSourced, KeepsItself DEF Orphans
  <2>4. file' = db
    BY <2>1 DEF Serves
  <2>5. QED
    BY <2>1, <2>2, <2>3, <2>4, ServesStands DEF HasCatalog, Seedable
<1>5. CASE Register
  <2> DEFINE db == [file EXCEPT !.taken = TRUE]
  <2>1. Serves(db)
    BY <1>5 DEF Register
  <2>2. /\ db \in Database /\ db.version = file.version /\ db.users = file.users
        /\ db.orders = file.orders /\ db.records = file.records /\ db.drift = file.drift
        /\ db.stations = file.stations /\ db.demo = file.demo /\ db.taken
        /\ db.reviews = file.reviews /\ db.reviewed = file.reviewed
    BY <1>1 DEF Database
  <2> HIDE DEF db
  <2>3. Sourced(db, original) /\ Keeps(db, file)
    BY <1>1, <2>2, SameRowsAreSourced, KeepsItself DEF Orphans
  <2>4. file' = db
    BY <2>1 DEF Serves
  <2>5. QED
    BY <2>1, <2>2, <2>3, <2>4, ServesStands DEF HasCatalog, Seedable
<1>6. ASSUME NEW o \in file.orders, Review(o)
      PROVE  StartupInv' /\ Keeps(file', file) /\ file'.version = file.version
  <2> DEFINE db == [file EXCEPT !.reviewed = TRUE]
  <2>1. Serves(db) /\ file.reviews = "sound"
    BY <1>6 DEF Review
  <2>2. /\ db \in Database /\ db.version = file.version /\ db.users = file.users
        /\ db.orders = file.orders /\ db.records = file.records /\ db.drift = file.drift
        /\ db.stations = file.stations /\ db.demo = file.demo /\ db.taken = file.taken
        /\ db.reviews = file.reviews /\ db.reviewed
    BY <1>1 DEF Database
  <2> HIDE DEF db
  <2>3. Sourced(db, original) /\ Keeps(db, file)
    BY <1>1, <2>1, <2>2, SameRowsAreSourced, KeepsItself DEF Orphans
  <2>4. file' = db
    BY <2>1 DEF Serves
  <2>5. QED
    BY <2>1, <2>2, <2>3, <2>4, ServesStands DEF HasCatalog, Seedable
<1>7. QED
  BY <1>3, <1>4, <1>5, <1>6
-----------------------------------------------------------------------------
(* Every step of a start keeps the invariant of the start.                 *)
LEMMA StartupStands == StartupInv /\ [NextStartup]_startupVars => StartupInv'
<1> SUFFICES ASSUME StartupInv, [NextStartup]_startupVars PROVE StartupInv'
  OBVIOUS
<1>1. CASE UNCHANGED startupVars
  <2>1. /\ original' = original /\ file' = file /\ backups' = backups /\ pc' = pc
        /\ from' = from /\ view' = view /\ writer' = writer
    BY <1>1 DEF startupVars
  <2>2. \A q \in Starters : StartsRight(q)'
    BY <2>1, StandsStill DEF StartupInv
  <2>3. \A q \in Starters : Sourced(view[q], original)'
    BY <2>1 DEF StartupInv
  <2>4. (file = original \/ (file.version = LatestVersion /\ ~Contradictory(original)))'
    BY <2>1 DEF StartupInv
  <2>5. Sourced(file, original)'
    BY <2>1 DEF StartupInv
  <2>6. QED
    BY <2>1, <2>2, <2>3, <2>4, <2>5 DEF StartupInv
<1>2. ASSUME NEW p \in Starters,
             \/ Open(p) \/ Inspect(p) \/ BackUp(p) \/ BackUpFails(p)
             \/ BeginMigration(p) \/ Repair(p) \/ IsBusy(p)
             \/ BeginSeed(p) \/ Fails(p) \/ Crash(p)
      PROVE  StartupInv'
  BY <1>2, OpenStands, InspectStands, BackUpStands, FailureStands, BeginStands, RepairStands
<1>3. ASSUME NEW p \in Starters,
             \/ MigrateUsers(p) \/ MigrateCharging(p) \/ MigrateReservationOrders(p)
             \/ MigrateV5ToV6(p) \/ MigrateV6ToV7(p) \/ MigrateUserSchema(p) \/ ExtendSchema(p)
      PROVE  StartupInv'
  BY <1>3, MigrationStands
<1>4. ASSUME NEW p \in Starters, FinishMigration(p) \/ Populate(p) \/ Create(p) \/ Commit(p)
      PROVE  StartupInv'
  BY <1>4, FinishStands, PopulateStands, CreateStands, CommitStands
<1>5. CASE (\E o \in file.orders : Settle(o) \/ Review(o)) \/ EmptyCatalog \/ Register
  BY <1>5, ServingStands
<1>6. QED
  BY <1>1, <1>2, <1>3, <1>4, <1>5 DEF NextStartup

(* Whatever starts, fails and dies on the file: each process has a view of *)
(* a database that succeeds the first one, and has got only where the file *)
(* allows it.                                                              *)
THEOREM StartupInvariantHolds == StartupSpec => []StartupInv
<1>1. StartupInv /\ [NextStartup]_startupVars => StartupInv'
  BY StartupStands
<1>2. QED
  BY <1>1, StartupBegins, PTL DEF StartupSpec

(* Every charging_record becomes one order, however often the import of    *)
(* the migration is started, interrupted and repeated.                     *)
THEOREM EveryRecordIsAnOrder == StartupSpec => []RecordsAreOrders
<1>1. ASSUME StartupInv, file.version >= 6 PROVE AllImported(file)
  <2>1. /\ Sourced(file, original) /\ OneKey(file.orders) /\ Traced(file) /\ Complete(file)
        /\ file.records = original.records /\ file \in Database
        /\ \A r, s \in original.records : r.id = s.id => r = s
    BY <1>1, DatabasesAssumption DEF StartupInv, Sourced
  <2>2. ASSUME NEW r \in file.records
        PROVE  \E o \in file.orders :
                 /\ o.key = <<"charging_record", r.id>>
                 /\ o.user = r.user /\ o.charger = r.charger
                 /\ o.active => r.active
    <3> DEFINE IsOf(o, s) == /\ o.user = s.user /\ o.charger = s.charger
                             /\ o.active => s.active
    <3>1. PICK o \in file.orders : o.key = <<"charging_record", r.id>>
      BY <2>1 DEF Complete
    <3>2. o.key[1] = "charging_record" /\ o.key[2] = r.id
      BY <3>1
    <3>3. PICK s \in file.records : s.id = r.id /\ IsOf(o, s)
      BY <2>1, <3>2 DEF Traced
    <3>4. s = r
      BY <2>1, <3>3
    <3> HIDE DEF IsOf
    <3>5. IsOf(o, r)
      BY <3>3, <3>4
    <3>6. QED
      BY <3>1, <3>5 DEF IsOf
  <2>3. \A o \in file.orders :
          o.key[1] = "charging_record" => \E r \in file.records : r.id = o.key[2]
    BY <2>1 DEF Traced
  <2>4. QED
    BY <2>1, <2>2, <2>3 DEF AllImported
<1>2. StartupInv => RecordsAreOrders
  BY <1>1 DEF RecordsAreOrders
<1>3. QED
  BY <1>2, StartupInvariantHolds, PTL

(* A start is refused only for what its operator has to decide, or because *)
(* its own step from version 5 came too late for reviews that were written *)
(* meanwhile; and data that contradicts itself is left as it was.          *)
THEOREM RefusalsHaveCause == StartupSpec => []RefusedForCause
<1>1. StartupInv => RefusedForCause
  BY DEF StartupInv, StartsRight, RefusedForCause
<1>2. QED
  BY <1>1, StartupInvariantHolds, PTL

(* What a step does to the file: nothing, or it keeps what counts, and if  *)
(* the version changes the first database has been backed up.              *)
LEMMA FileIsKept ==
  ASSUME StartupInv, [NextStartup]_startupVars
  PROVE  /\ Keeps(file', file)
         /\ file.version \in 1..LatestVersion /\ file'.version # file.version
              => file \in backups
<1>1. CASE file' = file
  BY <1>1, KeepsItself
<1>2. ASSUME NEW p \in Starters, FinishMigration(p), file' # file
      PROVE  /\ Keeps(file', file)
             /\ file.version \in 1..LatestVersion /\ file'.version # file.version
                  => file \in backups
  <2>1. /\ file' = view[p] /\ Keeps(view[p], file)
        /\ file.version = LatestVersion \/ original \in backups
    BY <1>2, FinishStands
  <2>2. view[p].version = LatestVersion
    BY <1>2 DEF FinishMigration, StartupInv, StartsRight, LatestVersion, Old
  <2>3. file = original \/ file.version = LatestVersion
    BY DEF StartupInv
  <2>4. QED
    BY <2>1, <2>2, <2>3
<1>3. ASSUME NEW p \in Starters, Commit(p)
      PROVE  /\ Keeps(file', file)
             /\ file.version \in 1..LatestVersion /\ file'.version # file.version
                  => file \in backups
  <2>1. /\ file' = view[p] /\ Keeps(view[p], file) /\ view[p].version = LatestVersion
    BY <1>3, CommitStands
  <2>2. file.version \in {0, LatestVersion}
    BY <1>3 DEF Commit, StartupInv, StartsRight
  <2>3. QED
    BY <2>1, <2>2 DEF LatestVersion
<1>4. CASE (\E o \in file.orders : Settle(o) \/ Review(o)) \/ EmptyCatalog \/ Register
  BY <1>4, ServingStands
<1>5. ASSUME NextStartup, file' # file
      PROVE  \/ \E p \in Starters : FinishMigration(p) \/ Commit(p)
             \/ (\E o \in file.orders : Settle(o) \/ Review(o)) \/ EmptyCatalog \/ Register
  BY <1>5 DEF NextStartup, Open, Inspect, BackUp, BackUpFails, BeginMigration, Begins, Repair,
              IsBusy, MigrateUsers, MigrateCharging, MigrateReservationOrders, MigrateV5ToV6,
              MigrateV6ToV7, MigrateUserSchema, ExtendSchema, Migrates, RollsBack, BeginSeed, Populate, Create,
              Fails, Crash
<1>6. CASE UNCHANGED startupVars
  BY <1>1, <1>6 DEF startupVars
<1>7. QED
  BY <1>1, <1>2, <1>3, <1>4, <1>5, <1>6

(* No start loses an account, a usable phone number, an order or a review, *)
(* and none makes an order run again that has ended meanwhile.             *)
THEOREM NothingIsLost == StartupSpec => HistoryIsKept
<1>1. ASSUME StartupInv, StartupInv', [NextStartup]_startupVars
      PROVE  /\ \A i \in DOMAIN file.users :
                  /\ i \in DOMAIN file'.users
                  /\ file.users[i].phone \in Mobiles => file'.users[i].phone = file.users[i].phone
             /\ \A o \in file.orders :
                  \E n \in file'.orders :
                    /\ n.key = o.key /\ n.user = o.user /\ n.charger = o.charger
                    /\ n.active => o.active
             /\ file.reviewed => file'.reviewed
  <2>1. Keeps(file', file)
    BY <1>1, FileIsKept
  <2>2. DOMAIN file'.users = DOMAIN original'.users /\ DOMAIN file.users = DOMAIN original.users
    BY <1>1 DEF StartupInv, Sourced
  <2>3. original' = original
    BY <1>1 DEF NextStartup, startupVars, Open, Inspect, BackUp, BackUpFails, BeginMigration,
                Begins, Repair, IsBusy, MigrateUsers, MigrateCharging, MigrateReservationOrders,
                MigrateV5ToV6, MigrateV6ToV7, MigrateUserSchema, ExtendSchema, Migrates, RollsBack,
                FinishMigration, BeginSeed, Populate, Create, Commit, Fails, Crash, Settle,
                Review, EmptyCatalog, Register, Serves
  <2>4. QED
    BY <2>1, <2>2, <2>3 DEF Keeps
<1>2. QED
  BY <1>1, StartupInvariantHolds, PTL DEF HistoryIsKept, StartupSpec

(* No content is replaced by a migration before it has been copied.        *)
THEOREM CopiesComeFirst == StartupSpec => BackedUpFirst
<1>1. ASSUME StartupInv, [NextStartup]_startupVars
      PROVE  file.version \in 1..LatestVersion /\ file'.version # file.version => file \in backups
  BY <1>1, FileIsKept
<1>2. QED
  BY <1>1, StartupInvariantHolds, PTL DEF BackedUpFirst, StartupSpec
=============================================================================

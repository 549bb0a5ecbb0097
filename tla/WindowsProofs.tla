----------------------------- MODULE WindowsProofs -----------------------------
(***************************************************************************)
(* The windows of the user's program: no request is waited for unwatched,  *)
(* a plan drives only its own charger, a wallet knows of every recharge,   *)
(* and reminders that are off stay silent.  Only one window is used in a       *)
(* behaviour, so each has an invariant and a section of its own.           *)
(***************************************************************************)
EXTENDS UserWindows, LinkProofs

-----------------------------------------------------------------------------
(* The home window and the window of a station.                            *)

Actions == {"charge.reserve", "charge.start", "charge.cancel"}
OrderRecords == [charger : 0..MaxChargers, status : {"none", "reserved", "charging"}]
SignalsDue == {Nothing} \cup
  [window : {"charge.reserve", "charge.start"}, charger : 0..MaxChargers, plan : {0}]
WindowsOver == [window : {"none", "plans", "charging"},
                charger : 0..MaxChargers, plan : 0..MaxChargers]

StationWindow ==
  [open : BOOLEAN, pending : {"none"} \cup Actions, target : 0..MaxChargers, timer : BOOLEAN,
   detail : BOOLEAN, active : BOOLEAN, refresh : BOOLEAN, buttons : {"none", "on", "off"},
   mine : OrderRecords, plan : 0..MaxChargers, due : SignalsDue,
   over : WindowsOver, confirm : {"closed", "open", "pending"}]

HomeWindow ==
  [list : {"loading", "failed", "shown"}, cards : BOOLEAN, opening : BOOLEAN, timer : BOOLEAN,
   due : BOOLEAN, recovering : BOOLEAN, recovered : 0..MaxChargers]

StationCall == [route : StationRoutes, live : BOOLEAN, arg : 0..MaxChargers]
StationAnswer == [route : StationRoutes, live : BOOLEAN, ok : BOOLEAN, value : OrderRecords]

StationLinkOK == calls \in Seq(StationCall) /\ answers \in Seq(StationAnswer)

StationTypeOK ==
  /\ order \in OrderRecords /\ station \in StationWindow /\ home \in HomeWindow
  /\ StationLinkOK

\* What the station window waits for has a timer; while it waits for anything
\* its buttons are off, so that nothing else begins; and a plan belongs to the
\* reservation that is pending or to the charging dialog.
StationOK(s) ==
  /\ s.detail \/ s.active => s.refresh /\ s.buttons # "on"
  /\ s.pending # "none" => s.timer /\ s.buttons # "on" /\ ~s.detail /\ ~s.active
  /\ s.over.window = "plans" => s.pending = "none" /\ ~s.detail /\ ~s.active
  /\ s.confirm # "closed" => /\ s.pending \in {"none", "charge.cancel"} /\ ~s.detail /\ ~s.active
                              /\ s.over.window = "none"
  /\ s.confirm = "open" => s.pending = "none"
  /\ s.pending = "charge.cancel" => s.confirm = "pending"
  /\ s.over.window = "charging" =>
       s.over.plan \in {0, s.over.charger} /\ s.pending \notin {"charge.reserve", "charge.start"}
  /\ s.plan # 0 => \/ s.pending = "charge.reserve" /\ s.target = s.plan
                   \/ s.over.window = "charging"

HomeOK(h, W) ==
  /\ h.list = "loading" => "station.list" \in W
  /\ h.opening => h.timer
  /\ h.recovering => "charge.active" \in W

StationInv == StationTypeOK /\ StationOK(station) /\ HomeOK(home, waiting)

(* Zero stands for no charger.                                             *)
LEMMA NoCharger == 0 \in 0..MaxChargers /\ NoOrder \in OrderRecords /\ Nothing \in WindowsOver
BY ChargersAssumption DEF NoOrder, OrderRecords, Nothing, WindowsOver

(* A window that forgets the action it waits for stays a good one, also    *)
(* when its confirmation may be answered again.                            *)
LEMMA ResetIsGood ==
  ASSUME NEW s \in StationWindow, StationOK(s), ~s.detail, ~s.active,
         NEW u \in {s, ConfirmFailed(s)}
  PROVE  ResetAction(u) \in StationWindow /\ StationOK(ResetAction(u))
<1> DEFINE t == ResetAction(u)
<1>1. /\ u \in StationWindow
      /\ u.pending = s.pending /\ u.plan = s.plan /\ u.over = s.over
      /\ ~u.detail /\ ~u.active
      /\ u.confirm # "closed" => s.confirm # "closed"
  BY DEF StationWindow, ConfirmFailed
<1>2. /\ t.plan = IF u.pending = "charge.reserve" THEN 0 ELSE u.plan
      /\ t.pending = "none" /\ t.over = u.over /\ t.confirm = u.confirm
      /\ t.detail = u.detail /\ t.active = u.active
  BY <1>1 DEF StationWindow, ResetAction
<1>3. t \in StationWindow
  BY <1>1, NoCharger DEF StationWindow, ResetAction
<1>4. QED
  BY <1>1, <1>2, <1>3 DEF StationOK

(* So does one that gives up its refresh.                                  *)
LEMMA RefreshFailedIsGood ==
  ASSUME NEW s \in StationWindow, StationOK(s), NEW u \in {s, ConfirmFailed(s)}
  PROVE  RefreshFailed(u) \in StationWindow /\ StationOK(RefreshFailed(u))
<1> DEFINE t == [s EXCEPT !.detail = FALSE, !.active = FALSE]
           w == [u EXCEPT !.detail = FALSE, !.active = FALSE]
<1>1. t \in StationWindow /\ ~t.detail /\ ~t.active
  BY DEF StationWindow
<1>2. StationOK(t)
  BY DEF StationWindow, StationOK
<1>3. w \in {t, ConfirmFailed(t)}
  BY DEF StationWindow, ConfirmFailed
<1>4. ResetAction(w) \in StationWindow /\ StationOK(ResetAction(w))
  <2> HIDE DEF t, w
  <2>1. QED
    BY <1>1, <1>2, <1>3, ResetIsGood
<1>5. QED
  BY <1>4 DEF RefreshFailed

(* So does one that hears of a request that failed.                        *)
LEMMA StationFailedIsGood ==
  ASSUME NEW s \in StationWindow, StationOK(s), NEW r, r # "none"
  PROVE  StationFailed(s, r) \in StationWindow /\ StationOK(StationFailed(s, r))
<1>1. CASE s.open /\ r = s.pending
  <2>1. ~s.detail /\ ~s.active
    BY <1>1 DEF StationOK
  <2>2. StationFailed(s, r) = ResetAction(ConfirmFailed(s))
    BY <1>1, <2>1 DEF StationFailed, Refreshes
  <2>3. QED
    BY <2>1, <2>2, ResetIsGood
<1>2. CASE s.open /\ r # s.pending
  <2>1. StationFailed(s, r) \in {s, RefreshFailed(s)}
    BY <1>2 DEF StationFailed
  <2>2. QED
    BY <2>1, RefreshFailedIsGood
<1>0. CASE ~s.open
  BY <1>0 DEF StationFailed
<1>3. QED
  BY <1>0, <1>1, <1>2 DEF StationWindow

(* So does one that loses the connection.                                  *)
LEMMA StationOfflineIsGood ==
  ASSUME NEW s \in StationWindow, StationOK(s)
  PROVE  StationOffline(s) \in StationWindow /\ StationOK(StationOffline(s))
BY RefreshFailedIsGood DEF StationOffline

(* A refresh ends whatever was pending and switches the buttons off.       *)
LEMMA RefreshingIsGood ==
  ASSUME NEW s \in StationWindow, s.over.window = "none", s.plan = 0,
         s.confirm = "closed", NEW b \in BOOLEAN
  PROVE  Refreshing(s, b) \in StationWindow /\ StationOK(Refreshing(s, b))
BY NoCharger DEF StationWindow, StationOK, Refreshing

(* The answers of a refresh end it.                                        *)
LEMMA RefreshedIsGood ==
  ASSUME NEW s \in StationWindow, StationOK(s), NEW o \in OrderRecords
  PROVE  /\ StationDetailReceived(s) \in StationWindow /\ StationOK(StationDetailReceived(s))
         /\ ActiveReceived(s, o) \in StationWindow /\ StationOK(ActiveReceived(s, o))
BY ZenonT(40) DEF StationWindow, StationOK, StationDetailReceived, ActiveReceived, Refreshed, ChargersRendered

(* A signal that is due opens the charging dialog with a plan of its       *)
(* charger, or is dropped.                                                 *)
LEMMA SignalledIsGood ==
  ASSUME NEW s \in StationWindow, StationOK(s), s.due # Nothing
  PROVE  Signalled(s) \in StationWindow /\ StationOK(Signalled(s))
<1> DEFINE n == [s EXCEPT !.pending = "none", !.target = 0, !.due = Nothing]
           t == Charging(n, s.due.charger)
<1>1. s.due.window \in {"charge.reserve", "charge.start"} /\ s.due.charger \in 0..MaxChargers
  BY DEF StationWindow, SignalsDue
<1>2. CASE s.pending = s.due.window /\ s.target = s.due.charger
  <2>1. n \in StationWindow /\ n.plan = s.plan /\ n.plan \in 0..MaxChargers
    <3>1. Nothing \in SignalsDue
      BY DEF SignalsDue
    <3>2. QED
      BY <3>1, NoCharger DEF StationWindow
  <2>2. /\ t.over = [window |-> "charging", charger |-> s.due.charger, plan |-> s.plan]
        /\ t.pending = "none" /\ t.detail = s.detail /\ t.active = s.active
        /\ t.confirm = s.confirm
    BY DEF StationWindow, Charging
  <2>3. t.over \in WindowsOver
    BY <1>1, <2>1, <2>2 DEF WindowsOver
  <2>4. t \in StationWindow
    BY <2>1, <2>2, <2>3 DEF StationWindow, Charging
  <2>5. s.plan \in {0, s.due.charger} /\ ~s.detail /\ ~s.active /\ s.confirm = "closed"
    BY <1>1, <1>2 DEF StationOK
  <2>6. QED
    BY <1>2, <2>2, <2>4, <2>5 DEF StationOK, Signalled
<1>3. CASE ~(s.pending = s.due.window /\ s.target = s.due.charger)
  <2>1. Signalled(s) = [s EXCEPT !.due = Nothing]
    BY <1>3 DEF Signalled
  <2>2. QED
    BY <2>1 DEF StationWindow, StationOK, SignalsDue
<1>4. QED
  BY <1>2, <1>3

(* An action begins, with a plan of its charger or with none, or it fails  *)
(* on the spot.                                                            *)
LEMMA ActionIsGood ==
  ASSUME NEW s \in StationWindow, s.pending = "none", ~s.detail, ~s.active,
         s.over.window = "none",
         NEW r \in Actions, NEW c \in 0..MaxChargers,
         s.plan \in IF r = "charge.reserve" THEN {0, c} ELSE {0},
         s.confirm = IF r = "charge.cancel" THEN "pending" ELSE "closed"
  PROVE  LET b == BeginAction(s, r, c)
         IN  /\ b \in StationWindow /\ StationOK(b)
             /\ StationFailed(b, r) \in StationWindow
             /\ StationOK(StationFailed(b, r))
<1> DEFINE b == BeginAction(s, r, c)
<1>1. b \in StationWindow /\ StationOK(b)
  BY DEF StationWindow, StationOK, BeginAction, Actions
<1>2. r # "none"
  BY DEF Actions
<1>3. QED
  BY <1>1, <1>2, StationFailedIsGood

(* The messages of this window are messages of the link.                   *)
LEMMA StationMessages == Messages(StationCall) /\ Messages(StationAnswer)
BY DEF Messages, StationCall, StationAnswer

(* Messages stay messages when some of them are given up.                  *)
LEMMA OrphanedAllStays ==
  ASSUME NEW M, Messages(M), NEW q \in Seq(M), NEW R
  PROVE  OrphanedAll(q, R) \in Seq(M)
<1> DEFINE o == OrphanedAll(q, R)
<1>1. q \in [1..Len(q) -> M] /\ DOMAIN q = 1..Len(q) /\ Len(q) \in Nat
  OBVIOUS
<1>2. \A i \in 1..Len(q) : o[i] \in M
  BY <1>1 DEF OrphanedAll, Messages
<1>3. o \in [1..Len(q) -> M]
  BY <1>1, <1>2 DEF OrphanedAll
<1>4. QED
  BY <1>1, <1>3, SeqDef

(* The queries of several routes are requests.                             *)
LEMMA QueriedStays ==
  ASSUME NEW q \in Seq(StationCall), NEW rs \in Seq(StationRoutes)
  PROVE  Queried(q, rs) \in Seq(StationCall)
<1> DEFINE n == [i \in DOMAIN rs |-> [route |-> rs[i], live |-> TRUE, arg |-> 0]]
<1>1. n \in Seq(StationCall)
  <2>1. DOMAIN rs = 1..Len(rs) /\ Len(rs) \in Nat /\ \A i \in 1..Len(rs) : rs[i] \in StationRoutes
    OBVIOUS
  <2>2. n \in [1..Len(rs) -> StationCall]
    BY <2>1, NoCharger DEF StationCall
  <2>3. QED
    BY <2>1, <2>2, SeqDef
<1>2. OrphanedAll(q, Range(rs)) \in Seq(StationCall)
  BY OrphanedAllStays, StationMessages
<1>3. QED
  BY <1>1, <1>2 DEF Queried

(* A request is sent, or one like it waits.                                *)
LEMMA StationSends ==
  ASSUME StationLinkOK, NEW r \in StationRoutes, NEW a \in 0..MaxChargers, Send(r, a)
  PROVE  StationLinkOK' /\ waiting' = waiting \cup {r}
<1> DEFINE m == [route |-> r, live |-> TRUE, arg |-> a]
<1>1. CASE Suppressed(r)
  BY <1>1 DEF StationLinkOK, Send, Suppressed
<1>2. CASE ~Suppressed(r)
  <2>1. /\ waiting' = waiting \cup {r}
        /\ calls' = Append(Orphaned(calls, r), m) /\ answers' = Orphaned(answers, r)
    BY <1>2 DEF Send, Asks
  <2>2. Orphaned(calls, r) \in Seq(StationCall) /\ Orphaned(answers, r) \in Seq(StationAnswer)
    BY OrphanedLeaves, StationMessages DEF StationLinkOK
  <2>3. m \in StationCall
    BY DEF StationCall
  <2>4. Append(Orphaned(calls, r), m) \in Seq(StationCall)
    <3> HIDE DEF m
    <3>1. QED
      BY <2>2, <2>3
  <2>5. QED
    BY <2>1, <2>2, <2>4 DEF StationLinkOK
<1>3. QED
  BY <1>1, <1>2

(* Several queries are sent.                                               *)
LEMMA StationSendsAll ==
  ASSUME StationLinkOK, NEW rs \in Seq(StationRoutes), SendAll(rs)
  PROVE  StationLinkOK' /\ waiting' = waiting \cup Range(rs)
BY QueriedStays, OrphanedAllStays, StationMessages DEF StationLinkOK, SendAll

(* The next answer is the oldest, and the others stay.                     *)
LEMMA StationHears ==
  ASSUME StationLinkOK, answers # <<>>
  PROVE  Head(answers) \in StationAnswer /\ Tail(answers) \in Seq(StationAnswer)
BY HeadTailProperties DEF StationLinkOK

(* An answer ends the wait of its route only.                              *)
LEMMA StationArrives ==
  ASSUME StationLinkOK, Arrives
  PROVE  /\ StationLinkOK' /\ answers # <<>> /\ Head(answers) \in StationAnswer
         /\ waiting' = IF Head(answers).live THEN waiting \ {Head(answers).route} ELSE waiting
BY StationHears DEF StationLinkOK, Arrives, Ends

(* The window that waited for the answer asks for what it shows.           *)
LEMMA StationArrivesThenAll ==
  ASSUME StationLinkOK, NEW rs \in Seq(StationRoutes), ArrivesThenAll(rs)
  PROVE  StationLinkOK' /\ waiting' = (waiting \ {Head(answers).route}) \cup Range(rs)
BY StationHears, QueriedStays, OrphanedAllStays, StationMessages DEF StationLinkOK, ArrivesThenAll

(* The server executes a request.                                          *)
LEMMA StationExecutes ==
  ASSUME StationLinkOK, NEW ok \in BOOLEAN, NEW v \in OrderRecords, Executes(ok, v)
  PROVE  StationLinkOK' /\ waiting' = waiting
<1> DEFINE m == [route |-> Head(calls).route, live |-> TRUE, ok |-> ok, value |-> v]
<1>1. /\ calls # <<>> /\ calls' = Tail(calls) /\ waiting' = waiting
      /\ answers' = IF Head(calls).live THEN Append(answers, m) ELSE answers
  BY DEF Executes
<1>2. Head(calls) \in StationCall /\ calls' \in Seq(StationCall)
  BY <1>1, HeadTailProperties DEF StationLinkOK
<1>3. m \in StationAnswer
  BY <1>2 DEF StationCall, StationAnswer
<1>4. answers' \in Seq(StationAnswer)
  <2> HIDE DEF m
  <2>1. QED
    BY <1>1, <1>3 DEF StationLinkOK
<1>5. QED
  BY <1>1, <1>2, <1>4 DEF StationLinkOK

(* A request is given up.                                                  *)
LEMMA StationGivesUp ==
  ASSUME StationLinkOK, NEW r, GivesUp(r)
  PROVE  StationLinkOK' /\ waiting' = waiting \ {r}
BY OrphanedLeaves, StationMessages DEF StationLinkOK, GivesUp, Ends

(* The connection breaks.                                                  *)
LEMMA StationBreaks ==
  ASSUME StationLinkOK, NEW n \in 0..Len(calls), Breaks(n)
  PROVE  StationLinkOK' /\ waiting' = {}
<1>1. SubSeq(calls, 1, n) \in Seq(StationCall)
  BY SubSeqProperties DEF StationLinkOK
<1>2. AllOrphaned(SubSeq(calls, 1, n)) \in Seq(StationCall)
  BY <1>1, AllOrphanedLeaves, StationMessages
<1>3. QED
  BY <1>2 DEF StationLinkOK, Breaks, EndAll

-----------------------------------------------------------------------------
(* The steps of the two windows.                                           *)

\* the window that is opened, or that nothing waits for any more
NewStation == [ClosedStation EXCEPT !.open = TRUE]

(* A closed window is a good one, and so is one just opened.               *)
LEMMA ClosedIsGood ==
  /\ ClosedStation \in StationWindow /\ StationOK(ClosedStation)
  /\ NewStation \in StationWindow /\ NewStation.over.window = "none" /\ NewStation.plan = 0
  /\ NewStation.confirm = "closed"
<1>1. Nothing \in SignalsDue /\ Nothing.window = "none"
  BY DEF SignalsDue, Nothing
<1>2. QED
  BY <1>1, NoCharger DEF ClosedStation, NewStation, StationWindow, StationOK

(* The queries of the two windows are of their routes.                     *)
LEMMA StationQueries ==
  /\ HomeQueries \in Seq(StationRoutes) /\ Range(HomeQueries) = {"station.list"}
  /\ <<"station.detail", "charge.active">> \in Seq(StationRoutes)
  /\ Range(<<"station.detail", "charge.active">>) = {"station.detail", "charge.active"}
  /\ <<"charge.active">> \in Seq(StationRoutes)
  /\ Range(<<"charge.active">>) = {"charge.active"}
  /\ FirstQueries \in Seq(StationRoutes)
  /\ Range(FirstQueries) = {"station.list", "charge.active"}
BY DEF HomeQueries, FirstQueries, StationRoutes, Range

(* The windows begin well.                                                 *)
LEMMA StationStarts == Init /\ screen = "station" => StationInv
<1> SUFFICES ASSUME Init, screen = "station" PROVE StationInv
  OBVIOUS
<1>1. order \in OrderRecords
  BY NoCharger DEF Init, InitStation, OrderRecords, Chargers
<1>2. station \in StationWindow /\ StationOK(station)
  BY ClosedIsGood DEF Init, InitStation
<1>3. StationLinkOK /\ waiting = {"station.list", "charge.active"}
  <2>1. calls = Queried(<<>>, FirstQueries) /\ answers = <<>> /\ waiting = Range(FirstQueries)
    BY DEF Init
  <2>2. Queried(<<>>, FirstQueries) \in Seq(StationCall)
    <3>1. <<>> \in Seq(StationCall)
      OBVIOUS
    <3>2. QED
      BY <3>1, QueriedStays, StationQueries
  <2>3. QED
    BY <2>1, <2>2, StationQueries DEF StationLinkOK
<1>4. home \in HomeWindow /\ HomeOK(home, waiting)
  BY <1>3, NoCharger DEF Init, InitStation, HomeWindow, HomeOK
<1>5. QED
  BY <1>1, <1>2, <1>3, <1>4 DEF StationInv, StationTypeOK

(* The steps that leave the queues alone.                                  *)
LEMMA StationQuietly ==
  ASSUME StationInv, UNCHANGED link,
         order' \in OrderRecords, station' \in StationWindow, StationOK(station'),
         home' \in HomeWindow,
         home'.list = "loading" => home.list = "loading",
         home'.opening => home'.timer,
         home'.recovering => home.recovering
  PROVE  StationInv'
<1>1. StationLinkOK' /\ waiting' = waiting
  BY DEF link, StationInv, StationTypeOK, StationLinkOK
<1>2. HomeOK(home', waiting')
  BY <1>1 DEF StationInv, HomeOK
<1>3. StationOK(station)' /\ HomeOK(home, waiting)'
  BY <1>2
<1>4. QED
  BY <1>1, <1>3 DEF StationInv, StationTypeOK

(* The server's steps: a request, and a reservation that lapses.           *)
LEMMA StationServed ==
  ASSUME StationInv,
         (\E ok \in BOOLEAN : calls # <<>> /\ ServeStation(ok)) \/ ReservationLapses
  PROVE  StationInv'
<1>1. CASE ReservationLapses
  <2>1. order' \in OrderRecords /\ UNCHANGED <<link, station, home>>
    BY <1>1, NoCharger DEF ReservationLapses
  <2>2. QED
    BY <2>1, StationQuietly DEF StationInv, StationTypeOK, HomeOK
<1>2. ASSUME NEW ok \in BOOLEAN, calls # <<>>, ServeStation(ok)
      PROVE  StationInv'
  <2> DEFINE c == Head(calls)
  <2>1. c \in StationCall /\ order \in OrderRecords
    BY <1>2, HeadTailProperties DEF StationInv, StationTypeOK, StationLinkOK
  <2>2. OrderAfter(c) \in OrderRecords /\ Record(c) \in OrderRecords
    BY <2>1, NoCharger DEF OrderAfter, Record, StationCall, OrderRecords
  <2>3. /\ order' \in OrderRecords /\ UNCHANGED <<station, home>>
        /\ Executes(ok, IF ok THEN Record(c) ELSE NoOrder)
    BY <1>2, <2>1, <2>2 DEF ServeStation
  <2>4. StationLinkOK' /\ waiting' = waiting
    BY <2>2, <2>3, NoCharger, StationExecutes DEF StationInv, StationTypeOK
  <2>5. QED
    BY <2>3, <2>4 DEF StationInv, StationTypeOK, StationOK, HomeOK
<1>3. QED
  BY <1>1, <1>2

(* An action of the window: its request and its wait.                      *)
LEMMA ActsKeeps ==
  ASSUME StationInv,
         NEW s \in StationWindow, s.pending = "none", ~s.detail, ~s.active,
         s.over.window = "none",
         NEW r \in Actions, NEW c \in 0..MaxChargers,
         s.plan \in IF r = "charge.reserve" THEN {0, c} ELSE {0},
         s.confirm = IF r = "charge.cancel" THEN "pending" ELSE "closed",
         Acts(s, r, c), UNCHANGED <<order, home>>
  PROVE  StationInv'
<1>1. station' \in StationWindow /\ StationOK(station')
  BY ActionIsGood DEF Acts
<1>2. StationLinkOK' /\ waiting' \in {waiting, waiting \cup {r}}
  <2>1. CASE connected
    <3>1. Send(r, c) /\ r \in StationRoutes
      BY <2>1 DEF Acts, Actions, StationRoutes
    <3>2. QED
      BY <3>1, StationSends DEF StationInv, StationTypeOK
  <2>2. CASE ~connected
    BY <2>2 DEF Acts, link, StationInv, StationTypeOK, StationLinkOK
  <2>3. QED
    BY <2>1, <2>2
<1>3. HomeOK(home, waiting)' /\ StationOK(station)'
  BY <1>1, <1>2 DEF StationInv, HomeOK
<1>4. QED
  BY <1>1, <1>2, <1>3 DEF StationInv, StationTypeOK

(* Where nothing modal is open and the buttons are on, nothing is pending  *)
(* and no plan is kept.                                                    *)
LEMMA FreeIsIdle ==
  ASSUME StationInv, Free, station.buttons = "on"
  PROVE  /\ station.pending = "none" /\ ~station.detail /\ ~station.active
         /\ station.over.window = "none" /\ station.plan = 0 /\ station.confirm = "closed"
BY DEF StationInv, StationOK, Free, Nothing

(* The buttons of a charger, the plans and the cancel confirmation.        *)
LEMMA StationActs ==
  ASSUME StationInv,
         \/ \E c \in Chargers : ReserveClicked(c) \/ PlansClicked(c)
         \/ PlansClosed \/ StartClicked \/ ViewClicked \/ CancelClicked \/ ConfirmationAnswered
  PROVE  StationInv'
<1> USE DEF Actions
<1>0. /\ station \in StationWindow /\ station.mine.charger \in 0..MaxChargers
      /\ Nothing \in WindowsOver /\ Nothing.window = "none" /\ Chargers \subseteq 0..MaxChargers
      /\ order \in OrderRecords /\ home \in HomeWindow
  BY NoCharger DEF StationInv, StationTypeOK, StationWindow, OrderRecords, Nothing, Chargers
<1>1. ASSUME NEW c \in Chargers, ReserveClicked(c) PROVE StationInv'
  <2> DEFINE s == [station EXCEPT !.plan = 0]
  <2>1. /\ s \in StationWindow /\ s.pending = "none" /\ ~s.detail /\ ~s.active
        /\ s.over.window = "none" /\ s.plan = 0 /\ s.confirm = "closed"
    BY <1>0, <1>1, FreeIsIdle, NoCharger DEF ReserveClicked, StationWindow
  <2>2. Acts(s, "charge.reserve", c) /\ UNCHANGED <<order, home>> /\ c \in 0..MaxChargers
    BY <1>0, <1>1 DEF ReserveClicked
  <2> HIDE DEF s
  <2>3. QED
    BY <2>1, <2>2, ActsKeeps
<1>2. ASSUME NEW c \in Chargers, PlansClicked(c) PROVE StationInv'
  <2> DEFINE w == [window |-> "plans", charger |-> c, plan |-> 0]
  <2>1. w \in WindowsOver
    BY <1>0, NoCharger DEF WindowsOver
  <2>2. station' = [station EXCEPT !.over = w] /\ UNCHANGED <<link, order, home>>
    BY <1>2 DEF PlansClicked
  <2>3. station' \in StationWindow /\ StationOK(station')
    BY <1>0, <1>2, <2>1, <2>2, FreeIsIdle
       DEF PlansClicked, Free, StationWindow, StationInv, StationOK
  <2>4. QED
    BY <1>0, <2>2, <2>3, StationQuietly DEF StationInv, HomeOK
<1>3. ASSUME PlansClosed PROVE StationInv'
  <2> DEFINE c == station.over.charger
             s == [station EXCEPT !.over = Nothing]
             t == [s EXCEPT !.plan = c]
  <2>1. /\ station.pending = "none" /\ ~station.detail /\ ~station.active
        /\ station.over.window = "plans" /\ station.plan = 0 /\ c \in 0..MaxChargers
        /\ station.confirm = "closed"
    BY <1>0, <1>3 DEF PlansClosed, StationInv, StationOK, StationWindow, WindowsOver
  <2>2. s \in StationWindow /\ StationOK(s)
    BY <1>0, <2>1 DEF StationWindow, StationInv, StationOK
  <2>3. /\ t \in StationWindow /\ t.pending = "none" /\ ~t.detail /\ ~t.active
        /\ t.over.window = "none" /\ t.plan = c /\ t.confirm = "closed"
    BY <1>0, <2>1 DEF StationWindow
  <2>4. CASE Acts(t, "charge.reserve", c)
    <3>1. UNCHANGED <<order, home>>
      BY <1>3 DEF PlansClosed
    <3> HIDE DEF t, c
    <3>2. QED
      BY <2>1, <2>3, <2>4, <3>1, ActsKeeps
  <2>5. CASE UNCHANGED link /\ station' = s
    <3>1. UNCHANGED <<link, order, home>>
      BY <1>3, <2>5 DEF PlansClosed
    <3>2. QED
      BY <1>0, <2>2, <2>5, <3>1, StationQuietly DEF StationInv, HomeOK
  <2>6. QED
    BY <1>3, <2>4, <2>5 DEF PlansClosed
<1>4. ASSUME StartClicked PROVE StationInv'
  <2>1. /\ Acts(station, "charge.start", station.mine.charger) /\ UNCHANGED <<order, home>>
        /\ Free /\ station.buttons = "on"
    BY <1>4 DEF StartClicked
  <2>2. QED
    BY <1>0, <2>1, FreeIsIdle, ActsKeeps
<1>5. ASSUME ViewClicked PROVE StationInv'
  <2> DEFINE w == [window |-> "charging", charger |-> station.mine.charger, plan |-> station.plan]
  <2>1. Free /\ station.buttons = "on" /\ station' = [station EXCEPT !.over = w]
    BY <1>5 DEF ViewClicked, Charging
  <2>2. w \in WindowsOver /\ station.plan = 0
    BY <1>0, <2>1, FreeIsIdle DEF WindowsOver, StationWindow
  <2>3. station' \in StationWindow /\ StationOK(station')
    BY <1>0, <2>1, <2>2, FreeIsIdle DEF StationWindow, StationInv, StationOK
  <2>4. UNCHANGED <<link, order, home>>
    BY <1>5 DEF ViewClicked
  <2>5. QED
    BY <1>0, <2>3, <2>4, StationQuietly DEF StationInv, HomeOK
<1>6. ASSUME CancelClicked PROVE StationInv'
  <2>1. /\ Free /\ station.buttons = "on" /\ station' = [station EXCEPT !.confirm = "open"]
        /\ UNCHANGED <<link, order, home>>
    BY <1>6 DEF CancelClicked
  <2>2. station' \in StationWindow /\ StationOK(station')
    BY <1>0, <2>1, FreeIsIdle DEF StationWindow, StationInv, StationOK
  <2>3. QED
    BY <1>0, <2>1, <2>2, StationQuietly DEF StationInv, HomeOK
<1>7. ASSUME ConfirmationAnswered PROVE StationInv'
  <2> DEFINE s == [station EXCEPT !.confirm = "pending"]
             t == [station EXCEPT !.confirm = "closed"]
  <2>1. /\ station.pending = "none" /\ ~station.detail /\ ~station.active
        /\ station.over.window = "none" /\ station.plan = 0
        /\ UNCHANGED <<order, home>>
    BY <1>7 DEF ConfirmationAnswered, StationInv, StationOK
  <2>2. CASE Acts(s, "charge.cancel", station.mine.charger)
    <3>1. /\ s \in StationWindow /\ s.pending = "none" /\ ~s.detail /\ ~s.active
          /\ s.over.window = "none" /\ s.plan = 0 /\ s.confirm = "pending"
      BY <1>0, <2>1 DEF StationWindow
    <3> HIDE DEF s
    <3>2. QED
      BY <1>0, <2>1, <2>2, <3>1, ActsKeeps
  <2>3. CASE UNCHANGED link /\ station' = t
    <3>1. t \in StationWindow /\ StationOK(t)
      BY <1>0, <2>1 DEF StationWindow, StationOK
    <3>2. QED
      BY <1>0, <2>1, <2>3, <3>1, StationQuietly DEF StationInv, HomeOK
  <2>4. QED
    BY <1>7, <2>2, <2>3 DEF ConfirmationAnswered
<1>8. QED
  BY <1>1, <1>2, <1>3, <1>4, <1>5, <1>6, <1>7

(* The windows that open and close, and the timers.                        *)
LEMMA StationMoves ==
  ASSUME StationInv,
         \/ OpenClicked \/ StationOpens \/ HomeTimer \/ SignalDue
         \/ ChargingClosed \/ RecoveredClosed \/ StationClosed
         \/ ActionTimer \/ RefreshTimer
  PROVE  StationInv'
<1>0. /\ station \in StationWindow /\ StationOK(station) /\ order \in OrderRecords
      /\ home \in HomeWindow /\ HomeOK(home, waiting) /\ StationLinkOK
      /\ "station.detail" \in StationRoutes /\ 0 \in 0..MaxChargers
  BY NoCharger DEF StationInv, StationTypeOK, StationRoutes
<1>a. ASSUME UNCHANGED link PROVE StationLinkOK' /\ waiting' = waiting
  BY <1>0, <1>a DEF link, StationLinkOK
<1>b. ASSUME NEW c \in 0..MaxChargers, OrderUsed(c) PROVE order' \in OrderRecords
  BY <1>0, <1>b, NoCharger DEF OrderUsed, OrderRecords
<1>c. ASSUME order' \in OrderRecords, station' \in StationWindow, StationOK(station'),
             home' \in HomeWindow, HomeOK(home', waiting'), StationLinkOK'
      PROVE  StationInv'
  BY <1>c DEF StationInv, StationTypeOK
<1>1. ASSUME OpenClicked PROVE StationInv'
  <2>1. home' \in HomeWindow /\ home'.list = home.list /\ home'.recovering = home.recovering
        /\ home'.timer /\ UNCHANGED <<order, station>>
    BY <1>0, <1>1 DEF OpenClicked, HomeWindow
  <2>2. StationLinkOK' /\ waiting \subseteq waiting'
    BY <1>0, <1>1, <1>a, StationSends DEF OpenClicked
  <2>3. QED
    BY <1>0, <1>c, <2>1, <2>2 DEF HomeOK
<1>2. ASSUME StationOpens PROVE StationInv'
  <2>1. home' \in HomeWindow /\ home'.list = home.list /\ home'.recovering = home.recovering
        /\ home'.opening = home.opening /\ home'.timer = home.timer /\ order' = order
    BY <1>0, <1>2 DEF StationOpens, HomeWindow
  <2>2. /\ Refreshing(NewStation, FALSE) \in StationWindow
        /\ StationOK(Refreshing(NewStation, FALSE))
    BY ClosedIsGood, RefreshingIsGood
  <2>3. station' \in StationWindow /\ StationOK(station')
    BY <1>2, <2>2, RefreshFailedIsGood DEF StationOpens, NewStation
  <2>4. StationLinkOK' /\ waiting \subseteq waiting'
    BY <1>0, <1>2, <1>a, StationSendsAll, StationQueries DEF StationOpens
  <2>5. QED
    BY <1>0, <1>c, <2>1, <2>3, <2>4 DEF HomeOK
<1>3. ASSUME HomeTimer PROVE StationInv'
  <2>1. /\ home' = [home EXCEPT !.opening = FALSE, !.timer = FALSE]
        /\ UNCHANGED <<link, order, station>>
    BY <1>3 DEF HomeTimer
  <2>2. home' \in HomeWindow /\ HomeOK(home', waiting)
    BY <1>0, <2>1 DEF HomeWindow, HomeOK
  <2>3. QED
    BY <1>0, <1>a, <1>c, <2>1, <2>2
<1>4. ASSUME SignalDue PROVE StationInv'
  BY <1>0, <1>4, <1>a, <1>c, SignalledIsGood DEF SignalDue
<1>5. ASSUME ChargingClosed PROVE StationInv'
  <2> DEFINE s == [station EXCEPT !.over = Nothing, !.plan = 0]
  <2>1. order' \in OrderRecords /\ home' = home
    BY <1>0, <1>5, <1>b DEF ChargingClosed, StationWindow, WindowsOver
  <2>2. s \in StationWindow /\ s.over.window = "none" /\ s.plan = 0 /\ s.confirm = "closed"
    BY <1>0, <1>5, NoCharger DEF ChargingClosed, StationWindow, StationOK, Nothing
  <2>3. Refreshing(s, TRUE) \in StationWindow /\ StationOK(Refreshing(s, TRUE))
    <3> HIDE DEF s
    <3>1. QED
      BY <2>2, RefreshingIsGood
  <2>4. station' \in StationWindow /\ StationOK(station')
    BY <1>5, <2>3, RefreshFailedIsGood DEF ChargingClosed
  <2>5. StationLinkOK' /\ waiting \subseteq waiting'
    BY <1>0, <1>5, <1>a, StationSendsAll, StationQueries DEF ChargingClosed
  <2>6. QED
    BY <1>0, <1>c, <2>1, <2>4, <2>5 DEF HomeOK
<1>6. ASSUME RecoveredClosed PROVE StationInv'
  <2>1. order' \in OrderRecords /\ station' = station
    BY <1>0, <1>6, <1>b DEF RecoveredClosed, HomeWindow
  <2>2. /\ StationLinkOK' /\ waiting \subseteq waiting'
        /\ connected => "station.list" \in waiting'
    BY <1>0, <1>6, <1>a, StationSendsAll, StationQueries DEF RecoveredClosed
  <2>3. /\ home' \in HomeWindow /\ ~home'.opening /\ home'.recovering = home.recovering
        /\ home'.list = "loading" => connected
    BY <1>0, <1>6 DEF RecoveredClosed, HomeWindow
  <2>4. QED
    BY <1>0, <1>c, <2>1, <2>2, <2>3 DEF HomeOK
<1>7. ASSUME StationClosed PROVE StationInv'
  <2>1. order' = order /\ station' = ClosedStation /\ HomeRefreshes
    BY <1>7 DEF StationClosed
  <2>2. /\ StationLinkOK' /\ waiting \subseteq waiting'
        /\ connected => "station.list" \in waiting'
    BY <1>0, <1>a, <2>1, StationSendsAll, StationQueries DEF HomeRefreshes
  <2>3. /\ home' \in HomeWindow /\ ~home'.opening /\ home'.recovering = home.recovering
        /\ home'.list = "loading" => connected
    BY <1>0, <2>1 DEF HomeRefreshes, HomeWindow
  <2>4. QED
    BY <1>0, <1>c, <2>1, <2>2, <2>3, ClosedIsGood DEF HomeOK
<1>8. ASSUME ActionTimer PROVE StationInv'
  <2> DEFINE s == ResetAction(station)
  <2>1. s \in StationWindow /\ StationOK(s)
    BY <1>0, <1>8, ResetIsGood DEF ActionTimer, StationOK
  <2>2. s.pending = "none" /\ station' = [s EXCEPT !.timer = FALSE]
    BY <1>0, <1>8 DEF ActionTimer, ResetAction, StationWindow
  <2>3. station' \in StationWindow /\ StationOK(station')
    <3> HIDE DEF s
    <3>1. QED
      BY <2>1, <2>2 DEF StationWindow, StationOK
  <2>4. QED
    BY <1>0, <1>8, <1>a, <1>c, <2>3 DEF ActionTimer
<1>9. ASSUME RefreshTimer PROVE StationInv'
  <2> DEFINE s == IF station.detail \/ station.active THEN RefreshFailed(station) ELSE station
  <2>1. s \in StationWindow /\ StationOK(s)
    BY <1>0, RefreshFailedIsGood
  <2>2. ~s.detail /\ ~s.active /\ station' = [s EXCEPT !.refresh = FALSE]
    BY <1>0, <1>9 DEF RefreshTimer, RefreshFailed, ResetAction, StationWindow
  <2>3. station' \in StationWindow /\ StationOK(station')
    <3> HIDE DEF s
    <3>1. QED
      BY <2>1, <2>2 DEF StationWindow, StationOK
  <2>4. QED
    BY <1>0, <1>9, <1>a, <1>c, <2>3 DEF RefreshTimer
<1>10. QED
  BY <1>1, <1>2, <1>3, <1>4, <1>5, <1>6, <1>7, <1>8, <1>9

(* The next answer.                                                        *)
LEMMA StationReceives == ASSUME StationInv, ReceiveStation PROVE StationInv'
<1> DEFINE a == Head(answers)
<1>0. /\ station \in StationWindow /\ StationOK(station) /\ order \in OrderRecords
      /\ home \in HomeWindow /\ HomeOK(home, waiting) /\ StationLinkOK
      /\ a \in StationAnswer /\ order' = order
  BY StationHears DEF StationInv, StationTypeOK, ReceiveStation
<1>1. a.route \in StationRoutes /\ a.value \in OrderRecords /\ a.route # "none"
  BY <1>0 DEF StationAnswer, StationRoutes
<1>c. ASSUME station' \in StationWindow, StationOK(station'),
             home' \in HomeWindow, HomeOK(home', waiting'), StationLinkOK'
      PROVE  StationInv'
  BY <1>0, <1>c DEF StationInv, StationTypeOK
<1>d. ASSUME Arrives
      PROVE  StationLinkOK' /\ waiting' = IF a.live THEN waiting \ {a.route} ELSE waiting
  BY <1>0, <1>d, StationArrives
<1>2. CASE ~a.live
  BY <1>0, <1>2, <1>c, <1>d DEF ReceiveStation
<1>3. CASE a.live /\ a.ok /\ CancelFits(station, a)
  <2> DEFINE s == [station EXCEPT !.confirm = "closed"]
  <2>1. /\ ArrivesThenAll(<<"station.detail", "charge.active">>)
        /\ station' = Refreshing(s, TRUE) /\ home' = home
    BY <1>3 DEF ReceiveStation, AnnounceStation
  <2>2. station.pending = "charge.cancel" /\ a.route = "charge.cancel"
    BY <1>3 DEF CancelFits
  <2>3. s \in StationWindow /\ s.over.window = "none" /\ s.plan = 0 /\ s.confirm = "closed"
    BY <1>0, <2>2 DEF StationWindow, StationOK
  <2>4. station' \in StationWindow /\ StationOK(station')
    <3> HIDE DEF s
    <3>1. QED
      BY <2>1, <2>3, RefreshingIsGood
  <2>5. /\ StationLinkOK'
        /\ waiting' = (waiting \ {"charge.cancel"}) \cup {"station.detail", "charge.active"}
    BY <1>0, <2>1, <2>2, StationArrivesThenAll, StationQueries
  <2>6. QED
    BY <1>0, <1>c, <2>1, <2>4, <2>5 DEF HomeOK
<1>4. CASE a.live /\ a.ok /\ ~CancelFits(station, a)
  <2>1. /\ Arrives
        /\ station' =
             CASE a.route = "station.detail" -> StationDetailReceived(station)
               [] a.route = "charge.active" -> ActiveReceived(station, a.value)
               [] a.route \in {"charge.reserve", "charge.start"} /\ station.open ->
                    [station EXCEPT !.due = [window |-> a.route, charger |-> a.value.charger,
                                             plan |-> 0]]
               [] OTHER -> station
        /\ home' =
             CASE a.route = "station.list" -> [home EXCEPT !.list = "shown", !.cards = TRUE]
               [] a.route = "station.detail" /\ home.opening ->
                    [home EXCEPT !.opening = FALSE, !.due = TRUE]
               [] a.route = "charge.active" -> Recovered(home, a.value)
               [] OTHER -> home
    BY <1>4 DEF ReceiveStation, AnnounceStation
  <2>2. station' \in StationWindow /\ StationOK(station')
    <3>1. CASE a.route \in {"station.detail", "charge.active"}
      BY <1>0, <1>1, <2>1, <3>1, RefreshedIsGood
    <3>2. CASE a.route \in {"charge.reserve", "charge.start"} /\ station.open
      <4> DEFINE d == [window |-> a.route, charger |-> a.value.charger, plan |-> 0]
      <4>1. d \in SignalsDue
        BY <1>1, <3>2 DEF SignalsDue, OrderRecords
      <4>2. station' = [station EXCEPT !.due = d]
        BY <2>1, <3>2
      <4>3. QED
        BY <1>0, <4>1, <4>2 DEF StationWindow, StationOK
    <3>3. CASE /\ a.route \notin {"station.detail", "charge.active"}
               /\ ~(a.route \in {"charge.reserve", "charge.start"} /\ station.open)
      BY <1>0, <2>1, <3>3
    <3>4. QED
      BY <3>1, <3>2, <3>3
  <2>3. home' \in HomeWindow
    BY <1>0, <1>1, <2>1 DEF HomeWindow, Recovered, OrderRecords
  <2>4. home'.opening => home'.timer
    BY <1>0, <1>1, <2>1 DEF HomeWindow, HomeOK, Recovered, OrderRecords
  <2>5. /\ home'.list = "loading" => home.list = "loading" /\ a.route # "station.list"
        /\ home'.recovering => home.recovering /\ a.route # "charge.active"
    BY <1>0, <1>1, <2>1 DEF HomeWindow, Recovered, OrderRecords
  <2>6. HomeOK(home', waiting')
    BY <1>0, <1>4, <1>d, <2>1, <2>4, <2>5 DEF HomeOK
  <2>7. QED
    BY <1>c, <1>d, <2>1, <2>2, <2>3, <2>6
<1>5. CASE a.live /\ ~a.ok
  <2>1. /\ Arrives /\ station' = StationFailed(station, a.route)
        /\ home' = HomeFailed(home, {a.route})
    BY <1>5 DEF ReceiveStation
  <2>2. home' \in HomeWindow /\ HomeOK(home', waiting')
    BY <1>0, <1>5, <1>d, <2>1 DEF HomeFailed, HomeWindow, HomeOK
  <2>3. QED
    BY <1>0, <1>1, <1>c, <1>d, <2>1, <2>2, StationFailedIsGood
<1>6. QED
  BY <1>2, <1>3, <1>4, <1>5

(* Requests that are given up, one by one or all.                          *)
LEMMA StationLoses ==
  ASSUME StationInv,
         \/ \E r \in StationRoutes : ExpireStation(r)
         \/ connected /\ \E n \in 0..Len(calls) : DisconnectStation(n)
  PROVE  StationInv'
<1>0. /\ station \in StationWindow /\ StationOK(station) /\ order \in OrderRecords
      /\ home \in HomeWindow /\ HomeOK(home, waiting) /\ StationLinkOK
  BY DEF StationInv, StationTypeOK
<1>1. ASSUME NEW r \in StationRoutes, ExpireStation(r) PROVE StationInv'
  <2>1. /\ GivesUp(r) /\ order' = order /\ r # "none"
        /\ station' = StationFailed(station, r) /\ home' = HomeFailed(home, {r})
    BY <1>1 DEF ExpireStation, StationRoutes
  <2>2. StationLinkOK' /\ waiting' = waiting \ {r}
    BY <1>0, <2>1, StationGivesUp
  <2>3. station' \in StationWindow /\ StationOK(station')
    BY <1>0, <2>1, StationFailedIsGood
  <2>4. home' \in HomeWindow /\ HomeOK(home', waiting')
    BY <1>0, <2>1, <2>2 DEF HomeFailed, HomeWindow, HomeOK
  <2>5. QED
    BY <1>0, <2>1, <2>2, <2>3, <2>4 DEF StationInv, StationTypeOK
<1>2. ASSUME NEW n \in 0..Len(calls), DisconnectStation(n) PROVE StationInv'
  <2>1. /\ Breaks(n) /\ order' = order
        /\ station' = IF station.open THEN StationOffline(station) ELSE station
        /\ home' = HomeFailed(home, waiting \cup {"station.detail", "charge.active"})
    BY <1>2 DEF DisconnectStation
  <2>2. StationLinkOK' /\ waiting' = {}
    BY <1>0, <2>1, StationBreaks
  <2>3. station' \in StationWindow /\ StationOK(station')
    BY <1>0, <2>1, StationOfflineIsGood
  <2>4. home' \in HomeWindow /\ HomeOK(home', waiting')
    BY <1>0, <2>1, <2>2 DEF HomeFailed, HomeWindow, HomeOK
  <2>5. QED
    BY <1>0, <2>1, <2>2, <2>3, <2>4 DEF StationInv, StationTypeOK
<1>3. QED
  BY <1>1, <1>2

(* Every step of the two windows keeps their invariant.                    *)
LEMMA StationStays == StationInv /\ NextStation => StationInv'
BY StationServed, StationActs, StationMoves, StationReceives, StationLoses DEF NextStation

-----------------------------------------------------------------------------
(* The list of orders and the review of an order.                          *)

HistoryWindow ==
  [list : {"closed", "loading", "shown", "failed"}, detail : 0..MaxOrders, timer : BOOLEAN,
   receipt : 0..MaxOrders, label : [Orders -> {"none", "asking", "failed", "open", "reviewed"}],
   queue : Seq(Orders), asked : 0..MaxOrders, askTimer : BOOLEAN]

ReviewWindow ==
  [order : 0..MaxOrders, submitting : BOOLEAN, timer : BOOLEAN, accepted : BOOLEAN]

Queueing(h, o) == \E i \in DOMAIN h.queue : h.queue[i] = o

\* the list and the receipt have their timer
ReadsOK(h) ==
  /\ h.list = "loading" \/ h.detail # 0 => h.timer
  /\ h.detail # 0 => h.list = "shown"

\* the review asked about has its timer, and the others are in the queue
AsksOK(h) ==
  /\ h.asked # 0 => h.askTimer
  /\ \A o \in Orders : h.label[o] = "asking" => h.asked = o \/ Queueing(h, o)

\* A receipt is asked for, and answered, with the order it is of.
DetailsNamed ==
  /\ \A m \in Live(calls) : m.route = "order.detail" => m.arg # 0
  /\ \A m \in Live(answers) : m.route = "order.detail" /\ m.ok => m.value # 0

OrdersLinkInv == LinkTypeOK(0..MaxOrders, 0..MaxOrders) /\ LinkInv /\ DetailsNamed

\* the list is on its way
Listed == \E m \in Live(calls) \cup Live(answers) : m.route = "order.list"

OrdersInv ==
  /\ OrdersLinkInv
  /\ history \in HistoryWindow /\ ReadsOK(history) /\ AsksOK(history)
  /\ review \in ReviewWindow /\ (review.submitting => review.timer)
  /\ history.list = "shown" => ~Listed

(* What the invariant says of waits is what the property says.             *)
LEMMA OrdersAreWatched == OrdersInv => OrdersWatched
BY DEF OrdersInv, OrdersWatched, ReadsOK, AsksOK, Queueing

(* The next review of the queue is asked for.                              *)
LEMMA NextAskedIsGood ==
  ASSUME NEW h \in HistoryWindow, ReadsOK(h),
         \A o \in Orders : h.label[o] = "asking" => Queueing(h, o)
  PROVE  LET n == NextAsked(h)
         IN  /\ n \in HistoryWindow /\ ReadsOK(n) /\ AsksOK(n)
             /\ n.list = h.list
<1> DEFINE n == NextAsked(h)
<1>1. h.queue \in Seq(Orders) /\ 0 \in 0..MaxOrders /\ Orders \subseteq 0..MaxOrders
  BY OrdersAssumption DEF HistoryWindow, Orders
<1>2. CASE h.queue = <<>>
  <2>1. n = [h EXCEPT !.asked = 0, !.askTimer = FALSE]
    BY <1>2 DEF NextAsked
  <2>2. n \in HistoryWindow /\ ReadsOK(n) /\ n.list = h.list
    BY <1>1, <2>1 DEF HistoryWindow, ReadsOK
  <2>3. \A o \in Orders : ~Queueing(h, o)
    BY <1>2 DEF Queueing
  <2>4. AsksOK(n)
    BY <2>1, <2>3 DEF HistoryWindow, AsksOK
  <2>5. QED
    BY <2>2, <2>4
<1>3. CASE h.queue # <<>>
  <2>1. n = [h EXCEPT !.asked = Head(h.queue), !.queue = Tail(h.queue), !.askTimer = TRUE]
    BY <1>3 DEF NextAsked
  <2>2. /\ Head(h.queue) \in Orders /\ Tail(h.queue) \in Seq(Orders)
        /\ Head(h.queue) = h.queue[1]
        /\ DOMAIN Tail(h.queue) = 1..(Len(h.queue) - 1)
        /\ \A i \in 1..(Len(h.queue) - 1) : Tail(h.queue)[i] = h.queue[i+1]
        /\ DOMAIN h.queue = 1..Len(h.queue) /\ Len(h.queue) \in Nat
    BY <1>1, <1>3, HeadTailProperties
  <2>3. n \in HistoryWindow /\ ReadsOK(n) /\ n.list = h.list
    BY <1>1, <2>1, <2>2 DEF HistoryWindow, ReadsOK
  <2>4. n.asked = Head(h.queue) /\ n.askTimer /\ n.queue = Tail(h.queue) /\ n.label = h.label
    BY <2>1 DEF HistoryWindow
  <2>5. ASSUME NEW o \in Orders, h.label[o] = "asking"
        PROVE  n.asked = o \/ Queueing(n, o)
    <3>1. PICK i \in DOMAIN h.queue : h.queue[i] = o
      BY <2>5 DEF Queueing
    <3>2. CASE i = 1
      BY <2>2, <2>4, <3>1, <3>2
    <3>3. CASE i # 1
      <4>1. i - 1 \in DOMAIN Tail(h.queue) /\ Tail(h.queue)[i - 1] = o
        BY <2>2, <3>1, <3>3
      <4>2. QED
        BY <2>4, <4>1 DEF Queueing
    <3>4. QED
      BY <3>2, <3>3
  <2>6. QED
    BY <2>3, <2>4, <2>5 DEF AsksOK
<1>4. QED
  BY <1>2, <1>3

(* The review asked about is known, or could not be read.                  *)
LEMMA AskEndsGood ==
  ASSUME NEW h \in HistoryWindow, ReadsOK(h), AsksOK(h), NEW has \in BOOLEAN
  PROVE  LET f == AskFailed(h)
             w == AskAnswered(h, has)
         IN  /\ f \in HistoryWindow /\ ReadsOK(f) /\ AsksOK(f) /\ f.list = h.list
             /\ w \in HistoryWindow /\ ReadsOK(w) /\ AsksOK(w) /\ w.list = h.list
<1> DEFINE f == [h EXCEPT !.label[h.asked] = "failed", !.askTimer = FALSE]
           w == [h EXCEPT !.label[h.asked] = IF has THEN "reviewed" ELSE "open"]
<1>1. /\ f \in HistoryWindow /\ ReadsOK(f) /\ f.list = h.list
      /\ \A o \in Orders : f.label[o] = "asking" => Queueing(f, o)
  BY DEF HistoryWindow, ReadsOK, AsksOK, Queueing
<1>2. /\ w \in HistoryWindow /\ ReadsOK(w) /\ w.list = h.list
      /\ \A o \in Orders : w.label[o] = "asking" => Queueing(w, o)
  BY DEF HistoryWindow, ReadsOK, AsksOK, Queueing
<1> HIDE DEF f, w
<1>3. /\ NextAsked(f) \in HistoryWindow /\ ReadsOK(NextAsked(f)) /\ AsksOK(NextAsked(f))
      /\ NextAsked(f).list = h.list
  BY <1>1, NextAskedIsGood
<1>4. /\ NextAsked(w) \in HistoryWindow /\ ReadsOK(NextAsked(w)) /\ AsksOK(NextAsked(w))
      /\ NextAsked(w).list = h.list
  BY <1>2, NextAskedIsGood
<1>5. QED
  BY <1>3, <1>4 DEF AskFailed, AskAnswered, f, w

(* A list that is shown has every order in its queue.                      *)
LEMMA RenderedIsGood ==
  ASSUME NEW h \in HistoryWindow, ReadsOK(h), h.list # "shown"
  PROVE  LET n == Rendered(h)
         IN  n \in HistoryWindow /\ ReadsOK(n) /\ AsksOK(n)
<1> DEFINE all == [i \in 1..MaxOrders |-> i]
           n == [h EXCEPT !.list = "shown", !.timer = FALSE, !.askTimer = FALSE,
                          !.label = [o \in Orders |-> "asking"], !.queue = all]
<1>1. all \in Seq(Orders) /\ DOMAIN all = Orders
  BY OrdersAssumption, SeqDef DEF Orders
<1>2. /\ n \in HistoryWindow /\ n.list = "shown" /\ n.detail = h.detail
      /\ n.queue = all
  BY <1>1 DEF HistoryWindow
<1>3. h.detail = 0
  BY DEF ReadsOK
<1>4. ReadsOK(n)
  BY <1>2, <1>3 DEF ReadsOK
<1>5. \A o \in Orders : Queueing(n, o)
  BY <1>1, <1>2 DEF Queueing, Orders
<1> HIDE DEF n
<1>6. NextAsked(n) \in HistoryWindow /\ ReadsOK(NextAsked(n)) /\ AsksOK(NextAsked(n))
  BY <1>2, <1>4, <1>5, NextAskedIsGood
<1>7. QED
  BY <1>6 DEF Rendered, n

(* Reading fails, a receipt is shown, all that was asked for fails.        *)
LEMMA HistoryReadsGood ==
  ASSUME NEW h \in HistoryWindow, ReadsOK(h), AsksOK(h), NEW o \in 0..MaxOrders, o # 0
  PROVE  /\ ReadFailed(h) \in HistoryWindow /\ ReadsOK(ReadFailed(h)) /\ AsksOK(ReadFailed(h))
         /\ ReadFailed(h).list = "shown" => h.list = "shown"
         /\ ReceiptShown(h, o) \in HistoryWindow /\ ReadsOK(ReceiptShown(h, o))
         /\ AsksOK(ReceiptShown(h, o)) /\ ReceiptShown(h, o).list = h.list
         /\ AllFailed(h) \in HistoryWindow /\ ReadsOK(AllFailed(h)) /\ AsksOK(AllFailed(h))
         /\ AllFailed(h).list = h.list
<1>1. 0 \in 0..MaxOrders
  BY OrdersAssumption
<1>2. /\ ReadFailed(h) \in HistoryWindow /\ ReadsOK(ReadFailed(h)) /\ AsksOK(ReadFailed(h))
      /\ ReadFailed(h).list = "shown" => h.list = "shown"
  BY <1>1 DEF HistoryWindow, ReadFailed, ReadsOK, AsksOK, Queueing
<1>3. /\ ReceiptShown(h, o) \in HistoryWindow /\ ReadsOK(ReceiptShown(h, o))
      /\ AsksOK(ReceiptShown(h, o)) /\ ReceiptShown(h, o).list = h.list
  <2>1. CASE h.detail = o
    <3>1. ReceiptShown(h, o) = [h EXCEPT !.detail = 0, !.timer = FALSE, !.receipt = o]
      BY <2>1 DEF ReceiptShown
    <3>2. h.list = "shown"
      BY <2>1 DEF ReadsOK
    <3>3. ReceiptShown(h, o) \in HistoryWindow
      BY <1>1, <3>1 DEF HistoryWindow
    <3>4. ReadsOK(ReceiptShown(h, o)) /\ ReceiptShown(h, o).list = h.list
      BY <3>1, <3>2 DEF HistoryWindow, ReadsOK
    <3>5. AsksOK(ReceiptShown(h, o))
      BY <3>1 DEF HistoryWindow, AsksOK, Queueing
    <3>6. QED
      BY <3>3, <3>4, <3>5
  <2>2. CASE h.detail # o
    BY <2>2 DEF ReceiptShown
  <2>3. QED
    BY <2>1, <2>2
<1>4. /\ AllFailed(h) \in HistoryWindow /\ ReadsOK(AllFailed(h)) /\ AsksOK(AllFailed(h))
      /\ AllFailed(h).list = h.list
  <2> DEFINE none == [p \in Orders |-> IF h.label[p] = "asking" THEN "failed" ELSE h.label[p]]
  <2>1. none \in [Orders -> {"none", "failed", "open", "reviewed"}]
    BY DEF HistoryWindow
  <2>2. AllFailed(h) = [h EXCEPT !.label = none, !.queue = <<>>, !.asked = 0, !.askTimer = FALSE]
    BY DEF HistoryWindow, AllFailed
  <2> HIDE DEF none
  <2>3. AllFailed(h) \in HistoryWindow
    <3>1. <<>> \in Seq(Orders)
      OBVIOUS
    <3>2. none \in [Orders -> {"none", "asking", "failed", "open", "reviewed"}]
      BY <2>1
    <3>3. QED
      BY <1>1, <2>2, <3>1, <3>2 DEF HistoryWindow
  <2>6. ReadsOK(AllFailed(h)) /\ AllFailed(h).list = h.list
    BY <2>2 DEF HistoryWindow, ReadsOK
  <2>4. AsksOK(AllFailed(h))
    BY <2>1, <2>2 DEF HistoryWindow, AsksOK
  <2>5. QED
    BY <2>3, <2>4, <2>6
<1>5. QED
  BY <1>2, <1>3, <1>4

\* what a step of the link does to the messages of this window
OrdersLinkSteps(R) ==
  /\ OrdersLinkInv'
  /\ Listed' => Listed \/ "order.list" \in R

(* A request is sent.                                                      *)
LEMMA OrdersSends ==
  ASSUME OrdersLinkInv, NEW r \in ReviewRoutes, NEW a \in 0..MaxOrders, Send(r, a),
         r = "order.detail" => a # 0
  PROVE  OrdersLinkSteps({r})
<1>1. /\ LinkTypeOK(0..MaxOrders, 0..MaxOrders)' /\ LinkInv'
      /\ \/ UNCHANGED <<calls, answers>>
         \/ /\ Live(calls)' = LiveBut(calls, r) \cup {[route |-> r, live |-> TRUE, arg |-> a]}
            /\ Live(answers)' = LiveBut(answers, r)
  BY SendKeeps, WindowsAssumption DEF OrdersLinkInv
<1>2. /\ Live(calls)' \subseteq Live(calls) \cup {[route |-> r, live |-> TRUE, arg |-> a]}
      /\ Live(answers)' \subseteq Live(answers)
  BY <1>1 DEF LiveBut, Live
<1>3. QED
  BY <1>1, <1>2 DEF OrdersLinkInv, OrdersLinkSteps, DetailsNamed, Listed

(* The server executes a request.                                          *)
LEMMA OrdersExecutes ==
  ASSUME OrdersLinkInv, NEW ok \in BOOLEAN, NEW v \in 0..MaxOrders, Executes(ok, v),
         Head(calls).route = "order.detail" => v = Head(calls).arg
  PROVE  OrdersLinkSteps({})
<1> DEFINE c == Head(calls)
           m == [route |-> c.route, live |-> TRUE, ok |-> ok, value |-> v]
<1>1. /\ LinkTypeOK(0..MaxOrders, 0..MaxOrders)' /\ LinkInv'
      /\ c.live => /\ c \in Live(calls) /\ Live(calls)' = LiveBut(calls, c.route)
                   /\ Live(answers)' = Live(answers) \cup {m}
      /\ ~c.live => Live(calls)' = Live(calls) /\ answers' = answers
  BY ExecutesKeeps DEF OrdersLinkInv
<1>2. CASE c.live
  <2>1. Live(calls)' \subseteq Live(calls) /\ m.route = c.route /\ m.value = v
    BY <1>1, <1>2 DEF LiveBut
  <2>2. QED
    BY <1>1, <1>2, <2>1 DEF OrdersLinkInv, OrdersLinkSteps, DetailsNamed, Listed
<1>3. CASE ~c.live
  <2>1. Live(answers)' = Live(answers)
    BY <1>1, <1>3 DEF Live
  <2>2. QED
    BY <1>1, <1>3, <2>1 DEF OrdersLinkInv, OrdersLinkSteps, DetailsNamed, Listed
<1>4. QED
  BY <1>2, <1>3

\* the answer that arrives, and is heard, is on its way no more
OrdersHeard ==
  /\ OrdersLinkSteps({})
  /\ Head(answers) \in Answer(0..MaxOrders)
  /\ Head(answers).live => /\ Head(answers) \in Live(answers)
                           /\ Head(answers).route = "order.list" => ~Listed'

(* An answer arrives.                                                      *)
LEMMA OrdersArrives == ASSUME OrdersLinkInv, Arrives PROVE OrdersHeard
<1> DEFINE a == Head(answers)
<1>1. /\ LinkTypeOK(0..MaxOrders, 0..MaxOrders)' /\ LinkInv' /\ calls' = calls
      /\ a \in Answer(0..MaxOrders)
      /\ a.live => a \in Live(answers) /\ Live(answers)' = LiveBut(answers, a.route)
      /\ ~a.live => Live(answers)' = Live(answers)
  BY ArrivesKeeps DEF OrdersLinkInv
<1>2. Live(answers)' \subseteq Live(answers) /\ Live(calls)' = Live(calls)
  BY <1>1 DEF Live, LiveBut
<1>3. OrdersLinkSteps({})
  BY <1>1, <1>2 DEF OrdersLinkInv, OrdersLinkSteps, DetailsNamed, Listed
<1>4. ASSUME a.live, a.route = "order.list" PROVE ~Listed'
  <2>1. \A m \in Live(answers)' : m.route # "order.list"
    BY <1>1, <1>4 DEF LiveBut
  <2>2. \A m \in Live(calls) : m.route # a.route
    BY <1>1, <1>4 DEF OrdersLinkInv, LinkInv, LiveRoutes
  <2>3. QED
    BY <1>2, <1>4, <2>1, <2>2 DEF Listed
<1>5. QED
  BY <1>1, <1>3, <1>4 DEF OrdersHeard

(* An answer arrives, and the next review is asked for.                    *)
LEMMA OrdersArrivesThenSends ==
  ASSUME OrdersLinkInv, NEW o \in 0..MaxOrders, ArrivesThenSends("review.get", o)
  PROVE  OrdersHeard
<1> DEFINE a == Head(answers)
           m == [route |-> "review.get", live |-> TRUE, arg |-> o]
<1>1. /\ LinkTypeOK(0..MaxOrders, 0..MaxOrders)' /\ LinkInv'
      /\ \/ answers' = Tail(answers) /\ calls' = calls
         \/ /\ answers' = Orphaned(Tail(answers), "review.get")
            /\ Live(calls)' = LiveBut(calls, "review.get") \cup {m}
  BY ArrivesThenSendsKeeps, WindowsAssumption DEF OrdersLinkInv, ReviewRoutes
<1>2. answers # <<>> /\ a.live
  BY DEF ArrivesThenSends
<1>3. /\ a \in Answer(0..MaxOrders) /\ a \in Live(answers)
      /\ Tail(answers) \in Seq(Answer(0..MaxOrders))
      /\ Live(Tail(answers)) = LiveBut(answers, a.route)
  BY <1>2, TailLeaves, AnswersAreMessages DEF OrdersLinkInv, LinkTypeOK, LinkInv
<1>4. Live(answers') \subseteq LiveBut(answers, a.route)
  <2>1. Live(Orphaned(Tail(answers), "review.get")) \subseteq Live(Tail(answers))
    <3>1. Live(Orphaned(Tail(answers), "review.get")) = LiveBut(Tail(answers), "review.get")
      BY <1>3, OrphanedLeaves, AnswersAreMessages
    <3>2. QED
      BY <3>1 DEF LiveBut
  <2>2. QED
    BY <1>1, <1>3, <2>1
<1>5. Live(calls') \subseteq Live(calls) \cup {m}
  BY <1>1 DEF LiveBut
<1>6. Live(answers') \subseteq Live(answers) /\ m.route = "review.get"
  BY <1>4 DEF LiveBut
<1>7. OrdersLinkSteps({})
  BY <1>1, <1>5, <1>6 DEF OrdersLinkInv, OrdersLinkSteps, DetailsNamed, Listed
<1>8. ASSUME a.route = "order.list" PROVE ~Listed'
  <2>1. \A n \in Live(answers') : n.route # "order.list"
    BY <1>4, <1>8 DEF LiveBut
  <2>2. \A n \in Live(calls) : n.route # "order.list"
    BY <1>3, <1>8 DEF OrdersLinkInv, LinkInv, LiveRoutes
  <2>3. QED
    BY <1>5, <2>1, <2>2 DEF Listed
<1>9. QED
  BY <1>3, <1>7, <1>8 DEF OrdersHeard

(* A request is given up, or all are.                                      *)
LEMMA OrdersLoses ==
  ASSUME OrdersLinkInv,
         (\E r : GivesUp(r)) \/ (\E n \in 0..Len(calls) : Breaks(n)) \/ UNCHANGED link
  PROVE  OrdersLinkSteps({})
<1>1. /\ LinkTypeOK(0..MaxOrders, 0..MaxOrders)' /\ LinkInv'
      /\ Live(calls)' \subseteq Live(calls) /\ Live(answers)' \subseteq Live(answers)
  <2>1. ASSUME NEW r, GivesUp(r)
      PROVE  /\ LinkTypeOK(0..MaxOrders, 0..MaxOrders)' /\ LinkInv'
             /\ Live(calls)' \subseteq Live(calls) /\ Live(answers)' \subseteq Live(answers)
    BY <2>1, GivesUpKeeps DEF OrdersLinkInv, LiveBut
  <2>2. ASSUME NEW n \in 0..Len(calls), Breaks(n)
      PROVE  /\ LinkTypeOK(0..MaxOrders, 0..MaxOrders)' /\ LinkInv'
             /\ Live(calls)' \subseteq Live(calls) /\ Live(answers)' \subseteq Live(answers)
    BY <2>2, BreaksKeeps DEF OrdersLinkInv, NothingWaits
  <2>3. CASE UNCHANGED link
    BY <2>3, LinkStays DEF OrdersLinkInv
  <2>4. QED
    BY <2>1, <2>2, <2>3
<1>2. QED
  BY <1>1 DEF OrdersLinkInv, OrdersLinkSteps, DetailsNamed, Listed

(* The windows begin well.                                                 *)
LEMMA OrdersStart == Init /\ screen = "orders" => OrdersInv
<1> SUFFICES ASSUME Init, screen = "orders" PROVE OrdersInv
  OBVIOUS
<1>1. waiting = {} /\ connected = TRUE /\ calls = <<>> /\ answers = <<>>
  BY DEF Init
<1>2. /\ LinkTypeOK(0..MaxOrders, 0..MaxOrders) /\ LinkInv
      /\ Live(calls) = {} /\ Live(answers) = {}
  BY <1>1, LinkInit
<1>3. history \in HistoryWindow /\ ReadsOK(history) /\ AsksOK(history)
  <2>1. 0 \in 0..MaxOrders /\ <<>> \in Seq(Orders)
    BY OrdersAssumption
  <2>2. QED
    BY <2>1 DEF Init, InitOrders, NoHistory, HistoryWindow, ReadsOK, AsksOK
<1>4. review \in ReviewWindow /\ ~review.submitting
  BY OrdersAssumption DEF Init, InitOrders, NoReview, ReviewWindow
<1>5. QED
  BY <1>2, <1>3, <1>4 DEF OrdersInv, OrdersLinkInv, DetailsNamed, Listed

(* What a step of the windows must do to keep the invariant.               *)
LEMMA OrdersStep ==
  ASSUME OrdersInv, NEW R, OrdersLinkSteps(R),
         history' \in HistoryWindow, ReadsOK(history'), AsksOK(history'),
         review' \in ReviewWindow, review'.submitting => review'.timer,
         history'.list = "shown" => ~Listed' \/ (history.list = "shown" /\ "order.list" \notin R)
  PROVE  OrdersInv'
<1>1. ReadsOK(history)' /\ AsksOK(history)'
  OBVIOUS
<1>2. history.list = "shown" => ~Listed
  BY DEF OrdersInv
<1>3. (history.list = "shown" => ~Listed)'
  BY <1>2 DEF OrdersLinkSteps
<1>4. QED
  BY <1>1, <1>3 DEF OrdersInv, OrdersLinkSteps

(* The next answer.                                                        *)
LEMMA OrdersReceive == ASSUME OrdersInv, ReceiveOrders PROVE OrdersInv'
<1> DEFINE a == Head(answers)
<1>0. /\ history \in HistoryWindow /\ ReadsOK(history) /\ AsksOK(history) /\ OrdersLinkInv
      /\ review \in ReviewWindow /\ (review.submitting => review.timer)
  BY DEF OrdersInv
<1>s. SubmitFailed(review) \in ReviewWindow /\ ~SubmitFailed(review).submitting
  BY <1>0 DEF ReviewWindow, SubmitFailed
<1>h. ASSUME NEW h \in HistoryWindow, ReadsOK(h), AsksOK(h), ShownAndAsking(h)
      PROVE  history' = h /\ OrdersHeard
  <2>1. h.asked \in 0..MaxOrders
    BY DEF HistoryWindow
  <2>2. QED
    BY <1>0, <1>h, <2>1, OrdersArrives, OrdersArrivesThenSends DEF ShownAndAsking
<1>1. CASE Arrives /\ history' = history /\ review' \in {review, SubmitFailed(review)}
  <2>1. OrdersLinkSteps({})
    BY <1>0, <1>1, OrdersArrives DEF OrdersHeard
  <2>2. QED
    BY <1>0, <1>1, <1>s, <2>1, OrdersStep
<1>a. Arrives /\ a.live /\ a.route = "order.detail" /\ a.ok
        => a.value \in 0..MaxOrders /\ a.value # 0
  BY <1>0, OrdersArrives DEF OrdersHeard, OrdersLinkInv, DetailsNamed, Answer
<1>2. CASE a.live /\ Hears(a) /\ a.ok /\ a.route = "order.list"
  <2>1. ShownAndAsking(Rendered(history)) /\ review' = review
    BY <1>2 DEF ReceiveOrders, AnnounceOrders, Unannounced
  <2>2. history.list # "shown"
    <3>1. a \in Live(answers)
      BY <1>0, <1>2, TailLeaves, AnswersAreMessages
         DEF ReceiveOrders, OrdersLinkInv, LinkTypeOK, LinkInv
    <3>2. QED
      BY <1>2, <3>1 DEF OrdersInv, Listed
  <2>3. /\ Rendered(history) \in HistoryWindow
        /\ ReadsOK(Rendered(history)) /\ AsksOK(Rendered(history))
    BY <1>0, <2>2, RenderedIsGood
  <2>4. history' = Rendered(history) /\ OrdersHeard
    BY <1>h, <2>1, <2>3
  <2>5. OrdersLinkSteps({}) /\ ~Listed'
    BY <1>2, <2>4 DEF OrdersHeard
  <2>6. QED
    BY <1>0, <2>1, <2>3, <2>4, <2>5, OrdersStep
<1>3. CASE a.live /\ Hears(a) /\ a.ok /\ a.route = "order.detail"
  <2>1. Arrives /\ history' = ReceiptShown(history, a.value) /\ review' = review
    BY <1>3 DEF ReceiveOrders, AnnounceOrders, Unannounced
  <2>2. OrdersLinkSteps({}) /\ a.value \in 0..MaxOrders /\ a.value # 0
    BY <1>0, <1>3, <1>a, <2>1, OrdersArrives DEF OrdersHeard
  <2>3. QED
    BY <1>0, <2>1, <2>2, HistoryReadsGood, OrdersStep
<1>4. CASE a.live /\ Hears(a) /\ ~a.ok /\ a.route = "review.get" /\ history.asked # 0
  <2>1. ShownAndAsking(AskFailed(history)) /\ review' = review
    BY <1>4 DEF ReceiveOrders, FailOrders
  <2>2. /\ AskFailed(history) \in HistoryWindow /\ AskFailed(history).list = history.list
        /\ ReadsOK(AskFailed(history)) /\ AsksOK(AskFailed(history))
    BY <1>0, AskEndsGood
  <2>3. history' = AskFailed(history) /\ OrdersLinkSteps({})
    BY <1>h, <2>1, <2>2 DEF OrdersHeard
  <2>4. QED
    BY <1>0, <2>1, <2>2, <2>3, OrdersStep
<1>5. CASE a.live /\ Hears(a) /\ ~a.ok /\ a.route \in {"order.list", "order.detail"}
  <2>1. Arrives /\ history' = ReadFailed(history) /\ review' = review
    BY <1>5 DEF ReceiveOrders, FailOrders
  <2>2. OrdersLinkSteps({})
    BY <1>0, <2>1, OrdersArrives DEF OrdersHeard
  <2>3. \E o \in 0..MaxOrders : o # 0
    BY OrdersAssumption
  <2>4. QED
    BY <1>0, <2>1, <2>2, <2>3, HistoryReadsGood, OrdersStep
<1>6. QED
  BY <1>1, <1>2, <1>3, <1>4, <1>5 DEF ReceiveOrders, AnnounceOrders, FailOrders, Unannounced

(* A request that times out, and a connection that breaks.                 *)
LEMMA OrdersFail ==
  ASSUME OrdersInv,
         \/ \E r \in ReviewRoutes : ExpireOrders(r)
         \/ connected /\ \E n \in 0..Len(calls) : DisconnectOrders(n)
  PROVE  OrdersInv'
<1>0. /\ history \in HistoryWindow /\ ReadsOK(history) /\ AsksOK(history) /\ OrdersLinkInv
      /\ review \in ReviewWindow /\ (review.submitting => review.timer)
      /\ \E o \in 0..MaxOrders : o # 0
  BY OrdersAssumption DEF OrdersInv
<1>1. SubmitFailed(review) \in ReviewWindow /\ ~SubmitFailed(review).submitting
  BY <1>0 DEF ReviewWindow, SubmitFailed
<1>2. /\ ReadFailed(history) \in HistoryWindow
      /\ ReadsOK(ReadFailed(history)) /\ AsksOK(ReadFailed(history))
      /\ ReadFailed(history).list = "shown" => history.list = "shown"
      /\ AllFailed(history) \in HistoryWindow /\ AllFailed(history).list = history.list
      /\ ReadsOK(AllFailed(history)) /\ AsksOK(AllFailed(history))
  BY <1>0, HistoryReadsGood
<1>3. ASSUME NEW r \in ReviewRoutes, ExpireOrders(r) PROVE OrdersInv'
  <2>1. CASE r = "review.get" /\ history.asked # 0
    <3> DEFINE h == AskFailed(history)
    <3>1. /\ history' = h /\ review' = review
          /\ IF h.asked # 0 THEN Send(r, h.asked) ELSE GivesUp(r)
      BY <1>3, <2>1 DEF ExpireOrders
    <3>2. /\ h \in HistoryWindow /\ h.list = history.list /\ ReadsOK(h) /\ AsksOK(h)
      BY <1>0, AskEndsGood
    <3>3. h.asked \in 0..MaxOrders /\ r # "order.detail"
      BY <2>1, <3>2 DEF HistoryWindow
    <3>4. OrdersLinkSteps({r}) \/ OrdersLinkSteps({})
      BY <1>0, <3>1, <3>3, OrdersSends, OrdersLoses
    <3>5. QED
      BY <1>0, <2>1, <3>1, <3>2, <3>4, OrdersStep
  <2>2. CASE ~(r = "review.get" /\ history.asked # 0)
    <3>1. /\ GivesUp(r) /\ history' \in {history, ReadFailed(history)}
          /\ review' \in {review, SubmitFailed(review)}
      BY <1>3, <2>2 DEF ExpireOrders
    <3>2. OrdersLinkSteps({})
      BY <1>0, <3>1, OrdersLoses
    <3>3. QED
      BY <1>0, <1>1, <1>2, <3>1, <3>2, OrdersStep
  <2>3. QED
    BY <2>1, <2>2
<1>4. ASSUME NEW n \in 0..Len(calls), DisconnectOrders(n) PROVE OrdersInv'
  <2> DEFINE h == ReadFailed(AllFailed(history))
  <2>1. /\ Breaks(n) /\ history' \in {history, h} /\ review' = SubmitFailed(review)
    BY <1>4 DEF DisconnectOrders
  <2>2. /\ h \in HistoryWindow /\ ReadsOK(h) /\ AsksOK(h)
        /\ h.list = "shown" => history.list = "shown"
    <3> DEFINE k == AllFailed(history)
    <3>1. k \in HistoryWindow /\ ReadsOK(k) /\ AsksOK(k) /\ k.list = history.list
      BY <1>2
    <3> HIDE DEF k
    <3>2. /\ ReadFailed(k) \in HistoryWindow /\ ReadsOK(ReadFailed(k)) /\ AsksOK(ReadFailed(k))
          /\ ReadFailed(k).list = "shown" => k.list = "shown"
      BY <1>0, <3>1, HistoryReadsGood
    <3>3. QED
      BY <3>1, <3>2 DEF k
  <2>3. OrdersLinkSteps({})
    BY <1>0, <2>1, OrdersLoses
  <2>4. QED
    BY <1>0, <1>1, <2>1, <2>2, <2>3, OrdersStep
<1>5. QED
  BY <1>3, <1>4

(* The server, the windows and their timers.                               *)
LEMMA OrdersMove ==
  ASSUME OrdersInv,
         \/ \E ok \in BOOLEAN : calls # <<>> /\ ServeOrders(ok)
         \/ OpenHistory \/ CloseHistory \/ HistoryTimer \/ AskTimer
         \/ \E o \in Orders : RequestDetail(o) \/ OpenReview(o)
         \/ SubmitClicked \/ ReviewTimer \/ CloseReview
  PROVE  OrdersInv'
<1>0. /\ history \in HistoryWindow /\ ReadsOK(history) /\ AsksOK(history) /\ OrdersLinkInv
      /\ review \in ReviewWindow /\ (review.submitting => review.timer)
      /\ 0 \in 0..MaxOrders /\ Orders \subseteq 0..MaxOrders /\ 0 \notin Orders
      /\ \E o \in 0..MaxOrders : o # 0
  BY OrdersAssumption DEF OrdersInv, Orders
<1>1. /\ ReadFailed(history) \in HistoryWindow
      /\ ReadsOK(ReadFailed(history)) /\ AsksOK(ReadFailed(history))
      /\ ReadFailed(history).list = "shown" => history.list = "shown"
      /\ AllFailed(history) \in HistoryWindow /\ AllFailed(history).list = history.list
      /\ ReadsOK(AllFailed(history)) /\ AsksOK(AllFailed(history))
  BY <1>0, HistoryReadsGood
<1>2. ASSUME UNCHANGED <<link, history>>, review' \in ReviewWindow, ~review'.submitting
      PROVE  OrdersInv'
  BY <1>0, <1>2, OrdersLoses, OrdersStep
<1>3. NoHistory \in HistoryWindow /\ ReadsOK(NoHistory) /\ AsksOK(NoHistory)
  <2>1. <<>> \in Seq(Orders)
    OBVIOUS
  <2>2. QED
    BY <1>0, <2>1 DEF NoHistory, HistoryWindow, ReadsOK, AsksOK
<1>4. ASSUME NEW ok \in BOOLEAN, calls # <<>>, ServeOrders(ok) PROVE OrdersInv'
  <2> DEFINE c == Head(calls)
             v == IF c.route = "review.get" /\ c.arg \notin reviewed THEN 0 ELSE c.arg
  <2>1. c \in Call(0..MaxOrders)
    BY <1>0, <1>4, HeadTailProperties DEF OrdersLinkInv, LinkTypeOK
  <2>2. Executes(ok, v) /\ UNCHANGED <<history, review>>
    BY <1>4 DEF ServeOrders
  <2>3. v \in 0..MaxOrders /\ (c.route = "order.detail" => v = c.arg)
    BY <1>0, <2>1 DEF Call
  <2>4. OrdersLinkSteps({})
    <3> HIDE DEF v
    <3>1. QED
      BY <1>0, <2>2, <2>3, OrdersExecutes
  <2>5. QED
    BY <1>0, <2>2, <2>4, OrdersStep
<1>5. CASE OpenHistory
  <2>1. CASE connected
    <3>1. /\ Send("order.list", 0) /\ review' = review
          /\ history' = [NoHistory EXCEPT !.list = "loading", !.timer = TRUE]
      BY <1>5, <2>1 DEF OpenHistory
    <3>2. /\ history' \in HistoryWindow /\ ReadsOK(history') /\ AsksOK(history')
          /\ history'.list = "loading"
      BY <1>3, <3>1 DEF HistoryWindow, ReadsOK, AsksOK, NoHistory
    <3>3. OrdersLinkSteps({"order.list"})
      BY <1>0, <3>1, OrdersSends DEF ReviewRoutes
    <3>4. QED
      BY <1>0, <3>1, <3>2, <3>3, OrdersStep
  <2>2. CASE ~connected
    <3>1. UNCHANGED <<link, review>> /\ history' = [NoHistory EXCEPT !.list = "failed"]
      BY <1>5, <2>2 DEF OpenHistory
    <3>2. /\ history' \in HistoryWindow /\ ReadsOK(history') /\ AsksOK(history')
          /\ history'.list = "failed"
      BY <1>3, <3>1 DEF HistoryWindow, ReadsOK, AsksOK, NoHistory
    <3>3. OrdersLinkSteps({})
      BY <1>0, <3>1, OrdersLoses
    <3>4. QED
      BY <1>0, <3>1, <3>2, <3>3, OrdersStep
  <2>3. QED
    BY <2>1, <2>2
<1>6. CASE CloseHistory
  <2>1. UNCHANGED <<link, review>> /\ history' = NoHistory /\ NoHistory.list = "closed"
    BY <1>6 DEF CloseHistory, NoHistory
  <2>2. OrdersLinkSteps({})
    BY <1>0, <2>1, OrdersLoses
  <2>3. QED
    BY <1>0, <1>3, <2>1, <2>2, OrdersStep
<1>7. CASE HistoryTimer
  <2>1. UNCHANGED <<link, review>> /\ history' = ReadFailed(history)
    BY <1>7 DEF HistoryTimer
  <2>2. OrdersLinkSteps({})
    BY <1>0, <2>1, OrdersLoses
  <2>3. QED
    BY <1>0, <1>1, <2>1, <2>2, OrdersStep
<1>8. CASE AskTimer
  <2> DEFINE h == AskFailed(history)
  <2>1. /\ h \in HistoryWindow /\ h.list = history.list /\ ReadsOK(h) /\ AsksOK(h)
    BY <1>0, AskEndsGood
  <2>2. history' \in {h, AllFailed(history)} /\ review' = review
    BY <1>8 DEF AskTimer
  <2>3. h.asked \in 0..MaxOrders
    BY <2>1 DEF HistoryWindow
  <2>4. OrdersLinkSteps({"review.get"}) \/ OrdersLinkSteps({})
    <3>1. Send("review.get", h.asked) \/ UNCHANGED link
      BY <1>8 DEF AskTimer
    <3>2. QED
      BY <1>0, <2>3, <3>1, OrdersSends, OrdersLoses DEF ReviewRoutes
  <2>5. QED
    BY <1>0, <1>1, <2>1, <2>2, <2>4, OrdersStep
<1>9. ASSUME NEW o \in Orders, RequestDetail(o) PROVE OrdersInv'
  <2>1. CASE connected
    <3>1. /\ Send("order.detail", o) /\ review' = review /\ history.list = "shown"
          /\ history' = [history EXCEPT !.detail = o, !.timer = TRUE]
      BY <1>9, <2>1 DEF RequestDetail
    <3>2. /\ history' \in HistoryWindow /\ ReadsOK(history') /\ AsksOK(history')
      BY <1>0, <3>1 DEF HistoryWindow, ReadsOK, AsksOK, Queueing
    <3>3. OrdersLinkSteps({"order.detail"})
      BY <1>0, <3>1, OrdersSends DEF ReviewRoutes
    <3>4. QED
      BY <1>0, <3>1, <3>2, <3>3, OrdersStep
  <2>2. CASE ~connected
    <3>1. UNCHANGED <<link, review>> /\ history' = ReadFailed(history)
      BY <1>9, <2>2 DEF RequestDetail
    <3>2. OrdersLinkSteps({})
      BY <1>0, <3>1, OrdersLoses
    <3>3. QED
      BY <1>0, <1>1, <3>1, <3>2, OrdersStep
  <2>3. QED
    BY <2>1, <2>2
<1>10. ASSUME NEW o \in Orders, OpenReview(o) PROVE OrdersInv'
  BY <1>0, <1>2, <1>10 DEF OpenReview, NoReview, ReviewWindow
<1>11. CASE SubmitClicked
  <2>1. review' \in ReviewWindow /\ review'.timer /\ history' = history
    BY <1>0, <1>11 DEF SubmitClicked, ReviewWindow
  <2>2. OrdersLinkSteps({"review.submit"}) \/ OrdersLinkSteps({})
    <3>1. Send("review.submit", review.order) \/ UNCHANGED link
      BY <1>11 DEF SubmitClicked
    <3>2. review.order \in 0..MaxOrders
      BY <1>0 DEF ReviewWindow
    <3>3. QED
      BY <1>0, <3>1, <3>2, OrdersSends, OrdersLoses DEF ReviewRoutes
  <2>3. QED
    BY <1>0, <2>1, <2>2, OrdersStep
<1>12. CASE ReviewTimer \/ CloseReview
  <2>1. UNCHANGED <<link, history>> /\ review' \in {SubmitFailed(review), NoReview}
    BY <1>12 DEF ReviewTimer, CloseReview
  <2>2. review' \in ReviewWindow /\ ~review'.submitting
    <3>1. SubmitFailed(review) \in ReviewWindow /\ ~SubmitFailed(review).submitting
      BY <1>0 DEF SubmitFailed, ReviewWindow
    <3>2. NoReview \in ReviewWindow /\ ~NoReview.submitting
      BY <1>0 DEF NoReview, ReviewWindow
    <3>3. QED
      BY <2>1, <3>1, <3>2
  <2>3. QED
    BY <1>2, <2>1, <2>2
<1>13. QED
  BY <1>4, <1>5, <1>6, <1>7, <1>8, <1>9, <1>10, <1>11, <1>12

(* Every step of these windows keeps their invariant.                      *)
LEMMA OrdersStay == OrdersInv /\ NextOrders => OrdersInv'
BY OrdersReceive, OrdersFail, OrdersMove DEF NextOrders

-----------------------------------------------------------------------------
(* The window of the account.  What it shows depends on the order in which *)
(* requests and answers stand in the queues, so that here positions count. *)

ProfileWindow ==
  [open : BOOLEAN, pending : {"none"} \cup AccountRoutes, timer : BOOLEAN,
   message : {"none", "ok", "error"}, shown : Nat,
   question : {"none", "recharge", "logout"}, confirm : {"closed", "open", "pending"}]

VehicleWindow == [open : BOOLEAN, pending : {"none"} \cup AccountRoutes, timer : BOOLEAN]

LiveRecharge(m) == m.live /\ m.route = "user.recharge"
Recharging(q) == \E k \in DOMAIN q : LiveRecharge(q[k])
NoLive(q) == \A i \in DOMAIN q : ~q[i].live
NoRecharge(q) == \A i \in DOMAIN q : q[i].route # "user.recharge"

\* A recharge that was given up, and that the server may yet carry out, is the
\* oldest of what is under way, or a later one will report the balance.
LateRechargesShow(c, a) ==
  \A i \in DOMAIN c : c[i].route = "user.recharge" /\ ~c[i].live =>
    \/ NoLive(a) /\ \A j \in 1..(i - 1) : ~c[j].live
    \/ \E k \in DOMAIN c : k > i /\ LiveRecharge(c[k])

\* what a wallet that knows of every recharge may show
MayShow == balance..(balance + spent)

\* An answer brings one of the values S, or a later one will.
AnswersShow(c, a, S) ==
  \A i \in DOMAIN a : a[i].live /\ a[i].ok /\ a[i].route \notin VehicleRoutes =>
    \/ a[i].value \in S
    \/ \E k \in DOMAIN a : k > i /\ LiveRecharge(a[k])
    \/ Recharging(c)

WalletLinkInv ==
  /\ LinkTypeOK({0}, Nat) /\ LinkInv
  /\ LateRechargesShow(calls, answers) /\ AnswersShow(calls, answers, MayShow)

\* a recharge that waits for its answer keeps its confirmation
RechargeConfirmed(p) ==
  p.open /\ p.confirm = "pending" /\ p.pending \in {"none", "user.recharge"}

\* what a window shows that succeeded and waits for nothing
ShowsRecharges(p, c, S) ==
  p.open /\ p.message = "ok" /\ p.confirm # "pending" => p.shown \in S /\ NoRecharge(c)

WindowOK(w) == w.pending # "none" => w.timer

ProfileGood(p) ==
  /\ p \in ProfileWindow /\ WindowOK(p)
  /\ p.confirm # "closed" => p.open /\ p.question # "none"

VehicleGood(v) == v \in VehicleWindow /\ WindowOK(v)

ProfileInv ==
  /\ WalletLinkInv /\ balance \in Nat /\ spent \in Nat
  /\ account \in [open : BOOLEAN, balance : Nat]
  /\ ProfileGood(profile) /\ VehicleGood(vehicle)
  /\ Recharging(calls) \/ Recharging(answers) => RechargeConfirmed(profile)
  /\ ShowsRecharges(profile, calls, MayShow)

(* The invariant implies the property: even a recharge under way does not  *)
(* make a window at rest wrong.                                            *)
LEMMA WalletIsRight == ProfileInv => RechargesAreShown /\ ProfileWatched
BY DEF ProfileInv, ProfileGood, VehicleGood, ShowsRecharges, WindowOK, RechargesAreShown,
       ProfileWatched, MayShow

(* A message that is given up keeps its place.                             *)
LEMMA OrphanedInPlace ==
  ASSUME NEW M, Messages(M), NEW q \in Seq(M), NEW r
  PROVE  /\ DOMAIN Orphaned(q, r) = DOMAIN q /\ DOMAIN q = 1..Len(q) /\ Len(q) \in Nat
         /\ \A i \in DOMAIN q :
              /\ Orphaned(q, r)[i].route = q[i].route
              /\ Orphaned(q, r)[i].live <=> q[i].live /\ q[i].route # r
              /\ Orphaned(q, r)[i].live => Orphaned(q, r)[i] = q[i]
<1>1. q \in [1..Len(q) -> M] /\ DOMAIN q = 1..Len(q) /\ Len(q) \in Nat
  OBVIOUS
<1>2. ASSUME NEW i \in DOMAIN q
      PROVE  /\ Orphaned(q, r)[i].route = q[i].route
             /\ Orphaned(q, r)[i].live <=> q[i].live /\ q[i].route # r
             /\ Orphaned(q, r)[i].live => Orphaned(q, r)[i] = q[i]
  BY <1>1, <1>2 DEF Orphaned, Messages
<1>3. QED
  BY <1>1, <1>2 DEF Orphaned

(* When all is given up, routes stay.                                      *)
LEMMA AllOrphanedInPlace ==
  ASSUME NEW M, Messages(M), NEW q \in Seq(M)
  PROVE  /\ DOMAIN AllOrphaned(q) = DOMAIN q
         /\ \A i \in DOMAIN q : AllOrphaned(q)[i].route = q[i].route /\ ~AllOrphaned(q)[i].live
<1>1. \A i \in DOMAIN q : q[i] \in M
  OBVIOUS
<1>2. QED
  BY <1>1 DEF AllOrphaned, Messages

(* Without its first message a queue has moved up by one.                  *)
LEMMA TailInPlace ==
  ASSUME NEW M, NEW q \in Seq(M), q # <<>>
  PROVE  /\ Len(q) \in Nat \ {0} /\ DOMAIN q = 1..Len(q) /\ Head(q) = q[1]
         /\ DOMAIN Tail(q) = 1..(Len(q) - 1)
         /\ \A i \in 1..(Len(q) - 1) : Tail(q)[i] = q[i + 1]
BY EmptySeq, HeadTailProperties

(* A live recharge is a live message with that route.                      *)
LEMMA RechargingIsLive ==
  ASSUME NEW q PROVE Recharging(q) <=> "user.recharge" \in LiveRoutes(q)
BY DEF Recharging, LiveRecharge, LiveRoutes, Live

(* A range holds its lower end.                                            *)
LEMMA LowestInRange == ASSUME NEW b \in Nat, NEW s \in Nat PROVE b \in b..(b + s)
OBVIOUS

(* Only a recharge or a payment changes what a wallet may show.            *)
LEMMA MayShowStays == ASSUME UNCHANGED <<balance, spent>> PROVE MayShow' = MayShow
BY DEF MayShow

\* what a step of the link that leaves the balance alone does to a wallet
WalletSteps(R) ==
  /\ WalletLinkInv'
  /\ Recharging(calls)' \/ Recharging(answers)' =>
       Recharging(calls) \/ Recharging(answers) \/ "user.recharge" \in R
  /\ NoRecharge(calls) /\ "user.recharge" \notin R => NoRecharge(calls)'

(* A request is sent.                                                      *)
LEMMA WalletSends ==
  ASSUME WalletLinkInv, NEW r \in AccountRoutes, Send(r, 0), MayShow' = MayShow
  PROVE  WalletSteps({r})
<1> DEFINE m == [route |-> r, live |-> TRUE, arg |-> 0]
           o == Orphaned(calls, r)
<1>0. /\ LinkTypeOK({0}, Nat)' /\ LinkInv'
  BY SendKeeps, WindowsAssumption DEF WalletLinkInv
<1>1. CASE Suppressed(r)
  <2>1. UNCHANGED <<calls, answers>> /\ MayShow' = MayShow
    BY <1>1 DEF Send
  <2>2. QED
    BY <1>0, <2>1 DEF WalletLinkInv, WalletSteps, LateRechargesShow, AnswersShow, Recharging,
                      LiveRecharge, NoLive, NoRecharge
<1>2. CASE ~Suppressed(r)
  <2>1. calls' = Append(o, m) /\ answers' = Orphaned(answers, r)
    BY <1>2 DEF Send, Asks
  <2>2. calls \in Seq(Call({0})) /\ answers \in Seq(Answer(Nat))
    BY DEF WalletLinkInv, LinkTypeOK
  <2>3. /\ DOMAIN o = DOMAIN calls /\ DOMAIN calls = 1..Len(calls) /\ Len(calls) \in Nat
        /\ \A i \in DOMAIN calls :
             /\ o[i].route = calls[i].route
             /\ o[i].live <=> calls[i].live /\ calls[i].route # r
             /\ o[i].live => o[i] = calls[i]
        /\ o \in Seq(Call({0}))
    BY <2>2, OrphanedInPlace, OrphanedLeaves, CallsAreMessages
  <2>4. /\ DOMAIN answers' = DOMAIN answers /\ DOMAIN answers = 1..Len(answers)
        /\ Len(answers) \in Nat
        /\ \A i \in DOMAIN answers :
             /\ answers'[i].route = answers[i].route
             /\ answers'[i].live <=> answers[i].live /\ answers[i].route # r
             /\ answers'[i].live => answers'[i] = answers[i]
    BY <2>1, <2>2, OrphanedInPlace, AnswersAreMessages
  <2>5. /\ DOMAIN calls' = 1..(Len(calls) + 1)
        /\ \A i \in 1..Len(calls) : calls'[i] = o[i]
        /\ calls'[Len(calls) + 1] = m
    <3>1. Len(o) = Len(calls)
      BY <2>3
    <3> HIDE DEF o, m
    <3>2. QED
      BY <2>1, <2>3, <3>1
  <2>6. m.live /\ m.route = r
    OBVIOUS
  <2> HIDE DEF m, o
  <2>7. Recharging(calls') \/ Recharging(answers') =>
          Recharging(calls) \/ Recharging(answers) \/ r = "user.recharge"
    BY <2>3, <2>4, <2>5, <2>6 DEF Recharging, LiveRecharge
  <2>8. NoRecharge(calls) /\ r # "user.recharge" => NoRecharge(calls')
    BY <2>3, <2>5, <2>6 DEF NoRecharge
  <2>9. CASE r = "user.recharge"
    <3>1. Recharging(calls')
      BY <2>3, <2>5, <2>6, <2>9 DEF Recharging, LiveRecharge
    <3>2. LateRechargesShow(calls', answers')
      <4>1. ASSUME NEW i \in DOMAIN calls', ~calls'[i].live
            PROVE  \E k \in DOMAIN calls' : k > i /\ LiveRecharge(calls'[k])
        BY <2>3, <2>5, <2>6, <2>9, <4>1 DEF LiveRecharge
      <4>2. QED
        BY <4>1 DEF LateRechargesShow
    <3>3. AnswersShow(calls', answers', MayShow')
      BY <3>1 DEF AnswersShow
    <3>4. QED
      BY <1>0, <2>7, <2>8, <3>2, <3>3 DEF WalletSteps, WalletLinkInv
  <2>10. CASE r # "user.recharge"
    <3>1. Recharging(calls) => Recharging(calls')
      BY <2>3, <2>5, <2>10 DEF Recharging, LiveRecharge
    <3>2. LateRechargesShow(calls', answers')
      <4>1. ASSUME NEW i \in DOMAIN calls', calls'[i].route = "user.recharge", ~calls'[i].live
            PROVE  \/ NoLive(answers') /\ \A j \in 1..(i - 1) : ~calls'[j].live
                   \/ \E k \in DOMAIN calls' : k > i /\ LiveRecharge(calls'[k])
        <5>1. i \in DOMAIN calls /\ calls[i].route = "user.recharge" /\ ~calls[i].live
          BY <2>3, <2>5, <2>6, <2>10, <4>1
        <5>2. CASE NoLive(answers) /\ \A j \in 1..(i - 1) : ~calls[j].live
          BY <2>3, <2>4, <2>5, <5>1, <5>2, SMTT(30) DEF NoLive
        <5>3. CASE \E k \in DOMAIN calls : k > i /\ LiveRecharge(calls[k])
          BY <2>3, <2>5, <2>10, <5>3 DEF LiveRecharge
        <5>4. QED
          BY <5>1, <5>2, <5>3 DEF WalletLinkInv, LateRechargesShow
      <4>2. QED
        BY <4>1 DEF LateRechargesShow
    <3>3. AnswersShow(calls', answers', MayShow')
      BY <2>4, <2>10, <3>1 DEF WalletLinkInv, AnswersShow, LiveRecharge
    <3>4. QED
      BY <1>0, <2>7, <2>8, <3>2, <3>3 DEF WalletSteps, WalletLinkInv
  <2>11. QED
    BY <2>9, <2>10
<1>3. QED
  BY <1>1, <1>2

(* An answer arrives: one to a recharge, or one while no recharge waits,   *)
(* brings the balance that the server has.                                 *)
LEMMA WalletArrives ==
  ASSUME WalletLinkInv, Arrives, MayShow' = MayShow
  PROVE  LET a == Head(answers)
         IN  /\ WalletSteps({}) /\ a \in Answer(Nat)
             /\ a.live /\ a.route = "user.recharge" =>
                  ~(Recharging(calls)' \/ Recharging(answers)')
             /\ a.live /\ a.ok /\ a.route \notin VehicleRoutes
                  /\ (a.route = "user.recharge" \/ ~(Recharging(calls) \/ Recharging(answers)))
                => a.value \in MayShow /\ NoRecharge(calls)
<1> DEFINE a == Head(answers)
<1>0. /\ LinkTypeOK({0}, Nat)' /\ LinkInv' /\ a \in Answer(Nat)
  BY ArrivesKeeps DEF WalletLinkInv
<1>1. /\ answers # <<>> /\ answers' = Tail(answers) /\ calls' = calls
      /\ answers \in Seq(Answer(Nat))
  BY DEF Arrives, WalletLinkInv, LinkTypeOK
<1>2. /\ Len(answers) \in Nat \ {0} /\ DOMAIN answers = 1..Len(answers) /\ a = answers[1]
      /\ DOMAIN answers' = 1..(Len(answers) - 1)
      /\ \A i \in 1..(Len(answers) - 1) : answers'[i] = answers[i + 1]
  BY <1>1, TailInPlace
<1> HIDE DEF a
<1>3. WalletSteps({})
  <2>1. NoLive(answers) => NoLive(answers')
    BY <1>2 DEF NoLive
  <2>2. LateRechargesShow(calls', answers')
    BY <1>1, <2>1 DEF WalletLinkInv, LateRechargesShow
  <2>3. AnswersShow(calls', answers', MayShow')
    <3>1. ASSUME NEW i \in DOMAIN answers', answers'[i].live, answers'[i].ok,
                 answers'[i].route \notin VehicleRoutes
          PROVE  \/ answers'[i].value \in MayShow
                 \/ \E k \in DOMAIN answers' : k > i /\ LiveRecharge(answers'[k])
                 \/ Recharging(calls)
      <4>1. i + 1 \in DOMAIN answers /\ answers'[i] = answers[i + 1]
        BY <1>2
      <4>2. CASE \E k \in DOMAIN answers : k > i + 1 /\ LiveRecharge(answers[k])
        <5>1. PICK k \in DOMAIN answers : k > i + 1 /\ LiveRecharge(answers[k])
          BY <4>2
        <5>2. k - 1 \in DOMAIN answers' /\ k - 1 > i /\ answers'[k - 1] = answers[k]
          BY <1>2, <4>1, <5>1
        <5>3. QED
          BY <5>1, <5>2
      <4>3. QED
        BY <3>1, <4>1, <4>2 DEF WalletLinkInv, AnswersShow
    <3>2. QED
      BY <1>1, <3>1 DEF AnswersShow
  <2>4. Recharging(answers') => Recharging(answers)
    BY <1>2 DEF Recharging
  <2>5. QED
    BY <1>0, <1>1, <2>2, <2>3, <2>4 DEF WalletSteps, WalletLinkInv
<1>4. ASSUME a.live, a.route = "user.recharge"
      PROVE  ~Recharging(calls) /\ \A k \in DOMAIN answers : k > 1 => ~LiveRecharge(answers[k])
  <2>1. 1 \in DOMAIN answers /\ Recharging(answers)
    BY <1>2, <1>4 DEF Recharging, LiveRecharge
  <2>2. ~Recharging(calls)
    BY <2>1, RechargingIsLive DEF WalletLinkInv, LinkInv
  <2>3. \A k \in DOMAIN answers : LiveRecharge(answers[k]) => k = 1
    BY <1>2, <1>4, <2>1 DEF WalletLinkInv, LinkInv, Distinct, LiveRecharge
  <2>4. QED
    BY <1>2, <2>2, <2>3
<1>5. ASSUME a.live, a.route = "user.recharge"
      PROVE  ~(Recharging(calls') \/ Recharging(answers'))
  BY <1>1, <1>2, <1>4, <1>5 DEF Recharging
<1>6. ASSUME a.live, a.ok, a.route \notin VehicleRoutes,
             a.route = "user.recharge" \/ ~(Recharging(calls) \/ Recharging(answers))
      PROVE  a.value \in MayShow /\ NoRecharge(calls)
  <2>1. ~Recharging(calls) /\ \A k \in DOMAIN answers : k > 1 => ~LiveRecharge(answers[k])
    BY <1>4, <1>6 DEF Recharging
  <2>2. 1 \in DOMAIN answers
    BY <1>2
  <2>3. a.value \in MayShow
    BY <1>2, <1>6, <2>1, <2>2 DEF WalletLinkInv, AnswersShow
  <2>4. \A i \in DOMAIN calls : calls[i].live => calls[i].route # "user.recharge"
    BY <2>1 DEF Recharging, LiveRecharge
  <2>5. \A i \in DOMAIN calls : calls[i].route = "user.recharge" => calls[i].live
    <3>1. ~NoLive(answers)
      BY <1>2, <1>6, <2>2 DEF NoLive
    <3>2. QED
      BY <2>1, <3>1 DEF WalletLinkInv, LateRechargesShow, Recharging
  <2>6. QED
    BY <2>3, <2>4, <2>5 DEF NoRecharge
<1>7. QED
  BY <1>0, <1>3, <1>5, <1>6 DEF a

(* The server executes a request, a recharge perhaps.                      *)
LEMMA WalletServes ==
  ASSUME WalletLinkInv, balance \in Nat, spent \in Nat, NEW ok \in BOOLEAN, calls # <<>>, ServeProfile(ok)
  PROVE  /\ WalletLinkInv' /\ balance' \in Nat /\ spent' \in Nat
         /\ Recharging(calls)' \/ Recharging(answers)' => Recharging(calls) \/ Recharging(answers)
         /\ NoRecharge(calls) => NoRecharge(calls)' /\ MayShow' = MayShow
<1> DEFINE c == Head(calls)
           v == IF ok THEN balance' ELSE 0
           m == [route |-> c.route, live |-> TRUE, ok |-> ok, value |-> v]
<1>1. /\ balance' \in Nat /\ spent' \in Nat /\ Executes(ok, v)
      /\ c.route # "user.recharge" => MayShow' = MayShow
  BY MayShowStays DEF ServeProfile, Recharge
<1>0. LinkTypeOK({0}, Nat)' /\ LinkInv'
  <2>1. v \in Nat
    BY <1>1
  <2> HIDE DEF v
  <2>2. QED
    BY <1>1, <2>1, ExecutesKeeps DEF WalletLinkInv
<1>2. /\ calls' = Tail(calls) /\ answers' = IF c.live THEN Append(answers, m) ELSE answers
      /\ calls \in Seq(Call({0})) /\ answers \in Seq(Answer(Nat))
  BY <1>1 DEF Executes, WalletLinkInv, LinkTypeOK
<1>3. /\ Len(calls) \in Nat \ {0} /\ DOMAIN calls = 1..Len(calls) /\ c = calls[1]
      /\ DOMAIN calls' = 1..(Len(calls) - 1)
      /\ \A i \in 1..(Len(calls) - 1) : calls'[i] = calls[i + 1]
  BY <1>2, TailInPlace
<1>4. Len(answers) \in Nat /\ DOMAIN answers = 1..Len(answers)
  BY <1>2
<1>5. c.live => /\ DOMAIN answers' = 1..(Len(answers) + 1)
                /\ \A i \in 1..Len(answers) : answers'[i] = answers[i]
                /\ answers'[Len(answers) + 1] = m
  <2> HIDE DEF m
  <2>1. QED
    BY <1>2, <1>4
<1>6. m.live /\ m.route = c.route /\ m.ok = ok /\ m.value = v
  OBVIOUS
<1>7. ~c.live => answers' = answers
  BY <1>2
<1>8. 1 \in DOMAIN calls
  BY <1>3
<1>v. ok => v \in MayShow'
  <2>1. ok => v = balance'
    OBVIOUS
  <2>2. MayShow' = balance'..(balance' + spent')
    BY DEF MayShow
  <2>3. balance' \in balance'..(balance' + spent')
    BY <1>1, LowestInRange
  <2>4. QED
    BY <2>1, <2>2, <2>3
<1> HIDE DEF c, m, v
<1>9. Recharging(calls') => Recharging(calls)
  BY <1>3 DEF Recharging
<1>10. Recharging(answers') => Recharging(calls) \/ Recharging(answers)
  <2>1. CASE c.live
    BY <1>3, <1>4, <1>5, <1>6, <1>8, <2>1 DEF Recharging, LiveRecharge
  <2>2. QED
    BY <1>7, <2>1
<1>11. NoRecharge(calls) => NoRecharge(calls') /\ MayShow' = MayShow
  <2>1. NoRecharge(calls) => c.route # "user.recharge" /\ NoRecharge(calls')
    BY <1>3, <1>8 DEF NoRecharge
  <2>2. QED
    BY <1>1, <2>1
<1>12. LateRechargesShow(calls', answers')
  <2>1. ASSUME NEW i \in DOMAIN calls', calls'[i].route = "user.recharge", ~calls'[i].live
        PROVE  \/ NoLive(answers') /\ \A j \in 1..(i - 1) : ~calls'[j].live
               \/ \E k \in DOMAIN calls' : k > i /\ LiveRecharge(calls'[k])
    <3>1. i + 1 \in DOMAIN calls /\ calls'[i] = calls[i + 1]
      BY <1>3
    <3>2. CASE NoLive(answers) /\ \A j \in 1..i : ~calls[j].live
      <4>1. ~c.live
        BY <1>3, <3>1, <3>2
      <4>2. \A j \in 1..(i - 1) : ~calls'[j].live
        BY <1>3, <3>1, <3>2
      <4>3. QED
        BY <1>7, <3>2, <4>1, <4>2
    <3>3. CASE \E k \in DOMAIN calls : k > i + 1 /\ LiveRecharge(calls[k])
      <4>1. PICK k \in DOMAIN calls : k > i + 1 /\ LiveRecharge(calls[k])
        BY <3>3
      <4>2. k - 1 \in DOMAIN calls' /\ k - 1 > i /\ calls'[k - 1] = calls[k]
        BY <1>3, <3>1, <4>1
      <4>3. QED
        BY <4>1, <4>2
    <3>4. \/ NoLive(answers) /\ \A j \in 1..((i + 1) - 1) : ~calls[j].live
          \/ \E k \in DOMAIN calls : k > i + 1 /\ LiveRecharge(calls[k])
      BY <2>1, <3>1 DEF WalletLinkInv, LateRechargesShow
    <3>5. 1..((i + 1) - 1) = 1..i
      BY <1>3
    <3>6. QED
      BY <3>2, <3>3, <3>4, <3>5
  <2>2. QED
    BY <2>1 DEF LateRechargesShow
<1>13. ASSUME c.route # "user.recharge" PROVE Recharging(calls) => Recharging(calls')
  <2>1. ASSUME NEW k \in DOMAIN calls, LiveRecharge(calls[k]) PROVE Recharging(calls')
    <3>1. k # 1
      BY <1>3, <1>13, <2>1 DEF LiveRecharge
    <3>2. k - 1 \in DOMAIN calls' /\ calls'[k - 1] = calls[k]
      BY <1>3, <3>1
    <3>3. QED
      BY <2>1, <3>2 DEF Recharging
  <2>2. QED
    BY <2>1 DEF Recharging
<1>14. AnswersShow(calls', answers', MayShow')
  <2>1. CASE c.live /\ c.route = "user.recharge"
    <3>1. LiveRecharge(answers'[Len(answers) + 1])
      BY <1>5, <1>6, <2>1 DEF LiveRecharge
    <3>2. ASSUME NEW i \in DOMAIN answers', answers'[i].ok
          PROVE  \/ answers'[i].value \in MayShow'
                 \/ \E k \in DOMAIN answers' : k > i /\ LiveRecharge(answers'[k])
      <4>1. CASE i = Len(answers) + 1
        BY <1>5, <1>6, <1>v, <2>1, <3>2, <4>1
      <4>2. CASE i # Len(answers) + 1
        BY <1>4, <1>5, <2>1, <3>1, <4>2
      <4>3. QED
        BY <4>1, <4>2
    <3>3. QED
      BY <3>2 DEF AnswersShow
  <2>2. CASE c.live /\ c.route # "user.recharge"
    <3>1. Recharging(calls) => Recharging(calls')
      BY <1>13, <2>2
    <3>2. ASSUME NEW i \in DOMAIN answers', answers'[i].live, answers'[i].ok,
                 answers'[i].route \notin VehicleRoutes
          PROVE  \/ answers'[i].value \in MayShow'
                 \/ \E k \in DOMAIN answers' : k > i /\ LiveRecharge(answers'[k])
                 \/ Recharging(calls')
      <4>1. CASE i = Len(answers) + 1
        BY <1>5, <1>6, <1>v, <2>2, <3>2, <4>1
      <4>2. CASE i # Len(answers) + 1
        <5>1. i \in DOMAIN answers /\ answers'[i] = answers[i]
          BY <1>4, <1>5, <2>2, <4>2
        <5>2. \/ answers[i].value \in MayShow
              \/ \E k \in DOMAIN answers : k > i /\ LiveRecharge(answers[k])
              \/ Recharging(calls)
          BY <3>2, <5>1 DEF WalletLinkInv, AnswersShow
        <5>3. \A k \in DOMAIN answers : k \in DOMAIN answers' /\ answers'[k] = answers[k]
          BY <1>4, <1>5, <2>2
        <5>4. QED
          BY <1>1, <2>2, <3>1, <5>1, <5>2, <5>3
      <4>3. QED
        BY <4>1, <4>2
    <3>3. QED
      BY <3>2 DEF AnswersShow
  <2>3. CASE ~c.live /\ c.route # "user.recharge"
    <3>1. Recharging(calls) => Recharging(calls')
      BY <1>13, <2>3
    <3>2. QED
      BY <1>1, <1>7, <2>3, <3>1 DEF WalletLinkInv, AnswersShow
  <2>4. CASE ~c.live /\ c.route = "user.recharge"
    <3>1. CASE NoLive(answers)
      BY <1>7, <2>4, <3>1 DEF NoLive, AnswersShow
    <3>2. CASE \E k \in DOMAIN calls : k > 1 /\ LiveRecharge(calls[k])
      <4>1. PICK k \in DOMAIN calls : k > 1 /\ LiveRecharge(calls[k])
        BY <3>2
      <4>2. k - 1 \in DOMAIN calls' /\ calls'[k - 1] = calls[k]
        BY <1>3, <4>1
      <4>3. QED
        BY <4>1, <4>2 DEF Recharging, AnswersShow
    <3>3. QED
      BY <1>3, <1>8, <2>4, <3>1, <3>2 DEF WalletLinkInv, LateRechargesShow
  <2>5. QED
    BY <2>1, <2>2, <2>3, <2>4
<1>15. QED
  BY <1>0, <1>1, <1>9, <1>10, <1>11, <1>12, <1>14 DEF WalletLinkInv

(* The oldest request is given up: if it is the recharge, then nothing     *)
(* older waits.                                                            *)
LEMMA OldestIsFirst ==
  ASSUME WalletLinkInv, IsOldest("user.recharge")
  PROVE  /\ \A k \in DOMAIN answers : LiveRecharge(answers[k]) =>
              \A j \in 1..(k - 1) : ~answers[j].live
         /\ \A k \in DOMAIN calls : LiveRecharge(calls[k]) =>
              NoLive(answers) /\ \A j \in 1..(k - 1) : ~calls[j].live
<1> DEFINE q == answers \o calls
           n == Len(answers)
<1>1. /\ calls \in Seq(Call({0})) /\ answers \in Seq(Answer(Nat))
      /\ n \in Nat /\ DOMAIN answers = 1..n
      /\ Len(calls) \in Nat /\ DOMAIN calls = 1..Len(calls)
  BY DEF WalletLinkInv, LinkTypeOK
<1>2. /\ DOMAIN q = 1..(n + Len(calls))
      /\ \A i \in 1..n : q[i] = answers[i]
      /\ \A i \in 1..Len(calls) : q[n + i] = calls[i]
  BY <1>1
<1>3. \/ \A i \in DOMAIN q : ~q[i].live
      \/ \E i \in DOMAIN q : LiveRecharge(q[i]) /\ \A j \in 1..(i - 1) : ~q[j].live
  BY DEF IsOldest, LiveRecharge
<1> HIDE DEF q, n
<1>4. ~(Recharging(calls) /\ Recharging(answers))
  BY RechargingIsLive DEF WalletLinkInv, LinkInv
<1>5. \A i, j \in DOMAIN calls : LiveRecharge(calls[i]) /\ LiveRecharge(calls[j]) => i = j
  BY DEF WalletLinkInv, LinkInv, Distinct, LiveRecharge
<1>6. \A i, j \in DOMAIN answers : LiveRecharge(answers[i]) /\ LiveRecharge(answers[j]) => i = j
  BY DEF WalletLinkInv, LinkInv, Distinct, LiveRecharge
<1>7. ASSUME \A i \in DOMAIN q : ~q[i].live
      PROVE  ~Recharging(calls) /\ ~Recharging(answers)
  <2>1. \A i \in DOMAIN answers : i \in DOMAIN q /\ q[i] = answers[i]
    BY <1>1, <1>2
  <2>2. \A i \in DOMAIN calls : n + i \in DOMAIN q /\ q[n + i] = calls[i]
    BY <1>1, <1>2
  <2>3. QED
    BY <1>7, <2>1, <2>2 DEF Recharging, LiveRecharge
<1>8. ASSUME NEW i \in DOMAIN q, LiveRecharge(q[i]), \A j \in 1..(i - 1) : ~q[j].live, i <= n
      PROVE  /\ i \in DOMAIN answers /\ LiveRecharge(answers[i]) /\ ~Recharging(calls)
             /\ \A j \in 1..(i - 1) : ~answers[j].live
  <2>1. i \in DOMAIN answers /\ q[i] = answers[i] /\ \A j \in 1..(i - 1) : q[j] = answers[j]
    BY <1>1, <1>2, <1>8
  <2>2. Recharging(answers)
    BY <1>8, <2>1 DEF Recharging
  <2>3. QED
    BY <1>4, <1>8, <2>1, <2>2
<1>9. ASSUME NEW i \in DOMAIN q, LiveRecharge(q[i]), \A j \in 1..(i - 1) : ~q[j].live, ~(i <= n)
      PROVE  /\ i - n \in DOMAIN calls /\ LiveRecharge(calls[i - n]) /\ ~Recharging(answers)
             /\ NoLive(answers) /\ \A j \in 1..(i - n - 1) : ~calls[j].live
  <2>1. i - n \in DOMAIN calls /\ q[i] = calls[i - n]
    BY <1>1, <1>2, <1>9
  <2>2. NoLive(answers)
    BY <1>1, <1>2, <1>9 DEF NoLive
  <2>3. \A j \in 1..(i - n - 1) : n + j \in 1..(i - 1) /\ q[n + j] = calls[j]
    BY <1>1, <1>2, <1>9, <2>1
  <2>4. Recharging(calls)
    BY <1>9, <2>1 DEF Recharging
  <2>5. QED
    BY <1>4, <1>9, <2>1, <2>2, <2>3, <2>4
<1>10. QED
  BY <1>3, <1>5, <1>6, <1>7, <1>8, <1>9 DEF Recharging

(* The oldest request times out.                                           *)
LEMMA WalletGivesUp ==
  ASSUME WalletLinkInv, NEW r, GivesUp(r), IsOldest(r), MayShow' = MayShow
  PROVE  /\ WalletSteps({})
         /\ r = "user.recharge" => ~(Recharging(calls)' \/ Recharging(answers)')
<1>0. LinkTypeOK({0}, Nat)' /\ LinkInv'
  BY GivesUpKeeps DEF WalletLinkInv
<1>1. /\ calls' = Orphaned(calls, r) /\ answers' = Orphaned(answers, r)
      /\ calls \in Seq(Call({0})) /\ answers \in Seq(Answer(Nat))
  BY DEF GivesUp, WalletLinkInv, LinkTypeOK
<1>2. /\ DOMAIN calls' = DOMAIN calls /\ DOMAIN calls = 1..Len(calls) /\ Len(calls) \in Nat
      /\ \A i \in DOMAIN calls :
           /\ calls'[i].route = calls[i].route
           /\ calls'[i].live <=> calls[i].live /\ calls[i].route # r
  BY <1>1, OrphanedInPlace, CallsAreMessages
<1>3. /\ DOMAIN answers' = DOMAIN answers /\ DOMAIN answers = 1..Len(answers)
      /\ Len(answers) \in Nat
      /\ \A i \in DOMAIN answers :
           /\ answers'[i].route = answers[i].route
           /\ answers'[i].live <=> answers[i].live /\ answers[i].route # r
           /\ answers'[i].live => answers'[i] = answers[i]
  BY <1>1, OrphanedInPlace, AnswersAreMessages
<1>4. /\ Recharging(calls') => Recharging(calls) /\ r # "user.recharge"
      /\ Recharging(answers') => Recharging(answers) /\ r # "user.recharge"
      /\ NoRecharge(calls) => NoRecharge(calls')
  BY <1>2, <1>3 DEF Recharging, LiveRecharge, NoRecharge
<1>5. LateRechargesShow(calls', answers')
  <2>1. ASSUME NEW i \in DOMAIN calls', calls'[i].route = "user.recharge", ~calls'[i].live
        PROVE  \/ NoLive(answers') /\ \A j \in 1..(i - 1) : ~calls'[j].live
               \/ \E k \in DOMAIN calls' : k > i /\ LiveRecharge(calls'[k])
    <3>1. i \in DOMAIN calls /\ calls[i].route = "user.recharge"
      BY <1>2, <2>1
    <3>2. CASE NoLive(answers) /\ \A j \in 1..(i - 1) : ~calls[j].live
      BY <1>2, <1>3, <3>1, <3>2, SMTT(30) DEF NoLive
    <3>3. CASE \E k \in DOMAIN calls : k > i /\ LiveRecharge(calls[k])
      <4>1. PICK k \in DOMAIN calls : k > i /\ LiveRecharge(calls[k])
        BY <3>3
      <4>2. CASE r # "user.recharge"
        BY <1>2, <4>1, <4>2 DEF LiveRecharge
      <4>3. CASE r = "user.recharge"
        <5>1. NoLive(answers) /\ \A j \in 1..(k - 1) : ~calls[j].live
          BY <4>1, <4>3, OldestIsFirst
        <5>2. \A j \in 1..(i - 1) : ~calls[j].live
          BY <1>2, <4>1, <5>1
        <5>3. QED
          BY <3>2, <5>1, <5>2
      <4>4. QED
        BY <4>2, <4>3
    <3>4. CASE calls[i].live
      <4>1. r = "user.recharge" /\ LiveRecharge(calls[i])
        BY <1>2, <2>1, <3>1, <3>4 DEF LiveRecharge
      <4>2. QED
        BY <3>1, <3>2, <4>1, OldestIsFirst
    <3>5. QED
      BY <3>1, <3>2, <3>3, <3>4 DEF WalletLinkInv, LateRechargesShow
  <2>2. QED
    BY <2>1 DEF LateRechargesShow
<1>6. AnswersShow(calls', answers', MayShow')
  <2>1. ASSUME NEW i \in DOMAIN answers', answers'[i].live, answers'[i].ok,
               answers'[i].route \notin VehicleRoutes
        PROVE  \/ answers'[i].value \in MayShow
               \/ \E k \in DOMAIN answers' : k > i /\ LiveRecharge(answers'[k])
               \/ Recharging(calls')
    <3>1. i \in DOMAIN answers /\ answers'[i] = answers[i]
      BY <1>3, <2>1
    <3>2. CASE answers[i].value \in MayShow
      BY <3>1, <3>2
    <3>3. CASE \E k \in DOMAIN answers : k > i /\ LiveRecharge(answers[k])
      <4>1. PICK k \in DOMAIN answers : k > i /\ LiveRecharge(answers[k])
        BY <3>3
      <4>2. r # "user.recharge"
        BY <1>3, <2>1, <3>1, <4>1, OldestIsFirst
      <4>3. QED
        BY <1>3, <4>1, <4>2 DEF LiveRecharge
    <3>4. CASE Recharging(calls)
      <4>1. r # "user.recharge"
        BY <2>1, <3>1, <3>4, OldestIsFirst DEF Recharging, NoLive
      <4>2. QED
        BY <1>2, <3>4, <4>1 DEF Recharging, LiveRecharge
    <3>5. QED
      BY <2>1, <3>1, <3>2, <3>3, <3>4 DEF WalletLinkInv, AnswersShow
  <2>2. QED
    BY <2>1 DEF AnswersShow
<1>7. QED
  BY <1>0, <1>4, <1>5, <1>6 DEF WalletSteps, WalletLinkInv

(* All is given up: the session ends or the connection breaks.             *)
LEMMA WalletLosesAll ==
  ASSUME WalletLinkInv,
         ArrivesAndEndsAll \/ (\E n \in 0..Len(calls) : Breaks(n)), MayShow' = MayShow
  PROVE  WalletSteps({}) /\ ~Recharging(calls)' /\ ~Recharging(answers)'
<1>0. LinkTypeOK({0}, Nat)' /\ LinkInv' /\ Live(calls)' = {} /\ Live(answers)' = {}
  BY ArrivesAndEndsAllKeeps, BreaksKeeps DEF WalletLinkInv, NothingWaits
<1>1. NoLive(calls') /\ NoLive(answers')
  BY <1>0 DEF Live, NoLive
<1>2. DOMAIN calls' = 1..Len(calls') /\ Len(calls') \in Nat
  BY <1>0 DEF LinkTypeOK
<1>3. LateRechargesShow(calls', answers')
  BY <1>1, <1>2 DEF LateRechargesShow, NoLive
<1>4. AnswersShow(calls', answers', MayShow')
  BY <1>1 DEF AnswersShow, NoLive
<1>5. ~Recharging(calls') /\ ~Recharging(answers')
  BY <1>1 DEF Recharging, LiveRecharge, NoLive
<1>6. NoRecharge(calls) => NoRecharge(calls')
  <2>1. calls \in Seq(Call({0}))
    BY DEF WalletLinkInv, LinkTypeOK
  <2>2. CASE ArrivesAndEndsAll
    BY <2>1, <2>2, AllOrphanedInPlace, CallsAreMessages DEF ArrivesAndEndsAll, NoRecharge
  <2>3. ASSUME NEW n \in 0..Len(calls), Breaks(n) PROVE NoRecharge(calls) => NoRecharge(calls')
    <3> DEFINE s == SubSeq(calls, 1, n)
    <3>1. s \in Seq(Call({0})) /\ \A i \in DOMAIN s : i \in DOMAIN calls /\ s[i] = calls[i]
      BY <2>1, SubSeqProperties
    <3>2. calls' = AllOrphaned(s)
      BY <2>3 DEF Breaks
    <3> HIDE DEF s
    <3>3. QED
      BY <3>1, <3>2, AllOrphanedInPlace, CallsAreMessages DEF NoRecharge
  <2>4. QED
    BY <2>2, <2>3
<1>7. QED
  BY <1>0, <1>3, <1>4, <1>5, <1>6 DEF WalletSteps, WalletLinkInv

(* Nothing is sent and nothing arrives.                                    *)
LEMMA WalletStays ==
  ASSUME WalletLinkInv, UNCHANGED link, MayShow' = MayShow PROVE WalletSteps({})
<1>1. LinkTypeOK({0}, Nat)' /\ LinkInv' /\ UNCHANGED <<calls, answers>>
  BY LinkStays DEF WalletLinkInv
<1>2. QED
  BY <1>1 DEF WalletLinkInv, WalletSteps, LateRechargesShow, AnswersShow, Recharging,
              LiveRecharge, NoLive, NoRecharge

(* A window asks, or its request fails on the spot.                        *)
LEMMA WalletAsked ==
  ASSUME WalletLinkInv, NEW r \in AccountRoutes, Asked(r), MayShow' = MayShow
  PROVE  IF connected THEN WalletSteps({r}) ELSE WalletSteps({})
BY WalletSends, WalletStays DEF Asked

(* What a step of the windows must do to keep the invariant.               *)
LEMMA ProfileStep ==
  ASSUME ProfileInv, UNCHANGED <<balance, spent>>, NEW R, WalletSteps(R),
         account' \in [open : BOOLEAN, balance : Nat],
         ProfileGood(profile'), VehicleGood(vehicle'),
         Recharging(calls)' \/ Recharging(answers)' => RechargeConfirmed(profile'),
         ShowsRecharges(profile', calls', MayShow)
  PROVE  ProfileInv'
<1>1. /\ ProfileGood(profile)' /\ VehicleGood(vehicle)'
      /\ RechargeConfirmed(profile') => RechargeConfirmed(profile)'
  OBVIOUS
<1>2. ShowsRecharges(profile, calls, MayShow)'
  BY MayShowStays
<1>3. QED
  BY <1>1, <1>2 DEF ProfileInv, WalletSteps

(* Requests of the account have names, and none of them is "none".         *)
LEMMA AccountNames ==
  /\ {"user.profile.get", "user.profile.update", "user.recharge", "user.logout",
      "user.vehicle.profile.get", "user.vehicle.profile.update"} \subseteq AccountRoutes
  /\ "none" \notin AccountRoutes
BY DEF AccountRoutes

(* A window that begins a request has its timer; one whose request failed  *)
(* waits for nothing and says so.                                          *)
LEMMA ProfileBegins ==
  ASSUME NEW p \in ProfileWindow, p.confirm # "closed" => p.open /\ p.question # "none",
         NEW r \in AccountRoutes
  PROVE  LET b == Begin(p, r)
             f == ProfileFailed(b, RefusedRoute(r))
         IN  /\ ProfileGood(f) /\ f.open = p.open
             /\ connected => /\ f.pending = r /\ f.confirm = p.confirm
                             /\ f.message = p.message /\ f.shown = p.shown
             /\ ~connected => f.message = "error"
<1> DEFINE b == Begin(p, r)
           f == ProfileFailed(b, RefusedRoute(r))
<1>1. b \in ProfileWindow /\ b.pending = r /\ b.timer /\ b.open = p.open
      /\ b.confirm = p.confirm /\ b.message = p.message /\ b.shown = p.shown
      /\ b.question = p.question
  BY DEF Begin, ProfileWindow
<1>2. r # "none"
  BY AccountNames
<1> HIDE DEF b
<1>3. CASE connected
  <2>1. f = b
    BY <1>1, <1>3 DEF ProfileFailed, RefusedRoute
  <2>2. QED
    BY <1>1, <1>3, <2>1 DEF ProfileGood, WindowOK, b
<1>4. CASE ~connected
  <2> DEFINE u == [b EXCEPT !.confirm = IF @ = "pending" THEN "open" ELSE @]
  <2>1. f = ProfileFinished(u, "error")
    BY <1>1, <1>2, <1>4 DEF ProfileFailed, RefusedRoute
  <2>2. /\ u \in ProfileWindow /\ u.open = p.open /\ u.question = p.question
        /\ u.confirm # "closed" => p.confirm # "closed"
    BY <1>1 DEF ProfileWindow
  <2> HIDE DEF u
  <2>3. /\ f \in ProfileWindow /\ f.open = u.open /\ f.question = u.question
        /\ f.confirm = u.confirm /\ f.pending = "none" /\ f.message = "error"
    BY <2>1, <2>2 DEF ProfileFinished, Finished, ProfileWindow
  <2>4. QED
    BY <1>4, <2>2, <2>3 DEF ProfileGood, WindowOK, b
<1>5. QED
  BY <1>3, <1>4

(* A failure ends a wait for the request that failed, and no other.        *)
LEMMA ProfileFails ==
  ASSUME NEW p, ProfileGood(p), NEW R
  PROVE  LET f == ProfileFailed(p, R)
         IN  /\ ProfileGood(f)
             /\ p.pending \notin R \/ p.pending = "none" => f = p
             /\ f = p \/ f.message = "error"
<1> DEFINE u == [p EXCEPT !.confirm = IF @ = "pending" THEN "open" ELSE @]
           f == ProfileFailed(p, R)
<1>1. CASE p.pending = "none" \/ p.pending \notin R
  BY <1>1 DEF ProfileFailed
<1>2. CASE ~(p.pending = "none" \/ p.pending \notin R)
  <2>1. f = ProfileFinished(u, "error")
    BY <1>2 DEF ProfileFailed
  <2>2. /\ u \in ProfileWindow /\ u.open = p.open /\ u.question = p.question
        /\ u.confirm # "closed" => p.confirm # "closed"
    BY DEF ProfileGood, ProfileWindow
  <2> HIDE DEF u
  <2>3. /\ f \in ProfileWindow /\ f.open = u.open /\ f.question = u.question
        /\ f.confirm = u.confirm /\ f.pending = "none" /\ f.message = "error"
    BY <2>1, <2>2 DEF ProfileFinished, Finished, ProfileWindow
  <2>4. QED
    BY <1>2, <2>2, <2>3 DEF ProfileGood, WindowOK
<1>3. QED
  BY <1>1, <1>2

(* The window of the vehicle, likewise.                                    *)
LEMMA VehicleMoves ==
  ASSUME NEW v \in VehicleWindow, NEW r \in AccountRoutes, NEW R
  PROVE  /\ VehicleGood(VehicleFailed(Begin(v, r), R)) /\ VehicleGood(Finished(v))
         /\ WindowOK(v) => VehicleGood(VehicleFailed(v, R))
         /\ VehicleGood(ClosedVehicle)
<1>1. Begin(v, r) \in VehicleWindow /\ WindowOK(Begin(v, r))
  BY DEF Begin, VehicleWindow, WindowOK
<1>2. \A w \in VehicleWindow : Finished(w) \in VehicleWindow /\ WindowOK(Finished(w))
  BY DEF Finished, VehicleWindow, WindowOK
<1>3. ClosedVehicle \in VehicleWindow /\ WindowOK(ClosedVehicle)
  BY DEF ClosedVehicle, VehicleWindow, WindowOK
<1>4. QED
  BY <1>1, <1>2, <1>3 DEF VehicleFailed, VehicleGood

(* The windows begin well.                                                 *)
LEMMA ProfileStarts == Init /\ screen = "profile" => ProfileInv
<1> SUFFICES ASSUME Init, screen = "profile" PROVE ProfileInv
  OBVIOUS
<1>1. /\ waiting = {} /\ connected = TRUE /\ calls = <<>> /\ answers = <<>>
      /\ balance = 0 /\ spent = 0 /\ account = [open |-> TRUE, balance |-> 0]
      /\ profile = ClosedProfile /\ vehicle = ClosedVehicle
  BY DEF Init, InitProfile
<1>2. LinkTypeOK({0}, Nat) /\ LinkInv
  BY <1>1, LinkInit
<1>3. /\ LateRechargesShow(calls, answers) /\ AnswersShow(calls, answers, MayShow)
      /\ ~Recharging(calls) /\ ~Recharging(answers)
  BY <1>1 DEF LateRechargesShow, AnswersShow, Recharging
<1>4. ProfileGood(profile) /\ ~profile.open
  BY <1>1 DEF ClosedProfile, ProfileGood, ProfileWindow, WindowOK
<1>5. VehicleGood(vehicle)
  BY <1>1 DEF ClosedVehicle, VehicleGood, VehicleWindow, WindowOK
<1>6. account \in [open : BOOLEAN, balance : Nat]
  BY <1>1
<1>7. QED
  BY <1>1, <1>2, <1>3, <1>4, <1>5, <1>6 DEF ProfileInv, WalletLinkInv, ShowsRecharges

(* The server's steps.                                                     *)
LEMMA ProfileServed ==
  ASSUME ProfileInv, (\E ok \in BOOLEAN : calls # <<>> /\ ServeProfile(ok)) \/ OrderPaid
  PROVE  ProfileInv'
<1>1. ASSUME NEW ok \in BOOLEAN, calls # <<>>, ServeProfile(ok) PROVE ProfileInv'
  <2>1. UNCHANGED <<account, profile, vehicle>>
    BY <1>1 DEF ServeProfile
  <2>2. /\ WalletLinkInv' /\ balance' \in Nat /\ spent' \in Nat
        /\ Recharging(calls)' \/ Recharging(answers)' => Recharging(calls) \/ Recharging(answers)
        /\ NoRecharge(calls) => NoRecharge(calls)' /\ MayShow' = MayShow
    BY <1>1, WalletServes DEF ProfileInv
  <2>3. ProfileGood(profile)' /\ VehicleGood(vehicle)'
    BY <2>1 DEF ProfileInv
  <2>4. ShowsRecharges(profile, calls, MayShow)'
    BY <2>1, <2>2 DEF ProfileInv, ShowsRecharges
  <2>5. RechargeConfirmed(profile) => RechargeConfirmed(profile)'
    BY <2>1
  <2>6. QED
    BY <2>1, <2>2, <2>3, <2>4, <2>5 DEF ProfileInv
<1>2. CASE OrderPaid
  <2>1. /\ balance > 0 /\ balance' = balance - 1 /\ spent' = spent + 1
        /\ UNCHANGED <<link, account, profile, vehicle>>
    BY <1>2 DEF OrderPaid
  <2>2. UNCHANGED <<calls, answers>> /\ LinkTypeOK({0}, Nat)' /\ LinkInv'
    BY <2>1, LinkStays DEF ProfileInv, WalletLinkInv
  <2>3. balance' \in Nat /\ spent' \in Nat /\ MayShow \subseteq MayShow'
    BY <2>1 DEF ProfileInv, MayShow
  <2>4. LateRechargesShow(calls', answers') /\ AnswersShow(calls', answers', MayShow')
    BY <2>2, <2>3 DEF ProfileInv, WalletLinkInv, LateRechargesShow, AnswersShow
  <2>5. ProfileGood(profile)' /\ VehicleGood(vehicle)'
    BY <2>1 DEF ProfileInv
  <2>6. ShowsRecharges(profile, calls, MayShow)'
    BY <2>1, <2>2, <2>3 DEF ProfileInv, ShowsRecharges
  <2>7. Recharging(calls)' \/ Recharging(answers)' => RechargeConfirmed(profile)'
    BY <2>1, <2>2 DEF ProfileInv
  <2>8. account' \in [open : BOOLEAN, balance : Nat]
    BY <2>1 DEF ProfileInv
  <2>9. QED
    BY <2>2, <2>3, <2>4, <2>5, <2>6, <2>7, <2>8 DEF ProfileInv, WalletLinkInv
<1>3. QED
  BY <1>1, <1>2

(* The buttons and timers of the account's windows.                        *)
LEMMA ProfileMoves ==
  ASSUME ProfileInv,
         \/ OpenProfile \/ CloseProfile \/ UpdateClicked
         \/ \E q \in {"recharge", "logout"} : QuestionAsked(q)
         \/ QuestionAnswered \/ ProfileTimer
         \/ OpenVehicle \/ SaveVehicle \/ VehicleTimer \/ CloseVehicle
  PROVE  ProfileInv'
<1>0. /\ WalletLinkInv /\ ProfileGood(profile) /\ VehicleGood(vehicle)
      /\ account \in [open : BOOLEAN, balance : Nat]
      /\ profile \in ProfileWindow /\ vehicle \in VehicleWindow
      /\ profile.confirm # "closed" => profile.open /\ profile.question # "none"
  BY DEF ProfileInv, ProfileGood, VehicleGood
<1>r. ASSUME ~RechargeConfirmed(profile) PROVE ~Recharging(calls) /\ ~Recharging(answers)
  BY <1>r DEF ProfileInv
<1>s. ASSUME NEW R, WalletSteps(R), "user.recharge" \notin R,
             profile'.open = profile.open, profile'.shown = profile.shown,
             profile'.message = profile.message,
             profile'.confirm # "pending" => profile.confirm # "pending"
      PROVE  ShowsRecharges(profile', calls', MayShow)
  BY <1>s DEF ProfileInv, ShowsRecharges, WalletSteps
<1>1. CASE OpenProfile
  <2> DEFINE p == [ClosedProfile EXCEPT !.open = TRUE, !.shown = account.balance]
             r == "user.profile.get"
  <2>1. /\ Asked(r) /\ profile' = ProfileFailed(Begin(p, r), RefusedRoute(r))
        /\ UNCHANGED <<balance, spent, account, vehicle>> /\ ~profile.open
    BY <1>1 DEF OpenProfile
  <2>2. p \in ProfileWindow /\ p.confirm = "closed" /\ p.message = "none"
    BY <1>0 DEF ClosedProfile, ProfileWindow
  <2> HIDE DEF p
  <2>3. ProfileGood(profile') /\ profile'.message # "ok"
    BY <2>1, <2>2, AccountNames, ProfileBegins
  <2>4. ~Recharging(calls) /\ ~Recharging(answers)
    BY <1>r, <2>1 DEF RechargeConfirmed
  <2>5. WalletSteps({r}) \/ WalletSteps({})
    BY <1>0, <2>1, AccountNames, WalletAsked, MayShowStays
  <2>6. ~Recharging(calls)' /\ ~Recharging(answers)'
    BY <2>4, <2>5 DEF WalletSteps
  <2>7. QED
    BY <1>0, <2>1, <2>3, <2>5, <2>6, ProfileStep DEF ShowsRecharges
<1>2. CASE CloseProfile
  <2>1. /\ profile' = ClosedProfile /\ UNCHANGED <<link, balance, spent, account, vehicle>>
        /\ profile.confirm = "closed"
    BY <1>2 DEF CloseProfile
  <2>2. WalletSteps({})
    BY <1>0, <2>1, WalletStays, MayShowStays
  <2>3. ~Recharging(calls)' /\ ~Recharging(answers)'
    BY <1>r, <2>1, <2>2 DEF RechargeConfirmed, WalletSteps
  <2>4. ProfileGood(profile') /\ ~profile'.open
    BY <2>1 DEF ClosedProfile, ProfileGood, ProfileWindow, WindowOK
  <2>5. QED
    BY <1>0, <2>1, <2>2, <2>3, <2>4, ProfileStep DEF ShowsRecharges
<1>3. CASE UpdateClicked
  <2> DEFINE r == "user.profile.update"
  <2>1. /\ Asked(r) /\ profile' = ProfileFailed(Begin(profile, r), RefusedRoute(r))
        /\ UNCHANGED <<balance, spent, account, vehicle>> /\ profile.confirm = "closed"
    BY <1>3 DEF UpdateClicked, Usable
  <2>2. /\ ProfileGood(profile') /\ profile'.open = profile.open
        /\ connected => /\ profile'.confirm = profile.confirm
                        /\ profile'.message = profile.message /\ profile'.shown = profile.shown
        /\ ~connected => profile'.message = "error"
    BY <1>0, <2>1, AccountNames, ProfileBegins
  <2>3. WalletSteps({r}) \/ WalletSteps({})
    BY <1>0, <2>1, AccountNames, WalletAsked, MayShowStays
  <2>4. ~Recharging(calls)' /\ ~Recharging(answers)'
    BY <1>r, <2>1, <2>3 DEF RechargeConfirmed, WalletSteps
  <2>5. ShowsRecharges(profile', calls', MayShow)
    <3>1. CASE connected
      BY <1>s, <2>2, <2>3, <3>1
    <3>2. CASE ~connected
      BY <2>2, <3>2 DEF ShowsRecharges
    <3>3. QED
      BY <3>1, <3>2
  <2>6. QED
    BY <1>0, <2>1, <2>2, <2>3, <2>4, <2>5, ProfileStep
<1>4. ASSUME NEW q \in {"recharge", "logout"}, QuestionAsked(q) PROVE ProfileInv'
  <2>1. /\ profile' = [profile EXCEPT !.confirm = "open", !.question = q]
        /\ UNCHANGED <<link, balance, spent, account, vehicle>>
        /\ profile.confirm = "closed" /\ profile.open
    BY <1>4 DEF QuestionAsked, Usable
  <2>2. WalletSteps({})
    BY <1>0, <2>1, WalletStays, MayShowStays
  <2>3. ~Recharging(calls)' /\ ~Recharging(answers)'
    BY <1>r, <2>1, <2>2 DEF RechargeConfirmed, WalletSteps
  <2>4. /\ ProfileGood(profile') /\ profile'.open = profile.open
        /\ profile'.shown = profile.shown /\ profile'.message = profile.message
    BY <1>0, <2>1 DEF ProfileGood, ProfileWindow, WindowOK
  <2>5. ShowsRecharges(profile', calls', MayShow)
    BY <1>s, <2>1, <2>2, <2>4
  <2>6. QED
    BY <1>0, <2>1, <2>2, <2>3, <2>4, <2>5, ProfileStep
<1>5. CASE QuestionAnswered
  <2> DEFINE r == Route(profile.question)
             p == [profile EXCEPT !.confirm = "pending"]
  <2>1. profile.confirm = "open" /\ profile.open /\ UNCHANGED <<balance, spent, account, vehicle>>
    BY <1>0, <1>5 DEF QuestionAnswered
  <2>2. ~Recharging(calls) /\ ~Recharging(answers)
    BY <1>r, <2>1 DEF RechargeConfirmed
  <2>3. CASE Asked(r) /\ profile' = ProfileFailed(Begin(p, r), RefusedRoute(r))
    <3>1. /\ p \in ProfileWindow /\ p.confirm = "pending" /\ p.open
          /\ p.question = profile.question /\ p.question # "none"
      BY <1>0, <2>1 DEF ProfileWindow
    <3>2. r \in AccountRoutes
      BY AccountNames DEF Route
    <3> HIDE DEF p, r
    <3>3. /\ ProfileGood(profile') /\ profile'.open
          /\ connected => profile'.pending = r /\ profile'.confirm = "pending"
          /\ ~connected => profile'.message = "error"
      BY <2>3, <3>1, <3>2, ProfileBegins
    <3>4. IF connected THEN WalletSteps({r}) ELSE WalletSteps({})
      BY <1>0, <2>1, <2>3, <3>2, WalletAsked, MayShowStays
    <3>5. CASE connected
      <4>1. Recharging(calls)' \/ Recharging(answers)' => RechargeConfirmed(profile')
        BY <2>2, <3>3, <3>4, <3>5 DEF WalletSteps, RechargeConfirmed
      <4>2. ShowsRecharges(profile', calls', MayShow)
        BY <3>3, <3>5 DEF ShowsRecharges
      <4>3. QED
        BY <1>0, <2>1, <3>3, <3>4, <3>5, <4>1, <4>2, ProfileStep
    <3>6. CASE ~connected
      <4>1. ~Recharging(calls)' /\ ~Recharging(answers)'
        BY <2>2, <3>4, <3>6 DEF WalletSteps
      <4>2. ShowsRecharges(profile', calls', MayShow)
        BY <3>3, <3>6 DEF ShowsRecharges
      <4>3. QED
        BY <1>0, <2>1, <3>3, <3>4, <3>6, <4>1, <4>2, ProfileStep
    <3>7. QED
      BY <3>5, <3>6
  <2>4. CASE profile' = [profile EXCEPT !.confirm = "closed"] /\ UNCHANGED link
    <3>1. WalletSteps({})
      BY <1>0, <2>1, <2>4, WalletStays, MayShowStays
    <3>2. ~Recharging(calls)' /\ ~Recharging(answers)'
      BY <2>2, <3>1 DEF WalletSteps
    <3>3. /\ ProfileGood(profile') /\ profile'.open = profile.open
          /\ profile'.shown = profile.shown /\ profile'.message = profile.message
      BY <1>0, <2>4 DEF ProfileGood, ProfileWindow, WindowOK
    <3>4. ShowsRecharges(profile', calls', MayShow)
      BY <1>s, <2>1, <3>1, <3>3
    <3>5. QED
      BY <1>0, <2>1, <3>1, <3>2, <3>3, <3>4, ProfileStep
  <2>5. QED
    BY <1>5, <2>3, <2>4 DEF QuestionAnswered
<1>6. CASE ProfileTimer
  <2>1. /\ profile' = ProfileFinished(profile, "error")
        /\ UNCHANGED <<link, balance, spent, account, vehicle>>
    BY <1>6 DEF ProfileTimer
  <2>2. WalletSteps({})
    BY <1>0, <2>1, WalletStays, MayShowStays
  <2>3. /\ ProfileGood(profile') /\ profile'.message = "error" /\ profile'.open = profile.open
        /\ profile'.confirm = profile.confirm /\ profile'.pending = "none"
    BY <1>0, <2>1 DEF ProfileGood, ProfileWindow, WindowOK, ProfileFinished, Finished
  <2>4. Recharging(calls)' \/ Recharging(answers)' => RechargeConfirmed(profile')
    BY <2>2, <2>3 DEF ProfileInv, WalletSteps, RechargeConfirmed
  <2>5. ShowsRecharges(profile', calls', MayShow)
    BY <2>3 DEF ShowsRecharges
  <2>6. QED
    BY <1>0, <2>1, <2>2, <2>3, <2>4, <2>5, ProfileStep
<1>7. CASE OpenVehicle \/ SaveVehicle \/ VehicleTimer \/ CloseVehicle
  <2>1. UNCHANGED <<balance, spent, account, profile>>
    BY <1>7 DEF OpenVehicle, SaveVehicle, VehicleTimer, CloseVehicle
  <2>2. /\ "user.vehicle.profile.get" \in AccountRoutes
        /\ "user.vehicle.profile.update" \in AccountRoutes
    BY AccountNames
  <2>3. \E R : WalletSteps(R) /\ "user.recharge" \notin R
    <3>1. \/ Asked("user.vehicle.profile.get") \/ Asked("user.vehicle.profile.update")
          \/ UNCHANGED link
      BY <1>7 DEF OpenVehicle, SaveVehicle, VehicleTimer, CloseVehicle
    <3>2. \/ WalletSteps({}) \/ WalletSteps({"user.vehicle.profile.get"})
          \/ WalletSteps({"user.vehicle.profile.update"})
      BY <1>0, <2>1, <2>2, <3>1, WalletAsked, WalletStays, MayShowStays
    <3>3. QED
      BY <3>2
  <2>4. VehicleGood(vehicle')
    <3>1. [ClosedVehicle EXCEPT !.open = TRUE] \in VehicleWindow
      BY DEF ClosedVehicle, VehicleWindow
    <3>2. QED
      BY <1>0, <1>7, <2>2, <3>1, VehicleMoves
         DEF OpenVehicle, SaveVehicle, VehicleTimer, CloseVehicle
  <2>5. PICK R : WalletSteps(R) /\ "user.recharge" \notin R
    BY <2>3
  <2>6. Recharging(calls)' \/ Recharging(answers)' => RechargeConfirmed(profile')
    BY <2>1, <2>5 DEF ProfileInv, WalletSteps
  <2>7. ShowsRecharges(profile', calls', MayShow)
    BY <1>s, <2>1, <2>5
  <2>8. QED
    BY <1>0, <2>1, <2>4, <2>5, <2>6, <2>7, ProfileStep
<1>8. QED
  BY <1>1, <1>2, <1>3, <1>4, <1>5, <1>6, <1>7

(* The next answer.                                                        *)
LEMMA ProfileReceives == ASSUME ProfileInv, ReceiveProfile PROVE ProfileInv'
<1> DEFINE a == Head(answers)
<1>0. /\ WalletLinkInv /\ ProfileGood(profile) /\ VehicleGood(vehicle)
      /\ account \in [open : BOOLEAN, balance : Nat]
      /\ profile \in ProfileWindow /\ vehicle \in VehicleWindow
      /\ UNCHANGED <<balance, spent>> /\ MayShow' = MayShow
  BY MayShowStays DEF ProfileInv, ProfileGood, VehicleGood, ReceiveProfile
<1>a. ASSUME Arrives
      PROVE  /\ WalletSteps({}) /\ a \in Answer(Nat)
             /\ a.live /\ a.route = "user.recharge" =>
                  ~(Recharging(calls)' \/ Recharging(answers)')
             /\ a.live /\ a.ok /\ a.route \notin VehicleRoutes
                  /\ (a.route = "user.recharge" \/ ~(Recharging(calls) \/ Recharging(answers)))
                => a.value \in MayShow /\ NoRecharge(calls)
  BY <1>0, <1>a, WalletArrives
<1>1. CASE ~a.live
  <2>1. Arrives /\ UNCHANGED <<account, profile, vehicle>>
    BY <1>1 DEF ReceiveProfile
  <2>2. /\ Recharging(calls)' \/ Recharging(answers)' => RechargeConfirmed(profile')
        /\ ShowsRecharges(profile', calls', MayShow)
    BY <1>a, <2>1 DEF ProfileInv, WalletSteps, ShowsRecharges
  <2>3. QED
    BY <1>0, <1>a, <2>1, <2>2, ProfileStep
<1>2. CASE a.live /\ a.ok /\ a.route = "user.logout"
  <2>1. /\ ArrivesAndEndsAll /\ profile' = ClosedProfile /\ vehicle' = ClosedVehicle
        /\ account' = [account EXCEPT !.open = FALSE]
    BY <1>2 DEF ReceiveProfile, LoggedOut
  <2>2. WalletSteps({}) /\ ~Recharging(calls)' /\ ~Recharging(answers)'
    BY <1>0, <2>1, WalletLosesAll, MayShowStays
  <2>3. ProfileGood(profile') /\ ~profile'.open
    BY <2>1 DEF ClosedProfile, ProfileGood, ProfileWindow, WindowOK
  <2>4. VehicleGood(vehicle')
    BY <2>1 DEF ClosedVehicle, VehicleGood, VehicleWindow, WindowOK
  <2>5. account' \in [open : BOOLEAN, balance : Nat]
    BY <1>0, <2>1
  <2>6. QED
    BY <1>0, <2>2, <2>3, <2>4, <2>5, ProfileStep DEF ShowsRecharges
<1>3. CASE a.live /\ a.ok /\ a.route # "user.logout"
  <2>1. AnnounceProfile(a)
    BY <1>3 DEF ReceiveProfile
  <2>2. Arrives
    BY <2>1 DEF AnnounceProfile
  <2>3. a.value \in Nat
    BY <1>a, <2>2 DEF Answer
  <2>4. account' \in [open : BOOLEAN, balance : Nat]
    BY <1>0, <2>1, <2>3 DEF AnnounceProfile
  <2>5. VehicleGood(vehicle')
    <3>1. VehicleGood(Finished(vehicle))
      BY <1>0, AccountNames, VehicleMoves
    <3>2. QED
      BY <1>0, <2>1, <3>1 DEF AnnounceProfile
  <2>6. CASE ~profile.open \/ a.route \in VehicleRoutes
    <3>1. profile' = profile
      BY <2>1, <2>6 DEF AnnounceProfile, VehicleRoutes
    <3>2. /\ Recharging(calls)' \/ Recharging(answers)' => RechargeConfirmed(profile')
          /\ ShowsRecharges(profile', calls', MayShow)
      BY <1>a, <2>2, <3>1 DEF ProfileInv, WalletSteps, ShowsRecharges
    <3>3. QED
      BY <1>0, <1>a, <2>2, <2>4, <2>5, <3>1, <3>2, ProfileStep
  <2>7. CASE profile.open /\ a.route = "user.recharge"
    <3>1. profile' = RechargeShown(profile, a.value) /\ a.route \notin VehicleRoutes
      BY <2>1, <2>7 DEF AnnounceProfile, VehicleRoutes
    <3>2. ProfileGood(profile') /\ profile'.shown = a.value
      BY <1>0, <2>3, <3>1
         DEF RechargeShown, ProfileFinished, Finished, ProfileGood, ProfileWindow, WindowOK
    <3>3. a.value \in MayShow /\ NoRecharge(calls) /\ ~(Recharging(calls)' \/ Recharging(answers)')
      BY <1>3, <1>a, <2>2, <2>7, <3>1
    <3>4. NoRecharge(calls')
      BY <1>a, <2>2, <3>3 DEF WalletSteps
    <3>5. QED
      BY <1>0, <1>a, <2>2, <2>4, <2>5, <3>2, <3>3, <3>4, ProfileStep DEF ShowsRecharges
  <2>8. CASE profile.open /\ a.route # "user.recharge" /\ a.route \notin VehicleRoutes
    <3>1. profile' = ProfileShown(profile, a.value)
      BY <2>1, <2>8 DEF AnnounceProfile
    <3>2. /\ ProfileGood(profile') /\ profile'.shown = a.value
          /\ profile'.open = profile.open /\ profile'.confirm = profile.confirm
          /\ profile'.pending = "none"
      BY <1>0, <2>3, <3>1
         DEF ProfileShown, ProfileFinished, Finished, ProfileGood, ProfileWindow, WindowOK
    <3>3. Recharging(calls)' \/ Recharging(answers)' => RechargeConfirmed(profile')
      BY <1>a, <2>2, <3>2 DEF ProfileInv, WalletSteps, RechargeConfirmed
    <3>4. ASSUME profile'.confirm # "pending" PROVE a.value \in MayShow /\ NoRecharge(calls')
      <4>1. ~(Recharging(calls) \/ Recharging(answers))
        BY <3>2, <3>4 DEF ProfileInv, RechargeConfirmed
      <4>2. QED
        BY <1>3, <1>a, <2>2, <2>8, <4>1 DEF WalletSteps
    <3>5. ShowsRecharges(profile', calls', MayShow)
      BY <3>2, <3>4 DEF ShowsRecharges
    <3>6. QED
      BY <1>0, <1>a, <2>2, <2>4, <2>5, <3>2, <3>3, <3>5, ProfileStep
  <2>9. QED
    BY <2>6, <2>7, <2>8
<1>4. CASE a.live /\ ~a.ok
  <2>1. /\ Arrives /\ profile' = ProfileFailed(profile, {a.route})
        /\ vehicle' = VehicleFailed(vehicle, {a.route}) /\ account' = account
    BY <1>4 DEF ReceiveProfile
  <2>2. /\ ProfileGood(profile') /\ (profile' = profile \/ profile'.message = "error")
        /\ profile.pending # a.route \/ profile.pending = "none" => profile' = profile
    BY <1>0, <2>1, ProfileFails
  <2>3. VehicleGood(vehicle')
    BY <1>0, <2>1, AccountNames, VehicleMoves DEF VehicleGood
  <2>4. Recharging(calls)' \/ Recharging(answers)' => RechargeConfirmed(profile')
    BY <1>4, <1>a, <2>1, <2>2 DEF ProfileInv, WalletSteps, RechargeConfirmed
  <2>5. ShowsRecharges(profile', calls', MayShow)
    BY <1>a, <2>1, <2>2 DEF ProfileInv, WalletSteps, ShowsRecharges
  <2>6. QED
    BY <1>0, <1>a, <2>1, <2>2, <2>3, <2>4, <2>5, ProfileStep
<1>5. QED
  BY <1>1, <1>2, <1>3, <1>4

(* Requests that are given up, the oldest first, and a connection that     *)
(* breaks.                                                                 *)
LEMMA ProfileLoses ==
  ASSUME ProfileInv,
         \/ \E r \in AccountRoutes : ExpireProfile(r)
         \/ connected /\ \E n \in 0..Len(calls) : DisconnectProfile(n)
  PROVE  ProfileInv'
<1>0. /\ WalletLinkInv /\ ProfileGood(profile) /\ VehicleGood(vehicle)
      /\ account \in [open : BOOLEAN, balance : Nat]
  BY DEF ProfileInv
<1>1. ASSUME NEW r \in AccountRoutes, ExpireProfile(r) PROVE ProfileInv'
  <2>1. /\ GivesUp(r) /\ IsOldest(r) /\ UNCHANGED <<balance, spent, account>>
        /\ profile' = ProfileFailed(profile, {r}) /\ vehicle' = VehicleFailed(vehicle, {r})
    BY <1>1 DEF ExpireProfile
  <2>2. /\ WalletSteps({})
        /\ r = "user.recharge" => ~(Recharging(calls)' \/ Recharging(answers)')
    BY <1>0, <2>1, WalletGivesUp, MayShowStays
  <2>3. /\ ProfileGood(profile') /\ (profile' = profile \/ profile'.message = "error")
        /\ profile.pending # r \/ profile.pending = "none" => profile' = profile
    BY <1>0, <2>1, ProfileFails
  <2>4. VehicleGood(vehicle')
    BY <1>0, <2>1, VehicleMoves DEF VehicleGood
  <2>5. Recharging(calls)' \/ Recharging(answers)' => RechargeConfirmed(profile')
    BY <2>2, <2>3 DEF ProfileInv, WalletSteps, RechargeConfirmed
  <2>6. ShowsRecharges(profile', calls', MayShow)
    BY <2>2, <2>3 DEF ProfileInv, WalletSteps, ShowsRecharges
  <2>7. QED
    BY <1>0, <2>1, <2>2, <2>3, <2>4, <2>5, <2>6, ProfileStep
<1>2. ASSUME NEW n \in 0..Len(calls), DisconnectProfile(n) PROVE ProfileInv'
  <2>1. /\ Breaks(n) /\ UNCHANGED <<balance, spent, account>>
        /\ profile' = ProfileFailed(profile, AccountRoutes)
        /\ vehicle' = VehicleFailed(vehicle, AccountRoutes)
    BY <1>2 DEF DisconnectProfile
  <2>2. WalletSteps({}) /\ ~Recharging(calls)' /\ ~Recharging(answers)'
    BY <1>0, <2>1, WalletLosesAll, MayShowStays
  <2>3. ProfileGood(profile') /\ (profile' = profile \/ profile'.message = "error")
    BY <1>0, <2>1, ProfileFails
  <2>4. VehicleGood(vehicle')
    BY <1>0, <2>1, AccountNames, VehicleMoves DEF VehicleGood
  <2>5. ShowsRecharges(profile', calls', MayShow)
    BY <2>2, <2>3 DEF ProfileInv, WalletSteps, ShowsRecharges
  <2>6. QED
    BY <1>0, <2>1, <2>2, <2>3, <2>4, <2>5, ProfileStep
<1>3. QED
  BY <1>1, <1>2

(* Every step of these windows keeps their invariant.                      *)
LEMMA ProfileStays == ProfileInv /\ NextProfile => ProfileInv'
BY ProfileServed, ProfileMoves, ProfileReceives, ProfileLoses DEF NextProfile
-----------------------------------------------------------------------------
(* The reminders and the window of the preference.                         *)

ReminderArgs == {0} \cup BOOLEAN
ReminderValues == BOOLEAN \cup SUBSET Stations

\* a change carries what the user wants; a check is answered by stations
ReminderCall ==
  {m \in Call(ReminderArgs) : /\ m.route \in ReminderRoutes
                              /\ m.route = "preference.update" => m.arg \in BOOLEAN}
ReminderAnswer ==
  {m \in Answer(ReminderValues) :
     m.value \in IF m.route = "reminder.check" THEN SUBSET Stations ELSE BOOLEAN}

ReminderState ==
  [enabled : BOOLEAN, timer : BOOLEAN, pending : BOOLEAN,
   active : SUBSET Stations, cooling : SUBSET Stations, banner : BOOLEAN]
PreferenceWindow == [open : BOOLEAN, saving : BOOLEAN, lost : BOOLEAN]

\* the answers that say what the user wants, and those that have news
Changed(m) == m.live /\ m.ok /\ m.route = "preference.update"
Fetched(m) == m.live /\ m.ok /\ m.route = "preference.get"
Found(m) == m.live /\ m.route = "reminder.check" /\ m.value # {}

\* The answers q bring a program in which reminders are on, or not, to what
\* the user wants.  knows: reminders are on, or a check is under way.  Only a
\* change makes a difference to a program that knows; and what a check has
\* found arrives when the program holds that reminders are wanted.
Agrees(q, on, knows, want) ==
  /\ \A u \in DOMAIN q : Changed(q[u]) => q[u].value = want
  /\ \A g \in DOMAIN q : Fetched(q[g]) =>
       q[g].value = want \/ \E u \in DOMAIN q : u > g /\ Changed(q[u])
  /\ knows => \A g \in DOMAIN q : Fetched(q[g]) =>
       q[g].value = on \/ \E u \in DOMAIN q : u < g /\ Changed(q[u])
  /\ knows /\ (\A u \in DOMAIN q : ~Changed(q[u])) => on = want
  /\ \A c \in DOMAIN q : Found(q[c]) =>
       /\ on = TRUE \/ \E u \in DOMAIN q : u < c /\ Changed(q[u])
       /\ \A u \in DOMAIN q : u < c /\ Changed(q[u]) => q[u].value = TRUE

Checking == "reminder.check" \in LiveRoutes(calls) \cup LiveRoutes(answers)

\* a change is under way only while the window waits for it
ChangesSaving(c, a, saving) ==
  /\ \A i \in DOMAIN c : c[i].route = "preference.update" => c[i].live /\ saving
  /\ \A i \in DOMAIN a : a[i].route = "preference.update" /\ a[i].live => saving

RemindersLinkOK ==
  /\ LinkTypeOK(ReminderArgs, ReminderValues) /\ LinkInv
  /\ calls \in Seq(ReminderCall) /\ answers \in Seq(ReminderAnswer)

Informed ==
  connected /\ ~preference.lost =>
    /\ Agrees(answers, reminders.enabled, reminders.enabled \/ Checking, wanted)
    /\ ChangesSaving(calls, answers, preference.saving)

ReminderInv ==
  /\ wanted \in BOOLEAN /\ idle \in SUBSET Stations
  /\ reminders \in ReminderState /\ preference \in PreferenceWindow
  /\ RemindersLinkOK
  /\ RemindersWatched
  /\ preference.saving => preference.open
  /\ ~connected => Live(calls) = {} /\ Live(answers) = {}
  /\ Informed

(* Requests and answers of these windows are messages.                     *)
LEMMA RemindersAreMessages == Messages(ReminderCall) /\ Messages(ReminderAnswer)
<1>1. Messages(ReminderCall)
  BY DEF Messages, ReminderCall, Call
<1>2. Messages(ReminderAnswer)
  BY DEF Messages, ReminderAnswer, Answer
<1>3. QED
  BY <1>1, <1>2

(* An answer that the window does not wait for any more, or a check that   *)
(* has ended, takes nothing from what the program is told, as long as no   *)
(* change is lost.                                                         *)
LEMMA AgreesStill ==
  ASSUME NEW p, NEW q, NEW on, NEW want, NEW k \in BOOLEAN, NEW l \in BOOLEAN, l => k,
         DOMAIN p = DOMAIN q,
         \A i \in DOMAIN q : /\ p[i].live => p[i] = q[i]
                             /\ Changed(q[i]) => p[i].live,
         Agrees(q, on, k, want)
  PROVE  Agrees(p, on, l, want)
<1>1. \A i \in DOMAIN q : /\ Changed(p[i]) <=> Changed(q[i])
                          /\ Changed(q[i]) => p[i] = q[i]
                          /\ Fetched(p[i]) => Fetched(q[i]) /\ p[i] = q[i]
                          /\ Found(p[i]) => Found(q[i]) /\ p[i] = q[i]
  BY DEF Changed, Fetched, Found
<1>2. QED
  BY <1>1 DEF Agrees

(* An answer that tells nothing arrives.                                   *)
LEMMA AgreesPast ==
  ASSUME NEW M, NEW q \in Seq(M), q # <<>>, NEW on, NEW want,
         NEW k \in BOOLEAN, NEW l \in BOOLEAN, l => k,
         ~Changed(q[1]), ~Fetched(q[1]), Agrees(q, on, k, want)
  PROVE  Agrees(Tail(q), on, l, want)
<1> DEFINE t == Tail(q)
           n == Len(q)
<1>1. /\ n \in Nat \ {0} /\ DOMAIN q = 1..n /\ DOMAIN t = 1..(n - 1)
      /\ \A i \in 1..(n - 1) : t[i] = q[i + 1]
  BY TailInPlace
<1>2. \A i \in DOMAIN t : i + 1 \in DOMAIN q /\ t[i] = q[i + 1]
  BY <1>1
<1>3. \A j \in DOMAIN q : Changed(q[j]) =>
        j - 1 \in DOMAIN t /\ Changed(t[j - 1]) /\ t[j - 1] = q[j]
  BY <1>1
<1> HIDE DEF t, n
<1>4. \A u \in DOMAIN t : Changed(t[u]) => t[u].value = want
  BY <1>2 DEF Agrees
<1>5. ASSUME NEW g \in DOMAIN t, Fetched(t[g])
      PROVE  t[g].value = want \/ \E u \in DOMAIN t : u > g /\ Changed(t[u])
  <2>1. g + 1 \in DOMAIN q /\ Fetched(q[g + 1]) /\ q[g + 1] = t[g]
    BY <1>2, <1>5
  <2>2. CASE \E u \in DOMAIN q : u > g + 1 /\ Changed(q[u])
    BY <1>1, <1>3, <2>2
  <2>3. QED
    BY <2>1, <2>2 DEF Agrees
<1>6. ASSUME l, NEW g \in DOMAIN t, Fetched(t[g])
      PROVE  t[g].value = on \/ \E u \in DOMAIN t : u < g /\ Changed(t[u])
  <2>1. g + 1 \in DOMAIN q /\ Fetched(q[g + 1]) /\ q[g + 1] = t[g]
    BY <1>2, <1>6
  <2>2. CASE \E u \in DOMAIN q : u < g + 1 /\ Changed(q[u])
    BY <1>1, <1>3, <2>2
  <2>3. QED
    BY <1>6, <2>1, <2>2 DEF Agrees
<1>7. l /\ (\A u \in DOMAIN t : ~Changed(t[u])) => on = want
  BY <1>3 DEF Agrees
<1>8. ASSUME NEW c \in DOMAIN t, Found(t[c])
      PROVE  /\ on = TRUE \/ \E u \in DOMAIN t : u < c /\ Changed(t[u])
             /\ \A u \in DOMAIN t : u < c /\ Changed(t[u]) => t[u].value = TRUE
  <2>1. c + 1 \in DOMAIN q /\ Found(q[c + 1]) /\ q[c + 1] = t[c]
    BY <1>2, <1>8
  <2>2. ASSUME NEW u \in DOMAIN q, u < c + 1, Changed(q[u])
        PROVE  \E v \in DOMAIN t : v < c /\ Changed(t[v])
    BY <1>1, <1>3, <2>2
  <2>3. on = TRUE \/ \E u \in DOMAIN t : u < c /\ Changed(t[u])
    BY <2>1, <2>2 DEF Agrees
  <2>4. ASSUME NEW u \in DOMAIN t, u < c, Changed(t[u]) PROVE t[u].value = TRUE
    <3>1. u + 1 \in DOMAIN q /\ u + 1 < c + 1 /\ q[u + 1] = t[u]
      BY <1>1, <1>2, <2>4
    <3>2. QED
      BY <2>1, <2>4, <3>1 DEF Agrees
  <2>5. QED
    BY <2>3, <2>4
<1>9. QED
  BY <1>4, <1>5, <1>6, <1>7, <1>8 DEF Agrees, t


(* The program is told what the user wants.  A program that knew nothing   *)
(* had no check under way.                                                 *)
LEMMA AgreesOnceTold ==
  ASSUME NEW M, NEW q \in Seq(M), q # <<>>, Distinct(q), NEW on, NEW want,
         NEW k \in BOOLEAN, NEW l \in BOOLEAN,
         Changed(q[1]) \/ Fetched(q[1]),
         ~k => \A c \in DOMAIN q : ~Found(q[c]),
         Agrees(q, on, k, want)
  PROVE  Agrees(Tail(q), q[1].value, l, want)
<1> DEFINE t == Tail(q)
           n == Len(q)
           v == q[1].value
<1>1. /\ n \in Nat \ {0} /\ DOMAIN q = 1..n /\ DOMAIN t = 1..(n - 1)
      /\ \A i \in 1..(n - 1) : t[i] = q[i + 1]
  BY TailInPlace
<1>2. /\ 1 \in DOMAIN q
      /\ \A i \in DOMAIN t : i + 1 \in DOMAIN q /\ i + 1 > 1 /\ t[i] = q[i + 1]
  BY <1>1
<1>3. \A j \in DOMAIN q : j # 1 =>
        j > 1 /\ j - 1 \in DOMAIN t /\ j = (j - 1) + 1 /\ t[j - 1] = q[j]
  BY <1>1
<1> HIDE DEF t, n
<1>4. \A u \in DOMAIN t : Changed(t[u]) => t[u].value = want
  BY <1>2 DEF Agrees
<1>5. CASE Changed(q[1])
  <2>1. v = want
    BY <1>2, <1>5 DEF Agrees
  <2>2. \A u \in DOMAIN q : u # 1 => ~Changed(q[u])
    BY <1>2, <1>5 DEF Distinct, Changed
  <2>3. \A u \in DOMAIN t : ~Changed(t[u])
    BY <1>1, <1>2, <2>2
  <2>4. ASSUME NEW g \in DOMAIN t, Fetched(t[g]) PROVE t[g].value = want
    <3>1. /\ g + 1 \in DOMAIN q /\ g + 1 > 1 /\ Fetched(q[g + 1]) /\ q[g + 1] = t[g]
          /\ 1 \in Int /\ g + 1 \in Int
      BY <1>1, <1>2, <2>4
    <3>2. ~\E u \in DOMAIN q : u > g + 1 /\ Changed(q[u])
      BY <1>1, <2>2, <3>1
    <3>3. QED
      BY <3>1, <3>2 DEF Agrees
  <2>5. ASSUME NEW c \in DOMAIN t, Found(t[c]) PROVE v = TRUE
    <3>1. c + 1 \in DOMAIN q /\ c + 1 > 1 /\ Found(q[c + 1])
      BY <1>1, <1>2, <2>5
    <3>2. QED
      BY <1>2, <1>5, <3>1 DEF Agrees
  <2>6. QED
    BY <2>1, <2>3, <2>4, <2>5 DEF Agrees, t
<1>6. CASE ~Changed(q[1]) /\ Fetched(q[1])
  <2>1. \A g \in DOMAIN t : ~Fetched(t[g])
    <3>1. ASSUME NEW g \in DOMAIN t, Fetched(t[g]) PROVE FALSE
      <4>1. g + 1 \in DOMAIN q /\ Fetched(q[g + 1]) /\ g + 1 # 1
        BY <1>1, <1>2, <3>1
      <4>2. QED
        BY <1>2, <1>6, <4>1 DEF Distinct, Fetched
    <3>2. QED
      BY <3>1
  <2>2. k => v = on
    <3>1. ~\E u \in DOMAIN q : u < 1 /\ Changed(q[u])
      BY <1>1
    <3>2. QED
      BY <1>2, <1>6, <3>1 DEF Agrees
  <2>3. ASSUME \A u \in DOMAIN t : ~Changed(t[u]) PROVE v = want
    <3>1. \A u \in DOMAIN q : ~Changed(q[u])
      BY <1>3, <1>6, <2>3
    <3>2. QED
      BY <1>2, <1>6, <3>1 DEF Agrees
  <2>4. ASSUME NEW c \in DOMAIN t, Found(t[c])
        PROVE  /\ v = TRUE \/ \E u \in DOMAIN t : u < c /\ Changed(t[u])
               /\ \A u \in DOMAIN t : u < c /\ Changed(t[u]) => t[u].value = TRUE
    <3>1. c + 1 \in DOMAIN q /\ Found(q[c + 1]) /\ q[c + 1] = t[c]
      BY <1>2, <2>4
    <3>2. v = on
      BY <2>2, <3>1
    <3>3. ASSUME NEW u \in DOMAIN q, u < c + 1, Changed(q[u])
          PROVE  \E w \in DOMAIN t : w < c /\ Changed(t[w])
      <4>1. u - 1 \in DOMAIN t /\ Changed(t[u - 1]) /\ u - 1 < c
        BY <1>1, <1>3, <1>6, <3>3
      <4>2. QED
        BY <4>1
    <3>4. v = TRUE \/ \E u \in DOMAIN t : u < c /\ Changed(t[u])
      BY <3>1, <3>2, <3>3 DEF Agrees
    <3>5. ASSUME NEW u \in DOMAIN t, u < c, Changed(t[u]) PROVE t[u].value = TRUE
      <4>1. u + 1 \in DOMAIN q /\ u + 1 < c + 1 /\ q[u + 1] = t[u]
        BY <1>1, <1>2, <3>5
      <4>2. QED
        BY <3>1, <3>5, <4>1 DEF Agrees
    <3>6. QED
      BY <3>4, <3>5
  <2>5. QED
    BY <1>4, <2>1, <2>3, <2>4 DEF Agrees, t
<1>7. QED
  BY <1>5, <1>6 DEF t, v

(* The server answers: it tells what the user wants, or it has looked for  *)
(* stations because the user wants it; or it takes a change.               *)
LEMMA AgreesAfterAnswer ==
  ASSUME NEW M, NEW q \in Seq(M), NEW m \in M, NEW on, NEW want, NEW wish, NEW k \in BOOLEAN,
         Agrees(q, on, k, want),
         wish = want \/ (Changed(m) /\ \A u \in DOMAIN q : ~Changed(q[u])),
         Changed(m) \/ Fetched(m) => m.value = wish,
         Found(m) => k /\ want = TRUE
  PROVE  Agrees(Append(q, m), on, k, wish)
<1> DEFINE a == Append(q, m)
           n == Len(q)
<1>1. /\ n \in Nat /\ DOMAIN q = 1..n /\ DOMAIN a = 1..(n + 1) /\ n + 1 \in DOMAIN a
      /\ \A i \in 1..n : a[i] = q[i]
      /\ a[n + 1] = m
  OBVIOUS
<1> HIDE DEF a, n
<1>2. \A u \in DOMAIN a : Changed(a[u]) => a[u].value = wish
  BY <1>1 DEF Agrees
<1>3. ASSUME NEW g \in DOMAIN a, Fetched(a[g])
      PROVE  a[g].value = wish \/ \E u \in DOMAIN a : u > g /\ Changed(a[u])
  <2>1. CASE g = n + 1
    BY <1>1, <1>3, <2>1
  <2>2. CASE g \in 1..n /\ wish = want
    BY <1>1, <1>3, <2>2 DEF Agrees
  <2>3. CASE g \in 1..n /\ Changed(m)
    BY <1>1, <2>3
  <2>4. QED
    BY <1>1, <2>1, <2>2, <2>3
<1>4. ASSUME k, NEW g \in DOMAIN a, Fetched(a[g])
      PROVE  a[g].value = on \/ \E u \in DOMAIN a : u < g /\ Changed(a[u])
  <2>1. CASE g = n + 1 /\ \E u \in DOMAIN q : Changed(q[u])
    BY <1>1, <2>1
  <2>2. CASE g = n + 1 /\ (\A u \in DOMAIN q : ~Changed(q[u])) /\ wish = want
    BY <1>1, <1>4, <2>2 DEF Agrees
  <2>3. CASE g \in 1..n
    BY <1>1, <1>4, <2>3 DEF Agrees
  <2>4. Fetched(m) => ~Changed(m)
    BY DEF Fetched, Changed
  <2>5. QED
    BY <1>1, <1>4, <2>1, <2>2, <2>3, <2>4
<1>5. k /\ (\A u \in DOMAIN a : ~Changed(a[u])) => on = wish
  BY <1>1 DEF Agrees
<1>6. ASSUME NEW c \in DOMAIN a, Found(a[c])
      PROVE  /\ on = TRUE \/ \E u \in DOMAIN a : u < c /\ Changed(a[u])
             /\ \A u \in DOMAIN a : u < c /\ Changed(a[u]) => a[u].value = TRUE
  <2>1. CASE c = n + 1
    <3>1. k /\ want = TRUE
      BY <1>1, <1>6, <2>1
    <3>2. \A u \in DOMAIN a : u < c => u \in DOMAIN q /\ a[u] = q[u]
      BY <1>1, <2>1
    <3>3. \A u \in DOMAIN q : u \in DOMAIN a /\ u < c /\ a[u] = q[u]
      BY <1>1, <2>1
    <3>4. QED
      BY <3>1, <3>2, <3>3 DEF Agrees
  <2>2. CASE c \in 1..n
    <3>1. \A u \in DOMAIN a : u < c => u \in DOMAIN q /\ a[u] = q[u]
      BY <1>1, <2>2
    <3>2. \A u \in DOMAIN q : u \in DOMAIN a /\ a[u] = q[u]
      BY <1>1
    <3>3. c \in DOMAIN q /\ Found(q[c])
      BY <1>1, <1>6, <2>2
    <3>4. on = TRUE \/ \E u \in DOMAIN q : u < c /\ Changed(q[u])
      BY <3>3 DEF Agrees
    <3>5. \A u \in DOMAIN q : u < c /\ Changed(q[u]) => q[u].value = TRUE
      BY <3>3 DEF Agrees
    <3>6. on = TRUE \/ \E u \in DOMAIN a : u < c /\ Changed(a[u])
      BY <3>2, <3>4
    <3>7. \A u \in DOMAIN a : u < c /\ Changed(a[u]) => a[u].value = TRUE
      BY <3>1, <3>5
    <3>8. QED
      BY <3>6, <3>7
  <2>3. c = n + 1 \/ c \in 1..n
    BY <1>1
  <2>4. QED
    BY <2>1, <2>2, <2>3
<1>7. QED
  BY <1>2, <1>3, <1>4, <1>5, <1>6 DEF Agrees, a

(* What is under way of a change stays so.                                 *)
LEMMA ChangesStillSaving ==
  ASSUME NEW c, NEW a, NEW d, NEW b, NEW s \in BOOLEAN, NEW t \in BOOLEAN, s => t,
         ChangesSaving(c, a, s),
         \A i \in DOMAIN d : d[i].route = "preference.update" =>
           \E j \in DOMAIN c : c[j].route = "preference.update" /\ (c[j].live => d[i].live),
         \A i \in DOMAIN b : b[i].live => \E j \in DOMAIN a : a[j] = b[i]
  PROVE  ChangesSaving(d, b, t)
BY DEF ChangesSaving

(* With the answer to a change nothing of it is under way any more.        *)
LEMMA ChangeEnds ==
  ASSUME NEW M, NEW c, NEW a \in Seq(M), a # <<>>, Distinct(a),
         LiveRoutes(c) \cap LiveRoutes(a) = {},
         a[1].live, a[1].route = "preference.update",
         NEW s, NEW t, ChangesSaving(c, a, s)
  PROVE  ChangesSaving(c, Tail(a), t)
<1>1. /\ Len(a) \in Nat \ {0} /\ DOMAIN a = 1..Len(a) /\ DOMAIN Tail(a) = 1..(Len(a) - 1)
      /\ \A i \in 1..(Len(a) - 1) : Tail(a)[i] = a[i + 1]
  BY TailInPlace
<1>2. 1 \in DOMAIN a /\ \A i \in DOMAIN Tail(a) : i + 1 \in DOMAIN a /\ i + 1 # 1
  BY <1>1
<1>3. \A i \in DOMAIN Tail(a) : ~(Tail(a)[i].live /\ Tail(a)[i].route = "preference.update")
  BY <1>1, <1>2 DEF Distinct
<1>4. "preference.update" \notin LiveRoutes(c)
  BY <1>2 DEF LiveRoutes, Live
<1>5. \A i \in DOMAIN c : c[i].route # "preference.update"
  BY <1>4 DEF ChangesSaving, LiveRoutes, Live
<1>6. QED
  BY <1>3, <1>5 DEF ChangesSaving

(* The next answer arrives; the others move up.                            *)
LEMMA ChangesMoveUp ==
  ASSUME NEW M, NEW c, NEW a \in Seq(M), a # <<>>, NEW s, ChangesSaving(c, a, s)
  PROVE  ChangesSaving(c, Tail(a), s)
<1>1. /\ Len(a) \in Nat \ {0} /\ DOMAIN a = 1..Len(a) /\ DOMAIN Tail(a) = 1..(Len(a) - 1)
      /\ \A i \in 1..(Len(a) - 1) : Tail(a)[i] = a[i + 1]
  BY TailInPlace
<1>2. \A i \in DOMAIN Tail(a) : i + 1 \in DOMAIN a /\ Tail(a)[i] = a[i + 1]
  BY <1>1
<1>3. QED
  BY <1>2 DEF ChangesSaving

(* The invariant has these parts.                                          *)
LEMMA RemindersStep ==
  ASSUME wanted' \in BOOLEAN, idle' \in SUBSET Stations,
         reminders' \in ReminderState, preference' \in PreferenceWindow, RemindersLinkOK',
         reminders'.pending => "reminder.check" \in waiting',
         preference'.saving => "preference.update" \in waiting' /\ preference'.open,
         ~connected' => Live(calls)' = {} /\ Live(answers)' = {},
         Informed'
  PROVE  ReminderInv'
BY DEF ReminderInv, RemindersWatched

(* What the windows do by themselves, without the link, keeps the          *)
(* invariant, unless they forget a change that is being saved.             *)
LEMMA RemindersQuietly ==
  ASSUME ReminderInv, UNCHANGED link, wanted' = wanted, idle' \in SUBSET Stations,
         reminders' \in ReminderState, preference' \in PreferenceWindow,
         reminders'.enabled = reminders.enabled, reminders'.pending => reminders.pending,
         preference'.saving => preference.saving /\ preference'.open,
         preference'.lost \/ (/\ preference'.saving = preference.saving
                              /\ preference'.lost = preference.lost)
  PROVE  ReminderInv'
<1>1. UNCHANGED <<waiting, connected, calls, answers>>
  BY DEF link
<1>2. RemindersLinkOK'
  <2>1. LinkTypeOK(ReminderArgs, ReminderValues)' /\ LinkInv'
    BY LinkStays DEF ReminderInv, RemindersLinkOK
  <2>2. QED
    BY <1>1, <2>1 DEF ReminderInv, RemindersLinkOK
<1>3. Live(calls)' = Live(calls) /\ Live(answers)' = Live(answers) /\ Checking' = Checking
  BY <1>1 DEF Live, Checking, LiveRoutes
<1>4. Informed'
  BY <1>1, <1>3 DEF ReminderInv, Informed
<1>5. QED
  BY <1>1, <1>2, <1>3, <1>4, RemindersStep DEF ReminderInv, RemindersWatched


(* A request is sent: a check while reminders are on, a change while none  *)
(* is being saved.                                                         *)
LEMMA RemindersSend ==
  ASSUME ReminderInv, NEW r \in ReminderRoutes, NEW a \in ReminderArgs, Send(r, a),
         r = "preference.update" => a \in BOOLEAN /\ ~preference.saving,
         r = "reminder.check" => reminders.enabled,
         wanted' = wanted, idle' = idle,
         reminders' \in ReminderState, preference' \in PreferenceWindow,
         reminders'.enabled = reminders.enabled,
         reminders'.pending => reminders.pending \/ r = "reminder.check",
         preference'.lost = preference.lost, preference'.saving => preference'.open,
         preference'.saving <=> preference.saving \/ r = "preference.update"
  PROVE  ReminderInv'
<1> DEFINE m == [route |-> r, live |-> TRUE, arg |-> a]
           o == Orphaned(calls, r)
           k == reminders.enabled \/ Checking
           l == reminders.enabled \/ Checking'
<1>1. /\ LinkTypeOK(ReminderArgs, ReminderValues)' /\ LinkInv'
      /\ connected /\ connected' = connected /\ waiting' = waiting \cup {r}
      /\ \/ UNCHANGED <<calls, answers>>
         \/ /\ Live(calls)' = LiveBut(calls, r) \cup {m}
            /\ Live(answers)' = LiveBut(answers, r)
  BY SendKeeps, WindowsAssumption DEF ReminderInv, RemindersLinkOK
<1>2. l => k
  BY <1>1 DEF Checking, LiveRoutes, LiveBut, Live
<1>3. k \in BOOLEAN /\ l \in BOOLEAN /\ reminders.enabled \in BOOLEAN
  BY DEF ReminderInv, ReminderState, Checking
<1>4. CASE Suppressed(r)
  <2>1. UNCHANGED <<calls, answers>>
    BY <1>4 DEF Send
  <2>2. RemindersLinkOK'
    BY <1>1, <2>1 DEF ReminderInv, RemindersLinkOK
  <2>3. Informed'
    <3>1. Checking' = Checking
      BY <2>1 DEF Checking, LiveRoutes, Live
    <3>2. QED
      BY <1>1, <2>1, <3>1 DEF ReminderInv, Informed, ChangesSaving
  <2>4. QED
    BY <1>1, <2>2, <2>3, RemindersStep DEF ReminderInv, RemindersWatched
<1>5. CASE ~Suppressed(r)
  <2>1. calls' = Append(o, m) /\ answers' = Orphaned(answers, r)
    BY <1>5 DEF Send, Asks
  <2>2. calls \in Seq(ReminderCall) /\ answers \in Seq(ReminderAnswer) /\ m \in ReminderCall
    BY WindowsAssumption DEF ReminderInv, RemindersLinkOK, ReminderCall, Call
  <2>3. /\ DOMAIN o = DOMAIN calls /\ DOMAIN calls = 1..Len(calls) /\ Len(calls) \in Nat
        /\ \A i \in DOMAIN calls :
             /\ o[i].route = calls[i].route
             /\ o[i].live <=> calls[i].live /\ calls[i].route # r
        /\ o \in Seq(ReminderCall)
    BY <2>2, OrphanedInPlace, OrphanedLeaves, RemindersAreMessages
  <2>4. /\ DOMAIN answers' = DOMAIN answers
        /\ \A i \in DOMAIN answers :
             /\ answers'[i].live <=> answers[i].live /\ answers[i].route # r
             /\ answers'[i].live => answers'[i] = answers[i]
        /\ answers' \in Seq(ReminderAnswer)
    BY <2>1, <2>2, OrphanedInPlace, OrphanedLeaves, RemindersAreMessages
  <2>5. /\ calls' \in Seq(ReminderCall)
        /\ DOMAIN calls' = 1..(Len(calls) + 1)
        /\ \A i \in 1..Len(calls) : calls'[i] = o[i]
        /\ calls'[Len(calls) + 1] = m
    <3>1. Len(o) = Len(calls)
      BY <2>3
    <3> HIDE DEF o, m
    <3>2. QED
      BY <2>1, <2>2, <2>3, <3>1
  <2>6. m.live /\ m.route = r
    OBVIOUS
  <2> HIDE DEF m, o
  <2>7. RemindersLinkOK'
    BY <1>1, <2>4, <2>5 DEF RemindersLinkOK
  <2>8. ASSUME ~preference.lost
        PROVE  /\ Agrees(answers', reminders.enabled, l, wanted)
               /\ ChangesSaving(calls', answers', preference'.saving)
    <3>1. /\ Agrees(answers, reminders.enabled, k, wanted)
          /\ ChangesSaving(calls, answers, preference.saving)
      BY <1>1, <2>8 DEF ReminderInv, Informed
    <3>2. \A i \in DOMAIN answers : Changed(answers[i]) => answers'[i].live
      BY <2>4, <3>1 DEF Changed, ChangesSaving
    <3>3. Agrees(answers', reminders.enabled, l, wanted)
      <4> HIDE DEF k, l
      <4>1. QED
        BY <1>2, <1>3, <2>4, <3>1, <3>2, AgreesStill
    <3>4. ASSUME NEW i \in DOMAIN calls', calls'[i].route = "preference.update"
          PROVE  calls'[i].live /\ preference'.saving
      <4>1. CASE i = Len(calls) + 1
        BY <2>5, <2>6, <3>4, <4>1
      <4>2. CASE i \in 1..Len(calls)
        BY <2>3, <2>5, <3>1, <3>4, <4>2 DEF ChangesSaving
      <4>3. i = Len(calls) + 1 \/ i \in 1..Len(calls)
        BY <2>3, <2>5
      <4>4. QED
        BY <4>1, <4>2, <4>3
    <3>5. QED
      BY <2>4, <3>1, <3>3, <3>4 DEF ChangesSaving
  <2>9. Informed'
    BY <1>1, <2>8 DEF Informed
  <2>10. QED
    BY <1>1, <2>7, <2>9, RemindersStep DEF ReminderInv, RemindersWatched
<1>6. QED
  BY <1>4, <1>5

(* The server executes the next request: it takes a change, says what the  *)
(* user wants, or looks for stations if the user wants that.               *)
LEMMA RemindersExecute ==
  ASSUME ReminderInv, NEW ok \in BOOLEAN, NEW v, Executes(ok, v),
         wanted' = IF ok /\ Head(calls).route = "preference.update" THEN Head(calls).arg
                   ELSE wanted,
         IF Head(calls).route = "reminder.check"
           THEN v \in SUBSET Stations /\ (v # {} => wanted = TRUE)
           ELSE v = wanted',
         UNCHANGED <<idle, reminders, preference>>
  PROVE  ReminderInv'
<1> DEFINE c == Head(calls)
           m == [route |-> c.route, live |-> TRUE, ok |-> ok, value |-> v]
           k == reminders.enabled \/ Checking
<1>1. calls # <<>> /\ calls' = Tail(calls) /\ UNCHANGED <<waiting, connected>>
  BY DEF Executes
<1>2. calls \in Seq(ReminderCall) /\ answers \in Seq(ReminderAnswer) /\ wanted \in BOOLEAN
  BY DEF ReminderInv, RemindersLinkOK
<1>3. /\ c = calls[1] /\ 1 \in DOMAIN calls /\ c \in ReminderCall
      /\ calls' \in Seq(ReminderCall)
  BY <1>1, <1>2, TailInPlace, HeadTailProperties
<1>4. wanted' \in BOOLEAN
  BY <1>2, <1>3 DEF ReminderCall
<1>5. v \in ReminderValues
  BY <1>4 DEF ReminderValues
<1>6. /\ LinkTypeOK(ReminderArgs, ReminderValues)' /\ LinkInv'
      /\ c.live => /\ c \in Live(calls)
                   /\ Live(calls)' = LiveBut(calls, c.route)
                   /\ Live(answers)' = Live(answers) \cup {m}
      /\ ~c.live => Live(calls)' = Live(calls) /\ answers' = answers
  BY <1>5, ExecutesKeeps DEF ReminderInv, RemindersLinkOK
<1>7. m \in ReminderAnswer /\ m.live /\ m.route = c.route /\ m.ok = ok /\ m.value = v
  BY <1>3, <1>4, <1>5 DEF ReminderAnswer, ReminderCall, Answer, Call
<1>8. answers' = IF c.live THEN Append(answers, m) ELSE answers
  BY DEF Executes
<1> HIDE DEF m
<1>9. RemindersLinkOK'
  BY <1>2, <1>3, <1>6, <1>7, <1>8 DEF RemindersLinkOK
<1>10. ~connected' => Live(calls)' = {} /\ Live(answers)' = {}
  <2>1. ASSUME ~connected PROVE Live(calls)' = {} /\ Live(answers)' = {}
    <3>1. Live(calls) = {} /\ Live(answers) = {}
      BY <2>1 DEF ReminderInv
    <3>2. ~c.live
      BY <1>6, <3>1
    <3>3. QED
      BY <1>6, <3>1, <3>2 DEF Live
  <2>2. QED
    BY <1>1, <2>1
<1>11. Checking' = Checking
  <2>1. CASE c.live
    <3>1. c.route \in LiveRoutes(calls) /\ LiveRoutes(calls') = LiveRoutes(calls) \ {c.route}
      BY <1>6, <2>1 DEF LiveRoutes, LiveBut
    <3>2. LiveRoutes(answers') = LiveRoutes(answers) \cup {c.route}
      BY <1>6, <1>7, <2>1 DEF LiveRoutes
    <3>3. QED
      BY <3>1, <3>2 DEF Checking
  <2>2. CASE ~c.live
    BY <1>6, <2>2 DEF Checking, LiveRoutes
  <2>3. QED
    BY <2>1, <2>2
<1>12. ASSUME connected, ~preference.lost
       PROVE  /\ Agrees(answers', reminders.enabled, k, wanted')
              /\ ChangesSaving(calls', answers', preference.saving)
  <2>1. /\ Agrees(answers, reminders.enabled, k, wanted)
        /\ ChangesSaving(calls, answers, preference.saving)
    BY <1>12 DEF ReminderInv, Informed
  <2>2. ChangesSaving(calls', answers, preference.saving)
    <3>1. /\ DOMAIN calls = 1..Len(calls) /\ DOMAIN calls' = 1..(Len(calls) - 1)
          /\ Len(calls) \in Nat \ {0}
          /\ \A i \in 1..(Len(calls) - 1) : calls'[i] = calls[i + 1]
      BY <1>1, <1>2, TailInPlace
    <3>2. \A i \in DOMAIN calls' : i + 1 \in DOMAIN calls /\ calls'[i] = calls[i + 1]
      BY <3>1
    <3>3. QED
      BY <2>1, <3>2 DEF ChangesSaving
  <2>3. CASE c.live
    <3>1. c.route = "preference.update" => \A u \in DOMAIN answers : ~Changed(answers[u])
      <4>1. c.route \in LiveRoutes(calls)
        BY <1>6, <2>3 DEF LiveRoutes
      <4>2. c.route \notin LiveRoutes(answers)
        BY <4>1 DEF ReminderInv, RemindersLinkOK, LinkInv
      <4>3. QED
        BY <4>2 DEF LiveRoutes, Live, Changed
    <3>2. \/ wanted' = wanted
          \/ Changed(m) /\ \A u \in DOMAIN answers : ~Changed(answers[u])
      BY <1>7, <3>1 DEF Changed
    <3>3. Changed(m) \/ Fetched(m) => m.value = wanted'
      BY <1>7 DEF Changed, Fetched
    <3>4. Found(m) => k /\ wanted = TRUE
      BY <1>6, <1>7, <2>3 DEF Found, Checking, LiveRoutes
    <3>5. Agrees(answers', reminders.enabled, k, wanted')
      <4>1. k \in BOOLEAN
        BY DEF ReminderInv, ReminderState, Checking
      <4> HIDE DEF k, c
      <4>2. QED
        BY <1>2, <1>7, <1>8, <2>1, <2>3, <3>2, <3>3, <3>4, <4>1, AgreesAfterAnswer, ZenonT(40)
    <3>6. ChangesSaving(calls', answers', preference.saving)
      <4>1. c.route = "preference.update" => preference.saving
        BY <1>3, <2>1 DEF ChangesSaving
      <4>2. /\ DOMAIN answers = 1..Len(answers) /\ Len(answers) \in Nat
            /\ DOMAIN answers' = 1..(Len(answers) + 1)
            /\ \A i \in 1..Len(answers) : answers'[i] = answers[i]
            /\ answers'[Len(answers) + 1] = m
        BY <1>2, <1>8, <2>3
      <4>3. \A i \in DOMAIN answers' : i \in DOMAIN answers \/ answers'[i].route = c.route
        BY <1>7, <4>2
      <4>4. QED
        BY <2>2, <4>1, <4>2, <4>3 DEF ChangesSaving
    <3>7. QED
      BY <3>5, <3>6
  <2>4. CASE ~c.live
    <3>1. c.route # "preference.update"
      BY <1>3, <2>1, <2>4 DEF ChangesSaving
    <3>2. QED
      BY <1>6, <2>1, <2>2, <2>4, <3>1
  <2>5. QED
    BY <2>3, <2>4
<1>13. Informed'
  BY <1>1, <1>11, <1>12 DEF Informed
<1>14. QED
  BY <1>1, <1>4, <1>9, <1>10, <1>13, RemindersStep DEF ReminderInv, RemindersWatched


(* Every request is executed as it should be.                              *)
LEMMA RemindersServed ==
  ASSUME ReminderInv, NEW ok \in BOOLEAN, calls # <<>>, ServeReminders(ok)
  PROVE  ReminderInv'
<1> DEFINE c == Head(calls)
<1>0. UNCHANGED <<idle, reminders, preference>>
  BY DEF ServeReminders
<1>1. CASE c.route = "reminder.check"
  <2>1. ServeCheck(ok)
    BY <1>1 DEF ServeReminders
  <2>2. PICK v \in IF ok THEN Matches ELSE {{}} : Executes(ok, v)
    BY <2>1 DEF ServeCheck
  <2>3. v \in SUBSET Stations /\ (v # {} => wanted = TRUE)
    BY <2>2 DEF Matches, ReminderInv
  <2>4. wanted' = wanted
    BY <2>1 DEF ServeCheck
  <2>5. QED
    BY <1>0, <1>1, <2>2, <2>3, <2>4, RemindersExecute
<1>2. CASE c.route # "reminder.check"
  <2>1. /\ wanted' = IF ok /\ c.route = "preference.update" THEN c.arg ELSE wanted
        /\ Executes(ok, wanted')
    BY <1>2 DEF ServeReminders
  <2>2. \E v : v = wanted' /\ Executes(ok, v)
    BY <2>1
  <2>3. PICK v : v = wanted' /\ Executes(ok, v)
    BY <2>2
  <2>4. QED
    BY <1>0, <1>2, <2>1, <2>3, RemindersExecute
<1>3. QED
  BY <1>1, <1>2

(* The controller and the window of the preference by themselves.          *)
LEMMA RemindersMove ==
  ASSUME ReminderInv,
         \/ \E s \in SUBSET Stations : IdleChanges(s)
         \/ FiveSecondsPass \/ Check \/ BannerHides
         \/ \E s \in Stations : Cooled(s)
         \/ OpenPreference \/ \E on \in BOOLEAN : Save(on)
         \/ ClosePreference
  PROVE  ReminderInv'
<1>1. CASE \E s \in SUBSET Stations : IdleChanges(s)
  BY <1>1, RemindersQuietly DEF IdleChanges, ReminderInv
<1>2. CASE FiveSecondsPass
  BY <1>2, RemindersQuietly DEF FiveSecondsPass, ReminderInv
<1>3. CASE BannerHides
  BY <1>3, RemindersQuietly DEF BannerHides, ReminderInv, ReminderState
<1>4. CASE \E s \in Stations : Cooled(s)
  BY <1>4, RemindersQuietly DEF Cooled, ReminderInv, ReminderState
<1>5. CASE ClosePreference
  BY <1>5, RemindersQuietly DEF ClosePreference, ReminderInv, PreferenceWindow
<1>6. CASE Check
  <2>1. CASE connected
    <3>1. /\ Send("reminder.check", 0) /\ reminders' = [reminders EXCEPT !.pending = TRUE]
          /\ reminders.enabled /\ UNCHANGED <<wanted, idle, preference>>
      BY <1>6, <2>1 DEF Check
    <3>2. reminders' \in ReminderState /\ reminders'.enabled = reminders.enabled
      BY <3>1 DEF ReminderInv, ReminderState
    <3>3. QED
      BY <3>1, <3>2, RemindersSend DEF ReminderInv, ReminderRoutes, ReminderArgs
  <2>2. CASE ~connected
    BY <1>6, <2>2, RemindersQuietly DEF Check, ReminderInv
  <2>3. QED
    BY <2>1, <2>2
<1>7. CASE OpenPreference
  <2>1. /\ preference' = [preference EXCEPT !.open = TRUE]
        /\ UNCHANGED <<wanted, idle, reminders>>
    BY <1>7 DEF OpenPreference
  <2>2. /\ preference' \in PreferenceWindow /\ preference'.open
        /\ preference'.saving = preference.saving /\ preference'.lost = preference.lost
    BY <2>1 DEF ReminderInv, PreferenceWindow
  <2>3. CASE connected
    <3>1. Send("preference.get", 0)
      BY <1>7, <2>3 DEF OpenPreference
    <3>2. QED
      BY <2>1, <2>2, <3>1, RemindersSend DEF ReminderInv, ReminderRoutes, ReminderArgs
  <2>4. CASE ~connected
    <3>1. UNCHANGED link
      BY <1>7, <2>4 DEF OpenPreference
    <3>2. QED
      BY <2>1, <2>2, <3>1, RemindersQuietly DEF ReminderInv
  <2>5. QED
    BY <2>3, <2>4
<1>8. ASSUME NEW on \in BOOLEAN, Save(on) PROVE ReminderInv'
  <2>1. CASE connected
    <3>1. /\ Send("preference.update", on)
          /\ preference' = [preference EXCEPT !.saving = TRUE]
          /\ preference.open /\ ~preference.saving /\ UNCHANGED <<wanted, idle, reminders>>
      BY <1>8, <2>1 DEF Save
    <3>2. /\ preference' \in PreferenceWindow /\ preference'.open /\ preference'.saving
          /\ preference'.lost = preference.lost
      BY <3>1 DEF ReminderInv, PreferenceWindow
    <3>3. QED
      BY <3>1, <3>2, RemindersSend DEF ReminderInv, ReminderRoutes, ReminderArgs
  <2>2. CASE ~connected
    BY <1>8, <2>2, RemindersQuietly DEF Save, ReminderInv
  <2>3. QED
    BY <2>1, <2>2
<1>9. QED
  BY <1>1, <1>2, <1>3, <1>4, <1>5, <1>6, <1>7, <1>8

\* what an answer that arrives does to the link
ReminderHeard ==
  /\ RemindersLinkOK' /\ connected' = connected /\ calls' = calls
  /\ answers' = Tail(answers)
  /\ Live(answers)' \subseteq Live(answers)
  /\ waiting' = IF answers[1].live THEN waiting \ {answers[1].route} ELSE waiting

(* An answer arrives.                                                      *)
LEMMA RemindersHear == ASSUME RemindersLinkOK, Arrives PROVE ReminderHeard
<1>1. answers # <<>> /\ answers' = Tail(answers)
  BY DEF Arrives
<1>2. Head(answers) = answers[1] /\ answers' \in Seq(ReminderAnswer)
  BY <1>1, TailInPlace, HeadTailProperties DEF RemindersLinkOK
<1>3. /\ LinkTypeOK(ReminderArgs, ReminderValues)' /\ LinkInv'
      /\ UNCHANGED <<connected, calls>>
      /\ answers[1].live => /\ Live(answers)' = LiveBut(answers, answers[1].route)
                            /\ waiting' = waiting \ {answers[1].route}
      /\ ~answers[1].live => Live(answers)' = Live(answers) /\ waiting' = waiting
  BY <1>2, ArrivesKeeps DEF RemindersLinkOK
<1>4. QED
  BY <1>1, <1>2, <1>3 DEF ReminderHeard, RemindersLinkOK, LiveBut

(* An answer arrives that tells nothing: a check, a failure, or one that   *)
(* nobody waits for.                                                       *)
LEMMA RemindersLearnNothing ==
  ASSUME ReminderInv, ReminderHeard, answers # <<>>, UNCHANGED <<wanted, idle>>,
         reminders' \in ReminderState, preference' \in PreferenceWindow,
         reminders'.enabled = reminders.enabled,
         reminders'.pending =>
           reminders.pending /\ ~(answers[1].live /\ answers[1].route = "reminder.check"),
         preference'.lost = preference.lost, preference'.open = preference.open,
         IF answers[1].live /\ answers[1].route = "preference.update"
           THEN ~preference'.saving ELSE preference'.saving = preference.saving,
         connected /\ ~preference.lost => ~Changed(answers[1]) /\ ~Fetched(answers[1])
  PROVE  ReminderInv'
<1> DEFINE k == reminders.enabled \/ Checking
           l == reminders.enabled \/ Checking'
<1>1. /\ connected' = connected /\ calls' = calls /\ answers' = Tail(answers)
      /\ Live(calls)' = Live(calls) /\ Live(answers)' \subseteq Live(answers)
      /\ RemindersLinkOK'
  BY DEF ReminderHeard
<1>2. /\ k \in BOOLEAN /\ l \in BOOLEAN /\ (l => k)
      /\ answers \in Seq(ReminderAnswer) /\ reminders.enabled \in BOOLEAN
  BY <1>1 DEF ReminderInv, ReminderState, RemindersLinkOK, Checking, LiveRoutes
<1>3. ASSUME connected, ~preference.lost
      PROVE  /\ Agrees(answers', reminders.enabled, l, wanted)
             /\ ChangesSaving(calls, answers', preference'.saving)
  <2>1. /\ Agrees(answers, reminders.enabled, k, wanted)
        /\ ChangesSaving(calls, answers, preference.saving)
    BY <1>3 DEF ReminderInv, Informed
  <2>2. Agrees(Tail(answers), reminders.enabled, l, wanted)
    <3> HIDE DEF k, l
    <3>1. QED
      BY <1>2, <1>3, <2>1, AgreesPast
  <2>3. CASE answers[1].live /\ answers[1].route = "preference.update"
    <3>1. Distinct(answers) /\ LiveRoutes(calls) \cap LiveRoutes(answers) = {}
      BY DEF ReminderInv, RemindersLinkOK, LinkInv
    <3>2. ChangesSaving(calls, Tail(answers), preference'.saving)
      BY <1>2, <2>1, <2>3, <3>1, ChangeEnds
    <3>3. QED
      BY <1>1, <2>2, <3>2
  <2>4. CASE ~(answers[1].live /\ answers[1].route = "preference.update")
    <3>1. ChangesSaving(calls, Tail(answers), preference.saving)
      BY <1>2, <2>1, ChangesMoveUp
    <3>2. preference'.saving = preference.saving
      BY <2>4
    <3>3. QED
      BY <1>1, <2>2, <3>1, <3>2
  <2>5. QED
    BY <2>3, <2>4
<1>4. Informed'
  BY <1>1, <1>3 DEF Informed
<1>5. /\ reminders'.pending => "reminder.check" \in waiting'
      /\ preference'.saving => "preference.update" \in waiting' /\ preference'.open
  BY DEF ReminderInv, RemindersWatched, ReminderHeard
<1>6. ~connected' => Live(calls)' = {} /\ Live(answers)' = {}
  BY <1>1 DEF ReminderInv
<1>7. wanted' \in BOOLEAN /\ idle' \in SUBSET Stations
  BY DEF ReminderInv
<1>8. QED
  BY <1>1, <1>4, <1>5, <1>6, <1>7, RemindersStep


(* The program is told what the user wants, and asks for stations at once  *)
(* if reminders were off and are wanted.                                   *)
LEMMA RemindersAreTold ==
  ASSUME ReminderInv, answers # <<>>, Changed(answers[1]) \/ Fetched(answers[1]),
         Told(answers[1].value), UNCHANGED <<wanted, idle>>,
         preference' \in PreferenceWindow,
         preference'.lost = preference.lost, preference'.open = preference.open,
         IF answers[1].route = "preference.update"
           THEN ~preference'.saving ELSE preference'.saving = preference.saving
  PROVE  ReminderInv'
<1> DEFINE a == answers[1]
           k == reminders.enabled \/ Checking
           l == reminders'.enabled \/ Checking'
           t == Tail(answers)
           o == Orphaned(calls, "reminder.check")
           m == [route |-> "reminder.check", live |-> TRUE, arg |-> 0]
<1>1. /\ calls \in Seq(ReminderCall) /\ answers \in Seq(ReminderAnswer)
      /\ Distinct(answers) /\ LiveRoutes(calls) \cap LiveRoutes(answers) = {}
      /\ k \in BOOLEAN /\ reminders \in ReminderState
  BY DEF ReminderInv, RemindersLinkOK, LinkInv, ReminderState, Checking
<1>2. /\ 1 \in DOMAIN answers /\ Head(answers) = a /\ a \in ReminderAnswer
      /\ t \in Seq(ReminderAnswer)
  BY <1>1, TailInPlace, HeadTailProperties
<1>3. a.live /\ a.ok /\ a.route \in {"preference.update", "preference.get"} /\ a.value \in BOOLEAN
  BY <1>2 DEF Changed, Fetched, ReminderAnswer
<1>4. reminders' = Enabled(reminders, a.value)
  BY DEF Told
<1>5. reminders' \in ReminderState /\ reminders'.enabled = a.value
  BY <1>1, <1>3, <1>4 DEF Enabled, Stopped, ReminderState
<1>6. reminders'.pending => a.value /\ (reminders.pending \/ ~reminders.timer)
  BY <1>1, <1>3, <1>4 DEF Enabled, Stopped, ReminderState
<1>7. connected
  <2>1. a \in Live(answers)
    BY <1>2, <1>3 DEF Live
  <2>2. QED
    BY <2>1 DEF ReminderInv
<1>8. l \in BOOLEAN
  BY <1>5 DEF ReminderState, Checking
<1>9. ASSUME ~preference.lost
      PROVE  /\ Agrees(t, reminders'.enabled, l, wanted)
             /\ ChangesSaving(calls, t, preference'.saving)
  <2>1. /\ Agrees(answers, reminders.enabled, k, wanted)
        /\ ChangesSaving(calls, answers, preference.saving)
    BY <1>7, <1>9 DEF ReminderInv, Informed
  <2>2. ~k => \A c \in DOMAIN answers : ~Found(answers[c])
    BY DEF Found, Checking, LiveRoutes, Live
  <2>3. Agrees(t, a.value, l, wanted)
    <3> HIDE DEF k, l
    <3>1. QED
      BY <1>1, <1>8, <2>1, <2>2, AgreesOnceTold
  <2>4. ChangesSaving(calls, t, preference'.saving)
    <3>1. CASE a.route = "preference.update"
      BY <1>1, <1>3, <2>1, <3>1, ChangeEnds
    <3>2. CASE a.route # "preference.update"
      BY <1>1, <2>1, <3>2, ChangesMoveUp
    <3>3. QED
      BY <3>1, <3>2
  <2>5. QED
    BY <1>5, <2>3, <2>4
<1>10. wanted' = wanted /\ wanted' \in BOOLEAN /\ idle' \in SUBSET Stations
  BY DEF ReminderInv
<1>11. ASSUME Arrives, reminders'.pending => "reminder.check" \in waiting'
       PROVE  ReminderInv'
  <2>1. ReminderHeard
    BY <1>11, RemindersHear DEF ReminderInv
  <2>2. Informed'
    BY <1>9, <1>10, <2>1 DEF ReminderHeard, Informed
  <2>3. preference'.saving => "preference.update" \in waiting' /\ preference'.open
    BY <1>3, <2>1 DEF ReminderInv, RemindersWatched, ReminderHeard
  <2>4. QED
    BY <1>5, <1>7, <1>10, <1>11, <2>1, <2>2, <2>3, RemindersStep DEF ReminderHeard
<1>12. CASE ~AsksNow(reminders, a.value)
  <2>1. Arrives
    BY <1>12 DEF Told
  <2>2. reminders'.pending => "reminder.check" \in waiting'
    <3>1. waiting' = waiting \ {a.route}
      BY <1>2, <1>3, <2>1 DEF Arrives, Ends
    <3>2. reminders'.pending => reminders.pending
      BY <1>6, <1>12 DEF AsksNow
    <3>3. QED
      BY <1>3, <3>1, <3>2 DEF ReminderInv, RemindersWatched
  <2>3. QED
    BY <1>11, <2>1, <2>2
<1>13. CASE AsksNow(reminders, a.value)
  <2>1. ArrivesThenSends("reminder.check", 0)
    BY <1>13 DEF Told
  <2>2. /\ LinkTypeOK(ReminderArgs, ReminderValues)' /\ LinkInv'
        /\ connected' = connected
        /\ waiting' = (waiting \ {a.route}) \cup {"reminder.check"}
    <3>1. "reminder.check" \in Routes /\ 0 \in ReminderArgs
      BY WindowsAssumption DEF ReminderRoutes, ReminderArgs
    <3>2. LinkTypeOK(ReminderArgs, ReminderValues) /\ LinkInv
      BY DEF ReminderInv, RemindersLinkOK
    <3>3. QED
      BY <1>2, <2>1, <3>1, <3>2, ArrivesThenSendsKeeps
  <2>3. CASE "reminder.check" \in Transactional \cap (waiting \ {a.route})
    <3>1. Arrives
      BY <1>2, <2>1, <2>3 DEF ArrivesThenSends
    <3>2. QED
      BY <1>11, <2>2, <3>1
  <2>4. CASE ~("reminder.check" \in Transactional \cap (waiting \ {a.route}))
    <3>1. calls' = Append(o, m) /\ answers' = Orphaned(t, "reminder.check")
      BY <1>2, <2>1, <2>4 DEF ArrivesThenSends
    <3>2. /\ DOMAIN o = DOMAIN calls /\ DOMAIN calls = 1..Len(calls) /\ Len(calls) \in Nat
          /\ \A i \in DOMAIN calls :
               /\ o[i].route = calls[i].route
               /\ o[i].live <=> calls[i].live /\ calls[i].route # "reminder.check"
          /\ o \in Seq(ReminderCall)
      BY <1>1, OrphanedInPlace, OrphanedLeaves, RemindersAreMessages
    <3>3. /\ DOMAIN answers' = DOMAIN t
          /\ \A i \in DOMAIN t :
               /\ answers'[i].live <=> t[i].live /\ t[i].route # "reminder.check"
               /\ answers'[i].live => answers'[i] = t[i]
          /\ answers' \in Seq(ReminderAnswer)
      <4> HIDE DEF t
      <4>1. QED
        BY <1>2, <3>1, OrphanedInPlace, OrphanedLeaves, RemindersAreMessages
    <3>4. m \in ReminderCall /\ m.live /\ m.route = "reminder.check"
      BY WindowsAssumption DEF ReminderCall, Call, ReminderRoutes, ReminderArgs
    <3>5. /\ calls' \in Seq(ReminderCall)
          /\ DOMAIN calls' = 1..(Len(calls) + 1)
          /\ \A i \in 1..Len(calls) : calls'[i] = o[i]
          /\ calls'[Len(calls) + 1] = m
      <4>1. Len(o) = Len(calls)
        BY <3>2
      <4> HIDE DEF o, m
      <4>2. QED
        BY <3>1, <3>2, <3>4, <4>1
    <3> HIDE DEF m, o, t
    <3>6. RemindersLinkOK'
      BY <2>2, <3>3, <3>5 DEF RemindersLinkOK
    <3>7. ASSUME ~preference.lost
          PROVE  /\ Agrees(answers', reminders'.enabled, l, wanted)
                 /\ ChangesSaving(calls', answers', preference'.saving)
      <4>1. /\ Agrees(t, reminders'.enabled, l, wanted)
            /\ ChangesSaving(calls, t, preference'.saving)
        BY <1>9, <3>7
      <4>2. \A i \in DOMAIN t : Changed(t[i]) => answers'[i].live
        BY <3>3 DEF Changed
      <4>3. Agrees(answers', reminders'.enabled, l, wanted)
        <5> HIDE DEF l
        <5>1. QED
          BY <1>8, <3>3, <4>1, <4>2, AgreesStill
      <4>4. ASSUME NEW i \in DOMAIN calls', calls'[i].route = "preference.update"
            PROVE  calls'[i].live /\ preference'.saving
        <5>1. i \in 1..Len(calls) \/ i = Len(calls) + 1
          BY <3>2, <3>5
        <5>2. i \in 1..Len(calls)
          BY <3>4, <3>5, <4>4, <5>1
        <5>3. QED
          BY <3>2, <3>5, <4>1, <4>4, <5>2 DEF ChangesSaving
      <4>5. QED
        BY <3>3, <4>1, <4>3, <4>4 DEF ChangesSaving
    <3>8. Informed'
      BY <1>10, <2>2, <3>7 DEF Informed
    <3>9. preference'.saving => "preference.update" \in waiting' /\ preference'.open
      BY <1>3, <2>2 DEF ReminderInv, RemindersWatched
    <3>10. QED
      BY <1>5, <1>7, <1>10, <2>2, <3>6, <3>8, <3>9, RemindersStep
  <2>5. QED
    BY <2>3, <2>4
<1>14. QED
  BY <1>12, <1>13

(* What the windows make of an answer.                                     *)
LEMMA RemindersReceive == ASSUME ReminderInv, ReceiveReminders PROVE ReminderInv'
<1> DEFINE a == answers[1]
<1>1. /\ answers # <<>> /\ answers \in Seq(ReminderAnswer) /\ UNCHANGED <<wanted, idle>>
      /\ reminders \in ReminderState /\ preference \in PreferenceWindow
  BY DEF ReceiveReminders, ReminderInv, RemindersLinkOK
<1>2. Head(answers) = a /\ a \in ReminderAnswer /\ 1 \in DOMAIN answers
  BY <1>1, TailInPlace
<1>3. CASE ~a.live
  <2>1. Arrives /\ UNCHANGED <<reminders, preference>>
    BY <1>2, <1>3 DEF ReceiveReminders
  <2>2. QED
    BY <1>1, <1>3, <2>1, RemindersHear, RemindersLearnNothing
       DEF ReminderInv, Changed, Fetched
<1>4. CASE a.live /\ ~a.ok
  <2>1. /\ Arrives
        /\ reminders' \in {ReminderFailed(reminders, {a.route}), Stopped(reminders)}
        /\ preference' = PreferenceFailed(preference, {a.route})
    BY <1>2, <1>4 DEF ReceiveReminders
  <2>2. /\ reminders' \in ReminderState /\ reminders'.enabled = reminders.enabled
        /\ reminders'.pending => reminders.pending /\ a.route # "reminder.check"
    BY <1>1, <2>1 DEF ReminderFailed, Stopped, ReminderState
  <2>3. /\ preference' \in PreferenceWindow
        /\ preference'.lost = preference.lost /\ preference'.open = preference.open
        /\ IF a.route = "preference.update"
           THEN ~preference'.saving ELSE preference'.saving = preference.saving
    BY <1>1, <2>1 DEF PreferenceFailed, PreferenceWindow
  <2>4. QED
    BY <1>1, <1>4, <2>1, <2>2, <2>3, RemindersHear, RemindersLearnNothing
       DEF ReminderInv, Changed, Fetched
<1>5. CASE a.live /\ a.ok
  <2>0. AnnounceReminders(a)
    BY <1>2, <1>5 DEF ReceiveReminders
  <2>1. CASE a.route = "reminder.check"
    <3>1. Arrives /\ reminders' = Updated(reminders, a.value) /\ preference' = preference
      BY <2>0, <2>1 DEF AnnounceReminders
    <3>2. a.value \in SUBSET Stations
      BY <1>2, <2>1 DEF ReminderAnswer
    <3>3. /\ reminders' \in ReminderState /\ reminders'.enabled = reminders.enabled
          /\ ~reminders'.pending
      BY <1>1, <3>1, <3>2 DEF Updated, New, ReminderState
    <3>4. QED
      BY <1>1, <2>1, <3>1, <3>3, RemindersHear, RemindersLearnNothing
         DEF ReminderInv, Changed, Fetched
  <2>2. CASE a.route = "preference.get"
    <3>1. Told(a.value) /\ preference' = preference
      BY <2>0, <2>2 DEF AnnounceReminders
    <3>2. QED
      BY <1>1, <1>5, <2>2, <3>1, RemindersAreTold DEF Fetched
  <2>3. CASE a.route = "preference.update" /\ preference.open
    <3>1. Told(a.value) /\ preference' = [preference EXCEPT !.saving = FALSE]
      BY <2>0, <2>3 DEF AnnounceReminders
    <3>2. /\ preference' \in PreferenceWindow /\ ~preference'.saving
          /\ preference'.lost = preference.lost /\ preference'.open = preference.open
      BY <1>1, <3>1 DEF PreferenceWindow
    <3>3. QED
      BY <1>1, <1>5, <2>3, <3>1, <3>2, RemindersAreTold DEF Changed
  <2>4. CASE /\ a.route # "reminder.check" /\ a.route # "preference.get"
             /\ ~(a.route = "preference.update" /\ preference.open)
    <3>1. Arrives /\ UNCHANGED <<reminders, preference>>
      BY <2>0, <2>4 DEF AnnounceReminders
    <3>2. a.route = "preference.update" => ~preference.saving
      BY <2>4 DEF ReminderInv
    <3>3. ~Fetched(a) /\ (connected /\ ~preference.lost => ~Changed(a))
      BY <1>2, <2>4, <3>2 DEF ReminderInv, Informed, ChangesSaving, Changed, Fetched
    <3>4. QED
      BY <1>1, <2>4, <3>1, <3>2, <3>3, RemindersHear, RemindersLearnNothing DEF ReminderInv
  <2>5. QED
    BY <2>1, <2>2, <2>3, <2>4
<1>6. QED
  BY <1>2, <1>3, <1>4, <1>5 DEF ReminderAnswer, Answer


(* Giving up, and a connection that breaks.                                *)
LEMMA RemindersLose ==
  ASSUME ReminderInv,
         \/ \E r \in ReminderRoutes : ExpireReminders(r)
         \/ connected /\ \E n \in 0..Len(calls) : DisconnectReminders(n)
  PROVE  ReminderInv'
<1>1. /\ calls \in Seq(ReminderCall) /\ answers \in Seq(ReminderAnswer)
      /\ reminders \in ReminderState /\ preference \in PreferenceWindow
  BY DEF ReminderInv, RemindersLinkOK
<1>2. ASSUME NEW r \in ReminderRoutes, ExpireReminders(r) PROVE ReminderInv'
  <2> DEFINE k == reminders.enabled \/ Checking
             l == reminders.enabled \/ Checking'
  <2>1. /\ GivesUp(r) /\ wanted' = wanted /\ idle' = idle
        /\ reminders' = ReminderFailed(reminders, {r})
        /\ preference' = [PreferenceFailed(preference, {r})
                            EXCEPT !.lost = @ \/ r = "preference.update"]
    BY <1>2 DEF ExpireReminders
  <2>2. /\ LinkTypeOK(ReminderArgs, ReminderValues)' /\ LinkInv'
        /\ waiting' = waiting \ {r} /\ connected' = connected
        /\ Live(calls)' = LiveBut(calls, r) /\ Live(answers)' = LiveBut(answers, r)
    BY <2>1, GivesUpKeeps DEF ReminderInv, RemindersLinkOK
  <2>3. calls' = Orphaned(calls, r) /\ answers' = Orphaned(answers, r)
    BY <2>1 DEF GivesUp
  <2>4. /\ DOMAIN calls' = DOMAIN calls /\ calls' \in Seq(ReminderCall)
        /\ \A i \in DOMAIN calls : /\ calls'[i].route = calls[i].route
                                   /\ calls'[i].live <=> calls[i].live /\ calls[i].route # r
    BY <1>1, <2>3, OrphanedInPlace, OrphanedLeaves, RemindersAreMessages
  <2>5. /\ DOMAIN answers' = DOMAIN answers /\ answers' \in Seq(ReminderAnswer)
        /\ \A i \in DOMAIN answers :
             /\ answers'[i].live <=> answers[i].live /\ answers[i].route # r
             /\ answers'[i].live => answers'[i] = answers[i]
    BY <1>1, <2>3, OrphanedInPlace, OrphanedLeaves, RemindersAreMessages
  <2>6. RemindersLinkOK'
    BY <2>2, <2>4, <2>5 DEF RemindersLinkOK
  <2>7. /\ reminders' \in ReminderState /\ reminders'.enabled = reminders.enabled
        /\ reminders'.pending => reminders.pending /\ r # "reminder.check"
    BY <1>1, <2>1 DEF ReminderFailed, ReminderState
  <2>8. /\ preference' \in PreferenceWindow /\ preference'.open = preference.open
        /\ preference'.saving => preference.saving /\ r # "preference.update"
        /\ r # "preference.update" => preference'.saving = preference.saving
        /\ preference'.lost = (preference.lost \/ r = "preference.update")
    BY <1>1, <2>1 DEF PreferenceFailed, PreferenceWindow
  <2>9. ASSUME connected, ~preference.lost, r # "preference.update"
        PROVE  /\ Agrees(answers', reminders.enabled, l, wanted)
               /\ ChangesSaving(calls', answers', preference.saving)
    <3>1. /\ Agrees(answers, reminders.enabled, k, wanted)
          /\ ChangesSaving(calls, answers, preference.saving)
      BY <2>9 DEF ReminderInv, Informed
    <3>2. k \in BOOLEAN /\ l \in BOOLEAN /\ (l => k)
      BY <1>1, <2>2 DEF ReminderState, Checking, LiveRoutes, LiveBut
    <3>3. \A i \in DOMAIN answers : Changed(answers[i]) => answers'[i].live
      BY <2>5, <2>9 DEF Changed
    <3>4. Agrees(answers', reminders.enabled, l, wanted)
      <4> HIDE DEF k, l
      <4>1. QED
        BY <2>5, <3>1, <3>2, <3>3, AgreesStill
    <3>5. ChangesSaving(calls', answers', preference.saving)
      BY <2>4, <2>5, <2>9, <3>1 DEF ChangesSaving
    <3>6. QED
      BY <3>4, <3>5
  <2>10. Informed'
    BY <2>1, <2>2, <2>7, <2>8, <2>9 DEF Informed
  <2>11. ~connected' => Live(calls)' = {} /\ Live(answers)' = {}
    BY <2>2 DEF ReminderInv, LiveBut
  <2>12. /\ reminders'.pending => "reminder.check" \in waiting'
         /\ preference'.saving => "preference.update" \in waiting' /\ preference'.open
    BY <2>2, <2>7, <2>8 DEF ReminderInv, RemindersWatched
  <2>13. wanted' \in BOOLEAN /\ idle' \in SUBSET Stations
    BY <2>1 DEF ReminderInv
  <2>14. QED
    BY <2>6, <2>7, <2>8, <2>10, <2>11, <2>12, <2>13, RemindersStep
<1>3. ASSUME connected, NEW n \in 0..Len(calls), DisconnectReminders(n) PROVE ReminderInv'
  <2>1. /\ Breaks(n) /\ wanted' = wanted /\ idle' = idle
        /\ reminders' = Stopped(reminders)
        /\ preference' = PreferenceFailed(preference, ReminderRoutes)
    BY <1>3 DEF DisconnectReminders
  <2>2. /\ LinkTypeOK(ReminderArgs, ReminderValues)' /\ LinkInv'
        /\ NothingWaits /\ connected' = FALSE
    BY <2>1, BreaksKeeps DEF ReminderInv, RemindersLinkOK
  <2>3. calls' = AllOrphaned(SubSeq(calls, 1, n)) /\ answers' = <<>>
    BY <2>1 DEF Breaks
  <2>4. SubSeq(calls, 1, n) \in Seq(ReminderCall)
    <3>1. n \in Int /\ \A i \in 1..n : calls[i] \in ReminderCall
      BY <1>1
    <3>2. QED
      BY <1>1, <3>1, SubSeqProperties
  <2>5. calls' \in Seq(ReminderCall) /\ answers' \in Seq(ReminderAnswer)
    <3>1. AllOrphaned(SubSeq(calls, 1, n)) \in Seq(ReminderCall)
      BY <2>4, AllOrphanedLeaves, RemindersAreMessages
    <3>2. QED
      BY <2>3, <3>1
  <2>6. RemindersLinkOK'
    BY <2>2, <2>5 DEF RemindersLinkOK
  <2>7. reminders' \in ReminderState /\ ~reminders'.pending
    BY <1>1, <2>1 DEF Stopped, ReminderState
  <2>8. preference' \in PreferenceWindow /\ ~preference'.saving
    BY <1>1, <2>1 DEF PreferenceFailed, PreferenceWindow, ReminderRoutes
  <2>9. wanted' \in BOOLEAN /\ idle' \in SUBSET Stations
    BY <2>1 DEF ReminderInv
  <2>10. QED
    BY <2>2, <2>6, <2>7, <2>8, <2>9, RemindersStep DEF Informed, NothingWaits
<1>4. QED
  BY <1>2, <1>3

(* At first nobody has asked for anything.                                 *)
LEMMA RemindersStart == Init /\ screen = "reminders" => ReminderInv
<1> SUFFICES ASSUME Init, screen = "reminders" PROVE ReminderInv
  OBVIOUS
<1>1. /\ connected = TRUE /\ answers = <<>> /\ calls = <<>> /\ waiting = {}
      /\ InitReminders
  BY DEF Init
<1>2. /\ LinkTypeOK(ReminderArgs, ReminderValues) /\ LinkInv
      /\ Live(calls) = {} /\ Live(answers) = {}
  BY <1>1, LinkInit
<1>3. RemindersLinkOK
  BY <1>1, <1>2 DEF RemindersLinkOK
<1>4. ~reminders.enabled /\ ~Checking
  BY <1>1, <1>2 DEF InitReminders, Checking, LiveRoutes
<1>5. Informed
  BY <1>1, <1>4 DEF Informed, Agrees, ChangesSaving
<1>6. QED
  BY <1>1, <1>3, <1>5
     DEF InitReminders, ReminderInv, ReminderState, PreferenceWindow, RemindersWatched

(* Every step of these windows keeps the invariant.                        *)
LEMMA RemindersStay == ReminderInv /\ NextReminders => ReminderInv'
BY RemindersServed, RemindersMove, RemindersReceive, RemindersLose DEF NextReminders

(* A banner appears only with the answer to a check that found something,  *)
(* and that arrives while reminders are on.                                *)
LEMMA BannersAreWanted ==
  ASSUME ReminderInv, NextReminders, ~reminders.banner, reminders'.banner
  PROVE  reminders.enabled \/ preference.lost
<1> DEFINE a == answers[1]
<1>1. reminders \in ReminderState /\ reminders' # reminders
  BY DEF ReminderInv
<1>2. ReceiveReminders /\ answers # <<>> /\ a.live /\ a.ok /\ AnnounceReminders(a)
  <2>1. /\ ~Stopped(reminders).banner
        /\ \A R : ~ReminderFailed(reminders, R).banner
        /\ \A on : ~Enabled(reminders, on).banner
    BY <1>1 DEF Stopped, ReminderFailed, Enabled, ReminderState
  <2>2. ReceiveReminders
    <3>1. ~\E ok \in BOOLEAN : ServeReminders(ok)
      BY <1>1 DEF ServeReminders
    <3>2. ~\E s \in SUBSET Stations : IdleChanges(s)
      BY <1>1 DEF IdleChanges
    <3>3. ~FiveSecondsPass /\ ~OpenPreference /\ ~ClosePreference
      BY <1>1 DEF FiveSecondsPass, OpenPreference, ClosePreference
    <3>4. ~\E on \in BOOLEAN : Save(on)
      BY <1>1 DEF Save
    <3>5. ~Check /\ ~BannerHides /\ ~\E s \in Stations : Cooled(s)
      BY <1>1 DEF Check, BannerHides, Cooled, ReminderState
    <3>6. ~\E r \in ReminderRoutes : ExpireReminders(r)
      BY <2>1 DEF ExpireReminders
    <3>7. ~\E n \in 0..Len(calls) : DisconnectReminders(n)
      BY <2>1 DEF DisconnectReminders
    <3>8. QED
      BY <3>1, <3>2, <3>3, <3>4, <3>5, <3>6, <3>7 DEF NextReminders
  <2>3. answers # <<>> /\ Head(answers) = a
    BY <2>2, TailInPlace DEF ReceiveReminders, ReminderInv, RemindersLinkOK
  <2>4. a.live
    BY <1>1, <2>2, <2>3 DEF ReceiveReminders
  <2>5. a.ok
    BY <2>1, <2>2, <2>3, <2>4 DEF ReceiveReminders
  <2>6. AnnounceReminders(a)
    BY <2>2, <2>3, <2>4, <2>5 DEF ReceiveReminders
  <2>7. QED
    BY <2>2, <2>3, <2>4, <2>5, <2>6
<1>3. a.route = "reminder.check" /\ reminders' = Updated(reminders, a.value)
  <2>1. \A on : ~Enabled(reminders, on).banner
    BY <1>1 DEF Stopped, Enabled, ReminderState
  <2>2. ~Told(a.value)
    BY <2>1 DEF Told
  <2>3. QED
    BY <1>1, <1>2, <2>2 DEF AnnounceReminders
<1>4. Found(a)
  BY <1>1, <1>2, <1>3 DEF Updated, New, Found, ReminderState
<1>5. 1 \in DOMAIN answers /\ DOMAIN answers \subseteq Nat \ {0}
  BY <1>2, TailInPlace DEF ReminderInv, RemindersLinkOK
<1>6. connected
  BY <1>2, <1>5 DEF ReminderInv, Live
<1>7. ASSUME ~preference.lost PROVE reminders.enabled
  <2>1. Agrees(answers, reminders.enabled, reminders.enabled \/ Checking, wanted)
    BY <1>6, <1>7 DEF ReminderInv, Informed
  <2>2. ~\E u \in DOMAIN answers : u < 1 /\ Changed(answers[u])
    BY <1>5
  <2>3. QED
    BY <1>4, <1>5, <2>1, <2>2 DEF Agrees
<1>8. QED
  BY <1>7


-----------------------------------------------------------------------------
(* The program: the window that is used, and the others as they were.      *)

WindowsInv ==
  /\ screen \in Screens
  /\ screen = "orders" => OrdersInv
  /\ IF screen = "station" THEN StationInv ELSE station = ClosedStation
  /\ IF screen = "profile" THEN ProfileInv ELSE profile = ClosedProfile
  /\ screen = "reminders" => ReminderInv

(* Every window begins well.                                               *)
LEMMA WindowsStart == Init => WindowsInv
BY OrdersStart, StationStarts, ProfileStarts, RemindersStart
   DEF Init, WindowsInv, InitStation, InitProfile

(* Nothing happens.                                                        *)
LEMMA WindowsStand == WindowsInv /\ UNCHANGED vars => WindowsInv'
<1> SUFFICES ASSUME WindowsInv, UNCHANGED vars PROVE WindowsInv'
  OBVIOUS
<1>1. /\ UNCHANGED link /\ screen' = screen
      /\ UNCHANGED <<reviewed, history, review>>
      /\ UNCHANGED <<order, station, home>>
      /\ UNCHANGED <<balance, recharges, spent, account, profile, vehicle>>
      /\ UNCHANGED <<wanted, idle, recent, reminders, preference>>
  BY DEF vars, windows, orderWindows, stationWindows, profileWindows, reminderWindows
<1>2. screen = "orders" => OrdersInv'
  <2>1. ASSUME OrdersInv PROVE OrdersInv'
    <3>1. OrdersLinkSteps({})
      BY <1>1, <2>1, OrdersLoses DEF OrdersInv
    <3>2. QED
      BY <1>1, <2>1, <3>1, OrdersStep DEF OrdersInv
  <2>2. QED
    BY <2>1 DEF WindowsInv
<1>3. screen = "station" => StationInv'
  BY <1>1, StationQuietly DEF WindowsInv, StationInv, StationTypeOK, HomeOK
<1>4. screen = "profile" => ProfileInv'
  <2>1. ASSUME ProfileInv PROVE ProfileInv'
    <3>1. WalletSteps({}) /\ calls' = calls /\ answers' = answers
      BY <1>1, <2>1, WalletStays, MayShowStays DEF ProfileInv, link
    <3>2. QED
      BY <1>1, <2>1, <3>1, ProfileStep DEF ProfileInv
  <2>2. QED
    BY <2>1 DEF WindowsInv
<1>5. screen = "reminders" => ReminderInv'
  BY <1>1, RemindersQuietly DEF WindowsInv, ReminderInv
<1>6. QED
  BY <1>1, <1>2, <1>3, <1>4, <1>5 DEF WindowsInv

(* The invariant is inductive.                                             *)
LEMMA WindowsStay == WindowsInv /\ [Next]_vars => WindowsInv'
<1> SUFFICES ASSUME WindowsInv, [Next]_vars PROVE WindowsInv'
  OBVIOUS
<1> USE DEF WindowsInv, stationWindows, profileWindows
<1>1. CASE UseOrders
  BY <1>1, OrdersStay DEF UseOrders
<1>2. CASE UseStation
  BY <1>2, StationStays DEF UseStation
<1>3. CASE UseProfile
  BY <1>3, ProfileStays DEF UseProfile
<1>4. CASE UseReminders
  BY <1>4, RemindersStay DEF UseReminders
<1>5. CASE UNCHANGED vars
  BY <1>5, WindowsStand
<1>6. QED
  BY <1>1, <1>2, <1>3, <1>4, <1>5 DEF Next

(* The inductive invariant holds of every behaviour.                       *)
THEOREM WindowsInvariantHolds == Spec => []WindowsInv
  BY WindowsStart, WindowsStay, PTL DEF Spec

(* Whatever request a window of the user's program waits for is watched by *)
(* a timer of the window or by the facade.  A confirmation over the window *)
(* is no part of it: it may hang.                                          *)
THEOREM RequestsOfWindowsAreWatched == Spec => []RequestsAreWatched
<1>1. WindowsInv => RequestsAreWatched
  BY OrdersAreWatched, WalletIsRight
     DEF WindowsInv, RequestsAreWatched, Screens, StationInv, StationOK, HomeOK,
         StationsWatched, ReminderInv
<1>2. QED
  BY <1>1, WindowsInvariantHolds, PTL

(* A plan drives a charge only at the charger it was chosen for.           *)
THEOREM PlansFitTheirChargers == Spec => []PlanFitsCharger
<1>1. WindowsInv => PlanFitsCharger
  BY DEF WindowsInv, PlanFitsCharger, StationInv, StationOK, ClosedStation, Nothing
<1>2. QED
  BY <1>1, WindowsInvariantHolds, PTL

(* A wallet at rest, whose last request succeeded, knows of every recharge *)
(* the server carried out, however many have timed out before and whatever *)
(* was paid meanwhile in another session.                                  *)
THEOREM WalletsShowTheRecharges == Spec => []RechargesAreShown
<1>1. WindowsInv => RechargesAreShown
  BY WalletIsRight DEF WindowsInv, RechargesAreShown, ClosedProfile
<1>2. QED
  BY <1>1, WindowsInvariantHolds, PTL

(* No reminder is shown once the program knows that none is wanted.        *)
THEOREM RemindersOffAreSilent == Spec => OffMeansQuiet
<1> DEFINE Quiet == ~reminders.banner /\ reminders'.banner => reminders.enabled \/ preference.lost
<1>1. WindowsInv /\ [Next]_vars => [Quiet]_<<link, reminderWindows>>
  <2> SUFFICES ASSUME WindowsInv, [Next]_vars PROVE Quiet
    OBVIOUS
  <2>1. CASE UseReminders
    BY <2>1, BannersAreWanted DEF UseReminders, WindowsInv
  <2>2. CASE UseOrders \/ UseStation \/ UseProfile \/ UNCHANGED vars
    <3>1. reminders' = reminders
      BY <2>2 DEF UseOrders, UseStation, UseProfile, vars, windows, reminderWindows
    <3>2. QED
      BY <3>1
  <2>3. QED
    BY <2>1, <2>2 DEF Next
<1>2. QED
  BY <1>1, WindowsInvariantHolds, PTL DEF Spec, OffMeansQuiet
=============================================================================

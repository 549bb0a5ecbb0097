---------------------------- MODULE DialogProofs ----------------------------
(***************************************************************************)
(* Proofs about the charging dialog, for any number of messages under way  *)
(* and of timers that run.                                                 *)
(***************************************************************************)
EXTENDS ChargingDialog, LinkProofs

Confirmable == {"charge.settle", "charge.cancel"}
TimerKinds == DialogRoutes \cup {None}
Arguments == {None}
Values == Status \cup {None, "other"}

ServerTypeOK ==
  order \in Status /\ lapsed \in BOOLEAN /\ other \in BOOLEAN

WindowTypeOK ==
  /\ startedDue \in BOOLEAN
  /\ record \in Status
  /\ check \in BOOLEAN
  /\ route \in TimerKinds
  /\ confirm \in {NoConfirmation} \cup [state : {"open", "pending"}, asks : Confirmable]
  /\ timers \in [TimerKinds -> Nat]

DialogTypeOK ==
  LinkTypeOK(Arguments, Values) /\ ServerTypeOK /\ WindowTypeOK

\* the server's order has come as far as status v
Reached(v) ==
  /\ v = "Charging"  => order # "Reserved"
  /\ v = "Completed" => order = "Completed"
  /\ v \in {"Cancelled", None} => Swept \in Ended

\* the order's status after request r, or what charge.active answers
Fits(r, v) ==
  /\ r = "charge.start" => v = "Charging"
  /\ r \in Confirmable => v \in Ended

\* what the window has been told, or will be told, the server has reached
TidingsAreTrue ==
  /\ Reached(record)
  /\ startedDue => order # "Reserved"
  /\ \A m \in Live(answers) : m.ok => Reached(m.value) /\ Fits(m.route, m.value)

\* the window takes the answer to its check for one
CheckIsRequested == route = "charge.active" => check

\* The inductive invariant.
DialogInv ==
  /\ DialogTypeOK /\ LinkInv
  /\ TidingsAreTrue
  /\ CheckIsRequested
  /\ WaitIsWatched

-----------------------------------------------------------------------------
(* The server: what the order has reached it does not leave.               *)

\* a step of the server, or none
ServerMoves ==
  /\ ServerTypeOK'
  /\ \A v : Reached(v) => Reached(v)'

(* An order moves on, and a reservation that has lapsed stays so.          *)
LEMMA OrderMovesOn ==
  ASSUME DialogInv, order' \in Status, lapsed' \in BOOLEAN, other' \in BOOLEAN,
         order # "Reserved" => order' # "Reserved",
         order = "Completed" => order' = "Completed",
         Swept \in Ended => Swept' \in Ended
  PROVE  ServerMoves
BY DEF ServerMoves, ServerTypeOK, Reached

(* A reservation lapses, is swept, or is changed by another client.        *)
LEMMA OthersMove ==
  ASSUME DialogInv, Lapse \/ Sweep \/ OtherClient
  PROVE  ServerMoves /\ UNCHANGED <<facade, dialog>>
<1>1. /\ order' \in Status /\ lapsed' \in BOOLEAN /\ other' \in BOOLEAN
      /\ order # "Reserved" => order' # "Reserved"
      /\ order = "Completed" => order' = "Completed"
      /\ Swept \in Ended => Swept' \in Ended
  BY DEF Lapse, Sweep, OtherClient, Swept, Lapsing, Ended, Status, DialogInv, DialogTypeOK, ServerTypeOK
<1>2. QED
  BY <1>1, OrderMovesOn DEF Lapse, Sweep, OtherClient

\* what the server answers request r with, after it has executed it
TrueAnswer(r, ok, v) ==
  ok => Reached(v)' /\ Fits(r, v)

(* Executing a request moves the order on, and the answer says so.         *)
LEMMA ServeMoves ==
  ASSUME DialogInv, NEW ok \in BOOLEAN, Serve(ok)
  PROVE  \E v \in Values : /\ Executes(ok, v)
                           /\ ServerMoves
                           /\ TrueAnswer(Head(calls).route, ok, v)
<1> DEFINE r == Head(calls).route
<1>1. /\ Executes(ok, IF r = "charge.active" THEN ActiveStatus ELSE After(r))
      /\ ok => Allowed(r)
      /\ order' \in IF ok THEN {After(r)} ELSE {order, Swept}
      /\ UNCHANGED <<lapsed, other>>
  BY DEF Serve
<1>2. r \in DialogRoutes
  <2>1. calls \in Seq(Call(Arguments)) /\ calls # <<>>
    BY <1>1 DEF Executes, DialogInv, DialogTypeOK, ServerTypeOK, LinkTypeOK
  <2>2. Head(calls) \in Call(Arguments)
    BY <2>1
  <2>3. QED
    BY <2>2, DialogAssumption DEF Call
<1>3. order \in Status /\ lapsed \in BOOLEAN /\ other \in BOOLEAN
  BY DEF DialogInv, DialogTypeOK, ServerTypeOK
<1>4. PICK v \in Values : v = IF r = "charge.active" THEN ActiveStatus ELSE After(r)
  BY <1>2, <1>3 DEF Swept, Lapsing, Status, Values, ActiveStatus, After, DialogRoutes, None
<1>5. ServerMoves /\ TrueAnswer(r, ok, v)
  <2>1. CASE ~ok
    <3>1. /\ order' \in Status /\ lapsed' \in BOOLEAN /\ other' \in BOOLEAN
          /\ order # "Reserved" => order' # "Reserved"
          /\ order = "Completed" => order' = "Completed"
          /\ Swept \in Ended => Swept' \in Ended
      BY <1>1, <1>3, <2>1 DEF Status, Swept, Lapsing, Ended
    <3>2. QED
      BY <2>1, <3>1, OrderMovesOn DEF TrueAnswer
  <2>2. CASE ok
    <3>1. order' = After(r) /\ Allowed(r)
      BY <1>1, <2>2
    <3>2. /\ order' \in Status /\ lapsed' \in BOOLEAN /\ other' \in BOOLEAN
          /\ order # "Reserved" => order' # "Reserved"
          /\ order = "Completed" => order' = "Completed"
          /\ Swept \in Ended => Swept' \in Ended
      BY <1>1, <1>2, <1>3, <3>1
         DEF After, Allowed, Swept, Lapsing, Ended, Status, DialogRoutes
    <3>3. CASE r = "charge.active"
      <4>1. order' = Swept /\ v = ActiveStatus /\ lapsed' = lapsed
        BY <1>1, <1>4, <3>1, <3>3 DEF After
      <4>2. Reached(v)'
        BY <1>3, <4>1
           DEF Reached, ActiveStatus, Swept, Lapsing, Ended, Status, None
      <4>3. QED
        BY <3>2, <3>3, <4>2, OrderMovesOn DEF TrueAnswer, Fits, Confirmable
    <3>4. CASE r # "charge.active"
      <4>1. v = order' /\ v \in {"Charging", "Completed", "Cancelled"}
        BY <1>2, <1>4, <3>1, <3>4 DEF After, DialogRoutes
      <4>2. Reached(v)' /\ Fits(r, v)
        BY <3>1, <4>1 DEF Reached, Fits, Confirmable, Swept, Lapsing, Ended, After, None
      <4>3. QED
        BY <3>2, <4>2, OrderMovesOn DEF TrueAnswer
    <3>5. QED
      BY <3>3, <3>4
  <2>3. QED
    BY <2>1, <2>2
<1>6. QED
  BY <1>1, <1>4, <1>5

(* The server may also rest.                                               *)
LEMMA ServerStays == ASSUME DialogInv, UNCHANGED server PROVE ServerMoves
BY DEF DialogInv, DialogTypeOK, ServerTypeOK, ServerMoves, Reached, Swept, Lapsing, server

-----------------------------------------------------------------------------
(* Each step keeps the invariant.                                          *)

(* What the window knows stays true while the server moves on, when it is  *)
(* told nothing and shows nothing that is not so.                          *)
LEMMA TidingsStay ==
  ASSUME DialogInv, ServerMoves, Live(answers)' \subseteq Live(answers),
         startedDue' => startedDue,
         record' = record \/ Reached(record)'
  PROVE  TidingsAreTrue'
<1>1. Reached(record) => (record' = record => Reached(record)')
  BY DEF ServerMoves, Reached
<1>2. order # "Reserved" => order' # "Reserved"
  <2>1. Reached("Charging") => Reached("Charging")'
    BY DEF ServerMoves
  <2>2. QED
    BY <2>1 DEF Reached, None
<1>3. \A m \in Live(answers)' : m.ok => Reached(m.value)' /\ Fits(m.route, m.value)
  BY DEF DialogInv, TidingsAreTrue, ServerMoves
<1>4. QED
  BY <1>1, <1>2, <1>3 DEF DialogInv, TidingsAreTrue

(* The initial state satisfies it.                                         *)
LEMMA DialogInit == Init => DialogInv
<1> SUFFICES ASSUME Init PROVE DialogInv
  OBVIOUS
<1>1. LinkTypeOK(Arguments, Values) /\ LinkInv /\ Live(answers) = {}
  BY LinkInit DEF Init
<1>2. ServerTypeOK /\ WindowTypeOK
  BY DEF Init, ServerTypeOK, WindowTypeOK, Status, TimerKinds
<1>3. TidingsAreTrue /\ CheckIsRequested /\ WaitIsWatched
  BY <1>1 DEF Init, TidingsAreTrue, CheckIsRequested, WaitIsWatched, Reached, None
<1>4. QED
  BY <1>1, <1>2, <1>3 DEF DialogInv, DialogTypeOK

(* The order changes behind the window's back.                             *)
LEMMA OthersKeep == ASSUME DialogInv, Lapse \/ Sweep \/ OtherClient PROVE DialogInv'
<1>1. ServerMoves /\ UNCHANGED <<facade, dialog>>
  BY OthersMove
<1>2. /\ LinkTypeOK(Arguments, Values)' /\ LinkInv'
      /\ waiting' = waiting /\ Live(answers)' = Live(answers)
      /\ UNCHANGED <<startedDue, record, route, check, confirm, timers>>
  BY <1>1, LinkStays DEF DialogInv, DialogTypeOK, facade, dialog
<1>3. TidingsAreTrue'
  BY <1>1, <1>2, TidingsStay
<1>4. ServerTypeOK' /\ WindowTypeOK'
  BY <1>1, <1>2 DEF DialogInv, DialogTypeOK, ServerMoves, WindowTypeOK
<1>5. CheckIsRequested' /\ WaitIsWatched'
  BY <1>2 DEF DialogInv, CheckIsRequested, WaitIsWatched
<1>6. QED
  BY <1>2, <1>3, <1>4, <1>5 DEF DialogInv, DialogTypeOK

(* The server executes a request.                                          *)
LEMMA ServeKeeps == ASSUME DialogInv, NEW ok \in BOOLEAN, Serve(ok) PROVE DialogInv'
<1> DEFINE c == Head(calls)
<1>1. PICK v \in Values : Executes(ok, v) /\ ServerMoves /\ TrueAnswer(c.route, ok, v)
  BY ServeMoves
<1>2. UNCHANGED <<startedDue, record, route, check, confirm, timers>>
  BY DEF Serve, dialog
<1>3. /\ LinkTypeOK(Arguments, Values)' /\ LinkInv' /\ waiting' = waiting
      /\ c.live => Live(answers)' = Live(answers) \cup
                     {[route |-> c.route, live |-> TRUE, ok |-> ok, value |-> v]}
      /\ ~c.live => answers' = answers
  BY <1>1, ExecutesKeeps DEF DialogInv, DialogTypeOK
<1>4. TidingsAreTrue'
  <2>1. /\ Reached(record)' /\ (startedDue' => order' # "Reserved")
        /\ \A m \in Live(answers) :
             m.ok => Reached(m.value)' /\ Fits(m.route, m.value)
    <3>1. Reached(record) => Reached(record)'
      BY <1>1, <1>2 DEF ServerMoves, Reached
    <3>2. Reached("Charging") => Reached("Charging")'
      BY <1>1 DEF ServerMoves
    <3>3. QED
      BY <1>1, <1>2, <3>1, <3>2 DEF DialogInv, TidingsAreTrue, ServerMoves, Reached, None
  <2>2. CASE c.live
    BY <1>1, <1>3, <2>1, <2>2 DEF TidingsAreTrue, TrueAnswer
  <2>3. CASE ~c.live
    <3>1. Live(answers)' = Live(answers)
      BY <1>3, <2>3 DEF Live
    <3>2. QED
      BY <2>1, <3>1 DEF TidingsAreTrue
  <2>4. QED
    BY <2>2, <2>3
<1>5. ServerTypeOK' /\ WindowTypeOK'
  BY <1>1, <1>2 DEF DialogInv, DialogTypeOK, ServerMoves, WindowTypeOK
<1>6. CheckIsRequested' /\ WaitIsWatched'
  BY <1>2, <1>3 DEF DialogInv, CheckIsRequested, WaitIsWatched
<1>7. QED
  BY <1>3, <1>4, <1>5, <1>6 DEF DialogInv, DialogTypeOK

(* The window sends a request and waits for it.                            *)
LEMMA AskKeeps ==
  ASSUME DialogInv, NEW r \in DialogRoutes, Ask(r), route' = r, record' = record,
         r = "charge.active" => check', WindowTypeOK'
  PROVE  DialogInv'
<1>1. Send(r, None) /\ UNCHANGED <<server, startedDue>> /\ r \in Routes
  BY DialogAssumption DEF Ask
<1>2. /\ LinkTypeOK(Arguments, Values)' /\ LinkInv' /\ r \in waiting'
      /\ Live(answers)' \subseteq Live(answers)
  <2>1. /\ LinkTypeOK(Arguments, Values)' /\ LinkInv'
        /\ waiting' = waiting \cup {r}
        /\ UNCHANGED answers \/ Live(answers)' = LiveBut(answers, r)
    BY <1>1, SendKeeps DEF DialogInv, DialogTypeOK, Arguments
  <2>2. QED
    BY <2>1 DEF Live, LiveBut
<1>3. ServerMoves
  BY <1>1, ServerStays
<1>4. TidingsAreTrue'
  BY <1>1, <1>2, <1>3, TidingsStay
<1>5. QED
  BY <1>2, <1>3, <1>4
     DEF DialogInv, DialogTypeOK, ServerMoves, CheckIsRequested, WaitIsWatched

(* The three ways to ask: the action button, a confirmation, the clock.    *)
LEMMA ClickStartKeeps == ASSUME DialogInv, ClickStart PROVE DialogInv'
<1>1. /\ Ask("charge.start") /\ route' = "charge.start"
      /\ timers' = Armed("charge.start") /\ UNCHANGED <<record, check, confirm, startedDue>>
  BY DEF ClickStart, Ask
<1>2. WindowTypeOK'
  BY <1>1 DEF DialogInv, DialogTypeOK, WindowTypeOK, Armed, TimerKinds, DialogRoutes
<1>3. QED
  BY <1>1, <1>2, AskKeeps DEF DialogRoutes

(* The user agrees to the question: the request goes out with its timer.   *)
LEMMA ConfirmKeeps == ASSUME DialogInv, Confirm PROVE DialogInv'
<1> DEFINE r == confirm.asks
<1>1. /\ Ask(r) /\ route' = r /\ timers' = Armed(r) /\ confirm.state = "open"
      /\ confirm' = [confirm EXCEPT !.state = "pending"]
      /\ UNCHANGED <<record, check, startedDue>>
  BY DEF Confirm, Ask
<1>2. confirm \in [state : {"open", "pending"}, asks : Confirmable]
  BY <1>1 DEF DialogInv, DialogTypeOK, WindowTypeOK, NoConfirmation
<1>3. /\ r \in DialogRoutes \ {"charge.active"} /\ r \in TimerKinds
      /\ confirm' \in [state : {"open", "pending"}, asks : Confirmable]
  BY <1>1, <1>2 DEF Confirmable, DialogRoutes, TimerKinds
<1>4. WindowTypeOK'
  BY <1>1, <1>3 DEF DialogInv, DialogTypeOK, WindowTypeOK, Armed
<1>5. QED
  BY <1>1, <1>3, <1>4, AskKeeps

(* The dialog asks for the active order of its own accord.                 *)
LEMMA RefreshKeeps == ASSUME DialogInv, Refresh PROVE DialogInv'
<1>1. /\ Ask("charge.active") /\ route' = "charge.active" /\ check'
      /\ check' = TRUE /\ UNCHANGED <<record, confirm, timers, startedDue>>
  BY DEF Refresh, Ask
<1>2. WindowTypeOK'
  BY <1>1 DEF DialogInv, DialogTypeOK, WindowTypeOK, TimerKinds, DialogRoutes
<1>3. QED
  BY <1>1, <1>2, AskKeeps DEF DialogRoutes

(* A step of the window alone: it waits for nothing afterwards, or for     *)
(* what it waited for.                                                     *)
LEMMA LocalKeeps ==
  ASSUME DialogInv, UNCHANGED <<server, facade, record>>, WindowTypeOK',
         \/ route' = None
         \/ UNCHANGED <<route, check>> /\ timers'[route] = timers[route]
  PROVE  DialogInv'
<1>1. UNCHANGED <<link, startedDue, record>>
  BY DEF facade
<1>2. /\ LinkTypeOK(Arguments, Values)' /\ LinkInv'
      /\ waiting' = waiting /\ Live(answers)' = Live(answers)
  BY <1>1, LinkStays DEF DialogInv, DialogTypeOK
<1>3. ServerMoves
  BY ServerStays
<1>4. TidingsAreTrue'
  BY <1>1, <1>2, <1>3, TidingsStay
<1>5. CheckIsRequested' /\ WaitIsWatched'
  BY <1>1, <1>2 DEF DialogInv, CheckIsRequested, WaitIsWatched, None
<1>6. QED
  BY <1>2, <1>3, <1>4, <1>5 DEF DialogInv, DialogTypeOK, ServerMoves

(* What finishFailure makes of a confirmation is one.                      *)
LEMMA ReopenedIsConfirmation ==
  ASSUME WindowTypeOK
  PROVE  Reopened \in {NoConfirmation} \cup [state : {"open", "pending"}, asks : Confirmable]
BY DEF WindowTypeOK, Reopened

(* One more timer may run.                                                 *)
LEMMA ArmedCounts ==
  ASSUME WindowTypeOK, NEW r \in TimerKinds PROVE Armed(r) \in [TimerKinds -> Nat]
BY DEF WindowTypeOK, Armed

(* A refused start, a confirmation opened or dismissed, a refused          *)
(* confirmation or check, the end of the countdown, a timer that fires.    *)
LEMMA ClicksKeep ==
  ASSUME DialogInv, ClickStartRefused \/ Click \/ Dismiss \/ CountdownEnds PROVE DialogInv'
<1>1. UNCHANGED <<server, facade, record, route>>
  BY DEF ClickStartRefused, Click, Dismiss, CountdownEnds, NotSent
<1>2. \/ route' = None
      \/ UNCHANGED <<route, check>> /\ timers' = timers
  BY DEF ClickStartRefused, Click, Dismiss, CountdownEnds
<1>3. WindowTypeOK'
  <2>1. WindowTypeOK /\ startedDue' = startedDue
    BY <1>1 DEF DialogInv, DialogTypeOK, facade
  <2>2. CASE ClickStartRefused
    <3>1. /\ timers' = Armed(None) /\ check' = FALSE /\ UNCHANGED <<record, route, confirm>>
          /\ None \in TimerKinds
      BY <2>2 DEF ClickStartRefused, TimerKinds
    <3>2. timers' \in [TimerKinds -> Nat]
      BY <2>1, <3>1, ArmedCounts
    <3>3. QED
      BY <2>1, <3>1, <3>2 DEF WindowTypeOK
  <2>3. CASE Click
    BY <1>1, <2>1, <2>3 DEF Click, WindowTypeOK, Confirmable
  <2>4. CASE Dismiss \/ CountdownEnds
    BY <1>1, <2>1, <2>4 DEF Dismiss, CountdownEnds, WindowTypeOK
  <2>5. QED
    BY <2>2, <2>3, <2>4
<1>4. QED
  BY <1>1, <1>2, <1>3, LocalKeeps

(* A request the facade will not send leaves no wait behind.               *)
LEMMA RefusalsKeep ==
  ASSUME DialogInv, ConfirmRefused \/ RefreshRefused PROVE DialogInv'
<1>1. /\ UNCHANGED <<server, facade, record>> /\ route' = None /\ check' = FALSE
  BY DEF ConfirmRefused, RefreshRefused, NotSent, Reset
<1>2. WindowTypeOK'
  <2>1. WindowTypeOK /\ startedDue' = startedDue
    BY <1>1 DEF DialogInv, DialogTypeOK, facade
  <2>2. CASE ConfirmRefused
    <3>1. confirm.asks \in Confirmable /\ confirm' = confirm /\ timers' = Armed(confirm.asks)
      BY <2>1, <2>2 DEF ConfirmRefused, WindowTypeOK, NoConfirmation
    <3>2. timers' \in [TimerKinds -> Nat]
      BY <2>1, <3>1, ArmedCounts DEF TimerKinds, DialogRoutes, Confirmable
    <3>3. QED
      BY <1>1, <2>1, <3>1, <3>2 DEF WindowTypeOK, TimerKinds
  <2>3. CASE RefreshRefused
    <3>1. confirm' = Reopened /\ timers' = timers
      BY <2>3 DEF RefreshRefused
    <3>2. QED
      BY <1>1, <2>1, <3>1, ReopenedIsConfirmation DEF WindowTypeOK, TimerKinds
  <2>4. QED
    BY <2>2, <2>3
<1>3. QED
  BY <1>1, <1>2, LocalKeeps

(* A single-shot timer runs out, too late or in time.                      *)
LEMMA TimerKeeps == ASSUME DialogInv, NEW r \in TimerKinds, TimerFires(r) PROVE DialogInv'
<1>1. /\ UNCHANGED <<server, facade, record>> /\ timers[r] > 0
      /\ timers' = [timers EXCEPT ![r] = @ - 1]
  BY DEF TimerFires
<1>2. /\ WindowTypeOK /\ startedDue' = startedDue
      /\ timers' \in [TimerKinds -> Nat]
  BY <1>1 DEF DialogInv, DialogTypeOK, WindowTypeOK, facade
<1>3. CASE r = route
  <2>1. /\ route' = None /\ check' = FALSE
        /\ confirm' \in {Reopened, confirm}
    BY <1>3 DEF TimerFires, Reset
  <2>2. WindowTypeOK'
    BY <1>1, <1>2, <2>1, ReopenedIsConfirmation DEF WindowTypeOK, TimerKinds
  <2>3. QED
    BY <1>1, <2>1, <2>2, LocalKeeps
<1>4. CASE r # route
  <2>1. UNCHANGED <<route, check, confirm>>
    BY <1>4 DEF TimerFires
  <2>2. WindowTypeOK' /\ timers'[route] = timers[route]
    BY <1>1, <1>2, <1>4, <2>1 DEF WindowTypeOK
  <2>3. QED
    BY <1>1, <2>1, <2>2, LocalKeeps
<1>5. QED
  BY <1>3, <1>4

(* A wait that fails leaves the window waiting for nothing; any other      *)
(* failure leaves it alone.                                                *)
LEMMA FailResets ==
  ASSUME WindowTypeOK, NEW r \in DialogRoutes, Fail(r), startedDue' = startedDue
  PROVE  /\ WindowTypeOK' /\ record' = record /\ timers' = timers
         /\ r = route => route' = None
         /\ r # route => UNCHANGED <<route, check>>
<1>1. UNCHANGED <<record, timers>>
  BY DEF Fail
<1>2. CASE r = route
  <2>1. route' = None /\ check' = FALSE /\ confirm' = Reopened
    BY <1>2 DEF Fail, Reset
  <2>2. QED
    BY <1>1, <1>2, <2>1, ReopenedIsConfirmation DEF WindowTypeOK, TimerKinds
<1>3. CASE r # route
  BY <1>1, <1>3 DEF Fail, WindowTypeOK
<1>4. QED
  BY <1>2, <1>3

(* The facade gives a request up.                                          *)
LEMMA ExpireKeeps == ASSUME DialogInv, NEW r \in DialogRoutes, Expire(r) PROVE DialogInv'
<1>1. GivesUp(r) /\ Fail(r) /\ UNCHANGED <<server, startedDue>>
  BY DEF Expire
<1>2. /\ LinkTypeOK(Arguments, Values)' /\ LinkInv' /\ waiting' = waiting \ {r}
      /\ Live(answers)' \subseteq Live(answers)
  BY <1>1, GivesUpKeeps DEF DialogInv, DialogTypeOK, LiveBut
<1>3. /\ WindowTypeOK' /\ UNCHANGED <<record, timers>>
      /\ r = route => route' = None
      /\ r # route => UNCHANGED <<route, check>>
  BY <1>1, FailResets DEF DialogInv, DialogTypeOK
<1>4. ServerMoves
  BY <1>1, ServerStays
<1>5. TidingsAreTrue'
  BY <1>1, <1>2, <1>3, <1>4, TidingsStay
<1>6. CheckIsRequested' /\ WaitIsWatched'
  BY <1>1, <1>2, <1>3 DEF DialogInv, CheckIsRequested, WaitIsWatched, None
<1>7. QED
  BY <1>2, <1>3, <1>4, <1>5, <1>6 DEF DialogInv, DialogTypeOK, ServerMoves

(* The connection is lost.                                                 *)
LEMMA DisconnectKeeps == ASSUME DialogInv, Disconnect PROVE DialogInv'
<1>1. PICK n \in 0..Len(calls) : Breaks(n)
  BY DEF Disconnect
<1>2. LinkTypeOK(Arguments, Values)' /\ LinkInv' /\ Live(answers)' = {}
  BY <1>1, BreaksKeeps DEF DialogInv, DialogTypeOK, NothingWaits
<1>3. UNCHANGED <<server, startedDue, record, timers>> /\ route' = None
  BY DEF Disconnect, Reset
<1>4. WindowTypeOK'
  <2>1. WindowTypeOK /\ check' \in BOOLEAN /\ confirm' \in {Reopened, confirm}
    BY DEF Disconnect, Reset, DialogInv, DialogTypeOK, WindowTypeOK
  <2>2. QED
    BY <1>3, <2>1, ReopenedIsConfirmation DEF WindowTypeOK, TimerKinds
<1>5. ServerMoves
  BY <1>3, ServerStays
<1>6. TidingsAreTrue'
  BY <1>2, <1>3, <1>5, TidingsStay
<1>7. CheckIsRequested' /\ WaitIsWatched'
  BY <1>3 DEF CheckIsRequested, WaitIsWatched, None
<1>8. QED
  BY <1>2, <1>4, <1>5, <1>6, <1>7 DEF DialogInv, DialogTypeOK, ServerMoves

(* The window hears that its charge has begun.                             *)
LEMMA StartedKeeps == ASSUME DialogInv, Started PROVE DialogInv'
<1>1. /\ startedDue /\ startedDue' = FALSE /\ record' = "Charging" /\ route' = None
      /\ UNCHANGED <<server, link, check, confirm, timers>>
  BY DEF Started
<1>2. /\ LinkTypeOK(Arguments, Values)' /\ LinkInv' /\ Live(answers)' = Live(answers)
  BY <1>1, LinkStays DEF DialogInv, DialogTypeOK
<1>3. ServerMoves
  BY <1>1, ServerStays
<1>4. Reached(record)'
  BY <1>1 DEF DialogInv, TidingsAreTrue, Reached, server, None
<1>5. TidingsAreTrue'
  BY <1>1, <1>2, <1>3, <1>4, TidingsStay
<1>6. WindowTypeOK' /\ CheckIsRequested' /\ WaitIsWatched'
  BY <1>1
     DEF DialogInv, DialogTypeOK, WindowTypeOK, CheckIsRequested, WaitIsWatched,
         Status, TimerKinds, None
<1>7. QED
  BY <1>2, <1>3, <1>5, <1>6 DEF DialogInv, DialogTypeOK, ServerMoves

(* An answer that nobody waits for is not looked at.                       *)
LEMMA ReceiveNothingKeeps ==
  ASSUME DialogInv, Receive, ~Head(answers).live PROVE DialogInv'
<1>1. Arrives /\ UNCHANGED <<server, startedDue, record, route, check, confirm, timers>>
  BY DEF Receive, dialog
<1>2. /\ LinkTypeOK(Arguments, Values)' /\ LinkInv'
      /\ waiting' = waiting /\ Live(answers)' = Live(answers)
  BY <1>1, ArrivesKeeps DEF DialogInv, DialogTypeOK
<1>3. ServerMoves
  BY <1>1, ServerStays
<1>4. TidingsAreTrue'
  BY <1>1, <1>2, <1>3, TidingsStay
<1>5. WindowTypeOK' /\ CheckIsRequested' /\ WaitIsWatched'
  BY <1>1, <1>2 DEF DialogInv, DialogTypeOK, WindowTypeOK, CheckIsRequested, WaitIsWatched
<1>6. QED
  BY <1>2, <1>3, <1>4, <1>5 DEF DialogInv, DialogTypeOK, ServerMoves

(* What a successful answer makes of the window: it shows what is so, and  *)
(* no longer waits for that answer, unless chargeStarted is to follow.     *)
LEMMA SucceedShows ==
  ASSUME DialogInv, UNCHANGED server, NEW a \in Live(answers), a \in Answer(Values), a.ok,
         Succeed(a)
  PROVE  /\ timers' = timers /\ route' \in {route, None} /\ check' \in {check, FALSE}
         /\ confirm' \in {confirm, NoConfirmation}
         /\ a.route # "charge.start" /\ a.route = route => route' = None
         /\ route' # None => check' = check
         /\ record' \in Status /\ Reached(record)'
<1>1. /\ a.route \in DialogRoutes /\ a.value \in Values
      /\ Reached(a.value) /\ Fits(a.route, a.value)
  BY DialogAssumption DEF Answer, DialogInv, TidingsAreTrue
<1>2. record \in Status /\ check \in BOOLEAN /\ (route = "charge.active" => check)
  BY DEF DialogInv, DialogTypeOK, WindowTypeOK, CheckIsRequested
<1>3. \A v : Reached(v)' <=> Reached(v)
  BY DEF Reached, Swept, Lapsing, server
<1>4. Reached(record) /\ (record' = record => Reached(record)')
  BY <1>3 DEF DialogInv, TidingsAreTrue, Reached
<1>5. CASE a.route = "charge.start"
  BY <1>2, <1>4, <1>5 DEF Succeed, dialog
<1>6. CASE a.route \in Confirmable
  <2>1. Finish(a.value) /\ a.value \in Ended
    BY <1>1, <1>6 DEF Succeed, Fits, Confirmable
  <2>2. /\ timers' = timers /\ route' = None /\ check' = check /\ confirm' = NoConfirmation
        /\ record' = a.value
    BY <2>1 DEF Finish
  <2>3. Reached(record)'
    BY <1>1, <1>3, <2>2 DEF Reached
  <2>4. QED
    BY <2>1, <2>2, <2>3 DEF Ended, Status
<1>7. CASE a.route = "charge.active"
  <2>1. ShowActive(a.value)
    BY <1>7 DEF Succeed
  <2>2. CASE ~check
    BY <1>2, <1>4, <1>7, <2>1, <2>2 DEF ShowActive
  <2>3. CASE check
    <3>1. /\ timers' = timers /\ route' = None /\ check' = FALSE /\ confirm' = confirm
          /\ record' = IF a.value = None THEN "Cancelled"
                       ELSE IF a.value = "other" THEN record ELSE a.value
      BY <2>1, <2>3 DEF ShowActive
    <3>2. record' \in Status
      BY <1>1, <1>2, <3>1 DEF Values, Status
    <3>3. CASE a.value = None
      <4>1. Swept \in Ended /\ record' = "Cancelled"
        BY <1>1, <3>1, <3>3 DEF Reached
      <4>2. QED
        BY <3>1, <3>2, <4>1 DEF Reached, Swept, Lapsing, server
    <3>4. CASE a.value = "other"
      BY <1>4, <3>1, <3>2, <3>4 DEF None
    <3>5. CASE a.value \notin {None, "other"}
      <4>1. Reached(record)'
        BY <1>1, <1>3, <3>1, <3>5 DEF Reached
      <4>2. QED
        BY <3>1, <3>2, <4>1
    <3>6. QED
      BY <3>3, <3>4, <3>5
  <2>4. QED
    BY <1>2, <2>2, <2>3
<1>8. QED
  BY <1>1, <1>5, <1>6, <1>7 DEF DialogRoutes, Confirmable

(* An answer that is waited for.                                           *)
LEMMA ReceiveKeeps == ASSUME DialogInv, Receive, Head(answers).live PROVE DialogInv'
<1>1. PICK a : a = Head(answers)
  OBVIOUS
<1>2. /\ Arrives /\ UNCHANGED server
      /\ startedDue' = (startedDue \/ (a.ok /\ a.route = "charge.start"))
      /\ IF a.ok THEN Succeed(a) ELSE Fail(a.route)
  BY <1>1 DEF Receive, Success
<1>3. /\ LinkTypeOK(Arguments, Values)' /\ LinkInv'
      /\ a \in Answer(Values) /\ a \in Live(answers)
      /\ Live(answers)' \subseteq Live(answers)
      /\ waiting' = waiting \ {a.route}
  BY <1>1, <1>2, ArrivesKeeps DEF DialogInv, DialogTypeOK, LiveBut
<1>4. a.route \in DialogRoutes /\ a.ok \in BOOLEAN
  BY <1>3, DialogAssumption DEF Answer
<1>5. ServerMoves
  BY <1>2, ServerStays
<1>6. CASE ~a.ok
  <2>1. startedDue' = startedDue
    BY <1>2, <1>6 DEF DialogInv, DialogTypeOK, WindowTypeOK
  <2>2. /\ WindowTypeOK' /\ UNCHANGED <<record, timers>>
        /\ a.route = route => route' = None
        /\ a.route # route => UNCHANGED <<route, check>>
    BY <1>2, <1>4, <1>6, <2>1, FailResets DEF DialogInv, DialogTypeOK
  <2>3. TidingsAreTrue'
    BY <1>3, <1>5, <2>1, <2>2, TidingsStay
  <2>4. CheckIsRequested' /\ WaitIsWatched'
    BY <1>3, <2>1, <2>2 DEF DialogInv, CheckIsRequested, WaitIsWatched, None
  <2>5. QED
    BY <1>3, <1>5, <2>2, <2>3, <2>4 DEF DialogInv, DialogTypeOK, ServerMoves
<1>7. CASE a.ok
  <2>1. /\ timers' = timers /\ route' \in {route, None} /\ check' \in {check, FALSE}
        /\ confirm' \in {confirm, NoConfirmation}
        /\ a.route # "charge.start" /\ a.route = route => route' = None
        /\ route' # None => check' = check
        /\ record' \in Status /\ Reached(record)'
    BY <1>2, <1>3, <1>7, SucceedShows
  <2>2. startedDue' => order' # "Reserved"
    <3>1. a.route = "charge.start" => Reached("Charging")
      BY <1>3, <1>7 DEF DialogInv, TidingsAreTrue, Fits
    <3>2. QED
      BY <1>2, <3>1 DEF DialogInv, TidingsAreTrue, Reached, server, None
  <2>3. TidingsAreTrue'
    BY <1>3, <1>5, <2>1, <2>2 DEF DialogInv, TidingsAreTrue, ServerMoves
  <2>4. CheckIsRequested' /\ WaitIsWatched'
    <3>1. startedDue \/ a.route = "charge.start" => startedDue'
      BY <1>2, <1>7
    <3>2. route' # None => route' = route /\ check' = check
      BY <2>1
    <3>3. CheckIsRequested'
      BY <3>2 DEF DialogInv, CheckIsRequested, None
    <3>4. WaitIsWatched'
      BY <1>3, <2>1, <3>1, <3>2 DEF DialogInv, WaitIsWatched
    <3>5. QED
      BY <3>3, <3>4
  <2>5. WindowTypeOK'
    BY <1>2, <2>1 DEF DialogInv, DialogTypeOK, WindowTypeOK, TimerKinds
  <2>6. QED
    BY <1>3, <1>5, <2>3, <2>4, <2>5 DEF DialogInv, DialogTypeOK, ServerMoves
<1>8. QED
  BY <1>4, <1>6, <1>7

(* The invariant is inductive.                                             *)
LEMMA DialogNext == DialogInv /\ [Next]_vars => DialogInv'
<1> SUFFICES ASSUME DialogInv, [Next]_vars PROVE DialogInv'
  OBVIOUS
<1>1. CASE Lapse \/ Sweep \/ OtherClient
  BY <1>1, OthersKeep
<1>2. CASE Disconnect
  BY <1>2, DisconnectKeeps
<1>3. CASE \E ok \in BOOLEAN : Serve(ok)
  BY <1>3, ServeKeeps
<1>4. CASE Receive
  BY <1>4, ReceiveKeeps, ReceiveNothingKeeps
<1>5. CASE Started
  BY <1>5, StartedKeeps
<1>6. CASE Refresh \/ ClickStart \/ Confirm
  BY <1>6, RefreshKeeps, ClickStartKeeps, ConfirmKeeps
<1>7. CASE ConfirmRefused \/ RefreshRefused
  BY <1>7, RefusalsKeep
<1>8. CASE ClickStartRefused \/ Click \/ Dismiss \/ CountdownEnds
  BY <1>8, ClicksKeep
<1>9. CASE \E r \in DialogRoutes : Expire(r)
  BY <1>9, ExpireKeeps
<1>10. CASE \E r \in DialogRoutes \cup {None} : TimerFires(r)
  BY <1>10, TimerKeeps DEF TimerKinds
<1>11. CASE UNCHANGED vars
  <2>1. UNCHANGED <<server, facade, dialog>>
    BY <1>11 DEF vars
  <2>2. WindowTypeOK'
    BY <2>1 DEF DialogInv, DialogTypeOK, WindowTypeOK, dialog, facade
  <2>3. QED
    BY <2>1, <2>2, LocalKeeps DEF dialog
<1>12. QED
  BY <1>1, <1>2, <1>3, <1>4, <1>5, <1>6, <1>7, <1>8, <1>9, <1>10, <1>11 DEF Next

-----------------------------------------------------------------------------
(* The inductive invariant holds of every behaviour.                       *)
THEOREM DialogInvariantHolds == Spec => []DialogInv
  BY DialogInit, DialogNext, PTL DEF Spec

(* A dialog shows a charge that has begun, or an order that is over, only  *)
(* when the server's order is at least there.                              *)
THEOREM DialogNeverAhead == Spec => []NeverAheadOfServer
<1>1. DialogInv => NeverAheadOfServer
  BY DEF DialogInv, TidingsAreTrue, Reached, NeverAheadOfServer
<1>2. QED
  BY <1>1, DialogInvariantHolds, PTL

(* Whatever the dialog waits for is watched by the facade or by a timer,   *)
(* or chargeStarted is about to be emitted.                                *)
THEOREM DialogWaitsAreWatched == Spec => []WaitIsWatched
<1>1. DialogInv => WaitIsWatched
  BY DEF DialogInv
<1>2. QED
  BY <1>1, DialogInvariantHolds, PTL
=============================================================================

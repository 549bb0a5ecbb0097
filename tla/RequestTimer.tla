---------------------------- MODULE RequestTimer ----------------------------
(***************************************************************************)
(* The timeouts of RequestLifecycleManager.  Every pending request has a   *)
(* deadline on the wall clock; one single-shot QTimer, which runs on a     *)
(* clock of its own, is armed for the earliest of them.  When it fires,    *)
(* expireDue visits the requests that were due at that moment one by one,  *)
(* and the application may send again from within each of the signals.     *)
(*                                                                         *)
(* The unit of time is the accuracy of a coarse timer, which may fire that *)
(* much early; and it may fire late, when the event loop is busy.          *)
(***************************************************************************)
EXTENDS RequestTable

CONSTANTS
  Timeout,            \* timeoutMs of track()
  ClockMayStepBack,   \* TRUE: the wall clock is also set back at times
  MaxWall             \* bound: the wall clock stops there, no deadline lies beyond it

ASSUME TimerAssumption ==
  /\ Timeout \in Nat \ {0}
  /\ ClockMayStepBack \in BOOLEAN
  /\ MaxWall \in Nat

VARIABLES
  wall,      \* QDateTime::currentMSecsSinceEpoch
  timer,     \* timeoutTimer_: what is left of it, or Off
  deadline,  \* timeoutAtMs of each pending request
  due        \* the requests a running expireDue has yet to visit

vars == <<socket, generation, pending, sent, wall, timer, deadline, due>>

Off == -1

AtLeastOne(n) == IF n < 1 THEN 1 ELSE n

Earliest(d) == CHOOSE t \in {d[i] : i \in DOMAIN d} : \A i \in DOMAIN d : t <= d[i]

\* variant: armed for the last deadline
ArmedForLatest(d) ==
  IF DOMAIN d = {} THEN Off
  ELSE AtLeastOne((CHOOSE t \in {d[i] : i \in DOMAIN d} : \A i \in DOMAIN d : t >= d[i]) - wall)

\* scheduleNextTimeout
Armed(d) == IF DOMAIN d = {} THEN Off ELSE AtLeastOne(Earliest(d) - wall)

Idle == due = {}

-----------------------------------------------------------------------------
(* The table's operations, with their effect on the timer.                 *)

TrackDeadline(r) ==
  /\ Send(r)
  /\ wall + Timeout <= MaxWall
  /\ deadline' = [i \in Kept(r) \cup {NewId} |->
                    IF i = NewId THEN wall + Timeout ELSE deadline[i]]
  /\ timer' = Armed(deadline')
  /\ UNCHANGED <<wall, due>>

\* only a superseded request re-arms the timer
Refuse(r) ==
  /\ SendFails(r)
  /\ deadline' = [i \in Kept(r) |-> deadline[i]]
  /\ timer' = IF Kept(r) = Waiting THEN timer ELSE Armed(deadline')
  /\ UNCHANGED <<wall, due>>

Complete(i) ==
  /\ Idle
  /\ Answer(i) \/ AnswerUnheard(i)
  /\ deadline' = [j \in Waiting \ {i} |-> deadline[j]]
  /\ timer' = Armed(deadline')
  /\ UNCHANGED <<wall, due>>

CancelPending ==
  /\ deadline' = <<>>
  /\ timer' = Off
  /\ UNCHANGED <<wall, due>>

EndSession(i) == Idle /\ AnswerEndsSession(i) /\ CancelPending

Disconnect == Idle /\ Disconnected /\ CancelPending

Reconnect ==
  /\ Idle
  /\ ConnectToServer
  /\ IF socket \in {"Connected", "Closing"}
     THEN CancelPending
     ELSE UNCHANGED <<wall, timer, deadline, due>>

ConnectionChange ==
  /\ Idle
  /\ Connected \/ ConnectFails \/ DisconnectFromServer
  /\ UNCHANGED <<wall, timer, deadline, due>>

-----------------------------------------------------------------------------
(* The timer.                                                              *)

DueNow == {i \in Waiting : deadline[i] <= wall}

\* variant: nothing was due, and the single-shot timer is left off
TimerFiresOnce ==
  /\ Idle
  /\ timer \in {0, 1}
  /\ due' = DueNow
  /\ timer' = Off
  /\ UNCHANGED <<wall, deadline, requestVars>>

\* expireDue begins; with nothing to visit it re-arms the timer and ends
TimerFires ==
  /\ Idle
  /\ timer \in {0, 1}
  /\ due' = DueNow
  /\ timer' = IF DueNow = {} THEN Armed(deadline) ELSE Off
  /\ UNCHANGED <<wall, deadline, requestVars>>

\* variant: what is no longer pending is reported all the same
ExpireNowUnchecked(i) ==
  /\ i \in due
  /\ due' = due \ {i}
  /\ pending' = PendingOnly(Waiting \ {i})
  /\ deadline' = [j \in Waiting \ {i} |-> deadline[j]]
  /\ sent' = Tell({i})
  /\ timer' = Armed(deadline')
  /\ UNCHANGED <<socket, generation, wall>>

\* expireDue visits i: it may have been superseded since the timer fired
ExpireNow(i) ==
  /\ i \in due
  /\ due' = due \ {i}
  /\ IF i \in Waiting
     THEN Expire(i) /\ deadline' = [j \in Waiting \ {i} |-> deadline[j]]
     ELSE UNCHANGED <<deadline, requestVars>>
  /\ timer' = Armed(deadline')
  /\ UNCHANGED wall

Tick ==
  /\ Idle
  /\ wall' = IF wall < MaxWall THEN wall + 1 ELSE wall
  /\ timer' = IF timer > 0 THEN timer - 1 ELSE timer
  /\ UNCHANGED <<deadline, due, requestVars>>

StepBack ==
  /\ Idle
  /\ ClockMayStepBack
  /\ wall > 0
  /\ wall' = wall - 1
  /\ UNCHANGED <<timer, deadline, due, requestVars>>

-----------------------------------------------------------------------------
Init ==
  /\ InitRequests
  /\ wall = 0
  /\ timer = Off
  /\ deadline = <<>>
  /\ due = {}

Next ==
  \/ \E r \in Routes : TrackDeadline(r) \/ Refuse(r)
  \/ \E i \in Waiting : Complete(i) \/ EndSession(i)
  \/ \E i \in due : ExpireNow(i)
  \/ Disconnect \/ Reconnect \/ ConnectionChange
  \/ TimerFires \/ Tick \/ StepBack

Spec == Init /\ [][Next]_vars

\* Time passes, and the event loop gets to a timer that has run out.
FairSpec ==
  /\ Spec
  /\ WF_vars(Tick)
  /\ WF_vars(TimerFires)
  /\ WF_vars(\E i \in due : ExpireNow(i))

-----------------------------------------------------------------------------
(* Properties.                                                             *)

\* The timer's state keeps its types, and exactly the pending requests have
\* deadlines.
TimerTypeOK ==
  /\ RequestTypeOK
  /\ wall \in Nat
  /\ timer \in Nat \cup {Off}
  /\ deadline \in [Waiting -> Nat]
  /\ due \subseteq DOMAIN sent

\* Whatever waits is watched: outside expireDue the timer is running whenever
\* a request waits, and will not sleep past the earliest deadline.  So no
\* request waits for ever, even though the timer is single-shot, may fire
\* before anything is due, and is re-armed by each of five operations.
DeadlinesAreWatched ==
  Idle => \A i \in Waiting : timer # Off /\ timer <= AtLeastOne(deadline[i] - wall)

\* The timeouts do nothing to the table that RequestTable does not allow.
ImplementsTable == RequestSpec

\* Every request that waits is answered, superseded, cancelled or timed out,
\* unless the clock is set back for ever.
EveryRequestEnds ==
  <>[][~StepBack]_vars =>
    \A i \in 1..MaxRequests : i \in Waiting ~> i \notin Waiting
=============================================================================

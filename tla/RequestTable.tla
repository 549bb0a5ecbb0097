---------------------------- MODULE RequestTable ----------------------------
(***************************************************************************)
(* How a client facade pairs requests with answers: the table of pending   *)
(* requests of RequestLifecycleManager, the policy with which              *)
(* UserClientFacade::send uses it, and the connection of NetworkClient that *)
(* carries the requests.  Time is left out: a pending request may time out *)
(* at any moment (module RequestTimer says when).  What the answers contain *)
(* and who gives them is left out too (module UserSession).                *)
(*                                                                         *)
(* An answer to a request that is not pending is dropped and changes       *)
(* nothing, and so does a request that prepare() suppresses: both are      *)
(* stuttering steps.  The set of retired ids serves the log only.          *)
(***************************************************************************)
EXTENDS Integers, Sequences

CONSTANTS
  Routes,         \* names of the requests
  Transactional,  \* those UserClientFacade::send calls transactional
  EndsSession,    \* those whose successful answer ends the session (logout)
  Announced,      \* those for whose success handle() has a signal
  MaxRequests,    \* bound: requests ever sent
  MaxGeneration   \* bound: sessions ever begun

ASSUME RouteAssumption ==
  /\ Transactional \subseteq Routes
  /\ Announced \subseteq Routes
  /\ EndsSession \subseteq Transactional \cap Announced

ASSUME RequestBoundAssumption ==
  /\ MaxRequests \in Nat
  /\ MaxGeneration \in Nat

VARIABLES
  socket,      \* QTcpSocket::state
  generation,  \* sessionGeneration_
  pending,     \* pending_: the contexts of the requests that wait
  sent         \* history: the requests in the order they were sent, each with
               \* the number of signals about it the application received, and
               \* the number of its answers that no signal announced

requestVars == <<socket, generation, pending, sent>>

SocketState == {"Unconnected", "Connecting", "Connected", "Closing"}

\* AsyncRequestContext
Context == [route : Routes, generation : Nat]

Waiting == DOMAIN pending

\* a request id never used before
NewId == Len(sent) + 1

\* an entry of the history
Entry(r, told, unheard) == [route |-> r, told |-> told, unheard |-> unheard]

\* one more signal about each request of ids
Tell(ids) ==
  [i \in DOMAIN sent |->
     IF i \in ids THEN Entry(sent[i].route, sent[i].told + 1, sent[i].unheard) ELSE sent[i]]

PendingOnly(ids) == [i \in ids |-> pending[i]]

-----------------------------------------------------------------------------
(* Sending.                                                                *)

HasPendingRoute(r) == \E i \in Waiting : pending[i].route = r

\* prepare: a transactional request is suppressed while one like it waits ...
Admits(r) == r \in Transactional => ~HasPendingRoute(r)

\* variant: a new request supersedes whatever waits
KeptNone(r) == {}

\* ... and a query supersedes its like: the ids that stay pending
Kept(r) == {i \in Waiting : r \in Transactional \/ pending[i].route # r}

\* the request reaches the socket and is tracked
Send(r) ==
  /\ Len(sent) < MaxRequests
  /\ Admits(r)
  /\ socket = "Connected"
  /\ pending' = [i \in Kept(r) \cup {NewId} |->
                   IF i = NewId THEN [route |-> r, generation |-> generation]
                                ELSE pending[i]]
  /\ sent' = Append(sent, Entry(r, 0, 0))
  /\ UNCHANGED <<socket, generation>>

\* not connected, or the write failed: the caller is told at once
SendFails(r) ==
  /\ Len(sent) < MaxRequests
  /\ Admits(r)
  /\ pending' = PendingOnly(Kept(r))
  /\ sent' = Append(sent, Entry(r, 1, 0))
  /\ UNCHANGED <<socket, generation>>

-----------------------------------------------------------------------------
(* The end of a request.                                                   *)

\* complete: an answer from an older session is dropped
Completes(i, history) ==
  /\ i \in Waiting
  /\ pending' = PendingOnly(Waiting \ {i})
  /\ sent' = IF pending[i].generation = generation THEN history ELSE sent
  /\ UNCHANGED <<socket, generation>>

\* then handle: a failure, or a success that has a signal, is passed on ...
Answer(i) == Completes(i, Tell({i}))

\* ... and a success for which there is no branch is not
AnswerUnheard(i) ==
  /\ i \in Waiting
  /\ pending[i].route \notin Announced
  /\ Completes(i, [sent EXCEPT ![i] = Entry(@.route, @.told, @.unheard + 1)])

\* variant: the timed-out request stays in the table
ExpireKept(i) ==
  /\ i \in Waiting
  /\ sent' = Tell({i})
  /\ UNCHANGED <<socket, generation, pending>>

\* expireNow
Expire(i) ==
  /\ i \in Waiting
  /\ pending' = PendingOnly(Waiting \ {i})
  /\ sent' = Tell({i})
  /\ UNCHANGED <<socket, generation>>

\* advanceSession and failCancelled: whatever waits is told it failed;
\* the requests of also have been answered in the same step
AdvanceSession(also) ==
  /\ generation' = generation + 1
  /\ pending' = PendingOnly({})
  /\ sent' = Tell(Waiting \cup also)

\* the answer to a logout, which is itself told to the application
AnswerEndsSession(i) ==
  /\ i \in Waiting
  /\ pending[i].route \in EndsSession
  /\ pending[i].generation = generation
  /\ generation + 1 < MaxGeneration   \* bound
  /\ AdvanceSession({i})
  /\ UNCHANGED socket

-----------------------------------------------------------------------------
(* The connection.                                                         *)

\* connectToServer: a live connection is aborted, which is a disconnection
ConnectToServer ==
  /\ socket' = "Connecting"
  /\ IF socket \in {"Connected", "Closing"}
     THEN AdvanceSession({})
     ELSE UNCHANGED <<generation, pending, sent>>

Connected ==
  /\ socket = "Connecting"
  /\ generation < MaxGeneration       \* bound
  /\ socket' = "Connected"
  /\ UNCHANGED <<generation, pending, sent>>

\* errorOccurred before the connection stands; disconnected is not emitted
ConnectFails ==
  /\ socket = "Connecting"
  /\ socket' = "Unconnected"
  /\ UNCHANGED <<generation, pending, sent>>

\* disconnectFromServer with bytes still to write
DisconnectFromServer ==
  /\ socket = "Connected"
  /\ socket' = "Closing"
  /\ UNCHANGED <<generation, pending, sent>>

\* the peer or the network closed the connection, or the close is complete
Disconnected ==
  /\ socket \in {"Connected", "Closing"}
  /\ socket' = "Unconnected"
  /\ AdvanceSession({})

-----------------------------------------------------------------------------
InitRequests ==
  /\ socket = "Unconnected"
  /\ generation = 1
  /\ pending = <<>>
  /\ sent = <<>>

ConnectionStep ==
  ConnectToServer \/ Connected \/ ConnectFails \/ DisconnectFromServer \/ Disconnected

RequestStep ==
  \/ \E r \in Routes : Send(r) \/ SendFails(r)
  \/ \E i \in Waiting : Answer(i) \/ AnswerUnheard(i) \/ AnswerEndsSession(i) \/ Expire(i)

NextRequests == RequestStep \/ ConnectionStep

RequestSpec == InitRequests /\ [][NextRequests]_requestVars

\* what a window sees of the table
WaitingRoutes == {pending[i].route : i \in Waiting}

Facade == INSTANCE FacadeView WITH waiting <- WaitingRoutes

-----------------------------------------------------------------------------
(* Properties.                                                             *)

\* The table, the connection and the history keep their types.
RequestTypeOK ==
  /\ socket \in SocketState
  /\ generation \in Nat
  /\ sent \in Seq([route : Routes, told : Nat, unheard : Nat])
  /\ Waiting \subseteq DOMAIN sent
  /\ pending \in [Waiting -> Context]
  /\ \A i \in Waiting : pending[i].route = sent[i].route

\* At most one request of a route waits at a time, for every route: the
\* signals carry the route and not the id, so a window that waits for a route
\* cannot mistake one request for another.
OnePendingPerRoute ==
  \A i, j \in Waiting : pending[i].route = pending[j].route => i = j

\* Whatever waits belongs to the current session, so that an answer is never
\* handed to a later session than the one that asked; the branch of complete()
\* for a stale generation is never taken.
PendingIsCurrent == \A i \in Waiting : pending[i].generation = generation

\* Nothing waits on a connection that is gone.
PendingOnlyOnline == Waiting # {} => socket \in {"Connected", "Closing"}

\* However answers, timeouts, disconnections and logouts race, a request is
\* reported to the application at most once, never while it waits, and goes
\* unreported only in two ways: a later request of the same, not transactional
\* route has taken its place, or it succeeded and its route has no signal.  So
\* every failure is reported, and with it every end of a transactional request
\* whose success has a signal.
ReportedOnce ==
  \A i \in DOMAIN sent :
    /\ sent[i].told + sent[i].unheard <= 1
    /\ i \in Waiting => sent[i].told + sent[i].unheard = 0
    /\ sent[i].unheard > 0 => sent[i].route \notin Announced
    /\ i \notin Waiting /\ sent[i].told + sent[i].unheard = 0 =>
         /\ sent[i].route \notin Transactional
         /\ \E j \in DOMAIN sent : j > i /\ sent[j].route = sent[i].route

\* A window can take the facade for a set of routes that wait: every step of
\* the table is one of FacadeView, although the window never sees an id.
ImplementsFacade == Facade!FacadeSpec
=============================================================================

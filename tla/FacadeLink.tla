----------------------------- MODULE FacadeLink -----------------------------
(***************************************************************************)
(* A facade, its connection, and the requests and answers under way.  The  *)
(* server executes the requests of a connection in the order they were     *)
(* sent, and the answers arrive in that order.  A request the facade has   *)
(* given up is executed all the same; its answer reaches nobody.           *)
(***************************************************************************)
EXTENDS FacadeView, Integers, Sequences, Functions

CONSTANT MaxCalls   \* bound: requests and answers under way

ASSUME LinkAssumption == MaxCalls \in Nat \ {0}

VARIABLES
  connected,  \* NetworkClient::isConnected
  calls,      \* requests the server has yet to execute
  answers     \* answers the client has yet to receive

link == <<waiting, connected, calls, answers>>

\* the ids of route r are not pending any more
Orphaned(q, r) ==
  [i \in DOMAIN q |-> IF q[i].route = r THEN [q[i] EXCEPT !.live = FALSE] ELSE q[i]]

\* the ids of the routes R are not pending any more
OrphanedAll(q, R) ==
  [i \in DOMAIN q |-> IF q[i].route \in R THEN [q[i] EXCEPT !.live = FALSE] ELSE q[i]]

\* the queue q, and one query of each of the routes rs
Queried(q, rs) ==
  OrphanedAll(q, Range(rs))
    \o [i \in DOMAIN rs |-> [route |-> rs[i], live |-> TRUE, arg |-> 0]]

AllOrphaned(q) == [i \in DOMAIN q |-> [q[i] EXCEPT !.live = FALSE]]

-----------------------------------------------------------------------------
\* the client sends a request, unless one like it waits
Send(r, arg) ==
  /\ connected
  /\ Len(calls) + Len(answers) < MaxCalls   \* bound
  /\ IF Suppressed(r)
     THEN UNCHANGED <<waiting, calls, answers>>
     ELSE /\ Asks(r)
          /\ calls' = Append(Orphaned(calls, r), [route |-> r, live |-> TRUE, arg |-> arg])
          /\ answers' = Orphaned(answers, r)
  /\ UNCHANGED connected

\* the client sends queries of several routes, one after the other
SendAll(rs) ==
  /\ connected
  /\ Len(calls) + Len(answers) + Len(rs) <= MaxCalls   \* bound
  /\ waiting' = waiting \cup Range(rs)
  /\ calls' = Queried(calls, rs)
  /\ answers' = OrphanedAll(answers, Range(rs))
  /\ UNCHANGED connected

\* the server executes the next request
Executes(ok, value) ==
  /\ calls # <<>>
  /\ calls' = Tail(calls)
  /\ answers' = IF Head(calls).live
                THEN Append(answers, [route |-> Head(calls).route, live |-> TRUE,
                                      ok |-> ok, value |-> value])
                ELSE answers
  /\ UNCHANGED <<waiting, connected>>

\* the next answer arrives
Arrives ==
  /\ answers # <<>>
  /\ answers' = Tail(answers)
  /\ IF Head(answers).live THEN Ends(Head(answers).route) ELSE UNCHANGED waiting
  /\ UNCHANGED <<connected, calls>>

\* the next answer arrives and ends the session, with all that waits
ArrivesAndEndsAll ==
  /\ answers # <<>>
  /\ EndAll
  /\ answers' = AllOrphaned(Tail(answers))
  /\ calls' = AllOrphaned(calls)
  /\ UNCHANGED connected

\* the next answer arrives, and the window that waited for it sends a request
ArrivesThenSends(r, arg) ==
  LET route == Head(answers).route
  IN  /\ answers # <<>>
      /\ Head(answers).live
      /\ IF r \in Transactional \cap (waiting \ {route})
         THEN Arrives
         ELSE /\ waiting' = (waiting \ {route}) \cup {r}
              /\ calls' = Append(Orphaned(calls, r), [route |-> r, live |-> TRUE, arg |-> arg])
              /\ answers' = Orphaned(Tail(answers), r)
              /\ UNCHANGED connected

\* the next answer arrives, and the window that waited for it sends queries
ArrivesThenAll(rs) ==
  /\ answers # <<>>
  /\ Head(answers).live
  /\ waiting' = (waiting \ {Head(answers).route}) \cup Range(rs)
  /\ calls' = Queried(calls, rs)
  /\ answers' = OrphanedAll(Tail(answers), Range(rs))
  /\ UNCHANGED connected

\* a request times out in the facade
GivesUp(r) ==
  /\ Ends(r)
  /\ calls' = Orphaned(calls, r)
  /\ answers' = Orphaned(answers, r)
  /\ UNCHANGED connected

\* variant: what waited on the connection goes on waiting
BreaksWaiting(n) ==
  /\ connected
  /\ connected' = FALSE
  /\ calls' = AllOrphaned(SubSeq(calls, 1, n))
  /\ answers' = <<>>
  /\ UNCHANGED waiting

\* the connection breaks: the server got the first n of the requests
Breaks(n) ==
  /\ connected
  /\ connected' = FALSE
  /\ EndAll
  /\ calls' = AllOrphaned(SubSeq(calls, 1, n))
  /\ answers' = <<>>

InitLink ==
  /\ InitFacade
  /\ connected = FALSE
  /\ calls = <<>>
  /\ answers = <<>>
=============================================================================

----------------------------- MODULE FacadeView -----------------------------
(***************************************************************************)
(* UserClientFacade as a window sees it: the routes a request waits for.   *)
(* Signals carry the route of a request, so this is all a window can tell. *)
(* RequestTable implements this specification.                             *)
(***************************************************************************)
CONSTANTS
  Routes,         \* names of the requests
  Transactional   \* those UserClientFacade::send suppresses while one waits

ASSUME FacadeAssumption == Transactional \subseteq Routes

VARIABLE waiting  \* the routes that wait for an answer

Suppressed(r) == r \in Transactional \cap waiting

\* a request is sent; a query takes the place of its like
Asks(r) == ~Suppressed(r) /\ waiting' = waiting \cup {r}

\* it cannot be sent: requestFailed comes at once
Refuses(r) == ~Suppressed(r) /\ waiting' = waiting \ {r}

\* the answer comes, or the request times out
Ends(r) == r \in waiting /\ waiting' = waiting \ {r}

\* the session ends or the connection is lost
EndAll == waiting' = {}

InitFacade == waiting = {}

NextFacade == EndAll \/ \E r \in Routes : Asks(r) \/ Refuses(r) \/ Ends(r)

FacadeSpec == InitFacade /\ [][NextFacade]_waiting
=============================================================================

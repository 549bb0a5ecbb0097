----------------------------- MODULE AdminPages -----------------------------
(***************************************************************************)
(* A page of the administrator's window, ChargerPage, StationPage or       *)
(* UserPage, over the facade, the connection and the catalogue.  Each page *)
(* is a table of rows, filled by a list request, a selection, and buttons  *)
(* that act on the selected row, some after a question.  Answers arrive    *)
(* while a question is open, and the rows it was asked about with them.    *)
(***************************************************************************)
EXTENDS FacadeLink, Catalogue

CONSTANTS
  MaxActions,   \* bound: operations executed for administrators
  MaxFilters    \* bound: changes of the search field or the status filter

ASSUME PageBounds == MaxActions \in Nat /\ MaxFilters \in Nat

VARIABLES
  page,       \* the page on the screen
  filter,     \* its search field and status filter
  typed,      \* how often they were changed
  shown,      \* table_: the rows, and the filter they were fetched for
  selected,   \* id of the selected row, or None
  label,      \* stateLabel_
  refreshOn,  \* refreshButton_ is enabled
  question,   \* the dialog that is open
  executed,   \* operations the server has executed for this administrator
  others,     \* operations other administrators have executed
  asOf,       \* how many of them the rows have seen
  confirmed   \* the last of them whose success was reported

screen == <<filter, typed, shown, selected, label, refreshOn, question, asOf, confirmed>>
pageVars == <<page, screen, executed, others>>
vars == <<link, catalogue, pageVars>>

None == "none"
Pages == {"charger", "station", "user"}
Filters == {"all", "Idle"}
AdminRoutes == Writes \cup {"charger.list", "station.list", "user.list"}

\* the other routes of the facade are those of AdminProgram
ASSUME PagesAssumption == Routes = AdminRoutes

NoQuestion == [asks |-> None, id |-> None]

ListOf(p) == CASE p = "charger" -> "charger.list"
               [] p = "station" -> "station.list"
               [] p = "user"    -> "user.list"

-----------------------------------------------------------------------------
(* The server.                                                             *)

Row(id, status) == [id |-> id, status |-> status]

ChargerList(f) ==
  {Row(c, chargers[c]) : c \in {d \in Chargers : Exists(d) /\ f \in {"all", chargers[d]}}}

StationList(f) == {Row(s, "open") : s \in {t \in sites : f = "all"}}

UserList(f) ==
  {Row(u, IF u \in frozen THEN "frozen" ELSE "normal") : u \in {v \in Users : f = "all"}}

Listed(route, f) ==
  CASE route = "charger.list" -> ChargerList(f)
    [] route = "station.list" -> StationList(f)
    [] route = "user.list"    -> UserList(f)

IsList(route) == route \notin Writes

\* the server executes the next request
Serve(ok) ==
  LET c == Head(calls)
  IN  IF IsList(c.route)
      THEN /\ Executes(ok, [rows |-> IF ok THEN Listed(c.route, c.arg.filter) ELSE {},
                            filter |-> c.arg.filter, asOf |-> executed])
           /\ UNCHANGED rows
           /\ audit' = Unlogged
           /\ UNCHANGED pageVars
      ELSE /\ executed + others < MaxActions   \* bound
           /\ Executes(ok, [rows |-> {}, filter |-> None, asOf |-> executed + 1])
           /\ Executed(c.route, c.arg.id, ok)
           /\ executed' = executed + 1
           /\ UNCHANGED <<page, screen, others>>

\* another administrator, at another program's server on the same database
OtherAdmin ==
  /\ \E route \in Writes : \E id \in Stations \cup Chargers \cup Users : Executed(route, id, TRUE)
  /\ executed + others < MaxActions   \* bound
  /\ others' = others + 1
  /\ UNCHANGED <<link, screen, page, executed>>

ServeNext == calls # <<>> /\ \E ok \in BOOLEAN : Serve(ok)

\* the steps of the window
Quiet == UNCHANGED rows /\ audit' = Unlogged

-----------------------------------------------------------------------------
(* The list.                                                               *)

\* the handler of requestFailed
Fails ==
  /\ label' = "error"
  /\ refreshOn' = TRUE

\* requestList, by which the page asks for the rows that match the filter f
RequestList(f) ==
  IF connected
  THEN /\ Send(ListOf(page), [id |-> None, meant |-> None, filter |-> f])
       /\ label' = "loading"
       /\ refreshOn' = (page = "station")
  ELSE /\ UNCHANGED link
       /\ Fails

\* the page is shown for the first time, or refreshed, by its own button or
\* by the window's, which is always on
Refresh ==
  /\ question = NoQuestion
  /\ RequestList(filter)
  /\ Quiet
  /\ UNCHANGED <<page, filter, typed, shown, selected, question, executed,
                 others, asOf, confirmed>>

\* every change of the search field or of the status filter asks again
Type(f) ==
  /\ question = NoQuestion
  /\ typed < MaxFilters                \* bound
  /\ f # filter
  /\ filter' = f
  /\ typed' = typed + 1
  /\ RequestList(f)
  /\ Quiet
  /\ UNCHANGED <<page, shown, selected, question, executed, others, asOf, confirmed>>

\* variant: after new rows the selection is on the first of them
ShowKeepingSelection(value) ==
  /\ shown' = [rows |-> value.rows, filter |-> value.filter]
  /\ asOf' = value.asOf
  /\ selected' = IF selected = None \/ value.rows = {} THEN None
                 ELSE (CHOOSE r \in value.rows : TRUE).id
  /\ label' = "normal"
  /\ refreshOn' = TRUE

\* applyChargers, applyStations, applyUsers
Show(value) ==
  /\ shown' = [rows |-> value.rows, filter |-> value.filter]
  /\ asOf' = value.asOf
  /\ selected' = None
  /\ label' = "normal"
  /\ refreshOn' = TRUE

-----------------------------------------------------------------------------
(* The buttons, as updateActions enables them for the selected row.        *)

ChargerButtons(status) ==
  CASE status = "Idle"  -> {"charger.delete", "charger.markFault", "charger.restart"}
    [] status = "Fault" -> {"charger.delete", "charger.recover", "charger.restart"}
    [] status = "Using" -> {}

StationButtons == {"station.update", "station.delete", "station.batchCreate"}

UserButtons(status) == IF status = "normal" THEN {"user.freeze"} ELSE {"user.unfreeze"}

Buttons ==
  UNION {CASE page = "charger" -> ChargerButtons(r.status)
           [] page = "station" -> StationButtons
           [] page = "user"    -> UserButtons(r.status) : r \in {q \in shown.rows : q.id = selected}}

\* these act at once
Direct == {"charger.markFault", "charger.recover", "charger.restart", "user.unfreeze"}

\* these look at the selection again when their dialog is accepted
Late == {"station.batchCreate", "user.freeze"}

Select(r) ==
  /\ question = NoQuestion
  /\ r \in shown.rows
  /\ selected' = r.id
  /\ Quiet
  /\ UNCHANGED <<link, page, filter, typed, shown, label, refreshOn, question,
                 executed, others, asOf, confirmed>>

\* the operation is sent for the row id; the administrator meant another row, perhaps
Act(route, id, meant) ==
  IF connected
  THEN /\ Send(route, [id |-> id, meant |-> meant, filter |-> None])
       /\ UNCHANGED <<label, refreshOn>>
  ELSE /\ UNCHANGED link
       /\ Fails

Click(route) ==
  /\ question = NoQuestion
  /\ route \in Buttons \cap Direct
  /\ Act(route, selected, selected)
  /\ Quiet
  /\ UNCHANGED <<page, filter, typed, shown, selected, question, executed,
                 others, asOf, confirmed>>

\* a question, or a form to fill in
Open(route) ==
  /\ question = NoQuestion
  /\ route \in Buttons \ Direct
  /\ question' = [asks |-> route, id |-> selected]
  /\ Quiet
  /\ UNCHANGED <<link, page, filter, typed, shown, selected, label, refreshOn,
                 executed, others, asOf, confirmed>>

\* the form for a new charger asks for the station's id, that for a new station for none
OpenForm ==
  /\ question = NoQuestion
  /\ \/ page = "charger" /\ \E s \in Stations : question' = [asks |-> "charger.create", id |-> s]
     \/ page = "station" /\ question' = [asks |-> "station.create", id |-> None]
  /\ Quiet
  /\ UNCHANGED <<link, page, filter, typed, shown, selected, label, refreshOn,
                 executed, others, asOf, confirmed>>

Accept ==
  /\ question # NoQuestion
  /\ Act(question.asks, IF question.asks \in Late THEN selected ELSE question.id, question.id)
  /\ question' = NoQuestion
  /\ Quiet
  /\ UNCHANGED <<page, filter, typed, shown, selected, executed, others, asOf, confirmed>>

Reject ==
  /\ question # NoQuestion
  /\ question' = NoQuestion
  /\ Quiet
  /\ UNCHANGED <<link, page, filter, typed, shown, selected, label, refreshOn,
                 executed, others, asOf, confirmed>>

-----------------------------------------------------------------------------
(* The answers.                                                            *)

\* variant: the page says it is done and leaves the rows as they are
KeepsRows ==
  /\ Arrives
  /\ label' = "normal"
  /\ refreshOn' = TRUE

\* an operation that succeeded asks for the list again
AsksAgain ==
  /\ ArrivesThenSends(ListOf(page), [id |-> None, meant |-> None, filter |-> filter])
  /\ label' = "loading"
  /\ refreshOn' = (page = "station")

\* the answer a to the list, or to an operation, as the page takes it
Takes(a) ==
  CASE ~a.ok -> /\ Fails
                /\ Arrives
                /\ UNCHANGED <<shown, selected, asOf, confirmed>>
    [] a.ok /\ IsList(a.route) -> Show(a.value) /\ Arrives /\ UNCHANGED confirmed
    [] OTHER -> /\ confirmed' = a.value.asOf
                /\ AsksAgain
                /\ UNCHANGED <<shown, selected, asOf>>

Receive ==
  /\ answers # <<>>
  /\ IF Head(answers).live THEN Takes(Head(answers))
     ELSE Arrives /\ UNCHANGED <<shown, selected, label, refreshOn, asOf, confirmed>>
  /\ Quiet
  /\ UNCHANGED <<page, filter, typed, question, executed, others>>

Expire(route) ==
  /\ GivesUp(route)
  /\ Fails
  /\ Quiet
  /\ UNCHANGED <<page, filter, typed, shown, selected, question, executed,
                 others, asOf, confirmed>>

Disconnect(n) ==
  /\ Breaks(n)
  /\ IF waiting = {} THEN UNCHANGED <<label, refreshOn>> ELSE Fails
  /\ Quiet
  /\ UNCHANGED <<page, filter, typed, shown, selected, question, executed,
                 others, asOf, confirmed>>

-----------------------------------------------------------------------------
Init ==
  /\ InitCatalogue
  /\ waiting = {} /\ calls = <<>> /\ answers = <<>>
  /\ connected = TRUE
  /\ page \in Pages
  /\ filter = "all"
  /\ typed = 0
  /\ shown = [rows |-> {}, filter |-> None]
  /\ selected = None
  /\ label = "empty"
  /\ refreshOn = TRUE
  /\ question = NoQuestion
  /\ executed = 0
  /\ others = 0
  /\ asOf = 0
  /\ confirmed = 0

Next ==
  \/ ServeNext \/ Receive \/ Refresh \/ OpenForm \/ Accept \/ Reject
  \/ \E f \in Filters : Type(f)
  \/ \E r \in shown.rows : Select(r)
  \/ \E route \in Writes : Click(route) \/ Open(route)
  \/ \E route \in AdminRoutes : Expire(route)
  \/ \E n \in 0..Len(calls) : Disconnect(n)
  \/ OtherAdmin
  \/ Customer /\ UNCHANGED <<link, pageVars>>

Spec == Init /\ [][Next]_vars

-----------------------------------------------------------------------------
(* Properties.                                                             *)

\* An operation is asked for the row the administrator saw when deciding, or
\* for none: the rows may be replaced while the question is open
\* (UserPage's freeze button and StationPage::showBatchDialog read the
\* selection when the dialog closes).
ActsOnWhatWasMeant ==
  \A i \in DOMAIN calls : calls[i].arg.id \in {None, calls[i].arg.meant}

\* When the page says it is up to date, its rows have seen every operation
\* whose success it has reported: a list that was under way before the
\* operation does not pass for one fetched after it.
ConfirmedChangesAreShown ==
  label = "normal" /\ ListOf(page) \notin waiting => asOf >= confirmed

=============================================================================

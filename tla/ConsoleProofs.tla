---------------------------- MODULE ConsoleProofs ----------------------------
(***************************************************************************)
(* Proofs about the catalogue and the administrator's pages, for any       *)
(* number of rows, operations and messages under way.                      *)
(***************************************************************************)
EXTENDS AdminPages, LinkProofs

-----------------------------------------------------------------------------
(* The inductive invariant.                                                *)

CatalogueTypeOK ==
  /\ sites \in SUBSET Stations
  /\ chargers \in [Chargers -> ChargerStatus \cup {"unborn", "deleted"}]
  /\ siteOf \in [Chargers -> Stations \cup {Nowhere}]
  /\ frozen \in SUBSET Users

CatalogueInv == CatalogueTypeOK /\ ChargersHaveStations

Ids == Stations \cup Chargers \cup Users \cup {None}
Rows == [id : Ids, status : ChargerStatus \cup {"open", "frozen", "normal"}]
Filter == Filters \cup {None}

\* a request for a row, which is the one the administrator meant, or for none
Arguments == {a \in [id : Ids, meant : Ids, filter : Filter] : a.id \in {None, a.meant}}
Values == [rows : SUBSET Rows, filter : Filter, asOf : Nat]

PageTypeOK ==
  /\ page \in Pages
  /\ filter \in Filters
  /\ shown \in [rows : SUBSET Rows, filter : Filter]
  /\ selected \in Ids
  /\ question \in {NoQuestion} \cup [asks : Writes, id : Ids]
  /\ executed \in Nat /\ asOf \in Nat /\ confirmed \in Nat

\* the selection an accepted question will look at again is what it was opened
\* for, or gone
SelectionIsMeant == question.asks \in Late => selected \in {None, question.id}

\* the answers q are of low to high executed operations, the earlier first
Ordered(q, low, high) ==
  /\ \A i \in DOMAIN q : q[i].value.asOf \in low..high
  /\ \A i, j \in DOMAIN q : i <= j => q[i].value.asOf <= q[j].value.asOf

\* what is still to arrive has seen each operation reported so far
AnswersSawConfirmed == confirmed <= executed /\ Ordered(answers, confirmed, executed)

\* rows that are said to be up to date are
NormalIsCurrent == label = "normal" => asOf >= confirmed

\* The inductive invariant of a page and its connection.
PageInv ==
  /\ LinkTypeOK(Arguments, Values) /\ LinkInv
  /\ PageTypeOK
  /\ SelectionIsMeant
  /\ AnswersSawConfirmed
  /\ NormalIsCurrent

ConsoleInv == CatalogueInv /\ PageInv

-----------------------------------------------------------------------------
(* The catalogue.                                                          *)

\* a step of an administrator keeps what users are charging at
KeepsUsed == \A c \in Chargers : chargers[c] = "Using" => chargers'[c] = "Using"

(* A step that writes no row keeps the catalogue.                          *)
LEMMA RowsStay ==
  ASSUME CatalogueInv, UNCHANGED rows
  PROVE  CatalogueInv' /\ KeepsUsed
  BY DEF rows, CatalogueInv, CatalogueTypeOK, ChargersHaveStations, Exists, KeepsUsed

(* New chargers, at a station the insert's foreign key has seen.           *)
LEMMA PutsKeeps ==
  ASSUME CatalogueInv, NEW s, NEW new \in SUBSET Unborn, Puts(new, s)
  PROVE  CatalogueInv' /\ KeepsUsed
<1>1. CatalogueTypeOK'
  BY DEF Puts, CatalogueInv, CatalogueTypeOK, ChargerStatus
<1>2. ChargersHaveStations'
  BY DEF Puts, CatalogueInv, CatalogueTypeOK, ChargersHaveStations, Exists
<1>3. KeepsUsed
  BY DEF Puts, Unborn, KeepsUsed
<1>4. QED
  BY <1>1, <1>2, <1>3 DEF CatalogueInv

(* A charger that is not in use changes its status, where it is.           *)
LEMMA ChangeStatusKeeps ==
  ASSUME CatalogueInv, NEW c \in Chargers, NEW before \in {"Idle", "Fault"},
         NEW after \in ChargerStatus, ChangeStatus(c, before, after)
  PROVE  CatalogueInv' /\ KeepsUsed
<1>1. CatalogueTypeOK'
  BY DEF ChangeStatus, CatalogueInv, CatalogueTypeOK, ChargerStatus
<1>2. ChargersHaveStations'
  BY DEF ChangeStatus, CatalogueInv, CatalogueTypeOK, ChargersHaveStations, Exists
<1>3. KeepsUsed
  BY DEF ChangeStatus, CatalogueInv, CatalogueTypeOK, KeepsUsed
<1>4. QED
  BY <1>1, <1>2, <1>3 DEF CatalogueInv

(* A charger that is not in use is deleted.                                *)
LEMMA DeleteChargerKeeps ==
  ASSUME CatalogueInv, NEW c \in Chargers, DeleteCharger(c)
  PROVE  CatalogueInv' /\ KeepsUsed
<1>1. CatalogueTypeOK'
  BY DEF DeleteCharger, CatalogueInv, CatalogueTypeOK
<1>2. ChargersHaveStations'
  BY DEF DeleteCharger, CatalogueInv, CatalogueTypeOK, ChargersHaveStations, Exists, ChargerStatus
<1>3. KeepsUsed
  BY DEF DeleteCharger, CatalogueInv, CatalogueTypeOK, KeepsUsed
<1>4. QED
  BY <1>1, <1>2, <1>3 DEF CatalogueInv

(* A station goes only when no charger is left at it.                      *)
LEMMA DeleteStationKeeps ==
  ASSUME CatalogueInv, NEW s, DeleteStation(s)
  PROVE  CatalogueInv' /\ KeepsUsed
<1>1. CatalogueTypeOK'
  BY DEF DeleteStation, CatalogueInv, CatalogueTypeOK
<1>2. ChargersHaveStations'
  BY DEF DeleteStation, ChargersAt, CatalogueInv, ChargersHaveStations, Exists
<1>3. KeepsUsed
  BY DEF DeleteStation, KeepsUsed
<1>4. QED
  BY <1>1, <1>2, <1>3 DEF CatalogueInv

(* Steps that leave chargers and their stations where they are.            *)
LEMMA OthersKeep ==
  ASSUME CatalogueInv, NEW u,
         CreateStation \/ FreezeUser(u) \/ UnfreezeUser(u)
  PROVE  CatalogueInv' /\ KeepsUsed
<1>1. CatalogueTypeOK'
  BY DEF CreateStation, FreezeUser, UnfreezeUser, CatalogueInv, CatalogueTypeOK
<1>2. ChargersHaveStations' /\ KeepsUsed
  BY DEF CreateStation, FreezeUser, UnfreezeUser, CatalogueInv, ChargersHaveStations, Exists, KeepsUsed
<1>3. QED
  BY <1>1, <1>2 DEF CatalogueInv

(* Every operation keeps every charger at a station, and keeps the         *)
(* chargers in use in use, whatever row it is asked for.                   *)
LEMMA ChangesKeep ==
  ASSUME CatalogueInv, NEW route \in Writes, NEW id, Changes(route, id)
  PROVE  CatalogueInv' /\ KeepsUsed
<1>1. CASE route = "charger.create"
  <2>1. PICK c \in Unborn : Puts({c}, id)
    BY <1>1 DEF Changes, CreateCharger
  <2>2. QED
    BY <2>1, PutsKeeps
<1>2. CASE route = "station.batchCreate"
  <2>1. PICK new \in SUBSET Unborn : Puts(new, id)
    BY <1>2 DEF Changes, BatchCreate
  <2>2. QED
    BY <2>1, PutsKeeps
<1>3. CASE route = "charger.delete"
  BY <1>3, DeleteChargerKeeps DEF Changes
<1>4. CASE route = "charger.markFault"
  BY <1>4, ChangeStatusKeeps DEF Changes, MarkFault, ChargerStatus
<1>5. CASE route = "charger.recover"
  BY <1>5, ChangeStatusKeeps DEF Changes, Recover, ChargerStatus
<1>6. CASE route = "charger.restart" \/ route = "station.update"
  BY <1>6, RowsStay DEF Changes, Restart, UpdateStation
<1>7. CASE route = "station.delete"
  BY <1>7, DeleteStationKeeps DEF Changes
<1>8. CASE route = "station.create" \/ route = "user.freeze" \/ route = "user.unfreeze"
  BY <1>8, OthersKeep DEF Changes
<1>9. QED
  BY <1>1, <1>2, <1>3, <1>4, <1>5, <1>6, <1>7, <1>8
  DEF Writes, ChargerWrites, StationWrites, UserWrites

(* Whether it succeeds or fails.                                           *)
LEMMA ExecutedKeeps ==
  ASSUME CatalogueInv, NEW route \in Writes, NEW id, NEW ok \in BOOLEAN, Executed(route, id, ok)
  PROVE  CatalogueInv' /\ KeepsUsed
  BY ChangesKeep, RowsStay DEF Executed

(* A user takes or releases a charger that is there.                       *)
LEMMA CustomerKeeps ==
  ASSUME CatalogueInv, Customer
  PROVE  CatalogueInv'
<1>1. PICK c \in Chargers :
        /\ chargers[c] \in {"Idle", "Using"}
        /\ \/ chargers' = [chargers EXCEPT ![c] = "Using"]
           \/ chargers' = [chargers EXCEPT ![c] = "Idle"]
  BY DEF Customer
<1>2. CatalogueTypeOK'
  BY <1>1 DEF Customer, CatalogueInv, CatalogueTypeOK, ChargerStatus
<1>3. ChargersHaveStations'
  BY <1>1 DEF Customer, CatalogueInv, CatalogueTypeOK, ChargersHaveStations, Exists, ChargerStatus
<1>4. QED
  BY <1>2, <1>3 DEF CatalogueInv

-----------------------------------------------------------------------------
(* The order of answers: requests are executed and answered in turn.       *)

(* Answers nobody waits for any more are still of the same operations.     *)
LEMMA OrphanedOrdered ==
  ASSUME NEW q \in Seq(Answer(Values)), NEW r, NEW low, NEW high, Ordered(q, low, high)
  PROVE  Ordered(Orphaned(q, r), low, high)
<1> DEFINE o == Orphaned(q, r)
<1>1. DOMAIN o = DOMAIN q
  BY DEF Orphaned
<1>2. \A i \in DOMAIN q : o[i].value = q[i].value
  <2>1. \A i \in DOMAIN q : q[i] \in Answer(Values)
    OBVIOUS
  <2>2. QED
    BY <2>1 DEF Orphaned, Answer
<1> HIDE DEF o
<1>3. QED
  BY <1>1, <1>2 DEF Ordered, o

(* No answer after the first is of fewer operations than it.               *)
LEMMA TailOrdered ==
  ASSUME NEW q \in Seq(Answer(Values)), q # <<>>, NEW low \in Nat, NEW high \in Nat,
         Ordered(q, low, high)
  PROVE  /\ Head(q).value.asOf \in low..high
         /\ Ordered(Tail(q), Head(q).value.asOf, high)
<1> DEFINE t == Tail(q)
<1>1. /\ DOMAIN q = 1..Len(q) /\ Len(q) \in Nat \ {0} /\ Head(q) = q[1]
      /\ DOMAIN t = 1..(Len(q) - 1)
      /\ \A i \in DOMAIN t : t[i] = q[i+1]
  BY EmptySeq, HeadTailProperties
<1>2. 1 \in DOMAIN q /\ \A i \in DOMAIN t : i + 1 \in DOMAIN q /\ 1 <= i + 1
  BY <1>1
<1>3. \A i, j \in DOMAIN t : i <= j => i + 1 <= j + 1
  BY <1>1
<1> HIDE DEF t
<1>4. Ordered(t, q[1].value.asOf, high)
  BY <1>1, <1>2, <1>3, SMTT(30) DEF Ordered
<1>5. QED
  BY <1>1, <1>2, <1>4 DEF Ordered, t

(* Answers that are not below a bound are not below a lower one.           *)
LEMMA LowerOrdered ==
  ASSUME NEW q, NEW low \in Nat, NEW high \in Nat, NEW mid \in low..high, Ordered(q, mid, high)
  PROVE  Ordered(q, low, high)
  BY DEF Ordered

(* The answer to the request just executed comes last.                     *)
LEMMA AppendOrdered ==
  ASSUME NEW q \in Seq(Answer(Values)), NEW low \in Nat, NEW high \in Nat, low <= high,
         Ordered(q, low, high),
         NEW a \in Answer(Values), a.value.asOf >= high
  PROVE  Ordered(Append(q, a), low, a.value.asOf)
<1> DEFINE t == Append(q, a)
<1>1. /\ DOMAIN q = 1..Len(q) /\ Len(q) \in Nat
      /\ DOMAIN t = 1..(Len(q) + 1)
      /\ t[Len(q) + 1] = a
      /\ \A i \in DOMAIN q : t[i] = q[i]
  BY AppendProperties
<1>2. a.value.asOf \in Nat
  BY DEF Answer, Values
<1>3. \A i \in DOMAIN t : i \in DOMAIN q \/ i = Len(q) + 1
  BY <1>1
<1>4. Len(q) + 1 \notin DOMAIN q /\ \A i \in DOMAIN q : ~(Len(q) + 1 <= i)
  BY <1>1
<1> HIDE DEF t
<1>5. QED
  BY <1>1, <1>2, <1>3, <1>4 DEF Ordered, t

-----------------------------------------------------------------------------
(* The server.                                                             *)

(* The lists it answers with are rows.                                     *)
LEMMA ListsAreRows ==
  ASSUME CatalogueInv, NEW route \in AdminRoutes \ Writes, NEW f
  PROVE  Listed(route, f) \in SUBSET Rows
<1>1. ChargerList(f) \in SUBSET Rows
  BY DEF ChargerList, Row, Rows, Ids, CatalogueInv, CatalogueTypeOK, Exists
<1>2. StationList(f) \in SUBSET Rows
  BY DEF StationList, Row, Rows, Ids, CatalogueInv, CatalogueTypeOK
<1>3. UserList(f) \in SUBSET Rows
  BY DEF UserList, Row, Rows, Ids
<1>4. route \in {"charger.list", "station.list", "user.list"}
  BY DEF AdminRoutes
<1>5. QED
  BY <1>1, <1>2, <1>3, <1>4 DEF Listed

(* What the server answers, as of the operations executed then.            *)
LEMMA ExecutesPage ==
  ASSUME PageInv, NEW ok \in BOOLEAN, NEW value \in Values, Executes(ok, value),
         value.asOf >= executed, executed' = value.asOf, UNCHANGED <<page, screen, others>>
  PROVE  PageInv'
<1>1. LinkTypeOK(Arguments, Values) /\ LinkInv
  BY DEF PageInv
<1>2. LinkTypeOK(Arguments, Values)' /\ LinkInv'
  BY <1>1, ExecutesKeeps
<1>3. value.asOf \in Nat
  BY DEF Values
<1>4. PageTypeOK' /\ SelectionIsMeant' /\ NormalIsCurrent'
  BY <1>3 DEF screen, PageInv, PageTypeOK, SelectionIsMeant, NormalIsCurrent
<1>5. /\ answers \in Seq(Answer(Values)) /\ executed \in Nat /\ confirmed \in Nat
      /\ confirmed <= executed /\ Ordered(answers, confirmed, executed)
      /\ confirmed' = confirmed
  BY DEF LinkTypeOK, PageInv, PageTypeOK, AnswersSawConfirmed, screen
<1>6. Ordered(answers', confirmed, value.asOf)
  <2> DEFINE m == [route |-> Head(calls).route, live |-> TRUE, ok |-> ok, value |-> value]
  <2>1. CASE answers' = Append(answers, m)
    <3>1. Head(calls) \in Call(Arguments)
      BY <1>1, ExecutesKeeps
    <3>2. m \in Answer(Values) /\ m.value.asOf = value.asOf
      BY <3>1 DEF Answer, Call
    <3> HIDE DEF m
    <3>3. QED
      BY <1>5, <2>1, <3>2, AppendOrdered
  <2>2. CASE answers' = answers
    BY <1>3, <1>5, <2>2 DEF Ordered
  <2>3. QED
    BY <2>1, <2>2 DEF Executes
<1>7. AnswersSawConfirmed'
  BY <1>3, <1>5, <1>6 DEF AnswersSawConfirmed
<1>8. QED
  BY <1>2, <1>4, <1>7 DEF PageInv

(* A list, or an operation of this administrator.                          *)
LEMMA ServeKeeps ==
  ASSUME ConsoleInv, NEW ok \in BOOLEAN, calls # <<>>, Serve(ok)
  PROVE  ConsoleInv' /\ KeepsUsed
<1> DEFINE c == Head(calls)
<1>1. CatalogueInv /\ PageInv /\ executed \in Nat
  BY DEF ConsoleInv, PageInv, PageTypeOK
<1>2. c \in Call(Arguments) /\ c.route \in AdminRoutes /\ c.arg.filter \in Filter
  <2>1. c \in Call(Arguments)
    BY <1>1, HeadTailProperties DEF PageInv, LinkTypeOK
  <2>2. QED
    BY <2>1, PagesAssumption DEF Call, Arguments
<1>3. CASE IsList(c.route)
  <2> DEFINE value == [rows |-> IF ok THEN Listed(c.route, c.arg.filter) ELSE {},
                       filter |-> c.arg.filter, asOf |-> executed]
  <2>1. Executes(ok, value) /\ UNCHANGED rows /\ UNCHANGED pageVars
    BY <1>3 DEF Serve
  <2>2. value \in Values /\ value.asOf = executed
    BY <1>1, <1>2, <1>3, ListsAreRows DEF Values, IsList
  <2> HIDE DEF value
  <2>3. PageInv'
    BY <1>1, <2>1, <2>2, ExecutesPage DEF pageVars
  <2>4. QED
    BY <1>1, <2>1, <2>3, RowsStay DEF ConsoleInv
<1>4. CASE ~IsList(c.route)
  <2> DEFINE value == [rows |-> {}, filter |-> None, asOf |-> executed + 1]
  <2>1. /\ Executes(ok, value) /\ Executed(c.route, c.arg.id, ok)
        /\ executed' = executed + 1 /\ UNCHANGED <<page, screen, others>>
    BY <1>4 DEF Serve
  <2>2. value \in Values /\ value.asOf = executed + 1
    BY <1>1 DEF Values, Filter
  <2> HIDE DEF value
  <2>3. PageInv'
    BY <1>1, <2>1, <2>2, ExecutesPage
  <2>4. CatalogueInv' /\ KeepsUsed
    BY <1>1, <1>4, <2>1, ExecutedKeeps DEF IsList
  <2>5. QED
    BY <2>3, <2>4 DEF ConsoleInv
<1>5. QED
  BY <1>3, <1>4

-----------------------------------------------------------------------------
(* The page.                                                               *)

\* a step of the page: the server does nothing
PageStep == Quiet /\ UNCHANGED <<page, executed>>

\* what stays of the invariant when the page has sent a request, or none
LinkPart ==
  /\ LinkTypeOK(Arguments, Values)' /\ LinkInv'
  /\ Ordered(answers', confirmed, executed)

(* The page asks for something that concerns a row it means, or for none.  *)
LEMMA SendKeepsLink ==
  ASSUME PageInv, NEW r \in AdminRoutes, NEW a \in Arguments, Send(r, a)
  PROVE  LinkPart
<1>1. LinkTypeOK(Arguments, Values) /\ LinkInv /\ r \in Routes
  BY PagesAssumption DEF PageInv
<1>2. LinkTypeOK(Arguments, Values)' /\ LinkInv'
  BY <1>1, SendKeeps
<1>3. answers' = answers \/ answers' = Orphaned(answers, r)
  BY DEF Send
<1>4. answers \in Seq(Answer(Values)) /\ Ordered(answers, confirmed, executed)
  BY <1>1 DEF PageInv, LinkTypeOK, AnswersSawConfirmed
<1>5. Ordered(answers', confirmed, executed)
  BY <1>3, <1>4, OrphanedOrdered
<1>6. QED
  BY <1>2, <1>5 DEF LinkPart

(* Nothing is sent.                                                        *)
LEMMA NothingSent ==
  ASSUME PageInv, UNCHANGED link
  PROVE  LinkPart
<1>1. LinkTypeOK(Arguments, Values)' /\ LinkInv' /\ answers' = answers
  BY LinkStays DEF PageInv
<1>2. QED
  BY <1>1 DEF LinkPart, PageInv, AnswersSawConfirmed

(* The page asks for its list.                                             *)
LEMMA RequestListKeepsLink ==
  ASSUME PageInv, NEW f \in Filters, RequestList(f)
  PROVE  LinkPart /\ label' # "normal"
<1>1. ListOf(page) \in AdminRoutes
  BY DEF PageInv, PageTypeOK, Pages, ListOf, AdminRoutes
<1>2. [id |-> None, meant |-> None, filter |-> f] \in Arguments
  BY DEF Arguments, Ids, Filter
<1>3. QED
  BY <1>1, <1>2, SendKeepsLink, NothingSent DEF RequestList, Fails

(* It asks for an operation on the row that was meant, or on none.         *)
LEMMA ActKeepsLink ==
  ASSUME PageInv, NEW route \in Writes, NEW id \in Ids, NEW meant \in Ids,
         id \in {None, meant}, Act(route, id, meant)
  PROVE  LinkPart /\ (label' = label \/ label' # "normal")
<1>1. route \in AdminRoutes
  BY DEF AdminRoutes
<1>2. [id |-> id, meant |-> meant, filter |-> None] \in Arguments
  BY DEF Arguments, Filter
<1>3. QED
  BY <1>1, <1>2, SendKeepsLink, NothingSent DEF Act, Fails

(* The user's steps keep the rows and what is known of them; they may      *)
(* change the selection while no question is open.                         *)
LEMMA LocalKeeps ==
  ASSUME ConsoleInv, PageStep, LinkPart, UNCHANGED <<shown, asOf, confirmed>>,
         label' = label \/ label' # "normal",
         filter' \in Filters, selected' \in Ids,
         question' \in {NoQuestion} \cup [asks : Writes, id : Ids], SelectionIsMeant'
  PROVE  ConsoleInv'
<1>1. CatalogueInv'
  BY RowsStay DEF ConsoleInv, PageStep, Quiet
<1>2. PageTypeOK' /\ NormalIsCurrent'
  BY DEF ConsoleInv, PageInv, PageTypeOK, NormalIsCurrent, PageStep
<1>3. AnswersSawConfirmed'
  BY DEF ConsoleInv, PageInv, AnswersSawConfirmed, LinkPart, PageStep
<1>4. QED
  BY <1>1, <1>2, <1>3 DEF ConsoleInv, PageInv, LinkPart

(* Without a question there is nothing the selection could differ from.    *)
LEMMA NoQuestionMeansNothing == NoQuestion.asks \notin Late
  BY DEF NoQuestion, Late, None

(* The list is asked for again.                                            *)
LEMMA RefreshKeeps ==
  ASSUME ConsoleInv, Refresh \/ \E f \in Filters : Type(f)
  PROVE  ConsoleInv'
<1>1. /\ PageInv /\ filter \in Filters /\ selected \in Ids
      /\ question \in {NoQuestion} \cup [asks : Writes, id : Ids]
  BY DEF ConsoleInv, PageInv, PageTypeOK
<1>2. LinkPart /\ label' # "normal" /\ filter' \in Filters
  BY <1>1, RequestListKeepsLink DEF Refresh, Type
<1>3. PageStep /\ UNCHANGED <<shown, selected, question, asOf, confirmed>>
  BY DEF Refresh, Type, PageStep
<1>4. SelectionIsMeant'
  BY <1>1, <1>3 DEF PageInv, SelectionIsMeant
<1>5. QED
  BY <1>1, <1>2, <1>3, <1>4, LocalKeeps

(* A row is selected while no question is open.                            *)
LEMMA SelectKeeps ==
  ASSUME ConsoleInv, NEW r \in shown.rows, Select(r)
  PROVE  ConsoleInv'
<1>1. PageInv /\ filter \in Filters /\ r.id \in Ids
  BY DEF ConsoleInv, PageInv, PageTypeOK, Rows
<1>2. /\ LinkPart /\ PageStep /\ question = NoQuestion
      /\ selected' = r.id /\ UNCHANGED <<shown, filter, label, question, asOf, confirmed>>
  BY <1>1, NothingSent DEF Select, PageStep
<1>3. SelectionIsMeant'
  BY <1>2, NoQuestionMeansNothing DEF SelectionIsMeant
<1>4. QED
  BY <1>1, <1>2, <1>3, LocalKeeps

(* A question is opened for the selected row, or a form for a new one.     *)
LEMMA OpenKeeps ==
  ASSUME ConsoleInv, OpenForm \/ \E route \in Writes : Open(route)
  PROVE  ConsoleInv'
<1>1. PageInv /\ filter \in Filters /\ selected \in Ids
  BY DEF ConsoleInv, PageInv, PageTypeOK
<1>2. /\ LinkPart /\ PageStep
      /\ UNCHANGED <<shown, filter, selected, label, asOf, confirmed>>
  BY <1>1, NothingSent DEF Open, OpenForm, PageStep
<1>3. question' \in [asks : Writes, id : Ids] /\ SelectionIsMeant'
  <2>1. CASE \E route \in Writes : Open(route)
    BY <1>1, <1>2, <2>1 DEF Open, SelectionIsMeant
  <2>2. CASE OpenForm
    <3>1. PICK asks \in {"charger.create", "station.create"}, id \in Ids :
            question' = [asks |-> asks, id |-> id]
      BY <2>2 DEF OpenForm, Ids
    <3>2. asks \in Writes \ Late
      BY DEF Writes, ChargerWrites, StationWrites, Late
    <3>3. QED
      BY <3>1, <3>2 DEF SelectionIsMeant
  <2>3. QED
    BY <2>1, <2>2
<1>4. QED
  BY <1>1, <1>2, <1>3, LocalKeeps

(* A button that acts at once acts on the selected row.                    *)
LEMMA ClickKeeps ==
  ASSUME ConsoleInv, NEW route \in Writes, Click(route)
  PROVE  ConsoleInv'
<1>1. /\ PageInv /\ filter \in Filters /\ selected \in Ids
      /\ question \in {NoQuestion} \cup [asks : Writes, id : Ids]
  BY DEF ConsoleInv, PageInv, PageTypeOK
<1>2. LinkPart /\ (label' = label \/ label' # "normal")
  BY <1>1, ActKeepsLink DEF Click
<1>3. PageStep /\ UNCHANGED <<shown, filter, selected, question, asOf, confirmed>>
  BY DEF Click, PageStep
<1>4. SelectionIsMeant'
  BY <1>1, <1>3 DEF PageInv, SelectionIsMeant
<1>5. QED
  BY <1>1, <1>2, <1>3, <1>4, LocalKeeps

(* An accepted question acts on the row it was opened for, or, where the   *)
(* selection is read again and gone, on none.                              *)
LEMMA AcceptKeeps ==
  ASSUME ConsoleInv, Accept
  PROVE  ConsoleInv'
<1> DEFINE id == IF question.asks \in Late THEN selected ELSE question.id
<1>1. /\ PageInv /\ filter \in Filters /\ selected \in Ids
      /\ question \in [asks : Writes, id : Ids]
  BY DEF ConsoleInv, PageInv, PageTypeOK, Accept
<1>2. question.asks \in Writes /\ question.id \in Ids
  BY <1>1
<1>3. id \in Ids /\ id \in {None, question.id}
  BY <1>1, <1>2 DEF PageInv, SelectionIsMeant
<1>4. Act(question.asks, id, question.id)
  BY DEF Accept
<1> HIDE DEF id
<1>5. LinkPart /\ (label' = label \/ label' # "normal")
  BY <1>1, <1>2, <1>3, <1>4, ActKeepsLink
<1>6. PageStep /\ question' = NoQuestion /\ UNCHANGED <<shown, filter, selected, asOf, confirmed>>
  BY DEF Accept, PageStep
<1>7. SelectionIsMeant'
  BY <1>6, NoQuestionMeansNothing DEF SelectionIsMeant
<1>8. QED
  BY <1>1, <1>5, <1>6, <1>7, LocalKeeps

(* A question that is rejected.                                            *)
LEMMA RejectKeeps ==
  ASSUME ConsoleInv, Reject
  PROVE  ConsoleInv'
<1>1. PageInv /\ filter \in Filters /\ selected \in Ids
  BY DEF ConsoleInv, PageInv, PageTypeOK
<1>2. /\ LinkPart /\ PageStep /\ question' = NoQuestion
      /\ UNCHANGED <<shown, filter, selected, label, asOf, confirmed>>
  BY <1>1, NothingSent DEF Reject, PageStep
<1>3. SelectionIsMeant'
  BY <1>2, NoQuestionMeansNothing DEF SelectionIsMeant
<1>4. QED
  BY <1>1, <1>2, <1>3, LocalKeeps

-----------------------------------------------------------------------------
(* The answers.                                                            *)

\* a step that leaves what the page is about and its question as they are
Reacts == PageStep /\ UNCHANGED <<filter, question>>

(* The rows, the label and what was confirmed may change: the rest of the  *)
(* invariant, with what there is to say of them.                           *)
LEMMA ReactionKeeps ==
  ASSUME ConsoleInv, Reacts,
         LinkTypeOK(Arguments, Values)', LinkInv',
         shown' \in [rows : SUBSET Rows, filter : Filter],
         selected' \in {None, selected},
         asOf' \in Nat, confirmed' \in Nat, AnswersSawConfirmed', NormalIsCurrent'
  PROVE  ConsoleInv'
<1>1. CatalogueInv'
  BY RowsStay DEF ConsoleInv, Reacts, PageStep, Quiet
<1>2. PageTypeOK'
  BY DEF ConsoleInv, PageInv, PageTypeOK, Reacts, PageStep, Ids
<1>3. SelectionIsMeant'
  BY DEF ConsoleInv, PageInv, SelectionIsMeant, Reacts
<1>4. QED
  BY <1>1, <1>2, <1>3 DEF ConsoleInv, PageInv

(* The oldest answer is of no fewer operations than were confirmed, and no *)
(* later answer is of fewer than it.                                       *)
LEMMA FirstAnswer ==
  ASSUME PageInv, answers # <<>>
  PROVE  LET a == Head(answers)
         IN  /\ a \in Answer(Values)
             /\ Tail(answers) \in Seq(Answer(Values))
             /\ a.value \in Values
             /\ a.value.asOf \in confirmed..executed
             /\ Ordered(Tail(answers), a.value.asOf, executed)
             /\ Ordered(Tail(answers), confirmed, executed)
<1> DEFINE a == Head(answers)
<1>1. /\ answers \in Seq(Answer(Values)) /\ confirmed \in Nat /\ executed \in Nat
      /\ Ordered(answers, confirmed, executed)
  BY DEF PageInv, PageTypeOK, LinkTypeOK, AnswersSawConfirmed
<1>2. a \in Answer(Values) /\ Tail(answers) \in Seq(Answer(Values))
  BY <1>1, HeadTailProperties
<1>3. a.value.asOf \in confirmed..executed /\ Ordered(Tail(answers), a.value.asOf, executed)
  BY <1>1, TailOrdered
<1>4. Ordered(Tail(answers), confirmed, executed)
  BY <1>1, <1>3, LowerOrdered
<1>5. QED
  BY <1>2, <1>3, <1>4 DEF Answer

(* An answer that leaves what was confirmed: a refusal, a list, or one     *)
(* that nobody waits for.                                                  *)
LEMMA ArrivesKeepsLink ==
  ASSUME PageInv, Arrives, UNCHANGED <<executed, confirmed>>
  PROVE  LinkTypeOK(Arguments, Values)' /\ LinkInv' /\ AnswersSawConfirmed'
<1>1. LinkTypeOK(Arguments, Values)' /\ LinkInv'
  BY ArrivesKeeps DEF PageInv
<1>2. answers' = Tail(answers) /\ Ordered(Tail(answers), confirmed, executed)
  BY FirstAnswer DEF Arrives
<1>3. QED
  BY <1>1, <1>2 DEF PageInv, AnswersSawConfirmed

(* The report of an operation: it was the last the server had executed     *)
(* for what arrived so far, and all that is still to come saw it.          *)
LEMMA ConfirmedKeeps ==
  ASSUME ConsoleInv, Reacts, answers # <<>>,
         confirmed' = Head(answers).value.asOf, AsksAgain, UNCHANGED <<shown, selected, asOf>>
  PROVE  ConsoleInv'
<1> DEFINE v == Head(answers).value
           arg == [id |-> None, meant |-> None, filter |-> filter]
<1>1. /\ PageInv /\ filter \in Filters /\ ListOf(page) \in Routes /\ confirmed \in Nat
      /\ shown \in [rows : SUBSET Rows, filter : Filter] /\ asOf \in Nat /\ executed \in Nat
  BY PagesAssumption
  DEF ConsoleInv, PageInv, PageTypeOK, Pages, ListOf, AdminRoutes
<1>2. arg \in Arguments
  BY <1>1 DEF Arguments, Ids, Filter
<1>3. ArrivesThenSends(ListOf(page), arg) /\ label' # "normal"
  BY DEF AsksAgain
<1>4. /\ LinkTypeOK(Arguments, Values)' /\ LinkInv'
      /\ answers' = Tail(answers) \/ answers' = Orphaned(Tail(answers), ListOf(page))
  BY <1>1, <1>2, <1>3, ArrivesThenSendsKeeps DEF PageInv
<1>5. v.asOf \in confirmed..executed /\ Ordered(answers', v.asOf, executed)
  BY <1>1, <1>4, FirstAnswer, OrphanedOrdered
<1>6. confirmed' \in Nat /\ confirmed' <= executed /\ executed' = executed
  BY <1>1, <1>5 DEF Reacts, PageStep
<1>7. AnswersSawConfirmed'
  BY <1>5, <1>6 DEF AnswersSawConfirmed
<1>8. NormalIsCurrent'
  BY <1>3 DEF NormalIsCurrent
<1>9. QED
  BY <1>1, <1>4, <1>6, <1>7, <1>8, ReactionKeeps

(* An answer to the page, as it takes it.                                  *)
LEMMA ReceiveKeeps ==
  ASSUME ConsoleInv, Receive
  PROVE  ConsoleInv'
<1> DEFINE a == Head(answers)
<1>1. /\ PageInv /\ answers # <<>> /\ Reacts /\ UNCHANGED executed
      /\ shown \in [rows : SUBSET Rows, filter : Filter]
      /\ asOf \in Nat /\ confirmed \in Nat /\ executed \in Nat
  BY DEF ConsoleInv, PageInv, PageTypeOK, Receive, Reacts, PageStep
<1>2. a.value \in Values /\ a.value.asOf \in confirmed..executed
  BY <1>1, FirstAnswer
<1>3. \/ ~a.live /\ Arrives /\ UNCHANGED <<shown, selected, label, asOf, confirmed>>
      \/ /\ ~a.ok /\ Arrives /\ label' = "error"
         /\ UNCHANGED <<shown, selected, asOf, confirmed>>
      \/ a.ok /\ Show(a.value) /\ Arrives /\ UNCHANGED confirmed
      \/ confirmed' = a.value.asOf /\ AsksAgain /\ UNCHANGED <<shown, selected, asOf>>
  BY DEF Receive, Takes, Fails
<1>4. CASE Arrives /\ UNCHANGED <<shown, selected, asOf, confirmed>> /\ label' \in {label, "error"}
  <2>1. NormalIsCurrent'
    BY <1>1, <1>4 DEF PageInv, NormalIsCurrent
  <2>2. QED
    BY <1>1, <1>4, <2>1, ArrivesKeepsLink, ReactionKeeps
<1>5. CASE Show(a.value) /\ Arrives /\ UNCHANGED confirmed
  <2>1. /\ shown' = [rows |-> a.value.rows, filter |-> a.value.filter]
        /\ asOf' = a.value.asOf /\ selected' = None
    BY <1>5 DEF Show
  <2>2. shown' \in [rows : SUBSET Rows, filter : Filter] /\ asOf' \in Nat
    BY <1>2, <2>1 DEF Values
  <2>3. NormalIsCurrent'
    BY <1>1, <1>2, <1>5, <2>1 DEF NormalIsCurrent
  <2>4. QED
    BY <1>1, <1>5, <2>1, <2>2, <2>3, ArrivesKeepsLink, ReactionKeeps
<1>6. CASE confirmed' = a.value.asOf /\ AsksAgain /\ UNCHANGED <<shown, selected, asOf>>
  BY <1>1, <1>6, ConfirmedKeeps
<1>7. QED
  BY <1>3, <1>4, <1>5, <1>6

(* A request that times out, or all of them with the connection: what is   *)
(* still to arrive is of the same operations.                              *)
LEMMA LossKeeps ==
  ASSUME ConsoleInv,
         (\E r \in AdminRoutes : Expire(r)) \/ (\E n \in 0..Len(calls) : Disconnect(n))
  PROVE  ConsoleInv'
<1>1. /\ PageInv /\ Reacts /\ UNCHANGED <<shown, selected, asOf, confirmed, executed>>
      /\ label' = label \/ label' = "error"
  BY DEF ConsoleInv, Expire, Disconnect, Fails, Reacts, PageStep
<1>2. LinkTypeOK(Arguments, Values) /\ LinkInv
  BY <1>1 DEF PageInv
<1>3. LinkTypeOK(Arguments, Values)' /\ LinkInv'
  BY <1>2, GivesUpKeeps, BreaksKeeps DEF Expire, Disconnect
<1>4. \/ \E r : answers' = Orphaned(answers, r)
      \/ answers' = <<>>
  BY DEF Expire, Disconnect, GivesUp, Breaks
<1>5. AnswersSawConfirmed'
  <2>1. confirmed <= executed /\ answers \in Seq(Answer(Values)) /\ Ordered(answers, confirmed, executed)
    BY <1>1, <1>2 DEF PageInv, AnswersSawConfirmed, LinkTypeOK
  <2>2. Ordered(<<>>, confirmed, executed)
    BY DEF Ordered
  <2>3. Ordered(answers', confirmed, executed)
    BY <1>4, <2>1, <2>2, OrphanedOrdered
  <2>4. QED
    BY <1>1, <2>1, <2>3 DEF AnswersSawConfirmed
<1>6. NormalIsCurrent'
  BY <1>1 DEF PageInv, NormalIsCurrent
<1>7. QED
  BY <1>1, <1>3, <1>5, <1>6, ReactionKeeps DEF ConsoleInv, PageInv, PageTypeOK

(* What happens without the page: other administrators, customers.         *)
LEMMA ElsewhereKeeps ==
  ASSUME ConsoleInv, UNCHANGED <<link, screen, page, executed>>, CatalogueInv'
  PROVE  ConsoleInv'
<1>1. /\ LinkTypeOK(Arguments, Values)' /\ LinkInv'
      /\ UNCHANGED <<waiting, connected, calls, answers>>
  BY LinkStays DEF ConsoleInv, PageInv
<1>2. PageTypeOK' /\ SelectionIsMeant' /\ AnswersSawConfirmed' /\ NormalIsCurrent'
  BY <1>1 DEF screen, ConsoleInv, PageInv, PageTypeOK, SelectionIsMeant, AnswersSawConfirmed,
              NormalIsCurrent
<1>3. QED
  BY <1>1, <1>2 DEF ConsoleInv, PageInv

-----------------------------------------------------------------------------
(* The invariant, and what follows.                                        *)

(* An empty page over any catalogue.                                       *)
LEMMA ConsoleInit == Init => ConsoleInv
<1> SUFFICES ASSUME Init PROVE ConsoleInv
  OBVIOUS
<1>1. CatalogueInv
  <2>1. CatalogueTypeOK
    BY DEF Init, InitCatalogue, CatalogueTypeOK, ChargerStatus
  <2>2. ChargersHaveStations
    BY DEF Init, InitCatalogue, ChargersHaveStations, Exists, ChargerStatus
  <2>3. QED
    BY <2>1, <2>2 DEF CatalogueInv
<1>2. LinkTypeOK(Arguments, Values) /\ LinkInv
  BY LinkInit DEF Init
<1>3. PageTypeOK
  BY DEF Init, PageTypeOK, Filters, Filter, Ids
<1>4. SelectionIsMeant
  BY NoQuestionMeansNothing DEF Init, SelectionIsMeant
<1>5. AnswersSawConfirmed /\ NormalIsCurrent
  BY DEF Init, AnswersSawConfirmed, Ordered, NormalIsCurrent
<1>6. QED
  BY <1>1, <1>2, <1>3, <1>4, <1>5 DEF ConsoleInv, PageInv

(* Every step of the page, the server and the others keeps the invariant.  *)
LEMMA ConsoleNext == ConsoleInv /\ [Next]_vars => ConsoleInv'
<1> SUFFICES ASSUME ConsoleInv, [Next]_vars PROVE ConsoleInv'
  OBVIOUS
<1>1. CASE ServeNext
  BY <1>1, ServeKeeps DEF ServeNext
<1>2. CASE Receive
  BY <1>2, ReceiveKeeps
<1>3. CASE Refresh \/ \E f \in Filters : Type(f)
  BY <1>3, RefreshKeeps
<1>4. CASE OpenForm \/ \E route \in Writes : Open(route)
  BY <1>4, OpenKeeps
<1>5. CASE Accept \/ Reject
  BY <1>5, AcceptKeeps, RejectKeeps
<1>6. CASE \/ \E r \in shown.rows : Select(r)
           \/ \E route \in Writes : Click(route)
  BY <1>6, SelectKeeps, ClickKeeps
<1>7. CASE (\E r \in AdminRoutes : Expire(r)) \/ (\E n \in 0..Len(calls) : Disconnect(n))
  BY <1>7, LossKeeps
<1>8. CASE OtherAdmin
  <2>1. CatalogueInv'
    BY <1>8, ExecutedKeeps DEF OtherAdmin, ConsoleInv
  <2>2. QED
    BY <1>8, <2>1, ElsewhereKeeps DEF OtherAdmin
<1>9. CASE Customer /\ UNCHANGED <<link, pageVars>>
  <2>1. CatalogueInv'
    BY <1>9, CustomerKeeps DEF ConsoleInv
  <2>2. QED
    BY <1>9, <2>1, ElsewhereKeeps DEF pageVars
<1>10. CASE UNCHANGED vars
  <2>1. CatalogueInv'
    BY <1>10, RowsStay DEF vars, catalogue, ConsoleInv
  <2>2. QED
    BY <1>10, <2>1, ElsewhereKeeps DEF vars, pageVars
<1>11. QED
  BY <1>1, <1>2, <1>3, <1>4, <1>5, <1>6, <1>7, <1>8, <1>9, <1>10 DEF Next

(* The inductive invariant holds of every behaviour of a page, whatever    *)
(* customers and other administrators do.                                  *)
THEOREM ConsoleInvariantHolds == Spec => []ConsoleInv
  BY ConsoleInit, ConsoleNext, PTL DEF Spec

(* No charger is ever left at a station that was deleted, whichever stale  *)
(* rows administrators acted on.                                           *)
THEOREM NoChargerIsStranded == Spec => []ChargersHaveStations
<1>1. ConsoleInv => ChargersHaveStations
  BY DEF ConsoleInv, CatalogueInv
<1>2. QED
  BY <1>1, ConsoleInvariantHolds, PTL

(* No operation is asked for another row than the administrator meant,     *)
(* although lists replace the rows under an open question.                 *)
THEOREM OperationsAreMeant == Spec => []ActsOnWhatWasMeant
<1>1. ConsoleInv => ActsOnWhatWasMeant
  <2> SUFFICES ASSUME ConsoleInv, NEW i \in DOMAIN calls
               PROVE  calls[i].arg.id \in {None, calls[i].arg.meant}
    BY DEF ActsOnWhatWasMeant
  <2>1. calls[i] \in Call(Arguments)
    BY DEF ConsoleInv, PageInv, LinkTypeOK
  <2>2. QED
    BY <2>1 DEF Call, Arguments
<1>2. QED
  BY <1>1, ConsoleInvariantHolds, PTL

(* Rows that are said to be up to date have seen every operation whose     *)
(* success was reported, since a connection answers in turn.               *)
THEOREM ShownIsConfirmed == Spec => []ConfirmedChangesAreShown
<1>1. ConsoleInv => ConfirmedChangesAreShown
  BY DEF ConsoleInv, PageInv, NormalIsCurrent, ConfirmedChangesAreShown
<1>2. QED
  BY <1>1, ConsoleInvariantHolds, PTL

(* No administrator's operation, logged as done or as failed, takes a      *)
(* charger from its customer.                                              *)
THEOREM CustomersKeepChargers == Spec => CustomersKeepTheirCharger
<1>1. ASSUME ConsoleInv, [Next]_vars, audit' # Unlogged
      PROVE  KeepsUsed \/ UNCHANGED catalogue
  <2>1. CASE ServeNext
    BY <1>1, <2>1, ServeKeeps DEF ServeNext
  <2>2. CASE OtherAdmin
    BY <1>1, <2>2, ExecutedKeeps DEF OtherAdmin, ConsoleInv
  <2>3. CASE UNCHANGED vars
    BY <2>3 DEF vars
  <2>4. QED
    BY <1>1, <2>1, <2>2, <2>3
    DEF Next, Receive, Refresh, OpenForm, Accept, Reject, Type, Select, Click, Open, Expire,
        Disconnect, Quiet, Customer
<1>2. ConsoleInv /\ [Next]_vars =>
        [audit' # Unlogged =>
           \A c \in Chargers : chargers[c] = "Using" => chargers'[c] = "Using"]_catalogue
  BY <1>1 DEF KeepsUsed
<1>3. QED
  BY <1>2, ConsoleInvariantHolds, PTL DEF Spec, CustomersKeepTheirCharger

=============================================================================

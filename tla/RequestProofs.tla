---------------------------- MODULE RequestProofs ----------------------------
(***************************************************************************)
(* Proofs about the pairing of requests with answers, for every set of     *)
(* routes, every number of requests and sessions, every timeout.           *)
(***************************************************************************)
EXTENDS RequestTimer, TLAPS, SequenceTheorems, WellFoundedInduction

Row == [route : Routes, told : Nat, unheard : Nat]

\* The inductive invariant of the table.
TableInv ==
  /\ RequestTypeOK
  /\ OnePendingPerRoute
  /\ PendingIsCurrent
  /\ PendingOnlyOnline
  /\ ReportedOnce

-----------------------------------------------------------------------------
(* What the operations do to the history.                                  *)

(* The history is a table of rows.                                        *)
LEMMA HistoryType ==
  ASSUME RequestTypeOK
  PROVE  sent \in Seq(Row) /\ sent \in [1..Len(sent) -> Row] /\ DOMAIN sent = 1..Len(sent)
         /\ Len(sent) \in Nat
<1>1. sent \in Seq(Row)
  BY DEF RequestTypeOK, Row
<1>2. QED
  BY <1>1

(* Telling leaves the requests what they are and counts one signal each.   *)
LEMMA TellFacts ==
  ASSUME RequestTypeOK, NEW ids
  PROVE  /\ Tell(ids) \in Seq(Row)
         /\ DOMAIN Tell(ids) = DOMAIN sent
         /\ \A i \in DOMAIN sent :
              /\ Tell(ids)[i].route = sent[i].route
              /\ Tell(ids)[i].unheard = sent[i].unheard
              /\ i \in ids => Tell(ids)[i].told = sent[i].told + 1
              /\ i \notin ids => Tell(ids)[i] = sent[i]
<1>1. sent \in [1..Len(sent) -> Row] /\ DOMAIN sent = 1..Len(sent) /\ Len(sent) \in Nat
  BY HistoryType
<1>2. ASSUME NEW i \in DOMAIN sent
      PROVE  LET row == Entry(sent[i].route, sent[i].told + 1, sent[i].unheard)
             IN  row \in Row /\ row.route = sent[i].route /\ row.told = sent[i].told + 1
                 /\ row.unheard = sent[i].unheard
  BY <1>1 DEF Row, Entry
<1>3. Tell(ids) \in [1..Len(sent) -> Row]
  BY <1>1, <1>2 DEF Tell
<1>4. Tell(ids) \in Seq(Row)
  BY <1>1, <1>3, SeqDef
<1>5. QED
  BY <1>1, <1>2, <1>4 DEF Tell

(* A success without a signal is noted and changes nothing else.           *)
LEMMA UnheardFacts ==
  ASSUME RequestTypeOK, NEW i \in DOMAIN sent, NEW h,
         h = [sent EXCEPT ![i] = Entry(@.route, @.told, @.unheard + 1)]
  PROVE  /\ h \in Seq(Row)
         /\ DOMAIN h = DOMAIN sent
         /\ \A j \in DOMAIN sent : h[j].route = sent[j].route /\ h[j].told = sent[j].told
         /\ h[i].unheard = sent[i].unheard + 1
         /\ \A j \in DOMAIN sent : j # i => h[j] = sent[j]
<1>1. sent \in [1..Len(sent) -> Row] /\ DOMAIN sent = 1..Len(sent) /\ Len(sent) \in Nat
  BY HistoryType
<1> DEFINE row == Entry(sent[i].route, sent[i].told, sent[i].unheard + 1)
<1>2. row \in Row /\ row.route = sent[i].route /\ row.told = sent[i].told
      /\ row.unheard = sent[i].unheard + 1
  BY <1>1 DEF Row, Entry
<1>3. h = [sent EXCEPT ![i] = row]
  OBVIOUS
<1> HIDE DEF row
<1>4. h \in [1..Len(sent) -> Row]
  BY <1>1, <1>2, <1>3
<1>5. h \in Seq(Row)
  BY <1>1, <1>4, SeqDef
<1>6. QED
  BY <1>1, <1>2, <1>3, <1>5

(* A request sent is the last of the history, under an id of its own.      *)
LEMMA AppendFacts ==
  ASSUME RequestTypeOK, NEW row \in Row
  PROVE  /\ Append(sent, row) \in Seq(Row)
         /\ DOMAIN Append(sent, row) = DOMAIN sent \cup {NewId}
         /\ NewId \notin DOMAIN sent
         /\ \A i \in DOMAIN sent : i \in Nat /\ i < NewId /\ Append(sent, row)[i] = sent[i]
         /\ Append(sent, row)[NewId] = row
<1>1. sent \in Seq(Row) /\ Len(sent) \in Nat /\ DOMAIN sent = 1..Len(sent)
  BY HistoryType
<1>2. QED
  BY <1>1, AppendProperties DEF NewId

-----------------------------------------------------------------------------
(* The invariant holds at first and is kept by every operation.            *)

(* The empty table satisfies the invariant.                                *)
LEMMA TableInit == InitRequests => TableInv
<1> SUFFICES ASSUME InitRequests PROVE TableInv
  OBVIOUS
<1>1. DOMAIN pending = {} /\ DOMAIN sent = {} /\ sent \in Seq(Row)
  BY DEF InitRequests
<1>2. RequestTypeOK
  BY <1>1 DEF RequestTypeOK, InitRequests, SocketState, Waiting, Row
<1>3. QED
  BY <1>1, <1>2 DEF TableInv, OnePendingPerRoute, PendingIsCurrent, PendingOnlyOnline,
     ReportedOnce, Waiting

(* What is no longer pending disturbs nothing of the table, if the history *)
(* of requests is kept.                                                    *)
LEMMA ShrinkingPreserves ==
  ASSUME TableInv, NEW ids \in SUBSET Waiting,
         pending' = PendingOnly(Waiting \ ids),
         sent' \in Seq(Row), DOMAIN sent' = DOMAIN sent,
         \A i \in DOMAIN sent : sent'[i].route = sent[i].route,
         socket' \in SocketState, generation' \in Nat,
         Waiting # ids => socket' = socket /\ generation' = generation,
         ReportedOnce'
  PROVE  TableInv'
<1>1. RequestTypeOK
  BY DEF TableInv
<1>2. Waiting' = Waiting \ ids /\ \A i \in Waiting' : pending'[i] = pending[i]
  BY DEF Waiting, PendingOnly
<1>3. RequestTypeOK'
  <2>1. pending' \in [Waiting' -> Context]
    BY <1>1, <1>2 DEF RequestTypeOK, PendingOnly
  <2>2. \A i \in Waiting' : pending'[i].route = sent'[i].route
    BY <1>1, <1>2 DEF RequestTypeOK
  <2>3. QED
    BY <1>1, <1>2, <2>1, <2>2 DEF RequestTypeOK, Row
<1>4. OnePendingPerRoute'
  <2>1. ASSUME NEW i \in Waiting', NEW j \in Waiting', pending'[i].route = pending'[j].route
        PROVE  i = j
    BY <1>2, <2>1 DEF TableInv, OnePendingPerRoute
  <2>2. QED
    BY <2>1 DEF OnePendingPerRoute
<1>5. PendingIsCurrent'
  BY <1>2 DEF TableInv, PendingIsCurrent
<1>6. PendingOnlyOnline'
  BY <1>2 DEF TableInv, PendingOnlyOnline
<1>7. QED
  BY <1>3, <1>4, <1>5, <1>6 DEF TableInv

(* The requests of ids end together, each with one signal, in the session  *)
(* that sent them or with it.                                              *)
LEMMA EndPreserves ==
  ASSUME TableInv, NEW ids \in SUBSET Waiting,
         pending' = PendingOnly(Waiting \ ids), sent' = Tell(ids),
         socket' \in SocketState, generation' \in Nat,
         Waiting # ids => socket' = socket /\ generation' = generation
  PROVE  TableInv'
<1>1. RequestTypeOK /\ ReportedOnce /\ Waiting \subseteq DOMAIN sent
  BY DEF TableInv, RequestTypeOK
<1>2. Waiting' = Waiting \ ids
  BY DEF Waiting, PendingOnly
<1>3. /\ sent' \in Seq(Row) /\ DOMAIN sent' = DOMAIN sent
      /\ \A i \in DOMAIN sent : /\ sent'[i].route = sent[i].route
                                /\ sent'[i].unheard = sent[i].unheard
                                /\ i \in ids => sent'[i].told = sent[i].told + 1
                                /\ i \notin ids => sent'[i] = sent[i]
  BY <1>1, TellFacts
<1>4. ReportedOnce'
  <2>1. \A i \in DOMAIN sent : sent[i].told \in Nat /\ sent[i].unheard \in Nat
    BY <1>1, HistoryType DEF Row
  <2>2. \A i \in ids : sent'[i].told = 1 /\ sent'[i].unheard = 0
    BY <1>1, <1>3, <2>1 DEF ReportedOnce
  <2>3. ASSUME NEW i \in DOMAIN sent'
        PROVE  /\ sent'[i].told + sent'[i].unheard <= 1
               /\ i \in Waiting' => sent'[i].told + sent'[i].unheard = 0
               /\ sent'[i].unheard > 0 => sent'[i].route \notin Announced
               /\ i \notin Waiting' /\ sent'[i].told + sent'[i].unheard = 0 =>
                    /\ sent'[i].route \notin Transactional
                    /\ \E j \in DOMAIN sent' : j > i /\ sent'[j].route = sent'[i].route
    <3>1. CASE i \in ids
      BY <1>2, <2>2, <3>1
    <3>2. CASE i \notin ids
      BY <1>1, <1>2, <1>3, <2>3, <3>2 DEF ReportedOnce
    <3>3. QED
      BY <3>1, <3>2
  <2>4. QED
    BY <2>3 DEF ReportedOnce
<1>5. QED
  BY <1>3, <1>4, ShrinkingPreserves

(* A request whose success has no signal ends as such.                     *)
LEMMA UnheardPreserves ==
  ASSUME TableInv, NEW i \in Waiting, AnswerUnheard(i)
  PROVE  TableInv'
<1>1. /\ RequestTypeOK /\ ReportedOnce /\ i \in DOMAIN sent
      /\ sent[i].route \notin Announced
      /\ sent' = [sent EXCEPT ![i] = Entry(@.route, @.told, @.unheard + 1)]
      /\ pending' = PendingOnly(Waiting \ {i}) /\ UNCHANGED <<socket, generation>>
  BY DEF TableInv, RequestTypeOK, PendingIsCurrent, AnswerUnheard, Completes
<1>2. Waiting' = Waiting \ {i}
  BY <1>1 DEF Waiting, PendingOnly
<1>3. /\ sent' \in Seq(Row) /\ DOMAIN sent' = DOMAIN sent
      /\ \A j \in DOMAIN sent : sent'[j].route = sent[j].route /\ sent'[j].told = sent[j].told
      /\ sent'[i].unheard = sent[i].unheard + 1
      /\ \A j \in DOMAIN sent : j # i => sent'[j] = sent[j]
  BY <1>1, UnheardFacts, Zenon
<1>4. sent[i].told = 0 /\ sent[i].unheard = 0
  <2>1. sent[i].told \in Nat /\ sent[i].unheard \in Nat
    BY <1>1, HistoryType DEF Row
  <2>2. QED
    BY <1>1, <2>1 DEF ReportedOnce
<1>5. ReportedOnce'
  BY <1>1, <1>2, <1>3, <1>4 DEF ReportedOnce
<1>6. socket' = socket /\ generation' = generation /\ socket \in SocketState /\ generation \in Nat
  BY <1>1 DEF RequestTypeOK
<1>7. {i} \in SUBSET Waiting /\ \A j \in DOMAIN sent : sent'[j].route = sent[j].route
  BY <1>3
<1>8. QED
  BY <1>1, <1>3, <1>5, <1>6, <1>7, ShrinkingPreserves

(* What stays pending when r is sent waits for something else.             *)
LEMMA KeptFacts ==
  ASSUME TableInv, NEW r \in Routes, Admits(r)
  PROVE  /\ Kept(r) \subseteq Waiting
         /\ \A i \in Kept(r) : pending[i].route # r
         /\ \A i \in Waiting \ Kept(r) : r \notin Transactional /\ pending[i].route = r
BY DEF Kept, Admits, HasPendingRoute

(* The history after a request for r, of which told signals were given.    *)
LEMMA HistoryGrows ==
  ASSUME TableInv, NEW r \in Routes, NEW told \in {0, 1}, Admits(r),
         sent' = Append(sent, Entry(r, told, 0)),
         Waiting' = Kept(r) \cup (IF told = 0 THEN {NewId} ELSE {})
  PROVE  /\ sent' \in Seq(Row)
         /\ Waiting' \subseteq DOMAIN sent'
         /\ \A i \in Kept(r) : i # NewId /\ sent'[i] = sent[i]
         /\ sent'[NewId].route = r
         /\ ReportedOnce'
<1> DEFINE row == Entry(r, told, 0)
<1>1. RequestTypeOK /\ ReportedOnce /\ Waiting \subseteq DOMAIN sent
  BY DEF TableInv, RequestTypeOK
<1>2. row \in Row /\ row.route = r /\ row.told = told /\ row.unheard = 0
  BY DEF Row, Entry
<1> HIDE DEF row
<1>3. /\ sent' \in Seq(Row)
      /\ DOMAIN sent' = DOMAIN sent \cup {NewId}
      /\ NewId \notin DOMAIN sent
      /\ \A i \in DOMAIN sent : i \in Nat /\ i < NewId /\ sent'[i] = sent[i]
      /\ sent'[NewId].route = r /\ sent'[NewId].told = told /\ sent'[NewId].unheard = 0
  BY <1>1, <1>2, AppendFacts DEF row
<1>4. /\ Kept(r) \subseteq Waiting
      /\ \A i \in Waiting \ Kept(r) : r \notin Transactional /\ sent[i].route = r
  BY <1>1, KeptFacts DEF RequestTypeOK
<1>5. NewId \in Int
  BY <1>1, HistoryType DEF NewId
<1>6. ASSUME NEW i \in DOMAIN sent'
      PROVE  /\ sent'[i].told + sent'[i].unheard <= 1
             /\ i \in Waiting' => sent'[i].told + sent'[i].unheard = 0
             /\ sent'[i].unheard > 0 => sent'[i].route \notin Announced
             /\ i \notin Waiting' /\ sent'[i].told + sent'[i].unheard = 0 =>
                  /\ sent'[i].route \notin Transactional
                  /\ \E j \in DOMAIN sent' : j > i /\ sent'[j].route = sent'[i].route
  <2>1. CASE i = NewId
    BY <1>3, <1>4, <2>1, <1>1
  <2>2. CASE i \in DOMAIN sent
    <3>1. sent'[i] = sent[i] /\ i # NewId /\ (i \in Waiting' => i \in Waiting)
      BY <1>3, <1>4, <2>2
    <3>2. CASE i \in Waiting \ Kept(r)
      BY <1>1, <1>3, <1>4, <3>1, <3>2, <2>2 DEF ReportedOnce
    <3>3. CASE i \in Kept(r)
      BY <1>1, <1>3, <1>4, <3>1, <3>3, <2>2 DEF ReportedOnce
    <3>4. CASE i \notin Waiting
      BY <1>1, <1>3, <1>4, <3>1, <3>4, <2>2 DEF ReportedOnce
    <3>5. QED
      BY <3>2, <3>3, <3>4
  <2>3. QED
    BY <1>3, <2>1, <2>2
<1>7. ReportedOnce'
  BY <1>6 DEF ReportedOnce
<1>8. QED
  BY <1>1, <1>3, <1>4, <1>7

(* A request that is sent keeps the invariant, ...                         *)
LEMMA SendPreserves ==
  ASSUME TableInv, NEW r \in Routes, Send(r)
  PROVE  TableInv'
<1>1. RequestTypeOK /\ Admits(r)
  BY DEF TableInv, Send
<1>2. generation \in Nat /\ pending \in [Waiting -> Context]
      /\ \A i \in Waiting : pending[i].route = sent[i].route
  BY <1>1 DEF RequestTypeOK
<1>3. /\ Waiting' = Kept(r) \cup {NewId}
      /\ pending'[NewId] = [route |-> r, generation |-> generation]
      /\ \A i \in Kept(r) : i # NewId => pending'[i] = pending[i]
  BY DEF Send, Waiting
<1>4. /\ sent' \in Seq(Row) /\ Waiting' \subseteq DOMAIN sent'
      /\ \A i \in Kept(r) : i # NewId /\ sent'[i] = sent[i]
      /\ sent'[NewId].route = r
      /\ ReportedOnce'
  BY <1>1, <1>3, HistoryGrows DEF Send
<1>5. /\ Kept(r) \subseteq Waiting
      /\ \A i \in Kept(r) : pending[i].route # r
  BY <1>1, KeptFacts
<1>6. RequestTypeOK'
  <2>1. [route |-> r, generation |-> generation] \in Context
    BY <1>2 DEF Context
  <2>2. pending' \in [Waiting' -> Context]
    BY <1>2, <1>3, <1>5, <2>1 DEF Send
  <2>3. \A i \in Waiting' : pending'[i].route = sent'[i].route
    BY <1>2, <1>3, <1>4, <1>5
  <2>4. QED
    BY <1>1, <1>4, <2>2, <2>3 DEF RequestTypeOK, Row, Send
<1>7. OnePendingPerRoute'
  <2>1. ASSUME NEW i \in Waiting', NEW j \in Waiting', pending'[i].route = pending'[j].route
        PROVE  i = j
    BY <1>3, <1>4, <1>5, <2>1 DEF TableInv, OnePendingPerRoute
  <2>2. QED
    BY <2>1 DEF OnePendingPerRoute
<1>8. PendingIsCurrent'
  BY <1>3, <1>4, <1>5 DEF TableInv, PendingIsCurrent, Send
<1>9. PendingOnlyOnline'
  BY DEF PendingOnlyOnline, Send
<1>10. QED
  BY <1>4, <1>6, <1>7, <1>8, <1>9 DEF TableInv

(* ... and so does one that cannot be sent.                                *)
LEMMA SendFailsPreserves ==
  ASSUME TableInv, NEW r \in Routes, SendFails(r)
  PROVE  TableInv'
<1>1. RequestTypeOK /\ Admits(r)
  BY DEF TableInv, SendFails
<1>2. Waiting' = Kept(r) /\ \A i \in Kept(r) : pending'[i] = pending[i]
  BY DEF SendFails, Waiting, PendingOnly
<1>3. /\ sent' \in Seq(Row) /\ Waiting' \subseteq DOMAIN sent'
      /\ \A i \in Kept(r) : sent'[i] = sent[i]
      /\ ReportedOnce'
  <2>1. Waiting' = Kept(r) \cup (IF 1 = 0 THEN {NewId} ELSE {})
    BY <1>2
  <2>2. sent' = Append(sent, Entry(r, 1, 0))
    BY DEF SendFails
  <2>3. QED
    BY <1>1, <2>1, <2>2, HistoryGrows
<1>4. Kept(r) \subseteq Waiting
  BY <1>1, KeptFacts
<1>5. RequestTypeOK'
  <2>1. pending' \in [Waiting' -> Context]
    BY <1>1, <1>2, <1>4 DEF RequestTypeOK, SendFails, PendingOnly
  <2>2. \A i \in Waiting' : pending'[i].route = sent'[i].route
    BY <1>1, <1>2, <1>3, <1>4 DEF RequestTypeOK
  <2>3. QED
    BY <1>1, <1>3, <2>1, <2>2 DEF RequestTypeOK, Row, SendFails
<1>6. OnePendingPerRoute'
  <2>1. ASSUME NEW i \in Waiting', NEW j \in Waiting', pending'[i].route = pending'[j].route
        PROVE  i = j
    BY <1>2, <1>4, <2>1 DEF TableInv, OnePendingPerRoute
  <2>2. QED
    BY <2>1 DEF OnePendingPerRoute
<1>7. PendingIsCurrent'
  BY <1>2, <1>4 DEF TableInv, PendingIsCurrent, SendFails
<1>8. PendingOnlyOnline'
  BY <1>2, <1>4 DEF TableInv, PendingOnlyOnline, SendFails
<1>9. QED
  BY <1>3, <1>5, <1>6, <1>7, <1>8 DEF TableInv

-----------------------------------------------------------------------------
(* The session ends: nothing waits any more.                               *)
LEMMA AdvancePreserves ==
  ASSUME TableInv, NEW ids \in SUBSET Waiting, AdvanceSession(ids), socket' \in SocketState
  PROVE  TableInv'
<1>1. Waiting \cup ids = Waiting
  OBVIOUS
<1>2. pending' = PendingOnly(Waiting \ Waiting) /\ sent' = Tell(Waiting)
  BY <1>1 DEF AdvanceSession
<1>3. generation' \in Nat
  BY DEF AdvanceSession, TableInv, RequestTypeOK
<1>4. QED
  BY <1>2, <1>3, EndPreserves

(* Every operation keeps the invariant.                                    *)
LEMMA TableStep == TableInv /\ [NextRequests]_requestVars => TableInv'
<1> SUFFICES ASSUME TableInv, [NextRequests]_requestVars PROVE TableInv'
  OBVIOUS
<1>0. RequestTypeOK /\ socket \in SocketState /\ generation \in Nat
  BY DEF TableInv, RequestTypeOK
<1>1. ASSUME NEW r \in Routes, Send(r) PROVE TableInv'
  BY <1>1, SendPreserves
<1>2. ASSUME NEW r \in Routes, SendFails(r) PROVE TableInv'
  BY <1>2, SendFailsPreserves
<1>3. ASSUME NEW i \in Waiting, Answer(i) PROVE TableInv'
  <2>1. sent' = Tell({i})
    BY <1>3 DEF Answer, Completes, TableInv, PendingIsCurrent
  <2>2. QED
    BY <1>0, <1>3, <2>1, EndPreserves DEF Answer, Completes
<1>4. ASSUME NEW i \in Waiting, Expire(i) PROVE TableInv'
  BY <1>0, <1>4, EndPreserves DEF Expire
<1>5. ASSUME NEW i \in Waiting, AnswerEndsSession(i) PROVE TableInv'
  BY <1>0, <1>5, AdvancePreserves DEF AnswerEndsSession
<1>6. ASSUME ConnectToServer PROVE TableInv'
  <2>1. socket' \in SocketState
    BY <1>6 DEF ConnectToServer, SocketState
  <2>2. CASE socket \in {"Connected", "Closing"}
    BY <1>6, <2>1, <2>2, AdvancePreserves DEF ConnectToServer
  <2>3. CASE socket \notin {"Connected", "Closing"}
    <3>1. Waiting = {} /\ UNCHANGED <<generation, pending, sent>>
      BY <1>6, <2>3 DEF ConnectToServer, TableInv, PendingOnlyOnline
    <3>2. QED
      BY <2>1, <3>1 DEF TableInv, RequestTypeOK, OnePendingPerRoute, PendingIsCurrent,
         PendingOnlyOnline, ReportedOnce, Waiting
  <2>4. QED
    BY <2>2, <2>3
<1>7. ASSUME Connected \/ ConnectFails PROVE TableInv'
  <2>1. Waiting = {} /\ UNCHANGED <<generation, pending, sent>> /\ socket' \in SocketState
    BY <1>7 DEF Connected, ConnectFails, TableInv, PendingOnlyOnline, SocketState
  <2>2. QED
    BY <2>1 DEF TableInv, RequestTypeOK, OnePendingPerRoute, PendingIsCurrent,
       PendingOnlyOnline, ReportedOnce, Waiting
<1>8. ASSUME DisconnectFromServer PROVE TableInv'
  BY <1>8 DEF DisconnectFromServer, TableInv, RequestTypeOK, OnePendingPerRoute,
     PendingIsCurrent, PendingOnlyOnline, ReportedOnce, Waiting, SocketState
<1>9. ASSUME Disconnected PROVE TableInv'
  BY <1>9, AdvancePreserves DEF Disconnected, SocketState
<1>10. ASSUME UNCHANGED requestVars PROVE TableInv'
  BY <1>10 DEF requestVars, TableInv, RequestTypeOK, OnePendingPerRoute,
     PendingIsCurrent, PendingOnlyOnline, ReportedOnce, Waiting
<1>11. ASSUME NEW i \in Waiting, AnswerUnheard(i) PROVE TableInv'
  BY <1>11, UnheardPreserves
<1>12. QED
  BY <1>1, <1>2, <1>3, <1>4, <1>5, <1>6, <1>7, <1>8, <1>9, <1>10, <1>11
     DEF NextRequests, RequestStep, ConnectionStep

-----------------------------------------------------------------------------
(* The table.                                                              *)

(* The invariant of the table holds of every behaviour of                  *)
(* RequestLifecycleManager, whenever its timeouts come.                    *)
THEOREM TableInvariantHolds == RequestSpec => []TableInv
<1>1. TableInv /\ [NextRequests]_requestVars => TableInv'
  BY TableStep
<1>2. QED
  BY <1>1, TableInit, PTL DEF RequestSpec

(* A request is reported at most once, since complete, expireNow and       *)
(* cancelPending each take it out of the table before they report it; and  *)
(* it ends unreported only if a later one replaced it, or if it succeeded  *)
(* and handle() has no branch for its route.                               *)
THEOREM RequestsAreReportedOnce == RequestSpec => []ReportedOnce
<1>1. TableInv => ReportedOnce
  BY DEF TableInv
<1>2. QED
  BY <1>1, TableInvariantHolds, PTL

(* At most one request of a route waits at a time, by the policies of      *)
(* prepare.                                                                *)
THEOREM OneRequestPerRoute == RequestSpec => []OnePendingPerRoute
<1>1. TableInv => OnePendingPerRoute
  BY DEF TableInv
<1>2. QED
  BY <1>1, TableInvariantHolds, PTL

(* Whatever waits belongs to the current session, because advanceSession   *)
(* empties the table.                                                      *)
THEOREM PendingBelongsToSession == RequestSpec => []PendingIsCurrent
<1>1. TableInv => PendingIsCurrent
  BY DEF TableInv
<1>2. QED
  BY <1>1, TableInvariantHolds, PTL

(* Nothing waits once disconnected has been handled.                       *)
THEOREM NothingWaitsOffline == RequestSpec => []PendingOnlyOnline
<1>1. TableInv => PendingOnlyOnline
  BY DEF TableInv
<1>2. QED
  BY <1>1, TableInvariantHolds, PTL

(* After a change of the table, the routes that wait are those of the ids  *)
(* that were kept, with that of a new id.                                  *)
LEMMA EndedRoute ==
  ASSUME TableInv, NEW i \in Waiting, pending' = PendingOnly(Waiting \ {i})
  PROVE  WaitingRoutes' = WaitingRoutes \ {pending[i].route}
<1>1. Waiting' = Waiting \ {i} /\ \A j \in Waiting \ {i} : pending'[j] = pending[j]
  BY DEF PendingOnly, Waiting
<1>2. \A j \in Waiting \ {i} : pending[j].route # pending[i].route
  BY DEF TableInv, OnePendingPerRoute
<1>3. QED
  BY <1>1, <1>2 DEF WaitingRoutes

(* A table that holds nothing is a facade on which all has ended.          *)
LEMMA NothingWaits ==
  ASSUME pending' = PendingOnly({})
  PROVE  Facade!EndAll
BY DEF PendingOnly, WaitingRoutes, Waiting, Facade!EndAll

(* Every step of the table is a step of FacadeView, or leaves the routes   *)
(* that wait as they are: only one request of a route waits, so the end of *)
(* a request is the end of its route.                                      *)
LEMMA FacadeStep ==
  ASSUME TableInv, [NextRequests]_requestVars
  PROVE  [Facade!NextFacade]_WaitingRoutes
<1>1. ASSUME NEW r \in Routes, Send(r)
      PROVE  Facade!Asks(r)
  <2>1. Waiting' = Kept(r) \cup {NewId} /\ Kept(r) \subseteq Waiting /\ NewId \notin Kept(r)
    BY <1>1, KeptFacts, HistoryType DEF Send, Waiting, Kept, TableInv, RequestTypeOK, NewId
  <2>2. pending'[NewId].route = r /\ \A j \in Kept(r) : pending'[j] = pending[j]
    BY <1>1, <2>1 DEF Send
  <2>3. \A j \in Waiting \ Kept(r) : pending[j].route = r
    BY DEF Kept
  <2>4. WaitingRoutes' = WaitingRoutes \cup {r}
    BY <2>1, <2>2, <2>3 DEF WaitingRoutes
  <2>5. ~ Facade!Suppressed(r)
    BY <1>1 DEF Send, Admits, HasPendingRoute, Facade!Suppressed, WaitingRoutes
  <2>6. QED
    BY <2>4, <2>5 DEF Facade!Asks
<1>2. ASSUME NEW r \in Routes, SendFails(r)
      PROVE  Facade!Refuses(r)
  <2>1. Waiting' = Kept(r) /\ \A j \in Kept(r) : pending'[j] = pending[j]
    BY <1>2 DEF SendFails, PendingOnly, Waiting
  <2>2. \A j \in Waiting : pending[j].route = r => j \notin Kept(r)
    BY <1>2 DEF SendFails, Admits, HasPendingRoute, Kept
  <2>3. \A j \in Waiting : pending[j].route # r => j \in Kept(r)
    BY DEF Kept
  <2>4. Kept(r) \subseteq Waiting
    BY DEF Kept
  <2>5. WaitingRoutes' = WaitingRoutes \ {r}
    BY <2>1, <2>2, <2>3, <2>4 DEF WaitingRoutes
  <2>6. ~ Facade!Suppressed(r)
    BY <1>2 DEF SendFails, Admits, HasPendingRoute, Facade!Suppressed, WaitingRoutes
  <2>7. QED
    BY <2>5, <2>6 DEF Facade!Refuses
<1>3. ASSUME NEW i \in Waiting, Answer(i) \/ AnswerUnheard(i) \/ Expire(i)
      PROVE  \E r \in Routes : Facade!Ends(r)
  <2>1. pending[i].route \in Routes /\ pending[i].route \in WaitingRoutes
    BY DEF TableInv, RequestTypeOK, Context, WaitingRoutes
  <2>2. WaitingRoutes' = WaitingRoutes \ {pending[i].route}
    BY <1>3, EndedRoute DEF Answer, AnswerUnheard, Completes, Expire
  <2>3. QED
    BY <2>1, <2>2 DEF Facade!Ends
<1>4. ASSUME NEW i \in Waiting, AnswerEndsSession(i)
      PROVE  Facade!EndAll
  BY <1>4, NothingWaits DEF AnswerEndsSession, AdvanceSession
<1>5. ASSUME ConnectionStep
      PROVE  Facade!EndAll \/ UNCHANGED WaitingRoutes
  <2>1. pending' = PendingOnly({}) \/ pending' = pending
    BY <1>5 DEF ConnectionStep, ConnectToServer, Connected, ConnectFails, DisconnectFromServer,
                Disconnected, AdvanceSession
  <2>2. pending' = pending => UNCHANGED WaitingRoutes
    BY DEF WaitingRoutes, Waiting
  <2>3. QED
    BY <2>1, <2>2, NothingWaits
<1>6. ASSUME UNCHANGED requestVars
      PROVE  UNCHANGED WaitingRoutes
  BY <1>6 DEF requestVars, WaitingRoutes, Waiting
<1>7. QED
  BY <1>1, <1>2, <1>3, <1>4, <1>5, <1>6 DEF NextRequests, RequestStep, Facade!NextFacade

(* UserClientFacade, seen through its signals, is a set of routes that     *)
(* wait: the windows' models may use FacadeView in place of the table.     *)
THEOREM TableImplementsFacade == RequestSpec => ImplementsFacade
<1>1. InitRequests => Facade!InitFacade
  BY DEF InitRequests, Facade!InitFacade, WaitingRoutes, Waiting
<1>2. TableInv /\ [NextRequests]_requestVars => [Facade!NextFacade]_WaitingRoutes
  BY FacadeStep
<1>3. QED
  BY <1>1, <1>2, TableInvariantHolds, PTL DEF RequestSpec, ImplementsFacade, Facade!FacadeSpec

-----------------------------------------------------------------------------
(* The timer.                                                              *)

(* Every operation of the timer is an operation of the table or leaves the *)
(* table alone.                                                            *)
LEMMA StepRefines == [Next]_vars => [NextRequests]_requestVars
<1> SUFFICES ASSUME [Next]_vars PROVE [NextRequests]_requestVars
  OBVIOUS
<1> USE DEF NextRequests, RequestStep, ConnectionStep
<1>1. ASSUME NEW r \in Routes, TrackDeadline(r) \/ Refuse(r) PROVE NextRequests
  BY <1>1 DEF TrackDeadline, Refuse
<1>2. ASSUME NEW i \in Waiting, Complete(i) \/ EndSession(i) PROVE NextRequests
  BY <1>2 DEF Complete, EndSession
<1>3. ASSUME NEW i \in due, ExpireNow(i) PROVE [NextRequests]_requestVars
  BY <1>3 DEF ExpireNow
<1>4. ASSUME Disconnect \/ Reconnect \/ ConnectionChange PROVE NextRequests
  BY <1>4 DEF Disconnect, Reconnect, ConnectionChange
<1>5. ASSUME TimerFires \/ Tick \/ StepBack \/ UNCHANGED vars PROVE UNCHANGED requestVars
  BY <1>5 DEF TimerFires, Tick, StepBack, vars, requestVars
<1>6. QED
  BY <1>1, <1>2, <1>3, <1>4, <1>5 DEF Next

(* The shared timer implements the table in which any request may time out *)
(* at any time: what is proved of the table holds of the timed one.        *)
THEOREM TimerImplementsTable == Spec => ImplementsTable
<1>1. Init => InitRequests
  BY DEF Init
<1>2. QED
  BY <1>1, StepRefines, PTL DEF Spec, ImplementsTable, RequestSpec

(* A set of deadlines has an earliest one.                                 *)
LEMMA EarliestExists ==
  ASSUME NEW D, NEW d \in [D -> Nat], D # {}
  PROVE  Earliest(d) \in Nat /\ \A i \in D : Earliest(d) <= d[i]
<1> DEFINE T == {d[i] : i \in D}
<1>1. T \subseteq Nat /\ T # {}
  OBVIOUS
<1> HIDE DEF T
<1>2. PICK t \in T : \A u \in T : ~ (<<u, t>> \in OpToRel(<, Nat))
  BY <1>1, NatLessThanWellFounded, WFMin
<1>3. ASSUME NEW u \in T PROVE t <= u
  <2>1. t \in Nat /\ u \in Nat
    BY <1>1
  <2>2. ~ (u < t)
    BY <1>2, <2>1 DEF OpToRel
  <2>3. QED
    BY <2>1, <2>2
<1>4. Earliest(d) \in T /\ \A i \in D : Earliest(d) <= d[i]
  BY <1>3 DEF Earliest, T
<1>5. QED
  BY <1>1, <1>4 DEF T

(* Once armed, the timer does not sleep past any deadline.                 *)
LEMMA ArmedFacts ==
  ASSUME NEW D, NEW d \in [D -> Nat], wall \in Nat
  PROVE  /\ Armed(d) \in Nat \cup {Off}
         /\ \A i \in D : Armed(d) # Off /\ Armed(d) <= AtLeastOne(d[i] - wall)
<1>1. CASE D = {}
  BY <1>1 DEF Armed
<1>2. CASE D # {}
  <2>1. DOMAIN d # {}
    BY <1>2
  <2>2. Armed(d) = AtLeastOne(Earliest(d) - wall)
    BY <2>1 DEF Armed
  <2>3. Earliest(d) \in Nat /\ \A i \in D : Earliest(d) <= d[i]
    BY <1>2, EarliestExists
  <2>4. QED
    BY <2>2, <2>3 DEF AtLeastOne, Off
<1>3. QED
  BY <1>1, <1>2

\* The inductive invariant of the timed table.
TimedInv == TableInv /\ TimerTypeOK /\ DeadlinesAreWatched

(* A step that arms the timer for what waits establishes the invariant.    *)
LEMMA ArmedIsWatched ==
  ASSUME TimedInv, TableInv', wall' = wall, timer' = Armed(deadline'),
         deadline' \in [Waiting' -> Nat], due' \subseteq DOMAIN sent'
  PROVE  TimedInv'
<1>1. wall \in Nat
  BY DEF TimedInv, TimerTypeOK
<1>2. /\ timer' \in Nat \cup {Off}
      /\ \A i \in Waiting' : timer' # Off /\ timer' <= AtLeastOne(deadline'[i] - wall')
  BY <1>1, ArmedFacts
<1>3. QED
  BY <1>1, <1>2 DEF TimedInv, TableInv, TimerTypeOK, DeadlinesAreWatched

(* Requests that are cancelled leave nothing to watch.                     *)
LEMMA CancelIsWatched ==
  ASSUME TimedInv, TableInv', CancelPending, Idle, Waiting' = {}
  PROVE  TimedInv'
BY DEF TimedInv, TableInv, TimerTypeOK, DeadlinesAreWatched, CancelPending, Idle, Off

(* The history only grows.                                                 *)
LEMMA HistoryKept == TableInv /\ [NextRequests]_requestVars => DOMAIN sent \subseteq DOMAIN sent'
<1> SUFFICES ASSUME TableInv, [NextRequests]_requestVars PROVE DOMAIN sent \subseteq DOMAIN sent'
  OBVIOUS
<1>1. RequestTypeOK
  BY DEF TableInv
<1>2. ASSUME NEW r \in Routes, Send(r) \/ SendFails(r) PROVE DOMAIN sent \subseteq DOMAIN sent'
  <2>1. ASSUME NEW told \in {0, 1}, sent' = Append(sent, Entry(r, told, 0))
        PROVE  DOMAIN sent \subseteq DOMAIN sent'
    <3>1. Entry(r, told, 0) \in Row
      BY DEF Row, Entry
    <3>2. QED
      BY <1>1, <2>1, <3>1, AppendFacts
  <2>2. QED
    BY <1>2, <2>1 DEF Send, SendFails
<1>3. ASSUME NEW ids, sent' = Tell(ids) PROVE DOMAIN sent \subseteq DOMAIN sent'
  BY <1>1, <1>3, TellFacts
<1>4. ASSUME NEW i \in Waiting, AnswerUnheard(i) PROVE DOMAIN sent \subseteq DOMAIN sent'
  BY <1>1, <1>4 DEF AnswerUnheard, Completes
<1>5. QED
  BY <1>2, <1>3, <1>4 DEF NextRequests, RequestStep, ConnectionStep, Answer, Completes, Expire,
     AnswerEndsSession, ConnectToServer, Connected, ConnectFails, DisconnectFromServer,
     Disconnected, AdvanceSession, requestVars

(* The invariant of the timer holds at first, ...                          *)
LEMMA TimedInit == Init => TimedInv
<1> SUFFICES ASSUME Init PROVE TimedInv
  OBVIOUS
<1>1. TableInv /\ Waiting = {}
  BY TableInit DEF Init, InitRequests, Waiting
<1>2. QED
  BY <1>1 DEF Init, TimedInv, TableInv, TimerTypeOK, DeadlinesAreWatched, Off

(* ... and every step keeps it.                                            *)
LEMMA TimedStep == TimedInv /\ [Next]_vars => TimedInv'
<1> SUFFICES ASSUME TimedInv, [Next]_vars PROVE TimedInv'
  OBVIOUS
<1>1. TableInv /\ RequestTypeOK /\ wall \in Nat /\ timer \in Nat \cup {Off}
      /\ deadline \in [Waiting -> Nat] /\ due \subseteq DOMAIN sent
  BY DEF TimedInv, TimerTypeOK
<1>2. TableInv'
  BY <1>1, StepRefines, TableStep
<1>3. DOMAIN sent \subseteq DOMAIN sent'
  BY <1>1, StepRefines, HistoryKept
<1>4. ASSUME NEW r \in Routes, TrackDeadline(r) PROVE TimedInv'
  <2>1. Kept(r) \subseteq Waiting /\ Waiting' = Kept(r) \cup {NewId}
    BY <1>1, <1>4, KeptFacts DEF TrackDeadline, Send, Waiting
  <2>2. Timeout \in Nat
    BY TimerAssumption
  <2>3. deadline' \in [Waiting' -> Nat]
    BY <1>1, <1>4, <2>1, <2>2 DEF TrackDeadline
  <2>4. QED
    BY <1>1, <1>2, <1>3, <1>4, <2>3, ArmedIsWatched DEF TrackDeadline
<1>5. ASSUME NEW r \in Routes, Refuse(r) PROVE TimedInv'
  <2>1. Kept(r) \subseteq Waiting /\ Waiting' = Kept(r)
    BY <1>1, <1>5, KeptFacts DEF Refuse, SendFails, Waiting, PendingOnly
  <2>2. deadline' \in [Waiting' -> Nat] /\ \A i \in Waiting' : deadline'[i] = deadline[i]
    BY <1>1, <1>5, <2>1 DEF Refuse
  <2>3. CASE Kept(r) = Waiting
    <3>1. timer' = timer /\ wall' = wall /\ due' = due
      BY <1>5, <2>3 DEF Refuse
    <3>2. QED
      BY <1>1, <1>2, <1>3, <2>1, <2>2, <2>3, <3>1
         DEF TimedInv, TableInv, TimerTypeOK, DeadlinesAreWatched, Idle
  <2>4. CASE Kept(r) # Waiting
    BY <1>1, <1>2, <1>3, <1>5, <2>2, <2>4, ArmedIsWatched DEF Refuse
  <2>5. QED
    BY <2>3, <2>4
<1>6. ASSUME NEW i \in Waiting, Complete(i) PROVE TimedInv'
  <2>1. deadline' \in [Waiting' -> Nat]
    BY <1>1, <1>6 DEF Complete, Answer, AnswerUnheard, Completes, PendingOnly, Waiting
  <2>2. QED
    BY <1>1, <1>2, <1>3, <1>6, <2>1, ArmedIsWatched DEF Complete
<1>7. ASSUME NEW i \in Waiting, EndSession(i) PROVE TimedInv'
  <2>1. Waiting' = {}
    BY <1>7 DEF EndSession, AnswerEndsSession, AdvanceSession, PendingOnly, Waiting
  <2>2. QED
    BY <1>2, <1>7, <2>1, CancelIsWatched DEF EndSession
<1>8. ASSUME NEW i \in due, ExpireNow(i) PROVE TimedInv'
  <2>1. deadline' \in [Waiting' -> Nat]
    BY <1>1, <1>8 DEF ExpireNow, Expire, PendingOnly, Waiting, requestVars
  <2>2. due' \subseteq DOMAIN sent'
    BY <1>1, <1>3, <1>8 DEF ExpireNow
  <2>3. QED
    BY <1>2, <1>8, <2>1, <2>2, ArmedIsWatched DEF ExpireNow
<1>9. ASSUME Disconnect PROVE TimedInv'
  <2>1. Waiting' = {}
    BY <1>9 DEF Disconnect, Disconnected, AdvanceSession, PendingOnly, Waiting
  <2>2. QED
    BY <1>2, <1>9, <2>1, CancelIsWatched DEF Disconnect
<1>10. ASSUME Reconnect PROVE TimedInv'
  <2>1. CASE socket \in {"Connected", "Closing"}
    <3>1. Waiting' = {}
      BY <1>10, <2>1 DEF Reconnect, ConnectToServer, AdvanceSession, PendingOnly, Waiting
    <3>2. QED
      BY <1>2, <1>10, <2>1, <3>1, CancelIsWatched DEF Reconnect
  <2>2. CASE socket \notin {"Connected", "Closing"}
    BY <1>2, <1>10, <2>2 DEF Reconnect, ConnectToServer, TimedInv, TableInv, TimerTypeOK,
       DeadlinesAreWatched, Waiting, Idle
  <2>3. QED
    BY <2>1, <2>2
<1>11. ASSUME ConnectionChange PROVE TimedInv'
  BY <1>2, <1>11 DEF ConnectionChange, Connected, ConnectFails, DisconnectFromServer,
     TimedInv, TableInv, TimerTypeOK, DeadlinesAreWatched, Waiting, Idle
<1>12. ASSUME TimerFires PROVE TimedInv'
  <2>1. UNCHANGED <<wall, deadline, socket, generation, pending, sent>> /\ due' = DueNow
        /\ Waiting' = Waiting
    BY <1>12 DEF TimerFires, requestVars, Waiting
  <2>2. DueNow \subseteq DOMAIN sent
    BY <1>1 DEF DueNow, RequestTypeOK
  <2>3. CASE DueNow = {}
    BY <1>1, <1>2, <1>12, <2>1, <2>2, <2>3, ArmedIsWatched DEF TimerFires
  <2>4. CASE DueNow # {}
    BY <1>1, <1>2, <1>12, <2>1, <2>2, <2>4
       DEF TimerFires, TimedInv, TableInv, TimerTypeOK, DeadlinesAreWatched, Idle
  <2>5. QED
    BY <2>3, <2>4
<1>13. ASSUME Tick PROVE TimedInv'
  <2>1. UNCHANGED <<deadline, due, socket, generation, pending, sent>> /\ Waiting' = Waiting
    BY <1>13 DEF Tick, requestVars, Waiting
  <2>2. wall' \in {wall, wall + 1} /\ timer' = IF timer > 0 THEN timer - 1 ELSE timer
    BY <1>1, <1>13 DEF Tick
  <2>3. TimerTypeOK'
    BY <1>1, <1>2, <2>1, <2>2 DEF TimerTypeOK, TableInv, Off
  <2>4. ASSUME NEW j \in Waiting, Idle
        PROVE  timer' # Off /\ timer' <= AtLeastOne(deadline[j] - wall')
    <3>1. timer # Off /\ timer <= AtLeastOne(deadline[j] - wall)
      BY <2>4 DEF TimedInv, DeadlinesAreWatched
    <3>2. deadline[j] \in Nat
      BY <1>1
    <3>3. QED
      BY <1>1, <2>2, <3>1, <3>2 DEF AtLeastOne, Off
  <2>5. QED
    BY <1>2, <2>1, <2>3, <2>4 DEF TimedInv, DeadlinesAreWatched, Idle
<1>14. ASSUME StepBack PROVE TimedInv'
  <2>1. UNCHANGED <<timer, deadline, due, socket, generation, pending, sent>> /\ Waiting' = Waiting
        /\ wall' = wall - 1 /\ wall' \in Nat
    BY <1>1, <1>14 DEF StepBack, requestVars, Waiting
  <2>2. TimerTypeOK'
    BY <1>1, <1>2, <2>1 DEF TimerTypeOK, TableInv
  <2>3. ASSUME NEW j \in Waiting, Idle
        PROVE  timer # Off /\ timer <= AtLeastOne(deadline[j] - wall')
    <3>1. timer # Off /\ timer <= AtLeastOne(deadline[j] - wall) /\ deadline[j] \in Nat
      BY <1>1, <2>3 DEF TimedInv, DeadlinesAreWatched
    <3>2. QED
      BY <1>1, <2>1, <3>1 DEF AtLeastOne, Off
  <2>4. QED
    BY <1>2, <2>1, <2>2, <2>3 DEF TimedInv, DeadlinesAreWatched, Idle
<1>15. ASSUME UNCHANGED vars PROVE TimedInv'
  BY <1>1, <1>2, <1>15 DEF vars, TimedInv, TableInv, TimerTypeOK, DeadlinesAreWatched, Waiting, Idle
<1>16. QED
  BY <1>4, <1>5, <1>6, <1>7, <1>8, <1>9, <1>10, <1>11, <1>12, <1>13, <1>14, <1>15 DEF Next

(* While expireDue is not running, the timer runs whenever a request waits *)
(* and will not sleep past the earliest deadline: track, prepare, complete, *)
(* expireNow and expireDue re-arm it on every path that needs it, whatever *)
(* the wall clock does.                                                    *)
THEOREM NoDeadlineIsMissed == Spec => []DeadlinesAreWatched
<1>1. TimedInv /\ [Next]_vars => TimedInv'
  BY TimedStep
<1>2. TimedInv => DeadlinesAreWatched
  BY DEF TimedInv
<1>3. QED
  BY <1>1, <1>2, TimedInit, PTL DEF Spec

(* The timer's state keeps its types.                                      *)
THEOREM TimerTypesHold == Spec => []TimerTypeOK
<1>1. TimedInv /\ [Next]_vars => TimedInv'
  BY TimedStep
<1>2. TimedInv => TimerTypeOK
  BY DEF TimedInv
<1>3. QED
  BY <1>1, <1>2, TimedInit, PTL DEF Spec
=============================================================================

----------------------------- MODULE LinkProofs -----------------------------
(***************************************************************************)
(* What the operations of FacadeLink do to the messages that can still     *)
(* reach a window, for every set of routes and every bound.  The proofs    *)
(* about the windows rest on these lemmas and look at no queue themselves. *)
(***************************************************************************)
EXTENDS FacadeLink, TLAPS, SequenceTheorems

Call(A)   == [route : Routes, live : BOOLEAN, arg : A]
Answer(V) == [route : Routes, live : BOOLEAN, ok : BOOLEAN, value : V]

\* requests carry an element of A, answers one of V
LinkTypeOK(A, V) ==
  /\ waiting \in SUBSET Routes
  /\ connected \in BOOLEAN
  /\ calls \in Seq(Call(A))
  /\ answers \in Seq(Answer(V))

\* the messages of q the facade still waits for, and their routes
Live(q) == {q[i] : i \in {j \in DOMAIN q : q[j].live}}
LiveRoutes(q) == {m.route : m \in Live(q)}
LiveBut(q, r) == {m \in Live(q) : m.route # r}

Distinct(q) ==
  \A i, j \in DOMAIN q : q[i].live /\ q[j].live /\ q[i].route = q[j].route => i = j

\* Of each route at most one message is live, and the facade waits for it.
LinkInv ==
  /\ Distinct(calls) /\ Distinct(answers)
  /\ LiveRoutes(calls) \cap LiveRoutes(answers) = {}
  /\ LiveRoutes(calls) \cup LiveRoutes(answers) \subseteq waiting

-----------------------------------------------------------------------------
(* The operators on queues, for messages M that have a route and are live  *)
(* or not.                                                                 *)

\* messages that stay messages when nobody waits for them any more
Messages(M) ==
  \A m \in M : /\ m.live \in BOOLEAN
               /\ [m EXCEPT !.live = FALSE] \in M
               /\ [m EXCEPT !.live = FALSE].live = FALSE
               /\ [m EXCEPT !.live = FALSE].route = m.route

(* Requests and answers are messages.                                      *)
LEMMA CallsAreMessages == ASSUME NEW A PROVE Messages(Call(A))
  BY DEF Messages, Call

(* The messages of an answer are messages of the link.                     *)
LEMMA AnswersAreMessages == ASSUME NEW V PROVE Messages(Answer(V))
  BY DEF Messages, Answer

(* Giving up a route takes its messages from the live ones.                *)
LEMMA OrphanedLeaves ==
  ASSUME NEW M, Messages(M), NEW q \in Seq(M), NEW r
  PROVE  /\ Orphaned(q, r) \in Seq(M)
         /\ Live(Orphaned(q, r)) = LiveBut(q, r)
         /\ Distinct(q) => Distinct(Orphaned(q, r))
<1> DEFINE o == Orphaned(q, r)
<1>1. q \in [1..Len(q) -> M] /\ DOMAIN q = 1..Len(q) /\ Len(q) \in Nat
  OBVIOUS
<1>2. ASSUME NEW i \in 1..Len(q)
      PROVE  /\ o[i] \in M
             /\ o[i].route = q[i].route
             /\ o[i].live <=> q[i].live /\ q[i].route # r
             /\ o[i].live => o[i] = q[i]
  BY <1>1, <1>2 DEF Orphaned, Messages
<1>3. o \in [1..Len(q) -> M] /\ DOMAIN o = DOMAIN q
  BY <1>1, <1>2 DEF Orphaned
<1>4. o \in Seq(M)
  BY <1>1, <1>3, SeqDef
<1>5. Live(o) = LiveBut(q, r)
  BY <1>1, <1>2, <1>3 DEF Live, LiveBut
<1>6. Distinct(q) => Distinct(o)
  BY <1>1, <1>2, <1>3 DEF Distinct
<1>7. QED
  BY <1>4, <1>5, <1>6

(* When all is given up, nothing is live.                                  *)
LEMMA AllOrphanedLeaves ==
  ASSUME NEW M, Messages(M), NEW q \in Seq(M)
  PROVE  /\ AllOrphaned(q) \in Seq(M)
         /\ Live(AllOrphaned(q)) = {}
         /\ Distinct(AllOrphaned(q))
<1> DEFINE o == AllOrphaned(q)
<1>1. q \in [1..Len(q) -> M] /\ DOMAIN q = 1..Len(q) /\ Len(q) \in Nat
  OBVIOUS
<1>2. ASSUME NEW i \in 1..Len(q)
      PROVE  o[i] \in M /\ ~o[i].live
  BY <1>1, <1>2 DEF AllOrphaned, Messages
<1>3. o \in [1..Len(q) -> M] /\ DOMAIN o = DOMAIN q
  BY <1>1, <1>2 DEF AllOrphaned
<1>4. o \in Seq(M)
  BY <1>1, <1>3, SeqDef
<1>5. QED
  BY <1>1, <1>2, <1>3, <1>4 DEF Live, Distinct

(* Without its first message a queue of distinct messages has the others.  *)
LEMMA TailLeaves ==
  ASSUME NEW M, NEW q \in Seq(M), q # <<>>, Distinct(q), Messages(M)
  PROVE  /\ Head(q) \in M
         /\ Tail(q) \in Seq(M)
         /\ Distinct(Tail(q))
         /\ Head(q).live => Head(q) \in Live(q) /\ Live(Tail(q)) = LiveBut(q, Head(q).route)
         /\ ~Head(q).live => Live(Tail(q)) = Live(q)
<1> DEFINE t == Tail(q)
<1>1. q \in [1..Len(q) -> M] /\ DOMAIN q = 1..Len(q) /\ Len(q) \in Nat \ {0}
  BY EmptySeq
<1>2. /\ Head(q) = q[1] /\ Head(q) \in M
      /\ t \in Seq(M) /\ Len(t) = Len(q) - 1 /\ DOMAIN t = 1..(Len(q) - 1)
      /\ \A i \in 1..(Len(q) - 1) : t[i] = q[i+1]
  BY <1>1, HeadTailProperties
<1>3. \A i \in 1..Len(q) : i = 1 \/ (i - 1 \in 1..(Len(q) - 1) /\ q[i] = t[i - 1])
  BY <1>1, <1>2
<1>4. Distinct(t)
  <2>1. ASSUME NEW i \in DOMAIN t, NEW j \in DOMAIN t,
               t[i].live, t[j].live, t[i].route = t[j].route
        PROVE  i = j
    <3>1. i + 1 \in DOMAIN q /\ j + 1 \in DOMAIN q /\ t[i] = q[i+1] /\ t[j] = q[j+1]
      BY <1>1, <1>2
    <3>2. i + 1 = j + 1
      BY <2>1, <3>1 DEF Distinct
    <3>3. QED
      BY <1>2, <3>2
  <2>2. QED
    BY <2>1 DEF Distinct
<1>5. \A m \in Live(t) : m \in Live(q) /\ (Head(q).live => m.route # Head(q).route)
  <2>1. ASSUME NEW i \in DOMAIN t, t[i].live
        PROVE  t[i] \in Live(q) /\ (Head(q).live => t[i].route # Head(q).route)
    <3>1. 1 \in DOMAIN q /\ i + 1 \in DOMAIN q /\ i + 1 # 1 /\ t[i] = q[i+1]
      BY <1>1, <1>2
    <3>2. QED
      BY <1>2, <2>1, <3>1 DEF Live, Distinct
  <2>2. QED
    BY <2>1 DEF Live
<1>6. \A m \in Live(q) : m \in Live(t) \/ m = Head(q)
  <2>1. ASSUME NEW i \in DOMAIN q, q[i].live
        PROVE  q[i] \in Live(t) \/ q[i] = Head(q)
    <3>1. CASE i = 1
      BY <1>2, <3>1
    <3>2. CASE i - 1 \in DOMAIN t /\ q[i] = t[i - 1]
      BY <2>1, <3>2 DEF Live
    <3>3. QED
      BY <1>1, <1>2, <1>3, <3>1, <3>2
  <2>2. QED
    BY <2>1 DEF Live
<1>7. Head(q).live => Head(q) \in Live(q)
  BY <1>1, <1>2 DEF Live
<1>8. \A m \in Live(q) : m.live
  BY DEF Live
<1>9. QED
  BY <1>2, <1>4, <1>5, <1>6, <1>7, <1>8 DEF LiveBut

(* A live message of a new route is the one that is added.                 *)
LEMMA AppendAdds ==
  ASSUME NEW M, NEW q \in Seq(M), NEW m \in M, m.live,
         Distinct(q), m.route \notin LiveRoutes(q)
  PROVE  /\ Append(q, m) \in Seq(M)
         /\ Live(Append(q, m)) = Live(q) \cup {m}
         /\ Distinct(Append(q, m))
<1> DEFINE a == Append(q, m)
<1>1. q \in [1..Len(q) -> M] /\ DOMAIN q = 1..Len(q) /\ Len(q) \in Nat
  OBVIOUS
<1>2. /\ a \in Seq(M) /\ DOMAIN a = DOMAIN q \cup {Len(q) + 1} /\ Len(q) + 1 \notin DOMAIN q
      /\ \A i \in DOMAIN q : a[i] = q[i]
      /\ a[Len(q) + 1] = m
  BY <1>1
<1>3. Live(a) = Live(q) \cup {m}
  BY <1>2 DEF Live
<1>4. \A i \in DOMAIN q : q[i].live => q[i].route # m.route
  BY DEF Live, LiveRoutes
<1>5. Distinct(a)
  BY <1>2, <1>4 DEF Distinct
<1>6. QED
  BY <1>2, <1>3, <1>5

-----------------------------------------------------------------------------
(* The operations of the link.                                             *)

(* At first nothing is under way.                                          *)
LEMMA LinkInit ==
  ASSUME NEW A, NEW V, waiting \in SUBSET Routes, connected \in BOOLEAN,
         calls = <<>>, answers = <<>>
  PROVE  LinkTypeOK(A, V) /\ LinkInv /\ Live(calls) = {} /\ Live(answers) = {}
<1>1. Live(calls) = {} /\ Live(answers) = {} /\ Distinct(calls) /\ Distinct(answers)
  BY DEF Live, Distinct
<1>2. QED
  BY <1>1 DEF LinkTypeOK, LinkInv, LiveRoutes

(* What happens elsewhere changes nothing.                                 *)
LEMMA LinkStays ==
  ASSUME NEW A, NEW V, LinkTypeOK(A, V), LinkInv, UNCHANGED link
  PROVE  /\ LinkTypeOK(A, V)' /\ LinkInv'
         /\ UNCHANGED <<waiting, connected, calls, answers>>
         /\ Live(calls)' = Live(calls) /\ Live(answers)' = Live(answers)
<1>1. UNCHANGED <<waiting, connected, calls, answers>>
  BY DEF link
<1>2. LinkTypeOK(A, V)'
  BY <1>1 DEF LinkTypeOK
<1>3. Live(calls)' = Live(calls) /\ Live(answers)' = Live(answers)
  BY <1>1 DEF Live
<1>4. LinkInv'
  BY <1>1, <1>3 DEF LinkInv, LiveRoutes, Distinct
<1>5. QED
  BY <1>1, <1>2, <1>3, <1>4

(* A request sent takes the place of its like, or is suppressed.           *)
LEMMA SendKeeps ==
  ASSUME NEW A, NEW V, LinkTypeOK(A, V), LinkInv,
         NEW r \in Routes, NEW a \in A, Send(r, a)
  PROVE  /\ LinkTypeOK(A, V)' /\ LinkInv'
         /\ connected /\ connected' = connected
         /\ waiting' = waiting \cup {r}
         /\ \/ UNCHANGED <<calls, answers>>
            \/ /\ Live(calls)' = LiveBut(calls, r) \cup {[route |-> r, live |-> TRUE, arg |-> a]}
               /\ Live(answers)' = LiveBut(answers, r)
<1> DEFINE m == [route |-> r, live |-> TRUE, arg |-> a]
<1>1. CASE Suppressed(r)
  <2>1. r \in waiting /\ connected /\ UNCHANGED <<waiting, connected, calls, answers>>
    BY <1>1 DEF Send, Suppressed
  <2>2. LinkTypeOK(A, V)' /\ LinkInv'
    BY <2>1, LinkStays DEF link
  <2>3. QED
    BY <2>1, <2>2
<1>2. CASE ~Suppressed(r)
  <2>1. /\ waiting' = waiting \cup {r} /\ connected /\ connected' = connected
        /\ calls' = Append(Orphaned(calls, r), m)
        /\ answers' = Orphaned(answers, r)
    BY <1>2 DEF Send, Asks
  <2>2. /\ answers' \in Seq(Answer(V))
        /\ Live(answers') = LiveBut(answers, r)
        /\ Distinct(answers')
    BY <2>1, OrphanedLeaves, AnswersAreMessages DEF LinkTypeOK, LinkInv
  <2>3. /\ Orphaned(calls, r) \in Seq(Call(A))
        /\ Live(Orphaned(calls, r)) = LiveBut(calls, r)
        /\ Distinct(Orphaned(calls, r))
    BY OrphanedLeaves, CallsAreMessages DEF LinkTypeOK, LinkInv
  <2>4. m \in Call(A) /\ m.live /\ m.route = r
    BY DEF Call
  <2>5. r \notin LiveRoutes(Orphaned(calls, r))
    BY <2>3 DEF LiveRoutes, LiveBut
  <2>6. /\ calls' \in Seq(Call(A))
        /\ Live(calls') = LiveBut(calls, r) \cup {m}
        /\ Distinct(calls')
    <3> DEFINE o == Orphaned(calls, r)
    <3>1. o \in Seq(Call(A)) /\ Distinct(o) /\ m.route \notin LiveRoutes(o)
      BY <2>3, <2>4, <2>5
    <3>2. /\ Append(o, m) \in Seq(Call(A))
          /\ Live(Append(o, m)) = Live(o) \cup {m}
          /\ Distinct(Append(o, m))
      <4> HIDE DEF o, m
      <4>1. QED
        BY <2>4, <3>1, AppendAdds
    <3>3. QED
      BY <2>1, <2>3, <3>2
  <2>7. LinkTypeOK(A, V)'
    BY <2>1, <2>2, <2>6 DEF LinkTypeOK
  <2>8. LinkInv'
    <3>1. LiveRoutes(calls') = (LiveRoutes(calls) \ {r}) \cup {r}
      BY <2>4, <2>6 DEF LiveRoutes, LiveBut
    <3>2. LiveRoutes(answers') = LiveRoutes(answers) \ {r}
      BY <2>2 DEF LiveRoutes, LiveBut
    <3>3. QED
      BY <2>1, <2>2, <2>6, <3>1, <3>2 DEF LinkInv
  <2>9. QED
    BY <2>1, <2>2, <2>6, <2>7, <2>8
<1>3. QED
  BY <1>1, <1>2

(* The server executes the oldest request; the answer to one that nobody   *)
(* waits for is lost.                                                      *)
LEMMA ExecutesKeeps ==
  ASSUME NEW A, NEW V, LinkTypeOK(A, V), LinkInv,
         NEW ok \in BOOLEAN, NEW v \in V, Executes(ok, v)
  PROVE  LET c == Head(calls)
             m == [route |-> c.route, live |-> TRUE, ok |-> ok, value |-> v]
         IN  /\ LinkTypeOK(A, V)' /\ LinkInv'
             /\ UNCHANGED <<waiting, connected>>
             /\ c \in Call(A)
             /\ c.live => /\ c \in Live(calls)
                          /\ Live(calls)' = LiveBut(calls, c.route)
                          /\ Live(answers)' = Live(answers) \cup {m}
             /\ ~c.live => Live(calls)' = Live(calls) /\ answers' = answers
<1> DEFINE c == Head(calls)
           m == [route |-> c.route, live |-> TRUE, ok |-> ok, value |-> v]
<1> USE CallsAreMessages, AnswersAreMessages
<1>1. /\ calls # <<>> /\ calls' = Tail(calls)
      /\ answers' = IF c.live THEN Append(answers, m) ELSE answers
      /\ UNCHANGED <<waiting, connected>>
  BY DEF Executes
<1>2. /\ c \in Call(A) /\ calls' \in Seq(Call(A)) /\ Distinct(calls')
      /\ c.live => c \in Live(calls) /\ Live(calls') = LiveBut(calls, c.route)
      /\ ~c.live => Live(calls') = Live(calls)
  BY <1>1, TailLeaves DEF LinkTypeOK, LinkInv
<1>3. CASE c.live
  <2>1. m \in Answer(V) /\ m.live /\ m.route = c.route
    BY <1>2 DEF Call, Answer
  <2>2. c.route \in LiveRoutes(calls)
    BY <1>2, <1>3 DEF LiveRoutes
  <2>3. /\ answers' \in Seq(Answer(V))
        /\ Live(answers') = Live(answers) \cup {m}
        /\ Distinct(answers')
    <3>1. /\ answers \in Seq(Answer(V)) /\ Distinct(answers)
          /\ m.route \notin LiveRoutes(answers)
      BY <2>1, <2>2 DEF LinkTypeOK, LinkInv
    <3>2. /\ Append(answers, m) \in Seq(Answer(V))
          /\ Live(Append(answers, m)) = Live(answers) \cup {m}
          /\ Distinct(Append(answers, m))
      <4> HIDE DEF m
      <4>1. QED
        BY <2>1, <3>1, AppendAdds
    <3>3. QED
      BY <1>1, <1>3, <3>2
  <2>4. LinkTypeOK(A, V)'
    BY <1>1, <1>2, <2>3 DEF LinkTypeOK
  <2>5. LinkInv'
    <3>1. LiveRoutes(calls') = LiveRoutes(calls) \ {c.route}
      BY <1>2, <1>3 DEF LiveRoutes, LiveBut
    <3>2. LiveRoutes(answers') = LiveRoutes(answers) \cup {c.route}
      BY <2>1, <2>3 DEF LiveRoutes
    <3>3. QED
      BY <1>1, <1>2, <2>2, <2>3, <3>1, <3>2 DEF LinkInv
  <2>6. QED
    BY <1>1, <1>2, <1>3, <2>3, <2>4, <2>5
<1>4. CASE ~c.live
  <2>1. LinkTypeOK(A, V)'
    BY <1>1, <1>2, <1>4 DEF LinkTypeOK
  <2>2. LinkInv'
    BY <1>1, <1>2, <1>4 DEF LinkInv, LiveRoutes
  <2>3. QED
    BY <1>1, <1>2, <1>4, <2>1, <2>2
<1>5. QED
  BY <1>3, <1>4

(* An answer that is waited for ends the wait.                             *)
LEMMA ArrivesKeeps ==
  ASSUME NEW A, NEW V, LinkTypeOK(A, V), LinkInv, Arrives
  PROVE  LET a == Head(answers)
         IN  /\ LinkTypeOK(A, V)' /\ LinkInv'
             /\ UNCHANGED <<connected, calls>>
             /\ a \in Answer(V)
             /\ a.live => /\ a \in Live(answers)
                          /\ Live(answers)' = LiveBut(answers, a.route)
                          /\ waiting' = waiting \ {a.route}
             /\ ~a.live => Live(answers)' = Live(answers) /\ waiting' = waiting
<1> DEFINE a == Head(answers)
<1> USE AnswersAreMessages
<1>1. /\ answers # <<>> /\ answers' = Tail(answers)
      /\ UNCHANGED <<connected, calls>>
      /\ waiting' = IF a.live THEN waiting \ {a.route} ELSE waiting
  BY DEF Arrives, Ends
<1>2. /\ a \in Answer(V) /\ answers' \in Seq(Answer(V)) /\ Distinct(answers')
      /\ a.live => a \in Live(answers) /\ Live(answers') = LiveBut(answers, a.route)
      /\ ~a.live => Live(answers') = Live(answers)
  BY <1>1, TailLeaves DEF LinkTypeOK, LinkInv
<1>3. LinkTypeOK(A, V)'
  BY <1>1, <1>2 DEF LinkTypeOK
<1>4. LinkInv'
  <2>1. CASE a.live
    <3>1. a.route \in LiveRoutes(answers)
      BY <1>2, <2>1 DEF LiveRoutes
    <3>2. LiveRoutes(answers') = LiveRoutes(answers) \ {a.route}
      BY <1>2, <2>1 DEF LiveRoutes, LiveBut
    <3>3. LiveRoutes(calls') = LiveRoutes(calls) /\ Distinct(calls')
      BY <1>1 DEF LinkInv
    <3>4. QED
      BY <1>1, <1>2, <2>1, <3>1, <3>2, <3>3 DEF LinkInv
  <2>2. CASE ~a.live
    <3>1. LiveRoutes(calls') = LiveRoutes(calls) /\ Distinct(calls')
      BY <1>1 DEF LinkInv
    <3>2. LiveRoutes(answers') = LiveRoutes(answers)
      BY <1>2, <2>2 DEF LiveRoutes
    <3>3. QED
      BY <1>1, <1>2, <2>2, <3>1, <3>2 DEF LinkInv
  <2>3. QED
    BY <2>1, <2>2
<1>5. QED
  BY <1>1, <1>2, <1>3, <1>4

(* A window that sends at an answer sends as ever: the new request takes   *)
(* the place of its like, or is suppressed.                                *)
LEMMA ArrivesThenSendsKeeps ==
  ASSUME NEW A, NEW V, LinkTypeOK(A, V), LinkInv,
         NEW r \in Routes, NEW a \in A, ArrivesThenSends(r, a)
  PROVE  LET route == Head(answers).route
         IN  /\ LinkTypeOK(A, V)' /\ LinkInv'
             /\ connected' = connected
             /\ waiting' = (waiting \ {route}) \cup {r}
             /\ \/ answers' = Tail(answers) /\ calls' = calls
                \/ /\ answers' = Orphaned(Tail(answers), r)
                   /\ Live(calls)' = LiveBut(calls, r) \cup {[route |-> r, live |-> TRUE, arg |-> a]}
<1> DEFINE h == Head(answers)
           m == [route |-> r, live |-> TRUE, arg |-> a]
<1>1. answers # <<>> /\ h.live
  BY DEF ArrivesThenSends
<1>2. /\ h \in Answer(V) /\ Tail(answers) \in Seq(Answer(V)) /\ Distinct(Tail(answers))
      /\ h \in Live(answers) /\ Live(Tail(answers)) = LiveBut(answers, h.route)
  BY <1>1, TailLeaves, AnswersAreMessages DEF LinkTypeOK, LinkInv
<1>3. CASE r \in Transactional \cap (waiting \ {h.route})
  <2>1. Arrives
    BY <1>3 DEF ArrivesThenSends
  <2>2. waiting' = waiting \ {h.route} /\ answers' = Tail(answers) /\ calls' = calls
    BY <1>1, <2>1 DEF Arrives, Ends
  <2>3. QED
    BY <1>3, <2>1, <2>2, ArrivesKeeps
<1>4. CASE r \notin Transactional \cap (waiting \ {h.route})
  <2>1. /\ waiting' = (waiting \ {h.route}) \cup {r} /\ connected' = connected
        /\ calls' = Append(Orphaned(calls, r), m)
        /\ answers' = Orphaned(Tail(answers), r)
    BY <1>4 DEF ArrivesThenSends
  <2>2. /\ answers' \in Seq(Answer(V))
        /\ Live(answers') = LiveBut(Tail(answers), r)
        /\ Distinct(answers')
    BY <1>2, <2>1, OrphanedLeaves, AnswersAreMessages
  <2>3. /\ Orphaned(calls, r) \in Seq(Call(A))
        /\ Live(Orphaned(calls, r)) = LiveBut(calls, r)
        /\ Distinct(Orphaned(calls, r))
    BY OrphanedLeaves, CallsAreMessages DEF LinkTypeOK, LinkInv
  <2>4. m \in Call(A) /\ m.live /\ m.route = r
    BY DEF Call
  <2>5. r \notin LiveRoutes(Orphaned(calls, r))
    BY <2>3 DEF LiveRoutes, LiveBut
  <2>6. /\ calls' \in Seq(Call(A))
        /\ Live(calls') = LiveBut(calls, r) \cup {m}
        /\ Distinct(calls')
    <3> DEFINE o == Orphaned(calls, r)
    <3>1. o \in Seq(Call(A)) /\ Distinct(o) /\ m.route \notin LiveRoutes(o)
      BY <2>3, <2>4, <2>5
    <3>2. /\ Append(o, m) \in Seq(Call(A))
          /\ Live(Append(o, m)) = Live(o) \cup {m}
          /\ Distinct(Append(o, m))
      <4> HIDE DEF o, m
      <4>1. QED
        BY <2>4, <3>1, AppendAdds
    <3>3. QED
      BY <2>1, <2>3, <3>2
  <2>7. LinkTypeOK(A, V)'
    BY <2>1, <2>2, <2>6 DEF LinkTypeOK
  <2>8. LinkInv'
    <3>1. LiveRoutes(calls') = (LiveRoutes(calls) \ {r}) \cup {r}
      BY <2>4, <2>6 DEF LiveRoutes, LiveBut
    <3>2. LiveRoutes(answers') = LiveRoutes(answers) \ {h.route, r}
      BY <1>2, <2>2 DEF LiveRoutes, LiveBut
    <3>3. h.route \notin LiveRoutes(calls)
      BY <1>2 DEF LinkInv, LiveRoutes
    <3>4. QED
      BY <2>1, <2>2, <2>6, <3>1, <3>2, <3>3 DEF LinkInv
  <2>9. QED
    BY <2>1, <2>6, <2>7, <2>8
<1>5. QED
  BY <1>3, <1>4

(* A request that is given up cannot be answered any more.                 *)
LEMMA GivesUpKeeps ==
  ASSUME NEW A, NEW V, LinkTypeOK(A, V), LinkInv, NEW r, GivesUp(r)
  PROVE  /\ LinkTypeOK(A, V)' /\ LinkInv'
         /\ r \in waiting /\ waiting' = waiting \ {r}
         /\ connected' = connected
         /\ Live(calls)' = LiveBut(calls, r)
         /\ Live(answers)' = LiveBut(answers, r)
<1> USE CallsAreMessages, AnswersAreMessages
<1>1. /\ r \in waiting /\ waiting' = waiting \ {r} /\ connected' = connected
      /\ calls' = Orphaned(calls, r) /\ answers' = Orphaned(answers, r)
  BY DEF GivesUp, Ends
<1>2. /\ calls' \in Seq(Call(A)) /\ Live(calls') = LiveBut(calls, r) /\ Distinct(calls')
      /\ answers' \in Seq(Answer(V)) /\ Live(answers') = LiveBut(answers, r)
      /\ Distinct(answers')
  BY <1>1, OrphanedLeaves DEF LinkTypeOK, LinkInv
<1>3. LinkTypeOK(A, V)'
  BY <1>1, <1>2 DEF LinkTypeOK
<1>4. LinkInv'
  BY <1>1, <1>2 DEF LinkInv, LiveRoutes, LiveBut
<1>5. QED
  BY <1>1, <1>2, <1>3, <1>4

\* all that was under way has been given up
NothingWaits == waiting' = {} /\ Live(calls)' = {} /\ Live(answers)' = {}

(* When the session ends nothing is waited for.                            *)
LEMMA EndingKeeps ==
  ASSUME NEW A, NEW V, LinkTypeOK(A, V), LinkInv,
         NEW q \in Seq(Call(A)), NEW p \in Seq(Answer(V)),
         waiting' = {}, connected' \in BOOLEAN,
         calls' = AllOrphaned(q), answers' = AllOrphaned(p)
  PROVE  LinkTypeOK(A, V)' /\ LinkInv' /\ NothingWaits
<1> USE CallsAreMessages, AnswersAreMessages
<1>1. /\ calls' \in Seq(Call(A)) /\ Live(calls') = {} /\ Distinct(calls')
      /\ answers' \in Seq(Answer(V)) /\ Live(answers') = {} /\ Distinct(answers')
  BY AllOrphanedLeaves
<1>2. LinkTypeOK(A, V)'
  BY <1>1 DEF LinkTypeOK
<1>3. LinkInv'
  BY <1>1 DEF LinkInv, LiveRoutes
<1>4. QED
  BY <1>1, <1>2, <1>3 DEF NothingWaits

(* The answer that ends the session ends all waits.                        *)
LEMMA ArrivesAndEndsAllKeeps ==
  ASSUME NEW A, NEW V, LinkTypeOK(A, V), LinkInv, ArrivesAndEndsAll
  PROVE  LinkTypeOK(A, V)' /\ LinkInv' /\ NothingWaits /\ connected' = connected
<1>1. /\ answers # <<>> /\ waiting' = {} /\ connected' = connected
      /\ calls' = AllOrphaned(calls) /\ answers' = AllOrphaned(Tail(answers))
  BY DEF ArrivesAndEndsAll, EndAll
<1>2. Tail(answers) \in Seq(Answer(V)) /\ calls \in Seq(Call(A)) /\ connected' \in BOOLEAN
  BY <1>1, HeadTailProperties DEF LinkTypeOK
<1>3. QED
  BY <1>1, <1>2, EndingKeeps

(* A connection that breaks ends all waits.                                *)
LEMMA BreaksKeeps ==
  ASSUME NEW A, NEW V, LinkTypeOK(A, V), LinkInv, NEW n \in 0..Len(calls), Breaks(n)
  PROVE  LinkTypeOK(A, V)' /\ LinkInv' /\ NothingWaits /\ connected /\ connected' = FALSE
<1>1. /\ connected /\ connected' = FALSE /\ waiting' = {}
      /\ calls' = AllOrphaned(SubSeq(calls, 1, n)) /\ answers' = <<>>
  BY DEF Breaks, EndAll
<1>2. SubSeq(calls, 1, n) \in Seq(Call(A))
  <2>1. calls \in Seq(Call(A)) /\ n \in Int /\ \A i \in 1..n : calls[i] \in Call(A)
    BY DEF LinkTypeOK
  <2>2. QED
    BY <2>1, SubSeqProperties
<1>3. answers' = AllOrphaned(<<>>) /\ <<>> \in Seq(Answer(V))
  BY <1>1 DEF AllOrphaned
<1>4. QED
  BY <1>1, <1>2, <1>3, EndingKeeps
=============================================================================

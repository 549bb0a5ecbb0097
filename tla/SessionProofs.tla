---------------------------- MODULE SessionProofs ----------------------------
(***************************************************************************)
(* Proofs about signing in and out, for any number of sessions and of      *)
(* messages under way; and about the one-time codes that the server lets   *)
(* somebody sign in with, for any limits, phones and size of the table.    *)
(***************************************************************************)
EXTENDS UserSession, PhoneCodes, LinkProofs, WellFoundedInduction

\* what a message that is waited for says about the client
Belongs(m, of) ==
  /\ m.route \notin AuthRoutes => token # NoToken /\ of = token
  /\ m.route = "user.login" => window = "login"

\* the messages that are waited for belong to the session the client is in
MessagesBelong ==
  /\ \A m \in Live(calls) : Belongs(m, m.arg)
  /\ \A m \in Live(answers) : Belongs(m, m.value)

\* a login that succeeded brings a token
LoginsBringTokens ==
  \A m \in Live(answers) : m.route = "user.login" /\ m.ok => m.value \in 1..issued

ClientOK ==
  /\ issued \in Nat
  /\ window \in {"login", "home"}
  /\ token \in 0..issued
  /\ window = "login" => token = NoToken
  /\ connecting => ~connected
  /\ ~connected => waiting = {}
  /\ window = "home" => ~connecting
  /\ HomeHoldsToken

\* The inductive invariant.
SessionInv ==
  /\ LinkTypeOK(Nat, Nat) /\ LinkInv
  /\ ClientOK
  /\ MessagesBelong
  /\ LoginsBringTokens

-----------------------------------------------------------------------------
(* Each operation keeps the invariant.                                     *)

(* It keeps what it says about messages when it only ends some of them.    *)
LEMMA FewerMessages ==
  ASSUME SessionInv, UNCHANGED client, issued' \in Nat, issued' >= issued,
         Live(calls)' \subseteq Live(calls), Live(answers)' \subseteq Live(answers)
  PROVE  MessagesBelong' /\ LoginsBringTokens'
<1>1. MessagesBelong'
  BY DEF SessionInv, MessagesBelong, Belongs, client
<1>2. LoginsBringTokens'
  BY DEF SessionInv, ClientOK, LoginsBringTokens
<1>3. QED
  BY <1>1, <1>2

(* When nothing is waited for, only the client's own state matters.        *)
LEMMA NoMessages ==
  ASSUME NothingWaits, LinkTypeOK(Nat, Nat)', LinkInv', ClientOK'
  PROVE  SessionInv'
BY DEF NothingWaits, SessionInv, MessagesBelong, LoginsBringTokens

(* The initial state satisfies it.                                         *)
LEMMA SessionInit == Init => SessionInv
<1> SUFFICES ASSUME Init PROVE SessionInv
  OBVIOUS
<1>1. LinkTypeOK(Nat, Nat) /\ LinkInv /\ Live(calls) = {} /\ Live(answers) = {}
  BY LinkInit DEF Init, InitLink, InitFacade
<1>2. ClientOK
  BY DEF Init, InitLink, InitFacade, ClientOK, NoToken, HomeHoldsToken
<1>3. QED
  BY <1>1, <1>2 DEF SessionInv, MessagesBelong, LoginsBringTokens

(* A login is executed: its answer, if any, carries a new token.           *)
LEMMA LoginExecutedKeeps ==
  ASSUME SessionInv, NEW ok \in BOOLEAN, NEW v \in Nat, Executes(ok, v),
         issued' \in Nat, issued' >= issued, ok => v \in 1..issued',
         Head(calls).route = "user.login",
         UNCHANGED <<client, form, connecting>>
  PROVE  SessionInv'
<1> DEFINE c == Head(calls)
<1>1. /\ Executes(ok, v)
      /\ issued' \in Nat /\ issued' >= issued
      /\ ok => v \in 1..issued'
  OBVIOUS
<1>2. c.route = "user.login" /\ UNCHANGED <<client, form, connecting>>
  OBVIOUS
<1>3. /\ LinkTypeOK(Nat, Nat)' /\ LinkInv' /\ UNCHANGED <<waiting, connected>>
      /\ c.live => /\ c \in Live(calls)
                   /\ Live(calls)' = LiveBut(calls, c.route)
                   /\ Live(answers)' =
                        Live(answers) \cup {[route |-> c.route, live |-> TRUE, ok |-> ok, value |-> v]}
      /\ ~c.live => Live(calls)' = Live(calls) /\ answers' = answers
  BY <1>1, ExecutesKeeps DEF SessionInv
<1>4. ClientOK'
  BY <1>1, <1>2, <1>3 DEF SessionInv, ClientOK, HomeHoldsToken, client
<1>5. MessagesBelong' /\ LoginsBringTokens'
  <2>1. CASE c.live
    <3>1. window = "login"
      BY <1>2, <1>3, <2>1 DEF SessionInv, MessagesBelong, Belongs
    <3>2. MessagesBelong'
      BY <1>2, <1>3, <2>1, <3>1 DEF SessionInv, MessagesBelong, Belongs, LiveBut, client, AuthRoutes
    <3>3. LoginsBringTokens'
      BY <1>1, <1>3, <2>1 DEF SessionInv, ClientOK, LoginsBringTokens
    <3>4. QED
      BY <3>2, <3>3
  <2>2. CASE ~c.live
    <3>1. Live(answers)' = Live(answers)
      BY <1>3, <2>2 DEF Live
    <3>2. QED
      BY <1>1, <1>2, <1>3, <2>2, <3>1, FewerMessages
  <2>3. QED
    BY <2>1, <2>2
<1>6. QED
  BY <1>3, <1>4, <1>5 DEF SessionInv

(* user.login, the only call that issues a token.                          *)
LEMMA ServeLoginKeeps == ASSUME SessionInv, ServeLogin PROVE SessionInv'
<1>1. /\ Head(calls).route = "user.login"
      /\ issued \in Nat
      /\ UNCHANGED <<client, form, connecting>>
  BY DEF ServeLogin, SessionInv, ClientOK
<1>2. CASE issued' = issued + 1 /\ Executes(TRUE, issued')
  <2>1. issued' \in Nat /\ issued' >= issued /\ issued' \in 1..issued'
    BY <1>1, <1>2
  <2>2. QED
    BY <1>1, <1>2, <2>1, LoginExecutedKeeps
<1>3. CASE Executes(FALSE, NoToken) /\ UNCHANGED server
  <2>1. issued' \in Nat /\ issued' >= issued /\ NoToken \in Nat
    BY <1>1, <1>3 DEF server, NoToken
  <2>2. QED
    BY <1>1, <1>3, <2>1, LoginExecutedKeeps
<1>4. QED
  BY <1>2, <1>3 DEF ServeLogin

(* A request other than a login is executed: the answer belongs to whom    *)
(* the request belonged to.                                                *)
LEMMA ServeOtherKeeps ==
  ASSUME SessionInv, NEW ok \in BOOLEAN, NEW v \in Nat,
         Executes(ok, v), Head(calls).route # "user.login",
         Head(calls).route \notin AuthRoutes => v = Head(calls).arg,
         UNCHANGED <<issued, client, form, connecting>>
  PROVE  SessionInv'
<1> DEFINE c == Head(calls)
           m == [route |-> c.route, live |-> TRUE, ok |-> ok, value |-> v]
<1>1. /\ LinkTypeOK(Nat, Nat)' /\ LinkInv' /\ UNCHANGED <<waiting, connected>>
      /\ c.live => /\ c \in Live(calls)
                   /\ Live(calls)' = LiveBut(calls, c.route)
                   /\ Live(answers)' = Live(answers) \cup {m}
      /\ ~c.live => Live(calls)' = Live(calls) /\ answers' = answers
  BY ExecutesKeeps DEF SessionInv
<1>2. ClientOK'
  BY <1>1 DEF SessionInv, ClientOK, HomeHoldsToken, client
<1>3. MessagesBelong' /\ LoginsBringTokens'
  <2>1. CASE c.live
    <3>1. Belongs(m, m.value)
      BY <1>1, <2>1 DEF SessionInv, MessagesBelong, Belongs
    <3>2. MessagesBelong'
      BY <1>1, <2>1, <3>1 DEF SessionInv, MessagesBelong, Belongs, LiveBut, client
    <3>3. LoginsBringTokens'
      BY <1>1, <2>1 DEF SessionInv, LoginsBringTokens
    <3>4. QED
      BY <3>2, <3>3
  <2>2. CASE ~c.live
    <3>1. Live(answers)' = Live(answers)
      BY <1>1, <2>2 DEF Live
    <3>2. issued' \in Nat /\ issued' >= issued
      BY DEF SessionInv, ClientOK
    <3>3. QED
      BY <1>1, <2>2, <3>1, <3>2, FewerMessages
  <2>3. QED
    BY <2>1, <2>2
<1>4. QED
  BY <1>1, <1>2, <1>3 DEF SessionInv

(* A code is requested, a session ended, a query answered.                 *)
LEMMA ServeOtpKeeps == ASSUME SessionInv, ServeOtp PROVE SessionInv'
<1>1. PICK ok \in BOOLEAN : Executes(ok, NoToken)
  BY DEF ServeOtp
<1>2. /\ Head(calls).route = "user.otp.request"
      /\ UNCHANGED <<issued, client, form, connecting>>
  BY DEF ServeOtp, server
<1>3. QED
  BY <1>1, <1>2, ServeOtherKeeps DEF NoToken, AuthRoutes

(* A call that carries a token, which the server accepts or refuses.       *)
LEMMA ServeAuthenticatedKeeps ==
  ASSUME SessionInv, NEW ok \in BOOLEAN, ServeAuthenticated(ok) PROVE SessionInv'
<1>1. /\ Executes(ok, Head(calls).arg)
      /\ Head(calls).route \notin AuthRoutes
      /\ UNCHANGED <<issued, client, form, connecting>>
      /\ calls # <<>>
  BY DEF ServeAuthenticated
<1>2. Head(calls).arg \in Nat /\ Head(calls).route # "user.login"
  <2>1. calls \in Seq(Call(Nat)) /\ calls # <<>>
    BY <1>1 DEF SessionInv, LinkTypeOK
  <2>2. Head(calls) \in Call(Nat)
    BY <2>1
  <2>3. QED
    BY <1>1, <2>2 DEF Call, AuthRoutes
<1>3. QED
  BY <1>1, <1>2, ServeOtherKeeps

(* What leaves the link, the token, the window and the attempts to connect *)
(* alone.                                                                  *)
LEMMA ElsewhereKeeps ==
  ASSUME SessionInv, UNCHANGED <<link, issued, client, connecting>> PROVE SessionInv'
<1>1. /\ LinkTypeOK(Nat, Nat)' /\ LinkInv'
      /\ UNCHANGED <<waiting, connected, calls, answers>>
      /\ Live(calls)' = Live(calls) /\ Live(answers)' = Live(answers)
  BY LinkStays DEF SessionInv
<1>2. ClientOK'
  BY <1>1 DEF SessionInv, ClientOK, HomeHoldsToken, client
<1>3. MessagesBelong' /\ LoginsBringTokens'
  BY <1>1, FewerMessages DEF SessionInv, ClientOK
<1>4. QED
  BY <1>1, <1>2, <1>3 DEF SessionInv

(* The attempts to connect.                                                *)
LEMMA ConnectingKeeps ==
  ASSUME SessionInv, ClickConnects \/ \E ok \in BOOLEAN : Connects(ok) PROVE SessionInv'
<1>1. /\ UNCHANGED <<waiting, calls, answers, issued, client>>
      /\ connected' \in BOOLEAN
      /\ connecting' => ~connected' /\ window = "login"
      /\ ~connected' => ~connected
      /\ connected' => window = "login" \/ connected
  <2>1. CASE ClickConnects
    <3>1. /\ UNCHANGED <<waiting, connected, calls, answers, issued, client>>
          /\ ~connected /\ window = "login"
      BY <2>1 DEF ClickConnects, link, server, Clicked
    <3>2. QED
      BY <3>1 DEF SessionInv, LinkTypeOK
  <2>2. ASSUME NEW ok \in BOOLEAN, Connects(ok)
        PROVE  /\ UNCHANGED <<waiting, calls, answers, issued, client>>
               /\ connecting /\ ~connecting' /\ connected' = ok
    BY <2>2 DEF Connects, server
  <2>3. CASE \E ok \in BOOLEAN : Connects(ok)
    <3>1. connecting => window = "login" /\ ~connected
      BY DEF SessionInv, ClientOK
    <3>2. QED
      BY <2>2, <2>3, <3>1
  <2>4. QED
    BY <2>1, <2>3
<1>2. /\ LinkTypeOK(Nat, Nat)' /\ LinkInv'
      /\ Live(calls)' = Live(calls) /\ Live(answers)' = Live(answers)
  BY <1>1 DEF SessionInv, LinkTypeOK, LinkInv, LiveRoutes, Live, Distinct
<1>3. ClientOK'
  BY <1>1 DEF SessionInv, ClientOK, HomeHoldsToken, client
<1>4. MessagesBelong' /\ LoginsBringTokens'
  BY <1>1, <1>2, FewerMessages DEF SessionInv, ClientOK
<1>5. QED
  BY <1>2, <1>3, <1>4 DEF SessionInv

(* A request is sent, with the token or without.                           *)
LEMMA SendingKeeps ==
  ASSUME SessionInv, NEW r \in Routes, NEW a \in Nat, Send(r, a),
         r \notin AuthRoutes => token # NoToken /\ a = token,
         r = "user.login" => window = "login",
         UNCHANGED <<issued, client, connecting>>
  PROVE  SessionInv'
<1> DEFINE m == [route |-> r, live |-> TRUE, arg |-> a]
<1>1. /\ LinkTypeOK(Nat, Nat)' /\ LinkInv'
      /\ connected /\ connected' = connected
      /\ \/ UNCHANGED <<calls, answers>>
         \/ Live(calls)' = LiveBut(calls, r) \cup {m} /\ Live(answers)' = LiveBut(answers, r)
  BY SendKeeps DEF SessionInv
<1>2. ClientOK'
  BY <1>1 DEF SessionInv, ClientOK, HomeHoldsToken, client
<1>3. CASE UNCHANGED <<calls, answers>>
  <2>1. Live(calls)' = Live(calls) /\ Live(answers)' = Live(answers)
    BY <1>3 DEF Live
  <2>2. MessagesBelong' /\ LoginsBringTokens'
    BY <2>1, FewerMessages DEF SessionInv, ClientOK
  <2>3. QED
    BY <1>1, <1>2, <2>2 DEF SessionInv
<1>4. CASE Live(calls)' = LiveBut(calls, r) \cup {m} /\ Live(answers)' = LiveBut(answers, r)
  <2>1. MessagesBelong'
    BY <1>4 DEF SessionInv, MessagesBelong, Belongs, LiveBut, client
  <2>2. LoginsBringTokens'
    BY <1>4 DEF SessionInv, LoginsBringTokens, LiveBut
  <2>3. QED
    BY <1>1, <1>2, <2>1, <2>2 DEF SessionInv
<1>5. QED
  BY <1>1, <1>3, <1>4

(* A button of the login window sends its request without a token.         *)
LEMMA ClickSendsKeeps ==
  ASSUME SessionInv, NEW r \in AuthRoutes, ClickSends(r) PROVE SessionInv'
<1>1. /\ Send(r, NoToken) /\ window = "login" /\ NoToken \in Nat /\ r \in Routes
      /\ UNCHANGED <<issued, client, connecting>>
  BY SessionAssumption DEF ClickSends, Clicked, NoToken, server, SessionRoutes
<1>2. QED
  BY <1>1, SendingKeeps

(* A request of the home window carries the token of the session.          *)
LEMMA AuthenticatedKeeps ==
  ASSUME SessionInv, NEW r \in {"user.logout", "charge.active"}, Authenticated(r)
  PROVE  SessionInv'
<1>1. /\ Send(r, token) /\ token # NoToken /\ token \in Nat /\ r \in Routes
      /\ r # "user.login" /\ UNCHANGED <<issued, client, connecting>>
  BY SessionAssumption DEF Authenticated, server, SessionRoutes, SessionInv, ClientOK
<1>2. QED
  BY <1>1, SendingKeeps

-----------------------------------------------------------------------------
(* The answers.                                                            *)

(* After a login no other message is waited for but a code's: while the    *)
(* login window is shown there is no token to ask with.                    *)
LEMMA LoginSucceedsKeeps == ASSUME SessionInv, LoginSucceeds PROVE SessionInv'
<1> DEFINE a == Head(answers)
<1>1. /\ a.live /\ a.route = "user.login" /\ a.ok /\ Arrives
      /\ token' = a.value /\ window' = "home"
      /\ UNCHANGED <<issued, connecting>>
  BY DEF LoginSucceeds, Received, server
<1>2. /\ LinkTypeOK(Nat, Nat)' /\ LinkInv' /\ UNCHANGED <<connected, calls>>
      /\ a \in Live(answers)
      /\ Live(answers)' = LiveBut(answers, "user.login")
      /\ waiting' = waiting \ {"user.login"}
  BY <1>1, ArrivesKeeps DEF SessionInv
<1>3. Live(calls)' = Live(calls)
  BY <1>2 DEF Live
<1>4. "user.login" \notin LiveRoutes(calls) /\ "user.login" \in waiting
  BY <1>1, <1>2 DEF SessionInv, LinkInv, LiveRoutes
<1>5. window = "login" /\ token = NoToken
  BY <1>1, <1>2 DEF SessionInv, MessagesBelong, Belongs, ClientOK
<1>6. MessagesBelong'
  <2>1. \A m \in Live(calls)' \cup Live(answers)' :
          m.route \in AuthRoutes /\ m.route # "user.login"
    BY <1>2, <1>3, <1>4, <1>5 DEF SessionInv, MessagesBelong, Belongs, LiveBut, LiveRoutes
  <2>2. QED
    BY <2>1 DEF MessagesBelong, Belongs
<1>7. LoginsBringTokens'
  BY <1>2 DEF LoginsBringTokens, LiveBut
<1>8. ClientOK'
  <2>1. a.value \in 1..issued
    BY <1>1, <1>2 DEF SessionInv, LoginsBringTokens
  <2>2. connected /\ ~connecting
    BY <1>4 DEF SessionInv, ClientOK
  <2>3. QED
    BY <1>1, <1>2, <2>1, <2>2 DEF SessionInv, ClientOK, HomeHoldsToken
<1>9. QED
  BY <1>2, <1>6, <1>7, <1>8 DEF SessionInv

(* A logout ends whatever was under way.                                   *)
LEMMA LogoutSucceedsKeeps == ASSUME SessionInv, LogoutSucceeds PROVE SessionInv'
<1>1. /\ ArrivesAndEndsAll /\ token' = NoToken /\ window' = "login"
      /\ UNCHANGED <<issued, connecting>>
  BY DEF LogoutSucceeds, Received, LeaveSession, ArrivesAndEndsAll, server
<1>2. LinkTypeOK(Nat, Nat)' /\ LinkInv' /\ NothingWaits /\ connected' = connected
  BY <1>1, ArrivesAndEndsAllKeeps DEF SessionInv
<1>3. ClientOK'
  BY <1>1, <1>2 DEF SessionInv, ClientOK, NothingWaits, NoToken, HomeHoldsToken
<1>4. QED
  BY <1>2, <1>3, NoMessages

(* Any other answer ends at most its own wait.                             *)
LEMMA OtherAnswerKeeps ==
  ASSUME SessionInv, OtpReceived \/ OtherAnswer PROVE SessionInv'
<1>1. Arrives /\ UNCHANGED <<issued, client, connecting>>
  BY DEF OtpReceived, OtherAnswer, server
<1>2. /\ LinkTypeOK(Nat, Nat)' /\ LinkInv' /\ UNCHANGED <<connected, calls>>
      /\ Live(answers)' \subseteq Live(answers) /\ waiting' \subseteq waiting
  BY <1>1, ArrivesKeeps DEF SessionInv, LiveBut
<1>3. Live(calls)' = Live(calls)
  BY <1>2 DEF Live
<1>4. ClientOK'
  BY <1>1, <1>2 DEF SessionInv, ClientOK, HomeHoldsToken, client
<1>5. MessagesBelong' /\ LoginsBringTokens'
  BY <1>1, <1>2, <1>3, FewerMessages DEF SessionInv, ClientOK
<1>6. QED
  BY <1>2, <1>4, <1>5 DEF SessionInv

(* So does a timeout of the facade.                                        *)
LEMMA ExpireKeeps == ASSUME SessionInv, NEW r, Expire(r) PROVE SessionInv'
<1>1. GivesUp(r) /\ UNCHANGED <<issued, client, connecting>>
  BY DEF Expire, server
<1>2. /\ LinkTypeOK(Nat, Nat)' /\ LinkInv' /\ connected' = connected
      /\ Live(calls)' \subseteq Live(calls) /\ Live(answers)' \subseteq Live(answers)
      /\ waiting' \subseteq waiting
  BY <1>1, GivesUpKeeps DEF SessionInv, LiveBut
<1>3. ClientOK'
  BY <1>1, <1>2 DEF SessionInv, ClientOK, HomeHoldsToken, client
<1>4. MessagesBelong' /\ LoginsBringTokens'
  BY <1>1, <1>2, FewerMessages DEF SessionInv, ClientOK
<1>5. QED
  BY <1>2, <1>3, <1>4 DEF SessionInv

(* The connection is lost, or the server restarts behind it.               *)
LEMMA BrokenKeeps ==
  ASSUME SessionInv, NEW n \in 0..Len(calls), Breaks(n), token' = NoToken,
         UNCHANGED <<issued, window, connecting>>
  PROVE  SessionInv'
<1>1. LinkTypeOK(Nat, Nat)' /\ LinkInv' /\ NothingWaits /\ connected /\ connected' = FALSE
  BY BreaksKeeps DEF SessionInv
<1>2. ClientOK'
  BY <1>1 DEF SessionInv, ClientOK, NothingWaits, NoToken, HomeHoldsToken
<1>3. QED
  BY <1>1, <1>2, NoMessages

(* A server that restarts unconnected forgets requests nobody waits for.   *)
LEMMA RestartKeeps == ASSUME SessionInv, Restart PROVE SessionInv'
<1>1. CASE connected
  <2>1. 0 \in 0..Len(calls)
    BY DEF SessionInv, LinkTypeOK
  <2>2. QED
    BY <1>1, <2>1, BrokenKeeps DEF Restart
<1>2. CASE ~connected
  <2>1. calls' = <<>> /\ UNCHANGED <<waiting, connected, answers, issued, client, connecting>>
    BY <1>2 DEF Restart, client
  <2>2. Live(calls)' = {} /\ Live(answers)' = Live(answers) /\ Distinct(calls)'
    BY <2>1 DEF Live, Distinct
  <2>3. LinkTypeOK(Nat, Nat)'
    BY <2>1 DEF SessionInv, LinkTypeOK
  <2>4. LinkInv'
    BY <2>1, <2>2 DEF SessionInv, LinkInv, LiveRoutes, Distinct
  <2>5. ClientOK'
    BY <2>1 DEF SessionInv, ClientOK, HomeHoldsToken, client
  <2>6. MessagesBelong' /\ LoginsBringTokens'
    BY <2>1, <2>2, FewerMessages DEF SessionInv, ClientOK
  <2>7. QED
    BY <2>3, <2>4, <2>5, <2>6 DEF SessionInv
<1>3. QED
  BY <1>1, <1>2

(* The invariant is inductive.                                             *)
LEMMA SessionNext == SessionInv /\ [Next]_vars => SessionInv'
<1> SUFFICES ASSUME SessionInv, [Next]_vars PROVE SessionInv'
  OBVIOUS
<1>1. CASE ServeLogin \/ ServeOtp \/ \E ok \in BOOLEAN : ServeAuthenticated(ok)
  BY <1>1, ServeLoginKeeps, ServeOtpKeeps, ServeAuthenticatedKeeps
<1>2. CASE \/ \E t \in sessions : ExpireSession(t)
           \/ \E r \in AuthRoutes : ClickInvalid(r)
           \/ FormTimeout \/ Countdown
           \/ UNCHANGED vars
  BY <1>2, ElsewhereKeeps
     DEF ExpireSession, ClickInvalid, FormTimeout, Countdown, vars, server
<1>3. CASE \E r \in AuthRoutes : ClickSends(r)
  BY <1>3, ClickSendsKeeps
<1>4. CASE ClickConnects \/ \E ok \in BOOLEAN : Connects(ok)
  BY <1>4, ConnectingKeeps
<1>5. CASE \E r \in {"user.logout", "charge.active"} : Authenticated(r)
  BY <1>5, AuthenticatedKeeps
<1>6. CASE Receive
  BY <1>6, LoginSucceedsKeeps, LogoutSucceedsKeeps, OtherAnswerKeeps DEF Receive
<1>7. CASE \E r \in SessionRoutes : Expire(r)
  BY <1>7, ExpireKeeps
<1>8. CASE Disconnect
  BY <1>8, BrokenKeeps DEF Disconnect, server
<1>9. CASE Restart
  BY <1>9, RestartKeeps
<1>10. QED
  BY <1>1, <1>2, <1>3, <1>4, <1>5, <1>6, <1>7, <1>8, <1>9 DEF Next

-----------------------------------------------------------------------------
(* The inductive invariant holds of every behaviour.                       *)
THEOREM SessionInvariantHolds == Spec => []SessionInv
  BY SessionInit, SessionNext, PTL DEF Spec

(* No answer to a request of one user reaches the window of another.       *)
THEOREM AnswersReachTheirUser == Spec => []AnswersAreForTheUser
<1>1. ASSUME SessionInv PROVE AnswersAreForTheUser
  <2>1. ASSUME NEW i \in DOMAIN calls, calls[i].live, calls[i].route \notin AuthRoutes
        PROVE  calls[i].arg = token
    BY <1>1, <2>1 DEF SessionInv, MessagesBelong, Belongs, Live
  <2>2. ASSUME NEW i \in DOMAIN answers, answers[i].live, answers[i].route \notin AuthRoutes
        PROVE  answers[i].value = token
    BY <1>1, <2>2 DEF SessionInv, MessagesBelong, Belongs, Live
  <2>3. QED
    BY <2>1, <2>2 DEF AnswersAreForTheUser
<1>2. QED
  BY <1>1, SessionInvariantHolds, PTL

(* A home window with a connection holds a token the server has issued.    *)
THEOREM HomeHasToken == Spec => []HomeHoldsToken
<1>1. SessionInv => HomeHoldsToken
  BY DEF SessionInv, ClientOK
<1>2. QED
  BY <1>1, SessionInvariantHolds, PTL
-----------------------------------------------------------------------------
(* One-time codes.                                                         *)

Ages(span) == Seq(0..(span - 1))

EntryType ==
  [otpRequests : Seq(0..OtpWindow), failedLogins : 0..(LoginFailureLimit - 1),
   lockedFor : 0..LoginLock, idle : 0..OtpWindow]

\* older ones come first
Descends(ages) == \A i, j \in 1..Len(ages) : i < j => ages[i] >= ages[j]

Spaced(ages) == \A i, j \in 1..Len(ages) : i < j => ages[i] - ages[j] >= OtpInterval

\* for each of the codes one request is noted that is at least as recent
Covers(requests, codes) ==
  /\ Len(codes) <= Len(requests)
  /\ \A i \in 1..Len(codes) : requests[Len(requests) - Len(codes) + i] <= codes[i]

\* what an entry knows of the codes sent and of the wrong guesses
Knows(e, codes, guesses) ==
  /\ e \in EntryType
  /\ Descends(e.otpRequests)
  /\ Len(e.otpRequests) <= OtpWindowLimit
  /\ Covers(e.otpRequests, codes)
  /\ \A i \in 1..Len(guesses) : guesses[i] >= e.idle
  /\ e.lockedFor = 0 => Len(guesses) <= e.failedLogins
  /\ e.lockedFor > 0 =>
       /\ Len(guesses) <= LoginFailureLimit
       /\ e.failedLogins = 0
       /\ \A i \in 1..Len(guesses) : guesses[i] >= LoginLock - e.lockedFor

\* nothing is forgotten while it counts
EntryOK(p) ==
  IF p \in DOMAIN entries THEN Knows(entries[p], sent[p], guessed[p])
  ELSE sent[p] = <<>> /\ guessed[p] = <<>>

\* The inductive invariant of the codes.
CodesInv ==
  /\ sent \in [Phones -> Ages(OtpWindow)]
  /\ guessed \in [Phones -> Ages(LoginLock)]
  /\ \A p \in Phones : Spaced(sent[p]) /\ Descends(guessed[p]) /\ EntryOK(p)

(* Of the numbers with a property there is a least.                        *)
LEMMA FirstNumber ==
  ASSUME NEW T, T \subseteq Nat, T # {}
  PROVE  \E t \in T : \A u \in T : t <= u
<1>1. PICK t \in T : \A u \in T : ~ (<<u, t>> \in OpToRel(<, Nat))
  BY NatLessThanWellFounded, WFMin
<1>2. \A u \in T : ~ (u < t)
  BY <1>1 DEF OpToRel
<1>3. QED
  BY <1>2

(* What is dropped are the ages before the first that is not too old.      *)
LEMMA WithinIsEnd ==
  ASSUME NEW ages \in Seq(Nat), NEW span \in Nat
  PROVE  \E n \in 0..Len(ages) :
           TooOld(ages, span, n) /\ Within(ages, span) = SubSeq(ages, n + 1, Len(ages))
<1> DEFINE T == {n \in 0..Len(ages) : n < Len(ages) => ages[n + 1] < span}
<1>1. Len(ages) \in Nat /\ \A i \in 1..Len(ages) : ages[i] \in Nat
  OBVIOUS
<1>2. T \subseteq Nat /\ Len(ages) \in T
  BY <1>1
<1>3. PICK n \in T : \A m \in T : n <= m
  BY <1>2, FirstNumber
<1>4. TooOld(ages, span, n)
  <2>1. ASSUME NEW i \in 1..n PROVE ages[i] >= span
    <3>1. i - 1 \in 0..Len(ages) /\ i - 1 < n /\ n \in Nat
      BY <1>1
    <3> HIDE DEF T
    <3>2. i - 1 \notin T
      BY <1>3, <3>1
    <3>3. i - 1 < Len(ages) /\ ages[i] >= span
      BY <1>1, <3>1, <3>2 DEF T
    <3>4. QED
      BY <3>3
  <2>2. QED
    BY <2>1 DEF TooOld
<1>5. QED
  BY <1>4 DEF Within

(* A list without its first entries.                                       *)
LEMMA EndOfList ==
  ASSUME NEW S, NEW s \in Seq(S), NEW n \in 0..Len(s)
  PROVE  LET e == SubSeq(s, n + 1, Len(s)) IN
         /\ e \in Seq(S) /\ Len(e) = Len(s) - n
         /\ \A i \in 1..Len(e) : e[i] = s[n + i]
BY SubSeqProperties

(* As time passes a history keeps its end, each age one more.              *)
LEMMA OlderIsEnd ==
  ASSUME NEW span \in Nat, span > 0, NEW s \in Ages(span), Descends(s)
  PROVE  \E n \in 0..Len(s) :
           /\ OlderAges(s, span) \in Ages(span)
           /\ Len(OlderAges(s, span)) = Len(s) - n
           /\ \A i \in 1..(Len(s) - n) : OlderAges(s, span)[i] = s[n + i] + 1
           /\ \A i \in 1..n : s[i] = span - 1
<1>1. /\ s \in Seq(Nat) /\ Len(s) \in Nat /\ span - 1 \in Nat
      /\ \A i \in 1..Len(s) : s[i] \in 0..(span - 1)
  BY DEF Ages
<1>2. PICK n \in 0..Len(s) : /\ TooOld(s, span - 1, n)
                             /\ Within(s, span - 1) = SubSeq(s, n + 1, Len(s))
  BY <1>1, WithinIsEnd
<1> DEFINE young == Within(s, span - 1)
<1>3. /\ young \in Seq(Nat) /\ Len(young) = Len(s) - n
      /\ \A i \in 1..Len(young) : young[i] = s[n + i]
  BY <1>1, <1>2, EndOfList
<1>4. OlderAges(s, span) = [i \in 1..Len(young) |-> young[i] + 1]
  BY <1>3 DEF OlderAges
<1>5. QED
  <2>1. \A i \in 1..n : s[i] = span - 1
    BY <1>1, <1>2 DEF TooOld
  <2>2. n < Len(s) => s[n + 1] < span - 1
    BY <1>2 DEF TooOld
  <2>3. ASSUME NEW i \in 1..(Len(s) - n) PROVE s[n + i] + 1 \in 0..(span - 1)
    <3>1. n + 1 \in 1..Len(s) /\ n + i \in 1..Len(s)
      BY <1>1
    <3>2. s[n + i] <= s[n + 1]
      BY <1>1, <3>1 DEF Descends
    <3>3. QED
      BY <1>1, <2>2, <3>1, <3>2
  <2> HIDE DEF young
  <2>4. OlderAges(s, span) \in Ages(span)
    <3>1. Len(young) \in Nat /\ \A i \in 1..Len(young) : young[i] + 1 \in 0..(span - 1)
      <4>1. Len(young) \in Nat
        BY <1>3
      <4>2. ASSUME NEW i \in 1..Len(young) PROVE young[i] + 1 \in 0..(span - 1)
        <5>1. i \in 1..(Len(s) - n) /\ young[i] = s[n + i]
          BY <1>3
        <5>2. QED
          BY <2>3, <5>1
      <4>3. QED
        BY <4>1, <4>2
    <3>2. QED
      BY <1>4, <3>1 DEF Ages
  <2>5. /\ Len(OlderAges(s, span)) = Len(s) - n
        /\ \A i \in 1..(Len(s) - n) : OlderAges(s, span)[i] = s[n + i] + 1
    BY <1>1, <1>3, <1>4, SMTT(30)
  <2>6. QED
    BY <2>1, <2>4, <2>5

(* What is dropped of the requests was noted for no code in the window.    *)
LEMMA PurgeCovers ==
  ASSUME NEW o \in Seq(0..OtpWindow), NEW s \in Ages(OtpWindow), Descends(o), Covers(o, s)
  PROVE  /\ Within(o, OtpWindow) \in Seq(0..OtpWindow)
         /\ Len(Within(o, OtpWindow)) <= Len(o)
         /\ Descends(Within(o, OtpWindow))
         /\ Covers(Within(o, OtpWindow), s)
<1> DEFINE young == Within(o, OtpWindow)
<1>1. /\ OtpWindow \in Nat /\ o \in Seq(Nat) /\ Len(o) \in Nat /\ Len(s) \in Nat
      /\ \A i \in 1..Len(o) : o[i] \in 0..OtpWindow
      /\ \A i \in 1..Len(s) : s[i] \in 0..(OtpWindow - 1)
  BY LimitAssumption, SMTT(30) DEF Ages
<1>2. PICK n \in 0..Len(o) : TooOld(o, OtpWindow, n) /\ young = SubSeq(o, n + 1, Len(o))
  BY <1>1, WithinIsEnd
<1> HIDE DEF young
<1>3. /\ young \in Seq(0..OtpWindow) /\ Len(young) = Len(o) - n
      /\ \A i \in 1..Len(young) : young[i] = o[n + i]
  BY <1>2, EndOfList
<1>4. Len(s) <= Len(o) - n
  <2>1. CASE Len(s) > 0
    <3>1. o[Len(o) - Len(s) + 1] <= s[1] /\ s[1] < OtpWindow
      BY <1>1, <2>1 DEF Covers
    <3>2. Len(o) - Len(s) + 1 \in 1..Len(o)
      BY <1>1, <2>1 DEF Covers
    <3>3. Len(o) - Len(s) + 1 \notin 1..n
      BY <1>1, <1>2, <3>1, <3>2 DEF TooOld
    <3>4. QED
      BY <1>1, <3>2, <3>3
  <2>2. QED
    BY <1>1, <2>1
<1>5. Descends(young)
  <2>1. ASSUME NEW i \in 1..Len(young), NEW j \in 1..Len(young), i < j
        PROVE  young[i] >= young[j]
    <3>1. n + i \in 1..Len(o) /\ n + j \in 1..Len(o) /\ n + i < n + j
      BY <1>1, <1>3, <2>1
    <3>2. o[n + i] >= o[n + j]
      BY <3>1 DEF Descends
    <3>3. QED
      BY <1>3, <3>2
  <2>2. QED
    BY <2>1 DEF Descends
<1>6. Covers(young, s)
  <2>1. ASSUME NEW i \in 1..Len(s)
        PROVE  young[Len(young) - Len(s) + i] <= s[i]
    <3>1. Len(young) - Len(s) + i \in 1..Len(young)
      BY <1>1, <1>3, <1>4
    <3>2. young[Len(young) - Len(s) + i] = o[Len(o) - Len(s) + i]
      <4> DEFINE k == Len(young) - Len(s) + i
      <4>1. young[k] = o[n + k]
        BY <1>3, <3>1
      <4>2. n + k = Len(o) - Len(s) + i
        BY <1>1, <1>3
      <4>3. QED
        BY <4>1, <4>2
    <3>3. QED
      BY <3>2 DEF Covers
  <2>2. QED
    BY <1>1, <1>3, <1>4, <2>1 DEF Covers
<1>7. QED
  BY <1>1, <1>3, <1>5, <1>6 DEF young

(* Cleaning up leaves an entry what it knows, and so does touching it.     *)
LEMMA PurgedKnows ==
  ASSUME NEW e, NEW s \in Ages(OtpWindow), NEW g \in Ages(LoginLock), Knows(e, s, g)
  PROVE  Knows(Purged(e), s, g) /\ Knows([Purged(e) EXCEPT !.idle = 0], s, g)
<1> DEFINE o == Within(e.otpRequests, OtpWindow)
<1>1. /\ e \in EntryType /\ e.otpRequests \in Seq(0..OtpWindow) /\ Len(e.otpRequests) \in Nat
      /\ OtpWindow \in Nat /\ OtpWindowLimit \in Nat
  BY LimitAssumption DEF Knows, EntryType
<1>2. /\ o \in Seq(0..OtpWindow) /\ Len(o) <= Len(e.otpRequests) /\ Len(o) \in Nat
      /\ Descends(o) /\ Covers(o, s)
  BY <1>1, PurgeCovers DEF Knows
<1> HIDE DEF o
<1>3. Purged(e) = [e EXCEPT !.otpRequests = o]
  BY DEF Purged, o
<1>4. ASSUME NEW n \in {0, e.idle}, NEW f,
             f = [otpRequests |-> o, failedLogins |-> e.failedLogins,
                  lockedFor |-> e.lockedFor, idle |-> n]
      PROVE  Knows(f, s, g)
  <2>1. /\ f \in EntryType /\ f.otpRequests = o /\ f.failedLogins = e.failedLogins
        /\ f.lockedFor = e.lockedFor /\ f.idle \in {0, e.idle}
    <3>1. n \in 0..OtpWindow
      BY <1>1 DEF EntryType
    <3>2. QED
      BY <1>1, <1>2, <1>4, <3>1 DEF EntryType
  <2>2. \A i \in 1..Len(g) : g[i] \in Nat
    BY LimitAssumption DEF Ages
  <2>3. \A i \in 1..Len(g) : g[i] >= f.idle
    BY <2>1, <2>2 DEF Knows
  <2>4. Len(o) <= OtpWindowLimit
    BY <1>1, <1>2 DEF Knows
  <2>5. QED
    BY <1>2, <2>1, <2>3, <2>4 DEF Knows
<1>5. /\ Purged(e) = [otpRequests |-> o, failedLogins |-> e.failedLogins,
                       lockedFor |-> e.lockedFor, idle |-> e.idle]
      /\ [Purged(e) EXCEPT !.idle = 0] =
           [otpRequests |-> o, failedLogins |-> e.failedLogins,
            lockedFor |-> e.lockedFor, idle |-> 0]
  <2>1. Purged(e) = [otpRequests |-> o, failedLogins |-> e.failedLogins,
                     lockedFor |-> e.lockedFor, idle |-> e.idle]
    BY <1>1, <1>3 DEF EntryType
  <2>2. QED
    BY <2>1
<1>6. QED
  BY <1>4, <1>5

(* An entry is dropped as stale when nothing in it counts any more.        *)
LEMMA StaleKnowsNothing ==
  ASSUME NEW e, NEW s \in Ages(OtpWindow), NEW g \in Ages(LoginLock), Knows(e, s, g), Stale(e)
  PROVE  s = <<>> /\ g = <<>>
<1>1. /\ e \in EntryType /\ e.otpRequests \in Seq(0..OtpWindow)
      /\ OtpWindow \in Nat /\ LoginLock \in Nat /\ LoginLock <= OtpWindow
  BY LimitAssumption DEF Knows, EntryType
<1>2. Within(e.otpRequests, OtpWindow) = <<>>
  BY <1>1 DEF Stale, Purged, EntryType
<1>3. Covers(<<>>, s)
  BY <1>1, <1>2, PurgeCovers DEF Knows
<1>4. Len(s) = 0
  BY <1>3 DEF Covers, Ages
<1>5. Len(g) = 0
  <2>1. CASE Len(g) > 0
    <3>1. g[1] < LoginLock /\ g[1] \in Nat
      BY <1>1, <2>1 DEF Ages
    <3>2. g[1] >= e.idle /\ e.idle >= OtpWindow
      BY <1>1, <2>1 DEF Knows, Stale, Ages
    <3>3. QED
      BY <1>1, <3>1, <3>2 DEF EntryType
  <2>2. QED
    BY <2>1 DEF Ages
<1>6. QED
  BY <1>4, <1>5 DEF Ages

(* What the limiter has dropped or evicted counts for nothing.             *)
LEMMA RememberedRight ==
  ASSUME CodesInv, NEW K, K \subseteq NotStale
  PROVE  /\ Remembered(K, sent) \in [Phones -> Ages(OtpWindow)]
         /\ Remembered(K, guessed) \in [Phones -> Ages(LoginLock)]
         /\ \A q \in K \cap Phones : /\ Remembered(K, sent)[q] = sent[q]
                                     /\ Remembered(K, guessed)[q] = guessed[q]
                                     /\ Knows(entries[q], sent[q], guessed[q])
         /\ \A q \in Phones \ K : Remembered(K, sent)[q] = <<>> /\ Remembered(K, guessed)[q] = <<>>
<1>1. <<>> \in Ages(OtpWindow) /\ <<>> \in Ages(LoginLock)
  BY DEF Ages
<1>2. ASSUME NEW q \in Phones PROVE sent[q] \in Ages(OtpWindow) /\ guessed[q] \in Ages(LoginLock)
  BY DEF CodesInv
<1>3. /\ Remembered(K, sent) \in [Phones -> Ages(OtpWindow)]
      /\ Remembered(K, guessed) \in [Phones -> Ages(LoginLock)]
  BY <1>1, <1>2 DEF Remembered
<1>4. ASSUME NEW q \in K \cap Phones
      PROVE  /\ Remembered(K, sent)[q] = sent[q]
             /\ Remembered(K, guessed)[q] = guessed[q]
             /\ Knows(entries[q], sent[q], guessed[q])
  BY DEF Remembered, NotStale, CodesInv, EntryOK
<1>5. ASSUME NEW q \in Phones \ K
      PROVE  Remembered(K, sent)[q] = <<>> /\ Remembered(K, guessed)[q] = <<>>
  <2>1. CASE q \in NotStale
    BY <2>1 DEF Remembered
  <2>2. CASE q \in DOMAIN entries /\ Stale(entries[q])
    <3>1. Knows(entries[q], sent[q], guessed[q])
      BY <2>2 DEF CodesInv, EntryOK
    <3>2. sent[q] = <<>> /\ guessed[q] = <<>>
      BY <1>2, <2>2, <3>1, StaleKnowsNothing
    <3>3. QED
      BY <3>2 DEF Remembered
  <2>3. CASE q \notin DOMAIN entries
    <3>1. sent[q] = <<>> /\ guessed[q] = <<>>
      BY <2>3 DEF CodesInv, EntryOK
    <3>2. QED
      BY <3>1 DEF Remembered
  <2>4. QED
    BY <2>1, <2>2, <2>3 DEF NotStale
<1>6. QED
  BY <1>3, <1>4, <1>5

(* A new entry knows of nothing.                                           *)
LEMMA NewEntryKnows == Knows(NewEntry, <<>>, <<>>)
<1>1. <<>> \in Seq(0..OtpWindow) /\ Len(<<>>) = 0
  OBVIOUS
<1>2. NewEntry \in EntryType /\ NewEntry.otpRequests = <<>>
  BY <1>1, LimitAssumption DEF NewEntry, EntryType
<1>3. QED
  BY <1>1, <1>2, LimitAssumption DEF Knows, Descends, Covers, NewEntry

(* The entry a call works with knows what is remembered of its phone.      *)
LEMMA EntryInKnows ==
  ASSUME CodesInv, NEW K, K \subseteq NotStale, NEW p \in Phones
  PROVE  Knows(EntryIn(K, p), Remembered(K, sent)[p], Remembered(K, guessed)[p])
<1>1. sent[p] \in Ages(OtpWindow) /\ guessed[p] \in Ages(LoginLock)
  BY DEF CodesInv
<1>2. CASE p \in K
  <2>1. /\ Remembered(K, sent)[p] = sent[p] /\ Remembered(K, guessed)[p] = guessed[p]
        /\ Knows(entries[p], sent[p], guessed[p])
    BY <1>2, RememberedRight
  <2>2. QED
    BY <1>1, <1>2, <2>1, PurgedKnows DEF EntryIn
<1>3. CASE p \notin K
  <2>1. Remembered(K, sent)[p] = <<>> /\ Remembered(K, guessed)[p] = <<>>
    BY <1>3, RememberedRight
  <2>2. QED
    BY <1>3, <2>1, NewEntryKnows DEF EntryIn
<1>4. QED
  BY <1>2, <1>3

(* A call stores an entry that knows what has happened, and evicts or      *)
(* drops others.                                                           *)
LEMMA StoreStands ==
  ASSUME CodesInv, NEW K, K \subseteq NotStale, NEW p \in Phones, NEW e,
         NEW s \in Ages(OtpWindow), NEW g \in Ages(LoginLock), Store(K, p, e),
         sent' = [Remembered(K, sent) EXCEPT ![p] = s],
         guessed' = [Remembered(K, guessed) EXCEPT ![p] = g],
         Spaced(s), Descends(g), Knows(e, s, g)
  PROVE  CodesInv'
<1>1. /\ Remembered(K, sent) \in [Phones -> Ages(OtpWindow)]
      /\ Remembered(K, guessed) \in [Phones -> Ages(LoginLock)]
  BY RememberedRight
<1>2. /\ sent' \in [Phones -> Ages(OtpWindow)] /\ guessed' \in [Phones -> Ages(LoginLock)]
      /\ sent'[p] = s /\ guessed'[p] = g
      /\ \A q \in Phones \ {p} : /\ sent'[q] = Remembered(K, sent)[q]
                                 /\ guessed'[q] = Remembered(K, guessed)[q]
  BY <1>1
<1>3. entries' = [q \in K \cup {p} |-> IF q = p THEN e ELSE Purged(entries[q])]
  BY DEF Store
<1>4. Spaced(s)' /\ Descends(g)' /\ EntryOK(p)'
  BY <1>2, <1>3 DEF EntryOK
<1>5. ASSUME NEW q \in Phones \ {p}, q \in K
      PROVE  Spaced(sent'[q]) /\ Descends(guessed'[q]) /\ EntryOK(q)'
  <2>1. /\ sent'[q] = sent[q] /\ guessed'[q] = guessed[q]
        /\ Knows(entries[q], sent[q], guessed[q])
    BY <1>2, <1>5, RememberedRight
  <2>2. sent[q] \in Ages(OtpWindow) /\ guessed[q] \in Ages(LoginLock)
    BY DEF CodesInv
  <2>3. Knows(Purged(entries[q]), sent[q], guessed[q])
    BY <2>1, <2>2, PurgedKnows
  <2>4. q \in DOMAIN entries' /\ entries'[q] = Purged(entries[q])
    BY <1>3, <1>5
  <2>5. QED
    BY <2>1, <2>3, <2>4 DEF EntryOK, CodesInv
<1>6. ASSUME NEW q \in Phones \ {p}, q \notin K
      PROVE  Spaced(sent'[q]) /\ Descends(guessed'[q]) /\ EntryOK(q)'
  <2>1. sent'[q] = <<>> /\ guessed'[q] = <<>>
    BY <1>2, <1>6, RememberedRight
  <2>2. q \notin DOMAIN entries'
    BY <1>3, <1>6
  <2>3. QED
    BY <2>1, <2>2 DEF EntryOK, Spaced, Descends
<1>7. QED
  BY <1>2, <1>4, <1>5, <1>6 DEF CodesInv

(* A call that the limiter refuses, or that changes nothing it counts.     *)
LEMMA TouchStands ==
  ASSUME CodesInv, NEW K, K \subseteq NotStale, NEW p \in Phones, Touch(K, p)
  PROVE  CodesInv'
<1> DEFINE s == Remembered(K, sent)[p]
           g == Remembered(K, guessed)[p]
<1>1. /\ Remembered(K, sent) \in [Phones -> Ages(OtpWindow)]
      /\ Remembered(K, guessed) \in [Phones -> Ages(LoginLock)]
      /\ s \in Ages(OtpWindow) /\ g \in Ages(LoginLock)
      /\ Knows(EntryIn(K, p), s, g)
  BY RememberedRight, EntryInKnows
<1>2. Spaced(s) /\ Descends(g)
  BY RememberedRight DEF CodesInv, Spaced, Descends
<1>3. /\ sent' = [Remembered(K, sent) EXCEPT ![p] = s]
      /\ guessed' = [Remembered(K, guessed) EXCEPT ![p] = g]
      /\ Store(K, p, EntryIn(K, p))
  BY <1>1 DEF Touch
<1>4. QED
  BY <1>1, <1>2, <1>3, StoreStands

(* A request that is noted, for a code that is sent or is not.             *)
LEMMA WithRequestKnows ==
  ASSUME NEW e, NEW s \in Ages(OtpWindow), NEW g \in Ages(LoginLock), Knows(e, s, g),
         AllowsOtp(e), Spaced(s)
  PROVE  /\ Knows(WithRequest(e), s, g)
         /\ Append(s, 0) \in Ages(OtpWindow)
         /\ Spaced(Append(s, 0))
         /\ Knows(WithRequest(e), Append(s, 0), g)
<1> DEFINE o == e.otpRequests
           r == Append(o, 0)
           c == Append(s, 0)
<1>1. /\ e \in EntryType /\ o \in Seq(0..OtpWindow) /\ Len(o) \in Nat /\ Len(s) \in Nat
      /\ Descends(o) /\ Covers(o, s) /\ Len(o) <= OtpWindowLimit
      /\ OtpWindow \in Nat \ {0} /\ OtpWindowLimit \in Nat /\ OtpInterval \in Nat
      /\ \A i \in 1..Len(o) : o[i] \in 0..OtpWindow
      /\ \A i \in 1..Len(s) : s[i] \in 0..(OtpWindow - 1)
  <2>1. e \in EntryType /\ Descends(o) /\ Covers(o, s) /\ Len(o) <= OtpWindowLimit
    BY DEF Knows
  <2>2. OtpWindow \in Nat \ {0} /\ OtpWindowLimit \in Nat /\ OtpInterval \in Nat
    BY LimitAssumption
  <2>3. o \in Seq(0..OtpWindow)
    BY <2>1 DEF EntryType
  <2> HIDE DEF o
  <2>4. QED
    BY <2>1, <2>2, <2>3 DEF Ages
<1>2. Len(o) < OtpWindowLimit /\ (Len(o) > 0 => o[Len(o)] >= OtpInterval)
  BY <1>1 DEF AllowsOtp
<1> HIDE DEF o
<1>3. /\ r \in Seq(0..OtpWindow) /\ Len(r) = Len(o) + 1
      /\ \A i \in 1..Len(o) : r[i] = o[i]
      /\ r[Len(o) + 1] = 0
  BY <1>1
<1>4. /\ c \in Ages(OtpWindow) /\ Len(c) = Len(s) + 1
      /\ \A i \in 1..Len(s) : c[i] = s[i]
      /\ c[Len(s) + 1] = 0
  BY <1>1 DEF Ages
<1> HIDE DEF r, c
<1>5. Descends(r)
  <2>1. ASSUME NEW i \in 1..Len(r), NEW j \in 1..Len(r), i < j
        PROVE  r[i] >= r[j]
    <3>1. i \in 1..Len(o)
      BY <1>1, <1>3, <2>1
    <3>2. CASE j \in 1..Len(o)
      BY <1>1, <1>3, <2>1, <3>1, <3>2 DEF Descends
    <3>3. CASE j = Len(o) + 1
      BY <1>1, <1>3, <3>1, <3>3
    <3>4. QED
      BY <1>1, <1>3, <3>2, <3>3
  <2>2. QED
    BY <2>1 DEF Descends
<1>6. Covers(r, c)
  <2>1. ASSUME NEW i \in 1..Len(c) PROVE r[Len(r) - Len(c) + i] <= c[i]
    <3>1. CASE i = Len(s) + 1
      BY <1>1, <1>3, <1>4, <3>1
    <3>2. CASE i \in 1..Len(s)
      <4>1. Len(o) - Len(s) + i \in 1..Len(o) /\ Len(r) - Len(c) + i = Len(o) - Len(s) + i
        BY <1>1, <1>3, <1>4, <3>2 DEF Covers
      <4>2. o[Len(o) - Len(s) + i] <= s[i]
        BY <1>1, <3>2 DEF Covers
      <4>3. QED
        BY <1>3, <1>4, <3>2, <4>1, <4>2
    <3>3. QED
      BY <1>1, <1>4, <3>1, <3>2, SMTT(30)
  <2>2. QED
    BY <1>1, <1>3, <1>4, <2>1 DEF Covers
<1>7. Covers(r, s)
  <2>1. ASSUME NEW i \in 1..Len(s) PROVE r[Len(r) - Len(s) + i] <= s[i]
    <3>1. CASE i = Len(s)
      BY <1>1, <1>3, <3>1
    <3>2. CASE i < Len(s)
      <4> DEFINE k == Len(o) - Len(s) + i
      <4>1. k \in 1..Len(o) /\ k + 1 \in 1..Len(o) /\ Len(r) - Len(s) + i = k + 1
        BY <1>1, <1>3, <3>2, SMTT(30) DEF Covers
      <4>2. o[k] <= s[i]
        BY <1>1 DEF Covers
      <4> HIDE DEF k
      <4>3. o[k + 1] <= o[k] /\ o[k + 1] \in Nat /\ o[k] \in Nat /\ s[i] \in Nat
        BY <1>1, <4>1 DEF Descends
      <4>4. QED
        BY <1>3, <4>1, <4>2, <4>3
    <3>3. QED
      BY <1>1, <3>1, <3>2
  <2>2. QED
    BY <1>1, <1>3, <2>1 DEF Covers
<1>8. Spaced(c)
  <2>1. ASSUME NEW i \in 1..Len(c), NEW j \in 1..Len(c), i < j
        PROVE  c[i] - c[j] >= OtpInterval
    <3>1. i \in 1..Len(s)
      BY <1>1, <1>4, <2>1
    <3>2. CASE j \in 1..Len(s)
      BY <1>4, <2>1, <3>1, <3>2 DEF Spaced
    <3>3. CASE j = Len(s) + 1
      <4> DEFINE k == Len(o) - Len(s) + i
      <4>1. k \in 1..Len(o) /\ o[k] <= s[i] /\ Len(o) \in 1..Len(o)
        BY <1>1, <3>1 DEF Covers
      <4> HIDE DEF k
      <4>2. o[Len(o)] <= o[k]
        <5>1. CASE k = Len(o)
          BY <1>1, <4>1, <5>1
        <5>2. CASE k < Len(o)
          BY <1>1, <4>1, <5>2 DEF Descends
        <5>3. QED
          BY <1>1, <4>1, <5>1, <5>2
      <4>3. s[i] >= OtpInterval
        BY <1>1, <1>2, <3>1, <4>1, <4>2, SMTT(30)
      <4>4. QED
        BY <1>1, <1>4, <3>1, <3>3, <4>3
    <3>4. QED
      BY <1>1, <1>4, <3>2, <3>3
  <2>2. QED
    BY <2>1 DEF Spaced
<1>9. WithRequest(e) = [otpRequests |-> r, failedLogins |-> e.failedLogins,
                        lockedFor |-> e.lockedFor, idle |-> e.idle]
  <2>1. WithRequest(e) = [e EXCEPT !.otpRequests = r]
    BY DEF WithRequest, r, o
  <2>2. QED
    BY <1>1, <2>1 DEF EntryType
<1>10. WithRequest(e) \in EntryType
  BY <1>1, <1>3, <1>9 DEF EntryType
<1>11. Len(r) <= OtpWindowLimit
  BY <1>1, <1>2, <1>3
<1>12. Knows(WithRequest(e), s, g) /\ Knows(WithRequest(e), c, g)
  BY <1>5, <1>6, <1>7, <1>9, <1>10, <1>11 DEF Knows
<1>13. QED
  BY <1>4, <1>8, <1>12 DEF c

(* One more wrong guess, which may lock the phone.                         *)
LEMMA WithFailureKnows ==
  ASSUME NEW e, NEW s, NEW g \in Ages(LoginLock), Knows(e, s, g),
         e.lockedFor = 0, Descends(g)
  PROVE  /\ Append(g, 0) \in Ages(LoginLock)
         /\ Descends(Append(g, 0))
         /\ e.idle = 0 => Knows(WithFailure(e), s, Append(g, 0))
<1> DEFINE h == Append(g, 0)
           f == WithFailure(e)
<1>1. /\ e \in EntryType /\ Len(g) \in Nat /\ Len(g) <= e.failedLogins
      /\ e.failedLogins \in 0..(LoginFailureLimit - 1)
      /\ LoginLock \in Nat \ {0} /\ LoginFailureLimit \in Nat \ {0}
      /\ \A i \in 1..Len(g) : g[i] \in 0..(LoginLock - 1)
  BY LimitAssumption, SMTT(30) DEF Knows, EntryType, Ages
<1>2. /\ h \in Ages(LoginLock) /\ Len(h) = Len(g) + 1
      /\ \A i \in 1..Len(g) : h[i] = g[i]
      /\ h[Len(g) + 1] = 0
  BY <1>1 DEF Ages
<1> HIDE DEF h
<1>3. Descends(h)
  <2>1. ASSUME NEW i \in 1..Len(h), NEW j \in 1..Len(h), i < j
        PROVE  h[i] >= h[j]
    <3>1. i \in 1..Len(g)
      BY <1>1, <1>2, <2>1
    <3>2. CASE j \in 1..Len(g)
      BY <1>1, <1>2, <2>1, <3>1, <3>2 DEF Descends
    <3>3. CASE j = Len(g) + 1
      BY <1>1, <1>2, <3>1, <3>3
    <3>4. QED
      BY <1>1, <1>2, <3>2, <3>3
  <2>2. QED
    BY <2>1 DEF Descends
<1>4. ASSUME e.idle = 0 PROVE Knows(f, s, h)
  <2>1. \A i \in 1..Len(h) : h[i] >= 0
    BY <1>1, <1>2
  <2>2. CASE e.failedLogins + 1 < LoginFailureLimit
    <3>1. /\ f \in EntryType /\ f.otpRequests = e.otpRequests /\ f.idle = 0
          /\ f.lockedFor = 0 /\ f.failedLogins = e.failedLogins + 1
      BY <1>1, <1>4, <2>2 DEF WithFailure, EntryType
    <3> HIDE DEF f
    <3>2. Len(h) <= f.failedLogins
      BY <1>1, <1>2, <3>1
    <3>3. QED
      BY <2>1, <3>1, <3>2 DEF Knows
  <2>3. CASE ~(e.failedLogins + 1 < LoginFailureLimit)
    <3>1. /\ f \in EntryType /\ f.otpRequests = e.otpRequests /\ f.idle = 0
          /\ f.lockedFor = LoginLock /\ f.failedLogins = 0
      <4>1. f = [[e EXCEPT !.failedLogins = 0] EXCEPT !.lockedFor = LoginLock]
        BY <2>3 DEF WithFailure
      <4> HIDE DEF f
      <4>2. [e EXCEPT !.failedLogins = 0] =
              [otpRequests |-> e.otpRequests, failedLogins |-> 0, lockedFor |-> e.lockedFor,
               idle |-> e.idle]
        BY <1>1 DEF EntryType
      <4>3. f = [otpRequests |-> e.otpRequests, failedLogins |-> 0, lockedFor |-> LoginLock,
                 idle |-> e.idle]
        BY <4>1, <4>2
      <4>4. QED
        BY <1>1, <1>4, <4>3 DEF EntryType
    <3> HIDE DEF f
    <3>2. Len(h) <= LoginFailureLimit /\ LoginLock - f.lockedFor = 0 /\ f.lockedFor > 0
      BY <1>1, <1>2, <3>1
    <3>3. QED
      BY <2>1, <3>1, <3>2 DEF Knows
  <2>4. QED
    BY <2>2, <2>3
<1>5. QED
  BY <1>2, <1>3, <1>4 DEF h

(* Each call keeps the invariant.                                          *)
LEMMA RequestOtpStands == ASSUME CodesInv, NEW p \in Phones, RequestOtp(p) PROVE CodesInv'
<1>1. PICK K \in CleanedUp :
        LET e == EntryIn(K, p) IN
        /\ AllowsOtp(e)
        /\ Store(K, p, WithRequest(e))
        /\ guessed' = Remembered(K, guessed)
        /\ IF code[p].age < ResendTime
           THEN sent' = Remembered(K, sent)
           ELSE sent' = [Remembered(K, sent) EXCEPT ![p] = Append(@, 0)]
  BY DEF RequestOtp
<1> DEFINE e == EntryIn(K, p)
           s == Remembered(K, sent)[p]
           g == Remembered(K, guessed)[p]
<1>2. K \subseteq NotStale
  BY <1>1 DEF CleanedUp, Survivors
<1>3. /\ Remembered(K, sent) \in [Phones -> Ages(OtpWindow)]
      /\ Remembered(K, guessed) \in [Phones -> Ages(LoginLock)]
      /\ s \in Ages(OtpWindow) /\ g \in Ages(LoginLock) /\ Knows(e, s, g)
  BY <1>2, RememberedRight, EntryInKnows
<1>4. Spaced(s) /\ Descends(g)
  BY <1>2, RememberedRight DEF CodesInv, Spaced, Descends
<1>5. AllowsOtp(e) /\ Store(K, p, WithRequest(e))
  BY <1>1
<1>6. /\ guessed' = [Remembered(K, guessed) EXCEPT ![p] = g]
      /\ \/ sent' = [Remembered(K, sent) EXCEPT ![p] = s]
         \/ sent' = [Remembered(K, sent) EXCEPT ![p] = Append(s, 0)]
  BY <1>1, <1>3
<1> HIDE DEF e, s, g
<1>7. /\ Knows(WithRequest(e), s, g) /\ Knows(WithRequest(e), Append(s, 0), g)
      /\ Append(s, 0) \in Ages(OtpWindow) /\ Spaced(Append(s, 0))
  BY <1>3, <1>4, <1>5, WithRequestKnows
<1>8. QED
  BY <1>2, <1>3, <1>4, <1>5, <1>6, <1>7, StoreStands

(* The calls that only touch the entry.                                    *)
LEMMA TouchesStand ==
  ASSUME CodesInv, NEW p \in Phones,
         RequestOtpRefused(p) \/ LoginLocked(p) \/ LoginTooLate(p) \/ LoginRefused(p)
  PROVE  CodesInv'
<1>1. PICK K \in CleanedUp : Touch(K, p)
  BY DEF RequestOtpRefused, LoginLocked, LoginTooLate, LoginRefused
<1>2. K \subseteq NotStale
  BY DEF CleanedUp, Survivors
<1>3. QED
  BY <1>1, <1>2, TouchStands

(* A wrong code.                                                           *)
LEMMA LoginWrongStands == ASSUME CodesInv, NEW p \in Phones, LoginWrong(p) PROVE CodesInv'
<1>1. PICK K \in CleanedUp : \E L \in Survivors(K \ {p}, MaximumEntries - 1) :
        /\ EntryIn(K, p).lockedFor = 0
        /\ Store(L, p, WithFailure(EntryIn(K, p)))
        /\ sent' = Remembered(IF p \in K THEN L \cup {p} ELSE L, sent)
        /\ guessed' = [Remembered(IF p \in K THEN L \cup {p} ELSE L, guessed)
                         EXCEPT ![p] = Append(@, 0)]
  BY DEF LoginWrong
<1>2. PICK L \in Survivors(K \ {p}, MaximumEntries - 1) :
        /\ EntryIn(K, p).lockedFor = 0
        /\ Store(L, p, WithFailure(EntryIn(K, p)))
        /\ sent' = Remembered(IF p \in K THEN L \cup {p} ELSE L, sent)
        /\ guessed' = [Remembered(IF p \in K THEN L \cup {p} ELSE L, guessed)
                         EXCEPT ![p] = Append(@, 0)]
  BY <1>1
<1> DEFINE M == IF p \in K THEN L \cup {p} ELSE L
           e == EntryIn(K, p)
           s == Remembered(M, sent)[p]
           g == Remembered(M, guessed)[p]
<1>3. K \subseteq NotStale /\ L \subseteq K \ {p}
  BY DEF CleanedUp, Survivors
<1>4. /\ M \subseteq NotStale /\ M \cup {p} = L \cup {p}
      /\ p \in M <=> p \in K
  BY <1>3
<1>5. /\ sent' = Remembered(M, sent)
      /\ guessed' = [Remembered(M, guessed) EXCEPT ![p] = Append(g, 0)]
      /\ Store(L, p, WithFailure(e)) /\ e.lockedFor = 0
  BY <1>2
<1> HIDE DEF M
<1>6. Store(M, p, WithFailure(e))
  BY <1>4, <1>5 DEF Store
<1>7. e = EntryIn(M, p)
  BY <1>4 DEF EntryIn
<1>8. /\ Remembered(M, sent) \in [Phones -> Ages(OtpWindow)]
      /\ Remembered(M, guessed) \in [Phones -> Ages(LoginLock)]
      /\ s \in Ages(OtpWindow) /\ g \in Ages(LoginLock) /\ Knows(e, s, g)
  BY <1>4, <1>7, RememberedRight, EntryInKnows
<1>9. Spaced(s) /\ Descends(g)
  BY <1>4, RememberedRight DEF CodesInv, Spaced, Descends
<1>10. e.idle = 0
  <2>1. CASE p \in K
    <3>1. Knows(entries[p], sent[p], guessed[p])
      BY <1>3, <2>1, RememberedRight
    <3>2. e = [Purged(entries[p]) EXCEPT !.idle = 0]
      BY <2>1 DEF EntryIn
    <3>3. QED
      BY <3>1, <3>2 DEF Knows, EntryType, Purged
  <2>2. CASE p \notin K
    BY <2>2 DEF EntryIn, NewEntry
  <2>3. QED
    BY <2>1, <2>2
<1>11. sent' = [Remembered(M, sent) EXCEPT ![p] = s]
  BY <1>5, <1>8
<1> HIDE DEF e, s, g
<1>12. /\ Append(g, 0) \in Ages(LoginLock) /\ Descends(Append(g, 0))
       /\ Knows(WithFailure(e), s, Append(g, 0))
  BY <1>5, <1>8, <1>9, <1>10, WithFailureKnows
<1>13. QED
  BY <1>4, <1>5, <1>6, <1>8, <1>9, <1>11, <1>12, StoreStands

(* The right code; the count of the phone begins anew.                     *)
LEMMA LoginAcceptedStands == ASSUME CodesInv, NEW p \in Phones, LoginAccepted(p) PROVE CodesInv'
<1>1. PICK K \in CleanedUp :
        /\ Store(K, p, NewEntry)
        /\ sent' = [Remembered(K, sent) EXCEPT ![p] = <<>>]
        /\ guessed' = [Remembered(K, guessed) EXCEPT ![p] = <<>>]
  BY DEF LoginAccepted
<1>2. K \subseteq NotStale
  BY DEF CleanedUp, Survivors
<1>3. /\ <<>> \in Ages(OtpWindow) /\ <<>> \in Ages(LoginLock)
      /\ Spaced(<<>>) /\ Descends(<<>>)
  BY DEF Ages, Spaced, Descends
<1>4. QED
  BY <1>1, <1>2, <1>3, NewEntryKnows, StoreStands

(* As time passes an entry knows what is left of the histories.            *)
LEMMA OlderKnows ==
  ASSUME NEW e, NEW s \in Ages(OtpWindow), NEW g \in Ages(LoginLock), Knows(e, s, g),
         Descends(s), Descends(g)
  PROVE  Knows(OlderEntry(e), OlderAges(s, OtpWindow), OlderAges(g, LoginLock))
<1> DEFINE o == e.otpRequests
           r == [i \in 1..Len(o) |-> Older(o[i], OtpWindow)]
           f == OlderEntry(e)
           t == OlderAges(s, OtpWindow)
           h == OlderAges(g, LoginLock)
<1>1. /\ OtpWindow \in Nat \ {0} /\ LoginLock \in Nat \ {0} /\ OtpWindowLimit \in Nat
      /\ LoginFailureLimit \in Nat \ {0} /\ LoginLock <= OtpWindow
  BY LimitAssumption
<1>2. /\ e \in EntryType /\ Descends(o) /\ Covers(o, s) /\ Len(o) <= OtpWindowLimit
      /\ \A i \in 1..Len(g) : g[i] >= e.idle
  BY DEF Knows
<1>3. /\ o \in Seq(0..OtpWindow) /\ e.failedLogins \in 0..(LoginFailureLimit - 1)
      /\ e.lockedFor \in 0..LoginLock /\ e.idle \in 0..OtpWindow
  BY <1>2 DEF EntryType
<1> HIDE DEF o
<1>4. /\ Len(o) \in Nat /\ Len(s) \in Nat /\ Len(g) \in Nat /\ DOMAIN o = 1..Len(o)
      /\ \A i \in 1..Len(o) : o[i] \in 0..OtpWindow
      /\ \A i \in 1..Len(s) : s[i] \in 0..(OtpWindow - 1)
      /\ \A i \in 1..Len(g) : g[i] \in 0..(LoginLock - 1)
  <2>1. /\ Len(o) \in Nat /\ DOMAIN o = 1..Len(o)
        /\ \A i \in 1..Len(o) : o[i] \in 0..OtpWindow
    BY <1>1, <1>3
  <2>2. Len(s) \in Nat /\ \A i \in 1..Len(s) : s[i] \in 0..(OtpWindow - 1)
    BY <1>1 DEF Ages
  <2>3. Len(g) \in Nat /\ \A i \in 1..Len(g) : g[i] \in 0..(LoginLock - 1)
    BY <1>1 DEF Ages
  <2>4. QED
    BY <2>1, <2>2, <2>3
<1>5. PICK n \in 0..Len(s) : /\ t \in Ages(OtpWindow) /\ Len(t) = Len(s) - n
                             /\ \A i \in 1..(Len(s) - n) : t[i] = s[n + i] + 1
  BY <1>1, OlderIsEnd
<1>6. PICK m \in 0..Len(g) : /\ h \in Ages(LoginLock) /\ Len(h) = Len(g) - m
                             /\ \A i \in 1..(Len(g) - m) : h[i] = g[m + i] + 1
  BY <1>1, OlderIsEnd
<1> HIDE DEF t, h
<1>7. /\ f.otpRequests = r /\ f.failedLogins = e.failedLogins
      /\ f.lockedFor = Less(e.lockedFor) /\ f.idle = Older(e.idle, OtpWindow)
      /\ f = [otpRequests |-> f.otpRequests, failedLogins |-> f.failedLogins,
              lockedFor |-> f.lockedFor, idle |-> f.idle]
  BY <1>4 DEF OlderEntry, o
<1>8. /\ \A i \in 1..Len(o) : r[i] = Older(o[i], OtpWindow) /\ r[i] \in 0..OtpWindow
      /\ r \in Seq(0..OtpWindow) /\ Len(r) = Len(o)
  <2>1. \A i \in 1..Len(o) : Older(o[i], OtpWindow) \in 0..OtpWindow
    BY <1>1, <1>4 DEF Older
  <2>2. QED
    BY <1>4, <2>1
<1> HIDE DEF r, f
<1>9. f \in EntryType
  <2>1. Less(e.lockedFor) \in 0..LoginLock /\ Older(e.idle, OtpWindow) \in 0..OtpWindow
    BY <1>1, <1>3, SMTT(30) DEF Less, Older
  <2>2. QED
    BY <1>3, <1>7, <1>8, <2>1 DEF EntryType
<1>10. Descends(r)
  <2>1. ASSUME NEW i \in 1..Len(r), NEW j \in 1..Len(r), i < j
        PROVE  r[i] >= r[j]
    <3>1. o[i] >= o[j] /\ o[i] \in 0..OtpWindow /\ o[j] \in 0..OtpWindow
      BY <1>2, <1>4, <1>8, <2>1 DEF Descends
    <3>2. QED
      BY <1>1, <1>8, <3>1, SMTT(30) DEF Older
  <2>2. QED
    BY <2>1 DEF Descends
<1>11. Covers(r, t)
  <2>1. ASSUME NEW i \in 1..Len(t) PROVE r[Len(r) - Len(t) + i] <= t[i]
    <3> DEFINE k == Len(o) - Len(s) + (n + i)
    <3>1. /\ n + i \in 1..Len(s) /\ Len(r) - Len(t) + i = k /\ k \in 1..Len(o)
          /\ t[i] = s[n + i] + 1
      BY <1>2, <1>4, <1>5, <1>8 DEF Covers
    <3>2. o[k] <= s[n + i]
      BY <1>2, <3>1 DEF Covers
    <3> HIDE DEF k
    <3>3. r[k] <= o[k] + 1 /\ o[k] \in Nat /\ s[n + i] \in Nat /\ r[k] \in Nat
      <4>1. o[k] \in 0..OtpWindow /\ r[k] = Older(o[k], OtpWindow) /\ s[n + i] \in Nat
        BY <1>1, <1>4, <1>8, <3>1, SMTT(30)
      <4>2. QED
        BY <1>1, <4>1 DEF Older
    <3>4. r[k] <= t[i]
      <4>1. t[i] = s[n + i] + 1
        BY <3>1
      <4>2. QED
        BY <3>2, <3>3, <4>1
    <3>5. r[Len(r) - Len(t) + i] = r[k]
      <4>1. Len(r) - Len(t) + i = k
        BY <3>1
      <4>2. QED
        BY <4>1, Zenon
    <3>6. QED
      BY <3>4, <3>5, Zenon
  <2>2. Len(t) <= Len(r)
    BY <1>2, <1>4, <1>5, <1>8 DEF Covers
  <2>3. QED
    BY <2>1, <2>2 DEF Covers
<1>12. ASSUME NEW i \in 1..Len(h)
       PROVE  /\ m + i \in 1..Len(g) /\ h[i] = g[m + i] + 1 /\ h[i] < LoginLock
              /\ g[m + i] \in Nat /\ h[i] >= f.idle
  <2>1. m + i \in 1..Len(g) /\ h[i] = g[m + i] + 1 /\ h[i] < LoginLock
    <3>1. m + i \in 1..Len(g) /\ h[i] = g[m + i] + 1
      BY <1>4, <1>6
    <3>2. h \in Seq(0..LoginLock - 1)
      BY <1>6 DEF Ages
    <3>3. h[i] \in 0..LoginLock - 1
      BY <1>1, <3>2, SMTT(30)
    <3>4. h[i] < LoginLock
      BY <1>1, <3>3
    <3>5. QED
      BY <3>1, <3>4
  <2>2. g[m + i] >= e.idle /\ g[m + i] \in Nat
    BY <1>2, <1>4, <2>1
  <2>3. QED
    BY <1>1, <1>3, <1>7, <2>1, <2>2, SMTT(30) DEF Older
<1>13. f.lockedFor = 0 => Len(h) <= f.failedLogins
  <2>1. CASE e.lockedFor = 0
    BY <1>3, <1>4, <1>6, <1>7, <2>1 DEF Knows
  <2>2. CASE e.lockedFor = 1
    <3>1. \A i \in 1..Len(g) : g[i] >= LoginLock - 1
      BY <2>2 DEF Knows
    <3>2. Len(h) = 0
      <4>1. CASE Len(h) > 0
        <5>1. /\ m + 1 \in 1..Len(g) /\ h[1] = g[m + 1] + 1 /\ h[1] < LoginLock
              /\ g[m + 1] \in Nat
          BY <1>4, <1>6, <1>12, <4>1
        <5>2. QED
          BY <1>1, <3>1, <5>1
      <4>2. QED
        BY <1>4, <1>6, <4>1
    <3>3. QED
      BY <1>3, <1>7, <3>2
  <2>3. QED
    BY <1>3, <1>7, <2>1, <2>2 DEF Less
<1>14. ASSUME f.lockedFor > 0
       PROVE  /\ Len(h) <= LoginFailureLimit /\ f.failedLogins = 0
              /\ \A i \in 1..Len(h) : h[i] >= LoginLock - f.lockedFor
  <2>1. e.lockedFor > 0 /\ f.lockedFor = e.lockedFor - 1
    BY <1>3, <1>7, <1>14 DEF Less
  <2>2. /\ Len(g) <= LoginFailureLimit /\ e.failedLogins = 0
        /\ \A i \in 1..Len(g) : g[i] >= LoginLock - e.lockedFor
    BY <2>1 DEF Knows
  <2>3. ASSUME NEW i \in 1..Len(h) PROVE h[i] >= LoginLock - f.lockedFor
    <3>1. m + i \in 1..Len(g) /\ h[i] = g[m + i] + 1 /\ g[m + i] \in Nat
      BY <1>12
    <3>2. g[m + i] >= LoginLock - e.lockedFor
      BY <2>2, <3>1
    <3>3. QED
      BY <1>1, <1>3, <2>1, <3>1, <3>2, SMTT(30)
  <2>4. Len(h) <= LoginFailureLimit
    BY <1>1, <1>4, <1>6, <2>2
  <2>5. QED
    BY <1>7, <2>2, <2>3, <2>4
<1>15. QED
  BY <1>2, <1>7, <1>8, <1>9, <1>10, <1>11, <1>12, <1>13, <1>14 DEF Knows, f, t, h

(* Time passes.                                                            *)
LEMMA TickStands == ASSUME CodesInv, Tick PROVE CodesInv'
<1>1. /\ sent' = [p \in Phones |-> OlderAges(sent[p], OtpWindow)]
      /\ guessed' = [p \in Phones |-> OlderAges(guessed[p], LoginLock)]
      /\ entries' = [p \in DOMAIN entries |-> OlderEntry(entries[p])]
      /\ OtpWindow \in Nat \ {0} /\ LoginLock \in Nat \ {0} /\ OtpInterval \in Nat
  BY LimitAssumption DEF Tick
<1>2. ASSUME NEW p \in Phones
      PROVE  /\ sent[p] \in Ages(OtpWindow) /\ guessed[p] \in Ages(LoginLock)
             /\ Spaced(sent[p]) /\ Descends(sent[p]) /\ Descends(guessed[p])
  <2>1. /\ sent[p] \in Ages(OtpWindow) /\ guessed[p] \in Ages(LoginLock)
        /\ Spaced(sent[p]) /\ Descends(guessed[p])
    BY DEF CodesInv
  <2>2. \A i \in 1..Len(sent[p]) : sent[p][i] \in Nat
    BY <1>1, <2>1 DEF Ages
  <2>3. Descends(sent[p])
    BY <1>1, <2>1, <2>2 DEF Spaced, Descends
  <2>4. QED
    BY <2>1, <2>3
<1>3. ASSUME NEW p \in Phones
      PROVE  /\ sent'[p] \in Ages(OtpWindow) /\ guessed'[p] \in Ages(LoginLock)
             /\ Spaced(sent'[p]) /\ Descends(guessed'[p])
             /\ sent[p] = <<>> => sent'[p] = <<>>
             /\ guessed[p] = <<>> => guessed'[p] = <<>>
  <2> DEFINE s == sent[p]
             g == guessed[p]
             t == OlderAges(s, OtpWindow)
             h == OlderAges(g, LoginLock)
  <2>0. s \in Ages(OtpWindow) /\ g \in Ages(LoginLock) /\ Spaced(s) /\ Descends(s) /\ Descends(g)
    BY <1>2
  <2> HIDE DEF s, g
  <2>1. /\ Len(s) \in Nat /\ Len(g) \in Nat
        /\ \A i \in 1..Len(s) : s[i] \in Nat
        /\ \A i \in 1..Len(g) : g[i] \in Nat
    BY <1>1, <2>0 DEF Ages
  <2>2. PICK n \in 0..Len(s) : /\ t \in Ages(OtpWindow) /\ Len(t) = Len(s) - n
                               /\ \A i \in 1..(Len(s) - n) : t[i] = s[n + i] + 1
    <3>1. OtpWindow \in Nat /\ OtpWindow > 0
      BY <1>1
    <3> HIDE DEF Ages, OlderAges
    <3>2. \E n \in 0..Len(s) :
            /\ OlderAges(s, OtpWindow) \in Ages(OtpWindow)
            /\ Len(OlderAges(s, OtpWindow)) = Len(s) - n
            /\ \A i \in 1..(Len(s) - n) : OlderAges(s, OtpWindow)[i] = s[n + i] + 1
            /\ \A i \in 1..n : s[i] = OtpWindow - 1
      BY <2>0, <3>1, OlderIsEnd
    <3>3. QED
      BY <3>2
  <2>3. PICK m \in 0..Len(g) : /\ h \in Ages(LoginLock) /\ Len(h) = Len(g) - m
                               /\ \A i \in 1..(Len(g) - m) : h[i] = g[m + i] + 1
    BY <1>1, <2>0, OlderIsEnd
  <2> HIDE DEF t, h
  <2>4. Spaced(t)
    <3>1. ASSUME NEW i \in 1..Len(t), NEW j \in 1..Len(t), i < j
          PROVE  t[i] - t[j] >= OtpInterval
      <4>1. /\ t[i] = s[n + i] + 1 /\ t[j] = s[n + j] + 1
            /\ n + i \in 1..Len(s) /\ n + j \in 1..Len(s) /\ n + i < n + j
        BY <2>1, <2>2, <3>1
      <4>2. s[n + i] - s[n + j] >= OtpInterval
        BY <2>0, <4>1 DEF Spaced
      <4>3. QED
        BY <1>1, <2>1, <4>1, <4>2, SMTT(30)
    <3>2. QED
      BY <3>1 DEF Spaced
  <2>5. Descends(h)
    <3>1. ASSUME NEW i \in 1..Len(h), NEW j \in 1..Len(h), i < j
          PROVE  h[i] >= h[j]
      <4>1. /\ h[i] = g[m + i] + 1 /\ h[j] = g[m + j] + 1
            /\ m + i \in 1..Len(g) /\ m + j \in 1..Len(g) /\ m + i < m + j
        BY <2>1, <2>3, <3>1
      <4>2. g[m + i] >= g[m + j]
        BY <2>0, <4>1 DEF Descends
      <4>3. QED
        BY <2>1, <4>1, <4>2
    <3>2. QED
      BY <3>1 DEF Descends
  <2>6. s = <<>> => t = <<>>
    BY <2>1, <2>2 DEF Ages
  <2>7. g = <<>> => h = <<>>
    BY <2>1, <2>3 DEF Ages
  <2>8. sent'[p] = t /\ guessed'[p] = h
    BY <1>1 DEF t, h, s, g
  <2>9. QED
    BY <2>2, <2>3, <2>4, <2>5, <2>6, <2>7, <2>8 DEF s, g
<1>4. ASSUME NEW p \in Phones PROVE EntryOK(p)'
  <2>1. CASE p \in DOMAIN entries
    <3>1. Knows(entries[p], sent[p], guessed[p])
      BY <2>1 DEF CodesInv, EntryOK
    <3>2. Knows(OlderEntry(entries[p]), OlderAges(sent[p], OtpWindow),
                OlderAges(guessed[p], LoginLock))
      BY <1>2, <3>1, OlderKnows
    <3>3. /\ p \in DOMAIN entries' /\ entries'[p] = OlderEntry(entries[p])
          /\ sent'[p] = OlderAges(sent[p], OtpWindow)
          /\ guessed'[p] = OlderAges(guessed[p], LoginLock)
      BY <1>1, <2>1
    <3>4. QED
      BY <3>2, <3>3 DEF EntryOK
  <2>2. CASE p \notin DOMAIN entries
    <3>1. sent[p] = <<>> /\ guessed[p] = <<>>
      BY <2>2 DEF CodesInv, EntryOK
    <3>2. p \notin DOMAIN entries'
      BY <1>1, <2>2
    <3>3. QED
      BY <1>3, <3>1, <3>2 DEF EntryOK
  <2>3. QED
    BY <2>1, <2>2
<1>5. sent' \in [Phones -> Ages(OtpWindow)] /\ guessed' \in [Phones -> Ages(LoginLock)]
  <2>1. DOMAIN sent' = Phones /\ sent' = [p \in Phones |-> sent'[p]]
    BY <1>1
  <2>2. DOMAIN guessed' = Phones /\ guessed' = [p \in Phones |-> guessed'[p]]
    BY <1>1
  <2>3. QED
    BY <1>3, <2>1, <2>2
<1>6. QED
  BY <1>3, <1>4, <1>5 DEF CodesInv

(* The limits are right in the beginning.                                  *)
LEMMA CodesBegin == InitCodes => CodesInv
<1> SUFFICES ASSUME InitCodes PROVE CodesInv
  OBVIOUS
<1>1. <<>> \in Ages(OtpWindow) /\ <<>> \in Ages(LoginLock)
  BY DEF Ages
<1>2. Spaced(<<>>) /\ Descends(<<>>)
  BY DEF Spaced, Descends
<1>3. \A p \in Phones : sent[p] = <<>> /\ guessed[p] = <<>> /\ p \notin DOMAIN entries
  BY DEF InitCodes
<1>4. QED
  BY <1>1, <1>2, <1>3 DEF CodesInv, EntryOK, InitCodes

(* What the limiter's table knows of a phone covers everything that still  *)
(* counts: an entry is dropped only when nothing does.                     *)
THEOREM CodesInvariantHolds == CodesSpec => []CodesInv
<1>1. CodesInv /\ [NextCodes]_codeVars => CodesInv'
  <2> SUFFICES ASSUME CodesInv, [NextCodes]_codeVars PROVE CodesInv'
    OBVIOUS
  <2>1. CASE UNCHANGED codeVars
    BY <2>1 DEF codeVars, CodesInv, EntryOK
  <2>2. ASSUME NEW p \in Phones,
               \/ RequestOtp(p) \/ RequestOtpRefused(p)
               \/ LoginLocked(p) \/ LoginTooLate(p) \/ LoginWrong(p) \/ LoginRefused(p)
               \/ LoginAccepted(p)
        PROVE  CodesInv'
    BY <2>2, RequestOtpStands, TouchesStand, LoginWrongStands, LoginAcceptedStands
  <2>3. CASE Tick
    BY <2>3, TickStands
  <2>4. QED
    BY <2>1, <2>2, <2>3 DEF NextCodes
<1>2. QED
  BY <1>1, CodesBegin, PTL DEF CodesSpec

(* No phone is sent more codes than the limit within the window, nor two   *)
(* within the interval.                                                    *)
THEOREM CodesStayLimited == CodesSpec => []CodesAreLimited
<1>1. CodesInv => CodesAreLimited
  <2> SUFFICES ASSUME CodesInv, NEW p \in Phones
               PROVE  /\ Len(sent[p]) <= OtpWindowLimit
                      /\ \A i, j \in DOMAIN sent[p] :
                           i < j => sent[p][i] - sent[p][j] >= OtpInterval
    BY DEF CodesAreLimited
  <2>1. sent[p] \in Ages(OtpWindow) /\ Spaced(sent[p]) /\ EntryOK(p)
    BY DEF CodesInv
  <2>2. DOMAIN sent[p] = 1..Len(sent[p]) /\ Len(sent[p]) \in Nat
    BY <2>1 DEF Ages
  <2>3. CASE p \in DOMAIN entries
    <3>1. /\ Len(sent[p]) <= Len(entries[p].otpRequests)
          /\ Len(entries[p].otpRequests) <= OtpWindowLimit
          /\ entries[p].otpRequests \in Seq(0..OtpWindow)
      BY <2>1, <2>3 DEF EntryOK, Knows, Covers, EntryType
    <3>2. Len(sent[p]) <= OtpWindowLimit
      BY <2>2, <3>1, LimitAssumption
    <3>3. QED
      BY <2>1, <2>2, <3>2 DEF Spaced
  <2>4. CASE p \notin DOMAIN entries
    <3>1. sent[p] = <<>>
      BY <2>1, <2>4 DEF EntryOK
    <3>2. QED
      BY <3>1, LimitAssumption
  <2>5. QED
    BY <2>3, <2>4
<1>2. QED
  BY <1>1, CodesInvariantHolds, PTL

(* No more wrong codes than the limit are judged for a phone within any    *)
(* span as long as the lock.                                               *)
THEOREM GuessesStayLimited == CodesSpec => []GuessesAreLimited
<1>1. CodesInv => GuessesAreLimited
  <2> SUFFICES ASSUME CodesInv, NEW p \in Phones PROVE Len(guessed[p]) <= LoginFailureLimit
    BY DEF GuessesAreLimited
  <2>1. guessed[p] \in Ages(LoginLock) /\ EntryOK(p) /\ Len(guessed[p]) \in Nat
    BY DEF CodesInv, Ages
  <2>2. CASE p \in DOMAIN entries
    <3>1. /\ Knows(entries[p], sent[p], guessed[p])
          /\ entries[p].lockedFor \in 0..LoginLock
          /\ entries[p].failedLogins \in 0..(LoginFailureLimit - 1)
      BY <2>1, <2>2 DEF EntryOK, Knows, EntryType
    <3>2. CASE entries[p].lockedFor = 0
      BY <2>1, <3>1, <3>2, LimitAssumption DEF Knows
    <3>3. CASE entries[p].lockedFor > 0
      BY <3>1, <3>3 DEF Knows
    <3>4. QED
      BY <3>1, <3>2, <3>3, LimitAssumption
  <2>3. CASE p \notin DOMAIN entries
    <3>1. guessed[p] = <<>>
      BY <2>1, <2>3 DEF EntryOK
    <3>2. QED
      BY <3>1, LimitAssumption
  <2>4. QED
    BY <2>2, <2>3
<1>2. QED
  BY <1>1, CodesInvariantHolds, PTL
=============================================================================

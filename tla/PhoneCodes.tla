---------------------------- MODULE PhoneCodes -----------------------------
(***************************************************************************)
(* Signing in with a one-time code: UserService::requestOtp and            *)
(* loginWithOtp with the AuthRateLimiter they ask first.  A phone has at    *)
(* most one code, and an entry in the limiter's bounded table, which may be *)
(* dropped as stale or evicted.  The server handles one request at a time,  *)
(* so each of the calls is one step.                                       *)
(*                                                                         *)
(* Times are kept relative to now: an instant in the past as its age, one   *)
(* in the future as what is left.  The wall clock is not set back here.     *)
(***************************************************************************)
EXTENDS Integers, Sequences, FiniteSets

CONSTANTS
  Phones,
  Owner,             \* one of them, whose owner keeps trying to sign in
  OtpInterval,       \* OtpIntervalMs
  OtpWindow,         \* OtpWindowMs
  OtpWindowLimit,
  LoginLock,         \* LoginLockMs
  LoginFailureLimit,
  MaximumEntries,
  ResendTime,        \* resendAt of a new code
  Lifetime,          \* expiresAt of a new code
  MaxGuesses         \* wrong guesses that end a code

ASSUME LimitAssumption ==
  /\ Owner \in Phones
  /\ {OtpInterval, OtpWindow, OtpWindowLimit, LoginLock, LoginFailureLimit, MaximumEntries,
      ResendTime, Lifetime, MaxGuesses} \subseteq Nat \ {0}
  /\ ResendTime <= OtpInterval
  /\ ResendTime <= Lifetime
  /\ LoginLock <= OtpWindow

VARIABLES
  code,     \* otpStates_: the age of each phone's code and the wrong guesses at it
  entries,  \* entries_ of the limiter
  sent,   \* history: the ages of the codes sent for each phone since its owner
            \* last signed in or the limiter evicted it
  guessed   \* history: the ages of the wrong guesses since then

codeVars == <<code, entries, sent, guessed>>

\* a code that is too old behaves like none
NoCode  == [age |-> Lifetime, failedAttempts |-> 0]
NewCode == [NoCode EXCEPT !.age = 0]

NewEntry == [otpRequests |-> <<>>, failedLogins |-> 0, lockedFor |-> 0, idle |-> 0]

-----------------------------------------------------------------------------
(* AuthRateLimiter.                                                        *)

\* the oldest come first, and those that are too old are dropped
TooOld(ages, span, n) ==
  /\ \A i \in 1..n : ages[i] >= span
  /\ n < Len(ages) => ages[n + 1] < span

Within(ages, span) ==
  LET n == CHOOSE n \in 0..Len(ages) : TooOld(ages, span, n)
  IN  SubSeq(ages, n + 1, Len(ages))

\* what cleanupLocked leaves of an entry, and whether it drops it
Purged(e) == [e EXCEPT !.otpRequests = Within(@, OtpWindow)]

Stale(e) == e.idle >= OtpWindow /\ e.lockedFor = 0 /\ Purged(e).otpRequests = <<>>

NotStale == {p \in DOMAIN entries : ~Stale(entries[p])}

\* the phones of S that stay when those idle for longest make room
Survivors(S, room) ==
  {K \in SUBSET S :
     /\ Cardinality(K) <= room
     /\ K # S => Cardinality(K) = room
     /\ \A q \in S \ K, r \in K : entries[q].idle >= entries[r].idle}

CleanedUp == Survivors(NotStale, MaximumEntries)

\* the entry of p in the table K, or a new one, touched
EntryIn(K, p) == IF p \in K THEN [Purged(entries[p]) EXCEPT !.idle = 0] ELSE NewEntry

Store(K, p, e) == entries' = [q \in K \cup {p} |-> IF q = p THEN e ELSE Purged(entries[q])]

\* the histories of the phones the limiter has not evicted
Remembered(K, history) == [q \in Phones |-> IF q \in NotStale \ K THEN <<>> ELSE history[q]]

\* variant: one request too many
AllowsOneMore(e) ==
  /\ e.otpRequests # <<>> => e.otpRequests[Len(e.otpRequests)] >= OtpInterval
  /\ Len(e.otpRequests) <= OtpWindowLimit

AllowsOtp(e) ==
  /\ e.otpRequests # <<>> => e.otpRequests[Len(e.otpRequests)] >= OtpInterval
  /\ Len(e.otpRequests) < OtpWindowLimit

\* variant: a new request forgives the failed logins
WithRequestForgiving(e) == [NewEntry EXCEPT !.otpRequests = Append(e.otpRequests, 0)]

WithRequest(e) == [e EXCEPT !.otpRequests = Append(@, 0)]

\* recordLoginFailure
WithFailure(e) ==
  IF e.failedLogins + 1 < LoginFailureLimit
  THEN [e EXCEPT !.failedLogins = @ + 1]
  ELSE [e EXCEPT !.failedLogins = 0, !.lockedFor = LoginLock]

-----------------------------------------------------------------------------
(* UserService.                                                            *)

\* requestOtp: the limiter allows it and notes it; the code's own cooldown may
\* still refuse it
RequestOtp(p) ==
  \E K \in CleanedUp :
    LET e == EntryIn(K, p) IN
    /\ AllowsOtp(e)
    /\ Store(K, p, WithRequest(e))
    /\ guessed' = Remembered(K, guessed)
    /\ IF code[p].age < ResendTime
       THEN /\ sent' = Remembered(K, sent)
            /\ UNCHANGED code
       ELSE /\ sent' = [Remembered(K, sent) EXCEPT ![p] = Append(@, 0)]
            /\ code' = [code EXCEPT ![p] = NewCode]

Touch(K, p) ==
  /\ sent' = Remembered(K, sent)
  /\ guessed' = Remembered(K, guessed)
  /\ Store(K, p, EntryIn(K, p))

\* variant: a refused request counts as the latest
RequestOtpRefusedCounts(p) ==
  \E K \in CleanedUp :
    LET e == EntryIn(K, p) IN
    /\ ~AllowsOtp(e)
    /\ Store(K, p, [e EXCEPT !.otpRequests = [@ EXCEPT ![Len(@)] = 0]])
    /\ sent' = Remembered(K, sent)
    /\ guessed' = Remembered(K, guessed)
    /\ UNCHANGED code

\* the limiter refuses it
RequestOtpRefused(p) ==
  \E K \in CleanedUp :
    /\ ~AllowsOtp(EntryIn(K, p))
    /\ Touch(K, p)
    /\ UNCHANGED code

\* loginWithOtp while the phone is locked
LoginLocked(p) ==
  \E K \in CleanedUp :
    /\ EntryIn(K, p).lockedFor > 0
    /\ Touch(K, p)
    /\ UNCHANGED code

\* without a code that is still valid
LoginTooLate(p) ==
  \E K \in CleanedUp :
    /\ EntryIn(K, p).lockedFor = 0
    /\ code[p].age >= Lifetime
    /\ Touch(K, p)
    /\ code' = [code EXCEPT ![p] = NoCode]

\* with another code; allowLogin cleans up and touches the entry, and
\* recordLoginFailure cleans up again
LoginWrong(p) ==
  \E K \in CleanedUp : \E L \in Survivors(K \ {p}, MaximumEntries - 1) :
    LET e == EntryIn(K, p)
        n == code[p].failedAttempts + 1
    IN
    /\ e.lockedFor = 0
    /\ code[p].age < Lifetime
    /\ Store(L, p, WithFailure(e))
    /\ code' = [code EXCEPT ![p] = IF n >= MaxGuesses THEN NoCode
                                   ELSE [@ EXCEPT !.failedAttempts = n]]
    /\ sent' = Remembered(IF p \in K THEN L \cup {p} ELSE L, sent)
    /\ guessed' = [Remembered(IF p \in K THEN L \cup {p} ELSE L, guessed)
                     EXCEPT ![p] = Append(@, 0)]

\* with the right code, but the account is frozen or the database fails
LoginRefused(p) ==
  \E K \in CleanedUp :
    /\ EntryIn(K, p).lockedFor = 0
    /\ code[p].age < Lifetime
    /\ Touch(K, p)
    /\ UNCHANGED code

\* with the right code; recordLoginSuccess
LoginAccepted(p) ==
  \E K \in CleanedUp :
    /\ EntryIn(K, p).lockedFor = 0
    /\ code[p].age < Lifetime
    /\ Store(K, p, NewEntry)
    /\ code' = [code EXCEPT ![p] = NoCode]
    /\ sent' = [Remembered(K, sent) EXCEPT ![p] = <<>>]
    /\ guessed' = [Remembered(K, guessed) EXCEPT ![p] = <<>>]

-----------------------------------------------------------------------------
Older(n, end) == IF n < end THEN n + 1 ELSE n

OlderAges(ages, span) ==
  LET young == Within(ages, span - 1)
  IN  [i \in DOMAIN young |-> young[i] + 1]

Less(n) == IF n = 0 THEN 0 ELSE n - 1

OlderEntry(e) ==
  [otpRequests  |-> [i \in DOMAIN e.otpRequests |-> Older(e.otpRequests[i], OtpWindow)],
   failedLogins |-> e.failedLogins,
   lockedFor    |-> Less(e.lockedFor),
   idle         |-> Older(e.idle, OtpWindow)]

Tick ==
  /\ code' = [p \in Phones |-> IF code[p].age + 1 >= Lifetime THEN NoCode
                               ELSE [code[p] EXCEPT !.age = @ + 1]]
  /\ entries' = [p \in DOMAIN entries |-> OlderEntry(entries[p])]
  /\ sent' = [p \in Phones |-> OlderAges(sent[p], OtpWindow)]
  /\ guessed' = [p \in Phones |-> OlderAges(guessed[p], LoginLock)]

InitCodes ==
  /\ code = [p \in Phones |-> NoCode]
  /\ entries = [p \in {} |-> NewEntry]
  /\ sent = [p \in Phones |-> <<>>]
  /\ guessed = [p \in Phones |-> <<>>]

NextCodes ==
  \/ \E p \in Phones :
       \/ RequestOtp(p) \/ RequestOtpRefused(p)
       \/ LoginLocked(p) \/ LoginTooLate(p) \/ LoginWrong(p) \/ LoginRefused(p)
       \/ LoginAccepted(p)
  \/ Tick

CodesSpec == InitCodes /\ [][NextCodes]_codeVars

\* Time passes, and the owner of one phone asks for codes and enters them.  The
\* others need not do anything: what they do might evict him, to his advantage.
FairCodesSpec ==
  /\ CodesSpec
  /\ WF_codeVars(Tick)
  /\ SF_codeVars(RequestOtp(Owner)) /\ SF_codeVars(LoginAccepted(Owner))

-----------------------------------------------------------------------------
(* Properties.                                                             *)

\* Unless its owner signs in or the full table evicts it, a phone is not sent
\* more codes than the limit within any window, nor two within the interval,
\* although entries are purged and dropped, codes expire or are guessed to death,
\* and new ones replace old (allowOtpRequest and resendAt).
CodesAreLimited ==
  \A p \in Phones :
    /\ Len(sent[p]) <= OtpWindowLimit
    /\ \A i, j \in DOMAIN sent[p] : i < j => sent[p][i] - sent[p][j] >= OtpInterval

\* Unless its owner signs in or the full table evicts it, no more wrong codes than
\* the limit are judged for a phone within any span as long as the lock, over
\* however many codes they are spread and whenever the count began
\* (recordLoginFailure, allowLogin).
GuessesAreLimited == \A p \in Phones : Len(guessed[p]) <= LoginFailureLimit

\* Whoever makes no more mistakes signs in, however he was locked and limited
\* before, whatever others do and however often he asks too early.
LimitsPass ==
  <>[][~LoginWrong(Owner) /\ ~LoginRefused(Owner)]_codeVars => []<><<LoginAccepted(Owner)>>_codeVars
=============================================================================

------------------------------ MODULE UserProfile ------------------------------
(***************************************************************************)
(* The window of a user's account: profile, wallet and logout, with the    *)
(* window of the vehicle over it.  One timer watches the request that is   *)
(* pending; recharge and logout are asked in a confirmation first, which   *)
(* only an answer, or the failure of the request that is still pending,    *)
(* releases.                                                               *)
(***************************************************************************)
EXTENDS FacadeLink, FiniteSets

CONSTANT MaxRecharges   \* bound: recharges carried out

ASSUME RechargesBound == MaxRecharges \in Nat

VARIABLES
  balance,    \* the user's balance on the server; every recharge adds 1
  recharges,  \* counts against MaxRecharges
  spent,      \* history: paid since the last recharge was carried out
  account,    \* the home window: open, and the balance it shows
  profile,    \* UserProfileDialog
  vehicle     \* VehicleProfileDialog

profileWindows == <<balance, recharges, spent, account, profile, vehicle>>

\* "user.profile.update" stands for the nickname and the picture
AccountRoutes ==
  {"user.profile.get", "user.profile.update", "user.recharge", "user.logout",
   "user.vehicle.profile.get", "user.vehicle.profile.update"}
VehicleRoutes == {"user.vehicle.profile.get", "user.vehicle.profile.update"}

Route(question) == IF question = "recharge" THEN "user.recharge" ELSE "user.logout"

ClosedProfile ==
  [open |-> FALSE, pending |-> "none", timer |-> FALSE, message |-> "none", shown |-> 0,
   question |-> "none", confirm |-> "closed"]

ClosedVehicle == [open |-> FALSE, pending |-> "none", timer |-> FALSE]

-----------------------------------------------------------------------------
(* The server.                                                             *)

\* UserService::recharge
Recharge(ok) ==
  /\ ok => recharges < MaxRecharges   \* bound
  /\ balance' = IF ok THEN balance + 1 ELSE balance
  /\ recharges' = IF ok THEN recharges + 1 ELSE recharges
  /\ spent' = IF ok THEN 0 ELSE spent

\* every answer about the user carries the balance
ServeProfile(ok) ==
  /\ IF Head(calls).route = "user.recharge" THEN Recharge(ok)
     ELSE UNCHANGED <<balance, recharges, spent>>
  /\ Executes(ok, IF ok THEN balance' ELSE 0)
  /\ UNCHANGED <<account, profile, vehicle>>

\* an order is paid, in this program or in another that the user signed in with
OrderPaid ==
  /\ balance > 0
  /\ balance' = balance - 1
  /\ spent' = spent + 1
  /\ UNCHANGED <<link, recharges, account, profile, vehicle>>

-----------------------------------------------------------------------------
(* What the windows do to themselves.                                      *)

\* beginRequest; the windows of profile and vehicle have the same
Begin(w, r) == [w EXCEPT !.pending = r, !.timer = TRUE]

\* finishRequest, whichever request is pending
Finished(w) == [w EXCEPT !.pending = "none", !.timer = FALSE]

ProfileFinished(p, message) == [Finished(p) EXCEPT !.message = message]

\* requestFailed and networkError
ProfileFailed(p, R) ==
  IF p.pending = "none" \/ p.pending \notin R THEN p
  ELSE ProfileFinished([p EXCEPT !.confirm = IF @ = "pending" THEN "open" ELSE @], "error")

VehicleFailed(v, R) == IF v.pending \in R THEN Finished(v) ELSE v

\* a request of window w, or its failure on the spot
Asked(r) == IF connected THEN Send(r, 0) ELSE UNCHANGED link
RefusedRoute(r) == IF connected THEN {} ELSE {r}

-----------------------------------------------------------------------------
(* The windows.                                                            *)

OpenProfile ==
  /\ account.open /\ ~profile.open
  /\ Asked("user.profile.get")
  /\ profile' = ProfileFailed(Begin([ClosedProfile EXCEPT !.open = TRUE, !.shown = account.balance],
                                    "user.profile.get"),
                              RefusedRoute("user.profile.get"))
  /\ UNCHANGED <<balance, recharges, spent, account, vehicle>>

\* reject waits for the request that is pending
CloseProfile ==
  /\ profile.open /\ profile.pending = "none" /\ profile.confirm = "closed" /\ ~vehicle.open
  /\ profile' = ClosedProfile
  /\ UNCHANGED <<link, balance, recharges, spent, account, vehicle>>

\* the buttons are enabled, and no window is over this one
Usable == profile.open /\ profile.pending = "none" /\ profile.confirm = "closed" /\ ~vehicle.open

\* updateNickname and applyAvatarFromFile
UpdateClicked ==
  /\ Usable
  /\ Asked("user.profile.update")
  /\ profile' = ProfileFailed(Begin(profile, "user.profile.update"),
                              RefusedRoute("user.profile.update"))
  /\ UNCHANGED <<balance, recharges, spent, account, vehicle>>

QuestionAsked(q) ==
  /\ Usable
  /\ profile' = [profile EXCEPT !.confirm = "open", !.question = q]
  /\ UNCHANGED <<link, balance, recharges, spent, account, vehicle>>

\* recharge and logout; a recharge like one that still waits is not sent
QuestionAnswered ==
  /\ profile.confirm = "open"
  /\ LET r == Route(profile.question)
     IN  \/ /\ Asked(r)
            /\ profile' = ProfileFailed(Begin([profile EXCEPT !.confirm = "pending"], r),
                                        RefusedRoute(r))
         \/ /\ profile' = [profile EXCEPT !.confirm = "closed"]
            /\ UNCHANGED link
  /\ UNCHANGED <<balance, recharges, spent, account, vehicle>>

\* requestTimer_, which does not release the confirmation
ProfileTimer ==
  /\ profile.timer
  /\ profile' = ProfileFinished(profile, "error")
  /\ UNCHANGED <<link, balance, recharges, spent, account, vehicle>>

\* its button stays enabled while a request is pending
OpenVehicle ==
  /\ profile.open /\ profile.confirm = "closed" /\ ~vehicle.open
  /\ Asked("user.vehicle.profile.get")
  /\ vehicle' = VehicleFailed(Begin([ClosedVehicle EXCEPT !.open = TRUE], "user.vehicle.profile.get"),
                              RefusedRoute("user.vehicle.profile.get"))
  /\ UNCHANGED <<balance, recharges, spent, account, profile>>

SaveVehicle ==
  /\ vehicle.open /\ vehicle.pending = "none"
  /\ Asked("user.vehicle.profile.update")
  /\ vehicle' = VehicleFailed(Begin(vehicle, "user.vehicle.profile.update"),
                              RefusedRoute("user.vehicle.profile.update"))
  /\ UNCHANGED <<balance, recharges, spent, account, profile>>

VehicleTimer ==
  /\ vehicle.timer
  /\ vehicle' = Finished(vehicle)
  /\ UNCHANGED <<link, balance, recharges, spent, account, profile>>

CloseVehicle ==
  /\ vehicle.open
  /\ vehicle' = ClosedVehicle
  /\ UNCHANGED <<link, balance, recharges, spent, account, profile>>

-----------------------------------------------------------------------------
(* The answers.                                                            *)

\* variant: the amount is added to what the window shows
RechargeAdds(p, after) ==
  ProfileFinished([p EXCEPT !.confirm = "closed", !.shown = @ + 1], "ok")

\* rechargeSucceeded
RechargeShown(p, after) ==
  ProfileFinished([p EXCEPT !.confirm = "closed", !.shown = after], "ok")

\* profileReceived and profileUpdated
ProfileShown(p, value) == ProfileFinished([p EXCEPT !.shown = value], "ok")

\* logoutSucceeded: the windows go, with all that waits
LoggedOut ==
  /\ ArrivesAndEndsAll
  /\ profile' = ClosedProfile
  /\ vehicle' = ClosedVehicle
  /\ account' = [account EXCEPT !.open = FALSE]

\* the window tells the home window of the balance; that hears profileReceived itself
AnnounceProfile(a) ==
  /\ Arrives
  /\ profile' = CASE ~profile.open \/ a.route \in VehicleRoutes -> profile
                  [] profile.open /\ a.route = "user.recharge" -> RechargeShown(profile, a.value)
                  [] OTHER -> ProfileShown(profile, a.value)
  /\ account' = IF a.route = "user.profile.get" \/ (profile.open /\ a.route \notin VehicleRoutes)
                THEN [account EXCEPT !.balance = a.value] ELSE account
  /\ vehicle' = IF vehicle.open /\ a.route \in VehicleRoutes THEN Finished(vehicle) ELSE vehicle

ReceiveProfile ==
  /\ answers # <<>>
  /\ LET a == Head(answers)
     IN  CASE ~a.live -> Arrives /\ UNCHANGED <<account, profile, vehicle>>
           [] a.live /\ a.ok /\ a.route = "user.logout" -> LoggedOut
           [] a.live /\ a.ok /\ a.route # "user.logout" -> AnnounceProfile(a)
           [] OTHER -> /\ Arrives
                       /\ profile' = ProfileFailed(profile, {a.route})
                       /\ vehicle' = VehicleFailed(vehicle, {a.route})
                       /\ UNCHANGED account
  /\ UNCHANGED <<balance, recharges, spent>>

\* every request has ten seconds: the oldest that waits is given up first
IsOldest(r) ==
  LET q == answers \o calls
  IN  \/ \A i \in DOMAIN q : ~q[i].live
      \/ \E i \in DOMAIN q :
           q[i].live /\ q[i].route = r /\ \A j \in 1..(i - 1) : ~q[j].live

ExpireProfile(r) ==
  /\ GivesUp(r)
  /\ IsOldest(r)
  /\ profile' = ProfileFailed(profile, {r})
  /\ vehicle' = VehicleFailed(vehicle, {r})
  /\ UNCHANGED <<balance, recharges, spent, account>>

DisconnectProfile(n) ==
  /\ Breaks(n)
  /\ profile' = ProfileFailed(profile, AccountRoutes)
  /\ vehicle' = VehicleFailed(vehicle, AccountRoutes)
  /\ UNCHANGED <<balance, recharges, spent, account>>

-----------------------------------------------------------------------------
InitProfile ==
  /\ balance = 0 /\ recharges = 0 /\ spent = 0
  /\ account = [open |-> TRUE, balance |-> 0]
  /\ profile = ClosedProfile /\ vehicle = ClosedVehicle

NextProfile ==
  \/ \E ok \in BOOLEAN : calls # <<>> /\ ServeProfile(ok)
  \/ OrderPaid \/ OpenProfile \/ CloseProfile \/ UpdateClicked
  \/ \E q \in {"recharge", "logout"} : QuestionAsked(q)
  \/ QuestionAnswered \/ ProfileTimer
  \/ OpenVehicle \/ SaveVehicle \/ VehicleTimer \/ CloseVehicle
  \/ ReceiveProfile
  \/ \E r \in AccountRoutes : ExpireProfile(r)
  \/ connected /\ \E n \in 0..Len(calls) : DisconnectProfile(n)

-----------------------------------------------------------------------------
(* Properties.                                                             *)

\* The windows of the account have their timer for whatever they wait for.
ProfileWatched ==
  /\ profile.pending # "none" => profile.timer
  /\ vehicle.pending # "none" => vehicle.timer

RechargeUnderWay ==
  \E q \in {calls, answers} : \E i \in DOMAIN q : q[i].route = "user.recharge"

\* A window that says its last request succeeded, and that waits for nothing,
\* shows every recharge the server carried out, also those that were given up,
\* executed late and repeated: what it shows differs from the server's balance
\* by no more than the orders paid since the last of them
\* (UserProfileDialog's rechargeSucceeded).  It says nothing of a window under
\* a confirmation that hangs, see AccountQuestionRecovers.
RechargesAreShown ==
  profile.open /\ profile.message = "ok" /\ profile.pending = "none"
      /\ profile.confirm # "pending" /\ ~RechargeUnderWay
    => profile.shown \in balance..(balance + spent)

\* The question before a recharge or a logout has its buttons back once the
\* request it waits for is over (finishRequest, finishFailure).  The code
\* violates it, by the window's own timer.
AccountQuestionRecovers ==
  profile.confirm = "pending" =>
    Route(profile.question) \in {profile.pending} \cup waiting
=============================================================================

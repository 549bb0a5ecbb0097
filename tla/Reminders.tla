------------------------------- MODULE Reminders -------------------------------
(***************************************************************************)
(* Reminders of stations with idle chargers: ReminderService on the        *)
(* server, with its limit on how often a user may ask, the controller that *)
(* asks every minute and announces what is new, and the window in which    *)
(* the user turns reminders on and off.                                    *)
(***************************************************************************)
EXTENDS FacadeLink, FiniteSets

CONSTANT Stations   \* stations that may match the user's preference

ASSUME StationsAssumption == IsFiniteSet(Stations)

VARIABLES
  wanted,      \* user_preference.enabled
  idle,        \* the stations that match the rest of the preference now
  recent,      \* the last check of the user is less than five seconds old
  reminders,   \* ReminderController
  preference   \* UserPreferenceDialog; lost: history, the window has not
               \* heard whether a change was made

reminderWindows == <<wanted, idle, recent, reminders, preference>>

ReminderRoutes == {"preference.get", "preference.update", "reminder.check"}

-----------------------------------------------------------------------------
(* The server.                                                             *)

\* variant: what the user wants is not asked
CheckAnyway == {idle, {}}

\* check: nothing outside the hours of the preference
Matches == IF wanted THEN {idle, {}} ELSE {{}}

\* a check that comes too soon fails, and counts as none
ServeCheck(ok) ==
  /\ ok => ~recent
  /\ recent' = TRUE
  /\ \E found \in IF ok THEN Matches ELSE {{}} : Executes(ok, found)
  /\ UNCHANGED wanted

ServeReminders(ok) ==
  LET c == Head(calls)
  IN  /\ IF c.route = "reminder.check" THEN ServeCheck(ok)
         ELSE /\ wanted' = IF ok /\ c.route = "preference.update" THEN c.arg ELSE wanted
              /\ Executes(ok, wanted')
              /\ UNCHANGED recent
      /\ UNCHANGED <<idle, reminders, preference>>

\* chargers become idle or are used
IdleChanges(s) ==
  /\ idle' = s
  /\ UNCHANGED <<link, wanted, recent, reminders, preference>>

FiveSecondsPass ==
  /\ recent
  /\ recent' = FALSE
  /\ UNCHANGED <<link, wanted, idle, reminders, preference>>

-----------------------------------------------------------------------------
(* The controller.                                                         *)

\* stop: enabled_ stays
Stopped(c) == [c EXCEPT !.timer = FALSE, !.pending = FALSE, !.active = {}, !.cooling = {}]

\* setEnabled; one that starts asks at once
Enabled(c, on) ==
  IF ~on THEN [Stopped(c) EXCEPT !.enabled = FALSE]
  ELSE [c EXCEPT !.enabled = TRUE, !.timer = TRUE, !.pending = @ \/ ~c.timer]

AsksNow(c, on) == on /\ ~c.timer /\ ~c.pending

\* what ReminderEdgeState::update announces
New(c, found) == (found \ c.active) \ c.cooling

\* update; what is found counts as active even if it is not announced
Updated(c, found) ==
  [c EXCEPT !.pending = FALSE, !.active = found, !.cooling = @ \cup New(c, found),
            !.banner = @ \/ New(c, found) # {}]

\* variant: a check that fails stays pending
FailureIgnored(c, R) == c

ReminderFailed(c, R) == IF "reminder.check" \in R THEN [c EXCEPT !.pending = FALSE] ELSE c

\* timer_; the facade supersedes a check that still waits
Check ==
  /\ reminders.timer /\ reminders.enabled /\ ~reminders.pending
  /\ IF connected
     THEN Send("reminder.check", 0) /\ reminders' = [reminders EXCEPT !.pending = TRUE]
     ELSE UNCHANGED <<link, reminders>>
  /\ UNCHANGED <<wanted, idle, recent, preference>>

\* ten minutes have passed since a station was announced
Cooled(s) ==
  /\ s \in reminders.cooling
  /\ reminders' = [reminders EXCEPT !.cooling = @ \ {s}]
  /\ UNCHANGED <<link, wanted, idle, recent, preference>>

\* seven seconds have passed, or the banner is closed
BannerHides ==
  /\ reminders.banner
  /\ reminders' = [reminders EXCEPT !.banner = FALSE]
  /\ UNCHANGED <<link, wanted, idle, recent, preference>>

-----------------------------------------------------------------------------
(* The window of the preference.                                           *)

\* without a connection the request fails, which this window does not show
OpenPreference ==
  /\ ~preference.open
  /\ IF connected THEN Send("preference.get", 0) ELSE UNCHANGED link
  /\ preference' = [preference EXCEPT !.open = TRUE]
  /\ UNCHANGED <<wanted, idle, recent, reminders>>

Save(on) ==
  /\ preference.open /\ ~preference.saving
  /\ IF connected
     THEN Send("preference.update", on) /\ preference' = [preference EXCEPT !.saving = TRUE]
     ELSE UNCHANGED <<link, preference>>
  /\ UNCHANGED <<wanted, idle, recent, reminders>>

\* also while it saves
ClosePreference ==
  /\ preference.open
  /\ preference' = [preference EXCEPT !.open = FALSE, !.saving = FALSE,
                               !.lost = @ \/ preference.saving]
  /\ UNCHANGED <<link, wanted, idle, recent, reminders>>

PreferenceFailed(p, R) == IF "preference.update" \in R THEN [p EXCEPT !.saving = FALSE] ELSE p

-----------------------------------------------------------------------------
(* The answers.                                                            *)

\* preferenceReceived, or preferenceSaved of the window: the controller is told
Told(on) ==
  /\ IF AsksNow(reminders, on) THEN ArrivesThenSends("reminder.check", 0) ELSE Arrives
  /\ reminders' = Enabled(reminders, on)

AnnounceReminders(a) ==
  CASE a.route = "reminder.check" ->
         Arrives /\ reminders' = Updated(reminders, a.value) /\ UNCHANGED preference
    [] a.route = "preference.get" -> Told(a.value) /\ UNCHANGED preference
    [] a.route = "preference.update" /\ preference.open ->
         Told(a.value) /\ preference' = [preference EXCEPT !.saving = FALSE]
    [] OTHER -> Arrives /\ UNCHANGED <<reminders, preference>>

\* a failure may say that the session has expired, which stops the controller
ReceiveReminders ==
  /\ answers # <<>>
  /\ LET a == Head(answers)
     IN  CASE ~a.live -> Arrives /\ UNCHANGED <<reminders, preference>>
           [] a.live /\ a.ok -> AnnounceReminders(a)
           [] OTHER -> /\ Arrives
                       /\ reminders' \in {ReminderFailed(reminders, {a.route}), Stopped(reminders)}
                       /\ preference' = PreferenceFailed(preference, {a.route})
  /\ UNCHANGED <<wanted, idle, recent>>

ExpireReminders(r) ==
  /\ GivesUp(r)
  /\ reminders' = ReminderFailed(reminders, {r})
  /\ preference' = [PreferenceFailed(preference, {r})
                      EXCEPT !.lost = @ \/ r = "preference.update"]
  /\ UNCHANGED <<wanted, idle, recent>>

\* disconnected stops the controller
DisconnectReminders(n) ==
  /\ Breaks(n)
  /\ reminders' = Stopped(reminders)
  /\ preference' = PreferenceFailed(preference, ReminderRoutes)
  /\ UNCHANGED <<wanted, idle, recent>>

-----------------------------------------------------------------------------
InitReminders ==
  /\ wanted \in BOOLEAN /\ idle \in SUBSET Stations /\ recent = FALSE
  /\ reminders = [enabled |-> FALSE, timer |-> FALSE, pending |-> FALSE,
                  active |-> {}, cooling |-> {}, banner |-> FALSE]
  /\ preference = [open |-> FALSE, saving |-> FALSE, lost |-> FALSE]

NextReminders ==
  \/ \E ok \in BOOLEAN : calls # <<>> /\ ServeReminders(ok)
  \/ \E s \in SUBSET Stations : IdleChanges(s)
  \/ FiveSecondsPass \/ Check \/ BannerHides
  \/ \E s \in Stations : Cooled(s)
  \/ OpenPreference \/ \E on \in BOOLEAN : Save(on)
  \/ ClosePreference \/ ReceiveReminders
  \/ \E r \in ReminderRoutes : ExpireReminders(r)
  \/ connected /\ \E n \in 0..Len(calls) : DisconnectReminders(n)

-----------------------------------------------------------------------------
(* Properties.                                                             *)

\* A check and a change of the preference are pending only while the facade
\* waits for them.
RemindersWatched ==
  /\ reminders.pending => "reminder.check" \in waiting
  /\ preference.saving => "preference.update" \in waiting

\* From the moment the program knows that the user wants no reminders none is
\* shown, not even one whose check was under way when they were turned off
\* (ReminderController::setEnabled and ReminderService::check); unless the
\* window was closed, or gave up, before it heard what became of a change.
OffMeansQuiet ==
  [][~reminders.banner /\ reminders'.banner => reminders.enabled \/ preference.lost
    ]_<<link, reminderWindows>>
=============================================================================

# Charging platform: formal model

The charging platform is a Qt 6 program in two parts. `client_user` is the user's program;
`client_admin` is the administrator's, and its process also hosts the server. They speak
length-framed JSON over TCP. Inside the server one thread runs the event loop
(`core/network/network_server.cpp`), routes each request to a service (`core/service`), and the service
works through repositories (`core/repository`) on one SQLite connection (`db/schema.sql`).

This directory holds TLA+ models of the parts whose order of events matters, TLC configurations that
check them on small instances, and TLAPS proofs for every value of the constants.

    tlc -workers 2 -config ChargeOrders_contention.cfg MCChargeOrders     # one run
    tlapm ChargeOrderProofs.tla                                           # one proof

Contents: [1 The system](#1-the-system) · [2 Modules](#2-modules) · [3 Runs](#3-runs) ·
[4 Fairness](#4-fairness) · [5 Proofs](#5-proofs) · [6 Findings](#6-findings) ·
[7 Not modelled](#7-what-is-not-modelled) · [8 Plan](#8-plan)

## 1 The system

    windows (client_user) --calls/signals--> UserClientFacade --> RequestLifecycleManager
                                                  |                    one timer, pending table
                                             NetworkClient
                                                  |  TCP, frames of JSON, in order
                                             NetworkServer  (own QThread in client_admin)
                                                  |
                          RequestRouter -> routes -> services -> repositories -> SQLite file
                                                  |                                  ^
                          SessionManager, AuthRateLimiter            DatabaseManager (at start)

Four facts about this shape decide what the models look like.

* **One request is one step on the server.** The server thread handles a frame to the end before it
  reads the next, and each operation that writes is one SQLite transaction on one connection. Within
  one server nothing interleaves with an operation; what interleaves are whole operations of
  different users and of the administrator.
* **The client is asynchronous.** A window sends through the facade and goes on. Answers, timeouts,
  disconnections and the user's clicks interleave freely, and signals carry the *route* of a request,
  not its id.
* **Several timers and two clocks.** The request table stores deadlines of the wall clock but sleeps on
  a single-shot `QTimer`; windows run further 10 s timers of their own; expiry compares the seconds of
  SQLite's `datetime()`.
* **Several processes may start on one database.** Every administrator window starts a server, and
  `initialize()` runs, migrates and seeds before the port is taken, so a second process works on the
  file even if it can never listen.

### Inventory

| Component | State | Operations | What is hard | What makes it correct | Module |
|---|---|---|---|---|---|
| Order core: `charge_*_service`, `charge_repository`, `charge_settlement_repository` | rows of `charging_order`, `charger`, `user` | reserve, start, cancel, settle, active, sweep of lapsed reservations | contention for chargers, a start or cancel at the deadline, repeated settlement, price and clock changes | charger and orders agree, one active order per user and charger, money conserved | `ChargeOrders` |
| Administration on the server: `admin_service`, `charger_service`, `log_service`, `admin_routes` | stations, chargers, status of users, operation log | create, also in batches, change, fault, recover, delete, freeze | acts on what a screen showed, beside users and other administrators | no charger without a station, none taken from a customer | `Catalogue`, `ChargeOrders` |
| One-time codes: `user_service`, `auth_rate_limiter` | codes and counters per phone | request a code, sign in | two limits kept apart, eviction | at most so many codes and guesses, and no phone locked for good | `PhoneCodes` |
| Users' sessions: `session_manager`, `client_user/main.cpp`, `login_window` | tokens on the server, token, windows, pending request and countdown in the client | connect, code, login, logout, expiry | lost connections, restart, late answers, two timers per request | no answer for the wrong user, one can always sign in again | `UserSession`, `LoginWindow` |
| Request lifecycle: `request_lifecycle_manager`, `user_client_facade`, `network_client` | pending table, generation, timer, socket | track, complete, expire, cancel, supersede | all races of answer, timeout, logout, disconnect; signals that send again | no request reported twice, unheard only if superseded or if its success has no signal, none unwatched | `RequestTable`, `RequestTimer` |
| Charging dialog: `charging_dialog*`, `confirm_action_dialog` | shown record, pending route, flags, timers, confirmation | start, cancel, settle, expiry check | two kinds of timeout, late `chargeStarted`, a second client | never ahead of the server, every request watched | `ChargingDialog` |
| Home and station windows: `user_main_window*`, `station_detail*` | active order, two-part refresh, pending action, plan, windows over it | recover, open, reserve, start, cancel, plan | two answers of different age, signals and timers of earlier attempts | a plan drives only its own charger, every request watched | `StationDetail` |
| Orders and reviews: `order_history_dialog`, `review_dialog`, `review_service` | list, receipts, queue of review requests, stored reviews | list, receipt, review | a queue that is refilled under its own answers | every request watched, what was stored is confirmed | `OrderReviews` |
| Account, wallet, vehicle: `user_profile_dialog`, `vehicle_profile_dialog`, `user_service` | balance, shown profile, pending request, confirmation | recharge, nickname, avatar, logout, vehicle | a recharge executed after its timeout, and repeated, while other sessions pay | no recharge is missed in the balance shown | `UserProfile` |
| Reminders: `reminder_controller`, `reminder_service`, `user_preference_*` | preference, announced and cooling stations, banner, rate limit | check, announce, turn on and off | a check under way when reminders are turned off | who wants no reminders sees none | `Reminders` |
| Start-up: `database_manager`, migrations, seed data | the file, its backups, schema version | open, back up, migrate 1..10, repair, seed | crash in between, failing statements, a second process that repeats a step | all or nothing, nothing lost, backed up first, refused for a cause only | `DatabaseStartup` |
| Administrator's program: `admin_login_window`, `admin_main_window`, `admin_client_facade` | lock after wrong passwords, token, summary, page, logout dialog | start server, login, refresh, logout | overlapping locks and timers, lost connection, unanswered requests | one can always sign in, no answer crosses a logout | `AdminProgram` |
| Administrator's pages: `charger_page`, `station_page`, `user_page` | rows, selection, filter, open question | list, filter, select, ask, operate | rows replaced under an open question, lists older than an operation | acts on what was meant, shows what was confirmed | `AdminPages` |
| Prediction and reports: `prediction_service`, `predict_page`, `revenue_page`, `charger_status_page` | process, watchdog, polling; panels, range | run, finish, fail, kill, poll; refresh, change of range | `finished` against `errorOccurred` against watchdog; two trends under way | the button comes back, the chart fits its range | `PredictionRun`, `AdminReports` |
| Frames and server: `frame_codec`, `network_server`, `network_server_host` | bytes per connection, thread state | append, encode, start, stop | split frames, limit, stop from another thread | messages arrive whole and in order | seen from the clients: `FacadeLink` |
| Forecast, planner, recommendation | none | pure functions in floating point | empty input, sort orders | — | none |
| Log page, maps, camera, avatar pictures | pictures, web views, tables | — | — | — | none |

`PROJECT.json` lists for every component the files, the modules and what is left out, and under `hazards`
each spot in the code where one of these things can go wrong, with the properties aimed at it.

## 2 Modules

| Module | Role |
|---|---|
| `ChargeOrders` | the order core with administration and wallet |
| `ChargeOrderProperties` | what it promises; the mapping to `ChargerLease` |
| `ChargerLease` | abstract specification: a charger is a lease with one holder |
| `RequestTable` | pending table, duplicate policy, sessions, socket; time left out |
| `RequestTimer` | extends `RequestTable` with deadlines, the single-shot timer and `expireDue` |
| `FacadeView` | abstract specification: the facade is a set of waiting routes |
| `FacadeLink` | `FacadeView` with connection, requests and answers under way: the base of the windows |
| `ChargingDialog` | the dialog, its facade, the order on the server and a second client |
| `UserSession` | `SessionManager`, the facade's token, connection, login and home window |
| `LoginWindow` | the login window's request, timer, countdown and buttons, used by `UserSession` |
| `OrderReviews`, `StationDetail`, `UserProfile`, `Reminders` | the other windows of the user, each with its part of the server |
| `UserWindows` | composes these four |
| `Catalogue` | stations, chargers, users and the operation log on the server |
| `AdminPages` | the three pages that operate on the catalogue, with the catalogue |
| `PredictionRun`, `AdminReports` | the prediction's service; the panels of the reports |
| `AdminProgram` | composes them with the administrator's login, main window and session |
| `PhoneCodes` | one-time codes and `AuthRateLimiter` |
| `DatabaseStartup` | `DatabaseManager::initialize` of several processes on one file |
| `ChargeOrderProofs`, `RequestProofs`, `LinkProofs`, `DialogProofs`, `SessionProofs`, `WindowsProofs`, `ConsoleProofs`, `ProgramProofs` | theorems and their lemmas |
| `MC*` | finite instances: symmetry, constants, the small databases |

    ChargeOrderProperties = ChargeOrders --implements--> ChargerLease
    RequestTimer --implements--> RequestTable --implements--> FacadeView
                                                                  ^ EXTENDS
                                                             FacadeLink
                                                                  ^ EXTENDS
       ChargingDialog, UserSession (with LoginWindow), UserWindows (OrderReviews, StationDetail, UserProfile, Reminders),
       AdminPages (with Catalogue), AdminProgram (with AdminReports and PredictionRun)

So the windows are not modelled over the whole request table but over the abstract facade, and
`TableImplementsFacade` says that this is sound. The administrator's facade uses the same
`RequestLifecycleManager` with another table of transactional routes, which is the constant `Transactional`.

**`ChargeOrders`.** `order` is the table `charging_order` in the order of its ids, `charger` the status column
of `charger` (with `Absent` for a deleted row), `usage` its two counters, `frozen`, `balance` and `recharged`
the columns of `user` and the sum of `recharge_log`, `price` the price of the station, `now` the server's
clock. One action is one service call with its transaction: `Reserve`, `StartHeld`/`StartDirect`
(`charge.start` with a charger), `StartReserved`, `Cancel`, `Settle`, `Active`, `CleanupExpired`
(`station.list`, `station.detail`), the administrator's operations and `Recharge`. The sweep of lapsed
reservations at the start of an operation is part of its action (`SweptOrder`, `SweptCharger`). A call the code rolls back is
a stuttering step; a call that commits the sweep and *then* reports an error is an action of its own
(`StartLapsed`, `CancelLapsed`, `StartLapsedAt`). Money is counted in cents, time in SQLite's seconds;
one unit of time draws one kWh, since power and time scale are constant snapshots of an order.

**`RequestTable` and `RequestTimer`.** `sent` is a history variable: each request with its route, the number of signals
the application got about it, and the number of its answers no signal announced. That is the success of a route for which the
facade's `handle` has no branch (`AnswerUnheard`, the routes outside `Announced`); a failure is always told. `Send` is `prepare` + `track` under the policy of
`UserClientFacade::send` (a transactional request is suppressed while its like waits, a query
supersedes it). `AnswerEndsSession` is a successful logout, `Disconnected` the facade's handler (`EndSession` and `Disconnect` with the timer). In `RequestTimer`
`due` is the list `expireDue` walks over: one step per id, with sends by signal handlers in between.

**`FacadeLink`.** `calls` and `answers` are queues, because one connection is handled in order. `live` says
whether the answer to a message still finds a pending id. A request the facade gave up is executed all the
same, and its answer reaches nobody.

**`ChargingDialog`.** One variable per member that decides something: `record_.status`, `pendingRoute_`,
`expiryCheckRequested_`, the enabled button, the confirmation, and the number of 10 s `singleShot` timers
per value of `pendingRoute_` they captured. `Receive` runs the facade's `handle` and the dialog's slots to
the end, except `chargeStarted`, which the facade emits from a zero timer (`startedDue`, `Started`).

**`UserSession`.** Sessions are numbered by the login that opened them; a number stands for the random token.
`Restart` is an end of the server process, after which no token is known. `form` is the login window (`LoginWindow`: `pendingRoute_`,
`authState_`, the two timers and the buttons), `connecting` an attempt of the socket. Both timers of a request, the window's and the
facade's, run out at any time and in any order; a code may come after the window gave up its request, and while another waits.
A disconnection is the socket's error, the failure of what waited and `disconnected` in one step: the last decides the window's state.

**`PhoneCodes`.** `code` is `otpStates_`, `entries` the limiter's table with its purge, drop of stale entries and eviction.
Instants are kept as ages, so time runs on for ever in a finite model. The list of requests is purged from its old end, as in the
code (`Within`). `sent` and `guessed` are histories the properties speak of; a step changes them and never reads them. One action is one outcome of `requestOtp` or
`loginWithOtp`, with the clean-up each call to the limiter begins with. A frozen account and a failing
database are one outcome, since both leave the code valid.

**`DatabaseStartup`.** `file` is the committed content, `view[p]` what the transaction of process `p` sees,
`writer` SQLite's write lock. The names of the steps in `pc` follow `initialize()`: open, inspect the
version, back up, begin, one action per migration function, commit, seed. Tables are reduced to what the
migrations decide about: the names and phones of accounts, the link and activity of records and orders,
the schema version, whether columns are missing, whether the catalogue is empty. Of `charging_review` there is what its foreign
key refers to (`reviews`: no table yet, the orders, or a table that was renamed and dropped) and whether it has rows (`reviewed`);
`Review` is a server that is up and stores one. The check of foreign keys at the end of a step (`Validates`) covers both.

**`StationDetail`.** `order` is the customer's active order on the server, `home` what the main window waits for, `station`
the members of `StationDetailDialog`: the pending route with its charger and timer, `awaitingDetail_` and
`awaitingActive_` with the refresh timer, the plan, the signal that is due, the confirmation and what is open
over the window. `singleShot` timers that name a route and a charger, not an attempt, are a flag that outlives its
attempt: it may fire for a later one. What `ChargingDialog` does to the order is a choice here (`OrderUsed`).

**`UserProfile`.** Every recharge adds 1. One timer watches whichever request is pending; the facade gives up the oldest
request first, since all wait ten seconds. `OrderPaid` is any session of the user paying an order at any time, also while the window
is open; `spent` is a history of what was paid since the last recharge was carried out. Nickname and avatar are one route.

**`OrderReviews`.** `history` is `OrderHistoryDialog` with its queue of `review.get` requests (`asked`, `queue`, a label per
order), `review` the dialog over it or over a settled order. Answers whose route has no branch in
`UserClientFacade::handle` are `Unannounced`: the request ends and no handler runs. For that reason no label ever
becomes `open`, and the lines for it are reached in no run; they are what the dialogs' code says.

**`Reminders`.** `wanted` is the stored preference, `idle` the stations that match the rest of it now: hours, radius and
kinds are that choice. `reminders` is `ReminderController` with `ReminderEdgeState`. `lost` records that the
window closed or gave up before it heard what became of a change.

**`UserWindows`.** The windows are modal, so a behaviour follows one of them: `screen` is chosen at the start. The four share the
facade and the connection, not their state on the server.

**`Catalogue`, `AdminPages`.** One action of the catalogue is one service call, with its entry in the log. The page keeps the id that was
shown when the administrator decided (`meant`) next to the id the code reads when it sends (`id`). Versions
(`executed`, `others`, `asOf`, `confirmed`) count operations, so that "the rows have seen it" can be said. Another
administrator works through another program's server on the same database.

**`AdminProgram`.** Window and server are two threads over one connection. `toSend` holds the rest of what a
handler sends in one go. `ServeBadly` is a failing database and an answer over the frame limit, which is not sent. The lock
(`failures`, `lock`) is per account and lives on the server; the login window counts it down by itself.
`PredictionRun` separates what the process did from the event that tells of it.

## 3 Runs

Sizes are distinct states. Every passing run takes at most two minutes alone on two workers.

| Run | Configuration | States | Checks |
|---|---|---|---|
| `order_contention` | 2 users, 2 chargers, 3 orders, 3 seconds | 267,338 (up to symmetry) | `TypeOK`, `UsingMeansOrdered`, `InsertNeverConflicts`, `ActiveOrdersCanEnd`, `HoldsAreRespected`, `ImplementsLease` |
| `order_billing` | 1 user, 1 charger, 2 orders, 2 prices, recharges, clock forth and back | 1,688,448 | `ReceiptsAddUp`, `MoneyConserved`, `UsageMatchesOrders`, `ReservationsEndIfAsked` |
| `request_timeouts` | 3 routes (query, transactional, logout), 4 requests, 3 sessions, timeout of 2 units, 5 instants, clock forth and back | 635,680 | `ReportedOnce`, `DeadlinesAreWatched`, `ImplementsTable`, `ImplementsFacade`, `EveryRequestEnds` |
| `dialog_races` | one order, 3 messages under way, 1 timer per kind, second client | 419,392 | `NeverAheadOfServer`, `WaitIsWatched`, `LapseIsNoticed` |
| `session_races` | 3 sessions, 4 messages under way | 504,068 | `AnswersAreForTheUser`, `CanSignInAgain` |
| `user_windows` | 4 windows; 3 messages under way, 2 orders, 2 chargers, 2 recharges, 1 station to be reminded of | 6,856,461 | `RequestsAreWatched`, `PlanFitsCharger`, `RechargesAreShown`, `OffMeansQuiet` |
| `console_operations` | 3 pages; 1 station, 1 charger, 2 users, 2 messages, 2 operations, 1 change of a filter | 4,036,300 (up to symmetry) | `ChargersHaveStations`, `ActsOnWhatWasMeant`, `ConfirmedChangesAreShown`, `CustomersKeepTheirCharger` |
| `admin_program` | 2 sessions, 2 wrong passwords to the lock, 3 messages, 1 mishap, 1 run of the script, 2 changes of range | 439,601 | `WaitsAreWatched`, `AnswersAreForTheSession`, `ChartFitsRange`, `ButtonComesBack`, `SignInStaysPossible` |
| `code_limits` | 2 phones, 1 limiter entry, limits of 2 codes and 3 guesses | 53,492 | `CodesAreLimited`, `GuessesAreLimited`, `LimitsPass` |
| `database_startup` | 2 processes, 3 starts, 137 initial databases | 4,068,306 | `RecordsAreOrders`, `RefusedForCause`, `HistoryIsKept`, `BackedUpFirst` |
| `dialog_confirmation` | as `dialog_races`, 2 messages | violated | `ConfirmationEnds` |
| `startup_reviews` | 2 processes, 2 starts, 1 database of version 5 | violated | `ReviewsReferToOrders` |

For every property there is a faulty *variant* of some definition (a dropped guard,
a missing reset, a swapped order), written beside it; `mutants` pairs each property with the variant that breaks it. The
variants are used by no action.

Some properties are stated and proved without a run of their own: `FinishedOrdersFinal`, `StartHonoursReservation` and
`ChargesAreReceipted` of the order core, `OnePendingPerRoute`, `PendingIsCurrent`, `PendingOnlyOnline` and `TimerTypeOK` of the
request table.

**Why the bounds are enough.** Each is the smallest at which the case in question happens, plus room to go on.

* Orders: two users and two chargers give every kind of contention (same charger, same user), and three
  orders a third after both were decided. A third user or charger adds no new pair, for every guard and
  every index speaks of one or two rows. `MaxTime` exceeds `ReservationTime`, so a hold lapses and a later one
  begins. In `order_billing` a price change can fall before, within and after an order, and a balance of
  2 to 4 cents is less than, equal to and more than a bill. The invariants of `order_contention` are proved without any bound.
* Requests: three routes cover the three policies. Four requests are two of a route, one superseded and one
  in the next session; the safety properties are proved for any number. Timeout 2 lets the timer fire early, exactly and late.
* Dialog: three messages are an older orphaned request, the confirmed one and the expiry check. With one
  timer per value of `pendingRoute_` a late timer of an earlier request meets a later one of the same route.
* Session: three sessions are one that is left, one that is current and a login whose answer is lost.
  Four messages let a code, a login and what a former login left be under way together.
* User's windows: three messages are the two of a refresh and the action, or its orphan, beside them. Two chargers are one with a
  plan and another; two orders make the queue of reviews go on once; two recharges are one that timed out and its repetition.
* Administrator's pages: two messages are a list and an operation that overtakes or follows it. The page of users has two rows, so a
  selection can be another's; on the other pages rows come and go. Two operations let a second follow the refusal of the first's list.
* Administrator's program: one mishap (a slow, failing, unsent answer or a lapsed session) meets everything else; two sessions are one
  that was left and the next; two changes of range return to the first while both trends are under way.
* Codes: the interval and the lock are two units, so an attempt falls within and at the end of each; a window of five holds
  three codes by the interval alone, so the limit of two is the one that bites. Limiter and code allow equally many
  guesses, as in the code. One entry makes two phones evict each other all the time.
* Start-up: three starts let a process be overtaken and start once more. The databases are all
  combinations, in versions 1, 3–5, 6, 8, 9, 10 and 11, of the names, phones, records, orders, missing columns
  and empty catalogues a step distinguishes, and two with a review that was written before; records come in pairs, because no check involves three.

**Deadlock** is checked where the model can go on for ever (orders, requests, codes). The others may stop, because the order is over,
the connection gone (no window but the login window connects again), or sessions, starts and other bounded things are used up; their
configurations say `CHECK_DEADLOCK FALSE`.

## 4 Fairness

Safety is checked without fairness. What the liveness properties assume:

* `order_billing`: the clock runs and is set back only finitely often; no operation is fair. That some client
  asks for the stations again and again is the hypothesis of `ReservationsEndIfAsked` (`WF(CleanupExpired) => ...`), for no part
  of the code ensures it: every opening or refresh of the home window and every change of an order asks for the list, but no
  timer does. Without the hypothesis the property fails (section 6, `ReservationsEnd`).
* `request_timeouts`: the clock runs, and the event loop gets to a timer that ran out and ends a running
  `expireDue`. Nothing is assumed of the server or the network: no answer ever needs to come. The wall clock may be
  set back finitely often; `EveryRequestEnds` says so in its hypothesis.
* Dialog: server, network and event loop go on. `refresh` runs each second, so it meets a condition that holds again
  and again (`SF`). Clicks are never fair. Requests may fail and time out at will; `LapseIsNoticed` assumes that such
  trouble ends at some time, that the connection holds from some time on, and that from some time on the user has no other
  active order (the dialog takes the answer about another order for none about its own).
* Codes: time passes, and the owner of one phone goes on asking and entering the right code (`SF`). The owners of other
  phones get no fairness, for what they do might evict the one and so help him. `LimitsPass` assumes that wrong and refused logins of his phone end.
* Session: as above, an attempt to connect ends, and the user keeps trying: he clicks when there is no connection (`WF(ClickConnects)`),
  sends a login (`SF(ClickSends)`) and logs out from home (`SF`). The window's own timers get no fairness: signing in must not need them.
  `CanSignInAgain` starts at the login window; `SignsInAgainFromHome` makes the same assumptions and starts at home, and the
  code violates it (section 6).
* Administrator's program: both threads handle what is due, timers run down, and the administrator goes on submitting the right password (`SF`).
  The script gets no fairness: it may hang, and the watchdog ends it. `ButtonComesBack` holds up to `MaxMishaps` lost or failing
  answers: a list over the frame limit, which fails at each poll, is not covered. `SignInStaysPossible` says nothing once the login
  window was told that the server is gone (section 6, observation 3).

`user_windows` and `console_operations` check safety only. That a request is *watched* (by a timer or by the facade, whose timeouts
`EveryRequestEnds` covers) says for requests what liveness would, without assumptions. It says nothing of a confirmation over a window,
which may hang after the request is over: `CancellationRecovers` and `AccountQuestionRecovers` state that it does not, and the code violates them (section 6).

## 5 Proofs

All proofs hold for every value of the constants, hence for any number of users, chargers, routes, requests, rows and
messages and any bound. The assumptions are those stated in the modules with `ASSUME`; TLC evaluates them in the runs. Most
say that constants are natural numbers and subsets. The others:

* For the modules over `FacadeLink`, the facade has the routes of the windows in question: `SessionAssumption`, `ProgramAssumption`
  and `WindowsAssumption` ask that these routes are among its routes, `DialogAssumption` and `PagesAssumption` that they are all of
  them, since the server's answers are modelled for those only.
* `LimitAssumption` of `PhoneCodes` orders the limits as the code's constants are ordered: a lock is no longer than the window after
  which an idle entry may be dropped. (Otherwise cleaning could forget a phone whose guesses still count.)
* `DatabasesAssumption` of `DatabaseStartup` says what a start may find: ids are keys; a file without `schema_version` is new and
  empty; `legacy_source` came with version 6, so an older file has no imported orders; and who brought a file to version 6 or later imported its
  records and had its foreign keys checked. Versions, rows, names, and which columns are missing are otherwise free.

| Module | Theorems about properties of runs | Further theorems |
|---|---|---|
| `ChargeOrderProofs` | `TypeOK`, `UsingMeansOrdered`, `InsertNeverConflicts`, `ActiveOrdersCanEnd`, `HoldsAreRespected`, `ReceiptsAddUp`, `MoneyConserved`, `UsageMatchesOrders`, `ImplementsLease` | active orders are disjoint, finished orders stay final, starts honour reservations, charges have receipts, leases are exclusive |
| `RequestProofs` | `ReportedOnce`, `DeadlinesAreWatched`, `ImplementsTable`, `ImplementsFacade` | one request per route, pending ones belong to the session, none offline, types of the timer |
| `LinkProofs` | | (lemmas) |
| `DialogProofs` | `NeverAheadOfServer`, `WaitIsWatched` | |
| `SessionProofs` | `AnswersAreForTheUser`; `CodesAreLimited`, `GuessesAreLimited` | home holds a token |
| `WindowsProofs` | `RequestsAreWatched`, `PlanFitsCharger`, `RechargesAreShown`, `OffMeansQuiet` | |
| `ProgramProofs` | `WaitsAreWatched`, `AnswersAreForTheSession`, `ChartFitsRange`; `RecordsAreOrders`, `RefusedForCause`, `HistoryIsKept`, `BackedUpFirst` | |
| `ConsoleProofs` | `ChargersHaveStations`, `ActsOnWhatWasMeant`, `ConfirmedChangesAreShown`, `CustomersKeepTheirCharger` | |

With these every safety property that a passing run checks is a theorem. Each inductive invariant was first checked by TLC on the
instance of its run.

**`ChargeOrderProofs`.** `UsingMeansOrdered` is not inductive alone: to see that a charger becomes free when its
order ends one must know that no second active order holds it, and to see that a reservation that lapses had
a deadline one must know which columns its status fills. The inductive invariant is
`IInv == TypeOK /\ UsingMeansOrdered /\ ActiveOrdersDisjoint /\ ColumnsMatchStatus`. Since most operations sweep first, its
parts are stated over *any* order table and status column (`Agree`, `Disjoint`): one lemma shows that sweeping
preserves them, and each operation's step then starts from the swept tables. `EveryRowSteps` says what any step does to one row:
nothing, a sweep, or its owner's start, cancel or settlement. The action properties
and `ReceiptsAlwaysAddUp` come from it: a row is made active (`NewRowsAreActive`), completed only by a settlement that writes a
receipt that adds up (`SettlementAddsUp`), and not touched after that. The refinement maps a charger's status and its active orders to the
phase and holder of a lease and proves `Spec => Lease!Spec`; of the abstract specification the module proves that a user
holds at most one charger and that exactly the busy chargers are held.

`MoneyConserved` and `UsageMatchesOrders` sum over sets of orders. The sum is the library's fold, whose recursive definition over
finite sets is first shown to have a value for every subset (`SumIsTotal`); then its laws are proved: an element may be taken out of a sum
(`SumTakesOut`), and a sum changes by as much as one element's amount does (`SumOfOneMore`, `SumOfOneLess`). They go by the smallest counterexample, since the strict subsets of
a finite set are a well-founded order (`SmallestSubset`). What an operation does to a sum then follows from what it does
to one row (`EveryRowSteps`). The one strengthening is `AbsentHasNoOrders`: an id no charger has yet has no orders either, so that a
new charger's counters may start at zero.

**`RequestProofs`.** `TableInv` is the conjunction of the five invariants; `ReportedOnce` needs `OnePendingPerRoute`
(what is superseded is the only one of its route) and `PendingIsCurrent`. `TimedInv` adds `TimerTypeOK` and
`DeadlinesAreWatched`: each operation arms the timer for the earliest deadline, and while `expireDue` runs
nothing is claimed until its last step arms it again. Then `TimerImplementsTable` and `TableImplementsFacade`.

**`LinkProofs`** is the base of the next five. A message is *live* while its answer still finds a pending id. `LinkInv` says
that of each route at most one message, request or answer, is live, and that the facade waits for that route. One lemma per operation of
`FacadeLink` says what it does to the sets of live requests and live answers; the proofs about windows use these sets and look at no queue.

**`DialogProofs`.** `NeverAheadOfServer` speaks of the status the dialog shows, but the dialog takes it from answers and from a late
`chargeStarted`. So the invariant says of every live answer and of a signal that is due that the server has reached what it tells
(`TidingsAreTrue`); the server never goes back, so this stays true however long the answer is under way. `WaitIsWatched` needs
`CheckIsRequested`: the facade waits for `charge.active` only while the expiry check is under way.

**`SessionProofs`.** `AnswersAreForTheUser` is kept by logout and login only because both end all that waits; between them
the invariant says that live messages carry the client's token (`MessagesBelong`), that a live answer to a login brings a token the server has
issued (`LoginsBringTokens`), and that the home window has one (`HomeHoldsToken`), since the home window sends with it.

The second half proves the limits of `PhoneCodes`. What has to be known is that the table never forgets too early (`Knows`): for
each code sent within the window the entry notes one request that is at least as recent (`Covers`), so as many codes were
sent as requests are noted, at most; and while a phone is not locked its count is at least the number of guesses that still matter,
while it is locked they are older than the lock. Purging drops only requests that no code in the window needs, and a phone
that has been idle for the window has nothing left in either history, so dropping it loses nothing. Since the lists are ordered by
age, dropping from the old end is the same as dropping whatever is too old (`WithinIsEnd`).

**`WindowsProofs`.** A behaviour follows one window, so `WindowsInv` has one part per window and a step disturbs one part only.
- *Station* (`StationOK`): an action that waits has its timer, and while it or the opening reads wait the buttons are not on; a
  planned charger belongs to the reservation that is pending or to the charging dialog that is open. `PlanFitsCharger` follows,
  because every way out of a reservation that fails forgets its plan.
- *Orders*: a review that is labelled as being asked for is the one asked about, which has its timer, or is in the queue; a list
  and a receipt that load have their timer, and a list that is shown has no list under way.
- *Wallet* (`ShowsRecharges`): a window that has succeeded and waits for nothing shows a value that includes every recharge the
  server carried out (`MayShow`: between the balance and the balance before what was paid since the last of them), and no recharge is
  under way. Beside it, an answer under way brings such a value or a later recharge will (`AnswersShow`), and a recharge
  that was given up is the oldest message under way or a later recharge follows it (`LateRechargesShow`). The last holds only because the
  window's requests time out oldest first (`IsOldest`).
- *Reminders*: for a program that knows whether reminders are on, only the answer to a change makes a difference, and what a
  check has found arrives while that program holds that reminders are wanted (`Agrees`); a change is under way only while the
  window waits for it (`ChangesSaving`). `OffMeansQuiet` follows: when the answer of a
  check that found something is the next one, reminders are on.

**`ProgramProofs`.** Two halves. `WindowInv` speaks of login window, main window, prediction and reports: each wait has its request, timer
or poll, and, what `ChartFitsRange` needs, a trend panel that loads waits for the trend of the range that is selected, so that the
answer to an earlier range is dropped or finds its panel waiting for another. `MessageInv` speaks of the session: live messages carry
its token, and while there is no main window there is no token, so that a login finds nothing of another session under way.

Then the start of the server the program hosts (`StartupInv`). Every copy of the database, committed or seen by a transaction, is
`Sourced` in the first one: the same records and accounts, each order a row of the first database or the import of one of its
records, perhaps ended since, and no key twice. A writer has a view that keeps what the file holds (`Keeps`), because it wrote first when its
snapshot was the file and nobody else writes until it ends; so a commit loses nothing. Where a process has got (`StartsRight`) says
what the file and the backups are: the file is the first database or of the latest version, and from the begin of a migration on the first
is backed up or the file is current. `RefusedForCause` is the hard one: every check a migration step makes must succeed on
consistent data, also when old steps run again on a file that another process has migrated and served. There is one exception, which the
property names: a step from version 5 or before that is repeated takes the orders away from the reviews written since
(`TookOrdersAway`, section 6). The names always
fit, since of `n + 1` candidates for a name one is free among `n` (`SomeNameIsFree`, by the pigeonhole principle); and data that
contradicts itself never gets past version 5, so it is never committed.

**`ConsoleProofs`.** The catalogue keeps `ChargersHaveStations` by the checks of each operation, and no operation touches a charger in
use. `ActsOnWhatWasMeant` is kept as the type of requests; it needs that the selection of an open question that will be read again is
that of the question, or gone (`SelectionIsMeant`). `ConfirmedChangesAreShown` needs the order of answers: what is still to arrive has seen at least
as many operations as were reported, and what arrives later no fewer than what arrives earlier (`AnswersSawConfirmed`). So a list that was
sent before an operation is answered before it, and the suppressed repetition of a list is no loss.

**Only model-checked.** `ReservationsEndIfAsked`, `EveryRequestEnds`, `LapseIsNoticed`, `CanSignInAgain`, `ButtonComesBack`,
`SignInStaysPossible` and `LimitsPass`: liveness under fairness needs `ENABLED`, which is out of the prover's reach. The two properties
of the violated runs and the five others that the code violates (section 6) are statements of documents and of the schema.

Recursion is kept provable: sums are folds, and the names that `migrateUsers` gives one after the other are a recursive function
(`Renamed`), whose existence and values are proved by the least number at which they would fail (`NamingExists`).

## 6 Findings

Two are runs that violate one property each; `PROJECT.json` quotes the lines.

1. *A confirmation that never ends* (`dialog_confirmation`). The answer to the expiry check clears the one
   `pendingRoute_` while a confirmed cancellation waits. If that then fails or times out, nobody tells the
   confirmation: it stays on "please wait" with both buttons disabled. The design document (`docs/系统设计说明书.md`, line 424) asks that
   failures give the buttons back.
2. *Reviews without their orders* (`startup_reviews`). If a second process repeats the step from version 5 on a database that has
   `charging_review`, SQLite's rename of `charging_order` rewrites the foreign key of that table to the old name, which is then
   dropped. If a review was written before, the check of foreign keys refuses the start; otherwise the key stays broken and later
   reviews fail. `db/schema.sql` (line 219) says that the key refers to `charging_order`.

Further statements are written in the modules as properties that **the code violates**. They have no run of their own; adding the name
to the configuration given shows the counterexample in less than a minute.

| Property | Add to | What the counterexample shows |
|---|---|---|
| `CancellationRecovers` | `UserWindows_windows.cfg`, `INVARIANTS` | As finding 1, by a shorter way: the 10 s timer of `StationDetailDialog` (`resetAction`) forgets the route without telling the confirmation of a cancellation, which no answer and no failure then fits. |
| `AccountQuestionRecovers` | `UserWindows_windows.cfg`, `INVARIANTS` | The same of the confirmation of a recharge or logout: `finishRequest` of `UserProfileDialog`, run by its timer, tells it nothing, and the facade's failure that follows is ignored. Only a late success would still release it. |
| `SubmittedReviewsAreConfirmed` | `UserWindows_windows.cfg`, `PROPERTIES` | `UserClientFacade::handle` has no branch for `review.submit` and `review.get` (they are in a file that is not compiled). The server stores a review, the dialog waits for its own timer and reports a timeout, and a second attempt is a duplicate. The list reports every review as unreadable, so its review buttons stay disabled. |
| `SignsInAgainFromHome` | `UserSession_races.cfg`, `PROPERTIES` | After a restart of the server, a lost connection or a logout whose answer was lost, the home window stays, nothing reconnects, and logout fails for want of a session: only a logout that succeeds leads to the login window (`client_user/main.cpp`, line 24). Line 100 of the design document says the user can sign in again. |
| `ReservationsEnd` | `ChargeOrders_billing.cfg`, `PROPERTIES` | The design document (line 82) has a periodic cleaner in the server that frees chargers when no request comes. There is none: with the clock alone a lapsed reservation keeps its charger. |

**Observations**, met while modelling and visible in the actions, without a run:

1. *Settlement does not sweep.* Line 81 of the design document says that every order operation first clears lapsed reservations;
   `ChargeService::stop` does not (`Settle`).
2. *Old intervals.* `ChargeForecastService` says it uses the latest 3 to 5 charging intervals (`charge_forecast_service.h:24`); the loop at
   `charge_forecast_service.cpp:174` stops after five from the oldest.
3. *Too long an answer disables the login.* An answer over the frame limit is reported as an error of the server, which
   `client_admin/main.cpp` (lines 52 to 55) hands to the login window as if the server were gone; its button does not come back.

## 7 What is not modelled

* **Content.** Texts, layouts, the log file, JSON and SQL as such. Repositories are modelled by what their statements do.
* **SQLite** is external: atomic transactions, snapshot at the first read, one writer. A failing statement
  within a service call is a rollback, a stuttering step; so a call without its transaction would not be noticed by `ChargeOrders`.
* **Bytes.** Frames, their limit and the server's thread: the models see whole messages in order, connections that break with any part of
  them lost, and answers that are too long and never sent.
* **In `PhoneCodes`:** a wall clock that is set back; the row a first login inserts.
* **In `ChargeOrders`:** stations (one price stands for the station's), snapshot columns of names, several servers at
  once, the operation log; `restart` of a charger only reads.
* **In `RequestTable`:** the table of retired ids, which only chooses a log line.
* **In the user's windows:** what is drawn; recommendations, favourites, navigation and maps; image files of the avatar. No window but the login window connects, so a behaviour of `UserWindows` has one
  connection. In a build without the web engine a navigation that fails calls `resetAction` and so enables buttons during a refresh; navigation is left out with it.
* **In the administrator's windows:** the clock and labels of the status bar, the filters of the prediction's table, dialogs that only show
  a station's chargers or a user's orders, the log page.
* **In `DatabaseStartup`:** password hashes, the administrator's account, snapshot columns of rebuilt orders, foreign keys
  of supporting tables other than `charging_review`, the form of an incomplete backup file.
* **Out of reach or without state worth it:** forecast, planner and recommendation (floating point), maps, camera, pictures, charts; the Python
  prediction script (not in the repository); four source files that no CMake target compiles.

## 8 Plan

The model covers the components of section 1, and every safety property a run checks is proved. What a further extension would add:

1. *The gap between the windows and the timer.* The windows' proofs say that a wait is watched by a timer or by the facade;
   `EveryRequestEnds` says that the facade's waits end. That both together end every wait is argued in this file, not
   stated as one theorem, since it is a liveness property.
2. *A second server on the live database.* `ChargeOrders` has one server, `DatabaseStartup` lets several start. Two that serve the
   same file at the same time would put transactions, not operations, into the order core.
3. *Content left out so far*: the station catalogue as users read it, the form of forecast and plans, and the frames' limit.

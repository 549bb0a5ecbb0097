------------------------------ MODULE Catalogue ------------------------------
(***************************************************************************)
(* What administrators manage on the server: stations, chargers and the    *)
(* status of users, with the log of operations.  A request is executed in  *)
(* one piece by the server's only thread; one that fails, for the reasons  *)
(* below or because a statement fails, changes nothing.  Users reserve and *)
(* release chargers meanwhile.                                             *)
(***************************************************************************)
EXTENDS FiniteSets

CONSTANTS
  Stations,  \* ids of station rows, AUTOINCREMENT: none is used twice
  Chargers,  \* ids of charger rows, likewise
  Users      \* registered users

ASSUME CatalogueAssumption == Stations # {} /\ Chargers # {}

VARIABLES
  sites,     \* station rows
  usedSites, \* station ids that have been given out
  chargers,  \* status of each charger; "unborn" and "deleted" are no rows
  siteOf,    \* station of a charger, Nowhere before there is a row
  ordered,   \* chargers with a row in charging_order, of whatever status
  frozen,    \* users whose status is 0
  audit      \* what the last step wrote into the operation log

rows == <<sites, usedSites, chargers, siteOf, ordered, frozen>>
catalogue == <<rows, audit>>

ChargerStatus == {"Idle", "Using", "Fault"}
Unlogged == {}
Entry(ok) == {[ok |-> ok]}   \* whose operation it was is not told apart
Nowhere == "nowhere"

Exists(c) == chargers[c] \in ChargerStatus
ChargersAt(s) == {c \in Chargers : Exists(c) /\ siteOf[c] = s}
Unborn == {c \in Chargers : chargers[c] = "unborn"}

InitCatalogue ==
  /\ sites \in SUBSET Stations
  /\ usedSites = sites
  /\ chargers \in [Chargers -> {"unborn", "Idle"}]
  /\ siteOf \in [Chargers -> sites \cup {Nowhere}]
  /\ \A c \in Chargers : chargers[c] = "unborn" <=> siteOf[c] = Nowhere
  /\ ordered = {}
  /\ frozen = {}
  /\ audit = Unlogged

-----------------------------------------------------------------------------
(* Chargers.                                                               *)

\* variant: the station is not looked for
PutsAnywhere(new, s) ==
  /\ chargers' = [c \in Chargers |-> IF c \in new THEN "Idle" ELSE chargers[c]]
  /\ siteOf' = [c \in Chargers |-> IF c \in new THEN s ELSE siteOf[c]]
  /\ UNCHANGED <<sites, usedSites, ordered, frozen>>

\* INSERT of one charger or, in one transaction, of several
Puts(new, s) ==
  /\ s \in sites
  /\ chargers' = [c \in Chargers |-> IF c \in new THEN "Idle" ELSE chargers[c]]
  /\ siteOf' = [c \in Chargers |-> IF c \in new THEN s ELSE siteOf[c]]
  /\ UNCHANGED <<sites, usedSites, ordered, frozen>>

CreateCharger(s) == \E c \in Unborn : Puts({c}, s)

BatchCreate(s) == \E new \in SUBSET Unborn \ {{}} : Puts(new, s)

\* variant: the status is written whatever it was
ForcesStatus(c, before, after) ==
  /\ Exists(c)
  /\ chargers' = [chargers EXCEPT ![c] = after]
  /\ UNCHANGED <<sites, usedSites, siteOf, ordered, frozen>>

\* a charger with an active order is Using
ChangeStatus(c, before, after) ==
  /\ Exists(c)
  /\ chargers[c] = before
  /\ chargers' = [chargers EXCEPT ![c] = after]
  /\ UNCHANGED <<sites, usedSites, siteOf, ordered, frozen>>

MarkFault(c) == ChangeStatus(c, "Idle", "Fault")
Recover(c) == ChangeStatus(c, "Fault", "Idle")

\* it only answers whether the charger might be restarted
Restart(c) == Exists(c) /\ chargers[c] # "Using" /\ UNCHANGED rows

\* the foreign key of charging_order keeps a charger with past orders
DeleteCharger(c) ==
  /\ Exists(c)
  /\ chargers[c] # "Using"
  /\ c \notin ordered
  /\ chargers' = [chargers EXCEPT ![c] = "deleted"]
  /\ UNCHANGED <<sites, usedSites, siteOf, ordered, frozen>>

-----------------------------------------------------------------------------
(* Stations and users.                                                     *)

CreateStation ==
  /\ \E s \in Stations \ usedSites : /\ sites' = sites \cup {s}
                                     /\ usedSites' = usedSites \cup {s}
  /\ UNCHANGED <<chargers, siteOf, ordered, frozen>>

\* name, address, place and price are not told apart here
UpdateStation(s) == s \in sites /\ UNCHANGED rows

\* variant: chargers do not keep a station from being deleted
DeleteStationUnchecked(s) ==
  /\ s \in sites
  /\ sites' = sites \ {s}
  /\ UNCHANGED <<usedSites, chargers, siteOf, ordered, frozen>>

DeleteStation(s) ==
  /\ s \in sites
  /\ ChargersAt(s) = {}
  /\ sites' = sites \ {s}
  /\ UNCHANGED <<usedSites, chargers, siteOf, ordered, frozen>>

FreezeUser(u) ==
  /\ u \in Users \ frozen
  /\ frozen' = frozen \cup {u}
  /\ UNCHANGED <<sites, usedSites, chargers, siteOf, ordered>>

UnfreezeUser(u) ==
  /\ u \in frozen
  /\ frozen' = frozen \ {u}
  /\ UNCHANGED <<sites, usedSites, chargers, siteOf, ordered>>

\* a user takes a charger, or gives it back
Customer ==
  /\ \E c \in Chargers :
       \/ chargers[c] = "Idle" /\ c \notin ordered   \* bound: each charger once
                               /\ chargers' = [chargers EXCEPT ![c] = "Using"]
                               /\ ordered' = ordered \cup {c}
       \/ chargers[c] = "Using" /\ chargers' = [chargers EXCEPT ![c] = "Idle"]
                                /\ UNCHANGED ordered
  /\ UNCHANGED <<sites, usedSites, siteOf, frozen>>
  /\ audit' = Unlogged

-----------------------------------------------------------------------------
(* The routes.                                                             *)

ChargerWrites == {"charger.create", "charger.delete", "charger.markFault",
                  "charger.recover", "charger.restart"}
StationWrites == {"station.create", "station.update", "station.delete"}
UserWrites == {"user.freeze", "user.unfreeze"}
Writes == ChargerWrites \cup StationWrites \cup UserWrites \cup {"station.batchCreate"}

\* what a request does when it succeeds
Changes(route, id) ==
  CASE route = "charger.create"      -> id \in Stations /\ CreateCharger(id)
    [] route = "charger.delete"      -> id \in Chargers /\ DeleteCharger(id)
    [] route = "charger.markFault"   -> id \in Chargers /\ MarkFault(id)
    [] route = "charger.recover"     -> id \in Chargers /\ Recover(id)
    [] route = "charger.restart"     -> id \in Chargers /\ Restart(id)
    [] route = "station.create"      -> CreateStation
    [] route = "station.update"      -> id \in Stations /\ UpdateStation(id)
    [] route = "station.delete"      -> id \in Stations /\ DeleteStation(id)
    [] route = "station.batchCreate" -> id \in Stations /\ BatchCreate(id)
    [] route = "user.freeze"         -> id \in Users /\ FreezeUser(id)
    [] route = "user.unfreeze"       -> id \in Users /\ UnfreezeUser(id)

\* an id that is no id is refused before the service is asked
ValidId(route, id) == id # "none" \/ route = "station.create"

\* the operations on chargers are logged when they fail, too
Logged(route, id, ok) ==
  IF ok THEN Entry(TRUE)
  ELSE IF route \in ChargerWrites \cup {"station.batchCreate"} /\ ValidId(route, id)
       THEN Entry(FALSE)
  ELSE Unlogged

Executed(route, id, ok) ==
  /\ IF ok THEN ValidId(route, id) /\ Changes(route, id) ELSE UNCHANGED rows
  /\ audit' = Logged(route, id, ok)

-----------------------------------------------------------------------------
(* Properties.                                                             *)

\* Every charger is at a station that exists, whatever another
\* administrator's stale screen asked for (AdminService::deleteStation).
ChargersHaveStations == \A c \in Chargers : Exists(c) => siteOf[c] \in sites

\* Only its user's own steps touch a charger in use: an administrator who
\* still sees it idle is refused (ChargerService::changeStatus, remove).
CustomersKeepTheirCharger ==
  [][audit' # Unlogged =>
       \A c \in Chargers : chargers[c] = "Using" => chargers'[c] = "Using"]_catalogue
=============================================================================

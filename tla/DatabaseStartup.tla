-------------------------- MODULE DatabaseStartup --------------------------
(***************************************************************************)
(* DatabaseManager::initialize: what every start of a server process does   *)
(* to the database file before the server listens.  An empty file gets the  *)
(* schema, an older one is backed up and migrated version by version in one *)
(* transaction, a current one whose columns are incomplete is backed up and *)
(* repaired, and the demonstration data goes into an empty catalogue.       *)
(* A process may die at any point, a statement may fail, and two processes  *)
(* (two windows of the administrator's program) may start on one file.      *)
(*                                                                         *)
(* SQLite is external.  Its transactions are the variables view and writer: *)
(* a transaction sees the file as it was at its first read, its first write *)
(* needs the write lock and an unchanged file, and a rollback or the death  *)
(* of the process leaves the file alone.  The column-by-column work of the  *)
(* migrations is reduced to what it does to accounts, records, orders and   *)
(* the link from reviews to orders.                                         *)
(***************************************************************************)
EXTENDS Integers, Sequences

CONSTANTS
  Starters,    \* the processes that start on the file
  Databases,   \* the databases a start may find
  Mobiles,     \* the phone numbers that are well-formed mobile numbers
  Chargers,    \* ids of the chargers; any other id is a dangling link
  LegacyName,  \* LegacyName[id]: the text legacy_user_<id>
  NoOne,       \* the holder of the write lock when nobody holds it
  MaxStarts    \* bound: starts ever made

ASSUME StartupAssumption == NoOne \notin Starters

VARIABLES
  original,  \* history: the database the first start finds
  file,      \* the committed content of the database file
  backups,   \* the complete copies in migration-backups
  pc,        \* where initialize() of each process is
  from,      \* the schema version it works at
  view,      \* what its transaction sees
  writer,    \* the process that holds SQLite's write lock
  starts     \* starts made so far

startupVars == <<original, file, backups, pc, from, view, writer, starts>>

LatestVersion == 10

NoName == <<"", 0>>

\* a name is a text and the number of underscores appended to it; "" is NULL
Account == [name : STRING \X Nat, phone : STRING \cup {""}]

\* charging_record and charging_order; the key of an order is the row it is from
LegacyRecord == [id : Nat, user : Nat, charger : Nat, active : BOOLEAN]
OrderRow == [key : {"charging_order", "charging_record"} \X Nat,
             user : Nat, charger : Nat, active : BOOLEAN]

\* version 0 is a file without schema_version; drift says whether columns are
\* missing that repairKnownSchemaDrift or migrateVehicleProfile knows
Database ==
  [version : Nat, drift : {"none", "known", "unknown"},
   users : Seq(Account), records : SUBSET LegacyRecord, orders : SUBSET OrderRow,
   reviews : {"absent", "sound", "broken"},  \* charging_review: broken if its foreign
                                             \* key names a table that is gone
   reviewed : BOOLEAN,  \* it has rows
   stations : BOOLEAN,  \* the operator's own stations
   demo : BOOLEAN,      \* the demonstration users, stations and orders
   taken : BOOLEAN]     \* an account of somebody has a demonstration user's phone

Writing == {"Creating", "Migrating", "Seeding"}

Working == {"Opened", "Backup", "Begin", "Upgrade", "Seed", "SeedUpgrade"} \cup Writing

Ended == {"Off", "Ready", "Refused", "Failed"}

-----------------------------------------------------------------------------
(* Constraints of the tables.                                              *)

\* every row belongs to a user and a charger that exist
Linked(rows, db) ==
  \A r \in rows : r.user \in DOMAIN db.users /\ r.charger \in Chargers

\* the partial unique indexes: one active row for a user and for a charger
OneActive(rows) ==
  \A r, s \in rows :
    r.active /\ s.active /\ (r.user = s.user \/ r.charger = s.charger) => r = s

DistinctNames(users) ==
  \A i, j \in DOMAIN users : users[i].name = users[j].name /\ users[i].name # NoName => i = j

\* DatabaseMigrationManager::validate
HasColumns(db) == db.drift = "none"

OneKey(orders) == \A o, n \in orders : o.key = n.key => o = n

\* every record is the source of exactly one order
AllImported(db) ==
  /\ \A r \in db.records :
       \E o \in db.orders :
         /\ o.key = <<"charging_record", r.id>>
         /\ o.user = r.user /\ o.charger = r.charger
         /\ o.active => r.active
  /\ \A o \in db.orders :
       o.key[1] = "charging_record" => \E r \in db.records : r.id = o.key[2]
  /\ OneKey(db.orders)

\* What a start may find: ids are primary keys, a file without schema_version is
\* a new one, legacy_source came with version 6, and whoever brought the file to
\* version 6 or later imported the records and had foreign keys checked; reviews
\* came with version 7.
ASSUME DatabasesAssumption ==
  \A db \in Databases :
    /\ db \in Database
    /\ \A i \in DOMAIN db.users : LegacyName[i] \in STRING
    /\ \A r, s \in db.records : r.id = s.id => r = s
    /\ OneKey(db.orders)
    /\ db.version = 0 => /\ db.records = {} /\ db.orders = {} /\ ~db.taken
                         /\ db.drift = "none"
    /\ db.version \in 1..5 => \A o \in db.orders : o.key[1] = "charging_order"
    /\ db.version >= 6 => AllImported(db) /\ Linked(db.orders, db)
    /\ db.version < 7 => db.reviews = "absent"
    /\ db.reviewed => db.reviews = "sound"

-----------------------------------------------------------------------------
(* What the steps of the migration do.                                     *)

\* underscores are appended until the name is free
FreeName(name, used) ==
  LET n == CHOOSE n \in name[2]..(name[2] + Len(used)) :
             /\ \A i \in DOMAIN used : used[i] # <<name[1], n>>
             /\ \A m \in name[2]..(n - 1) : \E i \in DOMAIN used : used[i] = <<name[1], m>>
  IN <<name[1], n>>

\* variant: two users may end with the same name
NamedAlike(names, account) ==
  Append(names, IF account.name # NoName THEN account.name ELSE <<account.phone, 0>>)

\* migrateUsers: the username, else the phone, else legacy_user_<id>
Named(names, account) ==
  LET own  == IF account.name # NoName THEN account.name ELSE <<account.phone, 0>>
      base == IF own = NoName \/ \E i \in DOMAIN names : names[i] = own
              THEN <<LegacyName[Len(names) + 1], 0>> ELSE own
  IN  Append(names, FreeName(base, names))

Renamed(users) ==
  LET names[n \in 0..Len(users)] == IF n = 0 THEN <<>> ELSE Named(names[n - 1], users[n])
  IN  [i \in DOMAIN users |-> [users[i] EXCEPT !.name = names[Len(users)][i]]]

\* variant: only finished orders survive the rebuild
RebuiltFinished(orders) == {o \in orders : ~o.active}

\* rebuildOrders: every row is copied into the new table under its own id ...
Rebuilt(orders) == {[o EXCEPT !.key = o.key] : o \in orders}

\* ... from the old one, which is renamed, and with it the foreign key of
\* charging_review, and then dropped
Unlinked(reviews) == IF reviews = "sound" THEN "broken" ELSE reviews

\* variant: running records are left behind
ImportedFinished(db) ==
  {[key |-> <<"charging_record", r.id>>, user |-> r.user, charger |-> r.charger,
    active |-> r.active] : r \in {s \in db.records : ~s.active}}

\* importChargingRecords: the records that have no order yet
Imported(db) ==
  {[key |-> <<"charging_record", r.id>>, user |-> r.user, charger |-> r.charger,
    active |-> r.active] :
   r \in {s \in db.records : ~\E o \in db.orders : o.key = <<"charging_record", s.id>>}}

\* migrateUserSchemaV8ToV9: a phone that is no mobile number becomes NULL
Normalised(users) ==
  [i \in DOMAIN users |->
     [users[i] EXCEPT !.phone = IF users[i].phone \in Mobiles THEN users[i].phone ELSE ""]]

\* recordVersion
AtVersion(db, v) == [db EXCEPT !.version = IF v > db.version THEN v ELSE db.version]

-----------------------------------------------------------------------------
(* The start of a process.                                                 *)

InitStartup ==
  /\ original \in Databases
  /\ file = original
  /\ backups = {}
  /\ pc = [p \in Starters |-> "Off"]
  /\ from = [p \in Starters |-> 0]
  /\ view = [p \in Starters |-> original]
  /\ writer = NoOne
  /\ starts = 0

Goes(p, where) == pc' = [pc EXCEPT ![p] = where]

\* open() and configureConnection()
Open(p) ==
  /\ pc[p] = "Off"
  /\ starts < MaxStarts
  /\ starts' = starts + 1
  /\ Goes(p, "Opened")
  /\ UNCHANGED <<original, file, backups, from, view, writer>>

\* initialize() reads the version and decides what is to be done
Inspect(p) ==
  /\ pc[p] = "Opened"
  /\ from' = [from EXCEPT ![p] = file.version]
  /\ Goes(p, CASE file.version = 0                -> "Creating"
               [] file.version > LatestVersion    -> "Refused"
               [] \/ file.version \in 1..(LatestVersion - 1)
                  \/ file.version = LatestVersion /\ ~HasColumns(file) -> "Backup"
               [] file.version = LatestVersion /\ HasColumns(file) -> "Seed")
  /\ UNCHANGED <<original, file, backups, view, writer, starts>>

\* createMigrationBackup: VACUUM INTO a file of its own
BackUp(p) ==
  /\ pc[p] = "Backup"
  /\ backups' = backups \cup {file}
  /\ Goes(p, "Begin")
  /\ UNCHANGED <<original, file, from, view, writer, starts>>

\* variant: a backup that fails is passed over
BackUpPassedOver(p) ==
  /\ pc[p] = "Backup"
  /\ Goes(p, "Begin")
  /\ UNCHANGED <<original, file, backups, from, view, writer, starts>>

BackUpFails(p) ==
  /\ pc[p] = "Backup"
  /\ Goes(p, "Failed")
  /\ UNCHANGED <<original, file, backups, from, view, writer, starts>>

\* transaction(), and the first read in it
Begins(p, here, next) ==
  /\ pc[p] = here
  /\ view' = [view EXCEPT ![p] = file]
  /\ Goes(p, next)
  /\ UNCHANGED <<original, file, backups, from, writer, starts>>

BeginMigration(p) == Begins(p, "Begin", "Upgrade")

\* the first write of a transaction
MayWrite(p) == writer = NoOne /\ view[p] = file

\* repairKnownSchemaDrift and migrateVehicleProfile
Repair(p) ==
  /\ pc[p] = "Upgrade"
  /\ MayWrite(p)
  /\ writer' = p
  /\ view' = [view EXCEPT ![p].drift = IF @ = "known" THEN "none" ELSE @]
  /\ Goes(p, "Migrating")
  /\ UNCHANGED <<original, file, backups, from, starts>>

\* the lock is held for longer than the busy timeout, or the snapshot is stale
IsBusy(p) ==
  /\ pc[p] \in {"Upgrade", "SeedUpgrade"}
  /\ ~MayWrite(p)
  /\ Goes(p, "Failed")
  /\ UNCHANGED <<original, file, backups, from, view, writer, starts>>

RollsBack(p, where) ==
  /\ Goes(p, where)
  /\ writer' = NoOne
  /\ UNCHANGED <<original, file, backups, from, view, starts>>

\* the step from version v, which succeeds or ends the migration
Migrates(p, v, fits, result) ==
  /\ pc[p] = "Migrating"
  /\ from[p] = v
  /\ \/ /\ fits
        /\ view' = [view EXCEPT ![p] = AtVersion(result, v + 1)]
        /\ from' = [from EXCEPT ![p] = v + 1]
        /\ UNCHANGED <<original, file, backups, pc, writer, starts>>
     \/ /\ ~fits
        /\ RollsBack(p, "Refused")

MigrateUsers(p) ==
  LET users == Renamed(view[p].users)
  IN  Migrates(p, 1, DistinctNames(users), [view[p] EXCEPT !.users = users])

\* the index of idx_one_active_record_per_charger
MigrateCharging(p) ==
  Migrates(p, 2, \A r, s \in view[p].records :
                   r.active /\ s.active /\ r.charger = s.charger => r = s, view[p])

MigrateReservationOrders(p) == Migrates(p, 4, OneActive(view[p].records), view[p])

MigrateV5ToV6(p) ==
  LET orders == Rebuilt(view[p].orders) \cup Imported(view[p])
  IN  Migrates(p, 5, /\ Linked(view[p].orders \cup view[p].records, view[p])
                     /\ OneActive(orders),
                  [view[p] EXCEPT !.orders = orders, !.reviews = Unlinked(@)])

\* CREATE TABLE IF NOT EXISTS charging_review
MigrateV6ToV7(p) ==
  Migrates(p, 6, TRUE, [view[p] EXCEPT !.reviews = IF @ = "absent" THEN "sound" ELSE @])

MigrateUserSchema(p) ==
  Migrates(p, 8, TRUE, [view[p] EXCEPT !.users = Normalised(@)])

\* the steps that only add columns, tables and indexes
ExtendSchema(p) == \E v \in {3, 7, 9} : Migrates(p, v, TRUE, view[p])

\* rows whose foreign key names no table
Orphans(db) == db.reviews = "broken" /\ db.reviewed

\* validate, and foreignKeyCheck of all tables
Validates(db) == HasColumns(db) /\ Linked(db.orders, db) /\ ~Orphans(db)

\* commit() or rollback()
FinishMigration(p) ==
  /\ pc[p] = "Migrating"
  /\ from[p] = LatestVersion
  /\ \/ /\ Validates(view[p])
        /\ file' = view[p]
        /\ writer' = NoOne
        /\ Goes(p, "Seed")
        /\ UNCHANGED <<original, backups, from, view, starts>>
     \/ /\ ~Validates(view[p])
        /\ RollsBack(p, "Refused")

-----------------------------------------------------------------------------
(* Demonstration data, and a new database.                                 *)

HasCatalog(db) == db.stations \/ db.demo

\* the phone numbers of the demonstration users are unique columns
Seedable(db) == ~db.taken

\* SeedData::populate; the administrator's account is left out
BeginSeed(p) ==
  \/ /\ HasCatalog(file)
     /\ Begins(p, "Seed", "Ready")
  \/ /\ ~HasCatalog(file)
     /\ Begins(p, "Seed", "SeedUpgrade")

Populate(p) ==
  /\ pc[p] = "SeedUpgrade"
  /\ MayWrite(p)
  /\ \/ /\ Seedable(view[p])
        /\ writer' = p
        /\ view' = [view EXCEPT ![p].demo = TRUE]
        /\ Goes(p, "Seeding")
        /\ UNCHANGED <<original, file, backups, from, starts>>
     \/ /\ ~Seedable(view[p])
        /\ RollsBack(p, "Refused")

\* createInitialDatabase; the version is inserted, not replaced
Create(p) ==
  /\ pc[p] = "Creating"
  /\ writer = NoOne
  /\ \/ /\ file.version = 0
        /\ writer' = p
        /\ view' = [view EXCEPT ![p] = [file EXCEPT !.version = LatestVersion,
                                                    !.reviews = "sound", !.demo = TRUE]]
        /\ Goes(p, "Seeding")
        /\ UNCHANGED <<original, file, backups, from, starts>>
     \/ /\ file.version # 0
        /\ RollsBack(p, "Failed")

\* commit()
Commit(p) ==
  /\ pc[p] = "Seeding"
  /\ file' = view[p]
  /\ writer' = NoOne
  /\ Goes(p, "Ready")
  /\ UNCHANGED <<original, backups, from, view, starts>>

-----------------------------------------------------------------------------
(* Disturbances, and the work of a running server.                         *)

Released(p) == IF writer = p THEN NoOne ELSE writer

\* a statement fails: initialize() rolls back and gives up
Fails(p) ==
  /\ pc[p] \in Working
  /\ writer' = Released(p)
  /\ Goes(p, "Failed")
  /\ UNCHANGED <<original, file, backups, from, view, starts>>

\* the process ends, in good order or not
Crash(p) ==
  /\ pc[p] # "Off"
  /\ writer' = Released(p)
  /\ Goes(p, "Off")
  /\ UNCHANGED <<original, file, backups, from, view, starts>>

Serves(db) ==
  /\ \E p \in Starters : pc[p] = "Ready"
  /\ writer = NoOne
  /\ file' = db
  /\ UNCHANGED <<original, backups, pc, from, view, writer, starts>>

\* an order ends (module ChargeOrders)
Settle(o) ==
  /\ o.active
  /\ Serves([file EXCEPT !.orders = (@ \ {o}) \cup {[o EXCEPT !.active = FALSE]}])

\* a finished order is reviewed; a row whose foreign key names no table is refused
Review(o) ==
  /\ ~o.active
  /\ file.reviews = "sound"
  /\ ~file.reviewed
  /\ Serves([file EXCEPT !.reviewed = TRUE])

\* the administrator deletes every charger and station; orders protect theirs
EmptyCatalog ==
  /\ file.stations
  /\ file.orders = {}
  /\ Serves([file EXCEPT !.stations = FALSE])

\* somebody signs in with the phone number of a demonstration user
Register ==
  /\ ~file.taken
  /\ ~file.demo
  /\ Serves([file EXCEPT !.taken = TRUE])

-----------------------------------------------------------------------------
NextStartup ==
  \/ \E p \in Starters :
       \/ Open(p) \/ Inspect(p) \/ BackUp(p) \/ BackUpFails(p)
       \/ BeginMigration(p) \/ Repair(p) \/ IsBusy(p)
       \/ MigrateUsers(p) \/ MigrateCharging(p) \/ MigrateReservationOrders(p)
       \/ MigrateV5ToV6(p) \/ MigrateV6ToV7(p) \/ MigrateUserSchema(p) \/ ExtendSchema(p)
       \/ FinishMigration(p)
       \/ BeginSeed(p) \/ Populate(p) \/ Create(p) \/ Commit(p)
       \/ Fails(p) \/ Crash(p)
  \/ \E o \in file.orders : Settle(o) \/ Review(o)
  \/ EmptyCatalog
  \/ Register

StartupSpec == InitStartup /\ [][NextStartup]_startupVars

-----------------------------------------------------------------------------
(* Properties.                                                             *)

\* Once the file is at version 6 or later every charging_record is the source of
\* exactly one order, of the same user at the same charger, and no other order
\* claims to come from a record: however often and by however many processes the
\* migration was started (importChargingRecords and the unique legacy index).
RecordsAreOrders == file.version >= 6 => AllImported(file)

\* Nothing that is committed is lost by a start: every account keeps its id and a
\* usable phone, every order its key, user and charger; an order that ended stays
\* ended, although a second process may have begun its migration before that; and
\* a review, once written, is there.
HistoryIsKept ==
  [][/\ \A i \in DOMAIN file.users :
          /\ i \in DOMAIN file'.users
          /\ file.users[i].phone \in Mobiles => file'.users[i].phone = file.users[i].phone
     /\ \A o \in file.orders :
          \E n \in file'.orders :
            /\ n.key = o.key /\ n.user = o.user /\ n.charger = o.charger
            /\ n.active => o.active
     /\ file.reviewed => file'.reviewed]_startupVars

\* When a migration changes the version of the file, the content it replaces is in
\* migration-backups, complete and unaltered (createMigrationBackup in initialize).
BackedUpFirst ==
  [][file.version \in 1..LatestVersion /\ file'.version # file.version
       => file \in backups]_startupVars

\* what nobody can decide but the operator: rows without owner, two active rows
\* for one user or charger, columns nobody knows, a newer version
Contradictory(db) ==
  \/ db.version > LatestVersion
  \/ db.drift = "unknown"
  \/ /\ db.version < 6
     /\ \/ ~Linked(db.orders \cup db.records, db)
        \/ ~OneActive(Rebuilt(db.orders) \cup Imported(db))

\* a step from version 5 that is repeated on a file that others have migrated and
\* served since takes the orders away from the reviews written in the meantime
TookOrdersAway(db) == original.version \in 1..5 /\ Orphans(db)

\* A start is refused for the data it finds only if that data is contradictory, if
\* an empty catalogue cannot be filled, or if the migration itself broke the link
\* of reviews that were written since it looked at the version; no crash, failed
\* statement or interleaving makes another reason.  Contradictory data is left
\* exactly as it was.
RefusedForCause ==
  /\ \A p \in Starters :
       pc[p] = "Refused" => \/ Contradictory(original)
                            \/ ~HasCatalog(file) /\ ~Seedable(file)
                            \/ TookOrdersAway(view[p])
  /\ Contradictory(original) => file = original

\* What db/schema.sql declares of charging_review: its order_id refers to
\* charging_order.  A run refutes that a start leaves it so.
ReviewsReferToOrders == [][file.reviews = "sound" => file'.reviews = "sound"]_startupVars
=============================================================================

------------------------- MODULE MCDatabaseStartup --------------------------
(* Small databases of every version: two users, two chargers, at most one  *)
(* order and two records, with and without contradictions.                 *)
EXTENDS DatabaseStartup

MCMobiles == {"13800000001"}
MCChargers == {1, 2}
MCLegacyName == <<"legacy_user_1", "legacy_user_2">>

Plain == [version |-> 10, drift |-> "none",
          users |-> <<[name |-> <<"ann", 0>>, phone |-> "13800000001"],
                      [name |-> <<"bob", 0>>, phone |-> ""]>>,
          records |-> {}, orders |-> {}, reviews |-> "sound", reviewed |-> FALSE, stations |-> TRUE,
          demo |-> FALSE, taken |-> FALSE]

Empty == [Plain EXCEPT !.version = 0, !.users = <<>>, !.reviews = "absent", !.stations = FALSE]

\* version 1: names in doubt, phones that are no mobile numbers
NameChoice == {NoName, <<"ann", 0>>, <<"legacy_user_2", 0>>}

Version1 ==
  {[Plain EXCEPT !.version = 1, !.reviews = "absent",
                 !.users = <<[name |-> n, phone |-> f], [name |-> m, phone |-> g]>>] :
   n \in NameChoice, m \in NameChoice,
   f \in {"", "13800000001"}, g \in {"", "legacy01"}}

\* versions 3 to 5: records of two users, one of them perhaps dangling
Rec(i, u, c, a) == [id |-> i, user |-> u, charger |-> c, active |-> a]

RecordChoice ==
  {{Rec(1, 1, 1, TRUE)}, {Rec(1, 1, 1, FALSE), Rec(2, 1, 2, TRUE)},
   {Rec(1, 1, 1, TRUE), Rec(2, 2, 2, TRUE)}, {Rec(1, 1, 1, TRUE), Rec(2, 1, 2, TRUE)},
   {Rec(1, 99, 1, FALSE)}}

OrderChoice ==
  {{}} \cup {{[key |-> <<"charging_order", 9>>, user |-> 2, charger |-> c, active |-> a]} :
             c \in {2, 99}, a \in BOOLEAN}

Version3To5 ==
  {[Plain EXCEPT !.version = v, !.reviews = "absent", !.records = r, !.orders = o] :
   v \in 3..5, r \in RecordChoice, o \in OrderChoice}

\* later versions: imported records, missing columns, an empty catalogue
Later ==
  {[Plain EXCEPT !.version = v, !.reviews = IF v = 6 THEN "absent" ELSE "sound",
                 !.drift = d, !.records = r,
                 !.orders = {[key |-> <<"charging_record", q.id>>, user |-> q.user,
                              charger |-> q.charger, active |-> q.active] : q \in r}] :
   v \in {6, 8, 10}, d \in {"none", "known", "unknown"}, r \in {{}, {Rec(1, 1, 1, TRUE)}}}
  \cup {[Plain EXCEPT !.version = v, !.stations = FALSE, !.taken = t] :
        v \in {9, 10}, t \in BOOLEAN}
  \cup {[Plain EXCEPT !.version = v, !.drift = "known", !.reviewed = TRUE,
                      !.orders = {[key |-> <<"charging_order", 9>>, user |-> 2, charger |-> 2,
                                   active |-> FALSE]}] : v \in {8, 10}}
  \cup {[Plain EXCEPT !.version = 11]}

\* one database of version 5, with nothing in doubt
MCRecorded == {[Plain EXCEPT !.version = 5, !.reviews = "absent", !.records = {Rec(1, 1, 1, FALSE)}]}

MCDatabases == {Empty} \cup Version1 \cup Version3To5 \cup Later
=============================================================================

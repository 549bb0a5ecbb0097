---------------------------- MODULE ChargerLease ----------------------------
(***************************************************************************)
(* What the order core promises to anyone who looks at a charger: it is a  *)
(* lease.  A charger that is free is taken by one user who holds no other; *)
(* the holder begins to charge or gives it up, and when he charges only    *)
(* his settlement frees it.  A lease that is merely reserved may lapse, at *)
(* the start of any other step.  Only a free charger is taken out of       *)
(* service.  There are no orders, times, prices or balances here.          *)
(***************************************************************************)
CONSTANTS Users, Chargers

VARIABLES
  phase,   \* "Idle", "Reserved", "Charging", or out of service
  holder   \* the users who hold the charger

lease == <<phase, holder>>

OutOfService == {"Fault", "Absent"}

Init ==
  /\ phase = [c \in Chargers |-> "Idle"]
  /\ holder = [c \in Chargers |-> {}]

\* the leases after those in S have lapsed
PhaseWithout(S)  == [c \in Chargers |-> IF c \in S THEN "Idle" ELSE phase[c]]
HolderWithout(S) == [c \in Chargers |-> IF c \in S THEN {} ELSE holder[c]]

Lapse(S) == phase' = PhaseWithout(S) /\ holder' = HolderWithout(S)

Take(S, u, c, as) ==
  /\ PhaseWithout(S)[c] = "Idle"
  /\ \A d \in Chargers : u \notin HolderWithout(S)[d]
  /\ phase' = [PhaseWithout(S) EXCEPT ![c] = as]
  /\ holder' = [HolderWithout(S) EXCEPT ![c] = {u}]

Begin(S, c) ==
  /\ PhaseWithout(S)[c] = "Reserved"
  /\ phase' = [PhaseWithout(S) EXCEPT ![c] = "Charging"]
  /\ holder' = HolderWithout(S)

\* a settlement
Release(c) ==
  /\ phase[c] = "Charging"
  /\ phase' = [phase EXCEPT ![c] = "Idle"]
  /\ holder' = [holder EXCEPT ![c] = {}]

Service(c, to) ==
  /\ phase[c] \in OutOfService \cup {"Idle"}
  /\ phase' = [phase EXCEPT ![c] = to]
  /\ UNCHANGED holder

Next ==
  \/ \E S \in SUBSET {c \in Chargers : phase[c] = "Reserved"} :
       \/ Lapse(S)
       \/ \E u \in Users, c \in Chargers, as \in {"Reserved", "Charging"} : Take(S, u, c, as)
       \/ \E c \in Chargers : Begin(S, c)
  \/ \E c \in Chargers : Release(c)
  \/ \E c \in Chargers, to \in OutOfService \cup {"Idle"} : Service(c, to)

Spec == Init /\ [][Next]_lease

(* At most one user holds a charger, and he holds no other.                *)
OneHolder ==
  \A c, d \in Chargers : \A u \in holder[c], v \in holder[d] : (c = d) <=> (u = v)

(* Someone holds a charger exactly while it is reserved or charging.       *)
HeldIsBusy == \A c \in Chargers : holder[c] # {} <=> phase[c] \in {"Reserved", "Charging"}
=============================================================================

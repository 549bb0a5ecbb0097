--------------------------- MODULE MCChargeOrders ---------------------------
(* Finite instances of the order core. *)
EXTENDS ChargeOrderProperties, TLC

MCSymmetry == Permutations(Users) \cup Permutations(Chargers)

=============================================================================

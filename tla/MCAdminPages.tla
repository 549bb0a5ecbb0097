---------------------------- MODULE MCAdminPages ----------------------------
(* Every request of an administrator is refused while its like waits.      *)
EXTENDS AdminPages, TLC

MCSymmetry == Permutations(Stations) \cup Permutations(Users)
=============================================================================

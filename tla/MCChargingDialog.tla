-------------------------- MODULE MCChargingDialog --------------------------
(* The four requests of the dialog; charge.active is a query.              *)
EXTENDS ChargingDialog

MCTransactional == DialogRoutes \ {"charge.active"}
=============================================================================

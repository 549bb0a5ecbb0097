---------------------------- MODULE MCAdminProgram ----------------------------
(* The facade supersedes the summary and refuses every other request whose *)
(* like waits.                                                             *)
EXTENDS AdminProgram

MCTransactional == ProgramRoutes \ Queries
=============================================================================

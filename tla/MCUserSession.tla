--------------------------- MODULE MCUserSession ----------------------------
(* Codes, login and logout are transactional, any other request a query.   *)
EXTENDS UserSession

MCTransactional == AuthRoutes \cup {"user.logout"}
=============================================================================

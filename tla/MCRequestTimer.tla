--------------------------- MODULE MCRequestTimer ---------------------------
(* The logout, which is transactional, a query, and a query whose success  *)
(* no signal announces.                                                    *)
EXTENDS RequestTimer

MCRoutes == {"user.logout", "station.list", "review.submit"}
MCTransactional == {"user.logout"}
MCEndsSession == {"user.logout"}
MCAnnounced == {"user.logout", "station.list"}
=============================================================================

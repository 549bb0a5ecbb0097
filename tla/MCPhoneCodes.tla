---------------------------- MODULE MCPhoneCodes ----------------------------
(* Two phones that compete for the one entry the limiter keeps. *)
EXTENDS PhoneCodes
=============================================================================

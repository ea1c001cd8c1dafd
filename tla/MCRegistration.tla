--------------------------- MODULE MCRegistration ---------------------------
(***************************************************************************)
(* A small instance of Registration: two schedules of one autoscaler.      *)
(***************************************************************************)
EXTENDS Registration
=============================================================================

---------------------------- MODULE MCLifecycle -----------------------------
(***************************************************************************)
(* A small instance of Lifecycle: two target instances, one or two keys.   *)
(***************************************************************************)
EXTENDS Lifecycle
=============================================================================

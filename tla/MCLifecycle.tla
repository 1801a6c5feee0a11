---------------------------- MODULE MCLifecycle ----------------------------
(***************************************************************************)
(* The instance of Lifecycle for TLC: the writers are all there is to      *)
(* name, and the configuration does.                                       *)
(***************************************************************************)
EXTENDS Lifecycle
=============================================================================

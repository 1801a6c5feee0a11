---------------------------- MODULE MCEventFeed ----------------------------
(***************************************************************************)
(* The instance of EventFeed for TLC: its bounds are all there is to       *)
(* choose, and the configuration does.                                     *)
(***************************************************************************)
EXTENDS EventFeed
=============================================================================

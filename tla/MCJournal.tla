------------------------------ MODULE MCJournal ------------------------------
(***************************************************************************)
(* Instances of Journal for TLC: which tasks there are and which of them   *)
(* may be aborted is all there is to choose, and the configurations do.    *)
(***************************************************************************)
EXTENDS Journal
=============================================================================

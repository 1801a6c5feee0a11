------------------------------ MODULE MCServer ------------------------------
(***************************************************************************)
(* Instances of Server for TLC: payment clients around a reset, a switched *)
(* listener and commands that act on payments.                             *)
(***************************************************************************)
EXTENDS Server, TLC

Post(id, resource, online) ==
  [id |-> id, resource |-> resource, generation |-> Always, online |-> online]

ResetSwitch == {Post("r", "reset", TRUE), Post("t", "transport", FALSE)}

ResetAction == {Post("r", "reset", TRUE), Post("a", "action", TRUE), Post("p", "purchase", TRUE)}

OneReset == {Post("r", "reset", TRUE)}

Interchangeable == Permutations(Clients) \cup Permutations(Callers)
=============================================================================

------------------------------ MODULE MCControl ------------------------------
(***************************************************************************)
(* Instances of Control for TLC: a few requests among resets, retried      *)
(* resets, transport switches and purchases, with and without the          *)
(* generation they are meant for, and with an identifier used twice.       *)
(***************************************************************************)
EXTENDS Control

Post(id, resource, meant, online) ==
  [id |-> id, resource |-> resource, generation |-> meant, online |-> online]

AnyCommands ==
  {Post("a", "purchase", Always, TRUE), Post("a", "transport", 1, FALSE),
   Post("r", "reset", Always, TRUE), Post("s", "reset", 2, TRUE)}
=============================================================================

------------------------------ MODULE MCClient ------------------------------
(***************************************************************************)
(* An instance of Client for TLC: two terminals, a client that presses a   *)
(* few buttons, and others that reset, reconfigure and pay in between.     *)
(***************************************************************************)
EXTENDS Client

Manual == [device |-> DefaultDevice, amount |-> 0, merchant |-> AnyMerchant, uses |-> 1,
           mode |-> "manual", outcome |-> "approved", error |-> NoError,
           reference |-> "none", failureStage |-> "authorizing",
           timing |-> [connect |-> 0, card |-> 0, customer |-> 0, authorize |-> 0, confirm |-> 0,
                       response |-> 0, timeout |-> 1],
           delivery |-> "normal", confirm |-> FALSE, manualBank |-> TRUE]

Automatic == [Manual EXCEPT !.mode = "automatic", !.manualBank = FALSE]

OneTuning == {Manual}

OneArmed == {Manual}

Default == {DefaultProfile}

SomeChoices == {"approved", "terminal_general", "driver_install_9011", "paylink_not_running"}
=============================================================================

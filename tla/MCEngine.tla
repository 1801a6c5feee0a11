------------------------------ MODULE MCEngine ------------------------------
(***************************************************************************)
(* Instances of Engine for TLC: scenarios small enough to enumerate, with  *)
(* every stage, mode, outcome and kind of deadline race among them.        *)
(***************************************************************************)
EXTENDS Engine

Quick == [connect |-> 0, card |-> 1, customer |-> 0, authorize |-> 1, confirm |-> 1,
          response |-> 0, timeout |-> 3]

Plain == [device |-> DefaultDevice, amount |-> 0, merchant |-> AnyMerchant, uses |-> 1,
          mode |-> "automatic", outcome |-> "approved", error |-> NoError,
          reference |-> "none", failureStage |-> "authorizing", timing |-> Quick,
          delivery |-> "normal", confirm |-> FALSE, manualBank |-> FALSE]

\* The confirmation falls due exactly at the deadline: a tie.
Tie == [Plain EXCEPT !.confirm = TRUE]

\* Everything waits for an input.
ByHand == [Plain EXCEPT !.mode = "manual", !.manualBank = TRUE, !.confirm = TRUE]

Declining == [Plain EXCEPT !.outcome = "declined"]

Failing(error, stage) ==
  [Plain EXCEPT !.outcome = "error", !.error = error, !.failureStage = stage]

\* A recorded failure as the reply to a decline that a bank may override.
Recorded ==
  [Plain EXCEPT !.reference = "recorded_failure", !.outcome = "declined", !.manualBank = TRUE]

\* One device, every kind of scenario.
ScriptedScenarios ==
  {Plain, Tie, ByHand, Declining, Recorded,
   [Plain EXCEPT !.uses = 2, !.amount = 2],
   [Plain EXCEPT !.timing.connect = 2],
   [Plain EXCEPT !.timing.card = 9],
   [ByHand EXCEPT !.outcome = "declined", !.timing.timeout = 2],
   [Plain EXCEPT !.delivery = "disconnect_before_accept", !.uses = 2],
   Failing("terminal_general", "connecting"),
   Failing("customer_cancelled", "awaiting_card"),
   Failing("terminal_timeout", "awaiting_customer"),
   [Failing("bank_host_unreachable", "authorizing") EXCEPT !.mode = "manual", !.manualBank = TRUE],
   [Failing("terminal_busy", "awaiting_confirmation") EXCEPT !.confirm = TRUE, !.mode = "manual",
                                                                       !.manualBank = TRUE],
   \* refused by validate()
   [Plain EXCEPT !.uses = 0],
   Failing("terminal_busy", "awaiting_confirmation")}

\* What an operator may set a device to: up, unplugged, badly installed.
UpDown == {DefaultProfile, [DefaultProfile EXCEPT !.online = FALSE]}
=============================================================================

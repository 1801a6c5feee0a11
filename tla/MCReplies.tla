----------------------------- MODULE MCReplies -----------------------------
(***************************************************************************)
(* An instance of Replies for TLC: payments of one terminal that are       *)
(* approved and reversed while their delayed reply is due, or answered by  *)
(* a recorded case, with and without faults of delivery.                   *)
(***************************************************************************)
EXTENDS Replies

Quick == [connect |-> 0, card |-> 0, customer |-> 0, authorize |-> 1, confirm |-> 0,
          response |-> 1, timeout |-> 2]

Plain == [device |-> DefaultDevice, amount |-> 0, merchant |-> AnyMerchant, uses |-> 1,
          mode |-> "automatic", outcome |-> "approved", error |-> NoError,
          reference |-> "none", failureStage |-> "authorizing", timing |-> Quick,
          delivery |-> "normal", confirm |-> TRUE, manualBank |-> FALSE]

Deciding == [Plain EXCEPT !.outcome = "declined", !.manualBank = TRUE]

\* A reply of every kind: of an approval, of what the bank decides, of that under
\* a recorded case, and with each fault of delivery.
RepliedScenarios ==
  {Plain, Deciding, [Deciding EXCEPT !.reference = "recorded_failure"]} \cup
  {[Plain EXCEPT !.delivery = fault] :
     fault \in Deliveries \ {"http_500", "unknown_code", "wrong_content_type"}}

Default == {DefaultProfile}
=============================================================================

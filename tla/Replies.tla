------------------------------ MODULE Replies ------------------------------
(***************************************************************************)
(* The reply that a payment's client gets: the connections that wait for   *)
(* their payments' ends, over the engine they look at every few            *)
(* milliseconds.  What is sent follows from one such look: the outcome,    *)
(* the recorded case that replaces it, the scripted fault of delivery; it  *)
(* is sent when the response delay has passed since the payment reached    *)
(* that outcome, and a reversal in the meantime starts the delay anew.     *)
(***************************************************************************)
EXTENDS Engine

VARIABLE links   \* the connections, by the payment that each has started

repliesVars == <<vars, links>>

Silence == [status |-> 0, body |-> "none", whole |-> FALSE]

RepliesInit == Init /\ links = << >>

-----------------------------------------------------------------------------
\* The reply, of a finished operation.

\* Mutant: a payment is reported by its scripted outcome.
ResultScripted(op) ==
  IF op.scenario.reference # "none" THEN "recorded"
  ELSE IF op.scenario.outcome = "approved" THEN "success"
  ELSE "failure"

\* result(): a recorded case replaces what the terminal did, without undoing it.
Result(op) ==
  IF op.scenario.reference # "none" THEN "recorded"
  ELSE IF op.stage = "approved" THEN "success"
  ELSE "failure"

Body(op) ==
  IF op.scenario.delivery = "missing_fields"      THEN "hollow"
  ELSE IF op.scenario.delivery = "unknown_code"   THEN "unknown"
  ELSE IF op.scenario.delivery = "malformed_json" THEN "garbage"
  ELSE Result(op)

Status(op) ==
  IF op.scenario.delivery = "http_400"      THEN 400
  ELSE IF op.scenario.delivery = "http_500" THEN 500
  ELSE IF op.scenario.reference # "none"    THEN 503
  ELSE 200

Reply(op) == [status |-> Status(op),
              body   |-> Body(op),
              whole  |-> op.scenario.delivery # "partial_response"]

ReplyDue(op) == ~Active(op) /\ now >= op.completed + op.scenario.timing.response

-----------------------------------------------------------------------------
\* A connection, from the payment it has started to its end.  A reply that is
\* made is on its way until it is confirmed or the connection breaks.

Close(id) == links' = [links EXCEPT ![id].at = "closed"]

\* A payment that came over the wire, rather than from the control plane.
Purchase(d, amount, merchant) ==
  /\ Start(d, amount, merchant)
  /\ links' = [id \in DOMAIN links \cup {<<generation, serial>>} |->
                 IF id \in DOMAIN links THEN links[id]
                 ELSE [at |-> "polling", reply |-> Silence]]

\* The reply is due and is sent, unless by the script there is none.
Answer(id) ==
  /\ links[id].at = "polling"
  /\ id \in DOMAIN operations
  /\ ReplyDue(operations[id])
  /\ operations[id].scenario.delivery \notin
       {"hang", "disconnect_after_commit", "disconnect_after_accept"}
  /\ links' = [links EXCEPT ![id] = [at |-> "replying", reply |-> Reply(operations[id])]]
  /\ UNCHANGED vars

\* The connection ends before its reply counts: by the script, because a reset
\* took the payment away, because the listener is switched off or stops, which
\* may be at any moment, or because the client has gone.  The client may have got
\* a reply that is on its way, and may not.
Break(id) ==
  /\ links[id].at \in {"polling", "replying"}
  /\ \E reply \in {Silence, links[id].reply} :
       links' = [links EXCEPT ![id] = [at |-> "closed", reply |-> reply]]
  /\ UNCHANGED vars

\* The reply was written.  Only one without a scripted fault counts as delivered,
\* and only to a payment that is still there.
Confirm(id) ==
  /\ links[id].at = "replying"
  /\ IF id \in DOMAIN operations /\ operations[id].scenario.delivery = "normal"
     THEN Delivered(id)
     ELSE UNCHANGED vars
  /\ Close(id)

\* The rest of the engine's life: nobody but a connection marks a delivery.
Otherwise ==
  /\ \/ \E s \in Offered : Arm(s)
     \/ \E d \in DeviceIds, p \in Profiles : SetDevice(d, p)
     \/ \E d \in DeviceIds, a \in Amounts, m \in Merchants \cup {AnyMerchant} :
          RefuseStart(d, a, m) \/ LoseStart(d, a, m)
     \/ \E s \in Offered, a \in Amounts : Standalone(s, a)
     \/ \E delta \in Deltas : Advance(delta)
     \/ \E id \in DOMAIN operations, event \in Inputs : Action(id, event)
     \/ Reset
  /\ UNCHANGED links

RepliesNext ==
  \/ \E d \in DeviceIds, a \in Amounts, m \in Merchants \cup {AnyMerchant} : Purchase(d, a, m)
  \/ \E id \in DOMAIN links : Answer(id) \/ Break(id) \/ Confirm(id)
  \/ Otherwise

RepliesSpec == RepliesInit /\ [][RepliesNext]_repliesVars

-----------------------------------------------------------------------------
\* Properties.

\* What a client may take for an answer: a whole, well-formed 200.
Told(id, body) == links[id].reply = [status |-> 200, body |-> body, whole |-> TRUE]

\* The reply agrees with the money, whatever happens after the look it was made
\* from (a reversal, the bank's or an operator's input, a reset): a client that was
\* told of an approval was charged, and at most refunded since; one that was told
\* of a failure is not charged and never will be, a recorded case being neither.
\* What counts as delivered is a faultless reply of the engine's own result.
ToldTruth ==
  \A id \in DOMAIN links \cap DOMAIN operations :
    LET op == operations[id] IN
    /\ Told(id, "success") => op.stage \in {"approved", "reversed"}
    /\ links[id].reply.body = "failure" => ~op.charged
    /\ op.delivered =>
         /\ op.scenario.delivery = "normal"
         /\ \/ Told(id, "success") \/ Told(id, "failure")
            \/ links[id].reply = [status |-> 503, body |-> "recorded", whole |-> TRUE]
=============================================================================

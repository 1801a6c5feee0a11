---------------------------- MODULE RepliesProofs ----------------------------
(***************************************************************************)
(* The replies of Replies are true, for any scenarios, faults of delivery, *)
(* clock steps and bounds.                                                 *)
(***************************************************************************)
EXTENDS Replies, EngineProofs

-----------------------------------------------------------------------------
\* The inductive invariant.

\* The reply that an operation of this scenario gets in this stage.
ResultAt(s, stage) ==
  IF s.reference # "none" THEN "recorded"
  ELSE IF stage = "approved" THEN "success"
  ELSE "failure"

BodyAt(s, stage) ==
  IF s.delivery = "missing_fields"      THEN "hollow"
  ELSE IF s.delivery = "unknown_code"   THEN "unknown"
  ELSE IF s.delivery = "malformed_json" THEN "garbage"
  ELSE ResultAt(s, stage)

StatusOf(s) ==
  IF s.delivery = "http_400"      THEN 400
  ELSE IF s.delivery = "http_500" THEN 500
  ELSE IF s.reference # "none"    THEN 503
  ELSE 200

ReplyAt(s, stage) ==
  [status |-> StatusOf(s), body |-> BodyAt(s, stage), whole |-> s.delivery # "partial_response"]

Bodies == {"none", "recorded", "success", "failure", "hollow", "unknown", "garbage"}

AnyReply == [status : {0, 200, 400, 500, 503}, body : Bodies, whole : BOOLEAN]

Link == [at : {"polling", "replying", "closed"}, reply : AnyReply]

\* A reply was made from a finished operation, in the stage in which it still is
\* or in the one from which it has been reversed; the operation counts as
\* delivered once its connection has ended with a faultless reply.
Truthful(link, op) ==
  /\ link.reply # Silence =>
       /\ op.stage \in FinalStages
       /\ \/ link.reply = ReplyAt(op.scenario, op.stage)
          \/ op.stage = "reversed" /\ link.reply = ReplyAt(op.scenario, "approved")
  /\ op.delivered => link.at = "closed" /\ link.reply # Silence /\ op.scenario.delivery = "normal"

\* The payment of a connection, as an identifier that has been issued.
Issued(id) == id[1] < generation \/ (id[1] = generation /\ id[2] < serial)

RepliesInv ==
  /\ LInv
  /\ \A id \in DOMAIN links :
       /\ id \in Nat \X Nat /\ Issued(id)
       /\ links[id] \in Link
       /\ links[id].at = "polling" => links[id].reply = Silence
       /\ links[id].at = "replying" => links[id].reply # Silence
  /\ \A id \in DOMAIN links \cap DOMAIN operations : Truthful(links[id], operations[id])

LEMMA ReplyIs ==
  ASSUME NEW op
  PROVE  Reply(op) = ReplyAt(op.scenario, op.stage)
BY DEF Reply, ReplyAt, Result, ResultAt, Body, BodyAt, Status, StatusOf

\* A reply is none of the client's silence.
LEMMA ReplyType ==
  ASSUME NEW s, NEW stage
  PROVE  /\ ReplyAt(s, stage) \in AnyReply
         /\ ReplyAt(s, stage) # Silence
<1>1. StatusOf(s) \in {200, 400, 500, 503}
  BY DEF StatusOf
<1>2. BodyAt(s, stage) \in Bodies
  BY DEF BodyAt, ResultAt, Bodies
<1>3. (s.delivery # "partial_response") \in BOOLEAN
  OBVIOUS
<1>4. ReplyAt(s, stage).status = StatusOf(s) /\ Silence.status = 0
  BY DEF ReplyAt, Silence
<1> QED
  BY <1>1, <1>2, <1>3, <1>4 DEF ReplyAt, AnyReply

\* What is kept of a finished payment keeps its reply true.
LEMMA KeptTruthful ==
  ASSUME NEW link, NEW op, NEW new, Kept(op, new), new.delivered = op.delivered, Truthful(link, op)
  PROVE  Truthful(link, new)
<1>1. new.scenario = op.scenario
  BY DEF Kept
<1>2. ASSUME link.reply # Silence
      PROVE  /\ new.stage \in FinalStages
             /\ \/ link.reply = ReplyAt(new.scenario, new.stage)
                \/ new.stage = "reversed" /\ link.reply = ReplyAt(new.scenario, "approved")
  <2>1. op.stage \in FinalStages /\ ~Active(op)
    BY <1>2 DEF Truthful, Active, ActiveStages, FinalStages
  <2>2. new.stage = op.stage \/ (op.stage = "approved" /\ new.stage = "reversed")
    BY <2>1 DEF Kept
  <2> QED
    BY <1>1, <1>2, <2>1, <2>2 DEF Truthful, FinalStages
<1> QED
  BY <1>1, <1>2 DEF Truthful

-----------------------------------------------------------------------------
\* What the engine's steps leave of the operations.

\* The generation goes on and no payment is lost or delivered.
Goes ==
  /\ generation' = generation /\ serial' \in {serial, serial + 1}
  /\ \A id \in DOMAIN operations :
       /\ id \in DOMAIN operations'
       /\ Kept(operations[id], operations'[id])
       /\ operations'[id].delivered = operations[id].delivered

LEMMA AdmitGoes ==
  ASSUME LInv, NEW s \in Script, NEW amount \in Nat, s.device \in DOMAIN devices,
         Admit(s, amount), UNCHANGED generation
  PROVE  Goes /\ serial' = serial + 1 /\ ~operations'[<<generation, serial>>].delivered
<1>1. KeptIn(operations, operations')
  BY AdmitKept DEF LInv
<1>2. serial' = serial + 1
  BY DEF Admit
<1>3. /\ \A i \in DOMAIN operations : operations'[i] = operations[i]
      /\ ~operations'[<<generation, serial>>].delivered
  BY AdmitAdds DEF Frame
<1> QED
  BY <1>1, <1>2, <1>3 DEF Goes, KeptIn

LEMMA OtherwiseGoes ==
  ASSUME LInv, Otherwise
  PROVE  Reset \/ Goes
<1>1. ASSUME NEW s, NEW d, NEW p, NEW a, NEW m,
             Arm(s) \/ SetDevice(d, p) \/ RefuseStart(d, a, m) \/ LoseStart(d, a, m)
      PROVE  Goes
  <2>1. UNCHANGED <<generation, operations, serial>>
    BY <1>1 DEF Arm, SetDevice, RefuseStart, LoseStart
  <2> QED
    BY <2>1 DEF Goes, Kept
<1>2. ASSUME NEW s \in Offered, NEW a \in Amounts, Standalone(s, a) PROVE Goes
  BY <1>2, EngineAssumption, StandaloneAdmits, AdmitGoes
<1>3. ASSUME NEW delta \in Deltas, Advance(delta) PROVE Goes
  <2>1. UNCHANGED <<generation, serial>> /\ operations' = Settled(operations, now, now + delta)
    BY <1>3 DEF Advance
  <2>2. now \in Nat /\ now + delta \in Nat /\ now <= now + delta /\ GoodIn(operations, now)
    BY LInvFacts, EngineAssumption
  <2>3. KeptIn(operations, operations')
    BY <2>1, <2>2, SettledKept
  <2>4. \A i \in DOMAIN operations : operations'[i].delivered = operations[i].delivered
    BY <1>3, AdvanceCloses DEF Frame
  <2> QED
    BY <2>1, <2>3, <2>4 DEF Goes, KeptIn
<1>4. ASSUME NEW id \in DOMAIN operations, NEW event \in Inputs, Action(id, event) PROVE Goes
  <2>1. UNCHANGED <<generation, serial>>
    BY <1>4 DEF Action
  <2>2. KeptIn(operations, operations')
    BY <1>4, ActionKept DEF LInv
  <2>3. \A i \in DOMAIN operations : operations'[i].delivered = operations[i].delivered
    BY <1>4, ActionBooks DEF Frame
  <2> QED
    BY <2>1, <2>2, <2>3 DEF Goes, KeptIn
<1> QED
  BY <1>1, <1>2, <1>3, <1>4 DEF Otherwise

LEMMA PurchaseGoes ==
  ASSUME LInv, NEW d \in DeviceIds, NEW a \in Amounts, NEW m \in Merchants \cup {AnyMerchant},
         Start(d, a, m)
  PROVE  Goes /\ serial' = serial + 1 /\ ~operations'[<<generation, serial>>].delivered
BY StartAdmits, AdmitGoes DEF LInv

\* The engine sees its own steps, or none.
LEMMA RepliesStepIsEngineStep ==
  ASSUME [RepliesNext]_repliesVars
  PROVE  [Next]_vars
<1>1. ASSUME NEW id \in DOMAIN links, Answer(id) \/ Break(id) \/ Confirm(id)
      PROVE  Next \/ UNCHANGED vars
  BY <1>1 DEF Answer, Break, Confirm, Next
<1>2. Otherwise => Next
  BY DEF Otherwise, Next
<1>3. ASSUME NEW d \in DeviceIds, NEW a \in Amounts, NEW m \in Merchants \cup {AnyMerchant},
             Purchase(d, a, m)
      PROVE  Next
  BY <1>3 DEF Purchase, Next
<1> QED
  BY <1>1, <1>2, <1>3 DEF RepliesNext, repliesVars

LEMMA EngineSteps ==
  ASSUME LInv, RepliesNext \/ UNCHANGED repliesVars
  PROVE  LInv'
BY RepliesStepIsEngineStep, LInvNext

-----------------------------------------------------------------------------
\* The connections.

\* The payment of a connection is still there exactly if its generation is.
LEMMA IssuedIsThere ==
  ASSUME LInv, LInv', Goes, NEW id \in Nat \X Nat, Issued(id)
  PROVE  Issued(id)' /\ (id \in DOMAIN operations' => id \in DOMAIN operations)
<1>1. /\ DOMAIN operations = {generation} \X (1 .. serial - 1)
      /\ DOMAIN operations' = {generation} \X (1 .. serial' - 1)
      /\ generation \in Nat /\ serial \in Nat
  BY LInvFacts DEF LInv, Goes
<1>2. id = <<id[1], id[2]>> /\ id[1] \in Nat /\ id[2] \in Nat
  OBVIOUS
<1>3. Issued(id)'
  BY <1>1, <1>2 DEF Issued, Goes
<1>4. ASSUME id \in DOMAIN operations' PROVE id \in DOMAIN operations
  <2>1. id[1] = generation /\ id[2] \in 1 .. serial' - 1
    BY <1>1, <1>4
  <2>2. id[2] \in 1 .. serial - 1
    BY <1>1, <1>2, <2>1 DEF Issued
  <2> QED
    BY <1>1, <1>2, <2>1, <2>2
<1> QED
  BY <1>3, <1>4

\* While the connections rest, the engine's steps keep their replies true.
LEMMA LinksRest ==
  ASSUME RepliesInv, LInv', Reset \/ Goes, UNCHANGED links
  PROVE  RepliesInv'
<1>1. CASE Goes
  <2>1. \A id \in DOMAIN links \cap DOMAIN operations' : Truthful(links[id], operations'[id])
    <3> SUFFICES ASSUME NEW id \in DOMAIN links \cap DOMAIN operations'
                 PROVE  Truthful(links[id], operations'[id])
      OBVIOUS
    <3>1. id \in DOMAIN operations
      BY <1>1, IssuedIsThere DEF RepliesInv
    <3> QED
      BY <1>1, <3>1, KeptTruthful DEF RepliesInv, Goes
  <2>2. \A id \in DOMAIN links : Issued(id)'
    BY <1>1, IssuedIsThere DEF RepliesInv
  <2> QED
    BY <2>1, <2>2 DEF RepliesInv
<1>2. CASE Reset
  <2>1. DOMAIN operations' = {} /\ generation' = generation + 1 /\ generation \in Nat
    BY <1>2, LInvFacts DEF Reset, RepliesInv
  <2>2. \A id \in DOMAIN links : Issued(id)'
    BY <2>1 DEF RepliesInv, Issued
  <2> QED
    BY <2>1, <2>2 DEF RepliesInv
<1> QED
  BY <1>1, <1>2

\* A connection starts silent, with a payment that is not delivered.
LEMMA PurchaseKeeps ==
  ASSUME RepliesInv, LInv', NEW d \in DeviceIds, NEW a \in Amounts,
         NEW m \in Merchants \cup {AnyMerchant}, Purchase(d, a, m)
  PROVE  RepliesInv'
<1> DEFINE new == <<generation, serial>>
<1>1. Goes /\ serial' = serial + 1 /\ ~operations'[new].delivered /\ LInv
  BY PurchaseGoes DEF Purchase, RepliesInv
<1>2. generation \in Nat /\ serial \in Nat /\ new \in Nat \X Nat /\ new[1] = generation /\ new[2] = serial
  BY <1>1, LInvFacts
<1>3. new \notin DOMAIN links
  BY <1>2 DEF RepliesInv, Issued
<1>4. /\ DOMAIN links' = DOMAIN links \cup {new}
      /\ links'[new] = [at |-> "polling", reply |-> Silence]
      /\ \A id \in DOMAIN links : links'[id] = links[id]
  BY <1>3 DEF Purchase
<1>5. new[1] = generation' /\ new[2] < serial'
  BY <1>1, <1>2 DEF Goes
<1> HIDE DEF new
<1>6. links'[new] \in Link /\ links'[new].at = "polling" /\ links'[new].reply = Silence
  BY <1>4 DEF Link, AnyReply, Silence, Bodies
<1>7. Truthful(links'[new], operations'[new])
  BY <1>1, <1>6 DEF Truthful
<1>8. ASSUME NEW id \in DOMAIN links
      PROVE  Issued(id)' /\ (id \in DOMAIN operations' => Truthful(links[id], operations'[id]))
  <2>1. Issued(id)' /\ (id \in DOMAIN operations' => id \in DOMAIN operations)
    BY <1>1, IssuedIsThere DEF RepliesInv
  <2> QED
    BY <1>1, <2>1, KeptTruthful DEF RepliesInv, Goes
<1>9. \A id \in DOMAIN links' :
        /\ id \in Nat \X Nat /\ Issued(id)'
        /\ links'[id] \in Link
        /\ links'[id].at = "polling" => links'[id].reply = Silence
        /\ links'[id].at = "replying" => links'[id].reply # Silence
  <2>1. ASSUME NEW id \in DOMAIN links' PROVE Issued(id)'
    BY <1>4, <1>5, <1>8 DEF Issued
  <2> QED
    BY <1>2, <1>4, <1>6, <2>1 DEF RepliesInv
<1>10. \A id \in DOMAIN links' \cap DOMAIN operations' : Truthful(links'[id], operations'[id])
  BY <1>4, <1>7, <1>8
<1> QED
  BY <1>9, <1>10 DEF RepliesInv

\* A step of one connection.
LEMMA OneLink ==
  ASSUME RepliesInv, UNCHANGED vars, NEW id \in DOMAIN links, NEW link \in Link,
         links' = [links EXCEPT ![id] = link],
         link.at = "polling" => link.reply = Silence,
         link.at = "replying" => link.reply # Silence,
         id \in DOMAIN operations => Truthful(link, operations[id])
  PROVE  RepliesInv'
<1>1. UNCHANGED <<operations, generation, serial>> /\ LInv'
  BY EngineSteps DEF vars, RepliesInv, LInv, IInv, TypeOK, GoodIn, QuietIn, OneOpenIn, ReadyIn, CountersAgree
<1>2. DOMAIN links' = DOMAIN links /\ links'[id] = link /\ \A i \in DOMAIN links \ {id} : links'[i] = links[i]
  OBVIOUS
<1> QED
  BY <1>1, <1>2 DEF RepliesInv, Issued

\* The look, the reply's way and its confirmation.
LEMMA AnswerKeeps ==
  ASSUME RepliesInv, NEW id \in DOMAIN links, Answer(id)
  PROVE  RepliesInv'
<1> DEFINE op == operations[id]
<1>1. /\ id \in DOMAIN operations /\ ~Active(op) /\ links[id].at = "polling"
      /\ op \in Operation /\ ~op.delivered
      /\ links' = [links EXCEPT ![id] = [at |-> "replying", reply |-> Reply(op)]]
      /\ UNCHANGED vars
  BY LInvFacts DEF Answer, ReplyDue, RepliesInv, Truthful
<1>2. op.stage \in FinalStages
  BY <1>1 DEF Active, Operation, Stages
<1>3. Reply(op) = ReplyAt(op.scenario, op.stage)
  BY ReplyIs
<1> DEFINE link == [at |-> "replying", reply |-> Reply(op)]
<1>4. link \in Link /\ link.at = "replying" /\ link.reply = Reply(op) /\ link.reply # Silence
  BY <1>3, ReplyType DEF Link
<1> HIDE DEF op
<1>5. Truthful(link, op)
  BY <1>1, <1>2, <1>3 DEF Truthful
<1> HIDE DEF link
<1> QED
  BY <1>1, <1>4, <1>5, OneLink DEF op, link

LEMMA BreakKeeps ==
  ASSUME RepliesInv, NEW id \in DOMAIN links, Break(id)
  PROVE  RepliesInv'
<1>1. PICK reply \in {Silence, links[id].reply} :
        links' = [links EXCEPT ![id] = [at |-> "closed", reply |-> reply]]
  BY DEF Break
<1> DEFINE link == [at |-> "closed", reply |-> reply]
<1>2. link \in Link /\ link.at = "closed" /\ link.reply = reply
  <2>1. Silence \in AnyReply
    BY DEF Silence, AnyReply, Bodies
  <2>2. links[id].reply \in AnyReply
    BY DEF RepliesInv, Link
  <2>3. reply \in AnyReply
    BY <2>1, <2>2
  <2> QED
    BY <2>3 DEF Link
<1>3. links[id].at # "closed" /\ UNCHANGED vars
  BY DEF Break
<1> HIDE DEF link
<1>4. ASSUME id \in DOMAIN operations PROVE Truthful(link, operations[id])
  <2>1. Truthful(links[id], operations[id])
    BY <1>4 DEF RepliesInv
  <2> QED
    BY <1>1, <1>2, <1>3, <2>1 DEF Truthful
<1> QED
  BY <1>1, <1>2, <1>3, <1>4, OneLink DEF link

\* The payment is marked while its connection has a reply.
LEMMA ConfirmKeeps ==
  ASSUME RepliesInv, LInv', NEW id \in DOMAIN links, Confirm(id)
  PROVE  RepliesInv'
<1> DEFINE link == [links[id] EXCEPT !.at = "closed"]
<1>1. /\ link \in Link /\ link.at = "closed" /\ link.reply = links[id].reply /\ link.reply # Silence
      /\ links[id].at = "replying" /\ links' = [links EXCEPT ![id] = link]
  BY DEF RepliesInv, Link, Confirm, Close
<1> HIDE DEF link
<1>2. \A i \in DOMAIN links : id \in DOMAIN operations => Truthful(link, operations[id])
  BY <1>1 DEF RepliesInv, Truthful
<1>3. CASE UNCHANGED vars
  BY <1>1, <1>2, <1>3, OneLink
<1>4. CASE id \in DOMAIN operations /\ operations[id].scenario.delivery = "normal" /\ Delivered(id)
  <2>1. /\ DOMAIN operations' = DOMAIN operations
        /\ operations'[id] = [operations[id] EXCEPT !.delivered = TRUE]
        /\ \A i \in DOMAIN operations \ {id} : operations'[i] = operations[i]
        /\ UNCHANGED <<generation, serial>>
    BY <1>4 DEF Delivered
  <2>2. /\ operations'[id].stage = operations[id].stage
        /\ operations'[id].scenario = operations[id].scenario
    BY <1>4, <2>1, LInvFacts DEF Operation, RepliesInv
  <2>3. Truthful(link, operations'[id])
    BY <1>1, <1>2, <1>4, <2>2 DEF Truthful
  <2>4. DOMAIN links' = DOMAIN links /\ links'[id] = link /\ \A i \in DOMAIN links \ {id} : links'[i] = links[i]
    BY <1>1
  <2>5. \A i \in DOMAIN links' \cap DOMAIN operations' : Truthful(links'[i], operations'[i])
    BY <2>1, <2>3, <2>4 DEF RepliesInv
  <2> QED
    BY <1>1, <2>1, <2>4, <2>5 DEF RepliesInv, Issued
<1> QED
  BY <1>3, <1>4 DEF Confirm

LEMMA RepliesKeeps == RepliesInv /\ [RepliesNext]_repliesVars => RepliesInv'
<1> SUFFICES ASSUME RepliesInv, [RepliesNext]_repliesVars PROVE RepliesInv'
  OBVIOUS
<1>1. LInv'
  BY EngineSteps DEF RepliesInv
<1>2. CASE Otherwise
  <2>1. UNCHANGED links
    BY <1>2 DEF Otherwise
  <2> QED
    BY <1>1, <1>2, <2>1, OtherwiseGoes, LinksRest DEF RepliesInv
<1>3. CASE UNCHANGED repliesVars
  <2>1. Goes /\ UNCHANGED links
    BY <1>3 DEF repliesVars, vars, Goes, Kept
  <2> QED
    BY <1>1, <2>1, LinksRest
<1>4. ASSUME NEW id \in DOMAIN links, Answer(id) \/ Break(id) \/ Confirm(id) PROVE RepliesInv'
  BY <1>1, <1>4, AnswerKeeps, BreakKeeps, ConfirmKeeps
<1> QED
  BY <1>1, <1>2, <1>3, <1>4, PurchaseKeeps DEF RepliesNext

\* The engine under the connections keeps its own invariant, and every reply
\* stays true of its operation.
THEOREM RepliesInvariance == RepliesSpec => []RepliesInv
<1>1. RepliesInit => RepliesInv
  BY LInvInit DEF RepliesInit, RepliesInv
<1> QED
  BY <1>1, RepliesKeeps, PTL DEF RepliesSpec

\* The engine under its connections is the engine: they look at it, and mark
\* what they delivered, by its own operations.
THEOREM RepliesImplementEngine == RepliesSpec => Spec
<1>1. RepliesInit => Init
  BY DEF RepliesInit
<1>2. [RepliesNext]_repliesVars => [Next]_vars
  BY RepliesStepIsEngineStep
<1> QED
  BY <1>1, <1>2, PTL DEF RepliesSpec, Spec

\* So whatever connections look, reply and break, a terminal serves one payment
\* at a time, no deadline is missed, an outcome is as scripted and final, the
\* counters are right, and the book of payments is kept.
THEOREM RepliesKeepEngine ==
  RepliesSpec =>
    /\ [](OneOpenPerDevice /\ NothingOverdue /\ OutcomeHonoured /\ Accounting)
    /\ FinalIsFinal
    /\ ImplementsLedger
BY RepliesImplementEngine, OneAtATime, NeverOverdue, ScriptHonoured, BooksBalance, Finality,
   EngineImplementsLedger, PTL

\* A client that is told of an approval was charged, and refunded at most since;
\* one that is told of a failure is not charged; what counts as delivered is a
\* faultless reply of the engine's own result: for any scenario, delay, fault of
\* delivery and input, whenever the connection looks and whenever it breaks.
THEOREM RepliesAreTrue == RepliesSpec => []ToldTruth
<1>1. ASSUME RepliesInv PROVE ToldTruth
  <2> SUFFICES ASSUME NEW id \in DOMAIN links \cap DOMAIN operations
               PROVE  /\ Told(id, "success") => operations[id].stage \in {"approved", "reversed"}
                      /\ links[id].reply.body = "failure" => ~operations[id].charged
                      /\ operations[id].delivered =>
                           /\ operations[id].scenario.delivery = "normal"
                           /\ \/ Told(id, "success") \/ Told(id, "failure")
                              \/ links[id].reply = [status |-> 503, body |-> "recorded", whole |-> TRUE]
    BY DEF ToldTruth
  <2> DEFINE op == operations[id]
             reply == links[id].reply
             stage == IF reply = ReplyAt(op.scenario, op.stage) THEN op.stage ELSE "approved"
  <2>1. /\ Truthful(links[id], op) /\ Honours(op)
        /\ links[id] \in Link
    BY <1>1, LInvFacts DEF RepliesInv, Good, Sound
  <2>2. reply # Silence => /\ reply = ReplyAt(op.scenario, stage)
                           /\ stage = op.stage \/ (stage = "approved" /\ op.stage = "reversed")
    BY <2>1 DEF Truthful
  <2>3. Silence.body = "none"
    BY DEF Silence
  <2> HIDE DEF op, reply, stage
  <2>4. ReplyAt(op.scenario, stage).body = "success" => stage = "approved"
    BY DEF ReplyAt, BodyAt, ResultAt
  <2>5. ReplyAt(op.scenario, stage).body = "failure" => stage # "approved"
    BY DEF ReplyAt, BodyAt, ResultAt
  <2>6. op.scenario.delivery = "normal" =>
          ReplyAt(op.scenario, stage) \in {[status |-> 200, body |-> "success", whole |-> TRUE],
                                           [status |-> 200, body |-> "failure", whole |-> TRUE],
                                           [status |-> 503, body |-> "recorded", whole |-> TRUE]}
    <3> SUFFICES ASSUME op.scenario.delivery = "normal"
                 PROVE  ReplyAt(op.scenario, stage) =
                          [status |-> IF op.scenario.reference # "none" THEN 503 ELSE 200,
                           body   |-> ResultAt(op.scenario, stage),
                           whole  |-> TRUE]
      BY DEF ResultAt
    <3>1. /\ StatusOf(op.scenario) = IF op.scenario.reference # "none" THEN 503 ELSE 200
          /\ BodyAt(op.scenario, stage) = ResultAt(op.scenario, stage)
      BY DEF StatusOf, BodyAt
    <3>2. (op.scenario.delivery # "partial_response") = TRUE
      OBVIOUS
    <3> QED
      BY <3>1, <3>2 DEF ReplyAt
  <2>7. reply.body \in {"success", "failure"} => reply # Silence
    BY <2>3
  <2>8. reply.body = "success" => op.stage \in {"approved", "reversed"}
    BY <2>2, <2>4, <2>7
  <2>9. reply.body = "failure" => ~op.charged
    BY <2>1, <2>2, <2>5, <2>7 DEF Honours
  <2>10. op.delivered => reply # Silence /\ op.scenario.delivery = "normal"
    BY <2>1 DEF Truthful, reply, op
  <2>11. Told(id, "success") => reply.body = "success"
    BY DEF Told, reply
  <2> QED
    BY <2>2, <2>6, <2>8, <2>9, <2>10, <2>11 DEF Told, op, reply
<1> QED
  BY <1>1, RepliesInvariance, PTL
=============================================================================

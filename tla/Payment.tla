------------------------------- MODULE Payment -------------------------------
(***************************************************************************)
(* The life of one card payment on a virtual terminal, as the core crate   *)
(* computes it: the scenario that scripts it, the stages it goes through,  *)
(* when its next scheduled step is due and what that step does.  Nothing   *)
(* here has state; Engine and AdvanceLoop are built from these operators.  *)
(*                                                                         *)
(* An Option<u64> that is None is written 0 for a scenario's amount (0 is  *)
(* not a legal amount) and Never for a completion time; a None error is    *)
(* NoError and a None merchant is AnyMerchant.                             *)
(***************************************************************************)
EXTENDS Integers

CONSTANTS
  DeviceIds,      \* device identifiers that clients name
  Merchants,      \* merchant profiles
  AnyMerchant     \* no merchant was asked for

ASSUME MerchantAssumption == AnyMerchant \notin Merchants

-----------------------------------------------------------------------------
\* Vocabulary.

ActiveStages == {"connecting", "awaiting_card", "awaiting_customer",
                 "authorizing", "awaiting_confirmation"}
FinalStages  == {"approved", "declined", "cancelled", "failed", "timed_out", "reversed"}
Stages       == ActiveStages \cup FinalStages

Modes      == {"automatic", "manual"}
Outcomes   == {"approved", "declined", "error"}
Deliveries == {"normal", "disconnect_before_accept", "disconnect_after_commit",
               "disconnect_after_accept", "partial_response", "hang",
               "malformed_json", "http_500", "http_400", "wrong_content_type",
               "missing_fields", "unknown_code"}

\* The catalogue's errors of category "terminal": those a scenario may name.
TerminalErrors == {"terminal_unknown_0", "terminal_general", "merchant_profile_invalid",
                   "host_clock_invalid", "bank_host_unreachable", "customer_cancelled",
                   "terminal_connection_refused", "terminal_busy", "terminal_timeout",
                   "terminal_id_invalid", "verification_fault"}
NoError == "none"

\* Recorded replies a scenario may substitute for the computed one.
References == {"none", "transport_timeout", "recorded_failure"}

HourMs    == 3600000
MaxUses   == 10000
MaxAmount == 999999999
Never     == -1

Timing == [connect : Nat, card : Nat, customer : Nat, authorize : Nat,
           confirm : Nat, response : Nat, timeout : Nat]

Scenario == [device       : DeviceIds,
             amount       : Nat,
             merchant     : Merchants \cup {AnyMerchant},
             uses         : Nat,
             mode         : Modes,
             outcome      : Outcomes,
             error        : TerminalErrors \cup {NoError},
             reference    : References,
             failureStage : Stages,
             timing       : Timing,
             delivery     : Deliveries,
             confirm      : BOOLEAN,
             manualBank   : BOOLEAN]

Operation == [device       : DeviceIds,
              merchant     : Merchants,
              amount       : Nat,
              stage        : Stages,
              started      : Nat,
              stageStarted : Nat,
              completed    : Nat \cup {Never},
              deadline     : Nat,
              charged      : BOOLEAN,
              error        : TerminalErrors \cup {NoError},
              scenario     : Scenario,
              delivered    : BOOLEAN]

Active(op) == op.stage \in ActiveStages

-----------------------------------------------------------------------------
\* What Scenario::validate accepts.
Valid(s) ==
  /\ s.reference = "recorded_failure" => s.outcome # "approved"
  /\ s.uses \in 1..MaxUses
  /\ s.timing.timeout \in 1..HourMs
  /\ \A f \in {"connect", "card", "customer", "authorize", "confirm", "response"} :
       s.timing[f] <= HourMs
  /\ s.failureStage \in ActiveStages
  /\ s.failureStage = "awaiting_confirmation" => s.confirm
  /\ s.outcome = "error" <=> s.error # NoError

\* What a queue may hold and an operation may run under.
Script == {s \in Scenario : Valid(s)}

\* The operation that start() creates for device profile dev at time t.
Opened(s, merchant, amount, t) ==
  [device |-> s.device, merchant |-> merchant, amount |-> amount,
   stage |-> "connecting", started |-> t, stageStarted |-> t,
   completed |-> Never, deadline |-> t + s.timing.timeout,
   charged |-> FALSE, error |-> NoError, scenario |-> s, delivered |-> FALSE]

\* transition(): the only place where an operation is charged or refunded.
Transition(op, stage, error, t) ==
  [op EXCEPT !.stage        = stage,
             !.stageStarted = t,
             !.error        = error,
             !.completed    = IF stage \in FinalStages THEN t ELSE @,
             !.charged      = stage = "approved" \/ (@ /\ stage # "reversed")]

-----------------------------------------------------------------------------
\* The schedule.

Sooner(a, b) == IF a <= b THEN a ELSE b
Later(a, b)  == IF a <= b THEN b ELSE a

\* The terminal leaves this stage by itself, without an operator's input.
Unattended(op) ==
  \/ op.stage = "connecting"
  \/ /\ op.stage \in {"awaiting_card", "awaiting_customer", "awaiting_confirmation"}
     /\ op.scenario.mode = "automatic"
  \/ /\ op.stage = "authorizing"
     /\ ~op.scenario.manualBank

Delay(op) ==
  IF op.stage = "connecting"             THEN op.scenario.timing.connect
  ELSE IF op.stage = "awaiting_card"     THEN op.scenario.timing.card
  ELSE IF op.stage = "awaiting_customer" THEN op.scenario.timing.customer
  ELSE IF op.stage = "authorizing"       THEN op.scenario.timing.authorize
  ELSE op.scenario.timing.confirm

\* Mutant: the deadline does not run while the terminal waits for an input.
DueWithoutDeadline(op) == IF Unattended(op)
                          THEN Sooner(op.stageStarted + Delay(op), op.deadline)
                          ELSE op.deadline + HourMs

\* due(), of an active operation.
Due(op) == IF Unattended(op)
           THEN Sooner(op.stageStarted + Delay(op), op.deadline)
           ELSE op.deadline

\* The scripted error strikes in this stage.
Faulty(op) == op.scenario.outcome = "error" /\ op.stage = op.scenario.failureStage

FaultStage(error) ==
  IF error = "customer_cancelled"    THEN "cancelled"
  ELSE IF error = "terminal_timeout" THEN "timed_out"
  ELSE "failed"

\* Mutant: authorization never gets anywhere.
NextStageStuck(op) ==
  IF op.stage = "connecting"             THEN "awaiting_card"
  ELSE IF op.stage = "awaiting_card"     THEN "awaiting_customer"
  ELSE "authorizing"

NextStage(op) ==
  IF op.stage = "connecting"             THEN "awaiting_card"
  ELSE IF op.stage = "awaiting_card"     THEN "awaiting_customer"
  ELSE IF op.stage = "awaiting_customer" THEN "authorizing"
  ELSE IF op.stage = "authorizing" /\ op.scenario.outcome = "declined" THEN "declined"
  ELSE IF op.stage = "authorizing" /\ op.scenario.confirm THEN "awaiting_confirmation"
  ELSE "approved"

\* Mutant: an approval wins the tie with the deadline.
StepDeadlineLoses(op, t) ==
  IF t > op.deadline THEN Transition(op, "timed_out", "terminal_timeout", t)
  ELSE IF Faulty(op) THEN Transition(op, FaultStage(op.scenario.error), op.scenario.error, t)
  ELSE Transition(op, NextStage(op), NoError, t)

\* step() at time t; a deadline that is reached wins a tie.
Step(op, t) ==
  IF t >= op.deadline THEN Transition(op, "timed_out", "terminal_timeout", t)
  ELSE IF Faulty(op) THEN Transition(op, FaultStage(op.scenario.error), op.scenario.error, t)
  ELSE Transition(op, NextStage(op), NoError, t)

\* Mutant: a step happens when the clock arrives, not when it was due.
TurnLate(from, to) ==
  [op \in Operation |-> IF Active(op) /\ Due(op) <= to THEN Step(op, to) ELSE op]

\* One turn of advance()'s loop for one operation, the clock going from `from'
\* to `to'; a due time already past is served at `from'.
Turn(from, to) ==
  [op \in Operation |->
     IF Active(op) /\ Due(op) <= to THEN Step(op, Later(Due(op), from)) ELSE op]

\* All the steps of one operation that fall due by `to'.  Five turns end any
\* operation: there are five active stages and each turn leaves one.
Settle(op, from, to) ==
  LET turn == Turn(from, to)
  IN  turn[turn[turn[turn[turn[op]]]]]

-----------------------------------------------------------------------------
\* action(): the inputs an operator, a bank or the cable gives.

Inputs == {"card_presented", "customer_confirmed", "bank_approved", "bank_declined",
           "terminal_confirmed", "reversed", "customer_cancelled",
           "device_disconnected"}

\* Input event takes op to stage next; no next means "invalid_transition".
Reacts(op, event, next) ==
  \/ event = "card_presented" /\ op.stage = "awaiting_card" /\ next = "awaiting_customer"
  \/ event = "customer_confirmed" /\ op.stage = "awaiting_customer" /\ next = "authorizing"
  \/ /\ event = "bank_approved" /\ op.stage = "authorizing" /\ op.scenario.manualBank
     /\ next = IF op.scenario.confirm THEN "awaiting_confirmation" ELSE "approved"
  \/ /\ event = "bank_declined" /\ op.stage = "authorizing" /\ op.scenario.manualBank
     /\ next = "declined"
  \/ event = "terminal_confirmed" /\ op.stage = "awaiting_confirmation" /\ next = "approved"
  \/ event = "reversed" /\ op.stage = "approved" /\ op.scenario.confirm /\ next = "reversed"
  \/ /\ event = "customer_cancelled"
     /\ op.stage \in {"connecting", "awaiting_card", "awaiting_customer"}
     /\ next = "cancelled"
  \/ event = "device_disconnected" /\ Active(op) /\ next = "failed"

ReactionError(next) ==
  IF next = "cancelled"   THEN "customer_cancelled"
  ELSE IF next = "failed" THEN "terminal_connection_refused"
  ELSE NoError

\* Mutant: an input overrides the scripted error.
ReactUnscripted(op, event, next, t) == Transition(op, next, ReactionError(next), t)

\* A scripted error strikes instead of the input's effect, except that a
\* cancellation and a lost cable come first.
React(op, event, next, t) ==
  IF Faulty(op) /\ event \notin {"customer_cancelled", "device_disconnected"}
  THEN Step(op, t)
  ELSE Transition(op, next, ReactionError(next), t)
=============================================================================

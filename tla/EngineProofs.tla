---------------------------- MODULE EngineProofs ----------------------------
(***************************************************************************)
(* Theorems about Engine, for any devices, scenarios, amounts, clock steps *)
(* and bounds: what holds of its payments, that its counters agree with    *)
(* them, and that it implements Ledger.                                    *)
(***************************************************************************)
EXTENDS Engine, FiniteSetTheorems, SequenceTheorems, TLAPS

USE DEF Never, NoError

-----------------------------------------------------------------------------
\* One operation.

\* What no step of an operation ever changes.
Frame(op, new) ==
  /\ new.device = op.device
  /\ new.merchant = op.merchant
  /\ new.amount = op.amount
  /\ new.started = op.started
  /\ new.deadline = op.deadline
  /\ new.scenario = op.scenario
  /\ new.delivered = op.delivered

\* A transition touches only an operation's stage, times, charge and error.
LEMMA TransitionFields ==
  ASSUME NEW op \in Operation, NEW stage, NEW error, NEW t
  PROVE  /\ Frame(op, Transition(op, stage, error, t))
         /\ Transition(op, stage, error, t).stage = stage
         /\ Transition(op, stage, error, t).stageStarted = t
         /\ Transition(op, stage, error, t).error = error
         /\ Transition(op, stage, error, t).completed
              = IF stage \in FinalStages THEN t ELSE op.completed
         /\ Transition(op, stage, error, t).charged
              = (stage = "approved" \/ (op.charged /\ stage # "reversed"))
BY DEF Transition, Operation, Frame

\* And it yields an operation.
LEMMA TransitionType ==
  ASSUME NEW op \in Operation, NEW stage \in Stages,
         NEW error \in TerminalErrors \cup {NoError}, NEW t \in Nat
  PROVE  Transition(op, stage, error, t) \in Operation
BY DEF Transition, Operation

\* The stages and errors that step() hands to transition() are legal.
LEMMA StepStages ==
  ASSUME NEW op \in Operation
  PROVE  /\ NextStage(op) \in Stages
         /\ \A e : FaultStage(e) \in Stages
         /\ op.scenario.error \in TerminalErrors \cup {NoError}
         /\ "terminal_timeout" \in TerminalErrors
<1>1. NextStage(op) \in Stages
  BY DEF NextStage, Stages, ActiveStages, FinalStages
<1>2. \A e : FaultStage(e) \in Stages
  BY DEF FaultStage, Stages, FinalStages
<1>3. op.scenario.error \in TerminalErrors \cup {NoError}
  BY DEF Operation, Scenario
<1>4. "terminal_timeout" \in TerminalErrors
  BY DEF TerminalErrors
<1> QED
  BY <1>1, <1>2, <1>3, <1>4

LEMMA StepType ==
  ASSUME NEW op \in Operation, NEW t \in Nat
  PROVE  Step(op, t) \in Operation /\ Frame(op, Step(op, t))
<1>1. CASE t >= op.deadline
  BY <1>1, StepStages, TransitionFields, TransitionType DEF Step, Stages, FinalStages
<1>2. CASE ~(t >= op.deadline) /\ Faulty(op)
  BY <1>2, StepStages, TransitionFields, TransitionType DEF Step
<1>3. CASE ~(t >= op.deadline) /\ ~Faulty(op)
  BY <1>3, StepStages, TransitionFields, TransitionType DEF Step
<1> QED
  BY <1>1, <1>2, <1>3

\* The next due time of an operation is a time.
LEMMA DueType ==
  ASSUME NEW op \in Operation
  PROVE  Due(op) \in Nat /\ Delay(op) \in Nat
<1>1. op.scenario.timing \in Timing /\ op.stageStarted \in Nat /\ op.deadline \in Nat
  BY DEF Operation, Scenario
<1>2. Delay(op) \in Nat
  BY <1>1 DEF Delay, Timing
<1> QED
  BY <1>1, <1>2 DEF Due, Sooner

LEMMA TurnType ==
  ASSUME NEW op \in Operation, NEW from \in Nat, NEW to \in Nat
  PROVE  /\ Turn(from, to)[op] \in Operation
         /\ Frame(op, Turn(from, to)[op])
         /\ ~Active(op) => Turn(from, to)[op] = op
<1>1. Turn(from, to)[op] = IF Active(op) /\ Due(op) <= to THEN Step(op, Later(Due(op), from)) ELSE op
  BY DEF Turn
<1>2. Later(Due(op), from) \in Nat
  BY DueType DEF Later
<1>3. Step(op, Later(Due(op), from)) \in Operation /\ Frame(op, Step(op, Later(Due(op), from)))
  BY <1>2, StepType
<1>4. Frame(op, op)
  BY DEF Frame
<1> QED
  BY <1>1, <1>3, <1>4

-----------------------------------------------------------------------------
\* Five turns serve everything that is due.

\* How far an operation has come; 5 is finished.
RankOf(stage) ==
  IF stage = "connecting"                THEN 0
  ELSE IF stage = "awaiting_card"        THEN 1
  ELSE IF stage = "awaiting_customer"    THEN 2
  ELSE IF stage = "authorizing"          THEN 3
  ELSE IF stage = "awaiting_confirmation" THEN 4
  ELSE 5

Rank(op) == RankOf(op.stage)

\* Nothing of the operation is due by time t.
Quiet(op, t) == Active(op) => Due(op) > t

LEMMA StepRank ==
  ASSUME NEW op \in Operation, NEW t \in Nat, Active(op)
  PROVE  Rank(Step(op, t)) > Rank(op)
<1> DEFINE new == Step(op, t)
<1>1. CASE t >= op.deadline
  <2>1. new.stage = "timed_out"
    BY <1>1, TransitionFields DEF Step
  <2> QED
    BY <2>1 DEF Rank, RankOf, Active, ActiveStages
<1>2. CASE ~(t >= op.deadline) /\ Faulty(op)
  <2>1. new.stage = FaultStage(op.scenario.error)
    BY <1>2, TransitionFields DEF Step
  <2> QED
    BY <2>1 DEF FaultStage, Rank, RankOf, Active, ActiveStages
<1>3. CASE ~(t >= op.deadline) /\ ~Faulty(op)
  <2>1. new.stage = NextStage(op)
    BY <1>3, TransitionFields DEF Step
  <2> QED
    BY <2>1 DEF NextStage, Rank, RankOf, Active, ActiveStages
<1>4. t \in Nat /\ op.deadline \in Nat
  BY DEF Operation
<1> QED
  BY <1>1, <1>2, <1>3, <1>4

\* A turn leaves a quiet operation alone and moves any other along.
LEMMA TurnRank ==
  ASSUME NEW op \in Operation, NEW from \in Nat, NEW to \in Nat, NEW k \in 0..4,
         Quiet(op, to) \/ Rank(op) >= k
  PROVE  Quiet(Turn(from, to)[op], to) \/ Rank(Turn(from, to)[op]) >= k + 1
<1>1. Turn(from, to)[op] = IF Active(op) /\ Due(op) <= to THEN Step(op, Later(Due(op), from)) ELSE op
  BY DEF Turn
<1>2. Due(op) \in Nat /\ Later(Due(op), from) \in Nat
  BY DueType DEF Later
<1>3. Rank(op) \in 0..5 /\ Rank(Step(op, Later(Due(op), from))) \in 0..5
  BY DEF Rank, RankOf
<1>4. CASE Active(op) /\ Due(op) <= to
  <2>1. Rank(op) >= k
    BY <1>2, <1>4 DEF Quiet
  <2>2. Rank(Step(op, Later(Due(op), from))) > Rank(op)
    BY <1>2, <1>4, StepRank
  <2> QED
    BY <1>1, <1>3, <1>4, <2>1, <2>2
<1>5. CASE ~(Active(op) /\ Due(op) <= to)
  BY <1>1, <1>2, <1>5 DEF Quiet
<1> QED
  BY <1>4, <1>5

\* A finished operation is quiet.
LEMMA RankQuiet ==
  ASSUME NEW op \in Operation, NEW t, Rank(op) >= 5
  PROVE  Quiet(op, t)
BY DEF Rank, RankOf, Quiet, Active, ActiveStages

LEMMA SettleType ==
  ASSUME NEW op \in Operation, NEW from \in Nat, NEW to \in Nat
  PROVE  /\ Settle(op, from, to) \in Operation
         /\ Frame(op, Settle(op, from, to))
         /\ ~Active(op) => Settle(op, from, to) = op
         /\ Quiet(Settle(op, from, to), to)
<1> DEFINE turn == Turn(from, to)
           o1 == turn[op]
           o2 == turn[o1]
           o3 == turn[o2]
           o4 == turn[o3]
           o5 == turn[o4]
<1>0. Settle(op, from, to) = o5
  BY DEF Settle
<1> HIDE DEF turn
<1>1. o1 \in Operation /\ Frame(op, o1) /\ (~Active(op) => o1 = op)
      /\ (Quiet(o1, to) \/ Rank(o1) >= 1)
  <2>1. Rank(op) >= 0
    BY DEF Rank, RankOf
  <2> QED
    BY <2>1, TurnType, TurnRank DEF turn
<1> HIDE DEF o1
<1>2. o2 \in Operation /\ Frame(o1, o2) /\ (~Active(o1) => o2 = o1)
      /\ (Quiet(o2, to) \/ Rank(o2) >= 2)
  BY <1>1, TurnType, TurnRank DEF turn
<1> HIDE DEF o2
<1>3. o3 \in Operation /\ Frame(o2, o3) /\ (~Active(o2) => o3 = o2)
      /\ (Quiet(o3, to) \/ Rank(o3) >= 3)
  BY <1>2, TurnType, TurnRank DEF turn
<1> HIDE DEF o3
<1>4. o4 \in Operation /\ Frame(o3, o4) /\ (~Active(o3) => o4 = o3)
      /\ (Quiet(o4, to) \/ Rank(o4) >= 4)
  BY <1>3, TurnType, TurnRank DEF turn
<1> HIDE DEF o4
<1>5. o5 \in Operation /\ Frame(o4, o5) /\ (~Active(o4) => o5 = o4)
      /\ (Quiet(o5, to) \/ Rank(o5) >= 5)
  BY <1>4, TurnType, TurnRank DEF turn
<1> HIDE DEF o5
<1>6. Quiet(o5, to)
  BY <1>5, RankQuiet
<1>7. Frame(op, o5)
  BY <1>1, <1>2, <1>3, <1>4, <1>5 DEF Frame
<1> QED
  BY <1>0, <1>1, <1>2, <1>3, <1>4, <1>5, <1>6, <1>7

-----------------------------------------------------------------------------
\* One operation keeps its deadline and its script.

\* What the proofs use of validate().
LEMMA ValidFacts ==
  ASSUME NEW s, Valid(s)
  PROVE  /\ s.timing.timeout \in Nat /\ s.timing.timeout >= 1
         /\ s.failureStage \in ActiveStages
         /\ s.failureStage = "awaiting_confirmation" => s.confirm
         /\ s.outcome = "error" <=> s.error # NoError
BY DEF Valid

\* OnTime and Honours, strengthened for the active stages: a scripted error's
\* stage is still ahead, and a scripted decline has not got past the bank.
Sound(op) ==
  /\ OnTime(op)
  /\ Honours(op)
  /\ op.scenario.outcome = "error" /\ Active(op) => Rank(op) <= RankOf(op.scenario.failureStage)
  /\ op.scenario.outcome = "declined" /\ ~op.scenario.manualBank
       => op.stage # "awaiting_confirmation"

\* The clock has not yet passed an active operation's deadline.
InTime(op, t) == op.started <= t /\ t < op.deadline

LEMMA StepSound ==
  ASSUME NEW op \in Operation, NEW t \in Nat, Valid(op.scenario), Sound(op), Active(op),
         op.started <= t, t <= op.deadline
  PROVE  Sound(Step(op, t))
<1> DEFINE new == Step(op, t)
<1>0. op.deadline \in Nat /\ op.started \in Nat /\ op.charged \in BOOLEAN
  BY DEF Operation
<1>a. Frame(op, new)
  BY StepType
<1>b. ~op.charged
  BY DEF Sound, Honours, Active, ActiveStages
<1>1. CASE t >= op.deadline
  <2>1. /\ new.stage = "timed_out" /\ new.error = "terminal_timeout"
        /\ new.completed = op.deadline /\ ~new.charged
    BY <1>0, <1>b, <1>1, TransitionFields DEF Step, FinalStages
  <2> QED
    BY <1>0, <1>a, <2>1 DEF Sound, OnTime, Honours, Active, ActiveStages, FinalStages, Frame
<1>2. CASE ~(t >= op.deadline) /\ Faulty(op)
  <2>1. /\ new.stage = FaultStage(op.scenario.error) /\ new.error = op.scenario.error
        /\ new.completed = t /\ ~new.charged
    BY <1>0, <1>b, <1>2, TransitionFields DEF Step, FaultStage, FinalStages
  <2>2. op.scenario.error # NoError
    BY <1>2, ValidFacts DEF Faulty
  <2> QED
    BY <1>0, <1>2, <1>a, <2>1, <2>2
    DEF Sound, OnTime, Honours, Active, ActiveStages, FinalStages, Frame, FaultStage
<1>3. CASE ~(t >= op.deadline) /\ ~Faulty(op)
  <2>1. /\ new.stage = NextStage(op) /\ new.error = NoError
        /\ new.completed = IF NextStage(op) \in FinalStages THEN t ELSE op.completed
        /\ new.charged <=> NextStage(op) = "approved"
    <3>1. new = Transition(op, NextStage(op), NoError, t)
      BY <1>3 DEF Step
    <3>2. new.charged = (NextStage(op) = "approved" \/ (op.charged /\ NextStage(op) # "reversed"))
      BY <3>1, TransitionFields
    <3>3. new.charged <=> NextStage(op) = "approved"
      BY <1>b, <3>2
    <3> QED
      BY <3>1, <3>3, TransitionFields
  <2>2. OnTime(new)
    BY <1>0, <1>3, <1>a, <2>1 DEF OnTime, NextStage, FinalStages, Frame
  <2>3. op.scenario.outcome = "error" => Rank(op) < RankOf(op.scenario.failureStage)
    BY <1>3, ValidFacts DEF Sound, Faulty, Rank, RankOf, Active, ActiveStages
  <2>4. Honours(new)
    BY <1>a, <2>1, <2>3, ValidFacts
    DEF Honours, Sound, NextStage, Frame, Rank, RankOf, Active, ActiveStages
  <2>5. op.scenario.outcome = "error" /\ Active(new) => Rank(new) <= RankOf(op.scenario.failureStage)
    BY <2>1, <2>3 DEF NextStage, Rank, RankOf, Active, ActiveStages
  <2>6. op.scenario.outcome = "declined" /\ ~op.scenario.manualBank
          => new.stage # "awaiting_confirmation"
    BY <2>1 DEF NextStage, Active, ActiveStages
  <2> QED
    BY <1>a, <2>2, <2>4, <2>5, <2>6 DEF Sound, Frame
<1> QED
  BY <1>0, <1>1, <1>2, <1>3

\* An operation that is well typed, validated, sound, and in time while active.
Good(op, t) ==
  /\ op \in Operation
  /\ Valid(op.scenario)
  /\ Sound(op)
  /\ Active(op) => InTime(op, t)

\* A turn at the latest of its due time and `from' keeps an operation good.
LEMMA TurnGood ==
  ASSUME NEW op, NEW from \in Nat, NEW to \in Nat, Good(op, from)
  PROVE  /\ Good(Turn(from, to)[op], from)
         /\ Active(Turn(from, to)[op]) => Active(op)
<1>0. op \in Operation /\ op.deadline \in Nat /\ op.started \in Nat
  BY DEF Good, Operation
<1>1. Turn(from, to)[op] = IF Active(op) /\ Due(op) <= to THEN Step(op, Later(Due(op), from)) ELSE op
  BY <1>0 DEF Turn
<1>2. CASE Active(op) /\ Due(op) <= to
  <2> DEFINE t == Later(Due(op), from)
  <2>1. Due(op) \in Nat /\ Due(op) <= op.deadline
    BY <1>0, DueType DEF Due, Sooner, Operation
  <2>2. t \in Nat /\ op.started <= t /\ t <= op.deadline
    BY <1>0, <1>2, <2>1 DEF Good, InTime, Later
  <2>3. Sound(Step(op, t))
    BY <1>0, <1>2, <2>2, StepSound DEF Good
  <2>4. Step(op, t) \in Operation /\ Frame(op, Step(op, t))
    BY <1>0, <2>2, StepType
  <2> QED
    BY <1>1, <1>2, <2>3, <2>4 DEF Good, Frame, InTime
<1>3. CASE ~(Active(op) /\ Due(op) <= to)
  BY <1>1, <1>3
<1> QED
  BY <1>2, <1>3

\* Serving everything due by `to' keeps an operation good and leaves nothing
\* of it due.
LEMMA SettleGood ==
  ASSUME NEW op, NEW from \in Nat, NEW to \in Nat, from <= to, Good(op, from)
  PROVE  /\ Good(Settle(op, from, to), to)
         /\ Quiet(Settle(op, from, to), to)
         /\ Frame(op, Settle(op, from, to))
         /\ Active(Settle(op, from, to)) => Active(op)
         /\ ~Active(op) => Settle(op, from, to) = op
<1> DEFINE turn == Turn(from, to)
           o1 == turn[op]
           o2 == turn[o1]
           o3 == turn[o2]
           o4 == turn[o3]
           o5 == turn[o4]
<1>0. Settle(op, from, to) = o5
  BY DEF Settle
<1> HIDE DEF turn
<1>1. Good(o1, from) /\ (Active(o1) => Active(op))
  BY TurnGood DEF turn
<1> HIDE DEF o1
<1>2. Good(o2, from) /\ (Active(o2) => Active(o1))
  BY <1>1, TurnGood DEF turn
<1> HIDE DEF o2
<1>3. Good(o3, from) /\ (Active(o3) => Active(o2))
  BY <1>2, TurnGood DEF turn
<1> HIDE DEF o3
<1>4. Good(o4, from) /\ (Active(o4) => Active(o3))
  BY <1>3, TurnGood DEF turn
<1> HIDE DEF o4
<1>5. Good(o5, from) /\ (Active(o5) => Active(o4))
  BY <1>4, TurnGood DEF turn
<1> HIDE DEF o5
<1>6. /\ Frame(op, o5)
      /\ Quiet(o5, to)
      /\ ~Active(op) => o5 = op
  BY <1>0, SettleType DEF Good
<1>7. Active(o5) => InTime(o5, to)
  <2>1. o5 \in Operation /\ o5.deadline \in Nat /\ o5.started \in Nat /\ Due(o5) \in Nat
        /\ Due(o5) <= o5.deadline
    BY <1>5, DueType DEF Good, Operation, Due, Sooner
  <2> QED
    BY <1>5, <1>6, <2>1 DEF Good, InTime, Quiet
<1> QED
  BY <1>0, <1>1, <1>2, <1>3, <1>4, <1>5, <1>6, <1>7 DEF Good

\* A new operation is good: validate() leaves it a positive timeout.
LEMMA OpenedGood ==
  ASSUME NEW s \in Scenario, NEW m \in Merchants, NEW amount \in Nat, NEW t \in Nat, Valid(s)
  PROVE  /\ Good(Opened(s, m, amount, t), t)
         /\ Active(Opened(s, m, amount, t))
         /\ Opened(s, m, amount, t).device = s.device
         /\ Opened(s, m, amount, t).merchant = m
<1> DEFINE op == Opened(s, m, amount, t)
<1>1. s.timing.timeout \in Nat /\ s.timing.timeout >= 1 /\ s.device \in DeviceIds
  BY ValidFacts DEF Scenario
<1>2. op \in Operation
  BY <1>1 DEF Opened, Operation, Stages, ActiveStages
<1>3. /\ op.stage = "connecting" /\ op.error = NoError /\ ~op.charged /\ op.scenario = s
      /\ op.started = t /\ op.deadline = t + s.timing.timeout
      /\ op.device = s.device /\ op.merchant = m
  BY DEF Opened
<1>4. Active(op)
  BY <1>3 DEF Active, ActiveStages
<1>5. Sound(op)
  BY <1>3, ValidFacts DEF Sound, OnTime, Honours, FinalStages, Rank, RankOf, ActiveStages
<1>6. InTime(op, t)
  BY <1>1, <1>3 DEF InTime
<1> QED
  BY <1>2, <1>3, <1>4, <1>5, <1>6 DEF Good

\* An input keeps an operation good, never reopens a finished one, and ends the
\* one whose cable it cuts.
LEMMA ReactGood ==
  ASSUME NEW op, NEW event \in Inputs, NEW next \in Stages, NEW t \in Nat,
         Good(op, t), op.started <= t, Reacts(op, event, next)
  PROVE  /\ Good(React(op, event, next, t), t)
         /\ Frame(op, React(op, event, next, t))
         /\ Active(React(op, event, next, t)) => Active(op) /\ event # "device_disconnected"
         /\ \/ Active(op)
            \/ op.stage = "approved" /\ React(op, event, next, t).stage = "reversed"
<1> DEFINE new == React(op, event, next, t)
<1>0. /\ op \in Operation /\ op.deadline \in Nat /\ op.started \in Nat
      /\ op.charged \in BOOLEAN /\ op.scenario.failureStage \in ActiveStages
      /\ op.scenario.confirm \in BOOLEAN /\ op.scenario.manualBank \in BOOLEAN
  BY ValidFacts DEF Good, Operation, Scenario
<1>1. CASE Faulty(op) /\ event \notin {"customer_cancelled", "device_disconnected"}
  <2>1. new = Step(op, t)
    BY <1>1 DEF React
  <2>2. Active(op)
    BY <1>0, <1>1 DEF Faulty, Active
  <2>3. t < op.deadline
    BY <2>2 DEF Good, InTime
  <2>4. Sound(Step(op, t))
    BY <1>0, <2>2, <2>3, StepSound DEF Good
  <2>5. Step(op, t) \in Operation /\ Frame(op, Step(op, t))
    BY <1>0, StepType
  <2> HIDE DEF new
  <2>6. Good(new, t)
    BY <2>1, <2>2, <2>4, <2>5 DEF Good, Frame, InTime
  <2>7. Frame(op, new) /\ Active(op) /\ event # "device_disconnected"
    BY <1>1, <2>1, <2>2, <2>5
  <2> QED
    BY <2>6, <2>7 DEF new
<1>2. CASE ~(Faulty(op) /\ event \notin {"customer_cancelled", "device_disconnected"})
  <2> DEFINE error == ReactionError(next)
  <2>1. new = Transition(op, next, error, t)
    BY <1>2 DEF React
  <2>2. error \in TerminalErrors \cup {NoError}
    BY DEF ReactionError, TerminalErrors
  <2>3. new \in Operation
    BY <1>0, <2>1, <2>2, TransitionType
  <2> HIDE DEF error
  <2>4. /\ Frame(op, new) /\ new.stage = next /\ new.error = error
        /\ new.completed = IF next \in FinalStages THEN t ELSE op.completed
        /\ new.charged = (next = "approved" \/ (op.charged /\ next # "reversed"))
    BY <1>0, <2>1, TransitionFields
  <2>5. Active(op) \/ (op.stage = "approved" /\ next = "reversed")
    BY DEF Reacts, Active, ActiveStages
  <2>6. Active(new) => Active(op) /\ event # "device_disconnected"
    BY <2>4 DEF Reacts, Active, ActiveStages
  <2>7. Active(op) => op.started <= t /\ t < op.deadline /\ ~op.charged
    BY DEF Good, InTime, Sound, Honours, Active, ActiveStages
  <2>8. OnTime(new)
    BY <1>0, <2>4, <2>5, <2>7 DEF OnTime, FinalStages, Frame, Reacts
  <2>9. Honours(new)
    <3>1. /\ op.scenario.outcome = "error" => next \notin {"approved", "reversed"}
          /\ op.scenario.outcome = "declined" /\ ~op.scenario.manualBank
               => next \notin {"approved", "reversed"}
      <4>1. CASE Active(op)
        <5>1. op.scenario.outcome = "error" => Rank(op) <= RankOf(op.scenario.failureStage)
          BY <4>1 DEF Good, Sound
        <5>2. op.scenario.outcome = "error" /\ event \notin {"customer_cancelled", "device_disconnected"}
                => op.stage # op.scenario.failureStage
          BY <1>2 DEF Faulty
        <5>3. op.scenario.failureStage = "awaiting_confirmation" => op.scenario.confirm
          BY ValidFacts DEF Good
        <5>4. op.scenario.outcome = "error" => next \notin {"approved", "reversed"}
          BY <1>0, <4>1, <5>1, <5>2, <5>3 DEF Reacts, Rank, RankOf, Active, ActiveStages
        <5>5. op.scenario.outcome = "declined" /\ ~op.scenario.manualBank
                => next \notin {"approved", "reversed"}
          BY <4>1 DEF Reacts, Good, Sound, Active, ActiveStages
        <5> QED
          BY <5>4, <5>5
      <4>2. CASE op.stage = "approved"
        BY <4>2 DEF Good, Sound, Honours
      <4> QED
        BY <2>5, <4>1, <4>2
    <3>2. new.charged <=> new.stage = "approved"
      <4>1. op.charged => op.stage = "approved"
        BY DEF Good, Sound, Honours
      <4>2. op.charged => next = "reversed"
        BY <2>5, <2>7, <4>1 DEF Active, ActiveStages
      <4>3. new.charged = (next = "approved")
        BY <1>0, <2>4, <4>2
      <4> QED
        BY <2>4, <4>3
    <3>3. new.stage \in {"cancelled", "failed", "timed_out"} <=> new.error # NoError
      BY <2>4 DEF error, ReactionError, Reacts
    <3> QED
      BY <2>4, <3>1, <3>2, <3>3 DEF Honours, Frame
  <2>10. op.scenario.outcome = "error" /\ Active(new) => Rank(new) <= RankOf(op.scenario.failureStage)
    <3>1. SUFFICES ASSUME op.scenario.outcome = "error", Active(new)
                   PROVE  Rank(new) <= RankOf(op.scenario.failureStage)
      OBVIOUS
    <3>2. Active(op) /\ event \notin {"customer_cancelled", "device_disconnected"}
      BY <2>4, <2>6, <3>1 DEF Reacts, Active, ActiveStages
    <3>3. op.stage # op.scenario.failureStage /\ Rank(op) <= RankOf(op.scenario.failureStage)
      BY <1>2, <3>1, <3>2 DEF Faulty, Good, Sound
    <3>4. Rank(new) <= Rank(op) + 1
      BY <2>4, <3>1, <3>2 DEF Reacts, Rank, RankOf, Active, ActiveStages
    <3>5. Rank(op) < RankOf(op.scenario.failureStage)
      BY <1>0, <3>2, <3>3 DEF Rank, RankOf, Active, ActiveStages
    <3> QED
      BY <3>4, <3>5 DEF Rank, RankOf
  <2>11. op.scenario.outcome = "declined" /\ ~op.scenario.manualBank
           => new.stage # "awaiting_confirmation"
    BY <1>0, <2>4 DEF Reacts
  <2> HIDE DEF new
  <2>12. Good(new, t)
    BY <2>3, <2>4, <2>6, <2>8, <2>9, <2>10, <2>11 DEF Good, Sound, Frame, InTime
  <2>13. Frame(op, new) /\ (Active(op) \/ (op.stage = "approved" /\ new.stage = "reversed"))
    BY <2>4, <2>5
  <2> QED
    BY <2>6, <2>12, <2>13 DEF new
<1> QED
  BY <1>1, <1>2

-----------------------------------------------------------------------------
\* All operations together.

OneOpenIn(ops) ==
  \A i, j \in Open(ops) : ops[i].device = ops[j].device => i = j

ReadyIn(ops, devs) ==
  \A id \in Open(ops) :
    /\ ops[id].device \in DOMAIN devs
    /\ devs[ops[id].device].online
    /\ ~devs[ops[id].device].setupError
    /\ devs[ops[id].device].merchant = ops[id].merchant

\* Every operation is good at t and started no later.
GoodIn(ops, t) == \A id \in DOMAIN ops : Good(ops[id], t) /\ ops[id].started <= t

QuietIn(ops, t) == \A id \in DOMAIN ops : Quiet(ops[id], t)

\* Serving all operations keeps every one of them good, leaves none overdue and
\* opens none.
LEMMA SettledGood ==
  ASSUME NEW ops, NEW from \in Nat, NEW to \in Nat, from <= to, GoodIn(ops, from)
  PROVE  /\ DOMAIN Settled(ops, from, to) = DOMAIN ops
         /\ GoodIn(Settled(ops, from, to), to)
         /\ QuietIn(Settled(ops, from, to), to)
         /\ Open(Settled(ops, from, to)) \subseteq Open(ops)
         /\ \A id \in DOMAIN ops :
              /\ Frame(ops[id], Settled(ops, from, to)[id])
              /\ ~Active(ops[id]) => Settled(ops, from, to)[id] = ops[id]
<1> DEFINE new == Settled(ops, from, to)
<1>1. DOMAIN new = DOMAIN ops /\ \A id \in DOMAIN ops : new[id] = Settle(ops[id], from, to)
  BY DEF Settled
<1>2. ASSUME NEW id \in DOMAIN ops
      PROVE  /\ Good(new[id], to) /\ new[id].started <= to
             /\ Quiet(new[id], to)
             /\ Active(new[id]) => Active(ops[id])
             /\ Frame(ops[id], new[id])
             /\ ~Active(ops[id]) => new[id] = ops[id]
  <2>1. Good(ops[id], from) /\ ops[id].started <= from /\ ops[id].started \in Nat
    BY DEF GoodIn, Good, Operation
  <2>2. /\ Good(new[id], to) /\ Quiet(new[id], to) /\ Frame(ops[id], new[id])
        /\ Active(new[id]) => Active(ops[id])
        /\ ~Active(ops[id]) => new[id] = ops[id]
    BY <1>1, <2>1, SettleGood
  <2> QED
    BY <2>1, <2>2 DEF Frame
<1> HIDE DEF new
<1> QED
  BY <1>1, <1>2 DEF GoodIn, QuietIn, Open, new

\* What holds of the open operations holds of those still open afterwards.
LEMMA SettledOpen ==
  ASSUME NEW ops, NEW devs, NEW from \in Nat, NEW to \in Nat, from <= to, GoodIn(ops, from),
         OneOpenIn(ops), ReadyIn(ops, devs)
  PROVE  OneOpenIn(Settled(ops, from, to)) /\ ReadyIn(Settled(ops, from, to), devs)
<1> DEFINE new == Settled(ops, from, to)
<1>1. /\ Open(new) \subseteq Open(ops)
      /\ \A id \in Open(new) : new[id].device = ops[id].device /\ new[id].merchant = ops[id].merchant
  BY SettledGood DEF Open, Frame
<1> HIDE DEF new
<1>2. OneOpenIn(new)
  BY <1>1 DEF OneOpenIn
<1>3. ReadyIn(new, devs)
  BY <1>1 DEF ReadyIn
<1> QED
  BY <1>2, <1>3 DEF new

\* The counters stay natural numbers.
LEMMA TallyType ==
  ASSUME NEW counts \in Counters, NEW before, NEW after,
         IsFiniteSet(DOMAIN before), IsFiniteSet(DOMAIN after)
  PROVE  Tally(counts, before, after) \in Counters
<1>1. IsFiniteSet(Charged(after) \ Charged(before)) /\ IsFiniteSet(Charged(before) \ Charged(after))
  <2>1. /\ Charged(after) \ Charged(before) \subseteq DOMAIN after
        /\ Charged(before) \ Charged(after) \subseteq DOMAIN before
    BY DEF Charged
  <2> QED
    BY <2>1, FS_Subset
<1>2. /\ Cardinality(Charged(after) \ Charged(before)) \in Nat
      /\ Cardinality(Charged(before) \ Charged(after)) \in Nat
  BY <1>1, FS_CardinalityType, Zenon
<1>3. ASSUME NEW a \in Nat, NEW r \in Nat
      PROVE  [counts EXCEPT !.approvals = @ + a, !.reversals = @ + r] \in Counters
  <2>1. counts.approvals + a \in Nat /\ counts.reversals + r \in Nat
    BY DEF Counters
  <2> QED
    BY <2>1 DEF Counters
<1> QED
  BY <1>2, <1>3 DEF Tally

\* The identifiers of a generation are finitely many.
LEMMA IdsFinite ==
  ASSUME NEW g \in Nat, NEW n \in Nat, NEW S, S \subseteq {g} \X (1 .. n - 1)
  PROVE  IsFiniteSet(S)
<1>1. IsFiniteSet({g}) /\ IsFiniteSet(1 .. n - 1)
  BY FS_Singleton, FS_Interval
<1>2. IsFiniteSet({g} \X (1 .. n - 1))
  BY <1>1, FS_Product
<1> QED
  BY <1>2, FS_Subset

-----------------------------------------------------------------------------
\* The inductive invariant: OneOpenPerDevice and OpenOnReadyDevice need that
\* requests are admitted on an idle, ready device only; the rest needs that each
\* operation is good and quiet whenever a handler returns.
IInv ==
  /\ TypeOK
  /\ GoodIn(operations, now)
  /\ QuietIn(operations, now)
  /\ OneOpenIn(operations)
  /\ ReadyIn(operations, devices)

LEMMA IInvInit == Init => IInv
<1> SUFFICES ASSUME Init PROVE IInv
  OBVIOUS
<1>1. DOMAIN operations = {} /\ queue \in Seq(Script)
  BY DEF Init
<1>2. counters \in Counters
  BY DEF Init, NoCounts, Counters
<1>3. DOMAIN devices \subseteq DeviceIds /\ \A d \in DOMAIN devices : devices[d] \in DeviceProfile
  BY EngineAssumption DEF Init, DefaultProfile, DeviceProfile
<1>4. TypeOK
  BY <1>1, <1>2, <1>3 DEF Init, TypeOK
<1> QED
  BY <1>1, <1>4 DEF IInv, GoodIn, QuietIn, OneOpenIn, ReadyIn, Open

\* A scenario with a use to spare is still valid without it.
LEMMA ScriptUse ==
  ASSUME NEW old \in Script, old.uses # 1
  PROVE  [old EXCEPT !.uses = old.uses - 1] \in Script
<1> DEFINE s == [old EXCEPT !.uses = old.uses - 1]
<1>1. old \in Scenario /\ Valid(old)
  BY DEF Script
<1>2. old.uses \in 1 .. MaxUses
  BY <1>1 DEF Valid
<1>3. MaxUses \in Nat
  BY DEF MaxUses
<1>4. old.uses - 1 \in 1 .. MaxUses /\ old.uses - 1 \in Nat
  BY <1>2, <1>3
<1>5. s \in Scenario
  BY <1>1, <1>4 DEF Scenario
<1>6. /\ s.uses = old.uses - 1
      /\ s.reference = old.reference /\ s.outcome = old.outcome
      /\ s.timing = old.timing /\ s.failureStage = old.failureStage
      /\ s.confirm = old.confirm /\ s.error = old.error
  BY <1>1 DEF Scenario
<1> HIDE DEF s
<1>7. Valid(s)
  BY <1>1, <1>4, <1>6 DEF Valid
<1> QED
  BY <1>5, <1>7 DEF Script, s

\* Taking a use off a queue entry leaves a queue of valid scenarios.
LEMMA ConsumeType ==
  ASSUME queue \in Seq(Script), NEW i \in DOMAIN queue, Consume(i)
  PROVE  queue' \in Seq(Script)
<1>1. i \in 1 .. Len(queue) /\ queue[i] \in Script /\ Len(queue) \in Nat
      /\ \A j \in 1 .. Len(queue) : queue[j] \in Script
  OBVIOUS
<1>2. CASE queue[i].uses = 1
  <2>1. queue' = SubSeq(queue, 1, i - 1) \o SubSeq(queue, i + 1, Len(queue))
    BY <1>2 DEF Consume, RemoveAt
  <2>2. SubSeq(queue, 1, i - 1) \in Seq(Script)
    BY <1>1, SubSeqProperties
  <2>3. SubSeq(queue, i + 1, Len(queue)) \in Seq(Script)
    BY <1>1, SubSeqProperties
  <2> QED
    BY <2>1, <2>2, <2>3, ConcatProperties
<1>3. CASE queue[i].uses # 1
  <2> DEFINE s == [queue[i] EXCEPT !.uses = queue[i].uses - 1]
  <2>1. queue' = [queue EXCEPT ![i] = s]
    BY <1>3 DEF Consume
  <2>2. s \in Script
    BY <1>1, <1>3, ScriptUse
  <2> HIDE DEF s
  <2> QED
    BY <1>1, <2>1, <2>2
<1> QED
  BY <1>2, <1>3

\* A payment admitted on an idle and ready device joins the others in order.
LEMMA AdmitOpens ==
  ASSUME IInv, NEW s \in Script, NEW amount \in Nat,
         s.device \in DOMAIN devices, devices[s.device].online, ~devices[s.device].setupError,
         Idle(s.device)
  PROVE  LET id  == <<generation, serial>>
             ops == Admitted(s, amount)
         IN  /\ DOMAIN ops = DOMAIN operations \cup {id}
             /\ DOMAIN ops \subseteq {generation} \X (1 .. serial)
             /\ GoodIn(ops, now) /\ OneOpenIn(ops) /\ ReadyIn(ops, devices)
<1> DEFINE id  == <<generation, serial>>
           new == Opened(s, devices[s.device].merchant, amount, now)
           ops == Admitted(s, amount)
<1>0. /\ now \in Nat /\ generation \in Nat \ {0} /\ serial \in Nat \ {0}
      /\ DOMAIN operations \subseteq {generation} \X (1 .. serial - 1)
      /\ \A d \in DOMAIN devices : devices[d] \in DeviceProfile
  BY DEF IInv, TypeOK
<1>1. id \notin DOMAIN operations
  BY <1>0
<1>2. DOMAIN ops = DOMAIN operations \cup {id} /\ ops[id] = new
      /\ \A i \in DOMAIN operations : ops[i] = operations[i]
  BY <1>1 DEF Admitted
<1>3. /\ Good(new, now) /\ new.started = now /\ Active(new)
      /\ new.device = s.device /\ new.merchant = devices[s.device].merchant
  <2>1. devices[s.device].merchant \in Merchants
    BY <1>0 DEF DeviceProfile
  <2>2. s \in Scenario /\ Valid(s)
    BY DEF Script
  <2>3. new.started = now
    BY DEF Opened
  <2> QED
    BY <1>0, <2>1, <2>2, <2>3, OpenedGood
<1>4. DOMAIN operations \cup {id} \subseteq {generation} \X (1 .. serial)
  BY <1>0
<1> HIDE DEF new, ops, id
<1>5. GoodIn(ops, now)
  <2>1. new.started <= now
    BY <1>0, <1>3
  <2>2. GoodIn(operations, now)
    BY DEF IInv
  <2> QED
    BY <1>2, <1>3, <2>1, <2>2 DEF GoodIn
<1>6. Open(ops) = Open(operations) \cup {id}
  BY <1>2, <1>3 DEF Open
<1>7. OneOpenIn(ops)
  <2>1. OneOpenIn(operations) /\ \A i \in Open(operations) : operations[i].device # s.device
    BY DEF IInv, Idle
  <2> QED
    BY <1>2, <1>3, <1>6, <2>1 DEF OneOpenIn, Open
<1>8. ReadyIn(ops, devices)
  <2>1. ReadyIn(operations, devices)
    BY DEF IInv
  <2> QED
    BY <1>2, <1>3, <1>6, <2>1 DEF ReadyIn, Open
<1> QED
  BY <1>2, <1>4, <1>5, <1>7, <1>8 DEF ops, id

\* Counting it keeps the counters natural numbers.
LEMMA AcceptedType ==
  ASSUME counters \in Counters
  PROVE  CountAccepted \in Counters
<1>1. counters.requests + 1 \in Nat /\ counters.accepted + 1 \in Nat
  BY DEF Counters
<1> QED
  BY <1>1 DEF CountAccepted, Counters

\* Admitting it preserves the invariant.
LEMMA AdmitStep ==
  ASSUME IInv, NEW s \in Script, NEW amount \in Nat,
         s.device \in DOMAIN devices, devices[s.device].online, ~devices[s.device].setupError,
         Idle(s.device), Admit(s, amount), UNCHANGED <<now, generation, devices>>,
         queue' \in Seq(Script)
  PROVE  IInv'
<1> DEFINE ops == Admitted(s, amount)
<1>0. /\ now \in Nat /\ generation \in Nat \ {0} /\ serial \in Nat \ {0}
      /\ counters \in Counters
      /\ DOMAIN devices \subseteq DeviceIds
      /\ \A d \in DOMAIN devices : devices[d] \in DeviceProfile
      /\ now' = now /\ generation' = generation /\ devices' = devices
  BY DEF IInv, TypeOK
<1>1. /\ DOMAIN ops \subseteq {generation} \X (1 .. serial)
      /\ GoodIn(ops, now) /\ OneOpenIn(ops) /\ ReadyIn(ops, devices)
  BY AdmitOpens
<1>2. operations' = Settled(ops, now, now) /\ serial' = serial + 1
      /\ counters' = Tally(CountAccepted, ops, operations')
  BY DEF Admit
<1> HIDE DEF ops
<1>3. /\ DOMAIN operations' = DOMAIN ops
      /\ GoodIn(operations', now) /\ QuietIn(operations', now)
  BY <1>0, <1>1, <1>2, SettledGood
<1>4. OneOpenIn(operations') /\ ReadyIn(operations', devices)
  BY <1>0, <1>1, <1>2, SettledOpen
<1>5. DOMAIN operations' \subseteq {generation} \X (1 .. serial' - 1)
  BY <1>0, <1>1, <1>2, <1>3
<1>6. counters' \in Counters
  <2>1. IsFiniteSet(DOMAIN operations')
    <3>1. generation \in Nat /\ serial' \in Nat
      BY <1>0, <1>2
    <3> QED
      BY <1>5, <3>1, IdsFinite
  <2> QED
    BY <1>0, <1>2, <1>3, <2>1, AcceptedType, TallyType
<1>7. \A i \in DOMAIN operations' :
         operations'[i] \in Operation /\ operations'[i].scenario \in Script
  BY <1>3 DEF GoodIn, Good, Operation, Script
<1>8. TypeOK'
  BY <1>0, <1>2, <1>5, <1>6, <1>7 DEF TypeOK
<1> QED
  BY <1>0, <1>3, <1>4, <1>8 DEF IInv

\* So does serving changed operations whose open ones still have their devices.
LEMMA ServeStep ==
  ASSUME IInv, NEW ops, NEW to \in Nat, now <= to,
         DOMAIN ops = DOMAIN operations, GoodIn(ops, now),
         OneOpenIn(ops), ReadyIn(ops, devices'),
         operations' = Settled(ops, now, to), now' = to,
         NEW before, DOMAIN before = DOMAIN operations,
         counters' = Tally(counters, before, operations'),
         DOMAIN devices' = DOMAIN devices,
         \A d \in DOMAIN devices : devices'[d] \in DeviceProfile,
         UNCHANGED <<generation, queue, serial>>
  PROVE  IInv'
<1>1. /\ now \in Nat /\ generation \in Nat \ {0} /\ serial \in Nat \ {0}
      /\ DOMAIN operations \subseteq {generation} \X (1 .. serial - 1)
      /\ counters \in Counters
      /\ DOMAIN devices \subseteq DeviceIds
      /\ queue \in Seq(Script)
  BY DEF IInv, TypeOK
<1>2. /\ DOMAIN operations' = DOMAIN ops
      /\ GoodIn(operations', to) /\ QuietIn(operations', to)
  BY <1>1, SettledGood
<1>3. OneOpenIn(operations') /\ ReadyIn(operations', devices')
  BY <1>1, SettledOpen
<1>4. IsFiniteSet(DOMAIN operations)
  BY <1>1, IdsFinite
<1>5. counters' \in Counters
  BY <1>1, <1>2, <1>4, TallyType
<1>6. \A i \in DOMAIN operations' :
         operations'[i] \in Operation /\ operations'[i].scenario \in Script
  BY <1>2 DEF GoodIn, Good, Operation, Script
<1>7. TypeOK'
  BY <1>1, <1>2, <1>5, <1>6 DEF TypeOK
<1> QED
  BY <1>2, <1>3, <1>7 DEF IInv

\* What an input leaves of the operations before anything due is served.
LEMMA ActionOpens ==
  ASSUME IInv, NEW id \in DOMAIN operations, NEW event \in Inputs, NEW next \in Stages,
         Reacts(operations[id], event, next), Disconnect(id, event)
  PROVE  LET ops == Reacted(id, event, next)
         IN  /\ DOMAIN ops = DOMAIN operations
             /\ GoodIn(ops, now) /\ OneOpenIn(ops) /\ ReadyIn(ops, devices')
             /\ DOMAIN devices' = DOMAIN devices
             /\ \A d \in DOMAIN devices : devices'[d] \in DeviceProfile
<1> DEFINE ops == Reacted(id, event, next)
           new == React(operations[id], event, next, now)
<1>1. Reacts(operations[id], event, next) /\ Disconnect(id, event)
  OBVIOUS
<1>2. /\ now \in Nat /\ GoodIn(operations, now) /\ OneOpenIn(operations)
      /\ ReadyIn(operations, devices)
      /\ \A d \in DOMAIN devices : devices[d] \in DeviceProfile
  BY DEF IInv, TypeOK
<1>3. DOMAIN ops = DOMAIN operations /\ ops[id] = new
      /\ \A i \in DOMAIN operations \ {id} : ops[i] = operations[i]
  BY DEF Reacted
<1>4. /\ Good(new, now) /\ Frame(operations[id], new)
      /\ Active(new) => Active(operations[id]) /\ event # "device_disconnected"
      /\ operations[id].started <= now
  BY <1>1, <1>2, ReactGood DEF GoodIn
<1> HIDE DEF ops, new
<1>5. GoodIn(ops, now)
  BY <1>2, <1>3, <1>4 DEF GoodIn, Frame
<1>6. /\ Open(ops) \subseteq Open(operations)
      /\ \A i \in Open(ops) : /\ ops[i].device = operations[i].device
                             /\ ops[i].merchant = operations[i].merchant
      /\ event = "device_disconnected" => id \notin Open(ops)
  BY <1>3, <1>4 DEF Open, Frame
<1>7. OneOpenIn(ops)
  BY <1>2, <1>6 DEF OneOpenIn
<1>8. DOMAIN devices' = DOMAIN devices
      /\ \A d \in DOMAIN devices : devices'[d] \in DeviceProfile
  <2>1. CASE event = "device_disconnected"
    <3>1. /\ DOMAIN devices' = DOMAIN devices
          /\ \A d \in DOMAIN devices : devices'[d] \in {devices[d], [devices[d] EXCEPT !.online = FALSE]}
      BY <1>1, <2>1 DEF Disconnect
    <3>2. \A dev \in DeviceProfile : [dev EXCEPT !.online = FALSE] \in DeviceProfile
      BY DEF DeviceProfile
    <3> QED
      BY <1>2, <3>1, <3>2
  <2>2. CASE event # "device_disconnected"
    BY <1>1, <1>2, <2>2 DEF Disconnect
  <2> QED
    BY <2>1, <2>2
<1>9. ReadyIn(ops, devices')
  <2>1. CASE event # "device_disconnected"
    <3>1. devices' = devices
      BY <1>1, <2>1 DEF Disconnect
    <3> QED
      BY <1>2, <1>6, <3>1 DEF ReadyIn
  <2>2. CASE event = "device_disconnected"
    <3>1. \A i \in Open(ops) : i \in Open(operations) /\ i # id
      BY <1>6, <2>2
    <3>2. Active(operations[id])
      BY <1>1, <2>2 DEF Reacts
    <3>3. id \in Open(operations)
      BY <3>2 DEF Open
    <3>4. \A i \in Open(ops) : operations[i].device # operations[id].device
      BY <1>2, <3>1, <3>3 DEF OneOpenIn
    <3>5. \A d \in DOMAIN devices : d # operations[id].device => devices'[d] = devices[d]
      BY <1>1, <2>2 DEF Disconnect
    <3> QED
      BY <1>2, <1>6, <1>8, <3>1, <3>4, <3>5 DEF ReadyIn
  <2> QED
    BY <2>1, <2>2
<1> QED
  BY <1>3, <1>5, <1>7, <1>8, <1>9 DEF ops

LEMMA ActionStep ==
  ASSUME IInv, NEW id \in DOMAIN operations, NEW event \in Inputs, Action(id, event)
  PROVE  IInv'
<1>1. PICK next \in Stages :
        /\ Reacts(operations[id], event, next)
        /\ operations' = Settled(Reacted(id, event, next), now, now)
        /\ counters' = Tally(counters, operations, operations')
        /\ Disconnect(id, event)
        /\ UNCHANGED <<now, generation, queue, serial>>
  BY DEF Action
<1> DEFINE ops == Reacted(id, event, next)
<1>2. /\ DOMAIN ops = DOMAIN operations
      /\ GoodIn(ops, now) /\ OneOpenIn(ops) /\ ReadyIn(ops, devices')
      /\ DOMAIN devices' = DOMAIN devices
      /\ \A d \in DOMAIN devices : devices'[d] \in DeviceProfile
  BY <1>1, ActionOpens
<1> HIDE DEF ops
<1>3. now \in Nat
  BY DEF IInv, TypeOK
<1> QED
  BY <1>1, <1>2, <1>3, ServeStep DEF ops

LEMMA SetDeviceStep ==
  ASSUME IInv, NEW d \in DeviceIds, NEW p \in DeviceProfile, SetDevice(d, p)
  PROVE  IInv'
<1>1. /\ DOMAIN devices' = DOMAIN devices \cup {d}
      /\ devices'[d] = p
      /\ \A x \in DOMAIN devices \ {d} : devices'[x] = devices[x]
      /\ UNCHANGED <<now, generation, operations, queue, counters, serial>>
  BY DEF SetDevice
<1>2. ReadyIn(operations, devices')
  <2>1. ReadyIn(operations, devices) /\ \A id \in Open(operations) : operations[id].device # d
    BY DEF IInv, SetDevice, Idle
  <2> QED
    BY <1>1, <2>1 DEF ReadyIn
<1>3. DOMAIN devices' \subseteq DeviceIds /\ \A x \in DOMAIN devices' : devices'[x] \in DeviceProfile
  BY <1>1 DEF IInv, TypeOK
<1>4. TypeOK'
  BY <1>1, <1>3 DEF IInv, TypeOK
<1> QED
  BY <1>1, <1>2, <1>4 DEF IInv

LEMMA ArmStep ==
  ASSUME IInv, NEW s \in Scenario, Arm(s)
  PROVE  IInv'
<1>1. s \in Script
  BY DEF Arm, Script
<1>2. queue' \in Seq(Script)
  BY <1>1 DEF Arm, IInv, TypeOK
<1> QED
  BY <1>2 DEF Arm, IInv, TypeOK

LEMMA StandaloneStep ==
  ASSUME IInv, NEW s \in Scenario, NEW a \in Nat, Standalone(s, a)
  PROVE  IInv'
<1>1. /\ Valid(s) /\ Admit(s, a) /\ Idle(s.device) /\ UNCHANGED <<now, generation, devices>>
      /\ s.device \in DOMAIN devices /\ devices[s.device].online /\ ~devices[s.device].setupError
      /\ queue' = IF s.uses = 1 THEN queue ELSE Append(queue, [s EXCEPT !.uses = s.uses - 1])
  BY DEF Standalone, Alone, Admissible
<1>2. s \in Script
  BY <1>1 DEF Script
<1>3. s.uses # 1 => [s EXCEPT !.uses = s.uses - 1] \in Script
  BY <1>2, ScriptUse
<1>4. queue' \in Seq(Script)
  BY <1>1, <1>3 DEF IInv, TypeOK
<1> QED
  BY <1>1, <1>2, <1>4, AdmitStep

LEMMA DeliveredStep ==
  ASSUME IInv, NEW id \in DOMAIN operations, Delivered(id)
  PROVE  IInv'
<1> DEFINE op  == operations[id]
           new == [op EXCEPT !.delivered = TRUE]
<1>1. /\ DOMAIN operations' = DOMAIN operations
      /\ operations'[id] = new
      /\ \A i \in DOMAIN operations \ {id} : operations'[i] = operations[i]
      /\ counters' = [counters EXCEPT !.delivered = counters.delivered + 1]
      /\ UNCHANGED <<now, generation, devices, queue, serial>>
  BY DEF Delivered
<1>2. /\ now \in Nat /\ Good(op, now) /\ op \in Operation /\ op.started <= now
      /\ counters \in Counters
  BY DEF IInv, TypeOK, GoodIn, Good
<1>3. /\ new \in Operation /\ new.stage = op.stage /\ new.started = op.started
      /\ new.deadline = op.deadline /\ new.completed = op.completed
      /\ new.charged = op.charged /\ new.error = op.error
      /\ new.scenario = op.scenario /\ new.device = op.device
  BY <1>2 DEF Operation
<1>4. ~Active(op)
  BY DEF Delivered
<1> HIDE DEF new
<1>5. Good(new, now) /\ new.started <= now /\ ~Active(new)
  BY <1>2, <1>3, <1>4 DEF Good, Sound, OnTime, Honours, Active, Rank, InTime
<1>6. GoodIn(operations', now) /\ QuietIn(operations', now)
  BY <1>1, <1>5 DEF IInv, GoodIn, QuietIn, Quiet
<1>7. Open(operations') = Open(operations)
      /\ \A i \in Open(operations) : operations'[i] = operations[i]
  BY <1>1, <1>4, <1>5 DEF Open
<1>8. OneOpenIn(operations') /\ ReadyIn(operations', devices)
  BY <1>7 DEF IInv, OneOpenIn, ReadyIn
<1>9. counters' \in Counters
  <2>1. counters.delivered + 1 \in Nat
    BY <1>2 DEF Counters
  <2> QED
    BY <1>1, <1>2, <2>1 DEF Counters
<1>10. \A i \in DOMAIN operations' :
         operations'[i] \in Operation /\ operations'[i].scenario \in Script
  BY <1>6 DEF GoodIn, Good, Operation, Script
<1>11. TypeOK'
  BY <1>1, <1>9, <1>10 DEF IInv, TypeOK
<1> QED
  BY <1>1, <1>6, <1>8, <1>11 DEF IInv

LEMMA CountedRequest ==
  ASSUME IInv, counters' = [counters EXCEPT !.requests = @ + 1], queue' \in Seq(Script),
         UNCHANGED <<now, generation, devices, operations, serial>>
  PROVE  IInv'
<1>1. counters' \in Counters
  <2>1. counters \in Counters
    BY DEF IInv, TypeOK
  <2>2. counters.requests + 1 \in Nat
    BY <2>1 DEF Counters
  <2> QED
    BY <2>1, <2>2 DEF Counters
<1> QED
  BY <1>1 DEF IInv, TypeOK

\* Every step of the engine preserves the invariant.
LEMMA IInvNext == IInv /\ [Next]_vars => IInv'
<1> SUFFICES ASSUME IInv, [Next]_vars PROVE IInv'
  OBVIOUS
<1>0. /\ queue \in Seq(Script) /\ now \in Nat
      /\ \A i \in DOMAIN queue : queue[i] \in Script
  BY DEF IInv, TypeOK
<1>1. ASSUME NEW s \in Offered, Arm(s) PROVE IInv'
  BY <1>1, EngineAssumption, ArmStep
<1>2. ASSUME NEW d \in DeviceIds, NEW p \in Profiles, SetDevice(d, p) PROVE IInv'
  BY <1>2, EngineAssumption, SetDeviceStep
<1>3. ASSUME NEW d \in DeviceIds, NEW a \in Amounts, NEW m \in Merchants \cup {AnyMerchant},
             RefuseStart(d, a, m)
      PROVE  IInv'
  BY <1>0, <1>3, CountedRequest DEF RefuseStart
<1>4. ASSUME NEW d \in DeviceIds, NEW a \in Amounts, NEW m \in Merchants \cup {AnyMerchant},
             LoseStart(d, a, m)
      PROVE  IInv'
  <2>1. queue' \in Seq(Script)
    BY <1>0, <1>4, ConsumeType DEF LoseStart
  <2> QED
    BY <1>4, <2>1, CountedRequest DEF LoseStart
<1>5. ASSUME NEW d \in DeviceIds, NEW a \in Amounts, NEW m \in Merchants \cup {AnyMerchant},
             Start(d, a, m)
      PROVE  IInv'
  <2>1. PICK i \in DOMAIN queue :
          Begins(d, a, m, i) /\ Consume(i) /\ Admit(queue[i], a)
    BY <1>5 DEF Start
  <2>2. queue' \in Seq(Script)
    BY <1>0, <2>1, ConsumeType
  <2>3. /\ queue[i].device = d /\ queue[i] \in Script
        /\ d \in DOMAIN devices /\ devices[d].online /\ ~devices[d].setupError /\ Idle(d)
    BY <1>0, <2>1 DEF Begins, FirstFor, Admissible
  <2>4. a \in Nat
    BY EngineAssumption
  <2>5. UNCHANGED <<now, generation, devices>>
    BY <1>5 DEF Start
  <2> QED
    BY <2>1, <2>2, <2>3, <2>4, <2>5, AdmitStep
<1>6. ASSUME NEW s \in Offered, NEW a \in Amounts, Standalone(s, a) PROVE IInv'
  BY <1>6, EngineAssumption, StandaloneStep
<1>7. ASSUME NEW delta \in Deltas, Advance(delta) PROVE IInv'
  <2>1. /\ now + delta \in Nat /\ now <= now + delta
    BY <1>0, EngineAssumption
  <2>2. /\ now' = now + delta /\ operations' = Settled(operations, now, now + delta)
        /\ counters' = Tally(counters, operations, operations')
        /\ UNCHANGED <<generation, devices, queue, serial>>
    BY <1>7 DEF Advance
  <2>3. /\ GoodIn(operations, now) /\ OneOpenIn(operations) /\ ReadyIn(operations, devices')
        /\ \A d \in DOMAIN devices : devices'[d] \in DeviceProfile
    BY <2>2 DEF IInv, TypeOK
  <2> QED
    BY <2>1, <2>2, <2>3, ServeStep
<1>8. ASSUME NEW id \in DOMAIN operations, Delivered(id) PROVE IInv'
  BY <1>8, DeliveredStep
<1>9. ASSUME NEW id \in DOMAIN operations, NEW event \in Inputs, Action(id, event) PROVE IInv'
  BY <1>9, ActionStep
<1>10. CASE Reset
  <2>1. DOMAIN operations' = {} /\ queue' \in Seq(Script)
    BY <1>10 DEF Reset
  <2>2. counters' \in Counters
    BY <1>10 DEF Reset, NoCounts, Counters
  <2>3. DOMAIN devices' \subseteq DeviceIds /\ \A d \in DOMAIN devices' : devices'[d] \in DeviceProfile
    BY <1>10, EngineAssumption DEF Reset, DefaultProfile, DeviceProfile
  <2>4. now' \in Nat /\ generation' \in Nat \ {0} /\ serial' \in Nat \ {0}
    BY <1>10 DEF Reset, IInv, TypeOK
  <2>5. TypeOK'
    BY <2>1, <2>2, <2>3, <2>4 DEF TypeOK
  <2> QED
    BY <2>1, <2>5 DEF IInv, GoodIn, QuietIn, OneOpenIn, ReadyIn, Open
<1>11. CASE UNCHANGED vars
  BY <1>11 DEF vars, IInv, TypeOK, GoodIn, QuietIn, OneOpenIn, ReadyIn, Open
<1> QED
  BY <1>1, <1>2, <1>3, <1>4, <1>5, <1>6, <1>7, <1>8, <1>9, <1>10, <1>11 DEF Next

-----------------------------------------------------------------------------
\* The theorems.

\* The invariant holds throughout.
THEOREM Invariance == Spec => []IInv
BY IInvInit, IInvNext, PTL DEF Spec

\* Type correctness: in particular only validated scenarios are ever queued or
\* run, and identifiers are those already issued in this generation.
THEOREM TypeCorrect == Spec => []TypeOK
<1>1. IInv => TypeOK
  BY DEF IInv
<1> QED
  BY <1>1, Invariance, PTL

\* start() and set_device() keep every terminal to one payment at a time.
THEOREM OneAtATime == Spec => []OneOpenPerDevice
<1>1. IInv => OneOpenPerDevice
  BY DEF IInv, OneOpenIn, OneOpenPerDevice
<1> QED
  BY <1>1, Invariance, PTL

\* A payment in progress never outlives its device's readiness or profile.
THEOREM ReadyWhileOpen == Spec => []OpenOnReadyDevice
<1>1. IInv => OpenOnReadyDevice
  BY DEF IInv, ReadyIn, OpenOnReadyDevice
<1> QED
  BY <1>1, Invariance, PTL

\* No handler returns with a step of any payment overdue, however long the
\* clock stood still or jumped: five turns of the loop serve any operation.
THEOREM NeverOverdue == Spec => []NothingOverdue
<1>1. IInv => NothingOverdue
  <2> SUFFICES ASSUME IInv, NEW id \in Open(operations) PROVE Due(operations[id]) > now
    BY DEF NothingOverdue
  <2> QED
    BY DEF IInv, QuietIn, Quiet, Open
<1> QED
  BY <1>1, Invariance, PTL

\* Approvals beat the deadline, timeouts happen exactly at it.
THEOREM DeadlineIsExact == Spec => []DeadlineDecides
<1>1. IInv => DeadlineDecides
  BY DEF IInv, GoodIn, Good, Sound, DeadlineDecides
<1> QED
  BY <1>1, Invariance, PTL

\* No scripted error, and no scripted decline the bank does not override, is
\* ever charged, whatever inputs arrive in whatever stage.
THEOREM ScriptHonoured == Spec => []OutcomeHonoured
<1>1. IInv => OutcomeHonoured
  BY DEF IInv, GoodIn, Good, Sound, OutcomeHonoured
<1> QED
  BY <1>1, Invariance, PTL

-----------------------------------------------------------------------------
\* Finished payments are final.

KeptIn(before, after) ==
  \A id \in DOMAIN before : id \in DOMAIN after /\ Kept(before[id], after[id])

\* Serving all operations finishes some and alters no finished one.
LEMMA SettledKept ==
  ASSUME NEW ops, NEW from \in Nat, NEW to \in Nat, from <= to, GoodIn(ops, from)
  PROVE  KeptIn(ops, Settled(ops, from, to))
<1> DEFINE new == Settled(ops, from, to)
<1>1. /\ DOMAIN new = DOMAIN ops
      /\ \A id \in DOMAIN ops :
           Frame(ops[id], new[id]) /\ (~Active(ops[id]) => new[id] = ops[id])
  BY SettledGood
<1> HIDE DEF new
<1>2. KeptIn(ops, new)
  BY <1>1 DEF KeptIn, Kept, Frame
<1> QED
  BY <1>2 DEF new

LEMMA AdmitKept ==
  ASSUME IInv, NEW s \in Script, NEW amount \in Nat, s.device \in DOMAIN devices, Admit(s, amount)
  PROVE  KeptIn(operations, operations')
<1> DEFINE id  == <<generation, serial>>
           new == Opened(s, devices[s.device].merchant, amount, now)
           ops == Admitted(s, amount)
<1>1. id \notin DOMAIN operations /\ now \in Nat /\ devices[s.device].merchant \in Merchants
  BY DEF IInv, TypeOK, DeviceProfile
<1>2. DOMAIN ops = DOMAIN operations \cup {id} /\ ops[id] = new
      /\ \A i \in DOMAIN operations : ops[i] = operations[i]
  BY <1>1 DEF Admitted
<1>3. Good(new, now) /\ new.started = now
  BY <1>1, OpenedGood DEF Script, Opened
<1>4. operations' = Settled(ops, now, now)
  BY DEF Admit
<1> HIDE DEF ops, id, new
<1>5. GoodIn(ops, now)
  <2>1. GoodIn(operations, now) /\ new.started <= now
    BY <1>1, <1>3 DEF IInv
  <2> QED
    BY <1>2, <1>3, <2>1 DEF GoodIn
<1>6. KeptIn(ops, operations')
  BY <1>1, <1>4, <1>5, SettledKept
<1> QED
  BY <1>2, <1>6 DEF KeptIn

LEMMA ActionKept ==
  ASSUME IInv, NEW id \in DOMAIN operations, NEW event \in Inputs, Action(id, event)
  PROVE  KeptIn(operations, operations')
<1>1. PICK next \in Stages :
        /\ Reacts(operations[id], event, next)
        /\ operations' = Settled(Reacted(id, event, next), now, now)
  BY DEF Action
<1> DEFINE op  == operations[id]
           ops == Reacted(id, event, next)
           new == React(op, event, next, now)
<1>2. now \in Nat /\ GoodIn(operations, now)
  BY DEF IInv, TypeOK
<1>3. DOMAIN ops = DOMAIN operations /\ ops[id] = new
      /\ \A i \in DOMAIN operations \ {id} : ops[i] = operations[i]
  BY DEF Reacted
<1>4. /\ Good(new, now) /\ Frame(op, new) /\ op.started <= now
      /\ Active(op) \/ (op.stage = "approved" /\ new.stage = "reversed")
  BY <1>1, <1>2, ReactGood DEF GoodIn
<1> HIDE DEF ops, new
<1>5. GoodIn(ops, now)
  BY <1>2, <1>3, <1>4 DEF GoodIn, Frame
<1>6. /\ DOMAIN operations' = DOMAIN ops
      /\ \A i \in DOMAIN ops :
           Frame(ops[i], operations'[i]) /\ (~Active(ops[i]) => operations'[i] = ops[i])
  BY <1>1, <1>2, <1>5, SettledGood DEF ops
<1>7. Kept(op, operations'[id])
  <2>1. CASE Active(op)
    BY <1>3, <1>4, <1>6, <2>1 DEF Kept, Frame
  <2>2. CASE ~Active(op)
    <3>1. op.stage = "approved" /\ new.stage = "reversed"
      BY <1>4, <2>2
    <3>2. operations'[id] = new
      BY <1>3, <1>6, <3>1 DEF Active, ActiveStages
    <3> QED
      BY <1>4, <3>1, <3>2 DEF Kept, Frame
  <2> QED
    BY <2>1, <2>2
<1>8. \A i \in DOMAIN operations \ {id} : Kept(operations[i], operations'[i])
  BY <1>3, <1>6 DEF Kept, Frame
<1> QED
  BY <1>3, <1>6, <1>7, <1>8 DEF KeptIn

\* No step of a generation loses an operation or undoes a finished one.
LEMMA StepKeeps ==
  ASSUME IInv, [Next]_vars, generation' = generation
  PROVE  KeptIn(operations, operations')
<1>1. CASE operations' = operations
  BY <1>1 DEF KeptIn, Kept
<1>2. ASSUME NEW d \in DeviceIds, NEW a \in Amounts, NEW m \in Merchants \cup {AnyMerchant},
             Start(d, a, m)
      PROVE  KeptIn(operations, operations')
  <2>1. PICK i \in DOMAIN queue : Begins(d, a, m, i) /\ Admit(queue[i], a)
    BY <1>2 DEF Start
  <2>2. queue[i] \in Script /\ queue[i].device \in DOMAIN devices
    BY <2>1 DEF IInv, TypeOK, Begins, FirstFor, Admissible
  <2> QED
    BY <2>1, <2>2, EngineAssumption, AdmitKept
<1>3. ASSUME NEW s \in Offered, NEW a \in Amounts, Standalone(s, a)
      PROVE  KeptIn(operations, operations')
  <2>1. s \in Script /\ a \in Nat /\ s.device \in DOMAIN devices /\ Admit(s, a)
    BY <1>3, EngineAssumption DEF Standalone, Alone, Admissible, Script
  <2> QED
    BY <2>1, AdmitKept
<1>4. ASSUME NEW delta \in Deltas, Advance(delta) PROVE KeptIn(operations, operations')
  <2>1. now \in Nat /\ now + delta \in Nat /\ now <= now + delta /\ GoodIn(operations, now)
    BY EngineAssumption DEF IInv, TypeOK
  <2>2. operations' = Settled(operations, now, now + delta)
    BY <1>4 DEF Advance
  <2> QED
    BY <2>1, <2>2, SettledKept
<1>5. ASSUME NEW id \in DOMAIN operations, Delivered(id) PROVE KeptIn(operations, operations')
  <2>1. operations[id] \in Operation
    BY DEF IInv, TypeOK
  <2>2. /\ DOMAIN operations' = DOMAIN operations
        /\ operations'[id] = [operations[id] EXCEPT !.delivered = TRUE]
        /\ \A i \in DOMAIN operations \ {id} : operations'[i] = operations[i]
    BY <1>5 DEF Delivered
  <2>3. Kept(operations[id], operations'[id])
    BY <2>1, <2>2 DEF Kept, Operation
  <2>4. \A i \in DOMAIN operations \ {id} : Kept(operations[i], operations'[i])
    BY <2>2 DEF Kept
  <2> QED
    BY <2>2, <2>3, <2>4 DEF KeptIn
<1>6. ASSUME NEW id \in DOMAIN operations, NEW event \in Inputs, Action(id, event)
      PROVE  KeptIn(operations, operations')
  BY <1>6, ActionKept
<1>7. CASE Reset
  BY <1>7 DEF Reset, IInv, TypeOK
<1>8. \A s, d, p, a, m :
        Arm(s) \/ SetDevice(d, p) \/ RefuseStart(d, a, m) \/ LoseStart(d, a, m)
          => operations' = operations
  BY DEF Arm, SetDevice, RefuseStart, LoseStart
<1> QED
  BY <1>1, <1>2, <1>3, <1>4, <1>5, <1>6, <1>7, <1>8 DEF Next, vars

\* Nothing a caller does short of a reset undoes a finished payment, but for
\* the reversal of an approval.
THEOREM Finality == Spec => FinalIsFinal
<1>1. IInv /\ [Next]_vars
        => [generation' = generation =>
              \A id \in DOMAIN operations :
                id \in DOMAIN operations' /\ Kept(operations[id], operations'[id])]_vars
  BY StepKeeps DEF KeptIn
<1> QED
  BY <1>1, Invariance, PTL DEF FinalIsFinal, Spec

-----------------------------------------------------------------------------
\* How the clock's progress is cut into calls does not matter.

\* The operation's next step does not belong before t.
Punctual(op, t) == Active(op) => Due(op) >= t

\* A punctual operation takes its step when it is due, wherever the call began,
\* and is punctual still.
LEMMA TurnPunctual ==
  ASSUME NEW op \in Operation, NEW from \in Nat, NEW to \in Nat, NEW t \in Nat, from <= t,
         Punctual(op, t)
  PROVE  /\ Turn(from, to)[op] = IF Active(op) /\ Due(op) <= to THEN Step(op, Due(op)) ELSE op
         /\ Turn(from, to)[op] \in Operation
         /\ Punctual(Turn(from, to)[op], t)
<1>1. Turn(from, to)[op] = IF Active(op) /\ Due(op) <= to THEN Step(op, Later(Due(op), from)) ELSE op
  BY DEF Turn
<1>2. Due(op) \in Nat /\ op.deadline \in Nat /\ op.stageStarted \in Nat /\ Delay(op) \in Nat
  BY DueType DEF Operation
<1>3. Active(op) => Later(Due(op), from) = Due(op)
  BY <1>2 DEF Later, Punctual
<1>4. Turn(from, to)[op] \in Operation
  BY TurnType
<1>5. CASE Active(op) /\ Due(op) <= to
  <2> DEFINE new == Step(op, Due(op))
  <2>1. new \in Operation /\ Frame(op, new) /\ new.stageStarted = Due(op)
    <3>1. new.stageStarted = Due(op)
      BY TransitionFields DEF Step
    <3> QED
      BY <1>2, <3>1, StepType
  <2>2. Delay(new) \in Nat /\ new.deadline = op.deadline
    BY <2>1, DueType DEF Frame
  <2>3. Due(op) <= op.deadline
    BY <1>2 DEF Due, Sooner
  <2> HIDE DEF new
  <2>4. Due(new) >= Due(op)
    BY <1>2, <2>1, <2>2, <2>3 DEF Due, Sooner
  <2>5. Due(new) \in Nat /\ Due(op) >= t
    BY <1>5, <2>1, DueType DEF Punctual
  <2>6. Punctual(new, t)
    BY <1>2, <2>4, <2>5 DEF Punctual
  <2> QED
    BY <1>1, <1>3, <1>4, <1>5, <2>6 DEF new
<1>6. CASE ~(Active(op) /\ Due(op) <= to)
  BY <1>1, <1>4, <1>6
<1> QED
  BY <1>5, <1>6

\* A turn of the shorter call is a turn of the longer one, or none.
LEMMA TurnShorter ==
  ASSUME NEW op \in Operation, NEW from \in Nat, NEW mid \in Nat, NEW to \in Nat,
         mid <= to, Punctual(op, from)
  PROVE  Turn(from, mid)[op] \in {op, Turn(from, to)[op]}
BY TurnPunctual, DueType

\* Serving up to `mid' and then up to `to' is serving up to `to': the first call
\* runs through some of the steps of the whole, the second through the others.
LEMMA SettleChunks ==
  ASSUME NEW op \in Operation, NEW from \in Nat, NEW mid \in Nat, NEW to \in Nat,
         from <= mid, mid <= to, Punctual(op, from)
  PROVE  Settle(Settle(op, from, mid), mid, to) = Settle(op, from, to)
<1> DEFINE half  == Turn(from, mid)
           rest  == Turn(mid, to)
           whole == Turn(from, to)
           P(x, t) == x \in Operation /\ Punctual(x, t)
<1> HIDE DEF half, rest, whole
<1>1. ASSUME NEW x, P(x, from)
      PROVE  P(whole[x], from) /\ P(half[x], from) /\ half[x] \in {x, whole[x]}
  BY <1>1, TurnPunctual, TurnShorter DEF half, whole
<1>2. ASSUME NEW x, P(x, mid)
      PROVE  P(rest[x], mid) /\ rest[x] = whole[x]
  <2>1. Turn(mid, to)[x] = Turn(from, to)[x] /\ P(Turn(mid, to)[x], mid)
    BY <1>2, TurnPunctual
  <2> QED
    BY <2>1 DEF rest, whole
<1> DEFINE c1 == whole[op]
           c2 == whole[c1]
           c3 == whole[c2]
           c4 == whole[c3]
           c5 == whole[c4]
           m1 == half[op]
           m2 == half[m1]
           m3 == half[m2]
           m4 == half[m3]
           m5 == half[m4]
<1>3. Settle(op, from, to) = c5 /\ Settle(op, from, mid) = m5
  BY DEF Settle, whole, half
<1>4. whole[c5] = c5
  <2>1. c5 \in Operation /\ Quiet(c5, to)
    BY <1>3, SettleType
  <2>2. Due(c5) \in Nat
    BY <2>1, DueType
  <2> HIDE DEF c5
  <2> QED
    BY <2>1, <2>2 DEF whole, Turn, Quiet
<1>5. P(m5, mid)
  <2>1. m5 \in Operation /\ Quiet(m5, mid)
    BY <1>3, SettleType
  <2>2. Due(m5) \in Nat
    BY <2>1, DueType
  <2> HIDE DEF m5
  <2> QED
    BY <2>1, <2>2 DEF Punctual, Quiet
<1> HIDE DEF P
<1>6. P(op, from)
  BY DEF P
<1>7. /\ m1 \in {op, c1} /\ P(c1, from) /\ P(m1, from)
      /\ m2 \in {op, c1, c2} /\ P(c2, from) /\ P(m2, from)
      /\ m3 \in {op, c1, c2, c3} /\ P(c3, from) /\ P(m3, from)
      /\ m4 \in {op, c1, c2, c3, c4} /\ P(c4, from) /\ P(m4, from)
      /\ m5 \in {op, c1, c2, c3, c4, c5}
  <2>1. m1 \in {op, c1} /\ P(c1, from) /\ P(m1, from)
    BY <1>1, <1>6
  <2> HIDE DEF c1, m1
  <2>2. m2 \in {op, c1, c2} /\ P(c2, from) /\ P(m2, from)
    BY <1>1, <2>1 DEF c1
  <2> HIDE DEF c2, m2
  <2>3. m3 \in {op, c1, c2, c3} /\ P(c3, from) /\ P(m3, from)
    BY <1>1, <2>1, <2>2 DEF c1, c2
  <2> HIDE DEF c3, m3
  <2>4. m4 \in {op, c1, c2, c3, c4} /\ P(c4, from) /\ P(m4, from)
    BY <1>1, <2>1, <2>2, <2>3 DEF c1, c2, c3
  <2> HIDE DEF c4, m4
  <2>5. m5 \in {op, c1, c2, c3, c4, c5}
    BY <1>1, <2>1, <2>2, <2>3, <2>4 DEF c1, c2, c3, c4
  <2> QED
    BY <2>1, <2>2, <2>3, <2>4, <2>5
<1>8. whole[whole[whole[whole[whole[m5]]]]] = c5
  BY <1>4, <1>7
<1>9. rest[rest[rest[rest[rest[m5]]]]] = whole[whole[whole[whole[whole[m5]]]]]
  <2> HIDE DEF m5
  <2>1. P(rest[m5], mid) /\ rest[m5] = whole[m5]
    BY <1>2, <1>5
  <2>2. P(rest[rest[m5]], mid) /\ rest[rest[m5]] = whole[whole[m5]]
    BY <1>2, <2>1
  <2>3. P(rest[rest[rest[m5]]], mid) /\ rest[rest[rest[m5]]] = whole[whole[whole[m5]]]
    BY <1>2, <2>2
  <2>4. P(rest[rest[rest[rest[m5]]]], mid)
        /\ rest[rest[rest[rest[m5]]]] = whole[whole[whole[whole[m5]]]]
    BY <1>2, <2>3
  <2> QED
    BY <1>2, <2>4
<1>10. Settle(m5, mid, to) = rest[rest[rest[rest[rest[m5]]]]]
  BY DEF Settle, rest
<1> QED
  BY <1>3, <1>8, <1>9, <1>10

\* A slow tick and a big jump serve every step at its own time: the operations
\* are the same after one call of advance() or after several.
THEOREM ChunksDoNotMatter == Spec => []ChunkIndependent
<1>1. IInv => ChunkIndependent
  <2> SUFFICES ASSUME IInv, NEW a \in Deltas, NEW b \in Deltas
               PROVE  Settled(Settled(operations, now, now + a), now + a, now + a + b)
                        = Settled(operations, now, now + a + b)
    BY DEF ChunkIndependent
  <2>1. /\ now \in Nat /\ now + a \in Nat /\ now + a + b \in Nat
        /\ now <= now + a /\ now + a <= now + a + b
    BY EngineAssumption DEF IInv, TypeOK
  <2> DEFINE m == now + a
             t == m + b
  <2>2. ASSUME NEW id \in DOMAIN operations
        PROVE  Settle(Settle(operations[id], now, m), m, t) = Settle(operations[id], now, t)
    <3>1. operations[id] \in Operation /\ Quiet(operations[id], now)
      BY DEF IInv, GoodIn, Good, QuietIn
    <3>2. Punctual(operations[id], now)
      BY <2>1, <3>1, DueType DEF Quiet, Punctual
    <3> HIDE DEF m, t
    <3>3. m \in Nat /\ t \in Nat /\ now <= m /\ m <= t
      BY <2>1 DEF m, t
    <3> QED
      BY <2>1, <3>1, <3>2, <3>3, SettleChunks
  <2> QED
    BY <2>2 DEF Settled
<1> QED
  BY <1>1, Invariance, PTL

-----------------------------------------------------------------------------
\* What becomes of an operation, as an entry of the book.

Standing(op) == Entry(op).status

\* An open entry gets its outcome, or nothing happens to it.
Closes(op, new) ==
  /\ new.device = op.device
  /\ Standing(new) # Standing(op) => Standing(op) = "open" /\ Standing(new) \in {"charged", "void"}

\* Or a charge is refunded.
Books(op, new) ==
  /\ new.device = op.device
  /\ Standing(new) # Standing(op) =>
       \/ Standing(op) = "open" /\ Standing(new) \in {"charged", "void"}
       \/ Standing(op) = "charged" /\ Standing(new) = "refunded"

\* Approved once; refunded.
Approved(ops) == {id \in DOMAIN ops : Standing(ops[id]) \in {"charged", "refunded"}}
Refunded(ops) == {id \in DOMAIN ops : Standing(ops[id]) = "refunded"}
Handed(ops)   == {id \in DOMAIN ops : ops[id].delivered}

\* The invariant: serials have no gaps, and the counters agree with the book.
CountersAgree ==
  /\ counters.accepted  = serial - 1
  /\ counters.approvals = Cardinality(Approved(operations))
  /\ counters.reversals = Cardinality(Refunded(operations))
  /\ counters.delivered = Cardinality(Handed(operations))
  /\ counters.requests >= counters.accepted

LInv ==
  /\ IInv
  /\ DOMAIN operations = {generation} \X (1 .. serial - 1)
  /\ CountersAgree

LEMMA StatusFacts ==
  ASSUME NEW op \in Operation
  PROVE  /\ Standing(op) \in {"open", "charged", "refunded", "void"}
         /\ Standing(op) = "open" <=> Active(op)
         /\ Standing(op) = "charged" <=> op.stage = "approved"
         /\ Standing(op) = "refunded" <=> op.stage = "reversed"
         /\ Entry(op) = [device |-> op.device, status |-> Standing(op)]
BY DEF Standing, Entry, Active, ActiveStages

\* Time reverses no payment.
LEMMA TurnUnreversed ==
  ASSUME NEW op \in Operation, NEW from \in Nat, NEW to \in Nat, op.stage # "reversed"
  PROVE  Turn(from, to)[op].stage # "reversed"
<1> DEFINE t == Later(Due(op), from)
<1>1. Turn(from, to)[op] = IF Active(op) /\ Due(op) <= to THEN Step(op, t) ELSE op
  BY DEF Turn
<1>2. Step(op, t).stage \in {"timed_out", FaultStage(op.scenario.error), NextStage(op)}
  BY TransitionFields DEF Step
<1>3. FaultStage(op.scenario.error) # "reversed" /\ NextStage(op) # "reversed"
  BY DEF FaultStage, NextStage
<1> QED
  BY <1>1, <1>2, <1>3

LEMMA SettleUnreversed ==
  ASSUME NEW op \in Operation, NEW from \in Nat, NEW to \in Nat, op.stage # "reversed"
  PROVE  Settle(op, from, to).stage # "reversed"
<1> DEFINE turn == Turn(from, to)
           o1 == turn[op]
           o2 == turn[o1]
           o3 == turn[o2]
           o4 == turn[o3]
<1> HIDE DEF turn
<1>1. ASSUME NEW x \in Operation, x.stage # "reversed"
      PROVE  turn[x] \in Operation /\ turn[x].stage # "reversed"
  BY <1>1, TurnType, TurnUnreversed DEF turn
<1>2. o1 \in Operation /\ o1.stage # "reversed"
  BY <1>1
<1> HIDE DEF o1
<1>3. o2 \in Operation /\ o2.stage # "reversed"
  BY <1>1, <1>2
<1> HIDE DEF o2
<1>4. o3 \in Operation /\ o3.stage # "reversed"
  BY <1>1, <1>3
<1> HIDE DEF o3
<1>5. o4 \in Operation /\ o4.stage # "reversed"
  BY <1>1, <1>4
<1> HIDE DEF o4
<1>6. turn[o4].stage # "reversed"
  BY <1>1, <1>5
<1> QED
  BY <1>6 DEF Settle, turn, o1, o2, o3, o4

\* Serving an operation closes it or leaves its entry; if nothing is due, it
\* leaves the operation as it is.
LEMMA SettleCloses ==
  ASSUME NEW op \in Operation, NEW from \in Nat, NEW to \in Nat
  PROVE  /\ Closes(op, Settle(op, from, to))
         /\ Quiet(op, to) => Settle(op, from, to) = op
<1> DEFINE new == Settle(op, from, to)
<1>1. new \in Operation /\ Frame(op, new) /\ (~Active(op) => new = op)
  BY SettleType
<1>2. Active(op) => new.stage # "reversed"
  BY SettleUnreversed DEF Active, ActiveStages
<1>3. Quiet(op, to) => new = op
  <2> DEFINE turn == Turn(from, to)
  <2>1. Quiet(op, to) => turn[op] = op
    BY DueType DEF Turn, Quiet
  <2> HIDE DEF turn
  <2>2. new = turn[turn[turn[turn[turn[op]]]]]
    BY DEF Settle, turn
  <2> QED
    BY <2>1, <2>2
<1> HIDE DEF new
<1>4. Closes(op, new)
  BY <1>1, <1>2, StatusFacts DEF Closes, Frame
<1> QED
  BY <1>3, <1>4 DEF new

\* An input closes an operation, refunds it, or leaves its entry.
LEMMA ReactBooks ==
  ASSUME NEW op, NEW event \in Inputs, NEW next \in Stages, NEW t \in Nat,
         Good(op, t), op.started <= t, Reacts(op, event, next)
  PROVE  Books(op, React(op, event, next, t))
<1> DEFINE new == React(op, event, next, t)
<1>1. /\ Good(new, t) /\ Frame(op, new) /\ op \in Operation /\ new \in Operation
      /\ Active(op) \/ (op.stage = "approved" /\ new.stage = "reversed")
  BY ReactGood DEF Good
<1>2. Active(op) => new.stage # "reversed"
  <2>1. CASE Faulty(op) /\ event \notin {"customer_cancelled", "device_disconnected"}
    <3>1. new = Step(op, t)
      BY <2>1 DEF React
    <3>2. Step(op, t).stage \in {"timed_out", FaultStage(op.scenario.error), NextStage(op)}
      BY <1>1, TransitionFields DEF Step
    <3> QED
      BY <3>1, <3>2 DEF FaultStage, NextStage
  <2>2. CASE ~(Faulty(op) /\ event \notin {"customer_cancelled", "device_disconnected"})
    <3>1. new.stage = next
      BY <1>1, <2>2, TransitionFields DEF React
    <3> QED
      BY <3>1 DEF Reacts, Active, ActiveStages
  <2> QED
    BY <2>1, <2>2
<1> HIDE DEF new
<1>3. Books(op, new)
  BY <1>1, <1>2, StatusFacts DEF Books, Frame, Active, ActiveStages
<1> QED
  BY <1>3 DEF new

-----------------------------------------------------------------------------
\* The counters.

\* Operations as the invariant has them.
Honest(ops) ==
  /\ IsFiniteSet(DOMAIN ops)
  /\ \A id \in DOMAIN ops : ops[id] \in Operation /\ (ops[id].charged <=> ops[id].stage = "approved")

LEMMA GoodHonest ==
  ASSUME NEW ops, NEW t, IsFiniteSet(DOMAIN ops), GoodIn(ops, t)
  PROVE  Honest(ops)
BY DEF Honest, GoodIn, Good, Sound, Honours

\* The parts of a set whose others are elsewhere.
LEMMA Difference ==
  ASSUME NEW S, NEW T, IsFiniteSet(T), S \subseteq T
  PROVE  Cardinality(T) = Cardinality(S) + Cardinality(T \ S)
         /\ Cardinality(S) \in Nat /\ Cardinality(T \ S) \in Nat
<1>1. IsFiniteSet(S) /\ IsFiniteSet(T \ S)
  BY FS_Subset
<1>2. S \cup (T \ S) = T /\ S \cap (T \ S) = {}
  OBVIOUS
<1>3. Cardinality(S \cup (T \ S)) = Cardinality(S) + Cardinality(T \ S) - Cardinality(S \cap (T \ S))
  BY <1>1, FS_Union
<1>4. Cardinality(S) \in Nat /\ Cardinality(T \ S) \in Nat /\ Cardinality({}) = 0
  BY <1>1, FS_CardinalityType, FS_EmptySet
<1>5. Cardinality(S \cup (T \ S)) = Cardinality(T) /\ Cardinality(S \cap (T \ S)) = 0
  BY <1>2, <1>4, Zenon
<1> QED
  BY <1>3, <1>4, <1>5

\* transition()'s counting keeps approvals and reversals in step with the book.
LEMMA TallyAgrees ==
  ASSUME NEW counts \in Counters, NEW before, NEW after, Honest(before), Honest(after),
         DOMAIN after = DOMAIN before,
         \A id \in DOMAIN before : Books(before[id], after[id]),
         counts.approvals = Cardinality(Approved(before)),
         counts.reversals = Cardinality(Refunded(before))
  PROVE  /\ Tally(counts, before, after).approvals = Cardinality(Approved(after))
         /\ Tally(counts, before, after).reversals = Cardinality(Refunded(after))
         /\ Tally(counts, before, after).accepted = counts.accepted
         /\ Tally(counts, before, after).requests = counts.requests
         /\ Tally(counts, before, after).delivered = counts.delivered
<1>1. ASSUME NEW id \in DOMAIN before
      PROVE  /\ before[id] \in Operation /\ after[id] \in Operation
             /\ before[id].charged <=> Standing(before[id]) = "charged"
             /\ after[id].charged <=> Standing(after[id]) = "charged"
             /\ Standing(after[id]) # Standing(before[id]) =>
                  \/ Standing(before[id]) = "open" /\ Standing(after[id]) \in {"charged", "void"}
                  \/ Standing(before[id]) = "charged" /\ Standing(after[id]) = "refunded"
  BY <1>1, StatusFacts DEF Honest, Books
<1>2. Approved(before) \subseteq Approved(after) /\ Refunded(before) \subseteq Refunded(after)
  BY <1>1 DEF Approved, Refunded
<1>3. Approved(after) \ Approved(before) = Charged(after) \ Charged(before)
  BY <1>1 DEF Approved, Charged
<1>4. Refunded(after) \ Refunded(before) = Charged(before) \ Charged(after)
  BY <1>1 DEF Refunded, Charged
<1>5. IsFiniteSet(Approved(after)) /\ IsFiniteSet(Refunded(after))
  <2>1. Approved(after) \subseteq DOMAIN after /\ Refunded(after) \subseteq DOMAIN after
    BY DEF Approved, Refunded
  <2> QED
    BY <2>1, FS_Subset DEF Honest
<1>6. /\ Cardinality(Approved(after))
           = Cardinality(Approved(before)) + Cardinality(Charged(after) \ Charged(before))
      /\ Cardinality(Refunded(after))
           = Cardinality(Refunded(before)) + Cardinality(Charged(before) \ Charged(after))
  BY <1>2, <1>3, <1>4, <1>5, Difference
<1>7. ASSUME NEW a, NEW r
      PROVE  LET sum == [counts EXCEPT !.approvals = @ + a, !.reversals = @ + r] IN
             /\ sum.approvals = counts.approvals + a
             /\ sum.reversals = counts.reversals + r
             /\ sum.accepted = counts.accepted
             /\ sum.requests = counts.requests
             /\ sum.delivered = counts.delivered
  BY DEF Counters
<1> QED
  BY <1>6, <1>7 DEF Tally

\* The identifiers of a generation, counted.
LEMMA IdsCounted ==
  ASSUME NEW g \in Nat, NEW n \in Nat \ {0}
  PROVE  /\ IsFiniteSet({g} \X (1 .. n - 1))
         /\ Cardinality({g} \X (1 .. n - 1)) = n - 1
<1>1. IsFiniteSet({g}) /\ Cardinality({g}) = 1
  BY FS_Singleton
<1>2. n - 1 \in Nat /\ IsFiniteSet(1 .. n - 1) /\ Cardinality(1 .. n - 1) = n - 1
  BY FS_Interval
<1>3. IsFiniteSet({g} \X (1 .. n - 1)) /\ Cardinality({g} \X (1 .. n - 1)) = 1 * (n - 1)
  <2>1. ASSUME NEW S, NEW T, IsFiniteSet(S), IsFiniteSet(T)
        PROVE  IsFiniteSet(S \X T) /\ Cardinality(S \X T) = Cardinality(S) * Cardinality(T)
    BY <2>1, FS_Product
  <2>2. /\ IsFiniteSet({g} \X (1 .. n - 1))
        /\ Cardinality({g} \X (1 .. n - 1)) = Cardinality({g}) * Cardinality(1 .. n - 1)
    BY <1>1, <1>2, <2>1
  <2> QED
    BY <1>1, <1>2, <2>2
<1> QED
  BY <1>2, <1>3

LEMMA LInvInit == Init => LInv
<1> SUFFICES ASSUME Init PROVE LInv
  OBVIOUS
<1>1. IInv
  BY IInvInit
<1>2. DOMAIN operations = {} /\ serial = 1 /\ {generation} \X (1 .. serial - 1) = {}
  BY DEF Init
<1>3. Approved(operations) = {} /\ Refunded(operations) = {} /\ Handed(operations) = {}
  BY <1>2 DEF Approved, Refunded, Handed
<1>4. CountersAgree
  <2>1. /\ Cardinality(Approved(operations)) = 0
        /\ Cardinality(Refunded(operations)) = 0
        /\ Cardinality(Handed(operations)) = 0
    BY <1>3, FS_EmptySet, Zenon
  <2>2. /\ counters.requests = 0 /\ counters.accepted = 0 /\ counters.approvals = 0
        /\ counters.reversals = 0 /\ counters.delivered = 0
    BY DEF Init, NoCounts
  <2> QED
    BY <1>2, <2>1, <2>2 DEF CountersAgree
<1> QED
  BY <1>1, <1>2, <1>4 DEF LInv

LEMMA LInvFacts ==
  ASSUME LInv
  PROVE  /\ now \in Nat /\ generation \in Nat /\ serial \in Nat \ {0}
         /\ counters \in Counters
         /\ IsFiniteSet(DOMAIN operations) /\ Cardinality(DOMAIN operations) = serial - 1
         /\ GoodIn(operations, now) /\ Honest(operations)
         /\ \A id \in DOMAIN operations :
              /\ operations[id] \in Operation
              /\ Good(operations[id], now) /\ Quiet(operations[id], now)
              /\ operations[id].started <= now
<1>1. /\ now \in Nat /\ generation \in Nat /\ serial \in Nat \ {0} /\ counters \in Counters
      /\ GoodIn(operations, now) /\ QuietIn(operations, now)
      /\ DOMAIN operations = {generation} \X (1 .. serial - 1)
  BY DEF LInv, IInv, TypeOK
<1>2. IsFiniteSet(DOMAIN operations) /\ Cardinality(DOMAIN operations) = serial - 1
  BY <1>1, IdsCounted
<1>3. Honest(operations)
  BY <1>1, <1>2, GoodHonest
<1> QED
  BY <1>1, <1>2, <1>3 DEF GoodIn, QuietIn, Good

\* What admitting a payment does to the operations: it adds one, and alters no
\* other, since nothing of theirs is due.
LEMMA AdmitAdds ==
  ASSUME LInv, NEW s \in Script, NEW amount \in Nat, s.device \in DOMAIN devices, Admit(s, amount)
  PROVE  LET id  == <<generation, serial>>
             ops == Admitted(s, amount)
         IN  /\ id \notin DOMAIN operations
             /\ DOMAIN ops = DOMAIN operations \cup {id} /\ GoodIn(ops, now)
             /\ \A i \in DOMAIN operations : ops[i] = operations[i]
             /\ ops[id].device = s.device /\ Active(ops[id]) /\ ~ops[id].delivered
             /\ DOMAIN operations' = DOMAIN ops
             /\ \A i \in DOMAIN operations : operations'[i] = operations[i]
             /\ Closes(ops[id], operations'[id]) /\ Frame(ops[id], operations'[id])
             /\ operations'[id] \in Operation /\ ops[id] \in Operation
             /\ GoodIn(operations', now)
<1> DEFINE id  == <<generation, serial>>
           ops == Admitted(s, amount)
           new == Opened(s, devices[s.device].merchant, amount, now)
<1>1. /\ now \in Nat /\ generation \in Nat /\ serial \in Nat /\ GoodIn(operations, now)
      /\ DOMAIN operations = {generation} \X (1 .. serial - 1)
      /\ devices[s.device].merchant \in Merchants
      /\ \A i \in DOMAIN operations : operations[i] \in Operation /\ Quiet(operations[i], now)
  BY LInvFacts DEF LInv, IInv, TypeOK, DeviceProfile
<1>2. id \notin DOMAIN operations
  BY <1>1
<1>3. DOMAIN ops = DOMAIN operations \cup {id} /\ ops[id] = new
      /\ \A i \in DOMAIN operations : ops[i] = operations[i]
  BY <1>2 DEF Admitted
<1>4. /\ Good(new, now) /\ new.started = now /\ Active(new) /\ new.device = s.device
      /\ ~new.delivered
  BY <1>1, OpenedGood DEF Script, Opened
<1>5. operations' = Settled(ops, now, now)
  BY DEF Admit
<1>6. new.started <= now
  BY <1>1, <1>4
<1> HIDE DEF ops, id, new
<1>7. GoodIn(ops, now)
  BY <1>1, <1>3, <1>4, <1>6 DEF GoodIn
<1>8. /\ DOMAIN operations' = DOMAIN ops
      /\ \A i \in DOMAIN ops : operations'[i] = Settle(ops[i], now, now)
  BY <1>5 DEF Settled
<1>9. GoodIn(operations', now) /\ Frame(ops[id], operations'[id])
  BY <1>1, <1>3, <1>5, <1>7, SettledGood
<1>10. \A i \in DOMAIN operations : operations'[i] = operations[i]
  BY <1>1, <1>3, <1>8, SettleCloses
<1>11. new \in Operation /\ operations'[id] \in Operation
  BY <1>3, <1>4, <1>8, <1>9 DEF Good, GoodIn
<1>12. Closes(ops[id], operations'[id])
  BY <1>1, <1>3, <1>8, <1>11, SettleCloses
<1> QED
  BY <1>2, <1>3, <1>4, <1>7, <1>8, <1>9, <1>10, <1>11, <1>12 DEF ops, id

\* What an input does to the operations: it books the one it is for, and alters
\* no other.
LEMMA ActionBooks ==
  ASSUME LInv, NEW id \in DOMAIN operations, NEW event \in Inputs, Action(id, event)
  PROVE  /\ DOMAIN operations' = DOMAIN operations
         /\ \A i \in DOMAIN operations \ {id} : operations'[i] = operations[i]
         /\ operations'[id] \in Operation
         /\ Books(operations[id], operations'[id])
         /\ Frame(operations[id], operations'[id])
<1>1. PICK next \in Stages :
        /\ Reacts(operations[id], event, next)
        /\ operations' = Settled(Reacted(id, event, next), now, now)
  BY DEF Action
<1> DEFINE ops == Reacted(id, event, next)
           op  == operations[id]
           new == React(op, event, next, now)
           last == Settle(new, now, now)
<1>2. now \in Nat /\ \A i \in DOMAIN operations :
        /\ operations[i] \in Operation /\ Good(operations[i], now) /\ Quiet(operations[i], now)
        /\ operations[i].started <= now
  BY LInvFacts
<1>3. DOMAIN ops = DOMAIN operations /\ ops[id] = new
      /\ \A i \in DOMAIN operations \ {id} : ops[i] = operations[i]
  BY DEF Reacted
<1>4. DOMAIN operations' = DOMAIN ops /\ \A i \in DOMAIN ops : operations'[i] = Settle(ops[i], now, now)
  BY <1>1 DEF Settled
<1>5. new \in Operation /\ Frame(op, new) /\ Books(op, new)
  BY <1>1, <1>2, ReactGood, ReactBooks DEF Good
<1> HIDE DEF ops, new
<1>6. last \in Operation /\ Frame(new, last) /\ Closes(new, last)
  BY <1>2, <1>5, SettleType, SettleCloses
<1>7. operations'[id] = last
  BY <1>3, <1>4
<1> HIDE DEF last
<1>8. Books(op, last) /\ Frame(op, last)
  BY <1>5, <1>6 DEF Books, Closes, Frame
<1>9. \A i \in DOMAIN operations \ {id} : operations'[i] = operations[i]
  BY <1>2, <1>3, <1>4, SettleCloses
<1> QED
  BY <1>3, <1>4, <1>6, <1>7, <1>8, <1>9

\* What time does.
LEMMA AdvanceCloses ==
  ASSUME LInv, NEW delta \in Deltas, Advance(delta)
  PROVE  /\ DOMAIN operations' = DOMAIN operations
         /\ \A i \in DOMAIN operations :
              /\ operations'[i] \in Operation
              /\ Closes(operations[i], operations'[i])
              /\ Frame(operations[i], operations'[i])
<1>1. now \in Nat /\ now + delta \in Nat /\ \A i \in DOMAIN operations : operations[i] \in Operation
  BY LInvFacts, EngineAssumption
<1>2. /\ DOMAIN operations' = DOMAIN operations
      /\ \A i \in DOMAIN operations : operations'[i] = Settle(operations[i], now, now + delta)
  BY DEF Advance, Settled
<1> DEFINE to == now + delta
<1> HIDE DEF to
<1>3. ASSUME NEW i \in DOMAIN operations
      PROVE  LET last == Settle(operations[i], now, to) IN
             last \in Operation /\ Closes(operations[i], last) /\ Frame(operations[i], last)
  BY <1>1, SettleType, SettleCloses DEF to
<1> QED
  BY <1>2, <1>3 DEF to

\* Booking some operations and tallying them keeps the counters right.
LEMMA BooksAgree ==
  ASSUME counters \in Counters, Honest(operations), Honest(operations'), CountersAgree,
         DOMAIN operations' = DOMAIN operations, UNCHANGED serial,
         \A id \in DOMAIN operations : /\ Books(operations[id], operations'[id])
                                       /\ operations'[id].delivered = operations[id].delivered,
         counters' = Tally(counters, operations, operations')
  PROVE  CountersAgree'
<1>1. /\ counters'.approvals = Cardinality(Approved(operations'))
      /\ counters'.reversals = Cardinality(Refunded(operations'))
      /\ counters'.accepted = counters.accepted
      /\ counters'.requests = counters.requests
      /\ counters'.delivered = counters.delivered
  BY TallyAgrees DEF CountersAgree
<1>2. Handed(operations') = Handed(operations)
  BY DEF Handed
<1> QED
  BY <1>1, <1>2 DEF CountersAgree

LEMMA BooksStep ==
  ASSUME LInv, IInv', DOMAIN operations' = DOMAIN operations, UNCHANGED <<generation, serial>>,
         \A id \in DOMAIN operations : /\ Books(operations[id], operations'[id])
                                       /\ operations'[id].delivered = operations[id].delivered,
         counters' = Tally(counters, operations, operations')
  PROVE  LInv'
<1>1. counters \in Counters /\ Honest(operations) /\ CountersAgree
  BY LInvFacts DEF LInv
<1>2. GoodIn(operations', now') /\ IsFiniteSet(DOMAIN operations')
  BY LInvFacts DEF IInv
<1>3. Honest(operations')
  BY <1>2, GoodHonest
<1>4. CountersAgree'
  BY <1>1, <1>3, BooksAgree
<1> QED
  BY <1>4 DEF LInv

LEMMA AdmitCounts ==
  ASSUME LInv, IInv', NEW s \in Script, NEW amount \in Nat, s.device \in DOMAIN devices,
         Admit(s, amount), UNCHANGED generation
  PROVE  LInv'
<1> DEFINE id  == <<generation, serial>>
           ops == Admitted(s, amount)
<1>1. /\ counters \in Counters /\ CountersAgree /\ serial \in Nat \ {0} /\ generation \in Nat
      /\ DOMAIN operations = {generation} \X (1 .. serial - 1)
      /\ Honest(operations)
  BY LInvFacts DEF LInv
<1>2. /\ id \notin DOMAIN operations
      /\ DOMAIN ops = DOMAIN operations \cup {id} /\ GoodIn(ops, now)
      /\ \A i \in DOMAIN operations : ops[i] = operations[i]
      /\ Active(ops[id]) /\ ~ops[id].delivered
      /\ DOMAIN operations' = DOMAIN ops
      /\ \A i \in DOMAIN operations : operations'[i] = operations[i]
      /\ Closes(ops[id], operations'[id]) /\ Frame(ops[id], operations'[id])
      /\ operations'[id] \in Operation /\ ops[id] \in Operation
      /\ GoodIn(operations', now)
  BY AdmitAdds
<1>3. serial' = serial + 1 /\ counters' = Tally(CountAccepted, ops, operations')
  BY DEF Admit
<1> HIDE DEF ops
<1>4. DOMAIN operations' = {generation'} \X (1 .. serial' - 1)
  <2>1. 1 .. serial' - 1 = (1 .. serial - 1) \cup {serial}
    BY <1>1, <1>3
  <2> QED
    BY <1>1, <1>2, <2>1
<1> HIDE DEF id
<1>5. IsFiniteSet(DOMAIN ops)
  <2>1. IsFiniteSet(DOMAIN operations \cup {id})
    BY LInvFacts, FS_AddElement
  <2> QED
    BY <1>2, <2>1
<1>6. Honest(ops) /\ Honest(operations')
  BY <1>2, <1>5, GoodHonest
<1>7. Standing(ops[id]) = "open"
  BY <1>2, StatusFacts
<1>8. Approved(ops) = Approved(operations) /\ Refunded(ops) = Refunded(operations)
  BY <1>2, <1>7 DEF Approved, Refunded
<1>9. Handed(operations') = Handed(operations)
  BY <1>2 DEF Handed, Frame
<1>10. /\ CountAccepted \in Counters
       /\ CountAccepted.requests = counters.requests + 1
       /\ CountAccepted.accepted = counters.accepted + 1
       /\ CountAccepted.approvals = counters.approvals
       /\ CountAccepted.reversals = counters.reversals
       /\ CountAccepted.delivered = counters.delivered
  <2>1. counters.requests + 1 \in Nat /\ counters.accepted + 1 \in Nat
    BY <1>1 DEF Counters
  <2> QED
    BY <1>1, <2>1 DEF CountAccepted, Counters
<1>11. \A i \in DOMAIN ops : Books(ops[i], operations'[i])
  BY <1>2 DEF Books, Closes
<1>12. /\ CountAccepted.approvals = Cardinality(Approved(ops))
       /\ CountAccepted.reversals = Cardinality(Refunded(ops))
  BY <1>1, <1>8, <1>10 DEF CountersAgree
<1> HIDE DEF CountAccepted
<1>13. /\ counters'.approvals = Cardinality(Approved(operations'))
       /\ counters'.reversals = Cardinality(Refunded(operations'))
       /\ counters'.accepted = CountAccepted.accepted
       /\ counters'.requests = CountAccepted.requests
       /\ counters'.delivered = CountAccepted.delivered
  BY <1>2, <1>3, <1>6, <1>10, <1>11, <1>12, TallyAgrees
<1>14. CountersAgree'
  <2>1. counters.requests \in Nat /\ counters.accepted \in Nat
    BY <1>1 DEF Counters
  <2> QED
    BY <1>1, <1>3, <1>9, <1>10, <1>13, <2>1 DEF CountersAgree
<1> QED
  BY <1>4, <1>14 DEF LInv

\* A refused request, or one whose link breaks, is only counted.
LEMMA RequestCounts ==
  ASSUME LInv, IInv', counters' = [counters EXCEPT !.requests = @ + 1],
         UNCHANGED <<generation, operations, serial>>
  PROVE  LInv'
<1>1. counters \in Counters /\ counters.requests \in Nat /\ counters.accepted \in Nat
  BY LInvFacts DEF Counters
<1>2. /\ counters'.requests = counters.requests + 1 /\ counters'.accepted = counters.accepted
      /\ counters'.approvals = counters.approvals /\ counters'.reversals = counters.reversals
      /\ counters'.delivered = counters.delivered
  BY <1>1 DEF Counters
<1>3. CountersAgree'
  BY <1>1, <1>2 DEF LInv, CountersAgree
<1> QED
  BY <1>3 DEF LInv

LEMMA DeliveredCounts ==
  ASSUME LInv, IInv', NEW id \in DOMAIN operations, Delivered(id)
  PROVE  LInv'
<1>1. /\ DOMAIN operations' = DOMAIN operations
      /\ operations'[id] = [operations[id] EXCEPT !.delivered = TRUE]
      /\ \A i \in DOMAIN operations \ {id} : operations'[i] = operations[i]
      /\ counters' = [counters EXCEPT !.delivered = counters.delivered + 1]
      /\ ~operations[id].delivered
      /\ UNCHANGED <<generation, serial>>
  BY DEF Delivered
<1>2. operations[id] \in Operation /\ counters \in Counters /\ IsFiniteSet(DOMAIN operations)
  BY LInvFacts
<1>3. Entry(operations'[id]) = Entry(operations[id]) /\ operations'[id].delivered
  BY <1>1, <1>2 DEF Entry, Active, Operation
<1>4. Approved(operations') = Approved(operations) /\ Refunded(operations') = Refunded(operations)
  <2>1. \A i \in DOMAIN operations : Standing(operations'[i]) = Standing(operations[i])
    BY <1>1, <1>3, Zenon DEF Standing
  <2> QED
    BY <1>1, <2>1 DEF Approved, Refunded
<1>5. Handed(operations') = Handed(operations) \cup {id} /\ id \notin Handed(operations)
  BY <1>1, <1>3 DEF Handed
<1>6. Cardinality(Handed(operations) \cup {id}) = Cardinality(Handed(operations)) + 1
  <2>1. Handed(operations) \subseteq DOMAIN operations
    BY DEF Handed
  <2>2. IsFiniteSet(Handed(operations))
    BY <1>2, <2>1, FS_Subset
  <2> QED
    BY <1>5, <2>2, FS_AddElement
<1>7. /\ counters'.delivered = counters.delivered + 1
      /\ counters'.requests = counters.requests /\ counters'.accepted = counters.accepted
      /\ counters'.approvals = counters.approvals /\ counters'.reversals = counters.reversals
  BY <1>1, <1>2 DEF Counters
<1>8. CountersAgree'
  BY <1>1, <1>4, <1>5, <1>6, <1>7 DEF LInv, CountersAgree
<1> QED
  BY <1>1, <1>8 DEF LInv

LEMMA ResetCounts ==
  ASSUME IInv', Reset
  PROVE  LInv'
<1>1. DOMAIN operations' = {} /\ serial' = 1 /\ {generation'} \X (1 .. serial' - 1) = {}
  BY DEF Reset
<1>2. Approved(operations') = {} /\ Refunded(operations') = {} /\ Handed(operations') = {}
  BY <1>1 DEF Approved, Refunded, Handed
<1>3. /\ Cardinality(Approved(operations')) = 0
      /\ Cardinality(Refunded(operations')) = 0
      /\ Cardinality(Handed(operations')) = 0
  BY <1>2, FS_EmptySet, Zenon
<1>4. /\ counters'.requests = 0 /\ counters'.accepted = 0 /\ counters'.approvals = 0
      /\ counters'.reversals = 0 /\ counters'.delivered = 0
  BY DEF Reset, NoCounts
<1>5. CountersAgree'
  BY <1>1, <1>3, <1>4 DEF CountersAgree
<1> QED
  BY <1>1, <1>5 DEF LInv

\* What a started payment is: a script, a legal amount, an idle device.
LEMMA StartAdmits ==
  ASSUME IInv, NEW d \in DeviceIds, NEW a \in Amounts, NEW m \in Merchants \cup {AnyMerchant},
         Start(d, a, m)
  PROVE  \E s \in Script : /\ s.device = d /\ d \in DOMAIN devices /\ Idle(d)
                           /\ a \in Nat /\ Admit(s, a) /\ UNCHANGED generation
<1>1. PICK i \in DOMAIN queue : Begins(d, a, m, i) /\ Admit(queue[i], a)
  BY DEF Start
<1>2. queue[i] \in Script /\ a \in Nat
  BY EngineAssumption DEF IInv, TypeOK
<1> QED
  BY <1>1, <1>2 DEF Begins, FirstFor, Admissible, Start

LEMMA StandaloneAdmits ==
  ASSUME NEW s \in Scenario, NEW a \in Nat, Standalone(s, a)
  PROVE  /\ s \in Script /\ s.device \in DOMAIN devices /\ Idle(s.device)
         /\ Admit(s, a) /\ UNCHANGED <<now, generation>>
BY DEF Standalone, Alone, Admissible, Script

\* Arming and configuring count nothing.
LEMMA SetupCounts ==
  ASSUME LInv, IInv', NEW s, NEW d, NEW p, Arm(s) \/ SetDevice(d, p)
  PROVE  LInv' /\ UNCHANGED <<now, generation, operations, serial>>
<1>1. UNCHANGED <<now, generation, operations, counters, serial>>
  BY DEF Arm, SetDevice
<1> QED
  BY <1>1 DEF LInv, CountersAgree, Approved, Refunded, Handed

LEMMA LInvNext == LInv /\ [Next]_vars => LInv'
<1> SUFFICES ASSUME LInv, [Next]_vars PROVE LInv'
  OBVIOUS
<1>0. IInv /\ IInv'
  BY IInvNext DEF LInv
<1>1. ASSUME NEW s, NEW d, NEW p, Arm(s) \/ SetDevice(d, p)
      PROVE  LInv'
  BY <1>0, <1>1, SetupCounts
<1>9. CASE UNCHANGED vars
  BY <1>0, <1>9 DEF vars, LInv, CountersAgree, Approved, Refunded, Handed
<1>2. ASSUME NEW d, NEW a, NEW m, RefuseStart(d, a, m) \/ LoseStart(d, a, m)
      PROVE  LInv'
  <2>1. /\ counters' = [counters EXCEPT !.requests = @ + 1]
        /\ UNCHANGED <<generation, operations, serial>>
    BY <1>2 DEF RefuseStart, LoseStart
  <2> QED
    BY <1>0, <2>1, RequestCounts
<1>3. ASSUME NEW d \in DeviceIds, NEW a \in Amounts, NEW m \in Merchants \cup {AnyMerchant},
             Start(d, a, m)
      PROVE  LInv'
  BY <1>0, <1>3, StartAdmits, AdmitCounts
<1>4. ASSUME NEW s \in Offered, NEW a \in Amounts, Standalone(s, a) PROVE LInv'
  BY <1>0, <1>4, EngineAssumption, StandaloneAdmits, AdmitCounts
<1>5. ASSUME NEW delta \in Deltas, Advance(delta) PROVE LInv'
  <2>1. counters' = Tally(counters, operations, operations') /\ UNCHANGED <<generation, serial>>
    BY <1>5 DEF Advance
  <2>2. /\ DOMAIN operations' = DOMAIN operations
        /\ \A i \in DOMAIN operations : /\ Books(operations[i], operations'[i])
                                        /\ operations'[i].delivered = operations[i].delivered
    BY <1>5, AdvanceCloses DEF Closes, Books, Frame
  <2> QED
    BY <1>0, <2>1, <2>2, BooksStep
<1>6. ASSUME NEW id \in DOMAIN operations, NEW event \in Inputs, Action(id, event) PROVE LInv'
  <2>1. counters' = Tally(counters, operations, operations') /\ UNCHANGED <<generation, serial>>
    BY <1>6 DEF Action
  <2>2. /\ DOMAIN operations' = DOMAIN operations
        /\ \A i \in DOMAIN operations : /\ Books(operations[i], operations'[i])
                                        /\ operations'[i].delivered = operations[i].delivered
    BY <1>6, ActionBooks DEF Books, Frame
  <2> QED
    BY <1>0, <2>1, <2>2, BooksStep
<1>7. ASSUME NEW id \in DOMAIN operations, Delivered(id) PROVE LInv'
  BY <1>0, <1>7, DeliveredCounts
<1>8. CASE Reset
  BY <1>0, <1>8, ResetCounts
<1> QED
  BY <1>1, <1>2, <1>3, <1>4, <1>5, <1>6, <1>7, <1>8, <1>9 DEF Next

\* The invariant holds throughout.
THEOREM LedgerInvariance == Spec => []LInv
BY LInvInit, LInvNext, PTL DEF Spec

\* That the counters agree with the operations, as the runs state it.
LEMMA AgreeAccounts ==
  ASSUME generation \in Nat, serial \in Nat \ {0},
         DOMAIN operations = {generation} \X (1 .. serial - 1),
         \A id \in DOMAIN operations : operations[id] \in Operation, CountersAgree
  PROVE  Accounting
<1>1. /\ Approved(operations) = InStage({"approved", "reversed"})
      /\ Refunded(operations) = InStage({"reversed"})
  BY StatusFacts DEF Approved, Refunded, InStage
<1>2. Cardinality(DOMAIN operations) = serial - 1
  BY IdsCounted
<1> QED
  BY <1>1, <1>2 DEF CountersAgree, Handed, Accounting

\* The counters that the control plane shows agree with the operations that it
\* shows next to them, after any history of calls: a payment is counted when it
\* is admitted, when it is approved, when it is refunded and when its reply was
\* delivered, once each.
THEOREM BooksBalance == Spec => []Accounting
<1>1. LInv => Accounting
  BY LInvFacts, AgreeAccounts DEF LInv
<1> QED
  BY <1>1, LedgerInvariance, PTL

-----------------------------------------------------------------------------
\* The engine implements the ledger.

Entries == [id \in DOMAIN operations |-> Entry(operations[id])]

\* The ledger's number for its next entry is the engine's next_operation.
LEMMA NextEntry ==
  ASSUME Cardinality(DOMAIN operations) = serial - 1, serial \in Nat
  PROVE  Book!NextId = <<generation, serial>>
<1>1. DOMAIN Entries = DOMAIN operations
  BY DEF Entries
<1>2. Book!Cardinality(DOMAIN Entries) = Cardinality(DOMAIN operations)
  BY <1>1 DEF Book!Cardinality, Cardinality
<1> QED
  BY <1>2 DEF Book!NextId, Entries

\* A payment that is added for an idle device, open or finished, is entered.
LEMMA AddEnters ==
  ASSUME Cardinality(DOMAIN operations) = serial - 1, serial \in Nat,
         \A i \in DOMAIN operations : operations[i] \in Operation,
         NEW d, Idle(d), NEW id, id = <<generation, serial>>,
         DOMAIN operations' = DOMAIN operations \cup {id}, id \notin DOMAIN operations,
         \A i \in DOMAIN operations : operations'[i] = operations[i],
         operations'[id] \in Operation, operations'[id].device = d,
         Standing(operations'[id]) \in {"open", "charged", "void"}, UNCHANGED generation
  PROVE  \E status \in Book!Status : Book!Enter(d, status)
<1> DEFINE status == Standing(operations'[id])
<1>1. Entry(operations'[id]) = [device |-> d, status |-> status]
  BY StatusFacts
<1>2. \A i \in DOMAIN operations : operations[i].device = d => Entry(operations[i]).status # "open"
  <2>1. \A i \in DOMAIN operations : operations[i].device = d => ~Active(operations[i])
    BY DEF Idle, Open
  <2> QED
    BY <2>1, StatusFacts DEF Standing
<1> HIDE DEF status
<1>3. Book!Vacant(d)
  <2>1. \A i \in DOMAIN operations : Entry(operations[i]).device = operations[i].device
    BY DEF Entry
  <2> QED
    BY <1>2, <2>1 DEF Book!Vacant
<1>4. Book!NextId = id
  BY NextEntry
<1>5. Entries' = [i \in DOMAIN Entries \cup {id} |->
                    IF i = id THEN [device |-> d, status |-> status] ELSE Entries[i]]
  BY <1>1 DEF Entries
<1>6. status \in {"open", "charged", "void"}
  BY DEF status
<1>7. Book!Enter(d, status)
  BY <1>3, <1>4, <1>5, <1>6 DEF Book!Enter, Book!Outcome, Entries
<1> QED
  BY <1>6, <1>7 DEF Book!Status, Book!Outcome

LEMMA AdmitEnters ==
  ASSUME LInv, NEW s \in Script, NEW amount \in Nat, s.device \in DOMAIN devices,
         Idle(s.device), Admit(s, amount), UNCHANGED generation
  PROVE  \E status \in Book!Status : Book!Enter(s.device, status)
<1> DEFINE id  == <<generation, serial>>
           ops == Admitted(s, amount)
<1>1. /\ id \notin DOMAIN operations
      /\ DOMAIN operations' = DOMAIN operations \cup {id}
      /\ \A i \in DOMAIN operations : operations'[i] = operations[i]
      /\ ops[id].device = s.device /\ Active(ops[id]) /\ ops[id] \in Operation
      /\ Closes(ops[id], operations'[id]) /\ operations'[id] \in Operation
  BY AdmitAdds
<1> HIDE DEF ops
<1>2. /\ Standing(operations'[id]) \in {"open", "charged", "void"}
      /\ operations'[id].device = s.device
  BY <1>1, StatusFacts DEF Closes
<1> QED
  BY <1>1, <1>2, LInvFacts, AddEnters

\* Booking one operation closes its entry, refunds it, or leaves it.
LEMMA BookOne ==
  ASSUME NEW id \in DOMAIN operations, DOMAIN operations' = DOMAIN operations,
         \A i \in DOMAIN operations \ {id} : operations'[i] = operations[i],
         operations[id] \in Operation, operations'[id] \in Operation,
         Books(operations[id], operations'[id]), UNCHANGED generation
  PROVE  [Book!LedgerNext]_(Book!ledgerVars)
<1> DEFINE op  == operations[id]
           new == operations'[id]
<1>1. /\ DOMAIN Entries = DOMAIN operations /\ DOMAIN Entries' = DOMAIN operations
      /\ Entries[id] = [device |-> op.device, status |-> Standing(op)]
      /\ Entries'[id] = [device |-> op.device, status |-> Standing(new)]
      /\ \A i \in DOMAIN Entries \ {id} : Entries'[i] = Entries[i]
  BY StatusFacts DEF Entries, Books
<1>2. \/ Standing(new) = Standing(op)
      \/ Standing(op) = "open" /\ Standing(new) \in {"charged", "void"}
      \/ Standing(op) = "charged" /\ Standing(new) = "refunded"
  BY DEF Books
<1> HIDE DEF op, new
<1>3. Entries' = [Entries EXCEPT ![id].status = Standing(new)]
  <2>1. Entries' = [i \in DOMAIN Entries |-> Entries'[i]]
    BY DEF Entries
  <2>2. [Entries[id] EXCEPT !.status = Standing(new)] = Entries'[id]
    BY <1>1
  <2>3. Entries = [i \in DOMAIN Entries |-> Entries[i]]
    BY DEF Entries
  <2> QED
    BY <1>1, <2>1, <2>2, <2>3
<1>4. CASE Standing(new) = Standing(op)
  <2>1. Entries' = Entries
    <3>1. Entries' = [i \in DOMAIN operations |-> Entries'[i]]
      BY DEF Entries
    <3>2. Entries = [i \in DOMAIN operations |-> Entries[i]]
      BY DEF Entries
    <3> QED
      BY <1>1, <1>4, <3>1, <3>2
  <2> QED
    BY <2>1 DEF Book!ledgerVars, Entries
<1>5. CASE Standing(op) = "open" /\ Standing(new) \in {"charged", "void"}
  <2>1. Book!Close(id, Standing(new))
    BY <1>1, <1>3, <1>5 DEF Book!Close, Book!Outcome, Entries
  <2> QED
    BY <1>1, <1>5, <2>1 DEF Book!LedgerNext, Book!Outcome, Entries
<1>6. CASE Standing(op) = "charged" /\ Standing(new) = "refunded"
  <2>1. Book!Refund(id)
    BY <1>1, <1>3, <1>6 DEF Book!Refund, Entries
  <2> QED
    BY <1>1, <2>1 DEF Book!LedgerNext, Entries
<1> QED
  BY <1>2, <1>4, <1>5, <1>6

LEMMA ActionBooksEntry ==
  ASSUME LInv, NEW id \in DOMAIN operations, NEW event \in Inputs, Action(id, event)
  PROVE  [Book!LedgerNext]_(Book!ledgerVars)
BY ActionBooks, LInvFacts, BookOne DEF Action

LEMMA AdvanceSettles ==
  ASSUME LInv, NEW delta \in Deltas, Advance(delta)
  PROVE  Book!Settlement
<1>1. /\ DOMAIN operations' = DOMAIN operations
      /\ \A i \in DOMAIN operations :
           /\ operations[i] \in Operation /\ operations'[i] \in Operation
           /\ Closes(operations[i], operations'[i])
      /\ UNCHANGED generation
  BY AdvanceCloses, LInvFacts DEF Advance
<1>2. DOMAIN Entries = DOMAIN operations /\ DOMAIN Entries' = DOMAIN operations
  BY <1>1 DEF Entries
<1>3. ASSUME NEW i \in DOMAIN operations
      PROVE  \/ Entries'[i] = Entries[i]
             \/ /\ Entries[i].status = "open"
                /\ \E status \in {"charged", "void"} : Entries'[i] = [Entries[i] EXCEPT !.status = status]
  <2>1. /\ Entries[i] = [device |-> operations[i].device, status |-> Standing(operations[i])]
        /\ Entries'[i] = [device |-> operations[i].device, status |-> Standing(operations'[i])]
    BY <1>1, StatusFacts DEF Entries, Closes
  <2> QED
    BY <1>1, <2>1 DEF Closes
<1> QED
  BY <1>1, <1>2, <1>3 DEF Book!Settlement, Book!Outcome, Entries

\* The engine begins with an empty book.
LEMMA LedgerStart ==
  ASSUME Init
  PROVE  Book!LedgerInit
<1>1. Entries = << >>
  BY DEF Init, Entries
<1> QED
  BY <1>1 DEF Init, Book!LedgerInit, Entries

\* Every operation of the engine is one of the ledger's, or none.
LEMMA LedgerStep ==
  ASSUME LInv, [Next]_vars
  PROVE  [Book!LedgerNext]_(Book!ledgerVars)
<1>0. IInv
  BY DEF LInv
<1>1. ASSUME NEW s, NEW d, NEW p, NEW a, NEW m,
             Arm(s) \/ SetDevice(d, p) \/ UNCHANGED vars \/ RefuseStart(d, a, m) \/ LoseStart(d, a, m)
      PROVE  UNCHANGED (Book!ledgerVars)
  BY <1>1 DEF Arm, SetDevice, vars, RefuseStart, LoseStart, Book!ledgerVars
<1>2. ASSUME NEW d \in DeviceIds, NEW a \in Amounts, NEW m \in Merchants \cup {AnyMerchant},
             Start(d, a, m)
      PROVE  Book!LedgerNext
  BY <1>0, <1>2, StartAdmits, AdmitEnters DEF Book!LedgerNext
<1>3. ASSUME NEW s \in Offered, NEW a \in Amounts, Standalone(s, a) PROVE Book!LedgerNext
  <2>1. s \in Scenario /\ a \in Nat /\ s.device \in DeviceIds
    BY EngineAssumption DEF Scenario
  <2> QED
    BY <1>3, <2>1, StandaloneAdmits, AdmitEnters DEF Book!LedgerNext
<1>4. ASSUME NEW delta \in Deltas, Advance(delta) PROVE Book!LedgerNext
  BY <1>4, AdvanceSettles DEF Book!LedgerNext
<1>5. ASSUME NEW id \in DOMAIN operations, NEW event \in Inputs, Action(id, event)
      PROVE  [Book!LedgerNext]_(Book!ledgerVars)
  BY <1>5, ActionBooksEntry
<1>6. ASSUME NEW id \in DOMAIN operations, Delivered(id) PROVE UNCHANGED (Book!ledgerVars)
  <2>1. /\ DOMAIN operations' = DOMAIN operations
        /\ operations'[id] = [operations[id] EXCEPT !.delivered = TRUE]
        /\ \A i \in DOMAIN operations \ {id} : operations'[i] = operations[i]
        /\ UNCHANGED generation
    BY <1>6 DEF Delivered
  <2>2. Entry(operations'[id]) = Entry(operations[id])
    BY <2>1, LInvFacts DEF Entry, Active, Operation
  <2>3. Entries' = Entries
    BY <2>1, <2>2 DEF Entries
  <2> QED
    BY <2>1, <2>3 DEF Book!ledgerVars, Entries
<1>7. CASE Reset
  <2>1. Entries' = << >>
    BY <1>7 DEF Reset, Entries
  <2>2. Book!NewBook
    BY <1>7, <2>1 DEF Reset, Book!NewBook, Entries
  <2> QED
    BY <2>2 DEF Book!LedgerNext
<1> QED
  BY <1>1, <1>2, <1>3, <1>4, <1>5, <1>6, <1>7 DEF Next

\* The engine implements the book of payments: a payment is entered on a terminal
\* without an open one and under the next number, outcomes are given once, only
\* charges are refunded, and a reset is all that takes entries away.
THEOREM EngineImplementsLedger == Spec => ImplementsLedger
<1>1. Init => Book!LedgerInit
  BY LedgerStart
<1>2. LInv /\ [Next]_vars => [Book!LedgerNext]_(Book!ledgerVars)
  BY LedgerStep
<1> QED
  BY <1>1, <1>2, LedgerInvariance, PTL DEF Spec, ImplementsLedger, Book!LedgerSpec

\* Parts of sequences.

\* How many of the indices come no later than i.
Place(indices, i) == Cardinality({j \in indices : j <= i})

\* The places of the indices are the numbers from 1 on, in their order.
LEMMA Places ==
  ASSUME NEW I \in SUBSET Nat, IsFiniteSet(I)
  PROVE  /\ Cardinality(I) \in Nat
         /\ \A i \in I : Place(I, i) \in 1 .. Cardinality(I)
         /\ \A i, j \in I : i < j => Place(I, i) < Place(I, j)
         /\ \A k \in 1 .. Cardinality(I) : \E i \in I : Place(I, i) = k
<1> DEFINE Below(i) == {j \in I : j <= i}
           n == Cardinality(I)
<1>1. n \in Nat /\ \A i \in I : Below(i) \in SUBSET I /\ IsFiniteSet(Below(i)) /\ Place(I, i) \in Nat
  BY FS_CardinalityType, FS_Subset DEF Place
<1>2. ASSUME NEW i \in I PROVE Place(I, i) \in 1 .. n
  <2>1. Below(i) # {}
    BY <1>2
  <2>2. Place(I, i) # 0
    BY <1>1, <2>1, FS_EmptySet DEF Place
  <2>3. Place(I, i) <= n
    BY <1>1, FS_Subset DEF Place
  <2>4. ASSUME NEW p \in Nat, NEW q \in Nat, p # 0, p <= q PROVE p \in 1 .. q
    BY <2>4
  <2> HIDE DEF n, Below
  <2> QED
    BY <1>1, <2>2, <2>3, <2>4
<1>3. ASSUME NEW i \in I, NEW j \in I, i < j PROVE Place(I, i) < Place(I, j)
  <2>0. ASSUME NEW a \in Nat, NEW b \in Nat, NEW c \in Nat, a <= b, b < c PROVE a <= c
    BY <2>0
  <2>1. Below(i) \in SUBSET Below(j) /\ j \in Below(j) /\ j \notin Below(i)
    <3>1. \A k \in I : k \in Nat
      OBVIOUS
    <3>2. \A k \in Below(i) : k \in I /\ k <= j
      BY <1>3, <2>0, <3>1
    <3>3. j <= j /\ ~(j <= i)
      BY <1>3, <3>1
    <3> QED
      BY <3>2, <3>3
  <2>2. Below(i) # Below(j)
    BY <2>1
  <2>3. Place(I, i) <= Place(I, j) /\ Place(I, j) # Place(I, i)
    BY <1>1, <2>1, <2>2, FS_Subset DEF Place
  <2>4. ASSUME NEW p \in Nat, NEW q \in Nat, p # q, p <= q PROVE p < q
    BY <2>4
  <2> HIDE DEF Below
  <2> QED
    BY <1>1, <2>3, <2>4
<1>4. \A k \in 1 .. n : \E i \in I : Place(I, i) = k
  <2> DEFINE f == [i \in I |-> Place(I, i)]
  <2>1. f \in [I -> 1 .. n]
    BY <1>2
  <2>2. \A i, j \in I : f[i] = f[j] => i = j
    <3> SUFFICES ASSUME NEW i \in I, NEW j \in I, f[i] = f[j], i # j PROVE FALSE
      OBVIOUS
    <3>1. Place(I, i) = Place(I, j)
      OBVIOUS
    <3>2. i < j \/ j < i
      OBVIOUS
    <3>3. Place(I, i) < Place(I, j) \/ Place(I, j) < Place(I, i)
      BY <1>3, <3>2
    <3>4. Place(I, i) \in Nat
      BY <1>1
    <3> HIDE DEF f
    <3> QED
      BY <3>1, <3>3, <3>4
  <2>3. f \in Injection(I, 1 .. n)
    <3> HIDE DEF f, n
    <3> QED
      BY <2>1, <2>2 DEF Injection, IsInjective
  <2>4. IsFiniteSet(1 .. n) /\ Cardinality(1 .. n) = n
    BY <1>1, FS_Interval
  <2>5. f \in Surjection(I, 1 .. n)
    <3> HIDE DEF f
    <3> QED
      BY <2>3, <2>4, FS_Injection
  <2> QED
    BY <2>5 DEF Surjection
<1> QED
  BY <1>1, <1>2, <1>3, <1>4

\* Every index's entry stands at its place.
LEMMA ThoseAre ==
  ASSUME NEW s, NEW I \in SUBSET Nat, IsFiniteSet(I)
  PROVE  /\ Those(s, I) = [k \in 1 .. Cardinality(I) |-> Those(s, I)[k]]
         /\ \A i \in I : Those(s, I)[Place(I, i)] = s[i]
<1>1. Those(s, I) = [k \in 1 .. Cardinality(I) |-> Those(s, I)[k]]
  BY DEF Those
<1>2. ASSUME NEW i \in I PROVE Those(s, I)[Place(I, i)] = s[i]
  <2> DEFINE c == CHOOSE j \in I : Place(I, j) = Place(I, i)
  <2>1. c \in I /\ Place(I, c) = Place(I, i)
    OBVIOUS
  <2>2. Place(I, i) \in 1 .. Cardinality(I)
    BY Places
  <2>3. Those(s, I)[Place(I, i)] = s[c]
    BY <2>2, Zenon DEF Those, Place
  <2> HIDE DEF c
  <2>4. ~(c < i) /\ ~(i < c)
    <3>1. \A p, q \in I : p < q => Place(I, p) < Place(I, q) /\ Place(I, p) \in Nat
      BY Places
    <3> QED
      BY <2>1, <3>1
  <2>5. c = i
    BY <2>1, <2>4
  <2> QED
    BY <2>3, <2>5
<1> QED
  BY <1>1, <1>2

\* The same entries in the same order are the same sequence.
Matches(s, I, t, J, h) ==
  /\ h \in [I -> J]
  /\ \A i, j \in I : i < j => h[i] < h[j]
  /\ \A j \in J : \E i \in I : h[i] = j
  /\ \A i \in I : s[i] = t[h[i]]

LEMMA ThoseSame ==
  ASSUME NEW s, NEW t, NEW I \in SUBSET Nat, IsFiniteSet(I), NEW J \in SUBSET Nat, IsFiniteSet(J),
         NEW h, Matches(s, I, t, J, h)
  PROVE  Those(s, I) = Those(t, J)
<1>0. /\ h \in [I -> J]
      /\ \A i, j \in I : i < j => h[i] < h[j]
      /\ \A j \in J : \E i \in I : h[i] = j
      /\ \A i \in I : s[i] = t[h[i]]
  BY DEF Matches
<1> USE <1>0
<1>1. \A i, j \in I : i <= j <=> h[i] <= h[j]
  <2> SUFFICES ASSUME NEW i \in I, NEW j \in I PROVE i <= j <=> h[i] <= h[j]
    OBVIOUS
  <2>1. h[i] \in Nat /\ h[j] \in Nat /\ i \in Nat /\ j \in Nat
    <3>1. h[i] \in J /\ h[j] \in J
      OBVIOUS
    <3> QED
      BY <3>1
  <2> QED
    BY <2>1
<1>2. \A i, j \in I : h[i] = h[j] => i = j
  <2> SUFFICES ASSUME NEW i \in I, NEW j \in I, h[i] = h[j], i # j PROVE FALSE
    OBVIOUS
  <2>1. h[i] \in Nat /\ h[j] \in Nat /\ i \in Nat /\ j \in Nat
    <3>1. h[i] \in J /\ h[j] \in J
      OBVIOUS
    <3> QED
      BY <3>1
  <2>2. i < j \/ j < i
    BY <2>1
  <2> QED
    BY <2>1, <2>2
<1>3. Cardinality(I) = Cardinality(J)
  <2>1. h \in Injection(I, J) /\ h \in Surjection(I, J)
    BY <1>2 DEF Injection, IsInjective, Surjection
  <2>2. h \in Bijection(I, J)
    BY <2>1 DEF Bijection
  <2> QED
    BY <2>2, FS_Bijection DEF ExistsBijection
<1>4. ASSUME NEW i \in I PROVE Place(I, i) = Place(J, h[i])
  <2> DEFINE S == {j \in I : j <= i}
             T == {j \in J : j <= h[i]}
             g == [j \in S |-> h[j]]
  <2>1. g \in [S -> T]
    BY <1>1
  <2>2. \A a, b \in S : g[a] = g[b] => a = b
    BY <1>2
  <2>3. \A b \in T : \E a \in S : g[a] = b
    <3> SUFFICES ASSUME NEW b \in T PROVE \E a \in S : g[a] = b
      OBVIOUS
    <3>1. PICK a \in I : h[a] = b
      OBVIOUS
    <3>2. a \in S
      BY <1>1, <3>1
    <3> QED
      BY <3>1, <3>2
  <2>5. IsFiniteSet(S)
    BY FS_Subset
  <2> HIDE DEF S, T, g
  <2>7. g \in Injection(S, T) /\ g \in Surjection(S, T)
    BY <2>1, <2>2, <2>3 DEF Injection, IsInjective, Surjection
  <2>4. g \in Bijection(S, T)
    BY <2>7 DEF Bijection
  <2>6. Cardinality(T) = Cardinality(S)
    BY <2>4, <2>5, FS_Bijection DEF ExistsBijection
  <2> QED
    BY <2>6 DEF S, T, Place
<1>5. ASSUME NEW k \in 1 .. Cardinality(I) PROVE Those(s, I)[k] = Those(t, J)[k]
  <2>1. PICK i \in I : Place(I, i) = k
    BY Places
  <2>2. Place(J, h[i]) = k /\ h[i] \in J
    BY <1>4, <2>1
  <2>3. Those(s, I)[k] = s[i] /\ Those(t, J)[k] = t[h[i]]
    BY <2>1, <2>2, ThoseAre
  <2> QED
    BY <2>3
<1>6. /\ Those(s, I) = [k \in 1 .. Cardinality(I) |-> Those(s, I)[k]]
      /\ Those(t, J) = [k \in 1 .. Cardinality(I) |-> Those(t, J)[k]]
  BY <1>3, ThoseAre
<1>7. [k \in 1 .. Cardinality(I) |-> Those(s, I)[k]] = [k \in 1 .. Cardinality(I) |-> Those(t, J)[k]]
  BY <1>5
<1> QED
  BY <1>6, <1>7

LEMMA ThoseEqual ==
  ASSUME NEW s, NEW t, NEW I \in SUBSET Nat, IsFiniteSet(I), \A i \in I : s[i] = t[i]
  PROVE  Those(s, I) = Those(t, I)
<1> DEFINE h == [i \in I |-> i]
<1>1. /\ h \in [I -> I] /\ \A i, j \in I : i < j => h[i] < h[j]
      /\ \A j \in I : \E i \in I : h[i] = j
      /\ \A i \in I : s[i] = t[h[i]]
  OBVIOUS
<1> HIDE DEF h
<1>2. Matches(s, I, t, I, h)
  BY <1>1 DEF Matches
<1> QED
  BY <1>2, ThoseSame

LEMMA ThoseSeq ==
  ASSUME NEW S, NEW s, NEW I \in SUBSET Nat, IsFiniteSet(I), \A i \in I : s[i] \in S
  PROVE  Those(s, I) \in Seq(S) /\ Len(Those(s, I)) = Cardinality(I)
<1>1. \A k \in 1 .. Cardinality(I) : Those(s, I)[k] \in S
  BY Places, ThoseAre
<1>2. Cardinality(I) \in Nat /\ Those(s, I) = [k \in 1 .. Cardinality(I) |-> Those(s, I)[k]]
  BY Places, ThoseAre
<1> QED
  BY <1>1, <1>2

\* The first of them, and those without it.
LEMMA ThoseFirst ==
  ASSUME NEW S, NEW s, NEW I \in SUBSET Nat, IsFiniteSet(I), \A i \in I : s[i] \in S,
         NEW m \in I, \A i \in I : m <= i
  PROVE  /\ Those(s, I) # << >> /\ Those(s, I)[1] = s[m]
         /\ Those(s, I \ {m}) = Tail(Those(s, I))
<1>1. Place(I, m) = 1
  <2>1. {j \in I : j <= m} = {m}
    <3>1. \A j \in I : j <= m <=> j = m
      OBVIOUS
    <3> QED
      BY <3>1
  <2>2. Cardinality({m}) = 1
    BY FS_Singleton
  <2> QED
    BY <2>1, <2>2, Zenon DEF Place
<1>2. Those(s, I)[1] = s[m]
  BY <1>1, ThoseAre
<1>3. /\ Those(s, I) \in Seq(S) /\ Len(Those(s, I)) = Cardinality(I) /\ Cardinality(I) \in Nat
      /\ Cardinality(I) # 0
  BY ThoseSeq, Places, FS_EmptySet
<1>4. Those(s, I) # << >>
  <2>1. Len(<< >>) = 0
    OBVIOUS
  <2> QED
    BY <1>3, <2>1
<1> DEFINE J == I \ {m}
<1>5. J \in SUBSET Nat /\ IsFiniteSet(J) /\ Cardinality(J) = Cardinality(I) - 1
  BY FS_RemoveElement
<1>6. ASSUME NEW i \in J PROVE Place(I, i) = Place(J, i) + 1
  <2>1. {j \in J : j <= i} = {j \in I : j <= i} \ {m} /\ m \in {j \in I : j <= i}
    OBVIOUS
  <2>2. IsFiniteSet({j \in I : j <= i})
    BY FS_Subset
  <2>3. Cardinality({j \in I : j <= i} \ {m}) = Cardinality({j \in I : j <= i}) - 1
    BY <2>1, <2>2, FS_RemoveElement
  <2>4. Cardinality({j \in I : j <= i}) \in Nat
    BY <2>2, FS_CardinalityType
  <2>5. Place(J, i) = Place(I, i) - 1
    BY <2>1, <2>3, Zenon DEF Place
  <2> QED
    BY <2>4, <2>5 DEF Place
<1> HIDE DEF J
<1>7. ASSUME NEW k \in 1 .. Cardinality(J) PROVE Those(s, J)[k] = Those(s, I)[k + 1]
  <2>1. PICK i \in J : Place(J, i) = k
    BY <1>5, Places
  <2>2. Place(I, i) = k + 1 /\ i \in I
    BY <1>6, <2>1 DEF J
  <2> QED
    BY <1>5, <2>1, <2>2, ThoseAre
<1>8. /\ Tail(Those(s, I)) \in Seq(S) /\ Len(Tail(Those(s, I))) = Cardinality(J)
      /\ \A k \in 1 .. Cardinality(J) : Tail(Those(s, I))[k] = Those(s, I)[k + 1]
  BY <1>3, <1>4, <1>5, HeadTailProperties
<1>9. Those(s, J) \in Seq(S) /\ Len(Those(s, J)) = Cardinality(J)
  BY <1>5, ThoseSeq DEF J
<1>10. Those(s, J) = Tail(Those(s, I))
  <2>1. \A k \in 1 .. Len(Those(s, J)) : Those(s, J)[k] = Tail(Those(s, I))[k]
    BY <1>7, <1>8, <1>9
  <2> QED
    BY <1>8, <1>9, <2>1, SeqEqual
<1> QED
  BY <1>2, <1>4, <1>10 DEF J

\* The first of them replaced.
LEMMA ThoseExcept ==
  ASSUME NEW S, NEW s \in Seq(S), NEW I \in SUBSET DOMAIN s, NEW e \in S,
         NEW m \in I, \A i \in I : m <= i
  PROVE  Those([s EXCEPT ![m] = e], I) = [Those(s, I) EXCEPT ![1] = e]
<1> DEFINE t == [s EXCEPT ![m] = e]
<1>1. DOMAIN s = 1 .. Len(s) /\ Len(s) \in Nat
  OBVIOUS
<1>2. I \in SUBSET Nat /\ IsFiniteSet(I)
  <2>1. IsFiniteSet(1 .. Len(s))
    BY <1>1, FS_Interval
  <2>2. I \in SUBSET (1 .. Len(s)) /\ I \in SUBSET Nat
    BY <1>1
  <2> QED
    BY <2>1, <2>2, FS_Subset
<1>3. /\ \A i \in I : s[i] \in S /\ t[i] \in S
      /\ t[m] = e
      /\ \A i \in I \ {m} : t[i] = s[i]
  BY <1>1
<1> HIDE DEF t
<1>4. /\ Those(s, I) # << >> /\ Those(s, I \ {m}) = Tail(Those(s, I))
      /\ Those(t, I)[1] = e /\ Those(t, I \ {m}) = Tail(Those(t, I)) /\ Those(t, I) # << >>
  <2>1. ASSUME NEW u, \A i \in I : u[i] \in S
        PROVE  /\ Those(u, I) # << >> /\ Those(u, I)[1] = u[m]
               /\ Those(u, I \ {m}) = Tail(Those(u, I))
    BY <1>2, <2>1, ThoseFirst, Zenon
  <2>2. (\A i \in I : s[i] \in S) /\ (\A i \in I : t[i] \in S)
    BY <1>3
  <2> QED
    BY <1>3, <2>1, <2>2, Zenon
<1>5. Those(s, I \ {m}) = Those(t, I \ {m})
  <2>1. I \ {m} \in SUBSET Nat /\ IsFiniteSet(I \ {m})
    BY <1>2, FS_RemoveElement
  <2> QED
    BY <1>3, <2>1, ThoseEqual
<1> DEFINE n == Cardinality(I)
<1>6. /\ Those(s, I) \in Seq(S) /\ Len(Those(s, I)) = n
      /\ Those(t, I) \in Seq(S) /\ Len(Those(t, I)) = n
      /\ n \in Nat
  BY <1>2, <1>3, ThoseSeq, Places
<1> HIDE DEF n
<1>7. ASSUME NEW k \in 1 .. n, k # 1 PROVE Those(t, I)[k] = Those(s, I)[k]
  <2>1. /\ Len(Tail(Those(s, I))) = n - 1 /\ Len(Tail(Those(t, I))) = n - 1
        /\ \A i \in 1 .. n - 1 : Tail(Those(s, I))[i] = Those(s, I)[i + 1]
        /\ \A i \in 1 .. n - 1 : Tail(Those(t, I))[i] = Those(t, I)[i + 1]
    BY <1>4, <1>6, HeadTailProperties
  <2>2. k - 1 \in 1 .. n - 1 /\ (k - 1) + 1 = k
    BY <1>6, <1>7
  <2> QED
    BY <1>4, <1>5, <2>1, <2>2
<1>8. Those(t, I) = [k \in 1 .. n |-> Those(t, I)[k]] /\ Those(s, I) = [k \in 1 .. n |-> Those(s, I)[k]]
  BY <1>2, ThoseAre DEF n
<1>9. \A k \in 1 .. n : Those(t, I)[k] = IF k = 1 THEN e ELSE Those(s, I)[k]
  BY <1>4, <1>7
<1>10. [Those(s, I) EXCEPT ![1] = e] = [k \in 1 .. n |-> IF k = 1 THEN e ELSE Those(s, I)[k]]
  BY <1>8
<1>11. [k \in 1 .. n |-> Those(t, I)[k]] = [k \in 1 .. n |-> IF k = 1 THEN e ELSE Those(s, I)[k]]
  BY <1>9
<1> QED
  BY <1>8, <1>10, <1>11 DEF t
-----------------------------------------------------------------------------
\* The queue of a device.

\* Where queue q holds something for device d.
Waiting(q, d) == {i \in DOMAIN q : q[i].device = d}

LEMMA WaitingIs ==
  ASSUME NEW q \in Seq(Script), NEW d
  PROVE  /\ ForDevice(q, d) = Those(q, Waiting(q, d))
         /\ Waiting(q, d) \in SUBSET Nat /\ Waiting(q, d) \in SUBSET DOMAIN q
         /\ IsFiniteSet(Waiting(q, d))
         /\ DOMAIN q = 1 .. Len(q) /\ Len(q) \in Nat
         /\ \A i \in DOMAIN q : q[i] \in Script /\ i \in Nat
<1>1. DOMAIN q = 1 .. Len(q) /\ Len(q) \in Nat /\ \A i \in DOMAIN q : q[i] \in Script /\ i \in Nat
  OBVIOUS
<1>2. IsFiniteSet(1 .. Len(q)) /\ Waiting(q, d) \in SUBSET (1 .. Len(q))
  BY <1>1, FS_Interval DEF Waiting
<1> QED
  BY <1>1, <1>2, FS_Subset DEF ForDevice, Waiting

\* An entry taken out: the others stay in order.
LEMMA RemovedIs ==
  ASSUME NEW q \in Seq(Script), NEW i \in DOMAIN q, NEW d
  PROVE  /\ RemoveAt(q, i) \in Seq(Script)
         /\ ForDevice(RemoveAt(q, i), d) = Those(q, Waiting(q, d) \ {i})
<1> DEFINE r == RemoveAt(q, i)
           n == Len(q)
<1>1. i \in 1 .. n /\ n \in Nat /\ i \in Nat /\ \A j \in 1 .. n : q[j] \in Script
  OBVIOUS
<1>2. /\ r \in Seq(Script) /\ Len(r) = n - 1
      /\ \A j \in 1 .. n - 1 : r[j] = q[IF j < i THEN j ELSE j + 1]
  <2> DEFINE x == SubSeq(q, 1, i - 1)
             y == SubSeq(q, i + 1, n)
  <2>1. /\ x \in Seq(Script) /\ Len(x) = i - 1 /\ \A j \in 1 .. i - 1 : x[j] = q[j]
    <3>1. \A j \in 1 .. i - 1 : q[j] \in Script
      BY <1>1
    <3>2. /\ x \in Seq(Script) /\ Len(x) = IF 1 <= i - 1 THEN (i - 1) - 1 + 1 ELSE 0
          /\ \A j \in 1 .. (i - 1) - 1 + 1 : x[j] = q[1 + j - 1]
      BY <1>1, <3>1, SubSeqProperties
    <3>3. (IF 1 <= i - 1 THEN (i - 1) - 1 + 1 ELSE 0) = i - 1 /\ (i - 1) - 1 + 1 = i - 1
      BY <1>1
    <3>4. \A j \in 1 .. i - 1 : 1 + j - 1 = j
      BY <1>1
    <3> HIDE DEF x
    <3> QED
      BY <3>2, <3>3, <3>4
  <2>2. /\ y \in Seq(Script) /\ Len(y) = n - i /\ \A j \in 1 .. n - i : y[j] = q[i + j]
    <3>1. \A j \in i + 1 .. n : q[j] \in Script
      BY <1>1
    <3>2. /\ y \in Seq(Script) /\ Len(y) = IF i + 1 <= n THEN n - (i + 1) + 1 ELSE 0
          /\ \A j \in 1 .. n - (i + 1) + 1 : y[j] = q[(i + 1) + j - 1]
      BY <1>1, <3>1, SubSeqProperties
    <3>3. (IF i + 1 <= n THEN n - (i + 1) + 1 ELSE 0) = n - i /\ n - (i + 1) + 1 = n - i
      BY <1>1
    <3>4. \A j \in 1 .. n - i : (i + 1) + j - 1 = i + j
      BY <1>1
    <3> HIDE DEF y
    <3> QED
      BY <3>2, <3>3, <3>4
  <2>3. r = x \o y
    BY DEF RemoveAt
  <2> HIDE DEF x, y, r
  <2>4. /\ r \in Seq(Script) /\ Len(r) = (i - 1) + (n - i)
        /\ \A j \in 1 .. (i - 1) + (n - i) : r[j] = IF j <= i - 1 THEN x[j] ELSE y[j - (i - 1)]
    BY <2>1, <2>2, <2>3, ConcatProperties
  <2>5. (i - 1) + (n - i) = n - 1
    BY <1>1
  <2> HIDE DEF n
  <2>6. ASSUME NEW j \in 1 .. n - 1 PROVE r[j] = q[IF j < i THEN j ELSE j + 1]
    <3>1. CASE j < i
      <4>1. j <= i - 1 /\ j \in 1 .. i - 1
        BY <1>1, <3>1
      <4> QED
        BY <2>1, <2>4, <2>5, <3>1, <4>1
    <3>2. CASE ~(j < i)
      <4>1. ~(j <= i - 1) /\ j - (i - 1) \in 1 .. n - i /\ i + (j - (i - 1)) = j + 1
        BY <1>1, <3>2
      <4> QED
        BY <2>2, <2>4, <2>5, <3>2, <4>1
    <3> QED
      BY <3>1, <3>2
  <2> QED
    BY <2>4, <2>5, <2>6
<1> DEFINE I == Waiting(r, d)
           J == Waiting(q, d) \ {i}
           h == [j \in I |-> IF j < i THEN j ELSE j + 1]
<1>3. /\ DOMAIN r = 1 .. n - 1
      /\ I \in SUBSET Nat /\ IsFiniteSet(I) /\ J \in SUBSET Nat /\ IsFiniteSet(J)
      /\ ForDevice(r, d) = Those(r, I)
  BY <1>2, WaitingIs, FS_RemoveElement
<1>4. \A j \in I : j \in 1 .. n - 1 /\ r[j].device = d
  BY <1>3 DEF Waiting
<1> HIDE DEF r, n
<1>5. h \in [I -> J]
  <2>1. ASSUME NEW j \in I PROVE (IF j < i THEN j ELSE j + 1) \in J
    <3>1. (IF j < i THEN j ELSE j + 1) \in 1 .. n /\ (IF j < i THEN j ELSE j + 1) # i
      BY <1>1, <1>4
    <3>2. q[IF j < i THEN j ELSE j + 1].device = d
      BY <1>2, <1>4
    <3> QED
      BY <3>1, <3>2 DEF Waiting, n
  <2> QED
    BY <2>1
<1>6. \A j, k \in I : j < k => h[j] < h[k]
  BY <1>1, <1>4
<1>7. ASSUME NEW k \in J PROVE \E j \in I : h[j] = k
  <2>1. k \in 1 .. n /\ k # i /\ q[k].device = d
    BY DEF Waiting, n
  <2> DEFINE j == IF k < i THEN k ELSE k - 1
  <2>2. j \in 1 .. n - 1 /\ (IF j < i THEN j ELSE j + 1) = k
    BY <1>1, <2>1
  <2> HIDE DEF j
  <2>3. r[j].device = d
    BY <1>2, <2>1, <2>2
  <2>4. j \in I
    BY <1>3, <2>2, <2>3 DEF Waiting
  <2> QED
    BY <2>2, <2>4
<1>8. \A j \in I : r[j] = q[h[j]]
  BY <1>2, <1>4
<1> HIDE DEF h, I, J
<1>9. Those(r, I) = Those(q, J)
  <2>1. Matches(r, I, q, J, h)
    BY <1>5, <1>6, <1>7, <1>8 DEF Matches
  <2> QED
    BY <1>3, <2>1, ThoseSame
<1> QED
  BY <1>2, <1>3, <1>9 DEF r, J

\* One use of the first entry for a device goes, and nothing else.
LEMMA ConsumeTakes ==
  ASSUME queue \in Seq(Script), NEW i \in DOMAIN queue, Consume(i), NEW b, FirstFor(b, i), NEW d
  PROVE  LET before == ForDevice(queue, d)
             after  == ForDevice(queue', d)
         IN  /\ d # b => after = before
             /\ d = b => before # << >> /\ before[1] = queue[i] /\ after = Spent(before)
<1> DEFINE I == Waiting(queue, d)
           before == ForDevice(queue, d)
           after == ForDevice(queue', d)
<1>1. /\ before = Those(queue, I) /\ I \in SUBSET Nat /\ I \in SUBSET DOMAIN queue /\ IsFiniteSet(I)
      /\ DOMAIN queue = 1 .. Len(queue) /\ Len(queue) \in Nat
      /\ \A j \in DOMAIN queue : queue[j] \in Script /\ j \in Nat
  BY WaitingIs
<1>2. queue[i].device = b /\ queue' \in Seq(Script)
  BY ConsumeType DEF FirstFor
<1>3. ASSUME d = b
      PROVE  /\ i \in I /\ \A j \in I : i <= j
             /\ Those(queue, I) # << >> /\ Those(queue, I)[1] = queue[i]
             /\ Those(queue, I \ {i}) = Tail(Those(queue, I))
  <2>1. i \in I
    BY <1>2, <1>3 DEF Waiting
  <2>2. ASSUME NEW j \in I PROVE i <= j
    <3>1. queue[j].device = b /\ j \in 1 .. Len(queue)
      BY <1>1, <1>3 DEF Waiting
    <3>2. j \notin 1 .. i - 1
      BY <3>1 DEF FirstFor
    <3> QED
      BY <1>1, <3>1, <3>2
  <2> HIDE DEF I
  <2>3. I \in SUBSET Nat /\ IsFiniteSet(I) /\ \A j \in I : queue[j] \in Script
    BY <1>1
  <2>4. ASSUME NEW m \in I, \A j \in I : m <= j
        PROVE  /\ Those(queue, I) # << >> /\ Those(queue, I)[1] = queue[m]
               /\ Those(queue, I \ {m}) = Tail(Those(queue, I))
    BY <2>3, <2>4, ThoseFirst
  <2> QED
    BY <2>1, <2>2, <2>4
<1>4. CASE queue[i].uses = 1
  <2>1. queue' = RemoveAt(queue, i)
    BY <1>4 DEF Consume
  <2>2. after = Those(queue, I \ {i})
    BY <2>1, RemovedIs
  <2>3. CASE d = b
    BY <1>1, <1>3, <1>4, <2>2, <2>3 DEF Spent
  <2>4. CASE d # b
    <3>1. I \ {i} = I
      BY <1>2, <2>4 DEF Waiting
    <3> QED
      BY <1>1, <2>2, <2>4, <3>1
  <2> QED
    BY <2>3, <2>4
<1>5. CASE queue[i].uses # 1
  <2> DEFINE e == [queue[i] EXCEPT !.uses = queue[i].uses - 1]
  <2>1. queue' = [queue EXCEPT ![i] = e]
    BY <1>5 DEF Consume
  <2>2. e \in Script
    BY <1>1, <1>5, ScriptUse
  <2>3. e.device = queue[i].device
    BY <1>1 DEF Script, Scenario
  <2>4. /\ DOMAIN queue' = DOMAIN queue
        /\ \A j \in DOMAIN queue : queue'[j] = IF j = i THEN e ELSE queue[j]
    BY <2>1
  <2>5. Waiting(queue', d) = I
    <3> HIDE DEF e
    <3> QED
      BY <2>3, <2>4 DEF Waiting
  <2>6. after = Those(queue', I)
    BY <1>2, <2>5, WaitingIs
  <2>7. CASE d = b
    <3>1. Those([queue EXCEPT ![i] = e], I) = [Those(queue, I) EXCEPT ![1] = e]
      <4> HIDE DEF e, I
      <4>1. queue \in Seq(Script) /\ I \in SUBSET DOMAIN queue /\ i \in I /\ \A j \in I : i <= j
        BY <1>1, <1>3, <2>7
      <4>2. ASSUME NEW m \in I, NEW x \in Script, \A j \in I : m <= j
            PROVE  Those([queue EXCEPT ![m] = x], I) = [Those(queue, I) EXCEPT ![1] = x]
        BY <4>1, <4>2, ThoseExcept
      <4> QED
        BY <2>2, <4>1, <4>2
    <3>2. [Those(queue, I) EXCEPT ![1] = e]
            = [Those(queue, I) EXCEPT ![1].uses = Those(queue, I)[1].uses - 1]
      BY <1>3, <2>7
    <3> HIDE DEF e, I
    <3> QED
      BY <1>1, <1>3, <1>5, <2>1, <2>6, <2>7, <3>1, <3>2 DEF Spent
  <2>8. CASE d # b
    <3>1. \A j \in I : queue'[j] = queue[j]
      BY <1>1, <1>2, <2>4, <2>8 DEF Waiting
    <3>2. Those(queue', I) = Those(queue, I)
      <4> HIDE DEF I
      <4> QED
        BY <1>1, <3>1, ThoseEqual
    <3> QED
      BY <1>1, <2>6, <2>8, <3>2
  <2> QED
    BY <2>7, <2>8
<1> QED
  BY <1>4, <1>5

\* An entry armed last is nothing to the other devices.
LEMMA AppendedFor ==
  ASSUME NEW q \in Seq(Script), NEW s \in Script, NEW d, s.device # d
  PROVE  ForDevice(Append(q, s), d) = ForDevice(q, d)
<1> DEFINE t == Append(q, s)
           I == Waiting(q, d)
<1>1. /\ ForDevice(q, d) = Those(q, I) /\ I \in SUBSET Nat /\ IsFiniteSet(I)
      /\ DOMAIN q = 1 .. Len(q) /\ Len(q) \in Nat
  BY WaitingIs
<1>2. /\ t \in Seq(Script) /\ Len(t) = Len(q) + 1 /\ t[Len(q) + 1] = s
      /\ \A i \in 1 .. Len(q) : t[i] = q[i]
  BY AppendProperties
<1> HIDE DEF t
<1>3. ForDevice(t, d) = Those(t, Waiting(t, d)) /\ DOMAIN t = 1 .. Len(t)
  BY <1>2, WaitingIs
<1>4. Waiting(t, d) = I
  <2>1. \A i \in 1 .. Len(t) : i \in 1 .. Len(q) \/ i = Len(q) + 1
    BY <1>1, <1>2
  <2>2. \A i \in 1 .. Len(q) : i \in 1 .. Len(t)
    BY <1>1, <1>2
  <2> QED
    BY <1>1, <1>2, <1>3, <2>1, <2>2 DEF Waiting
<1>5. \A i \in I : t[i] = q[i]
  BY <1>1, <1>2 DEF Waiting
<1>6. Those(t, I) = Those(q, I)
  <2> HIDE DEF I
  <2> QED
    BY <1>1, <1>5, ThoseEqual
<1> QED
  BY <1>1, <1>3, <1>4, <1>6 DEF t

\* Nothing waits for a device that is missing in the queue.
LEMMA NothingFor ==
  ASSUME queue \in Seq(Script), NEW d, Missing(d)
  PROVE  ForDevice(queue, d) = << >>
<1>1. Waiting(queue, d) = {}
  BY DEF Waiting, Missing
<1>2. Cardinality({}) = 0
  BY FS_EmptySet
<1>3. ForDevice(queue, d) \in Seq(Script) /\ Len(ForDevice(queue, d)) = 0
  <2>1. Those(queue, {}) \in Seq(Script) /\ Len(Those(queue, {})) = Cardinality({})
    BY FS_EmptySet, ThoseSeq
  <2> QED
    BY <1>1, <1>2, <2>1, WaitingIs
<1> QED
  BY <1>3, EmptySeq

\* What arrives for a device that nothing waits for is alone there.
LEMMA AppendedOwn ==
  ASSUME NEW q \in Seq(Script), NEW s \in Script, \A i \in DOMAIN q : q[i].device # s.device
  PROVE  ForDevice(Append(q, s), s.device) = <<s>>
<1> DEFINE t == Append(q, s)
           n == Len(q) + 1
           d == s.device
<1>1. /\ DOMAIN q = 1 .. Len(q) /\ Len(q) \in Nat
      /\ t \in Seq(Script) /\ Len(t) = n /\ t[n] = s /\ n \in Nat
      /\ \A i \in 1 .. Len(q) : t[i] = q[i]
  BY AppendProperties
<1> HIDE DEF t
<1>2. /\ ForDevice(t, d) = Those(t, Waiting(t, d)) /\ DOMAIN t = 1 .. n
      /\ \A i \in DOMAIN t : t[i] \in Script
  BY <1>1, WaitingIs
<1>3. Waiting(t, d) = {n}
  <2>1. \A i \in 1 .. n : i \in 1 .. Len(q) \/ i = n
    BY <1>1
  <2>2. n \in 1 .. n
    BY <1>1
  <2> QED
    BY <1>1, <1>2, <2>1, <2>2 DEF Waiting
<1> HIDE DEF n, d
<1>4. {n} \in SUBSET Nat /\ IsFiniteSet({n}) /\ Cardinality({n}) = 1 /\ n \in {n} /\ n <= n
  <2>1. IsFiniteSet({n}) /\ Cardinality({n}) = 1
    BY FS_Singleton
  <2>2. n <= n
    BY <1>1
  <2> QED
    BY <1>1, <2>1, <2>2
<1>5. /\ Those(t, {n}) \in Seq(Script) /\ Len(Those(t, {n})) = 1
  <2>1. \A i \in {n} : t[i] \in Script
    BY <1>1
  <2> QED
    BY <1>4, <2>1, ThoseSeq
<1>6. Those(t, {n})[1] = s
  <2>1. Place({n}, n) = 1
    <3>1. {j \in {n} : j <= n} = {n}
      BY <1>4
    <3> QED
      BY <1>4, <3>1 DEF Place
  <2> QED
    BY <1>1, <1>4, <2>1, ThoseAre
<1>7. Those(t, {n}) = <<s>>
  BY <1>5, <1>6
<1> QED
  BY <1>2, <1>3, <1>7 DEF t, d

\* What a request may do, by StrictQueue.
Strict ==
  \/ DOMAIN operations' = DOMAIN operations /\ \A d \in DeviceIds : Unmoved(d)
  \/ \E d \in DeviceIds : TakesOne(d) /\ \A other \in DeviceIds \ {d} : Unmoved(other)

\* One payment is admitted, on the device of scenario s and under s.
Admits(s) ==
  \E id \in DOMAIN operations' \ DOMAIN operations :
    /\ DOMAIN operations' \ DOMAIN operations = {id}
    /\ operations'[id].device = s.device
    /\ operations'[id].scenario = s

LEMMA AdmitAdmits ==
  ASSUME LInv, NEW s \in Script, NEW amount \in Nat, s.device \in DOMAIN devices,
         Admit(s, amount), UNCHANGED generation
  PROVE  Admits(s)
<1> DEFINE id  == <<generation, serial>>
           ops == Admitted(s, amount)
<1>1. /\ id \notin DOMAIN operations
      /\ DOMAIN ops = DOMAIN operations \cup {id}
      /\ DOMAIN operations' = DOMAIN ops
      /\ Frame(ops[id], operations'[id])
  BY AdmitAdds
<1>2. ops[id].scenario = s /\ ops[id].device = s.device
  <2>1. ops[id] = Opened(s, devices[s.device].merchant, amount, now)
    BY DEF Admitted
  <2> HIDE DEF ops
  <2> QED
    BY <2>1 DEF Opened
<1> HIDE DEF ops, id
<1>3. DOMAIN operations' \ DOMAIN operations = {id}
  BY <1>1
<1> QED
  BY <1>1, <1>2, <1>3 DEF Frame, Admits

\* Requests are counted by requests alone.
LEMMA OthersCountNone ==
  ASSUME LInv, [Next]_vars, counters'.requests = counters.requests + 1
  PROVE  \/ \E d \in DeviceIds, a \in Amounts, m \in Merchants \cup {AnyMerchant} :
              RefuseStart(d, a, m) \/ LoseStart(d, a, m) \/ Start(d, a, m)
         \/ \E s \in Offered, a \in Amounts : Standalone(s, a)
<1>1. counters \in Counters /\ counters.requests \in Nat /\ counters.requests # counters.requests + 1
  BY LInvFacts DEF Counters
<1>2. CASE UNCHANGED counters
  BY <1>1, <1>2
<1>3. ASSUME NEW s, NEW d, NEW p, Arm(s) \/ SetDevice(d, p) PROVE UNCHANGED counters
  BY <1>3 DEF Arm, SetDevice
<1>4. ASSUME NEW a, NEW b, counters' = Tally(counters, a, b) PROVE FALSE
  BY <1>1, <1>4 DEF Tally, Counters
<1>5. ASSUME NEW delta, Advance(delta) PROVE FALSE
  BY <1>4, <1>5 DEF Advance
<1>6. ASSUME NEW id, NEW event, Action(id, event) PROVE FALSE
  BY <1>4, <1>6 DEF Action
<1>7. ASSUME NEW id, Delivered(id) PROVE FALSE
  BY <1>1, <1>7 DEF Delivered, Counters
<1>8. CASE Reset
  BY <1>1, <1>8 DEF Reset, NoCounts
<1> QED
  BY <1>2, <1>3, <1>5, <1>6, <1>7, <1>8 DEF Next, vars

\* A request that takes the first entry for its device takes it by the rule.
LEMMA EntryTakes ==
  ASSUME queue \in Seq(Script), NEW i \in DOMAIN queue, Consume(i),
         NEW b \in DeviceIds, FirstFor(b, i),
         IF queue[i].delivery = "disconnect_before_accept"
         THEN UNCHANGED operations ELSE Admits(queue[i])
  PROVE  Strict
<1> DEFINE before == ForDevice(queue, b)
<1>1. /\ \A other \in DeviceIds \ {b} : Unmoved(other)
      /\ before # << >> /\ before[1] = queue[i] /\ ForDevice(queue', b) = Spent(before)
      /\ queue[i].device = b
  BY ConsumeTakes DEF Unmoved, FirstFor
<1>2. TakesOne(b)
  <2> HIDE DEF before
  <2>1. CASE queue[i].delivery = "disconnect_before_accept"
    BY <1>1, <2>1 DEF TakesOne, before
  <2>2. CASE queue[i].delivery # "disconnect_before_accept"
    BY <1>1, <2>2 DEF TakesOne, Admits, before
  <2> QED
    BY <2>1, <2>2
<1> QED
  BY <1>1, <1>2 DEF Strict

\* A standalone start takes from no device, and arms its own spare uses only.
LEMMA AloneTakes ==
  ASSUME queue \in Seq(Script), NEW s \in Offered, s \in Scenario, NEW a, Alone(s, a), Admits(s)
  PROVE  Strict
<1> DEFINE left == [s EXCEPT !.uses = s.uses - 1]
<1>1. /\ s \in Script /\ Missing(s.device) /\ s.delivery # "disconnect_before_accept"
      /\ queue' = IF s.uses = 1 THEN queue ELSE Append(queue, left)
      /\ s.device \in DeviceIds
  BY DEF Alone, Script, Scenario
<1>2. s.uses # 1 => left \in Script /\ left.device = s.device
  BY <1>1, ScriptUse DEF Script, Scenario
<1> HIDE DEF left
<1>3. ASSUME NEW d \in DeviceIds \ {s.device} PROVE Unmoved(d)
  BY <1>1, <1>2, AppendedFor DEF Unmoved
<1>4. ForDevice(queue, s.device) = << >>
  BY <1>1, NothingFor
<1>5. ForDevice(queue', s.device) = Spent(<<s>>)
  <2>1. CASE s.uses = 1
    <3>1. Spent(<<s>>) = << >>
      BY <2>1 DEF Spent
    <3> QED
      BY <1>1, <1>4, <2>1, <3>1
  <2>2. CASE s.uses # 1
    <3>1. ForDevice(Append(queue, left), left.device) = <<left>>
      BY <1>1, <1>2, <2>2, AppendedOwn DEF Missing
    <3>2. Spent(<<s>>) = <<left>>
      BY <2>2 DEF Spent, left
    <3> QED
      BY <1>1, <1>2, <2>2, <3>1, <3>2
  <2> QED
    BY <2>1, <2>2
<1>6. TakesOne(s.device)
  BY <1>1, <1>4, <1>5 DEF TakesOne, Admits
<1> QED
  BY <1>1, <1>3, <1>6 DEF Strict

\* Every operation that counts a request takes by the rule.
LEMMA StepStrict ==
  ASSUME LInv, [Next]_vars, counters'.requests = counters.requests + 1
  PROVE  Strict
<1>1. queue \in Seq(Script)
  BY DEF LInv, IInv, TypeOK
<1>2. ASSUME NEW b, NEW a, NEW m, RefuseStart(b, a, m) PROVE Strict
  BY <1>2 DEF RefuseStart, Strict, Unmoved
<1>3. ASSUME NEW b \in DeviceIds, NEW a \in Amounts, NEW m, LoseStart(b, a, m) PROVE Strict
  <2>1. PICK i \in DOMAIN queue : /\ FirstFor(b, i) /\ Consume(i)
                                  /\ queue[i].delivery = "disconnect_before_accept"
    BY <1>3 DEF LoseStart, Begins
  <2> QED
    BY <1>1, <1>3, <2>1, EntryTakes DEF LoseStart
<1>4. ASSUME NEW b \in DeviceIds, NEW a \in Amounts, NEW m, Start(b, a, m) PROVE Strict
  <2>1. PICK i \in DOMAIN queue : /\ Begins(b, a, m, i) /\ Consume(i) /\ Admit(queue[i], a)
                                  /\ queue[i].delivery # "disconnect_before_accept"
    BY <1>4 DEF Start
  <2>2. FirstFor(b, i) /\ queue[i] \in Script /\ queue[i].device \in DOMAIN devices
        /\ a \in Nat /\ UNCHANGED generation
    BY <1>1, <1>4, <2>1, EngineAssumption DEF Begins, FirstFor, Admissible, Start
  <2>3. Admits(queue[i])
    BY <2>1, <2>2, AdmitAdmits
  <2> QED
    BY <1>1, <2>1, <2>2, <2>3, EntryTakes
<1>5. ASSUME NEW s \in Offered, NEW a \in Amounts, Standalone(s, a) PROVE Strict
  <2>1. /\ s \in Scenario /\ a \in Nat /\ s \in Script /\ s.device \in DOMAIN devices
        /\ Alone(s, a) /\ Admit(s, a) /\ UNCHANGED generation
    BY <1>5, EngineAssumption DEF Standalone, Alone, Admissible, Script
  <2>2. Admits(s)
    BY <2>1, AdmitAdmits
  <2> QED
    BY <1>1, <2>1, <2>2, AloneTakes
<1> QED
  BY <1>2, <1>3, <1>4, <1>5, OthersCountNone

\* Strict mode: a payment request that is refused admits nothing and leaves the
\* queue as it was; any other takes exactly one use of the first scenario armed
\* for its own device, and is admitted under it or loses its link by it.  So
\* the order in which a test armed its scenarios is the order of its payments,
\* however many devices share the queue.  A payment admitted on a device for
\* which nothing is armed brought its scenario along, whose spare uses stay.
THEOREM QueueIsStrict == Spec => StrictQueue
<1>1. LInv /\ [Next]_vars => [counters'.requests = counters.requests + 1 => Strict]_vars
  BY StepStrict
<1> QED
  BY <1>1, LedgerInvariance, PTL DEF StrictQueue, Strict, Spec
=============================================================================

----------------------------- MODULE LoopProofs -----------------------------
(***************************************************************************)
(* advance()'s event loop, as AdvanceLoop spells it out, implements the    *)
(* engine in which every operation is served by itself and at once, for    *)
(* any devices, scenarios, amounts, clock steps and bounds.                *)
(***************************************************************************)
EXTENDS AdvanceLoop, EngineProofs

-----------------------------------------------------------------------------
\* The engine that callers see is built from the same operators.

LEMMA OuterStages ==
  /\ Outer!ActiveStages = ActiveStages /\ Outer!FinalStages = FinalStages
  /\ Outer!Stages = Stages /\ Outer!Inputs = Inputs
  /\ Outer!NoError = NoError /\ Outer!Never = Never
  /\ \A op : Outer!Active(op) = Active(op)
BY DEF Outer!ActiveStages, ActiveStages, Outer!FinalStages, FinalStages, Outer!Stages, Stages,
  Outer!Inputs, Inputs, Outer!NoError, NoError, Outer!Never, Never, Outer!Active, Active

LEMMA OuterTypes ==
  /\ Outer!Scenario = Scenario
  /\ Outer!Operation = Operation
  /\ Outer!DeviceProfile = DeviceProfile
<1>1. Outer!Scenario = Scenario
  BY OuterStages DEF Outer!Scenario, Scenario, Outer!TerminalErrors, TerminalErrors, Outer!Modes, Modes,
    Outer!Outcomes, Outcomes, Outer!References, References, Outer!Timing, Timing, Outer!Deliveries, Deliveries
<1>2. Outer!TerminalErrors = TerminalErrors
  BY DEF Outer!TerminalErrors, TerminalErrors
<1>3. Outer!Operation = Operation
  BY <1>1, <1>2, OuterStages DEF Outer!Operation, Operation
<1> QED
  BY <1>1, <1>3 DEF Outer!DeviceProfile, DeviceProfile

LEMMA OuterDue ==
  \A op : Outer!Due(op) = Due(op)
<1>1. \A op : Outer!Unattended(op) = Unattended(op) /\ Outer!Delay(op) = Delay(op)
  BY DEF Outer!Unattended, Unattended, Outer!Delay, Delay
<1> QED
  BY <1>1 DEF Outer!Due, Due, Outer!Sooner, Sooner

LEMMA OuterStep ==
  \A op, t : Outer!Step(op, t) = Step(op, t)
<1>1. \A op, stage, error, t : Outer!Transition(op, stage, error, t) = Transition(op, stage, error, t)
  BY OuterStages, ZenonT(60) DEF Outer!Transition, Transition
<1>2. \A op : /\ Outer!Faulty(op) = Faulty(op)
              /\ Outer!NextStage(op) = NextStage(op)
  BY DEF Outer!Faulty, Faulty, Outer!NextStage, NextStage
<1>3. \A e : Outer!FaultStage(e) = FaultStage(e)
  BY DEF Outer!FaultStage, FaultStage
<1> QED
  BY <1>1, <1>2, <1>3, OuterStages DEF Outer!Step, Step

LEMMA OuterReact ==
  /\ \A op, event, next : Outer!Reacts(op, event, next) = Reacts(op, event, next)
  /\ \A op, event, next, t : Outer!React(op, event, next, t) = React(op, event, next, t)
<1>1. \A op, event, next : Outer!Reacts(op, event, next) = Reacts(op, event, next)
  BY OuterStages DEF Outer!Reacts, Reacts
<1>2. \A op, stage, error, t : Outer!Transition(op, stage, error, t) = Transition(op, stage, error, t)
  BY OuterStages, ZenonT(60) DEF Outer!Transition, Transition
<1>3. \A op : Outer!Faulty(op) = Faulty(op)
  BY DEF Outer!Faulty, Faulty
<1>4. \A next : Outer!ReactionError(next) = ReactionError(next)
  BY OuterStages DEF Outer!ReactionError, ReactionError
<1> QED
  BY <1>1, <1>2, <1>3, <1>4, OuterStep DEF Outer!React, React

LEMMA OuterSettled ==
  \A ops, from, to : Outer!Settled(ops, from, to) = Settled(ops, from, to)
<1>1. \A from, to : Outer!Turn(from, to) = Turn(from, to)
  BY OuterTypes, OuterStages, OuterDue, OuterStep, Zenon DEF Outer!Turn, Turn, Outer!Later, Later
<1>2. \A op, from, to : Outer!Settle(op, from, to) = Settle(op, from, to)
  BY <1>1, Zenon DEF Outer!Settle, Settle
<1> QED
  BY <1>2 DEF Outer!Settled, Settled

LEMMA OuterValid ==
  /\ \A s : Outer!Valid(s) = Valid(s)
  /\ \A s, m, amount, t : Outer!Opened(s, m, amount, t) = Opened(s, m, amount, t)
  /\ Outer!MaxAmount = MaxAmount
<1>1. /\ Outer!MaxAmount = MaxAmount /\ Outer!MaxUses = MaxUses /\ Outer!HourMs = HourMs
  BY SMT DEF Outer!MaxAmount, MaxAmount, Outer!MaxUses, MaxUses, Outer!HourMs, HourMs
<1>2. \A s : Outer!Valid(s) = Valid(s)
  BY <1>1, OuterStages DEF Outer!Valid, Valid
<1>3. \A s, m, amount, t : Outer!Opened(s, m, amount, t) = Opened(s, m, amount, t)
  BY OuterStages DEF Outer!Opened, Opened
<1> QED
  BY <1>1, <1>2, <1>3

LEMMA OuterTally ==
  \A counts, before, after : Outer!Tally(counts, before, after) = Tally(counts, before, after)
BY Zenon DEF Outer!Tally, Tally, Outer!Charged, Charged, Outer!Cardinality, Cardinality

-----------------------------------------------------------------------------
\* Between calls, callers see the engine as it is.

LEMMA OuterRest ==
  ASSUME ~Running
  PROVE  /\ Seen = operations
         /\ \A d : Outer!Idle(d) = Idle(d)
         /\ \A d, i : Outer!FirstFor(d, i) = FirstFor(d, i)
         /\ \A d : Outer!Missing(d) = Missing(d)
         /\ \A d, a, m : Outer!Admissible(d, a, m) = Admissible(d, a, m)
         /\ \A s, a : Outer!Fits(s, a) = Fits(s, a)
         /\ \A d, a, m, i : Outer!Begins(d, a, m, i) = Begins(d, a, m, i)
         /\ Outer!CountAccepted = CountAccepted
         /\ \A s, a : Outer!Admitted(s, a) = Admitted(s, a)
<1>1. Seen = operations
  BY DEF Seen
<1>2. \A d : Outer!Idle(d) = Idle(d)
  BY <1>1, OuterStages DEF Outer!Idle, Idle, Outer!Open, Open
<1>3. \A d, i : Outer!FirstFor(d, i) = FirstFor(d, i)
  BY DEF Outer!FirstFor, FirstFor
<1>4. \A d, a, m : Outer!Admissible(d, a, m) = Admissible(d, a, m)
  BY <1>2, OuterValid DEF Outer!Admissible, Admissible
<1>5. \A s, a : Outer!Fits(s, a) = Fits(s, a)
  BY DEF Outer!Fits, Fits
<1>6. \A d, a, m, i : Outer!Begins(d, a, m, i) = Begins(d, a, m, i)
  BY <1>3, <1>4, <1>5 DEF Outer!Begins, Begins
<1>7. \A s, a : Outer!Admitted(s, a) = Admitted(s, a)
  BY <1>1, OuterValid DEF Outer!Admitted, Admitted
<1> QED
  BY <1>1, <1>2, <1>3, <1>4, <1>5, <1>6, <1>7
  DEF Outer!Missing, Missing, Outer!CountAccepted, CountAccepted

LEMMA OuterConsume ==
  ASSUME NEW i, Consume(i)
  PROVE  Outer!Consume(i)
<1>1. Outer!RemoveAt(queue, i) = RemoveAt(queue, i)
  BY Zenon DEF Outer!RemoveAt, RemoveAt
<1> QED
  BY <1>1 DEF Consume, Outer!Consume

LEMMA OuterLoopless ==
  ASSUME Loopless
  PROVE  Outer!Next
<1>0. ~Running /\ ~Running' /\ Seen = operations /\ Seen' = operations'
  BY OuterRest DEF Loopless, Running, Seen
<1>1. ASSUME NEW s \in Offered, Arm(s) PROVE Outer!Next
  BY <1>0, <1>1, OuterValid DEF Arm, Outer!Arm, Outer!Next
<1>2. ASSUME NEW d \in DeviceIds, NEW p \in Profiles, SetDevice(d, p) PROVE Outer!Next
  BY <1>0, <1>2, OuterRest DEF SetDevice, Outer!SetDevice, Outer!Next
<1>3. ASSUME NEW d \in DeviceIds, NEW a \in Amounts, NEW m \in Merchants \cup {AnyMerchant},
             RefuseStart(d, a, m)
      PROVE  Outer!Next
  BY <1>0, <1>3, OuterRest DEF RefuseStart, Outer!RefuseStart, Outer!Next
<1>4. ASSUME NEW d \in DeviceIds, NEW a \in Amounts, NEW m \in Merchants \cup {AnyMerchant},
             LoseStart(d, a, m)
      PROVE  Outer!Next
  <2>1. PICK i \in DOMAIN queue :
          /\ Begins(d, a, m, i) /\ queue[i].delivery = "disconnect_before_accept" /\ Consume(i)
    BY <1>4 DEF LoseStart
  <2>2. Outer!Begins(d, a, m, i) /\ Outer!Consume(i)
    BY <1>0, <2>1, OuterRest, OuterConsume
  <2>3. Outer!LoseStart(d, a, m)
    BY <1>0, <1>4, <2>1, <2>2 DEF LoseStart, Outer!LoseStart
  <2> QED
    BY <2>3 DEF Outer!Next
<1>5. ASSUME NEW id \in DOMAIN operations, Delivered(id) PROVE Outer!Next
  BY <1>0, <1>5, OuterStages DEF Delivered, Outer!Delivered, Outer!Next
<1>6. CASE Reset
  BY <1>0, <1>6 DEF Reset, Outer!Reset, Outer!Next, NoCounts, Outer!NoCounts,
     DefaultProfile, Outer!DefaultProfile
<1> QED
  BY <1>1, <1>2, <1>3, <1>4, <1>5, <1>6 DEF Loopless

-----------------------------------------------------------------------------
\* Serving an operation by one turn of the loop and then to the target is
\* serving it to the target.

\* An operation as the loop meets it: the clock may stand at its deadline.
Fair(op, t) ==
  /\ op \in Operation
  /\ Valid(op.scenario)
  /\ Sound(op)
  /\ Active(op) => op.started <= t /\ t <= op.deadline

\* A step leaves nothing due before it.
LEMMA StepPunctual ==
  ASSUME NEW op \in Operation, NEW t \in Nat, t <= op.deadline
  PROVE  Step(op, t) \in Operation /\ Punctual(Step(op, t), t)
<1> DEFINE new == Step(op, t)
<1>1. new \in Operation /\ new.deadline = op.deadline /\ new.stageStarted = t
  <2>1. new.stageStarted = t
    BY TransitionFields DEF Step
  <2> QED
    BY <2>1, StepType DEF Frame
<1> HIDE DEF new
<1>2. Delay(new) \in Nat /\ op.deadline \in Nat
  BY <1>1, DueType DEF Operation
<1>3. Due(new) >= t
  BY <1>1, <1>2 DEF Due, Sooner
<1> QED
  BY <1>1, <1>3 DEF new, Punctual

\* The turn that serves an operation that is due.
LEMMA TurnFair ==
  ASSUME NEW op, NEW from \in Nat, NEW to \in Nat, Fair(op, from), Active(op), Due(op) <= to
  PROVE  LET t   == Later(Due(op), from)
             new == Step(op, t)
         IN  /\ t \in Nat /\ from <= t /\ t <= op.deadline
             /\ Turn(from, to)[op] = new
             /\ Fair(new, t) /\ Frame(op, new) /\ Punctual(new, t)
<1> DEFINE t   == Later(Due(op), from)
           new == Step(op, t)
<1>0. /\ op \in Operation /\ op.deadline \in Nat /\ op.started \in Nat
      /\ op.started <= from /\ from <= op.deadline /\ Sound(op) /\ Valid(op.scenario)
  BY DEF Fair, Operation
<1>1. Due(op) \in Nat /\ Due(op) <= op.deadline
  BY <1>0, DueType DEF Due, Sooner, Operation
<1>2. t \in Nat /\ from <= t /\ op.started <= t /\ t <= op.deadline
  BY <1>0, <1>1 DEF Later
<1>3. Turn(from, to)[op] = new
  BY <1>0 DEF Turn
<1> HIDE DEF t
<1>4. new \in Operation /\ Frame(op, new) /\ Sound(new) /\ Punctual(new, t)
  BY <1>0, <1>2, StepType, StepSound, StepPunctual
<1> HIDE DEF new
<1>5. Fair(new, t)
  BY <1>0, <1>2, <1>4 DEF Fair, Frame
<1> QED
  BY <1>2, <1>3, <1>4, <1>5 DEF t, new

\* A punctual operation takes its turns alike wherever the call began.
LEMMA FourTurns ==
  ASSUME NEW op \in Operation, NEW one \in Nat, NEW two \in Nat, NEW to \in Nat, NEW t \in Nat,
         one <= t, two <= t, Punctual(op, t)
  PROVE  Turn(one, to)[Turn(one, to)[Turn(one, to)[Turn(one, to)[op]]]]
           = Turn(two, to)[Turn(two, to)[Turn(two, to)[Turn(two, to)[op]]]]
<1> DEFINE f == Turn(one, to)
           g == Turn(two, to)
           P(x) == x \in Operation /\ Punctual(x, t)
<1> HIDE DEF f, g
<1>1. ASSUME NEW x, P(x) PROVE f[x] = g[x] /\ P(f[x])
  <2>1. Turn(one, to)[x] = Turn(two, to)[x] /\ P(Turn(one, to)[x])
    BY <1>1, TurnPunctual
  <2> QED
    BY <2>1 DEF f, g
<1>2. P(op)
  OBVIOUS
<1> HIDE DEF P
<1>3. f[op] = g[op] /\ P(f[op])
  BY <1>1, <1>2
<1>4. f[f[op]] = g[g[op]] /\ P(f[f[op]])
  BY <1>1, <1>3
<1>5. f[f[f[op]]] = g[g[g[op]]] /\ P(f[f[f[op]]])
  BY <1>1, <1>4
<1>6. f[f[f[f[op]]]] = g[g[g[g[op]]]]
  BY <1>1, <1>5
<1> QED
  BY <1>6 DEF f, g

\* An operation of which nothing is due is not served.
LEMMA SettleQuiet ==
  ASSUME NEW op \in Operation, NEW from \in Nat, NEW to \in Nat, Quiet(op, to)
  PROVE  Settle(op, from, to) = op
<1>1. Turn(from, to)[op] = op
  BY DueType DEF Turn, Quiet
<1> QED
  BY <1>1, Zenon DEF Settle

\* The one that the loop serves.
LEMMA SettleServed ==
  ASSUME NEW op, NEW from \in Nat, NEW to \in Nat, Fair(op, from), Active(op), Due(op) <= to
  PROVE  LET t == Later(Due(op), from)
         IN  Settle(Step(op, t), t, to) = Settle(op, from, to)
<1> DEFINE t    == Later(Due(op), from)
           new  == Step(op, t)
           f    == Turn(from, to)
           g    == Turn(t, to)
           last == Settle(op, from, to)
<1>1. t \in Nat /\ from <= t /\ f[op] = new /\ new \in Operation /\ Punctual(new, t)
  BY TurnFair DEF Fair
<1> HIDE DEF t, new
<1>2. f[f[f[f[new]]]] = g[g[g[g[new]]]]
  BY <1>1, FourTurns
<1>3. last = f[f[f[f[f[op]]]]]
  BY DEF Settle
<1>4. Settle(new, t, to) = g[g[g[g[g[new]]]]]
  BY DEF Settle
<1>5. last \in Operation /\ Quiet(last, to)
  BY SettleType DEF Fair
<1>6. g[last] = last
  <2> HIDE DEF last
  <2> QED
    BY <1>5, DueType DEF Turn, Quiet
<1> HIDE DEF f, g, last
<1>7. g[g[g[g[g[new]]]]] = last
  BY <1>1, <1>2, <1>3, <1>6
<1> QED
  BY <1>4, <1>7 DEF t, new, last

\* The others: the clock moves past none of their due times.
LEMMA SettleWaiting ==
  ASSUME NEW op, NEW from \in Nat, NEW next \in Nat, NEW to \in Nat, from <= next, Fair(op, from),
         Active(op) /\ Due(op) <= to => next <= Later(Due(op), from)
  PROVE  Settle(op, next, to) = Settle(op, from, to)
<1>0. op \in Operation
  BY DEF Fair
<1>1. CASE Active(op) /\ Due(op) <= to
  <2> DEFINE t   == Later(Due(op), from)
             new == Step(op, t)
             f   == Turn(from, to)
             g   == Turn(next, to)
  <2>1. t \in Nat /\ from <= t /\ next <= t /\ f[op] = new /\ new \in Operation /\ Punctual(new, t)
    BY <1>1, TurnFair DEF Fair
  <2>2. g[op] = new
    <3>1. Due(op) \in Nat
      BY <1>0, DueType
    <3>2. Later(Due(op), next) = t
      BY <1>1, <3>1 DEF Later
    <3>3. g[op] = Step(op, Later(Due(op), next))
      BY <1>0, <1>1 DEF Turn
    <3> QED
      BY <3>2, <3>3
  <2> HIDE DEF t, new
  <2>3. f[f[f[f[new]]]] = g[g[g[g[new]]]]
    BY <2>1, FourTurns
  <2>4. Settle(op, from, to) = f[f[f[f[f[op]]]]] /\ Settle(op, next, to) = g[g[g[g[g[op]]]]]
    BY DEF Settle
  <2> HIDE DEF f, g
  <2> QED
    BY <2>1, <2>2, <2>3, <2>4
<1>2. CASE ~(Active(op) /\ Due(op) <= to)
  <2>1. Quiet(op, to)
    BY <1>0, <1>2, DueType DEF Quiet
  <2> QED
    BY <1>0, <2>1, SettleQuiet
<1> QED
  BY <1>1, <1>2

-----------------------------------------------------------------------------
\* The inductive invariant.

\* Every operation is fair at t and started no later.
FairIn(ops, t) == \A id \in DOMAIN ops : Fair(ops[id], t) /\ ops[id].started <= t

\* Between calls the operations are good and quiet, as without the loop; inside
\* advance() the clock is on its way and has passed no deadline.
LoopInv ==
  /\ TypeOK
  /\ OneOpenIn(operations)
  /\ ReadyIn(operations, devices)
  /\ target \in Nat \cup {Never}
  /\ Running => now <= target /\ FairIn(operations, now)
  /\ ~Running => GoodIn(operations, now) /\ QuietIn(operations, now)

\* Between calls it is the invariant of the engine.
LEMMA AtRest ==
  ~Running => (LoopInv <=> IInv /\ target = Never)
BY DEF LoopInv, IInv, Running

LEMMA LoopInvInit ==
  LoopInit => LoopInv
BY IInvInit, AtRest DEF LoopInit, Running

LEMMA GoodFair ==
  ASSUME NEW ops, NEW t, GoodIn(ops, t), t \in Nat
  PROVE  FairIn(ops, t)
<1> SUFFICES ASSUME NEW id \in DOMAIN ops PROVE Fair(ops[id], t) /\ ops[id].started <= t
  BY DEF FairIn
<1>1. Good(ops[id], t) /\ ops[id].started <= t
  BY DEF GoodIn
<1>2. ops[id].deadline \in Nat
  BY <1>1 DEF Good, Operation
<1> QED
  BY <1>1, <1>2 DEF Good, Fair, InTime

\* A call of a handler that does not advance the clock.
LEMMA LooplessStep ==
  ASSUME LoopInv, Loopless
  PROVE  LoopInv'
<1>0. ~Running /\ ~Running' /\ IInv /\ target' = Never
  BY AtRest DEF Loopless, Running
<1>a. queue \in Seq(Script)
  BY <1>0 DEF IInv, TypeOK
<1>1. ASSUME NEW s \in Offered, Arm(s) PROVE IInv'
  BY <1>0, <1>1, EngineAssumption, ArmStep
<1>2. ASSUME NEW d \in DeviceIds, NEW p \in Profiles, SetDevice(d, p) PROVE IInv'
  BY <1>0, <1>2, EngineAssumption, SetDeviceStep
<1>3. ASSUME NEW d \in DeviceIds, NEW a \in Amounts, NEW m \in Merchants \cup {AnyMerchant},
             RefuseStart(d, a, m) \/ LoseStart(d, a, m)
      PROVE  IInv'
  <2>1. queue' \in Seq(Script)
    BY <1>a, <1>3, ConsumeType DEF RefuseStart, LoseStart
  <2> QED
    BY <1>0, <1>3, <2>1, CountedRequest DEF RefuseStart, LoseStart
<1>4. ASSUME NEW id \in DOMAIN operations, Delivered(id) PROVE IInv'
  BY <1>0, <1>4, DeliveredStep
<1>5. ASSUME Reset PROVE IInv'
  <2>1. [Next]_vars
    BY <1>5 DEF Next
  <2> QED
    BY <1>0, <2>1, IInvNext
<1>6. IInv'
  BY <1>1, <1>2, <1>3, <1>4, <1>5 DEF Loopless
<1> QED
  BY <1>0, <1>6 DEF LoopInv, IInv, Running

\* What it takes to leave the engine inside advance().
LEMMA EnterStep ==
  ASSUME LoopInv, NEW to \in Nat, Enter(to), now <= to,
         UNCHANGED <<now, generation>>,
         NEW ops, operations' = ops, GoodIn(ops, now), OneOpenIn(ops), ReadyIn(ops, devices'),
         DOMAIN ops \subseteq {generation} \X (1 .. serial' - 1), serial' \in Nat \ {0},
         DOMAIN devices' \subseteq DeviceIds,
         \A d \in DOMAIN devices' : devices'[d] \in DeviceProfile,
         queue' \in Seq(Script), counters' \in Counters
  PROVE  LoopInv'
<1>1. now \in Nat /\ generation \in Nat \ {0}
  BY DEF LoopInv, TypeOK
<1>2. target' = to /\ Running'
  BY DEF Enter, Running, Never
<1>3. \A i \in DOMAIN ops : ops[i] \in Operation /\ ops[i].scenario \in Script
  BY DEF GoodIn, Good, Operation, Script
<1>4. TypeOK'
  BY <1>1, <1>3 DEF TypeOK
<1>5. FairIn(ops, now)
  BY <1>1, GoodFair
<1> QED
  BY <1>1, <1>2, <1>4, <1>5 DEF LoopInv

LEMMA LoopStartStep ==
  ASSUME LoopInv, NEW d, NEW a \in Nat, NEW m, LoopStart(d, a, m)
  PROVE  LoopInv'
<1>0. ~Running /\ IInv
  BY AtRest DEF LoopStart, Enter
<1>1. PICK i \in DOMAIN queue :
        /\ Begins(d, a, m, i) /\ Consume(i) /\ operations' = Admitted(queue[i], a)
        /\ queue[i].delivery # "disconnect_before_accept"
  BY DEF LoopStart
<1>2. /\ queue \in Seq(Script) /\ queue[i] \in Script
      /\ now \in Nat /\ serial \in Nat \ {0} /\ counters \in Counters
      /\ DOMAIN devices \subseteq DeviceIds
      /\ \A x \in DOMAIN devices : devices[x] \in DeviceProfile
  BY <1>0 DEF IInv, TypeOK
<1>3. queue' \in Seq(Script)
  BY <1>1, <1>2, ConsumeType
<1>4. /\ queue[i].device \in DOMAIN devices /\ devices[queue[i].device].online
      /\ ~devices[queue[i].device].setupError /\ Idle(queue[i].device)
  BY <1>1 DEF Begins, FirstFor, Admissible
<1>5. /\ Enter(now) /\ serial' = serial + 1 /\ counters' = CountAccepted
      /\ UNCHANGED <<now, generation, devices>>
  BY DEF LoopStart
<1> DEFINE ops == Admitted(queue[i], a)
<1>6. /\ DOMAIN ops \subseteq {generation} \X (1 .. serial)
      /\ GoodIn(ops, now) /\ OneOpenIn(ops) /\ ReadyIn(ops, devices)
  BY <1>0, <1>2, <1>4, AdmitOpens
<1>7. counters' \in Counters
  BY <1>2, <1>5, AcceptedType
<1> HIDE DEF ops
<1>8. serial' \in Nat \ {0} /\ serial' - 1 = serial
  BY <1>2, <1>5
<1> QED
  BY <1>1, <1>2, <1>3, <1>5, <1>6, <1>7, <1>8, EnterStep DEF ops

LEMMA LoopStandaloneStep ==
  ASSUME LoopInv, NEW s \in Scenario, NEW a \in Nat, LoopStandalone(s, a)
  PROVE  LoopInv'
<1>0. ~Running /\ IInv
  BY AtRest DEF LoopStandalone, Enter
<1>1. /\ Valid(s) /\ Idle(s.device) /\ operations' = Admitted(s, a)
      /\ s.device \in DOMAIN devices /\ devices[s.device].online /\ ~devices[s.device].setupError
      /\ queue' = IF s.uses = 1 THEN queue ELSE Append(queue, [s EXCEPT !.uses = s.uses - 1])
      /\ Enter(now) /\ serial' = serial + 1 /\ counters' = CountAccepted
      /\ UNCHANGED <<now, generation, devices>>
  BY DEF LoopStandalone, Alone, Admissible
<1>2. /\ queue \in Seq(Script) /\ s \in Script
      /\ now \in Nat /\ serial \in Nat \ {0} /\ counters \in Counters
      /\ DOMAIN devices \subseteq DeviceIds
      /\ \A x \in DOMAIN devices : devices[x] \in DeviceProfile
  BY <1>0, <1>1 DEF IInv, TypeOK, Script
<1>3. queue' \in Seq(Script)
  <2>1. s.uses # 1 => [s EXCEPT !.uses = s.uses - 1] \in Script
    BY <1>2, ScriptUse
  <2> QED
    BY <1>1, <1>2, <2>1
<1> DEFINE ops == Admitted(s, a)
<1>6. /\ DOMAIN ops \subseteq {generation} \X (1 .. serial)
      /\ GoodIn(ops, now) /\ OneOpenIn(ops) /\ ReadyIn(ops, devices)
  BY <1>0, <1>1, <1>2, AdmitOpens
<1>7. counters' \in Counters
  BY <1>1, <1>2, AcceptedType
<1> HIDE DEF ops
<1>8. serial' \in Nat \ {0} /\ serial' - 1 = serial
  BY <1>1, <1>2
<1> QED
  BY <1>1, <1>2, <1>3, <1>6, <1>7, <1>8, EnterStep DEF ops

LEMMA LoopAdvanceStep ==
  ASSUME LoopInv, NEW delta \in Nat, LoopAdvance(delta)
  PROVE  LoopInv'
<1>0. ~Running /\ IInv
  BY AtRest DEF LoopAdvance, Enter
<1>1. /\ Enter(now + delta) /\ UNCHANGED vars
  BY DEF LoopAdvance
<1>2. /\ queue' \in Seq(Script) /\ now \in Nat /\ serial' \in Nat \ {0} /\ counters' \in Counters
      /\ DOMAIN devices' \subseteq DeviceIds
      /\ \A x \in DOMAIN devices' : devices'[x] \in DeviceProfile
      /\ DOMAIN operations \subseteq {generation} \X (1 .. serial' - 1)
      /\ GoodIn(operations, now) /\ OneOpenIn(operations) /\ ReadyIn(operations, devices')
      /\ UNCHANGED <<now, generation, operations>>
  BY <1>0, <1>1 DEF IInv, TypeOK, vars
<1>3. now + delta \in Nat /\ now <= now + delta
  BY <1>2
<1> QED
  BY <1>1, <1>2, <1>3, EnterStep

\* One payment's charge is counted as a natural number.
LEMMA CountedType ==
  ASSUME counters \in Counters, NEW old, NEW new
  PROVE  Counted(old, new) \in Counters
<1>1. ASSUME NEW a \in Nat, NEW r \in Nat
      PROVE  [counters EXCEPT !.approvals = @ + a, !.reversals = @ + r] \in Counters
  <2>1. counters.approvals + a \in Nat /\ counters.reversals + r \in Nat
    BY DEF Counters
  <2> QED
    BY <2>1 DEF Counters
<1> DEFINE a == IF new.charged /\ ~old.charged THEN 1 ELSE 0
           r == IF old.charged /\ ~new.charged THEN 1 ELSE 0
<1>2. a \in Nat /\ r \in Nat
  OBVIOUS
<1>3. Counted(old, new) = [counters EXCEPT !.approvals = @ + a, !.reversals = @ + r]
  BY DEF Counted
<1> HIDE DEF a, r
<1> QED
  BY <1>1, <1>2, <1>3

LEMMA LoopActionStep ==
  ASSUME LoopInv, NEW id \in DOMAIN operations, NEW event \in Inputs, LoopAction(id, event)
  PROVE  LoopInv'
<1>0. ~Running /\ IInv
  BY AtRest DEF LoopAction, Enter
<1>1. PICK next \in Stages :
        Reacts(operations[id], event, next) /\ operations' = Reacted(id, event, next)
  BY DEF LoopAction
<1>2. /\ Enter(now) /\ Disconnect(id, event) /\ UNCHANGED <<now, generation, queue, serial>>
      /\ counters' = Counted(operations[id], operations'[id])
  BY DEF LoopAction
<1>3. /\ queue \in Seq(Script) /\ now \in Nat /\ serial \in Nat \ {0} /\ counters \in Counters
      /\ DOMAIN devices \subseteq DeviceIds
      /\ DOMAIN operations \subseteq {generation} \X (1 .. serial - 1)
  BY <1>0 DEF IInv, TypeOK
<1> DEFINE ops == Reacted(id, event, next)
<1>4. /\ DOMAIN ops = DOMAIN operations
      /\ GoodIn(ops, now) /\ OneOpenIn(ops) /\ ReadyIn(ops, devices')
      /\ DOMAIN devices' = DOMAIN devices
      /\ \A d \in DOMAIN devices : devices'[d] \in DeviceProfile
  BY <1>0, <1>1, <1>2, ActionOpens
<1>5. counters' \in Counters
  BY <1>2, <1>3, CountedType
<1> HIDE DEF ops
<1> QED
  BY <1>1, <1>2, <1>3, <1>4, <1>5, EnterStep DEF ops

\* The operation served is the one whose due time is the least: the clock
\* passes nobody's deadline, and moves past no due time.
LEMMA TurnPasses ==
  ASSUME LoopInv, NEW id \in DOMAIN operations, LoopTurn(id)
  PROVE  LET t == Later(Due(operations[id]), now) IN
         /\ t \in Nat /\ now <= t /\ t <= target
         /\ Fair(operations[id], now) /\ Active(operations[id]) /\ Due(operations[id]) <= target
         /\ \A other \in DOMAIN operations :
              /\ Fair(operations[other], now) /\ operations[other].started <= now
              /\ Active(operations[other]) => t <= operations[other].deadline
              /\ Active(operations[other]) /\ Due(operations[other]) <= target
                   => t <= Later(Due(operations[other]), now)
<1> DEFINE t == Later(Due(operations[id]), now)
<1>1. /\ now \in Nat /\ target \in Nat /\ now <= target
      /\ FairIn(operations, now)
  BY DEF LoopTurn, LoopInv, TypeOK, Running
<1>2. \A i \in DOMAIN operations :
        /\ Fair(operations[i], now) /\ operations[i].started <= now
        /\ operations[i].deadline \in Nat /\ Due(operations[i]) \in Nat
        /\ Active(operations[i]) => now <= operations[i].deadline
        /\ Due(operations[i]) <= operations[i].deadline
  <2> SUFFICES ASSUME NEW i \in DOMAIN operations
               PROVE  /\ Fair(operations[i], now) /\ operations[i].started <= now
                      /\ operations[i].deadline \in Nat /\ Due(operations[i]) \in Nat
                      /\ Active(operations[i]) => now <= operations[i].deadline
                      /\ Due(operations[i]) <= operations[i].deadline
    OBVIOUS
  <2>1. Fair(operations[i], now) /\ operations[i].started <= now
    BY <1>1 DEF FairIn
  <2>2. operations[i] \in Operation /\ operations[i].deadline \in Nat
    BY <2>1 DEF Fair, Operation
  <2>3. operations[i].stageStarted + Delay(operations[i]) \in Nat
    BY <2>2, DueType DEF Operation
  <2> QED
    BY <2>1, <2>2, <2>3, DueType DEF Fair, Due, Sooner
<1>3. Active(operations[id]) /\ Due(operations[id]) <= target
  BY DEF LoopTurn, Pending, Open
<1>4. \A other \in DOMAIN operations :
        Active(operations[other]) /\ Due(operations[other]) <= target
          => Due(operations[id]) <= Due(operations[other])
  BY DEF LoopTurn, Pending, Open
<1>5. t \in Nat /\ now <= t /\ t <= target
  BY <1>1, <1>2, <1>3 DEF Later
<1>6. ASSUME NEW other \in DOMAIN operations, Active(operations[other])
      PROVE  t <= operations[other].deadline
  <2>1. CASE Due(operations[other]) <= target
    <3>1. Due(operations[id]) <= Due(operations[other])
      BY <1>4, <1>6, <2>1
    <3> QED
      BY <1>1, <1>2, <1>6, <3>1 DEF Later
  <2>2. CASE ~(Due(operations[other]) <= target)
    BY <1>1, <1>2, <1>5, <2>2
  <2> QED
    BY <2>1, <2>2
<1>7. ASSUME NEW other \in DOMAIN operations, Active(operations[other]),
             Due(operations[other]) <= target
      PROVE  t <= Later(Due(operations[other]), now)
  <2>1. Due(operations[id]) <= Due(operations[other])
    BY <1>4, <1>7
  <2> QED
    BY <1>1, <1>2, <2>1 DEF Later
<1> QED
  BY <1>2, <1>3, <1>5, <1>6, <1>7

LEMMA LoopTurnStep ==
  ASSUME LoopInv, NEW id \in DOMAIN operations, LoopTurn(id)
  PROVE  LoopInv'
<1> DEFINE op  == operations[id]
           t   == Later(Due(op), now)
           new == Step(op, t)
<1>0. /\ Running /\ now \in Nat /\ target \in Nat /\ now <= target
      /\ generation \in Nat \ {0} /\ serial \in Nat \ {0} /\ counters \in Counters
      /\ OneOpenIn(operations) /\ ReadyIn(operations, devices)
  BY DEF LoopTurn, LoopInv, TypeOK, Running
<1>1. /\ t \in Nat /\ now <= t /\ t <= target
      /\ Fair(op, now) /\ Active(op) /\ Due(op) <= target /\ op.started <= now
      /\ \A other \in DOMAIN operations :
           /\ Fair(operations[other], now) /\ operations[other].started <= now
           /\ Active(operations[other]) => t <= operations[other].deadline
  BY TurnPasses
<1>2. /\ now' = t
      /\ operations' = [operations EXCEPT ![id] = new]
      /\ counters' = Counted(op, operations'[id])
      /\ UNCHANGED <<generation, devices, queue, serial, target>>
  <2>1. now' = t
    BY DEF LoopTurn
  <2>2. operations' = [operations EXCEPT ![id] = Step(@, now')]
    BY DEF LoopTurn
  <2> QED
    BY <2>1, <2>2 DEF LoopTurn
<1>3. Fair(new, t) /\ Frame(op, new)
  BY <1>0, <1>1, TurnFair
<1> HIDE DEF t, new
<1>4. /\ DOMAIN operations' = DOMAIN operations
      /\ operations'[id] = new
      /\ \A i \in DOMAIN operations \ {id} : operations'[i] = operations[i]
  BY <1>2
<1>5. FairIn(operations', t)
  <2>1. ASSUME NEW i \in DOMAIN operations \ {id}
        PROVE  Fair(operations[i], t) /\ operations[i].started <= t
    <3>1. operations[i].started \in Nat
      BY <1>1 DEF Fair, Operation
    <3> QED
      BY <1>0, <1>1, <3>1 DEF Fair
  <2>2. new.started <= t
    <3>1. new.started \in Nat /\ new.started = op.started
      BY <1>3 DEF Fair, Operation, Frame
    <3> QED
      BY <1>0, <1>1, <3>1
  <2> QED
    BY <1>3, <1>4, <2>1, <2>2 DEF FairIn
<1>6. /\ Open(operations') \subseteq Open(operations)
      /\ \A i \in Open(operations') : /\ operations'[i].device = operations[i].device
                                     /\ operations'[i].merchant = operations[i].merchant
  BY <1>1, <1>3, <1>4 DEF Open, Frame
<1>7. OneOpenIn(operations') /\ ReadyIn(operations', devices)
  <2>1. OneOpenIn(operations')
    BY <1>0, <1>6 DEF OneOpenIn
  <2>2. ReadyIn(operations', devices)
    BY <1>0, <1>6 DEF ReadyIn
  <2> QED
    BY <2>1, <2>2
<1>8. counters' \in Counters
  BY <1>0, <1>2, CountedType
<1>9. \A i \in DOMAIN operations' : operations'[i] \in Operation /\ operations'[i].scenario \in Script
  BY <1>5 DEF FairIn, Fair, Operation, Script
<1>10. TypeOK'
  BY <1>1, <1>2, <1>4, <1>8, <1>9 DEF LoopInv, TypeOK
<1> QED
  BY <1>0, <1>1, <1>2, <1>5, <1>7, <1>10 DEF LoopInv, Running

\* Nothing is due by the target when the loop ends.
LEMMA EndGood ==
  ASSUME LoopInv, LoopEnd
  PROVE  GoodIn(operations, target) /\ QuietIn(operations, target)
<1>1. /\ now \in Nat /\ target \in Nat /\ now <= target
      /\ FairIn(operations, now)
  BY DEF LoopEnd, LoopInv, TypeOK, Running
<1> SUFFICES ASSUME NEW id \in DOMAIN operations
             PROVE  /\ Good(operations[id], target) /\ operations[id].started <= target
                    /\ Quiet(operations[id], target)
  BY DEF GoodIn, QuietIn
<1> DEFINE op == operations[id]
<1>2. Fair(op, now) /\ op.started <= now /\ op \in Operation
  BY <1>1 DEF FairIn, Fair
<1>3. op.started \in Nat /\ op.deadline \in Nat /\ Due(op) \in Nat
      /\ op.stageStarted + Delay(op) \in Nat
  BY <1>2, DueType DEF Operation
<1>4. Active(op) => Due(op) > target
  BY <1>1, <1>3 DEF LoopEnd, Pending, Open
<1>5. Due(op) <= op.deadline
  BY <1>3 DEF Due, Sooner
<1>6. Active(op) => InTime(op, target)
  BY <1>1, <1>2, <1>3, <1>4, <1>5 DEF InTime
<1> QED
  BY <1>1, <1>2, <1>3, <1>4, <1>6 DEF Good, Fair, Quiet

LEMMA LoopEndStep ==
  ASSUME LoopInv, LoopEnd
  PROVE  LoopInv'
<1>1. /\ GoodIn(operations, target) /\ QuietIn(operations, target)
      /\ target \in Nat
  BY EndGood DEF LoopInv, LoopEnd, Running
<1> QED
  BY <1>1 DEF LoopEnd, LoopInv, TypeOK, Running

LEMMA LoopInvNext ==
  ASSUME LoopInv, [LoopNext]_loopVars
  PROVE  LoopInv'
<1>1. CASE Loopless
  BY <1>1, LooplessStep
<1>2. ASSUME NEW d \in DeviceIds, NEW a \in Amounts, NEW m \in Merchants \cup {AnyMerchant},
             LoopStart(d, a, m)
      PROVE  LoopInv'
  BY <1>2, EngineAssumption, LoopStartStep
<1>3. ASSUME NEW s \in Offered, NEW a \in Amounts, LoopStandalone(s, a) PROVE LoopInv'
  BY <1>3, EngineAssumption, LoopStandaloneStep
<1>4. ASSUME NEW delta \in Deltas, LoopAdvance(delta) PROVE LoopInv'
  BY <1>4, EngineAssumption, LoopAdvanceStep
<1>5. ASSUME NEW id \in DOMAIN operations, LoopTurn(id) PROVE LoopInv'
  BY <1>5, LoopTurnStep
<1>6. ASSUME NEW id \in DOMAIN operations, NEW event \in Inputs, LoopAction(id, event)
      PROVE  LoopInv'
  BY <1>6, LoopActionStep
<1>7. CASE LoopEnd
  BY <1>7, LoopEndStep
<1>8. CASE UNCHANGED loopVars
  BY <1>8 DEF loopVars, vars, LoopInv, TypeOK, GoodIn, QuietIn, FairIn, OneOpenIn, ReadyIn, Open, Running
<1> QED
  BY <1>1, <1>2, <1>3, <1>4, <1>5, <1>6, <1>7, <1>8 DEF LoopNext

\* The invariant holds throughout.
THEOREM LoopInvariance == LoopSpec => []LoopInv
BY LoopInvInit, LoopInvNext, PTL DEF LoopSpec

\* Within the loop, too, every terminal handles one payment at a time.
THEOREM OneAtATimeInLoop == LoopSpec => []OneOpenPerDevice
<1>1. LoopInv => OneOpenPerDevice
  BY DEF LoopInv, OneOpenIn, OneOpenPerDevice
<1> QED
  BY <1>1, LoopInvariance, PTL

\* Within the loop, too, a payment in progress is on a device ready for it.
THEOREM ReadyInLoop == LoopSpec => []OpenOnReadyDevice
<1>1. LoopInv => OpenOnReadyDevice
  BY DEF LoopInv, ReadyIn, OpenOnReadyDevice
<1> QED
  BY <1>1, LoopInvariance, PTL

-----------------------------------------------------------------------------
\* Counting one operation at a time comes to the tally of all of them.

\* So many approvals and reversals more.
More(counts, a, r) == [counts EXCEPT !.approvals = @ + a, !.reversals = @ + r]

LEMMA MoreTwice ==
  ASSUME counters \in Counters, NEW a \in Nat, NEW r \in Nat, NEW b \in Nat, NEW q \in Nat
  PROVE  More(More(counters, a, r), b, q) = More(counters, a + b, r + q)
<1> DEFINE once == More(counters, a, r)
<1>1. counters.approvals \in Nat /\ counters.reversals \in Nat
  BY DEF Counters
<1>2. counters.approvals + a \in Nat /\ counters.reversals + r \in Nat
  BY <1>1
<1>3. /\ once.approvals = counters.approvals + a /\ once.reversals = counters.reversals + r
      /\ once \in Counters /\ once.requests = counters.requests
      /\ once.accepted = counters.accepted /\ once.delivered = counters.delivered
  BY <1>2 DEF Counters, More
<1>4. /\ once.approvals + b = counters.approvals + (a + b)
      /\ once.reversals + q = counters.reversals + (r + q)
  BY <1>1, <1>3
<1> HIDE DEF once
<1>5. More(once, b, q) = More(counters, a + b, r + q)
  BY <1>3, <1>4 DEF Counters, More
<1> QED
  BY <1>5 DEF once

LEMMA CountOne ==
  ASSUME counters \in Counters, NEW ops, NEW id \in DOMAIN ops, NEW new, NEW after,
         IsFiniteSet(DOMAIN ops), DOMAIN after = DOMAIN ops,
         ops[id].charged \in BOOLEAN, new.charged \in BOOLEAN,
         \A i \in DOMAIN ops : ops[i].charged \in BOOLEAN,
         \A i \in DOMAIN ops : after[i].charged \in BOOLEAN,
         new.charged # ops[id].charged => after[id].charged = new.charged
  PROVE  Tally(Counted(ops[id], new), [ops EXCEPT ![id] = new], after)
           = Tally(counters, ops, after)
<1> DEFINE ops2 == [ops EXCEPT ![id] = new]
           A == Charged(ops)
           B == Charged(ops2)
           C == Charged(after)
           up   == IF new.charged /\ ~ops[id].charged THEN 1 ELSE 0
           down == IF ops[id].charged /\ ~new.charged THEN 1 ELSE 0
<1>1. DOMAIN ops2 = DOMAIN ops /\ ops2[id] = new
      /\ \A i \in DOMAIN ops \ {id} : ops2[i] = ops[i]
  OBVIOUS
<1> HIDE DEF ops2
<1>2. /\ id \in A <=> ops[id].charged
      /\ id \in B <=> new.charged
      /\ id \in C <=> after[id].charged
      /\ \A i : i # id => (i \in A <=> i \in B)
  BY <1>1 DEF Charged
<1>3. /\ IsFiniteSet(C \ A) /\ IsFiniteSet(A \ C) /\ IsFiniteSet(C \ B) /\ IsFiniteSet(B \ C)
      /\ Cardinality(C \ A) \in Nat /\ Cardinality(A \ C) \in Nat
      /\ Cardinality(C \ B) \in Nat /\ Cardinality(B \ C) \in Nat
  <2>1. C \ A \subseteq DOMAIN ops /\ A \ C \subseteq DOMAIN ops
        /\ C \ B \subseteq DOMAIN ops /\ B \ C \subseteq DOMAIN ops
    BY <1>1 DEF Charged
  <2>2. IsFiniteSet(C \ A) /\ IsFiniteSet(A \ C) /\ IsFiniteSet(C \ B) /\ IsFiniteSet(B \ C)
    BY <2>1, FS_Subset
  <2> QED
    BY <2>2, FS_CardinalityType
<1> HIDE DEF A, B, C
<1>4. /\ Cardinality(C \ A) = up + Cardinality(C \ B)
      /\ Cardinality(A \ C) = down + Cardinality(B \ C)
      /\ up \in Nat /\ down \in Nat
  <2>1. CASE new.charged /\ ~ops[id].charged
    <3>1. id \in C /\ id \notin A /\ id \in B
      BY <1>2, <2>1
    <3>2. C \ A = (C \ B) \cup {id} /\ id \notin C \ B /\ A \ C = B \ C
      BY <1>2, <3>1
    <3>3. Cardinality((C \ B) \cup {id}) = Cardinality(C \ B) + 1
      BY <1>3, <3>2, FS_AddElement
    <3>4. Cardinality(C \ A) = Cardinality(C \ B) + 1 /\ Cardinality(A \ C) = Cardinality(B \ C)
      BY <3>2, <3>3, Zenon
    <3> QED
      BY <1>3, <2>1, <3>4
  <2>2. CASE ops[id].charged /\ ~new.charged
    <3>1. id \notin C /\ id \in A /\ id \notin B
      BY <1>2, <2>2
    <3>2. A \ C = (B \ C) \cup {id} /\ id \notin B \ C /\ C \ A = C \ B
      BY <1>2, <3>1
    <3>3. Cardinality((B \ C) \cup {id}) = Cardinality(B \ C) + 1
      BY <1>3, <3>2, FS_AddElement
    <3>4. Cardinality(A \ C) = Cardinality(B \ C) + 1 /\ Cardinality(C \ A) = Cardinality(C \ B)
      BY <3>2, <3>3, Zenon
    <3> QED
      BY <1>3, <2>2, <3>4
  <2>3. CASE new.charged = ops[id].charged
    <3>1. \A i : i \in A <=> i \in B
      BY <1>2, <2>3
    <3>2. A \subseteq DOMAIN ops /\ B \subseteq DOMAIN ops
      BY <1>1 DEF A, B, Charged
    <3>3. A = B
      BY <3>1, <3>2
    <3> QED
      BY <1>3, <2>3, <3>3
  <2> QED
    BY <2>1, <2>2, <2>3
<1> DEFINE b    == Cardinality(C \ B)
           q    == Cardinality(B \ C)
           once == Counted(ops[id], new)
<1>5. once = More(counters, up, down)
  BY DEF Counted, More
<1>6. Tally(counters, ops, after) = More(counters, up + b, down + q)
  BY <1>4 DEF Tally, A, C, More
<1>7. Tally(once, ops2, after) = More(once, b, q)
  BY DEF Tally, B, C, More
<1>8. b \in Nat /\ q \in Nat /\ up \in Nat /\ down \in Nat
  BY <1>3, <1>4
<1> HIDE DEF up, down, b, q, once
<1>9. More(More(counters, up, down), b, q) = More(counters, up + b, down + q)
  BY <1>8, MoreTwice
<1> QED
  BY <1>5, <1>6, <1>7, <1>9 DEF once, ops2

\* Nothing is counted where nothing happened.
LEMMA CountNothing ==
  ASSUME NEW counts \in Counters, NEW ops
  PROVE  Tally(counts, ops, ops) = counts
<1>1. Charged(ops) \ Charged(ops) = {} /\ Cardinality({}) = 0
  BY FS_EmptySet
<1>2. Cardinality(Charged(ops) \ Charged(ops)) = 0
  BY <1>1, Zenon
<1>3. [counts EXCEPT !.approvals = counts.approvals + 0,
                     !.reversals = counts.reversals + 0] = counts
  <2>1. counts.approvals + 0 = counts.approvals /\ counts.reversals + 0 = counts.reversals
    BY DEF Counters
  <2> QED
    BY <2>1 DEF Counters
<1> QED
  BY <1>2, <1>3 DEF Tally

-----------------------------------------------------------------------------
\* The refinement: entering advance() is the caller's whole operation, and the
\* loop's turns and its end change nothing that callers see.

\* The identifiers are finitely many, and charging is a yes or a no.
LEMMA LoopFacts ==
  ASSUME LoopInv
  PROVE  /\ now \in Nat /\ counters \in Counters /\ IsFiniteSet(DOMAIN operations)
         /\ \A i \in DOMAIN operations :
              operations[i] \in Operation /\ operations[i].charged \in BOOLEAN
<1>1. /\ now \in Nat /\ counters \in Counters /\ generation \in Nat /\ serial \in Nat
      /\ DOMAIN operations \subseteq {generation} \X (1 .. serial - 1)
      /\ \A i \in DOMAIN operations : operations[i] \in Operation
  BY DEF LoopInv, TypeOK
<1>2. IsFiniteSet(DOMAIN operations)
  BY <1>1, IdsFinite
<1> QED
  BY <1>1, <1>2 DEF Operation

\* A call that enters advance() at once shows what the loop will compute.
LEMMA EnterSeen ==
  ASSUME NEW to \in Nat, target' = to, now' = now
  PROVE  /\ Seen' = Settled(operations', now, to)
         /\ (IF Running THEN target ELSE now)' = to
         /\ (IF Running THEN Tally(counters, operations, Seen) ELSE counters)'
              = Tally(counters', operations', Seen')
<1>1. Running'
  BY DEF Running, Never
<1> QED
  BY <1>1 DEF Seen

LEMMA OuterAdmit ==
  ASSUME ~Running, now \in Nat, target' = now, now' = now,
         NEW s, NEW a, operations' = Admitted(s, a), counters' = CountAccepted,
         serial' = serial + 1, now + s.timing.timeout <= Horizon
  PROVE  Outer!Admit(s, a)
<1>1. /\ Seen' = Settled(operations', now, now)
      /\ (IF Running THEN target ELSE now)' = now
      /\ (IF Running THEN Tally(counters, operations, Seen) ELSE counters)'
           = Tally(counters', operations', Seen')
  BY EnterSeen
<1>2. /\ Outer!Admitted(s, a) = Admitted(s, a) /\ Outer!CountAccepted = CountAccepted
  BY OuterRest
<1>3. Seen' = Outer!Settled(Outer!Admitted(s, a), now, now)
  BY <1>1, <1>2, OuterSettled
<1>4. Tally(counters', operations', Seen')
        = Outer!Tally(Outer!CountAccepted, Outer!Admitted(s, a), Seen')
  BY <1>2, OuterTally
<1> QED
  BY <1>1, <1>3, <1>4 DEF Outer!Admit

LEMMA OuterStart ==
  ASSUME LoopInv, NEW d \in DeviceIds, NEW a \in Amounts, NEW m \in Merchants \cup {AnyMerchant},
         LoopStart(d, a, m)
  PROVE  Outer!Next
<1>0. ~Running /\ now \in Nat /\ target' = now
  BY LoopFacts DEF LoopStart, Enter
<1>1. PICK i \in DOMAIN queue :
        /\ Begins(d, a, m, i) /\ queue[i].delivery # "disconnect_before_accept"
        /\ now + queue[i].timing.timeout <= Horizon
        /\ Consume(i) /\ operations' = Admitted(queue[i], a)
  BY DEF LoopStart
<1>2. /\ counters' = CountAccepted /\ serial' = serial + 1
      /\ UNCHANGED <<now, generation, devices>>
  BY DEF LoopStart
<1>3. Outer!Begins(d, a, m, i) /\ Outer!Consume(i)
  BY <1>0, <1>1, OuterRest, OuterConsume
<1>4. Outer!Admit(queue[i], a)
  BY <1>0, <1>1, <1>2, OuterAdmit
<1>5. (IF Running THEN target ELSE now)' = now
  BY <1>0, <1>2, EnterSeen
<1>6. Outer!Start(d, a, m)
  BY <1>0, <1>1, <1>2, <1>3, <1>4, <1>5 DEF Outer!Start
<1> QED
  BY <1>6 DEF Outer!Next

LEMMA OuterStandalone ==
  ASSUME LoopInv, NEW s \in Offered, NEW a \in Amounts, LoopStandalone(s, a)
  PROVE  Outer!Next
<1>0. ~Running /\ now \in Nat /\ target' = now
  BY LoopFacts DEF LoopStandalone, Enter
<1>1. /\ Alone(s, a) /\ now + s.timing.timeout <= Horizon
      /\ operations' = Admitted(s, a) /\ counters' = CountAccepted /\ serial' = serial + 1
      /\ UNCHANGED <<now, generation, devices>>
  BY DEF LoopStandalone
<1>2. Outer!Alone(s, a)
  BY <1>0, <1>1, OuterRest, OuterValid DEF Alone, Outer!Alone
<1>3. Outer!Admit(s, a)
  BY <1>0, <1>1, OuterAdmit
<1>4. (IF Running THEN target ELSE now)' = now
  BY <1>0, <1>1, EnterSeen
<1>5. Outer!Standalone(s, a)
  BY <1>0, <1>1, <1>2, <1>3, <1>4 DEF Outer!Standalone
<1> QED
  BY <1>5 DEF Outer!Next

LEMMA OuterAdvance ==
  ASSUME LoopInv, NEW delta \in Deltas, LoopAdvance(delta)
  PROVE  Outer!Next
<1>0. ~Running /\ now \in Nat /\ now + delta \in Nat /\ target' = now + delta
      /\ now + delta <= Horizon /\ UNCHANGED vars
  BY LoopFacts, EngineAssumption DEF LoopAdvance, Enter
<1>1. /\ Seen' = Settled(operations, now, now + delta)
      /\ (IF Running THEN target ELSE now)' = now + delta
      /\ (IF Running THEN Tally(counters, operations, Seen) ELSE counters)'
           = Tally(counters, operations, Seen')
  <2>1. now' = now /\ operations' = operations /\ counters' = counters
    BY <1>0 DEF vars
  <2> QED
    BY <1>0, <2>1, EnterSeen
<1>2. Seen = operations
  BY <1>0, OuterRest
<1>3. Outer!Advance(delta)
  BY <1>0, <1>1, <1>2, OuterSettled, OuterTally DEF Outer!Advance, vars
<1> QED
  BY <1>3 DEF Outer!Next

LEMMA OuterAction ==
  ASSUME LoopInv, NEW id \in DOMAIN operations, NEW event \in Inputs, LoopAction(id, event)
  PROVE  Outer!Next
<1>0. /\ ~Running /\ target' = now /\ IInv
      /\ now \in Nat /\ counters \in Counters /\ IsFiniteSet(DOMAIN operations)
      /\ \A i \in DOMAIN operations : operations[i] \in Operation /\ operations[i].charged \in BOOLEAN
  BY LoopFacts, AtRest DEF LoopAction, Enter
<1>1. PICK next \in Stages :
        Reacts(operations[id], event, next) /\ operations' = Reacted(id, event, next)
  BY DEF LoopAction
<1>2. /\ counters' = Counted(operations[id], operations'[id]) /\ Disconnect(id, event)
      /\ UNCHANGED <<now, generation, queue, serial>>
  BY DEF LoopAction
<1> DEFINE op    == operations[id]
           new   == React(op, event, next, now)
           after == Settled(operations', now, now)
<1>3. operations' = [operations EXCEPT ![id] = new] /\ operations'[id] = new
      /\ DOMAIN operations' = DOMAIN operations
  BY <1>1 DEF Reacted
<1>4. /\ Good(new, now)
      /\ ~Active(op) => op.stage = "approved" /\ new.stage = "reversed"
  <2>1. Good(op, now) /\ op.started <= now
    BY <1>0 DEF IInv, GoodIn
  <2> QED
    BY <1>0, <1>1, <2>1, ReactGood
<1>5. GoodIn(operations', now)
  BY <1>0, <1>1, <1>2, ActionOpens
<1>6. /\ DOMAIN after = DOMAIN operations
      /\ GoodIn(after, now)
      /\ ~Active(new) => after[id] = new
  <2> DEFINE ops == Reacted(id, event, next)
  <2>1. operations' = ops /\ ops[id] = new /\ DOMAIN ops = DOMAIN operations /\ GoodIn(ops, now)
    BY <1>1, <1>3, <1>5
  <2> HIDE DEF ops, new, after
  <2>2. after = Settled(ops, now, now)
    BY <2>1 DEF after
  <2> QED
    BY <1>0, <2>1, <2>2, SettledGood
<1> HIDE DEF new, after
<1>7. new.charged # op.charged => ~Active(new)
  <2>1. Good(op, now)
    BY <1>0 DEF IInv, GoodIn
  <2>2. /\ new.charged <=> new.stage = "approved"
        /\ op.charged <=> op.stage = "approved"
        /\ new.charged \in BOOLEAN /\ op.charged \in BOOLEAN
    BY <1>4, <2>1 DEF Good, Sound, Honours, Operation
  <2> QED
    BY <1>4, <2>2 DEF Active, ActiveStages
<1>8. Tally(counters', operations', after) = Tally(counters, operations, after)
  <2>1. new.charged \in BOOLEAN /\ \A i \in DOMAIN operations : after[i].charged \in BOOLEAN
    BY <1>4, <1>6 DEF GoodIn, Good, Operation
  <2>2. new.charged # op.charged => after[id].charged = new.charged
    BY <1>6, <1>7
  <2>3. Tally(Counted(op, new), [operations EXCEPT ![id] = new], after)
          = Tally(counters, operations, after)
    BY <1>0, <1>6, <2>1, <2>2, CountOne
  <2> QED
    BY <1>2, <1>3, <2>3
<1>9. /\ Seen' = after
      /\ (IF Running THEN target ELSE now)' = now
      /\ (IF Running THEN Tally(counters, operations, Seen) ELSE counters)'
           = Tally(counters, operations, Seen')
  <2>1. now' = now
    BY <1>2
  <2> QED
    BY <1>0, <1>8, <2>1, EnterSeen DEF after
<1>10. Seen = operations /\ Outer!Reacted(id, event, next) = operations'
  <2>1. Seen = operations
    BY <1>0, OuterRest
  <2> QED
    BY <1>0, <1>1, <2>1, OuterReact DEF Outer!Reacted, Reacted
<1>11. Outer!Disconnect(id, event)
  BY <1>2, <1>10 DEF Outer!Disconnect, Disconnect
<1>12. Outer!Action(id, event)
  <2>1. next \in Outer!Stages /\ Outer!Reacts(Seen[id], event, next)
    BY <1>1, <1>10, OuterStages, OuterReact
  <2>2. Seen' = Outer!Settled(Outer!Reacted(id, event, next), now, now)
    BY <1>9, <1>10, OuterSettled DEF after
  <2>3. Tally(counters, operations, Seen') = Outer!Tally(counters, Seen, Seen')
    BY <1>10, OuterTally
  <2> QED
    BY <1>0, <1>2, <1>9, <1>11, <2>1, <2>2, <2>3 DEF Outer!Action
<1>13. id \in DOMAIN Seen /\ event \in Outer!Inputs
  BY <1>10, OuterStages
<1> QED
  BY <1>12, <1>13 DEF Outer!Next

\* A turn of the loop computes a part of what callers already see.
LEMMA TurnUnseen ==
  ASSUME LoopInv, NEW id \in DOMAIN operations, LoopTurn(id)
  PROVE  UNCHANGED Outer!vars
<1> DEFINE op  == operations[id]
           t   == Later(Due(op), now)
           new == Step(op, t)
           after == Settled(operations, now, target)
<1>0. /\ Running /\ target \in Nat
      /\ now \in Nat /\ counters \in Counters /\ IsFiniteSet(DOMAIN operations)
      /\ \A i \in DOMAIN operations : operations[i] \in Operation /\ operations[i].charged \in BOOLEAN
  BY LoopFacts DEF LoopTurn, LoopInv, Running
<1>1. /\ t \in Nat /\ now <= t /\ t <= target
      /\ Fair(op, now) /\ Active(op) /\ Due(op) <= target
      /\ \A other \in DOMAIN operations :
           /\ Fair(operations[other], now)
           /\ Active(operations[other]) /\ Due(operations[other]) <= target
                => t <= Later(Due(operations[other]), now)
  BY TurnPasses
<1>2. /\ now' = t
      /\ operations' = [operations EXCEPT ![id] = new]
      /\ counters' = Counted(op, operations'[id])
      /\ UNCHANGED <<generation, devices, queue, serial, target>>
  <2>1. now' = t
    BY DEF LoopTurn
  <2>2. operations' = [operations EXCEPT ![id] = Step(@, now')]
    BY DEF LoopTurn
  <2> QED
    BY <2>1, <2>2 DEF LoopTurn
<1>3. Fair(new, t) /\ new \in Operation
  BY <1>0, <1>1, TurnFair DEF Fair
<1>4. Settle(new, t, target) = Settle(op, now, target)
  BY <1>0, <1>1, SettleServed
<1> HIDE DEF t, new
<1>5. /\ DOMAIN operations' = DOMAIN operations
      /\ operations'[id] = new
      /\ \A i \in DOMAIN operations \ {id} : operations'[i] = operations[i]
  BY <1>2
<1>6. Settled(operations', t, target) = after
  <2>1. ASSUME NEW i \in DOMAIN operations
        PROVE  Settle(operations'[i], t, target) = Settle(operations[i], now, target)
    <3>1. CASE i = id
      BY <1>4, <1>5, <3>1
    <3>2. CASE i # id
      BY <1>0, <1>1, <1>5, <3>2, SettleWaiting
    <3> QED
      BY <3>1, <3>2
  <2> QED
    BY <1>5, <2>1 DEF Settled
<1>7. Seen = after /\ Seen' = after
  <2>1. Seen = after
    BY <1>0 DEF Seen
  <2>2. Seen' = Settled(operations', now', target')
    BY <1>0, <1>2 DEF Seen, Running
  <2> QED
    BY <1>2, <1>6, <2>1, <2>2
<1>8. /\ DOMAIN after = DOMAIN operations
      /\ \A i \in DOMAIN operations : after[i] = Settle(operations[i], now, target)
  BY DEF Settled
<1>9. \A i \in DOMAIN operations : after[i].charged \in BOOLEAN
  <2>1. \A i \in DOMAIN operations : after[i] \in Operation
    BY <1>0, <1>8, SettleType
  <2> QED
    BY <2>1 DEF Operation
<1>10. new.charged # op.charged => after[id].charged = new.charged
  <2>1. ~op.charged
    BY <1>1 DEF Fair, Sound, Honours, Active, ActiveStages
  <2>2. new.charged => ~Active(new)
    BY <1>3 DEF Fair, Sound, Honours, Active, ActiveStages
  <2>3. ~Active(new) => Settle(new, t, target) = new
    BY <1>0, <1>1, <1>3, SettleType
  <2>4. after[id] = Settle(new, t, target)
    BY <1>4, <1>8
  <2> HIDE DEF after
  <2>5. new.charged \in BOOLEAN /\ op.charged \in BOOLEAN
    BY <1>0, <1>3 DEF Operation
  <2> QED
    BY <2>1, <2>2, <2>3, <2>4, <2>5
<1> HIDE DEF after
<1>11. Tally(counters', operations', after) = Tally(counters, operations, after)
  <2>1. new.charged \in BOOLEAN
    BY <1>3 DEF Operation
  <2>2. Tally(Counted(op, new), [operations EXCEPT ![id] = new], after)
          = Tally(counters, operations, after)
    BY <1>0, <1>8, <1>9, <1>10, <2>1, CountOne
  <2> QED
    BY <1>2, <1>5, <2>2
<1>12. /\ (IF Running THEN target ELSE now)' = (IF Running THEN target ELSE now)
       /\ (IF Running THEN Tally(counters, operations, Seen) ELSE counters)'
            = (IF Running THEN Tally(counters, operations, Seen) ELSE counters)
  BY <1>0, <1>2, <1>7, <1>11 DEF Running
<1> QED
  BY <1>2, <1>7, <1>12 DEF Outer!vars

\* The operations are a map from their identifiers.
Mapped == operations = [id \in DOMAIN operations |-> operations[id]]

LEMMA AlwaysMapped == LoopSpec => []Mapped
<1>1. LoopInit => Mapped
  BY DEF LoopInit, Init, Mapped
<1>2. Mapped /\ [LoopNext]_loopVars => Mapped'
  <2> SUFFICES ASSUME Mapped, [LoopNext]_loopVars PROVE Mapped'
    OBVIOUS
  <2>1. ASSUME NEW s, NEW a, operations' = Admitted(s, a) PROVE Mapped'
    BY <2>1 DEF Admitted, Mapped
  <2>2. ASSUME NEW id, NEW new, operations' = [operations EXCEPT ![id] = new] PROVE Mapped'
    BY <2>2 DEF Mapped
  <2>3. CASE Loopless
    <3>1. ASSUME NEW id, Delivered(id) PROVE Mapped'
      BY <2>2, <3>1 DEF Delivered
    <3>2. CASE Reset
      BY <3>2 DEF Reset, Mapped
    <3>3. \A s, d, q, a, m :
            Arm(s) \/ SetDevice(d, q) \/ RefuseStart(d, a, m) \/ LoseStart(d, a, m)
              => operations' = operations
      BY DEF Arm, SetDevice, RefuseStart, LoseStart
    <3> QED
      BY <2>3, <3>1, <3>2, <3>3 DEF Loopless, Mapped
  <2>4. ASSUME NEW d, NEW a, NEW m, LoopStart(d, a, m) PROVE Mapped'
    BY <2>1, <2>4 DEF LoopStart
  <2>5. ASSUME NEW s, NEW a, LoopStandalone(s, a) PROVE Mapped'
    BY <2>1, <2>5 DEF LoopStandalone
  <2>6. ASSUME NEW id, LoopTurn(id) PROVE Mapped'
    BY <2>2, <2>6 DEF LoopTurn
  <2>7. ASSUME NEW id, NEW event, LoopAction(id, event) PROVE Mapped'
    BY <2>2, <2>7 DEF LoopAction, Reacted
  <2>8. (\E delta \in Deltas : LoopAdvance(delta)) \/ LoopEnd \/ UNCHANGED loopVars
          => operations' = operations
    BY DEF LoopAdvance, LoopEnd, loopVars, vars
  <2> QED
    BY <2>3, <2>4, <2>5, <2>6, <2>7, <2>8 DEF LoopNext, Mapped
<1> QED
  BY <1>1, <1>2, PTL DEF LoopSpec

\* At its end callers see what they saw.
LEMMA EndUnseen ==
  ASSUME LoopInv, Mapped, LoopEnd
  PROVE  UNCHANGED Outer!vars
<1>0. /\ Running /\ ~Running' /\ target \in Nat /\ now' = target
      /\ now \in Nat /\ counters \in Counters
      /\ \A i \in DOMAIN operations : operations[i] \in Operation
      /\ UNCHANGED <<generation, devices, operations, queue, counters, serial>>
  BY LoopFacts DEF LoopEnd, LoopInv, Running
<1>1. QuietIn(operations, target)
  BY EndGood
<1>2. DOMAIN operations = DOMAIN Settled(operations, now, target)
      /\ \A i \in DOMAIN operations : Settled(operations, now, target)[i] = operations[i]
  BY <1>0, <1>1, SettleQuiet DEF Settled, QuietIn
<1>3. Settled(operations, now, target) = operations
  <2>1. operations = [i \in DOMAIN operations |-> operations[i]]
    BY DEF Mapped
  <2> QED
    BY <1>2, <2>1 DEF Settled
<1>4. Seen = operations /\ Seen' = operations
  BY <1>0, <1>3 DEF Seen
<1>5. Tally(counters, operations, Seen) = counters
  BY <1>0, <1>4, CountNothing
<1> QED
  BY <1>0, <1>4, <1>5 DEF Outer!vars

\* advance()'s event loop, over all operations at once and in the order of
\* their due times, whichever goes first among those due together, has exactly
\* the effect of serving every operation on its own: the outcomes, the times
\* and the counters that callers see.
THEOREM LoopComputesTheSame == LoopSpec => LoopImplementsEngine
<1>1. LoopInit => Outer!Init
  <2> SUFFICES ASSUME LoopInit PROVE Outer!Init
    OBVIOUS
  <2>1. ~Running /\ Seen = operations
    BY DEF LoopInit, Running, Seen
  <2> QED
    BY <2>1 DEF LoopInit, Init, Outer!Init, NoCounts, Outer!NoCounts, DefaultProfile, Outer!DefaultProfile
<1>2. LoopInv /\ Mapped /\ [LoopNext]_loopVars => [Outer!Next]_(Outer!vars)
  <2> SUFFICES ASSUME LoopInv, Mapped, [LoopNext]_loopVars PROVE Outer!Next \/ UNCHANGED Outer!vars
    OBVIOUS
  <2>1. CASE Loopless
    BY <2>1, OuterLoopless
  <2>2. ASSUME NEW d \in DeviceIds, NEW a \in Amounts, NEW m \in Merchants \cup {AnyMerchant},
               LoopStart(d, a, m)
        PROVE  Outer!Next
    BY <2>2, OuterStart
  <2>3. ASSUME NEW s \in Offered, NEW a \in Amounts, LoopStandalone(s, a) PROVE Outer!Next
    BY <2>3, OuterStandalone
  <2>4. ASSUME NEW delta \in Deltas, LoopAdvance(delta) PROVE Outer!Next
    BY <2>4, OuterAdvance
  <2>5. ASSUME NEW id \in DOMAIN operations, LoopTurn(id) PROVE UNCHANGED Outer!vars
    BY <2>5, TurnUnseen
  <2>6. ASSUME NEW id \in DOMAIN operations, NEW event \in Inputs, LoopAction(id, event)
        PROVE  Outer!Next
    BY <2>6, OuterAction
  <2>7. CASE LoopEnd
    BY <2>7, EndUnseen
  <2>8. CASE UNCHANGED loopVars
    BY <2>8 DEF loopVars, vars, Outer!vars, Seen, Running
  <2> QED
    BY <2>1, <2>2, <2>3, <2>4, <2>5, <2>6, <2>7, <2>8 DEF LoopNext
<1> QED
  BY <1>1, <1>2, LoopInvariance, AlwaysMapped, PTL DEF LoopSpec, LoopImplementsEngine

-----------------------------------------------------------------------------
\* The promises of the engine, kept in the loop: its steps, one by one.

\* One operation changes, as the book allows, and is counted.
Changes(id) ==
  \E new \in Operation :
    /\ operations' = [operations EXCEPT ![id] = new]
    /\ Books(operations[id], new) /\ Frame(operations[id], new) /\ Kept(operations[id], new)
    /\ counters' = Counted(operations[id], new)
    /\ UNCHANGED <<generation, serial>>

\* An idle device gets a new operation, which is counted.
Adds(id, d) ==
  /\ id = <<generation, serial>> /\ Idle(d)
  /\ DOMAIN operations' = DOMAIN operations \cup {id}
  /\ \A i \in DOMAIN operations : operations'[i] = operations[i]
  /\ operations'[id] \in Operation /\ operations'[id].device = d
  /\ Active(operations'[id]) /\ ~operations'[id].delivered
  /\ counters' = CountAccepted
  /\ serial' = serial + 1
  /\ UNCHANGED generation

LEMMA LoopAdds ==
  ASSUME LoopInv, NEW s \in Script, s.device \in DOMAIN devices, Idle(s.device), NEW a \in Nat,
         operations' = Admitted(s, a), counters' = CountAccepted, serial' = serial + 1,
         UNCHANGED generation
  PROVE  /\ Adds(<<generation, serial>>, s.device)
         /\ Admits(s)
<1> DEFINE id  == <<generation, serial>>
           new == Opened(s, devices[s.device].merchant, a, now)
<1>1. /\ now \in Nat /\ devices[s.device].merchant \in Merchants
      /\ id \notin DOMAIN operations
  BY DEF LoopInv, TypeOK, DeviceProfile
<1>2. /\ DOMAIN operations' = DOMAIN operations \cup {id} /\ operations'[id] = new
      /\ \A i \in DOMAIN operations : operations'[i] = operations[i]
  BY <1>1 DEF Admitted
<1>3. /\ new \in Operation /\ Active(new) /\ new.device = s.device
      /\ ~new.delivered /\ new.scenario = s
  BY <1>1, OpenedGood DEF Good, Script, Opened
<1> HIDE DEF new
<1>4. Admits(s)
  <2>1. DOMAIN operations' \ DOMAIN operations = {id}
    BY <1>1, <1>2
  <2> HIDE DEF id
  <2> QED
    BY <1>2, <1>3, <2>1 DEF Admits
<1> QED
  BY <1>2, <1>3, <1>4 DEF Adds

LEMMA StartAdds ==
  ASSUME LoopInv, NEW d \in DeviceIds, NEW a \in Nat, NEW m, LoopStart(d, a, m)
  PROVE  Adds(<<generation, serial>>, d) /\ Strict
<1>1. PICK i \in DOMAIN queue :
        /\ Begins(d, a, m, i) /\ Consume(i) /\ operations' = Admitted(queue[i], a)
        /\ queue[i].delivery # "disconnect_before_accept"
  BY DEF LoopStart
<1>2. queue \in Seq(Script) /\ queue[i] \in Script
  BY DEF LoopInv, TypeOK
<1>3. FirstFor(d, i) /\ queue[i].device = d /\ d \in DOMAIN devices /\ Idle(d)
  BY <1>1 DEF Begins, FirstFor, Admissible
<1>4. counters' = CountAccepted /\ serial' = serial + 1 /\ UNCHANGED generation
  BY DEF LoopStart
<1>5. Adds(<<generation, serial>>, d) /\ Admits(queue[i])
  BY <1>1, <1>2, <1>3, <1>4, LoopAdds
<1>6. Strict
  BY <1>1, <1>2, <1>3, <1>5, EntryTakes
<1> QED
  BY <1>5, <1>6

LEMMA StandaloneAdds ==
  ASSUME LoopInv, NEW s \in Offered, s \in Scenario, NEW a \in Nat, LoopStandalone(s, a)
  PROVE  Adds(<<generation, serial>>, s.device) /\ Strict
<1>1. /\ Alone(s, a) /\ s \in Script /\ s.device \in DOMAIN devices /\ Idle(s.device)
      /\ operations' = Admitted(s, a) /\ counters' = CountAccepted /\ serial' = serial + 1
      /\ UNCHANGED generation
  BY DEF LoopStandalone, Alone, Admissible, Script
<1>2. queue \in Seq(Script)
  BY DEF LoopInv, TypeOK
<1> QED
  BY <1>1, <1>2, LoopAdds, AloneTakes

\* A turn serves an open payment and reverses none.
LEMMA TurnChanges ==
  ASSUME LoopInv, NEW id \in DOMAIN operations, LoopTurn(id)
  PROVE  Changes(id) /\ UNCHANGED queue
<1> DEFINE op  == operations[id]
           t   == Later(Due(op), now)
           new == Step(op, t)
<1>1. /\ now \in Nat /\ target \in Nat
      /\ Fair(op, now) /\ Active(op) /\ Due(op) <= target /\ op \in Operation
  BY TurnPasses DEF LoopTurn, LoopInv, TypeOK, Running, Fair
<1>2. /\ operations' = [operations EXCEPT ![id] = new] /\ operations'[id] = new
      /\ counters' = Counted(op, new)
      /\ UNCHANGED <<generation, queue, serial>>
  <2>1. now' = t
    BY DEF LoopTurn
  <2>2. operations' = [operations EXCEPT ![id] = Step(@, now')]
    BY DEF LoopTurn
  <2> QED
    BY <2>1, <2>2 DEF LoopTurn
<1>3. Turn(now, target)[op] = new /\ new \in Operation /\ Frame(op, new)
  BY <1>1, TurnFair DEF Fair
<1>4. new.stage # "reversed"
  <2>1. op.stage # "reversed"
    BY <1>1 DEF Active, ActiveStages
  <2> HIDE DEF new
  <2> QED
    BY <1>1, <1>3, <2>1, TurnUnreversed
<1> HIDE DEF new
<1>5. Books(op, new)
  BY <1>1, <1>3, <1>4, StatusFacts DEF Books, Frame
<1>6. Kept(op, new)
  BY <1>1, <1>3 DEF Kept, Frame
<1> QED
  BY <1>2, <1>3, <1>5, <1>6 DEF Changes

LEMMA ActionChanges ==
  ASSUME LoopInv, NEW id \in DOMAIN operations, NEW event \in Inputs, LoopAction(id, event)
  PROVE  Changes(id) /\ UNCHANGED queue
<1>1. PICK next \in Stages :
        Reacts(operations[id], event, next) /\ operations' = Reacted(id, event, next)
  BY DEF LoopAction
<1> DEFINE op  == operations[id]
           new == React(op, event, next, now)
<1>2. ~Running /\ IInv /\ now \in Nat /\ op \in Operation
  BY AtRest DEF LoopAction, Enter, IInv, TypeOK
<1>3. Good(op, now) /\ op.started <= now
  BY <1>2 DEF IInv, GoodIn
<1>4. /\ operations' = [operations EXCEPT ![id] = new] /\ operations'[id] = new
      /\ counters' = Counted(op, new) /\ UNCHANGED <<generation, queue, serial>>
  BY <1>1 DEF LoopAction, Reacted
<1>5. /\ new \in Operation /\ Frame(op, new) /\ Books(op, new)
      /\ Active(op) \/ (op.stage = "approved" /\ new.stage = "reversed")
  BY <1>1, <1>2, <1>3, ReactGood, ReactBooks DEF Good
<1> HIDE DEF new
<1>6. Kept(op, new)
  BY <1>5 DEF Kept, Frame
<1> QED
  BY <1>4, <1>5, <1>6 DEF Changes

\* What a step is: a call without advance(), a payment added, an operation
\* changed, or the clock alone.
LEMMA LoopSteps ==
  ASSUME LoopInv, [LoopNext]_loopVars
  PROVE  \/ Loopless /\ [Next]_vars
         \/ (\E d \in DeviceIds : Adds(<<generation, serial>>, d)) /\ Strict
         \/ (\E id \in DOMAIN operations : Changes(id)) /\ UNCHANGED queue
         \/ UNCHANGED <<generation, operations, queue, counters, serial>>
<1>1. CASE Loopless
  BY <1>1 DEF Loopless, Next
<1>2. ASSUME NEW d \in DeviceIds, NEW a \in Amounts, NEW m \in Merchants \cup {AnyMerchant},
             LoopStart(d, a, m)
      PROVE  Adds(<<generation, serial>>, d) /\ Strict
  BY <1>2, EngineAssumption, StartAdds
<1>3. ASSUME NEW s \in Offered, NEW a \in Amounts, LoopStandalone(s, a)
      PROVE  s.device \in DeviceIds /\ Adds(<<generation, serial>>, s.device) /\ Strict
  <2>1. s \in Scenario /\ a \in Nat /\ s.device \in DeviceIds
    BY EngineAssumption DEF Scenario
  <2> QED
    BY <1>3, <2>1, StandaloneAdds
<1>4. ASSUME NEW id \in DOMAIN operations, NEW event \in Inputs, LoopAction(id, event)
      PROVE  Changes(id) /\ UNCHANGED queue
  BY <1>4, ActionChanges
<1>5. ASSUME NEW id \in DOMAIN operations, LoopTurn(id) PROVE Changes(id) /\ UNCHANGED queue
  BY <1>5, TurnChanges
<1>6. \A delta : LoopAdvance(delta) \/ LoopEnd \/ UNCHANGED loopVars
                   => UNCHANGED <<generation, operations, queue, counters, serial>>
  BY DEF LoopAdvance, LoopEnd, loopVars, vars
<1> QED
  BY <1>1, <1>2, <1>3, <1>4, <1>5, <1>6 DEF LoopNext

\* Within the loop, too, a finished payment stays what it is.
THEOREM FinalityInLoop == LoopSpec => FinalIsFinal
<1>1. ASSUME LoopInv, [LoopNext]_loopVars, generation' = generation
      PROVE  KeptIn(operations, operations')
  <2>1. CASE Loopless /\ [Next]_vars
    BY <1>1, <2>1, AtRest, StepKeeps DEF Loopless
  <2>2. ASSUME NEW id, NEW d, Adds(id, d) PROVE KeptIn(operations, operations')
    BY <2>2 DEF Adds, KeptIn, Kept
  <2>3. ASSUME NEW id \in DOMAIN operations, Changes(id) PROVE KeptIn(operations, operations')
    BY <2>3 DEF Changes, KeptIn, Kept
  <2>4. CASE operations' = operations
    BY <2>4 DEF KeptIn, Kept
  <2> QED
    BY <1>1, <2>1, <2>2, <2>3, <2>4, LoopSteps
<1>2. LoopInv /\ [LoopNext]_loopVars
        => [generation' = generation =>
              \A id \in DOMAIN operations :
                id \in DOMAIN operations' /\ Kept(operations[id], operations'[id])]_vars
  BY <1>1 DEF KeptIn
<1> QED
  BY <1>2, LoopInvariance, PTL DEF FinalIsFinal, LoopSpec

-----------------------------------------------------------------------------
\* The books, kept in the loop.

\* The invariant: serials have no gaps, and the counters agree with the book,
\* while payments are being served, too.
BookInv ==
  /\ LoopInv
  /\ DOMAIN operations = {generation} \X (1 .. serial - 1)
  /\ CountersAgree

LEMMA BookAtRest ==
  ~Running => (BookInv <=> LInv /\ target = Never)
BY AtRest DEF BookInv, LInv

LEMMA BookFacts ==
  ASSUME BookInv
  PROVE  /\ generation \in Nat /\ serial \in Nat \ {0} /\ counters \in Counters
         /\ Cardinality(DOMAIN operations) = serial - 1
         /\ Honest(operations)
         /\ \A id \in DOMAIN operations : operations[id] \in Operation
<1>1. /\ generation \in Nat /\ serial \in Nat \ {0} /\ counters \in Counters
      /\ \A id \in DOMAIN operations : operations[id] \in Operation
      /\ DOMAIN operations = {generation} \X (1 .. serial - 1)
  BY DEF BookInv, LoopInv, TypeOK
<1>2. IsFiniteSet(DOMAIN operations) /\ Cardinality(DOMAIN operations) = serial - 1
  BY <1>1, IdsCounted
<1>3. \A id \in DOMAIN operations : operations[id].charged <=> operations[id].stage = "approved"
  BY DEF BookInv, LoopInv, FairIn, Fair, GoodIn, Good, Sound, Honours
<1> QED
  BY <1>1, <1>2, <1>3 DEF Honest

\* Counting the one operation that changes is tallying all.
LEMMA CountedIsTally ==
  ASSUME counters \in Counters, Honest(operations), NEW id \in DOMAIN operations, NEW new \in Operation,
         operations' = [operations EXCEPT ![id] = new]
  PROVE  Counted(operations[id], new) = Tally(counters, operations, operations')
<1> DEFINE after == [operations EXCEPT ![id] = new]
<1>1. /\ IsFiniteSet(DOMAIN operations)
      /\ \A i \in DOMAIN operations : operations[i].charged \in BOOLEAN
      /\ new.charged \in BOOLEAN
  BY DEF Honest, Operation
<1>2. DOMAIN after = DOMAIN operations /\ after[id] = new
      /\ \A i \in DOMAIN operations : after[i].charged \in BOOLEAN
  BY <1>1
<1>3. operations' = after
  OBVIOUS
<1> HIDE DEF after
<1>4. Tally(Counted(operations[id], new), [operations EXCEPT ![id] = new], after)
        = Tally(counters, operations, after)
  <2> DEFINE ops == operations
  <2>1. /\ id \in DOMAIN ops /\ IsFiniteSet(DOMAIN ops) /\ DOMAIN after = DOMAIN ops
        /\ \A i \in DOMAIN ops : ops[i].charged \in BOOLEAN
        /\ \A i \in DOMAIN ops : after[i].charged \in BOOLEAN
        /\ ops[id].charged \in BOOLEAN /\ after[id].charged = new.charged
    BY <1>1, <1>2
  <2> HIDE DEF ops
  <2>2. Tally(Counted(ops[id], new), [ops EXCEPT ![id] = new], after) = Tally(counters, ops, after)
    BY <1>1, <2>1, CountOne
  <2> QED
    BY <2>2 DEF ops
<1>5. Tally(Counted(operations[id], new), after, after) = Counted(operations[id], new)
  BY CountedType, CountNothing
<1> QED
  BY <1>3, <1>4, <1>5 DEF after

LEMMA ChangesAgree ==
  ASSUME BookInv, LoopInv', NEW id \in DOMAIN operations, Changes(id)
  PROVE  BookInv'
<1>1. PICK new \in Operation :
        /\ operations' = [operations EXCEPT ![id] = new]
        /\ Books(operations[id], new) /\ Frame(operations[id], new)
        /\ counters' = Counted(operations[id], new)
        /\ UNCHANGED <<generation, serial>>
  BY DEF Changes
<1>2. /\ counters \in Counters /\ Honest(operations) /\ CountersAgree
      /\ DOMAIN operations' = DOMAIN operations
  BY <1>1, BookFacts DEF BookInv
<1>3. \A i \in DOMAIN operations : /\ Books(operations[i], operations'[i])
                                   /\ operations'[i].delivered = operations[i].delivered
  BY <1>1 DEF Books, Frame
<1>4. counters' = Tally(counters, operations, operations')
  BY <1>1, <1>2, CountedIsTally
<1>5. Honest(operations')
  <2>1. \A i \in DOMAIN operations' :
          operations'[i] \in Operation
          /\ (operations'[i].charged <=> operations'[i].stage = "approved")
    BY DEF LoopInv, TypeOK, FairIn, Fair, GoodIn, Good, Sound, Honours
  <2> QED
    BY <1>2, <2>1 DEF Honest
<1>6. CountersAgree'
  BY <1>1, <1>2, <1>3, <1>4, <1>5, BooksAgree
<1> QED
  BY <1>1, <1>2, <1>6 DEF BookInv

LEMMA AddsAgree ==
  ASSUME BookInv, LoopInv', NEW d, Adds(<<generation, serial>>, d)
  PROVE  BookInv'
<1> DEFINE id == <<generation, serial>>
<1>1. /\ generation \in Nat /\ serial \in Nat \ {0} /\ counters \in Counters /\ CountersAgree
      /\ DOMAIN operations = {generation} \X (1 .. serial - 1)
  BY BookFacts DEF BookInv
<1>2. /\ DOMAIN operations' = DOMAIN operations \cup {id} /\ id \notin DOMAIN operations
      /\ \A i \in DOMAIN operations : operations'[i] = operations[i]
      /\ operations'[id] \in Operation /\ Active(operations'[id]) /\ ~operations'[id].delivered
      /\ counters' = CountAccepted /\ serial' = serial + 1 /\ UNCHANGED generation
  BY <1>1 DEF Adds
<1>3. DOMAIN operations' = {generation'} \X (1 .. serial' - 1)
  <2>1. 1 .. serial' - 1 = (1 .. serial - 1) \cup {serial}
    BY <1>1, <1>2
  <2> QED
    BY <1>1, <1>2, <2>1
<1> HIDE DEF id
<1>4. Standing(operations'[id]) = "open"
  BY <1>2, StatusFacts
<1>5. /\ Approved(operations') = Approved(operations)
      /\ Refunded(operations') = Refunded(operations)
      /\ Handed(operations') = Handed(operations)
  BY <1>2, <1>4 DEF Approved, Refunded, Handed
<1>6. /\ counters'.requests = counters.requests + 1 /\ counters'.accepted = counters.accepted + 1
      /\ counters'.approvals = counters.approvals /\ counters'.reversals = counters.reversals
      /\ counters'.delivered = counters.delivered
      /\ counters.requests \in Nat /\ counters.accepted \in Nat
  BY <1>1, <1>2 DEF CountAccepted, Counters
<1>7. CountersAgree'
  BY <1>1, <1>2, <1>5, <1>6 DEF CountersAgree
<1> QED
  BY <1>3, <1>7 DEF BookInv

LEMMA BookInvNext ==
  ASSUME BookInv, [LoopNext]_loopVars
  PROVE  BookInv'
<1>0. LoopInv /\ LoopInv'
  BY LoopInvNext DEF BookInv
<1>1. CASE Loopless /\ [Next]_vars
  <2>1. LInv /\ ~Running'
    BY <1>1, BookAtRest DEF Loopless, Running
  <2>2. LInv'
    BY <1>1, <2>1, LInvNext
  <2> QED
    BY <1>0, <2>2 DEF BookInv, LInv
<1>2. ASSUME NEW d, Adds(<<generation, serial>>, d) PROVE BookInv'
  BY <1>0, <1>2, AddsAgree
<1>3. ASSUME NEW id \in DOMAIN operations, Changes(id) PROVE BookInv'
  BY <1>0, <1>3, ChangesAgree
<1>4. CASE UNCHANGED <<generation, operations, queue, counters, serial>>
  BY <1>0, <1>4 DEF BookInv, CountersAgree, Approved, Refunded, Handed
<1> QED
  BY <1>0, <1>1, <1>2, <1>3, <1>4, LoopSteps

\* The invariant holds throughout.
THEOREM BookInvariance == LoopSpec => []BookInv
<1>1. LoopInit => BookInv
  BY LInvInit, BookAtRest DEF LoopInit, Running
<1> QED
  BY <1>1, BookInvNext, PTL DEF LoopSpec

\* Within the loop, too, the counters agree with the operations: they are
\* counted one by one as they are served, not when the call is over.
THEOREM BooksBalanceInLoop == LoopSpec => []Accounting
<1>1. BookInv => Accounting
  BY BookFacts, AgreeAccounts DEF BookInv
<1> QED
  BY <1>1, BookInvariance, PTL

\* Within the loop, too, a request that is refused leaves the queue as it was,
\* and any other takes exactly one use of its own device's first scenario, under
\* which it is admitted or loses its link.
THEOREM QueueIsStrictInLoop == LoopSpec => StrictQueue
<1>1. ASSUME BookInv, [LoopNext]_loopVars, counters'.requests = counters.requests + 1
      PROVE  Strict
  <2>1. counters \in Counters /\ counters.requests # counters.requests + 1
    BY <1>1, BookFacts DEF Counters
  <2>2. CASE Loopless /\ [Next]_vars
    BY <1>1, <2>2, BookAtRest, StepStrict DEF Loopless
  <2>3. ASSUME NEW id \in DOMAIN operations, Changes(id) PROVE FALSE
    <3>1. PICK new : counters' = Counted(operations[id], new)
      BY <2>3 DEF Changes
    <3> QED
      BY <1>1, <2>1, <3>1 DEF Counted, Counters
  <2> QED
    BY <1>1, <2>1, <2>2, <2>3, LoopSteps DEF BookInv
<1>2. BookInv /\ [LoopNext]_loopVars
        => [counters'.requests = counters.requests + 1 => Strict]_vars
  BY <1>1
<1> QED
  BY <1>2, BookInvariance, PTL DEF StrictQueue, Strict, LoopSpec

\* The loop implements the book of payments directly: a turn closes one payment,
\* so that even the payments settled together by a call are settled one by one.
THEOREM LoopImplementsLedger == LoopSpec => ImplementsLedger
<1>1. LoopInit => Book!LedgerInit
  BY LedgerStart DEF LoopInit
<1>2. ASSUME BookInv, [LoopNext]_loopVars
      PROVE  [Book!LedgerNext]_(Book!ledgerVars)
  <2>1. CASE Loopless /\ [Next]_vars
    BY <1>2, <2>1, BookAtRest, LedgerStep DEF Loopless
  <2>2. ASSUME NEW d \in DeviceIds, Adds(<<generation, serial>>, d) PROVE Book!LedgerNext
    <3>1. /\ <<generation, serial>> \notin DOMAIN operations
          /\ Standing(operations'[<<generation, serial>>]) = "open"
      BY <1>2, <2>2, BookFacts, StatusFacts DEF BookInv, Adds
    <3>2. \E status \in Book!Status : Book!Enter(d, status)
      BY <1>2, <2>2, <3>1, BookFacts, AddEnters DEF Adds
    <3> QED
      BY <3>2 DEF Book!LedgerNext
  <2>3. ASSUME NEW id \in DOMAIN operations, Changes(id) PROVE [Book!LedgerNext]_(Book!ledgerVars)
    BY <1>2, <2>3, BookFacts, BookOne DEF Changes
  <2>4. CASE UNCHANGED <<generation, operations, queue, counters, serial>>
    BY <2>4 DEF Book!ledgerVars
  <2> QED
    BY <1>2, <2>1, <2>2, <2>3, <2>4, LoopSteps DEF BookInv
<1>3. BookInv /\ [LoopNext]_loopVars => [Book!LedgerNext]_(Book!ledgerVars)
  BY <1>2
<1> QED
  BY <1>1, <1>3, BookInvariance, PTL DEF LoopSpec, ImplementsLedger, Book!LedgerSpec
=============================================================================

------------------------------- MODULE Engine -------------------------------
(***************************************************************************)
(* The deterministic terminal engine of crates/core: devices, the strict   *)
(* queue of scripted scenarios, the payments they admitted and the         *)
(* counters over them, under a clock that only its callers move.  Every    *)
(* caller holds the engine exclusively, so each operation of the engine is *)
(* one action, with the advance(0) that the code ends it with.             *)
(*                                                                         *)
(* A call that is refused without any effect (arm, set_device, action,     *)
(* delivered, standalone) is the disabled action; a refused payment        *)
(* request does have an effect and is an action, RefuseStart.              *)
(***************************************************************************)
EXTENDS Payment, FiniteSets, Sequences, SequencesExt, Selection

DeviceProfile == [merchant : Merchants, online : BOOLEAN, setupError : BOOLEAN]

CONSTANTS
  DefaultDevice,    \* the device a fresh engine knows
  DefaultMerchant,  \* and its merchant profile
  Offered,          \* the scenarios that clients arm, valid or not
  Profiles,         \* the profiles that operators give devices
  Amounts,          \* the amounts that clients ask for, valid or not
  Deltas,           \* the steps by which the clock is advanced
  Horizon,          \* bound: the clock stops here
  MaxQueue,         \* bound: entries in the scenario queue
  MaxRequests,      \* bound: payment requests per generation
  MaxGeneration     \* bound: generations, hence resets

ASSUME EngineAssumption ==
  /\ DefaultDevice \in DeviceIds
  /\ DefaultMerchant \in Merchants
  /\ Offered \subseteq Scenario
  /\ Profiles \subseteq DeviceProfile
  /\ Amounts \subseteq Nat
  /\ Deltas \subseteq Nat
  /\ Horizon \in Nat
  /\ MaxQueue \in Nat
  /\ MaxRequests \in Nat
  /\ MaxGeneration \in Nat

VARIABLES
  now,         \* the engine's clock, in milliseconds
  generation,  \* bumped by every reset
  devices,     \* configured devices, by identifier
  operations,  \* admitted payments, by <<generation, serial>>
  queue,       \* armed scenarios, each with the uses it has left
  counters,    \* requests, accepted, approvals, reversals, delivered
  serial       \* next_operation

vars == <<now, generation, devices, operations, queue, counters, serial>>

DefaultProfile == [merchant |-> DefaultMerchant, online |-> TRUE, setupError |-> FALSE]

Counters == [requests : Nat, accepted : Nat, approvals : Nat, reversals : Nat,
             delivered : Nat]

NoCounts == [requests |-> 0, accepted |-> 0, approvals |-> 0, reversals |-> 0,
             delivered |-> 0]

Init ==
  /\ now = 0
  /\ generation = 1
  /\ devices = [d \in {DefaultDevice} |-> DefaultProfile]
  /\ operations = << >>
  /\ queue = << >>
  /\ counters = NoCounts
  /\ serial = 1

-----------------------------------------------------------------------------
\* Helpers.

Open(ops) == {id \in DOMAIN ops : Active(ops[id])}

\* No payment is in progress on device d.
Idle(d) == \A id \in Open(operations) : operations[id].device # d

\* Mutant: one step per call, not all that are due.
SettledOneStep(ops, from, to) == [id \in DOMAIN ops |-> Turn(from, to)[ops[id]]]

\* Every operation served up to `to', the clock having stood at `from'.
Settled(ops, from, to) == [id \in DOMAIN ops |-> Settle(ops[id], from, to)]

Charged(ops) == {id \in DOMAIN ops : ops[id].charged}

\* transition()'s counting: an operation that becomes charged is an approval,
\* one that stops being charged a reversal.
Tally(counts, before, after) ==
  [counts EXCEPT
     !.approvals = @ + Cardinality(Charged(after) \ Charged(before)),
     !.reversals = @ + Cardinality(Charged(before) \ Charged(after))]

\* Entry i is the first one queued for device d.
FirstFor(d, i) ==
  /\ queue[i].device = d
  /\ \A j \in 1 .. i - 1 : queue[j].device # d

Missing(d) == \A i \in DOMAIN queue : queue[i].device # d

\* Mutant: the busy terminal is not noticed.
AdmissibleBusy(d, amount, merchant) ==
  /\ d \in DOMAIN devices
  /\ amount \in 1..MaxAmount
  /\ devices[d].online
  /\ ~devices[d].setupError
  /\ merchant \in {AnyMerchant, devices[d].merchant}

\* start()'s checks before it looks at the queue, in any order: whichever
\* fails, the request is counted and refused.
Admissible(d, amount, merchant) ==
  /\ d \in DOMAIN devices
  /\ amount \in 1..MaxAmount
  /\ devices[d].online
  /\ ~devices[d].setupError
  /\ merchant \in {AnyMerchant, devices[d].merchant}
  /\ Idle(d)

\* The request fits the scripted expectations of scenario s.
Fits(s, amount) ==
  /\ s.amount \in {0, amount}
  /\ s.merchant \in {AnyMerchant, devices[s.device].merchant}

\* Mutant: the scenario stays armed with all its uses.
ConsumeNothing(i) == queue' = queue

\* One use of queue entry i is gone.
Consume(i) ==
  queue' = IF queue[i].uses = 1
           THEN RemoveAt(queue, i)
           ELSE [queue EXCEPT ![i].uses = @ - 1]

\* start() may take entry i for this request.
Begins(d, amount, merchant, i) ==
  /\ counters.requests < MaxRequests
  /\ Admissible(d, amount, merchant)
  /\ FirstFor(d, i)
  /\ Fits(queue[i], amount)

\* Mutant: every operation gets the same identifier.
AdmittedAsFirst(s, amount) ==
  LET id  == <<generation, 1>>
      new == Opened(s, devices[s.device].merchant, amount, now)
  IN  [i \in DOMAIN operations \cup {id} |-> IF i = id THEN new ELSE operations[i]]

\* The operations with a new one under scenario s.
Admitted(s, amount) ==
  LET id  == <<generation, serial>>
      new == Opened(s, devices[s.device].merchant, amount, now)
  IN  [i \in DOMAIN operations \cup {id} |-> IF i = id THEN new ELSE operations[i]]

CountAccepted == [counters EXCEPT !.requests = @ + 1, !.accepted = @ + 1]

\* Admit a payment under scenario s and serve what is due at once.  (Bound:
\* only payments whose deadline the clock can still reach.)
Admit(s, amount) ==
  /\ now + s.timing.timeout <= Horizon
  /\ operations' = Settled(Admitted(s, amount), now, now)
  /\ serial' = serial + 1
  /\ counters' = Tally(CountAccepted, Admitted(s, amount), operations')

-----------------------------------------------------------------------------
\* The engine's operations.

\* Mutant: scenarios are armed without validation.
ArmUnchecked(s) ==
  /\ Len(queue) < MaxQueue
  /\ s.device \in DOMAIN devices
  /\ queue' = Append(queue, s)
  /\ UNCHANGED <<now, generation, devices, operations, counters, serial>>

Arm(s) ==
  /\ Len(queue) < MaxQueue
  /\ Valid(s)
  /\ s.device \in DOMAIN devices
  /\ queue' = Append(queue, s)
  /\ UNCHANGED <<now, generation, devices, operations, counters, serial>>

\* Mutant: a busy device may be reconfigured.
SetDeviceBusy(d, profile) ==
  /\ devices' = [x \in DOMAIN devices \cup {d} |-> IF x = d THEN profile ELSE devices[x]]
  /\ UNCHANGED <<now, generation, operations, queue, counters, serial>>

SetDevice(d, profile) ==
  /\ Idle(d)
  /\ devices' = [x \in DOMAIN devices \cup {d} |-> IF x = d THEN profile ELSE devices[x]]
  /\ UNCHANGED <<now, generation, operations, queue, counters, serial>>

\* A request refused before the queue is touched: unknown or unavailable
\* device, bad amount or merchant, a busy terminal, no scenario, or the next
\* scenario expects something else.
RefuseStart(d, amount, merchant) ==
  /\ counters.requests < MaxRequests
  /\ \/ ~Admissible(d, amount, merchant)
     \/ Missing(d)
     \/ \E i \in DOMAIN queue : FirstFor(d, i) /\ ~Fits(queue[i], amount)
  /\ counters' = [counters EXCEPT !.requests = @ + 1]
  /\ UNCHANGED <<now, generation, devices, operations, queue, serial>>

\* The scripted link breaks before the terminal accepts: a use of the scenario
\* is spent, no operation exists.
LoseStart(d, amount, merchant) ==
  /\ \E i \in DOMAIN queue :
       /\ Begins(d, amount, merchant, i)
       /\ queue[i].delivery = "disconnect_before_accept"
       /\ Consume(i)
  /\ counters' = [counters EXCEPT !.requests = @ + 1]
  /\ UNCHANGED <<now, generation, devices, operations, serial>>

Start(d, amount, merchant) ==
  /\ \E i \in DOMAIN queue :
       /\ Begins(d, amount, merchant, i)
       /\ queue[i].delivery # "disconnect_before_accept"
       /\ Consume(i)
       /\ Admit(queue[i], amount)
  /\ UNCHANGED <<now, generation, devices>>

\* The control plane's "standalone": arm and start on a copy of the engine,
\* which replaces the engine only when both succeed.
Alone(s, amount) ==
  /\ counters.requests < MaxRequests
  /\ Len(queue) < MaxQueue
  /\ Missing(s.device)
  /\ Valid(s)
  /\ Admissible(s.device, amount, AnyMerchant)
  /\ Fits(s, amount)
  /\ s.delivery # "disconnect_before_accept"
  /\ queue' = IF s.uses = 1 THEN queue ELSE Append(queue, [s EXCEPT !.uses = @ - 1])

Standalone(s, amount) ==
  /\ Alone(s, amount)
  /\ Admit(s, amount)
  /\ UNCHANGED <<now, generation, devices>>

Advance(delta) ==
  /\ now + delta <= Horizon
  /\ now' = now + delta
  /\ operations' = Settled(operations, now, now + delta)
  /\ counters' = Tally(counters, operations, operations')
  /\ UNCHANGED <<generation, devices, queue, serial>>

\* An input event for operation id; a lost cable takes the device off line.
Reacted(id, event, next) ==
  [operations EXCEPT ![id] = React(@, event, next, now)]

Disconnect(id, event) ==
  devices' = IF event = "device_disconnected"
             THEN [d \in DOMAIN devices |->
                     IF d = operations[id].device THEN [devices[d] EXCEPT !.online = FALSE]
                                                  ELSE devices[d]]
             ELSE devices

Action(id, event) ==
  \E next \in Stages :
    /\ Reacts(operations[id], event, next)
    /\ operations' = Settled(Reacted(id, event, next), now, now)
    /\ counters' = Tally(counters, operations, operations')
    /\ Disconnect(id, event)
    /\ UNCHANGED <<now, generation, queue, serial>>

\* Mutant: a repeated delivery counts again.
DeliveredAgain(id) ==
  /\ ~Active(operations[id])
  /\ operations' = [operations EXCEPT ![id].delivered = TRUE]
  /\ counters' = [counters EXCEPT !.delivered = @ + 1]
  /\ UNCHANGED <<now, generation, devices, queue, serial>>

\* The reply of a finished operation reached its client; counted once.
Delivered(id) ==
  /\ ~Active(operations[id])
  /\ ~operations[id].delivered
  /\ operations' = [operations EXCEPT ![id].delivered = TRUE]
  /\ counters' = [counters EXCEPT !.delivered = @ + 1]
  /\ UNCHANGED <<now, generation, devices, queue, serial>>

Reset ==
  /\ generation < MaxGeneration
  /\ now' = 0
  /\ generation' = generation + 1
  /\ devices' = [d \in {DefaultDevice} |-> DefaultProfile]
  /\ operations' = << >>
  /\ queue' = << >>
  /\ counters' = NoCounts
  /\ serial' = 1

Next ==
  \/ \E s \in Offered : Arm(s)
  \/ \E d \in DeviceIds, p \in Profiles : SetDevice(d, p)
  \/ \E d \in DeviceIds, a \in Amounts, m \in Merchants \cup {AnyMerchant} :
       RefuseStart(d, a, m) \/ LoseStart(d, a, m) \/ Start(d, a, m)
  \/ \E s \in Offered, a \in Amounts : Standalone(s, a)
  \/ \E delta \in Deltas : Advance(delta)
  \/ \E id \in DOMAIN operations :
       Delivered(id) \/ \E event \in Inputs : Action(id, event)
  \/ Reset

Spec == Init /\ [][Next]_vars

\* The server's clock task, when the clock is not controlled by hand, keeps
\* advancing the engine; nothing else is sure to happen.
Ticking == WF_vars(\E delta \in Deltas : Advance(delta))

LiveSpec == Spec /\ Ticking
-----------------------------------------------------------------------------
\* Properties.

\* Every variable has its type: in particular operations hold only scenarios
\* that passed validation and identifiers of this generation already issued.
TypeOK ==
  /\ now \in Nat
  /\ generation \in Nat \ {0}
  /\ DOMAIN devices \subseteq DeviceIds
  /\ \A d \in DOMAIN devices : devices[d] \in DeviceProfile
  /\ DOMAIN operations \subseteq {generation} \X (1 .. serial - 1)
  /\ \A id \in DOMAIN operations :
       operations[id] \in Operation /\ operations[id].scenario \in Script
  /\ queue \in Seq(Script)
  /\ counters \in Counters
  /\ serial \in Nat \ {0}

\* A terminal handles one payment at a time: start()'s scan for an active
\* operation and set_device()'s never let two be open on one device.
OneOpenPerDevice ==
  \A i, j \in Open(operations) :
    operations[i].device = operations[j].device => i = j

\* A payment in progress runs on a device that is configured, reachable, free
\* of a setup error and still has the merchant profile it was admitted under:
\* set_device() refuses while busy, and a lost cable ends the payment it hit.
OpenOnReadyDevice ==
  \A id \in Open(operations) :
    LET op == operations[id] IN
    /\ op.device \in DOMAIN devices
    /\ devices[op.device].online
    /\ ~devices[op.device].setupError
    /\ devices[op.device].merchant = op.merchant

\* No call leaves work behind: after any handler every open payment's next
\* step, at its deadline if not before, lies strictly in the future.
NothingOverdue ==
  \A id \in Open(operations) : Due(operations[id]) > now

\* The deadline decides between approval and timeout, whatever the stage
\* delays, inputs and clock steps: an approval came strictly before it, a
\* timeout that the scenario did not script came exactly at it.
OnTime(op) ==
  /\ op.stage = "approved" => op.completed < op.deadline
  /\ op.stage = "timed_out" /\ op.scenario.error # "terminal_timeout"
       => op.completed = op.deadline
  /\ op.stage \in FinalStages \ {"reversed"} => op.completed \in op.started .. op.deadline

DeadlineDecides == \A id \in DOMAIN operations : OnTime(operations[id])

\* The scripted outcome is honoured on every path: a scripted error or a
\* scripted decline that no bank input overrides never ends in an approval; the
\* customer is charged exactly while the payment stands approved; and exactly
\* the payments that went wrong carry an error.
Honours(op) ==
  /\ op.scenario.outcome = "error" => op.stage \notin {"approved", "reversed"}
  /\ op.scenario.outcome = "declined" /\ ~op.scenario.manualBank
       => op.stage \notin {"approved", "reversed"}
  /\ op.charged <=> op.stage = "approved"
  /\ op.stage \in {"cancelled", "failed", "timed_out"} <=> op.error # NoError

OutcomeHonoured == \A id \in DOMAIN operations : Honours(operations[id])

\* Those of the operations that are in one of these stages.
InStage(stages) == {id \in DOMAIN operations : operations[id].stage \in stages}

\* The counters agree with the operations they count.
Accounting ==
  /\ counters.accepted  = Cardinality(DOMAIN operations)
  /\ counters.accepted  = serial - 1
  /\ counters.approvals = Cardinality(InStage({"approved", "reversed"}))
  /\ counters.reversals = Cardinality(InStage({"reversed"}))
  /\ counters.delivered = Cardinality({id \in DOMAIN operations : operations[id].delivered})
  /\ counters.requests >= counters.accepted

\* However the clock's progress is cut into advance() calls, the operations
\* end up the same: a slow tick or a big jump serves every step at its own time.
ChunkIndependent ==
  \A a, b \in Deltas :
    Settled(Settled(operations, now, now + a), now + a, now + a + b)
      = Settled(operations, now, now + a + b)

\* What may become of an operation while its generation lasts.
Kept(op, new) ==
  /\ <<new.scenario, new.device, new.merchant, new.amount, new.started, new.deadline>>
       = <<op.scenario, op.device, op.merchant, op.amount, op.started, op.deadline>>
  /\ op.delivered => new.delivered
  /\ ~Active(op) =>
       \/ <<new.stage, new.error, new.completed>> = <<op.stage, op.error, op.completed>>
       \/ op.stage = "approved" /\ new.stage = "reversed"

\* A finished payment is final.  Within a generation no operation disappears,
\* its outcome, error and completion time never change again, except that an
\* approval may be reversed; what was admitted, and under which scenario, never
\* changes at all.
FinalIsFinal ==
  [][ generation' = generation =>
        \A id \in DOMAIN operations :
          id \in DOMAIN operations' /\ Kept(operations[id], operations'[id]) ]_vars

\* What queue q holds for device d.
ForDevice(q, d) == Those(q, {i \in DOMAIN q : q[i].device = d})

\* q with one use of its first scenario gone.
Spent(q) == IF q[1].uses = 1 THEN Tail(q) ELSE [q EXCEPT ![1].uses = @ - 1]

Unmoved(d) == ForDevice(queue', d) = ForDevice(queue, d)

\* A request to device d loses its link by the device's first scenario, or is
\* admitted under it, or, where none is armed, under the one that a standalone
\* start brought along; either way one use of that scenario is spent.
TakesOne(d) ==
  LET before   == ForDevice(queue, d)
      after    == ForDevice(queue', d)
      admitted == DOMAIN operations' \ DOMAIN operations
  IN  \/ /\ admitted = {}
         /\ before # << >>
         /\ before[1].delivery = "disconnect_before_accept"
         /\ after = Spent(before)
      \/ \E id \in admitted :
           LET sent  == operations'[id].scenario
               armed == IF before = << >> THEN <<sent>> ELSE before
           IN  /\ admitted = {id}
               /\ operations'[id].device = d
               /\ sent = armed[1]
               /\ sent.delivery # "disconnect_before_accept"
               /\ before = << >> => sent \in Offered
               /\ after = Spent(armed)

\* Strict mode.  A request that is refused admits nothing and leaves every
\* device's part of the queue as it was.  Any other takes exactly one use, of
\* the first scenario armed for its own device, by which it is admitted or
\* loses its link; what the other devices wait for is untouched.  Where nothing
\* is armed for the device, what is admitted has brought its scenario along, as a
\* standalone start does, and the spare uses of that one, and no others, are
\* armed afterwards.
StrictQueue ==
  [][ counters'.requests = counters.requests + 1 =>
        \/ DOMAIN operations' = DOMAIN operations /\ \A d \in DeviceIds : Unmoved(d)
        \/ \E d \in DeviceIds : TakesOne(d) /\ \A other \in DeviceIds \ {d} : Unmoved(other) ]_vars

\* An operation as an entry of the register's book.
Entry(op) ==
  [device |-> op.device,
   status |-> IF Active(op) THEN "open"
              ELSE IF op.stage = "approved" THEN "charged"
              ELSE IF op.stage = "reversed" THEN "refunded"
              ELSE "void"]

Book == INSTANCE Ledger WITH book <- [id \in DOMAIN operations |-> Entry(operations[id])]

\* The engine implements the book of payments: a payment is entered on a terminal
\* without an open one and under the next number, outcomes are given once, only
\* charges are refunded, and a reset is all that takes entries away.
ImplementsLedger == Book!LedgerSpec

\* Under a clock that keeps ticking every payment ends, by its own schedule or
\* by its deadline, whatever inputs come or fail to come (or a reset drops it).
EveryPaymentEnds ==
  \A id \in (1 .. MaxGeneration) \X (1 .. MaxRequests) :
    id \in Open(operations) ~> id \notin Open(operations)
=============================================================================

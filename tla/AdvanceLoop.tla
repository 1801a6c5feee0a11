----------------------------- MODULE AdvanceLoop -----------------------------
(***************************************************************************)
(* The engine with advance()'s loop spelt out: the clock visits the due    *)
(* times of all open operations in order, one step() per turn, until none  *)
(* is due by the target.  Engine serves each operation by itself and at    *)
(* once; this module shows that the loop computes the same thing.          *)
(*                                                                         *)
(* Among operations due at the same time the code takes the smallest       *)
(* identifier; here any of them goes first, so the order among them is     *)
(* shown not to matter.                                                    *)
(***************************************************************************)
EXTENDS Engine

VARIABLE target   \* where the running advance() is to leave the clock, or Never

loopVars == <<vars, target>>

LoopInit == Init /\ target = Never

Running == target # Never

\* Mutant: finished operations are not passed over.
PendingEver == {id \in DOMAIN operations : Due(operations[id]) <= target}

\* Operations with a step due by the target.
Pending == {id \in Open(operations) : Due(operations[id]) <= target}

\* A handler's own effect, before the advance() that it ends with.
Enter(to) == ~Running /\ target' = to

LoopStart(d, amount, merchant) ==
  /\ Enter(now)
  /\ \E i \in DOMAIN queue :
       /\ Begins(d, amount, merchant, i)
       /\ queue[i].delivery # "disconnect_before_accept"
       /\ now + queue[i].timing.timeout <= Horizon
       /\ Consume(i)
       /\ operations' = Admitted(queue[i], amount)
  /\ counters' = CountAccepted
  /\ serial' = serial + 1
  /\ UNCHANGED <<now, generation, devices>>

LoopStandalone(s, amount) ==
  /\ Enter(now)
  /\ Alone(s, amount)
  /\ now + s.timing.timeout <= Horizon
  /\ operations' = Admitted(s, amount)
  /\ counters' = CountAccepted
  /\ serial' = serial + 1
  /\ UNCHANGED <<now, generation, devices>>

LoopAdvance(delta) ==
  /\ now + delta <= Horizon
  /\ Enter(now + delta)
  /\ UNCHANGED vars

\* transition()'s counting, one operation at a time.
Counted(old, new) ==
  [counters EXCEPT !.approvals = @ + (IF new.charged /\ ~old.charged THEN 1 ELSE 0),
                   !.reversals = @ + (IF old.charged /\ ~new.charged THEN 1 ELSE 0)]

LoopAction(id, event) ==
  /\ Enter(now)
  /\ \E next \in Stages :
       /\ Reacts(operations[id], event, next)
       /\ operations' = Reacted(id, event, next)
  /\ counters' = Counted(operations[id], operations'[id])
  /\ Disconnect(id, event)
  /\ UNCHANGED <<now, generation, queue, serial>>

\* Mutant: the clock jumps to its target at once.
LoopTurnAtTarget(id) ==
  /\ Running
  /\ id \in Pending
  /\ now' = target
  /\ operations' = [operations EXCEPT ![id] = Step(@, now')]
  /\ counters' = Counted(operations[id], operations'[id])
  /\ UNCHANGED <<generation, devices, queue, serial, target>>

\* One turn of the loop, for an operation whose due time is the least.
LoopTurn(id) ==
  /\ Running
  /\ id \in Pending
  /\ \A other \in Pending : Due(operations[id]) <= Due(operations[other])
  /\ now' = Later(Due(operations[id]), now)
  /\ operations' = [operations EXCEPT ![id] = Step(@, now')]
  /\ counters' = Counted(operations[id], operations'[id])
  /\ UNCHANGED <<generation, devices, queue, serial, target>>

LoopEnd ==
  /\ Running
  /\ Pending = {}
  /\ now' = target
  /\ target' = Never
  /\ UNCHANGED <<generation, devices, operations, queue, counters, serial>>

\* The handlers that do not advance the clock.
Loopless ==
  /\ ~Running
  /\ \/ \E s \in Offered : Arm(s)
     \/ \E d \in DeviceIds, p \in Profiles : SetDevice(d, p)
     \/ \E d \in DeviceIds, a \in Amounts, m \in Merchants \cup {AnyMerchant} :
          RefuseStart(d, a, m) \/ LoseStart(d, a, m)
     \/ \E id \in DOMAIN operations : Delivered(id)
     \/ Reset
  /\ UNCHANGED target

LoopNext ==
  \/ Loopless
  \/ \E d \in DeviceIds, a \in Amounts, m \in Merchants \cup {AnyMerchant} : LoopStart(d, a, m)
  \/ \E s \in Offered, a \in Amounts : LoopStandalone(s, a)
  \/ \E delta \in Deltas : LoopAdvance(delta)
  \/ \E id \in DOMAIN operations : LoopTurn(id) \/ \E event \in Inputs : LoopAction(id, event)
  \/ LoopEnd

\* The thread inside advance() keeps running.
LoopSpec ==
  /\ LoopInit
  /\ [][LoopNext]_loopVars
  /\ WF_loopVars(LoopEnd \/ \E id \in DOMAIN operations : LoopTurn(id))

-----------------------------------------------------------------------------
\* The engine that callers see: a running advance() is already over for them,
\* since nobody looks at the engine before its lock is released.
Seen == IF Running THEN Settled(operations, now, target) ELSE operations

Outer == INSTANCE Engine WITH
  operations <- Seen,
  now        <- IF Running THEN target ELSE now,
  counters   <- IF Running THEN Tally(counters, operations, Seen) ELSE counters

\* advance()'s event loop, over all operations at once and in the order of
\* their due times, has exactly the effect that serving every operation on its
\* own would have: outcomes, times, counters and all.
LoopImplementsEngine == Outer!Init /\ [][Outer!Next]_(Outer!vars)

\* The loop ends: no operation is due for ever, not even with every delay zero.
AdvanceReturns == Running ~> ~Running
=============================================================================

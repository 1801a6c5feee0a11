---------------------------- MODULE ClientProofs ----------------------------
(***************************************************************************)
(* Theorems about Client: whatever the buttons pressed, the requests lost  *)
(* or late and the other clients do, the payment that the client shows is  *)
(* the one in progress, and an input reaches no other than it was meant    *)
(* for.                                                                    *)
(***************************************************************************)
EXTENDS Client, EngineProofs

-----------------------------------------------------------------------------
\* The invariant.

\* What the thread posts, or posts late.
Request ==
  [resource : {"action"}, id : Nat \X Nat, event : Inputs]
    \cup [resource : {"arm", "standalone"}, scenario : Scenario, amount : Amounts]
    \cup [resource : {"devices"}, device : DeviceIds, profile : DeviceProfile]
    \cup [resource : {"transport", "reset"}]

\* Identifiers are given out in the order of time.
Chronological(ops) ==
  \A i, j \in DOMAIN ops : i[2] <= j[2] => ops[i].started <= ops[j].started

\* The payment in progress on a device is the last one admitted there.
LastOpen(ops) ==
  \A id \in Open(ops), other \in DOMAIN ops :
    ops[other].device = ops[id].device => other[2] <= id[2]

\* Hence the one that started last, or has the largest number of those.
LatestOpen(ops) ==
  \A id \in Open(ops), other \in DOMAIN ops :
    ops[other].device = ops[id].device =>
      \/ ops[other].started < ops[id].started
      \/ ops[other].started = ops[id].started /\ other[2] <= id[2]

OrderInv ==
  /\ LInv
  /\ Chronological(operations)
  /\ LastOpen(operations)

\* The snapshot is of an engine in which all that was true.
SnapshotInv ==
  snapshot # NoSnapshot =>
    /\ DOMAIN snapshot.devices \subseteq DeviceIds
    /\ \A d \in DOMAIN snapshot.devices : snapshot.devices[d] \in DeviceProfile
    /\ DOMAIN snapshot.operations \subseteq Nat \X Nat
    /\ LatestOpen(snapshot.operations)

ScreenType == [device : DeviceIds, ok : {"none", "customer_confirmed", "terminal_confirmed"}]

ClientInv ==
  /\ OrderInv
  /\ screen \in ScreenType
  /\ outbox \in Seq(Request)
  /\ late \in Request \cup {NoSnapshot}
  /\ SnapshotInv

\* A request's fields fit its resource.
LEMMA RequestFields ==
  ASSUME NEW r \in Request
  PROVE  /\ r.resource = "action" => r.id \in Nat \X Nat /\ r.event \in Inputs
         /\ r.resource \in {"arm", "standalone"} => r.scenario \in Scenario /\ r.amount \in Nat
         /\ r.resource = "devices" => r.device \in DeviceIds /\ r.profile \in DeviceProfile
BY EngineAssumption DEF Request

-----------------------------------------------------------------------------
\* The engine's calls keep the order.

\* A call that admits nothing and reopens nothing.
LEMMA MovesKeep ==
  ASSUME OrderInv, LInv', DOMAIN operations' = DOMAIN operations,
         \A i \in DOMAIN operations : Frame(operations[i], operations'[i]),
         Open(operations') \subseteq Open(operations)
  PROVE  OrderInv'
<1>1. \A i \in DOMAIN operations : /\ operations'[i].device = operations[i].device
                                   /\ operations'[i].started = operations[i].started
  BY DEF Frame
<1>2. Chronological(operations')
  BY <1>1 DEF OrderInv, Chronological
<1>3. LastOpen(operations')
  <2>1. Open(operations') \subseteq DOMAIN operations
    BY DEF Open
  <2> QED
    BY <1>1, <2>1 DEF OrderInv, LastOpen
<1> QED
  BY <1>2, <1>3 DEF OrderInv

\* A new payment has the largest number, starts now, and no other is in
\* progress on its device.
LEMMA AdmitKeeps ==
  ASSUME OrderInv, LInv', NEW s \in Script, NEW amount \in Nat, s.device \in DOMAIN devices,
         Idle(s.device), Admit(s, amount), UNCHANGED generation
  PROVE  OrderInv'
<1> DEFINE id  == <<generation, serial>>
           ops == Admitted(s, amount)
<1>1. /\ now \in Nat /\ serial \in Nat \ {0}
      /\ DOMAIN operations = {generation} \X (1 .. serial - 1)
      /\ \A i \in DOMAIN operations : operations[i].started \in Nat /\ operations[i].started <= now
  BY LInvFacts DEF OrderInv, LInv, Operation
<1>2. /\ id \notin DOMAIN operations
      /\ DOMAIN operations' = DOMAIN operations \cup {id}
      /\ \A i \in DOMAIN operations : operations'[i] = operations[i]
      /\ ops[id].device = s.device /\ Frame(ops[id], operations'[id])
  BY AdmitAdds DEF OrderInv
<1>3. ops[id].started = now
  BY DEF Admitted, Opened
<1>4. operations'[id].started = now /\ operations'[id].device = s.device
  BY <1>2, <1>3 DEF Frame
<1>5. id[2] = serial /\ \A i \in DOMAIN operations : i[2] \in Nat /\ i[2] < serial
  BY <1>1
<1> HIDE DEF id, ops
<1>6. Chronological(operations')
  <2> SUFFICES ASSUME NEW i \in DOMAIN operations', NEW j \in DOMAIN operations', i[2] <= j[2]
               PROVE  operations'[i].started <= operations'[j].started
    BY DEF Chronological
  <2>1. CASE i \in DOMAIN operations /\ j \in DOMAIN operations
    BY <1>2, <2>1 DEF OrderInv, Chronological
  <2>2. CASE j = id
    BY <1>1, <1>2, <1>4, <2>2
  <2>3. CASE i = id /\ j \in DOMAIN operations
    BY <1>1, <1>5, <2>3
  <2> QED
    BY <1>2, <2>1, <2>2, <2>3
<1>7. LastOpen(operations')
  <2> SUFFICES ASSUME NEW i \in Open(operations'), NEW j \in DOMAIN operations',
                      operations'[j].device = operations'[i].device
               PROVE  j[2] <= i[2]
    BY DEF LastOpen
  <2>1. CASE i = id
    BY <1>1, <1>2, <1>5, <2>1
  <2>2. CASE i # id
    <3>1. i \in Open(operations) /\ operations'[i] = operations[i]
      BY <1>2, <2>2 DEF Open
    <3>2. j # id
      BY <1>4, <3>1 DEF Idle
    <3> QED
      BY <1>2, <3>1, <3>2 DEF OrderInv, LastOpen
  <2> QED
    BY <2>1, <2>2
<1> QED
  BY <1>6, <1>7 DEF OrderInv

\* An input acts on its payment and on no other, takes only the terminal of a
\* payment in progress off line, and reopens nothing.
LEMMA ActionActs ==
  ASSUME LInv, NEW id \in DOMAIN operations, NEW event \in Inputs, Action(id, event)
  PROVE  /\ DOMAIN operations' = DOMAIN operations
         /\ \A i \in DOMAIN operations \ {id} : operations'[i] = operations[i]
         /\ \A i \in DOMAIN operations : Frame(operations[i], operations'[i])
         /\ Open(operations') \subseteq Open(operations)
         /\ devices' # devices => id \in Open(operations)
<1>1. /\ DOMAIN operations' = DOMAIN operations
      /\ \A i \in DOMAIN operations \ {id} : operations'[i] = operations[i]
      /\ operations[id] \in Operation /\ operations'[id] \in Operation
      /\ Books(operations[id], operations'[id]) /\ Frame(operations[id], operations'[id])
  BY ActionBooks, LInvFacts
<1>2. \A i \in DOMAIN operations : Frame(operations[i], operations'[i])
  BY <1>1 DEF Frame
<1>3. Active(operations'[id]) => Active(operations[id])
  BY <1>1, StatusFacts DEF Books
<1>4. Open(operations') \subseteq Open(operations)
  BY <1>1, <1>3 DEF Open
<1>5. devices' # devices => id \in Open(operations)
  <2>1. PICK next \in Stages : Reacts(operations[id], event, next) /\ Disconnect(id, event)
    BY DEF Action
  <2>2. event = "device_disconnected" => Active(operations[id])
    BY <2>1 DEF Reacts
  <2> QED
    BY <2>1, <2>2 DEF Disconnect, Open
<1> QED
  BY <1>1, <1>2, <1>4, <1>5

LEMMA ActionKeeps ==
  ASSUME OrderInv, NEW id \in DOMAIN operations, NEW event \in Inputs, Action(id, event)
  PROVE  OrderInv'
<1>1. LInv'
  <2>1. IInv'
    BY ActionStep DEF OrderInv, LInv
  <2>2. counters' = Tally(counters, operations, operations') /\ UNCHANGED <<generation, serial>>
    BY DEF Action
  <2>3. /\ DOMAIN operations' = DOMAIN operations
        /\ \A i \in DOMAIN operations : /\ Books(operations[i], operations'[i])
                                        /\ operations'[i].delivered = operations[i].delivered
    BY ActionBooks DEF OrderInv, Books, Frame
  <2> QED
    BY <2>1, <2>2, <2>3, BooksStep DEF OrderInv
<1> QED
  BY <1>1, ActionActs, MovesKeep DEF OrderInv

LEMMA StandaloneKeeps ==
  ASSUME OrderInv, NEW s \in Scenario, NEW a \in Nat, Standalone(s, a)
  PROVE  OrderInv'
<1>1. IInv'
  BY StandaloneStep DEF OrderInv, LInv
<1>2. LInv'
  BY <1>1, StandaloneAdmits, AdmitCounts DEF OrderInv
<1> QED
  BY <1>2, StandaloneAdmits, AdmitKeeps

LEMMA SetupKeeps ==
  ASSUME OrderInv, IInv', NEW s, NEW d, NEW p, Arm(s) \/ SetDevice(d, p)
  PROVE  OrderInv'
BY SetupCounts DEF OrderInv

LEMMA ResetKeeps ==
  ASSUME OrderInv, Reset
  PROVE  OrderInv'
<1>1. LInv'
  <2>1. [Next]_vars
    BY DEF Next
  <2> QED
    BY <2>1, LInvNext DEF OrderInv
<1>2. DOMAIN operations' = {}
  BY DEF Reset
<1> QED
  BY <1>1, <1>2 DEF OrderInv, Chronological, LastOpen, Open

LEMMA IdleKeeps ==
  ASSUME OrderInv, UNCHANGED vars
  PROVE  OrderInv'
<1>1. LInv'
  BY LInvNext DEF OrderInv
<1> QED
  BY <1>1 DEF OrderInv, vars

\* What the server does with a request of the client.
LEMMA ExecuteKeeps ==
  ASSUME OrderInv, NEW r \in Request, Execute(r)
  PROVE  OrderInv'
<1>1. ASSUME r.resource = "action", NEW id \in DOMAIN operations, Action(id, r.event) PROVE OrderInv'
  BY <1>1, RequestFields, ActionKeeps
<1>2. CASE r.resource = "arm" /\ Arm(r.scenario)
  <2>1. r.scenario \in Scenario
    BY <1>2, RequestFields
  <2>2. IInv'
    BY <1>2, <2>1, ArmStep DEF OrderInv, LInv
  <2> QED
    BY <1>2, <2>2, SetupKeeps
<1>3. CASE r.resource = "standalone" /\ Standalone(r.scenario, r.amount)
  BY <1>3, RequestFields, StandaloneKeeps
<1>4. CASE r.resource = "devices" /\ SetDevice(r.device, r.profile)
  <2>1. r.device \in DeviceIds /\ r.profile \in DeviceProfile
    BY <1>4, RequestFields
  <2>2. IInv'
    BY <1>4, <2>1, SetDeviceStep DEF OrderInv, LInv
  <2> QED
    BY <1>4, <2>2, SetupKeeps
<1>5. CASE Reset
  BY <1>5, ResetKeeps
<1>6. CASE UNCHANGED vars
  BY <1>6, IdleKeeps
<1> QED
  BY <1>1, <1>2, <1>3, <1>4, <1>5, <1>6 DEF Execute

\* What others do.
LEMMA OthersKeep ==
  ASSUME OrderInv, Others
  PROVE  OrderInv'
<1>1. ASSUME NEW d \in DeviceIds, NEW a \in Amounts, NEW m \in Merchants, Start(d, a, m)
      PROVE  OrderInv'
  <2>1. [Next]_vars
    BY <1>1 DEF Next
  <2>2. LInv'
    BY <2>1, LInvNext DEF OrderInv
  <2> QED
    BY <1>1, <2>2, StartAdmits, AdmitKeeps DEF OrderInv, LInv
<1>2. ASSUME NEW s \in Offered, NEW a \in Amounts, Standalone(s, a) PROVE OrderInv'
  BY <1>2, EngineAssumption, StandaloneKeeps
<1>3. ASSUME NEW d \in DeviceIds, NEW p \in Profiles, SetDevice(d, p) PROVE OrderInv'
  <2>1. IInv'
    BY <1>3, EngineAssumption, SetDeviceStep DEF OrderInv, LInv
  <2> QED
    BY <1>3, <2>1, SetupKeeps
<1>4. ASSUME NEW delta \in Deltas, Advance(delta) PROVE OrderInv'
  <2>1. [Next]_vars
    BY <1>4 DEF Next
  <2>2. LInv'
    BY <2>1, LInvNext DEF OrderInv
  <2>3. /\ DOMAIN operations' = DOMAIN operations
        /\ \A i \in DOMAIN operations : /\ Frame(operations[i], operations'[i])
                                        /\ Active(operations'[i]) => Active(operations[i])
    BY <1>4, AdvanceCloses, LInvFacts, StatusFacts DEF OrderInv, Closes
  <2>4. Open(operations') \subseteq Open(operations)
    BY <2>3 DEF Open
  <2> QED
    BY <2>2, <2>3, <2>4, MovesKeep
<1>5. ASSUME NEW id \in DOMAIN operations, NEW event \in Inputs, Action(id, event) PROVE OrderInv'
  BY <1>5, ActionKeeps
<1>6. CASE Reset
  BY <1>6, ResetKeeps
<1> QED
  BY <1>1, <1>2, <1>3, <1>4, <1>5, <1>6 DEF Others

-----------------------------------------------------------------------------
\* The client keeps the invariant.

LEMMA ClientInvInit == ClientInit => ClientInv
<1> SUFFICES ASSUME ClientInit PROVE ClientInv
  OBVIOUS
<1>1. OrderInv
  <2>1. LInv /\ DOMAIN operations = {}
    BY LInvInit DEF ClientInit, Init
  <2> QED
    BY <2>1 DEF OrderInv, Chronological, LastOpen, Open
<1>2. screen \in ScreenType
  BY EngineAssumption DEF ClientInit, ScreenType
<1> QED
  BY <1>1, <1>2 DEF ClientInit, ClientInv, SnapshotInv

\* A handler that sends leaves the rest alone.
LEMMA SendKeeps ==
  ASSUME ClientInv, NEW requests \in Seq(Request), Send(requests), screen' \in ScreenType
  PROVE  ClientInv'
<1>1. outbox' \in Seq(Request)
  BY DEF ClientInv, Send
<1>2. UNCHANGED vars /\ UNCHANGED <<late, snapshot>>
  BY DEF Send
<1>3. OrderInv'
  BY <1>2, IdleKeeps DEF ClientInv
<1> QED
  BY <1>1, <1>2, <1>3 DEF ClientInv, SnapshotInv

LEMMA SendOneKeeps ==
  ASSUME ClientInv, NEW request \in Request, Send(<<request>>), screen' \in ScreenType
  PROVE  ClientInv'
<1>1. <<request>> \in Seq(Request)
  OBVIOUS
<1> QED
  BY <1>1, SendKeeps

\* One that only looks and chooses sends nothing.
LEMMA ScreenKeeps ==
  ASSUME ClientInv, screen' \in ScreenType,
         UNCHANGED <<vars, outbox, late, snapshot>>
  PROVE  ClientInv'
<1>1. OrderInv'
  BY IdleKeeps DEF ClientInv
<1> QED
  BY <1>1 DEF ClientInv, SnapshotInv

\* What the buttons read.
LEMMA CurrentIds ==
  ASSUME ClientInv
  PROVE  Current \subseteq Nat \X Nat
BY DEF ClientInv, SnapshotInv, Current, OnDevice, Known

LEMMA EventsKeep ==
  ASSUME ClientInv, NEW event \in Inputs, Events(event), screen' \in ScreenType
  PROVE  ClientInv'
<1>1. PICK id \in Current : Send(<<[resource |-> "action", id |-> id, event |-> event]>>)
  BY DEF Events
<1>2. [resource |-> "action", id |-> id, event |-> event] \in Request
  BY CurrentIds DEF Request
<1> QED
  BY <1>1, <1>2, SendOneKeeps

LEMMA DeviceRequest ==
  ASSUME ClientInv
  PROVE  screen.device \in DeviceIds /\ ConfiguredDevice \in DeviceProfile
<1>1. screen.device \in DeviceIds
  BY DEF ClientInv, ScreenType
<1>2. DefaultProfile \in DeviceProfile
  BY EngineAssumption DEF DefaultProfile, DeviceProfile
<1> QED
  BY <1>1, <1>2 DEF ConfiguredDevice, ClientInv, SnapshotInv

LEMMA ChosenType ==
  ASSUME ClientInv, NEW tuning \in Tunings,
         NEW choice \in Selectable, choice \notin TransportErrors \cup SetupErrors
  PROVE  Chosen(tuning, choice) \in Scenario
<1>1. tuning \in Scenario /\ screen.device \in DeviceIds
  BY ClientAssumption, DeviceRequest
<1>2. choice \in {"approved", "declined"} \/ choice \in TerminalErrors
  BY ClientAssumption
<1> QED
  BY <1>1, <1>2 DEF Chosen, Scenario, Outcomes

LEMMA PressKeeps ==
  ASSUME ClientInv, Press
  PROVE  ClientInv'
<1>0. screen \in ScreenType
  BY DEF ClientInv
<1>1. ASSUME NEW event \in Inputs, PressEvent(event) PROVE ClientInv'
  BY <1>0, <1>1, EventsKeep DEF PressEvent
<1>2. CASE PressOk
  <2>1. UNCHANGED <<vars, outbox, late, snapshot>>
    BY <1>2 DEF PressOk
  <2>2. screen' \in ScreenType
    BY <1>0, <1>2 DEF PressOk, ScreenType
  <2> QED
    BY <2>1, <2>2, ScreenKeeps
<1>3. ASSUME NEW choice \in Selectable, PressSwitch(choice) PROVE ClientInv'
  <2>1. Sent("transport") \in Request
    BY DEF Sent, Request
  <2> QED
    BY <1>0, <1>3, <2>1, SendOneKeeps DEF PressSwitch
<1>4. ASSUME NEW choice \in Selectable, PressSetup(choice) PROVE ClientInv'
  <2> DEFINE profile == [ConfiguredDevice EXCEPT !.setupError = TRUE]
  <2>1. profile \in DeviceProfile /\ screen.device \in DeviceIds
    BY DeviceRequest DEF DeviceProfile
  <2>2. Send(<<[resource |-> "devices", device |-> screen.device, profile |-> profile]>>)
    BY <1>4 DEF PressSetup
  <2> HIDE DEF profile
  <2>3. [resource |-> "devices", device |-> screen.device, profile |-> profile] \in Request
    BY <2>1 DEF Request
  <2> QED
    BY <1>0, <1>4, <2>2, <2>3, SendOneKeeps DEF PressSetup
<1>5. ASSUME NEW choice \in Selectable, NEW tuning \in Tunings,
             NEW resource \in {"arm", "standalone"}, NEW amount \in Amounts,
             PressQueue(choice, tuning, resource, amount)
      PROVE  ClientInv'
  <2> DEFINE r == [resource |-> resource, scenario |-> Chosen(tuning, choice), amount |-> amount]
  <2>1. Chosen(tuning, choice) \in Scenario
    BY <1>5, ChosenType DEF PressQueue
  <2>2. r \in Request
    BY <2>1 DEF Request
  <2>3. Send(<<r>>) /\ UNCHANGED screen
    BY <1>5 DEF PressQueue
  <2> HIDE DEF r
  <2> QED
    BY <1>0, <2>2, <2>3, SendOneKeeps
<1>6. CASE PressRestore
  <2> DEFINE profile == [ConfiguredDevice EXCEPT !.online = TRUE, !.setupError = FALSE]
             r == [resource |-> "devices", device |-> screen.device, profile |-> profile]
  <2>1. profile \in DeviceProfile /\ screen.device \in DeviceIds
    BY DeviceRequest DEF DeviceProfile
  <2>2. Send(<<Sent("transport"), r>>) /\ UNCHANGED screen
    BY <1>6 DEF PressRestore
  <2> HIDE DEF profile
  <2>3. r \in Request /\ Sent("transport") \in Request
    BY <2>1 DEF Sent, Request
  <2> HIDE DEF r
  <2>4. <<Sent("transport"), r>> \in Seq(Request)
    BY <2>3
  <2> QED
    BY <1>0, <2>2, <2>4, SendKeeps
<1>7. CASE PressReset
  <2>1. Sent("reset") \in Request
    BY DEF Sent, Request
  <2> QED
    BY <1>0, <1>7, <2>1, SendOneKeeps DEF PressReset
<1>8. CASE PressDevice
  <2>1. UNCHANGED <<vars, outbox, late, snapshot>>
    BY <1>8 DEF PressDevice
  <2>2. screen' \in ScreenType
    BY <1>0, <1>8 DEF PressDevice, ScreenType, ClientInv, SnapshotInv
  <2> QED
    BY <2>1, <2>2, ScreenKeeps
<1> QED
  BY <1>1, <1>2, <1>3, <1>4, <1>5, <1>6, <1>7, <1>8 DEF Press, PressPayment

LEMMA ReleaseKeeps ==
  ASSUME ClientInv, ReleaseOk
  PROVE  ClientInv'
<1>1. /\ screen \in ScreenType /\ screen.ok \in Inputs
      /\ screen' \in ScreenType
  BY DEF ClientInv, ScreenType, ReleaseOk, Inputs
<1>2. CASE Current = {} \/ presses = MaxPresses
  BY <1>1, <1>2, ScreenKeeps DEF ReleaseOk
<1>3. CASE ~(Current = {} \/ presses = MaxPresses)
  BY <1>1, <1>3, EventsKeep DEF ReleaseOk
<1> QED
  BY <1>2, <1>3

\* A snapshot of an engine in order is in order.
LEMMA FetchKeeps ==
  ASSUME ClientInv, Fetch
  PROVE  ClientInv'
<1>1. UNCHANGED <<vars, screen, outbox, late>>
  BY DEF Fetch
<1>2. OrderInv'
  BY <1>1, IdleKeeps DEF ClientInv
<1>3. CASE snapshot' = snapshot
  BY <1>1, <1>2, <1>3 DEF ClientInv, SnapshotInv
<1>4. CASE snapshot' = [devices |-> devices, operations |-> Seen]
  <2>1. /\ snapshot'.devices = devices /\ snapshot'.operations = Seen
        /\ DOMAIN devices \subseteq DeviceIds
        /\ \A d \in DOMAIN devices : devices[d] \in DeviceProfile
    BY <1>4 DEF ClientInv, OrderInv, LInv, IInv, TypeOK
  <2>2. /\ DOMAIN Seen = DOMAIN operations
        /\ \A id \in DOMAIN operations : /\ Seen[id].device = operations[id].device
                                         /\ Seen[id].started = operations[id].started
                                         /\ Seen[id].stage = operations[id].stage
    BY DEF Seen
  <2>3. /\ Open(Seen) = Open(operations)
        /\ DOMAIN operations \subseteq Nat \X Nat
        /\ \A id \in DOMAIN operations : operations[id].started \in Nat
    <3>1. Open(Seen) = Open(operations)
      BY <2>2 DEF Open, Active
    <3>2. /\ DOMAIN operations = {generation} \X (1 .. serial - 1)
          /\ generation \in Nat /\ serial \in Nat
          /\ \A id \in DOMAIN operations : operations[id].started \in Nat
      BY LInvFacts DEF ClientInv, OrderInv, LInv, Operation
    <3> QED
      BY <3>1, <3>2
  <2>4. LatestOpen(Seen)
    <3> SUFFICES ASSUME NEW id \in Open(operations), NEW other \in DOMAIN operations,
                        operations[other].device = operations[id].device
                 PROVE  \/ operations[other].started < operations[id].started
                        \/ /\ operations[other].started = operations[id].started
                           /\ other[2] <= id[2]
      <4>1. Open(operations) \subseteq DOMAIN operations
        BY DEF Open
      <4> QED
        BY <2>2, <2>3, <4>1 DEF LatestOpen
    <3>1. other[2] <= id[2]
      BY DEF ClientInv, OrderInv, LastOpen
    <3>2. id \in DOMAIN operations
      BY DEF Open
    <3>3. operations[other].started <= operations[id].started
      BY <3>1, <3>2 DEF ClientInv, OrderInv, Chronological
    <3> QED
      BY <2>3, <3>1, <3>2, <3>3
  <2> HIDE DEF Seen
  <2> QED
    BY <1>1, <1>2, <2>1, <2>2, <2>3, <2>4 DEF ClientInv, SnapshotInv
<1> QED
  BY <1>3, <1>4 DEF Fetch

LEMMA PostKeeps ==
  ASSUME ClientInv, Post
  PROVE  ClientInv'
<1>1. Head(outbox) \in Request /\ outbox' \in Seq(Request)
  BY DEF ClientInv, Post
<1>2. OrderInv'
  BY <1>1, ExecuteKeeps DEF ClientInv, Post
<1> QED
  BY <1>1, <1>2 DEF ClientInv, SnapshotInv, Post

LEMMA TimeOutKeeps ==
  ASSUME ClientInv, TimeOut
  PROVE  ClientInv'
<1>1. late' \in Request /\ outbox' \in Seq(Request)
  BY DEF ClientInv, TimeOut
<1>2. OrderInv'
  BY IdleKeeps DEF ClientInv, TimeOut
<1> QED
  BY <1>1, <1>2 DEF ClientInv, SnapshotInv, TimeOut

LEMMA LateKeeps ==
  ASSUME ClientInv, ExecuteLate
  PROVE  ClientInv'
<1>1. late \in Request /\ late' = NoSnapshot
  BY DEF ClientInv, ExecuteLate
<1>2. OrderInv'
  BY <1>1, ExecuteKeeps DEF ClientInv, ExecuteLate
<1> QED
  BY <1>1, <1>2 DEF ClientInv, SnapshotInv, ExecuteLate

LEMMA ClientInvNext == ClientInv /\ [ClientNext]_clientVars => ClientInv'
<1> SUFFICES ASSUME ClientInv, [ClientNext]_clientVars PROVE ClientInv'
  OBVIOUS
<1>1. CASE Others
  <2>1. OrderInv'
    BY <1>1, OthersKeep DEF ClientInv
  <2> QED
    BY <1>1, <2>1 DEF ClientInv, SnapshotInv, Others
<1>2. CASE UNCHANGED clientVars
  <2>1. UNCHANGED <<vars, screen, outbox, late, snapshot>>
    BY <1>2 DEF clientVars
  <2> QED
    BY <2>1, ScreenKeeps DEF ClientInv
<1> QED
  BY <1>1, <1>2, PressKeeps, ReleaseKeeps, PostKeeps, TimeOutKeeps, LateKeeps, FetchKeeps
  DEF ClientNext

\* The invariant holds throughout.
THEOREM ClientInvariance == ClientSpec => []ClientInv
BY ClientInvInit, ClientInvNext, PTL DEF ClientSpec

-----------------------------------------------------------------------------
\* The theorems.

\* current() picks the payment started last on the chosen device, by the clock
\* and then by number; in whatever snapshot, that is the one in progress there
\* if any is: the clock and the numbers never disagree with what is open.
THEOREM OpenIsShown == ClientSpec => []OpenIsCurrent
<1>1. ClientInv => OpenIsCurrent
  <2> SUFFICES ASSUME ClientInv, NEW id \in Open(Known) \cap OnDevice PROVE id \in Current
    BY DEF OpenIsCurrent
  <2>1. snapshot # NoSnapshot /\ Known = snapshot.operations
    BY DEF Known, OnDevice
  <2>2. LatestOpen(Known)
    BY <2>1 DEF ClientInv, SnapshotInv
  <2> QED
    BY <2>2 DEF LatestOpen, Current, OnDevice
<1> QED
  BY <1>1, ClientInvariance, PTL

\* A request that the server executes, at once or late, is an input to the
\* payment it names, if that is still there, or does nothing.
LEMMA InputHits ==
  ASSUME ClientInv, NEW r \in Request, r.resource = "action", Execute(r)
  PROVE  /\ \A id \in DOMAIN operations : operations'[id] # operations[id] => id = r.id
         /\ devices' # devices => r.id \in Open(operations)
<1>1. LInv
  BY DEF ClientInv, OrderInv
<1>2. ASSUME r.id \in DOMAIN operations, Action(r.id, r.event)
      PROVE  /\ \A id \in DOMAIN operations : operations'[id] # operations[id] => id = r.id
             /\ devices' # devices => r.id \in Open(operations)
  BY <1>1, <1>2, RequestFields, ActionActs
<1>3. CASE UNCHANGED vars
  BY <1>3 DEF vars
<1> QED
  BY <1>2, <1>3 DEF Execute, Named

\* An input acts on the payment that the client meant and on no other, however
\* late the server executes it: identifiers are never given out again, not even
\* after a reset, and a payment that has ended takes no terminal off line.
THEOREM InputsHitTheirPayment == ClientSpec => InputHitsItsPayment
<1>1. ASSUME ClientInv, [ClientNext]_clientVars, NEW r \in Taken \ {NoSnapshot},
             r.resource = "action"
      PROVE  /\ \A id \in DOMAIN operations : operations'[id] # operations[id] => id = r.id
             /\ devices' # devices => r.id \in Open(operations)
  <2>0. outbox \in Seq(Request) /\ late \in Request \cup {NoSnapshot}
    BY <1>1 DEF ClientInv
  <2>1. outbox # << >> => outbox # Tail(outbox)
    <3>1. outbox # << >> => Len(Tail(outbox)) = Len(outbox) - 1 /\ Len(outbox) \in Nat
      BY <2>0
    <3> QED
      BY <3>1
  <2>2. CASE UNCHANGED vars
    BY <2>2 DEF vars
  <2>3. CASE Post
    <3>1. r = Head(outbox) /\ Execute(Head(outbox)) /\ Head(outbox) \in Request
      BY <1>1, <2>0, <2>3 DEF Post, Taken
    <3> QED
      BY <1>1, <3>1, InputHits
  <2>4. CASE ExecuteLate
    <3>1. r = late /\ Execute(late) /\ late \in Request
      BY <1>1, <2>0, <2>1, <2>4 DEF ExecuteLate, Taken
    <3> QED
      BY <1>1, <3>1, InputHits
  <2>5. CASE Others
    <3>1. Taken = {}
      BY <2>1, <2>5 DEF Others, Taken
    <3> QED
      BY <1>1, <3>1
  <2>6. CASE Press \/ ReleaseOk \/ TimeOut \/ Fetch \/ UNCHANGED clientVars
    <3>1. UNCHANGED vars
      <4>1. ASSUME NEW e, Events(e) PROVE UNCHANGED vars
        BY <4>1 DEF Events, Send
      <4> QED
        BY <2>6, <4>1
        DEF Press, PressEvent, PressOk, PressSwitch, PressSetup, PressPayment, PressQueue,
            PressRestore, PressReset, PressDevice, ReleaseOk, TimeOut, Fetch, clientVars, Send
    <3> QED
      BY <2>2, <3>1
  <2> QED
    BY <1>1, <2>3, <2>4, <2>5, <2>6 DEF ClientNext
<1>2. ClientInv /\ [ClientNext]_clientVars
        => [\A r \in Taken \ {NoSnapshot} :
              r.resource = "action" =>
                /\ \A id \in DOMAIN operations : operations'[id] # operations[id] => id = r.id
                /\ devices' # devices => r.id \in Open(operations)]_clientVars
  BY <1>1
<1> QED
  BY <1>2, ClientInvariance, PTL DEF InputHitsItsPayment, ClientSpec

\* Whatever buttons are pressed, whatever scenarios are put together from them
\* and however late requests are executed, the engine's promises hold: the window
\* arms and starts scenarios of its own making, so this does not follow from what
\* is proved of an engine that is offered a fixed set of them.
THEOREM ClientKeepsEngine ==
  ClientSpec =>
    [](/\ OneOpenPerDevice /\ OpenOnReadyDevice
       /\ NothingOverdue /\ DeadlineDecides /\ OutcomeHonoured
       /\ Accounting)
<1>1. ClientInv => LInv /\ IInv
  BY DEF ClientInv, OrderInv, LInv
<1>2. IInv => OneOpenPerDevice /\ OpenOnReadyDevice
  BY DEF IInv, OneOpenIn, OneOpenPerDevice, ReadyIn, OpenOnReadyDevice
<1>3. IInv => NothingOverdue
  BY DEF IInv, QuietIn, Quiet, Open, NothingOverdue
<1>4. IInv => DeadlineDecides /\ OutcomeHonoured
  BY DEF IInv, GoodIn, Good, Sound, DeadlineDecides, OutcomeHonoured
<1>5. LInv => Accounting
  BY LInvFacts, AgreeAccounts DEF LInv
<1> QED
  BY <1>1, <1>2, <1>3, <1>4, <1>5, ClientInvariance, PTL
=============================================================================

------------------------------- MODULE Client -------------------------------
(***************************************************************************)
(* The native client over the engine: what its buttons send, from the      *)
(* snapshot of the engine that its request thread fetched last, and what   *)
(* becomes of that when other clients, payments and resets get in between. *)
(* The thread posts one request at a time, for two seconds, never twice,   *)
(* and fetches a snapshot after each; a request that timed out may still   *)
(* be executed.  Requests name no generation.                              *)
(*                                                                         *)
(* What is only shown is left out.  So is what has been set but is only    *)
(* looked at when a payment is armed or started: the amount, the delays    *)
(* and the next outcome may then be any.                                   *)
(***************************************************************************)
EXTENDS Engine

CONSTANTS
  Selectable,   \* outcomes and catalogue errors that "Next outcome" steps through
  Tunings,      \* what the other settings, delays among them, may be set to
  NoSnapshot,   \* no snapshot yet, no request
  MaxPresses,   \* bound: buttons pressed that send something
  MaxOthers     \* bound: what others do

SetupErrors     == {"driver_install_9011"}  \* the catalogue's category "setup_only"
TransportErrors == {"paylink_not_running"}  \* its category "transport"

ASSUME ClientAssumption ==
  /\ Selectable \subseteq {"approved", "declined"} \cup TerminalErrors \cup SetupErrors \cup TransportErrors
  /\ Tunings \subseteq Scenario
  /\ MaxPresses \in Nat
  /\ MaxOthers \in Nat

VARIABLES
  screen,    \* the chosen device, and what OK is about to send
  outbox,    \* requests on the channel to the thread
  late,      \* one that timed out and may still be executed
  thread,    \* whether the next thing is to post or to fetch
  snapshot,  \* the engine as it was fetched last
  presses,   \* how many buttons were pressed that send something
  others     \* how much others did

clientVars == <<vars, screen, outbox, late, thread, snapshot, presses, others>>

ClientInit ==
  /\ Init
  /\ screen = [device |-> DefaultDevice, ok |-> "none"]
  /\ outbox = << >>
  /\ late = NoSnapshot
  /\ thread = "posting"
  /\ snapshot = NoSnapshot
  /\ presses = 0
  /\ others = 0

-----------------------------------------------------------------------------
\* What the client knows.

Known == IF snapshot = NoSnapshot THEN << >> ELSE snapshot.operations

OnDevice == {id \in DOMAIN Known : Known[id].device = screen.device}

\* Mutant: payments started in the same millisecond are not told apart.
CurrentByTime ==
  IF OnDevice = {} THEN {}
  ELSE {CHOOSE id \in OnDevice :
          \A other \in OnDevice : Known[other].started <= Known[id].started}

\* current(): the payment started last on the chosen device, if there is one.
Current ==
  {id \in OnDevice : \A other \in OnDevice :
     \/ Known[other].started < Known[id].started
     \/ Known[other].started = Known[id].started /\ other[2] <= id[2]}

\* configured_device(): a device that is not known is taken for a fresh one.
ConfiguredDevice ==
  LET d == screen.device IN
  IF snapshot # NoSnapshot /\ d \in DOMAIN snapshot.devices THEN snapshot.devices[d]
  ELSE DefaultProfile

-----------------------------------------------------------------------------
\* Buttons.

Send(requests) ==
  /\ presses < MaxPresses
  /\ presses' = presses + 1
  /\ outbox' = outbox \o requests
  /\ UNCHANGED <<vars, late, thread, snapshot, others>>

Sent(resource) == [resource |-> resource]

Events(event) ==
  LET inputs == {[resource |-> "action", id |-> id, event |-> event] : id \in Current}
  IN  \E input \in inputs : Send(<<input>>)

\* Cancel, the card, the bank's decision, the cable.
PressEvent(event) == Events(event) /\ UNCHANGED screen

\* OK looks at the stage of the current payment ...
PressOk ==
  /\ \E id \in Current :
       \/ Known[id].stage = "awaiting_customer"
          /\ screen' = [screen EXCEPT !.ok = "customer_confirmed"]
       \/ Known[id].stage = "awaiting_confirmation"
          /\ screen' = [screen EXCEPT !.ok = "terminal_confirmed"]
  /\ UNCHANGED <<vars, outbox, late, thread, snapshot, presses, others>>

\* ... and then sends the event for the payment that is the current one by now.
ReleaseOk ==
  /\ screen.ok # "none"
  /\ screen' = [screen EXCEPT !.ok = "none"]
  /\ IF Current = {} \/ presses = MaxPresses
     THEN UNCHANGED <<vars, outbox, late, thread, snapshot, presses, others>>
     ELSE Events(screen.ok)

\* The scenario that is armed or started under this choice.
Chosen(tuning, choice) ==
  IF choice \in {"approved", "declined"}
  THEN [tuning EXCEPT !.device = screen.device, !.amount = 0, !.outcome = choice, !.error = NoError]
  ELSE [tuning EXCEPT !.device = screen.device, !.amount = 0, !.outcome = "error", !.error = choice]

\* queue(): some choices are not scenarios but something to do at once.
PressSwitch(choice) ==
  /\ choice \in TransportErrors
  /\ Send(<<Sent("transport")>>)
  /\ UNCHANGED screen

PressSetup(choice) ==
  /\ choice \in SetupErrors
  /\ Send(<<[resource |-> "devices", device |-> screen.device,
             profile  |-> [ConfiguredDevice EXCEPT !.setupError = TRUE]]>>)
  /\ UNCHANGED screen

PressQueue(choice, tuning, resource, amount) ==
  /\ choice \notin TransportErrors \cup SetupErrors
  /\ Send(<<[resource |-> resource, scenario |-> Chosen(tuning, choice), amount |-> amount]>>)
  /\ UNCHANGED screen

\* "Arm" or "Start", after any delays, faults and amount were set or typed.
PressPayment(choice) ==
  \E tuning \in Tunings, resource \in {"arm", "standalone"}, amount \in Amounts :
    PressQueue(choice, tuning, resource, amount)

PressRestore ==
  /\ Send(<<Sent("transport"),
            [resource |-> "devices", device |-> screen.device,
             profile  |-> [ConfiguredDevice EXCEPT !.online = TRUE, !.setupError = FALSE]]>>)
  /\ UNCHANGED screen

PressReset == Send(<<Sent("reset")>>) /\ UNCHANGED screen

\* The device button steps through those that the client knows.
PressDevice ==
  /\ snapshot # NoSnapshot
  /\ \E d \in DOMAIN snapshot.devices : screen' = [screen EXCEPT !.device = d]
  /\ UNCHANGED <<vars, outbox, late, thread, snapshot, presses, others>>

-----------------------------------------------------------------------------
\* The request thread, and the server.

\* Mutant: the payment is named by its number alone.
NamedNumber(id) == <<generation, id[2]>>

\* The payment that an identifier names: it holds the generation.
Named(id) == id

\* The server executes a request; a switch of the listener leaves the engine alone.
Execute(r) ==
  \/ r.resource = "action" /\ \E id \in {Named(r.id)} \cap DOMAIN operations : Action(id, r.event)
  \/ r.resource = "arm" /\ Arm(r.scenario)
  \/ r.resource = "standalone" /\ Standalone(r.scenario, r.amount)
  \/ r.resource = "devices" /\ SetDevice(r.device, r.profile)
  \/ r.resource = "reset" /\ Reset
  \/ UNCHANGED vars   \* a switch, a refusal, or no server

Post ==
  /\ thread = "posting" /\ outbox # << >>
  /\ Execute(Head(outbox))
  /\ outbox' = Tail(outbox)
  /\ thread' = "fetching"
  /\ UNCHANGED <<screen, late, snapshot, presses, others>>

\* No answer within two seconds.  (Bound: one such request at a time.)
TimeOut ==
  /\ thread = "posting" /\ outbox # << >>
  /\ late = NoSnapshot
  /\ late' = Head(outbox)
  /\ outbox' = Tail(outbox)
  /\ thread' = "fetching"
  /\ UNCHANGED <<vars, screen, snapshot, presses, others>>

ExecuteLate ==
  /\ late # NoSnapshot
  /\ Execute(late)
  /\ late' = NoSnapshot
  /\ UNCHANGED <<screen, outbox, thread, snapshot, presses, others>>

\* What the buttons look at in an operation.
Seen == [id \in DOMAIN operations |->
           LET op == operations[id]
           IN  [device |-> op.device, stage |-> op.stage, started |-> op.started]]

\* After a request, and when there was none for a while; it may fail.
Fetch ==
  /\ thread = "fetching" \/ outbox = << >>
  /\ thread' = "posting"
  /\ snapshot' \in {snapshot, [devices |-> devices, operations |-> Seen]}
  /\ UNCHANGED <<vars, screen, outbox, late, presses, others>>

\* Other clients, payments over the wire, and the clock.  (What they do that
\* the client does not look at, to the queue and the counters, is left out.)
Others ==
  /\ others < MaxOthers
  /\ others' = others + 1
  /\ \/ \E d \in DeviceIds, a \in Amounts, m \in Merchants : Start(d, a, m)
     \/ \E s \in Offered, a \in Amounts : Standalone(s, a)
     \/ \E d \in DeviceIds, p \in Profiles : SetDevice(d, p)
     \/ \E delta \in Deltas : Advance(delta)
     \/ \E id \in DOMAIN operations, event \in Inputs : Action(id, event)
     \/ Reset
  /\ UNCHANGED <<screen, outbox, late, thread, snapshot, presses>>

\* A button's handler runs to its end before the next one's starts.
Press ==
  \/ \E event \in Inputs \ {"customer_confirmed", "terminal_confirmed", "reversed"} :
       PressEvent(event)
  \/ PressOk
  \/ \E choice \in Selectable :
       \/ PressSwitch(choice)
       \/ PressSetup(choice)
       \/ PressPayment(choice)
  \/ PressRestore
  \/ PressReset
  \/ PressDevice

ClientNext ==
  \/ screen.ok = "none" /\ Press
  \/ ReleaseOk
  \/ Post
  \/ TimeOut
  \/ ExecuteLate
  \/ Fetch
  \/ Others

ClientSpec == ClientInit /\ [][ClientNext]_clientVars

-----------------------------------------------------------------------------
\* Properties.

\* The payment in progress on the chosen device, as far as the client knows, is
\* the one it shows and acts on, not one of those that were before it, whenever
\* they started.
OpenIsCurrent ==
  Open(Known) \cap OnDevice \subseteq Current

\* The requests that leave the client's side in this step.
Taken == IF outbox # << >> /\ outbox' = Tail(outbox) THEN {Head(outbox)}
         ELSE IF late' # late THEN {late} ELSE {}

\* An input acts on the payment that the client meant and on no other, however
\* late it is: not on one that came in its place after a reset, nor does a cable
\* pulled from a payment that has ended disturb the terminal of its successor.
InputHitsItsPayment ==
  [][ \A r \in Taken \ {NoSnapshot} :
        r.resource = "action" =>
          /\ \A id \in DOMAIN operations : operations'[id] # operations[id] => id = r.id
          /\ devices' # devices => r.id \in Open(operations) ]_clientVars
=============================================================================

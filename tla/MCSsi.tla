------------------------------- MODULE MCSsi -------------------------------
(***************************************************************************)
(* An instance of SsiServer for TLC: a client that sends all kinds of      *)
(* frames, and one that pays and asks for the result.  The scenarios have  *)
(* a phase that can be interrupted and one that cannot.                    *)
(***************************************************************************)
EXTENDS SsiWire

CONSTANTS p1, p2

Normal == [m \in Methods |-> "normal"]

Approved == [phases |-> <<[status |-> "S02", ms |-> 1], [status |-> "S04", ms |-> 1]>>,
             error |-> "", faults |-> Normal, request_errors |-> {}, delayed |-> TRUE,
             fragments |-> 1]

\* Ends at once, and keeps quiet about it.
Declined == [phases |-> << >>, error |-> "E21",
             faults |-> [Normal EXCEPT !["Purchase"] = "silence", !["Interrupt"] = "close"],
             request_errors |-> {"GetResultByUid"}, delayed |-> FALSE, fragments |-> 2]

TwoScenarios == {Approved, Declined}

Frame(frame, method, legal) == [frame |-> frame, method |-> method, uid |-> "u", legal |-> legal]

Ask(method) == Frame("request", method, TRUE)

\* A method that is unknown or only gives information is answered as an illegal
\* purchase is, with no effect.
AnyFrame == {Ask("Purchase"), Ask("Interrupt"), Ask("GetResultByUid"),
             Frame("request", "Purchase", FALSE), Frame("garbled", "Other", TRUE),
             Frame("fatal", "Other", TRUE)}

TwoClients == [p \in Peers |-> IF p = p1 THEN AnyFrame ELSE {Ask("Purchase"), Ask("GetLastResult")}]

TwoAndOne == [p \in Peers |-> IF p = p1 THEN 2 ELSE 1]

-----------------------------------------------------------------------------
\* The wire.

\* For all that is told apart, one digit's JSON will do.
One     == <<49>>
OneJson == {One}

\* A request; a frame that carries one in its data, whole or with a wrong
\* checksum; bytes that are out of step.
FourMessages ==
  {Encode(One), Encode(Encode(One)), [Encode(Encode(One)) EXCEPT ![13] = 0], <<49>> \o Encode(One)}

\* Nothing, an incomplete frame, too few bytes to tell.
ThreeTails == {<< >>, Front(Encode(One)), <<49, 49>>}
=============================================================================

------------------------------- MODULE Server -------------------------------
(***************************************************************************)
(* The whole server: Control's handlers and listener task, the payment     *)
(* connections that the listener accepts, and the engine they all share.   *)
(* The engine is taken at its promise, the book of payments of Ledger,     *)
(* which Engine is shown to implement; stages, clocks and scenarios are    *)
(* left to Engine.                                                         *)
(*                                                                         *)
(* A connection is a task that suspends at its awaits; each of its actions *)
(* runs from one await to the next.  An aborted task ends at an await too, *)
(* but not necessarily at its next one.                                    *)
(***************************************************************************)
EXTENDS Control, FiniteSets

CONSTANTS
  Clients,       \* payment clients; each connects once
  DeviceIds,
  Policies,      \* the delivery policies of scenarios
  MaxPayments    \* bound: payments per generation

ASSUME ServerAssumption ==
  /\ Policies \subseteq {"normal", "disconnect_after_accept", "disconnect_after_commit",
                         "partial_response", "hang"}
  /\ MaxPayments \in Nat

VARIABLES
  book,        \* the engine's payments: <<generation, n>> -> [device, status]
  delivered,   \* those marked delivered
  links        \* the clients' connections

serverVars == <<controlVars, book, delivered, links>>

Book == INSTANCE Ledger

NoPayment == <<0, 0>>

\* at: the connection's await.  since: the generation when the client connected;
\* generation: the one its task was given.  reply: what it is about to send.
NewLink == [at |-> "absent", since |-> 0, generation |-> 0, payment |-> NoPayment,
           policy |-> "normal", reply |-> "none", aborted |-> FALSE]

Alive  == {"parsing", "journalling", "checking", "polling", "replying", "confirming",
           "recording"}
Ended  == {"closed", "panicked"}
Tasks  == {k \in Clients : links[k].at \in Alive}

OpenPayments == {id \in DOMAIN book : book[id].status = "open"}

ServerInit ==
  /\ Init
  /\ book = << >>
  /\ delivered = {}
  /\ links = [k \in Clients |-> NewLink]

-----------------------------------------------------------------------------
\* The engine.

\* Time passes: the clock task, or an advance command.
Time == /\ \E after \in [DOMAIN book -> [device : DeviceIds, status : Book!Status]] : book' = after
        /\ Book!Settlement
        /\ book' # book

Entered(d, status) == /\ Cardinality(DOMAIN book) < MaxPayments
                      /\ Book!Enter(d, status)

Started == \E d \in DeviceIds, status \in Book!Status : Entered(d, status)

\* What another accepted command may do to the payments: arm, devices, scenarios
\* and assert nothing, standalone starts one, action closes or refunds one,
\* advance lets time pass.
Acted ==
  \/ UNCHANGED book
  \/ Started
  \/ \E id \in DOMAIN book : Book!Refund(id) \/ \E status \in Book!Outcome : Book!Close(id, status)
  \/ Time

Tick == Time /\ UNCHANGED <<controlVars, delivered, links>>

-----------------------------------------------------------------------------
\* Control's steps, with their effect on engine and connections.

ServerExecute(c, cmd) ==
  /\ Execute(c, cmd)
  /\ IF cmd.resource = "reset"          THEN book' = << >> /\ delivered' = {}
     ELSE IF cmd.resource = "transport" THEN UNCHANGED <<book, delivered>>
     ELSE IF cmd.resource = "purchase"  THEN Started /\ UNCHANGED delivered
     ELSE Acted /\ UNCHANGED delivered
  /\ UNCHANGED links

ServerHandle(c) ==
  /\ Handle(c) \/ GiveUp(c)
  /\ UNCHANGED <<book, delivered, links>>

\* A refused purchase enters no payment.
ServerReply(c, cmd) ==
  /\ Repeat(c, cmd) \/ Stale(c, cmd) \/ Reject(c, cmd) \/ RejectStarted(c, cmd)
  /\ UNCHANGED <<book, delivered, links>>

\* abort_all()
Abort(ls) == [k \in Clients |-> IF ls[k].at \in Alive THEN [ls[k] EXCEPT !.aborted = TRUE] ELSE ls[k]]

\* The operating system closes what the listener had not accepted.
Unbound(ls) == [k \in Clients |-> IF ls[k].at = "backlog" THEN [ls[k] EXCEPT !.at = "closed"] ELSE ls[k]]

ServerSubscribe ==
  /\ Subscribe
  /\ links' = IF listenerOnline' THEN links ELSE Unbound(links)
  /\ UNCHANGED <<book, delivered>>

\* Mutant: a reset waits for the connections instead of aborting them.
ServerHearPatiently ==
  /\ Hear
  /\ UNCHANGED <<book, delivered, links>>

ServerHear ==
  /\ Hear
  /\ links' = Abort(links)
  /\ UNCHANGED <<book, delivered>>

\* Mutant: a reset is acknowledged before the aborted connections have ended.
ServerDrainedEarly ==
  /\ Drained
  /\ UNCHANGED <<book, delivered, links>>

ServerDrained ==
  /\ Drained
  /\ Tasks = {}
  /\ UNCHANGED <<book, delivered, links>>

ServerAcknowledge == Acknowledge /\ UNCHANGED <<book, delivered, links>>

ServerFollow ==
  /\ Follow
  /\ links' = IF transport.value THEN links ELSE Abort(Unbound(links))
  /\ UNCHANGED <<book, delivered>>

-----------------------------------------------------------------------------
\* Connections.

Quiet == UNCHANGED <<controlVars, book, delivered>>

Put(k, link) == links' = [links EXCEPT ![k] = link]

Close(k) == Put(k, [links[k] EXCEPT !.at = "closed"])

\* A client connects while the port is bound.
Connect(k) ==
  /\ links[k].at = "absent"
  /\ listenerOnline
  /\ Put(k, [NewLink EXCEPT !.at = "backlog", !.since = generation])
  /\ Quiet

\* accept(), then, under the lock, the generation that the new task belongs to.
Accept(k) ==
  /\ listener = "selecting"
  /\ listenerOnline
  /\ links[k].at = "backlog"
  /\ Put(k, [links[k] EXCEPT !.at = "parsing", !.generation = generation])
  /\ Quiet

\* The request is malformed, too long, or not complete within ten seconds.
Unreadable(k) ==
  /\ links[k].at = "parsing"
  /\ Put(k, [links[k] EXCEPT !.at = "replying", !.reply = "refusal"])
  /\ Quiet

\* It is not a purchase, or not a legal one: what is asked is answered from the
\* engine's state as it is.
Decline(k) ==
  /\ links[k].at = "parsing"
  /\ Put(k, [links[k] EXCEPT !.at = "replying", !.reply = "answer"])
  /\ Quiet

\* A purchase that comes after a reset is not served.
Fence(k) ==
  /\ links[k].at = "parsing"
  /\ generation # links[k].generation
  /\ Close(k)
  /\ Quiet

\* Mutant: the generation of the connection is not checked.
MayStartAnytime(k) == links[k].at = "parsing"

MayStart(k) == links[k].at = "parsing" /\ generation = links[k].generation

\* start() admits a payment; its scenario brings the delivery policy.
Purchase(k, d, status, policy) ==
  /\ MayStart(k)
  /\ Entered(d, status)
  /\ Put(k, [links[k] EXCEPT !.at = "journalling", !.payment = Book!NextId, !.policy = policy])
  /\ UNCHANGED <<controlVars, delivered>>

\* start() refuses, or its scenario breaks the link before acceptance.
PurchaseRefused(k) ==
  /\ MayStart(k)
  /\ \E reply \in {"refusal", "none"} :
       Put(k, [links[k] EXCEPT !.at = "journalling", !.reply = reply])
  /\ Quiet

\* Mutant: a link that was to break before acceptance is left open.
LinkJournalledOpen(k) ==
  /\ links[k].at = "journalling"
  /\ \/ /\ links[k].payment # NoPayment
        /\ Put(k, [links[k] EXCEPT !.at = "checking"])
     \/ /\ links[k].reply = "refusal"
        /\ Put(k, [links[k] EXCEPT !.at = "replying"])
  /\ Quiet

\* The journal is written, once or twice, or fails and the link breaks.
LinkJournalled(k) ==
  /\ links[k].at = "journalling"
  /\ \/ Close(k)
     \/ /\ links[k].payment # NoPayment
        /\ Put(k, [links[k] EXCEPT !.at = "checking"])
     \/ /\ links[k].reply = "refusal"
        /\ Put(k, [links[k] EXCEPT !.at = "replying"])
  /\ Quiet

\* operations[&id], which panics when a reset came in between.
Check(k) ==
  /\ links[k].at = "checking"
  /\ Put(k, [links[k] EXCEPT
               !.at = IF links[k].payment \notin DOMAIN book THEN "panicked"
                      ELSE IF links[k].policy = "disconnect_after_accept" THEN "closed"
                      ELSE "polling"])
  /\ Quiet

\* A reset took the payment away.
Vanish(k) ==
  /\ links[k].at = "polling"
  /\ links[k].payment \notin DOMAIN book
  /\ Close(k)
  /\ Quiet

\* The payment has ended and its response delay has passed.
Finish(k) ==
  /\ links[k].at = "polling"
  /\ links[k].payment \in DOMAIN book \ OpenPayments
  /\ links[k].policy # "hang"
  /\ IF links[k].policy = "disconnect_after_commit"
     THEN Close(k)
     ELSE Put(k, [links[k] EXCEPT !.at = "replying", !.reply = book[links[k].payment].status])
  /\ Quiet

\* The reply is written.
Reply(k) ==
  /\ links[k].at = "replying"
  /\ Put(k, [links[k] EXCEPT
               !.at = IF links[k].payment # NoPayment /\ links[k].policy = "normal"
                      THEN "confirming" ELSE "closed"])
  /\ Quiet

\* The client has gone and the write fails.
Break(k) ==
  /\ links[k].at = "replying"
  /\ Close(k)
  /\ Quiet

\* Mutant: the payment is marked although a reset took it away.
ConfirmBlindly(k) ==
  /\ links[k].at = "confirming"
  /\ delivered' = delivered \cup {links[k].payment}
  /\ Put(k, [links[k] EXCEPT !.at = "recording"])
  /\ UNCHANGED <<controlVars, book>>

\* engine.delivered(), an error when a reset took the payment away.
Confirm(k) ==
  /\ links[k].at = "confirming"
  /\ IF links[k].payment \in DOMAIN book
     THEN /\ delivered' = delivered \cup {links[k].payment}
          /\ Put(k, [links[k] EXCEPT !.at = "recording"])
     ELSE Close(k) /\ UNCHANGED delivered
  /\ UNCHANGED <<controlVars, book>>

\* The journal is written once more, or fails.
Recorded(k) ==
  /\ links[k].at = "recording"
  /\ Close(k)
  /\ Quiet

\* An aborted task is dropped.
Drop(k) ==
  /\ links[k].at \in Alive
  /\ links[k].aborted
  /\ Close(k)
  /\ Quiet

-----------------------------------------------------------------------------
ServerListen == \/ ServerSubscribe
                \/ ServerHear
                \/ ServerDrained
                \/ ServerAcknowledge
                \/ ServerFollow

Serve(k) == \/ Unreadable(k)
            \/ Decline(k)
            \/ Fence(k)
            \/ \E d \in DeviceIds, status \in Book!Status, policy \in Policies :
                 Purchase(k, d, status, policy)
            \/ PurchaseRefused(k)
            \/ LinkJournalled(k)
            \/ Check(k)
            \/ Vanish(k)
            \/ Finish(k)
            \/ Reply(k)
            \/ Break(k)
            \/ Confirm(k)
            \/ Recorded(k)
            \/ Drop(k)

ServerNext ==
  \/ \E c \in Callers, cmd \in Offered : ServerExecute(c, cmd) \/ ServerReply(c, cmd)
  \/ \E c \in Callers : ServerHandle(c)
  \/ ServerListen
  \/ \E k \in Clients : Connect(k) \/ Accept(k) \/ Serve(k)
  \/ Tick

ServerSpec == ServerInit /\ [][ServerNext]_serverVars

\* A tick after which no payment is open: the deadlines have passed.
LastTick == Tick /\ \A id \in DOMAIN book' : book'[id].status # "open"

\* The runtime polls every task, the clock runs on, and every select! arm that
\* stays ready is taken.
ServerLiveSpec ==
  /\ ServerSpec
  /\ \A c \in Callers : WF_serverVars(ServerHandle(c))
  /\ WF_serverVars(ServerListen)
  /\ \A k \in Clients : WF_serverVars(Accept(k)) /\ WF_serverVars(Serve(k))
  /\ WF_serverVars(LastTick)

-----------------------------------------------------------------------------
\* Properties.

ServerTypeOK ==
  /\ TypeOK
  /\ DOMAIN book \subseteq {generation} \X (1 .. MaxPayments)
  /\ \A id \in DOMAIN book : book[id] \in [device : DeviceIds, status : Book!Status]
  /\ delivered \subseteq DOMAIN book
  /\ links \in [Clients ->
       [at : {"absent", "backlog"} \cup Alive \cup Ended,
        since : 0..generation, generation : 0..generation,
        payment : {NoPayment} \cup ((1..generation) \X (1..MaxPayments)),
        policy : Policies \cup {"normal"},
        reply : {"none", "refusal", "answer"} \cup Book!Status,
        aborted : BOOLEAN]]

\* c has executed a reset and seen it acknowledged.
HasReset(c) == /\ calls[c].at \in {"switching", "journalling", "ok", "journal_failed"}
               /\ calls[c].command.resource = "reset"

\* The reset fence.  Once a reset's handler has seen its acknowledgement, no
\* connection accepted before that reset is alive, so none can consume what is
\* armed afterwards.
ResetFence ==
  \A c \in Callers : HasReset(c) => \A k \in Tasks : links[k].generation >= Target(c)

\* A payment answers to one connection, accepted in its own generation.
OwnPayment ==
  \A j, k \in Clients :
    links[k].payment # NoPayment =>
      /\ links[k].payment[1] = links[k].generation
      /\ links[j].payment = links[k].payment => j = k

\* Every connection ends, unless its scenario says that it hangs: a reset, a
\* vanished payment, a broken link or a stopped listener never strand one.
Hanging(k) == links[k].at = "polling" /\ links[k].policy = "hang"

ConnectionsEnd ==
  \A k \in Clients : links[k].at \in Alive \cup {"backlog"} ~> links[k].at \in Ended \/ Hanging(k)

\* The listener acknowledges the last reset signalled to it, for no connection,
\* not even a hanging one, can hold up its drain.
LastResetAcknowledged == <>[](listenerGeneration = resetConnections.value)

\* And it obeys the last switch sent, for good: it is on exactly when that was
\* "on", unless the attempt to bind that followed it failed, which the control
\* plane shows.  Nor is a switch overlooked that came before the listener ran.
LastSwitchFollowed ==
  <>[](~transport.unseen /\ listenerOnline = (transport.value /\ ~listenerError))

\* What the comment on the polling loop says, "Reset invalidated this
\* connection": it returns quietly, and does not panic.
ResetInvalidates == \A k \in Clients : links[k].at # "panicked"
=============================================================================

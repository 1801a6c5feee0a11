------------------------------ MODULE Control ------------------------------
(***************************************************************************)
(* The command side of the control plane: POST requests whose handlers run *)
(* concurrently, the cache that makes a repeated command harmless, and the *)
(* two watch channels through which reset and transport commands reach the *)
(* payment listener.  A handler holds the engine's lock once, and all it   *)
(* does there is one action; what follows, up to its next await, is        *)
(* another.  Between them other handlers run, or the client goes away and  *)
(* the handler is dropped.                                                 *)
(*                                                                         *)
(* What the engine does with a command is left to Engine and Server: here  *)
(* it accepts it or not; only the purchase has an effect when refused, and *)
(* is told from the other commands, which "action" stands for.             *)
(***************************************************************************)
EXTENDS Naturals, Sequences

CONSTANTS
  Callers,         \* requests, each sent once; a retry is another of them
  CommandIds,
  Offered,         \* the commands that clients send
  MaxGeneration    \* bound: generations, hence resets

Always == 0        \* the generation of a command that names none

Command == [id         : CommandIds,
            resource   : {"action", "purchase", "transport", "reset"},
            generation : Nat,
            online     : BOOLEAN]

ASSUME ControlAssumption == Offered \subseteq Command /\ MaxGeneration \in Nat

VARIABLES
  generation,          \* the engine's
  commands,            \* executed commands of this generation, by identifier
  executions,          \* all effects of commands so far: the generation they
                       \* left, and whether the engine accepted the command
  resetConnections,    \* watch channel: the generation to reset to
  transport,           \* watch channel: the listener wanted on or off
  listener,            \* where the listener task is
  heard,               \* the generation it is about to acknowledge
  listenerGeneration,  \* the one it has acknowledged
  listenerOnline,      \* its socket is bound
  listenerError,       \* its last attempt to bind failed
  acknowledged,        \* every generation it has acknowledged
  calls                \* the requests: where each is and what it executed

listenerVars == <<listener, heard, listenerGeneration, listenerOnline, listenerError,
                  acknowledged>>
controlVars  == <<generation, commands, executions, resetConnections, transport,
                  listenerVars, calls>>

\* A handler's awaits, and the replies: "repeated" is an "ok" from the cache.
Handling == {"signal", "waiting", "switching", "journalling"}
Replies  == {"ok", "repeated", "conflict", "stale", "rejected", "reset_failed", "journal_failed"}
Places   == {"new", "gone"} \cup Handling \cup Replies

Watch(value, unseen) == [value |-> value, unseen |-> unseen]

NoCommand == [id |-> "none"]

Init ==
  /\ generation = 1
  /\ commands = << >>
  /\ executions = << >>
  /\ resetConnections = Watch(1, FALSE)
  /\ transport = Watch(TRUE, FALSE)
  /\ listener = "starting"
  /\ heard = 1
  /\ listenerGeneration = 1
  /\ listenerOnline = TRUE
  /\ listenerError = FALSE
  /\ acknowledged = {1}
  /\ calls = [c \in Callers |-> [at |-> "new", command |-> NoCommand, execution |-> 0]]

-----------------------------------------------------------------------------
\* The locked part of a handler.

Move(c, place) == calls' = [calls EXCEPT ![c].at = place]

\* The request ends there, having executed nothing itself.
Answered(c, cmd, reply, execution) ==
  /\ calls[c].at = "new"
  /\ calls' = [calls EXCEPT ![c] = [at |-> reply, command |-> cmd, execution |-> execution]]
  /\ UNCHANGED <<generation, commands, executions, resetConnections, transport, listenerVars>>

Cached(cmd) == cmd.id \in DOMAIN commands

\* Mutant: the content under a used identifier is not compared.
RepeatAnything(c, cmd) ==
  /\ Cached(cmd)
  /\ Answered(c, cmd, "repeated", commands[cmd.id].execution)

\* The identifier was used: the same content gets the same result.
Repeat(c, cmd) ==
  /\ Cached(cmd)
  /\ IF commands[cmd.id].command = cmd
     THEN Answered(c, cmd, "repeated", commands[cmd.id].execution)
     ELSE Answered(c, cmd, "conflict", 0)

Fresh(cmd) == cmd.generation \in {Always, generation}

Stale(c, cmd) ==
  /\ ~Cached(cmd)
  /\ ~Fresh(cmd)
  /\ Answered(c, cmd, "stale", 0)

\* The engine refuses; nothing is remembered of the command.
Reject(c, cmd) ==
  /\ ~Cached(cmd)
  /\ Fresh(cmd)
  /\ cmd.resource \in {"action", "purchase"}
  /\ Answered(c, cmd, "rejected", 0)

Effect(cmd, left, accepted) ==
  executions' = Append(executions, [command |-> cmd, generation |-> left, accepted |-> accepted])

\* The same of a purchase that start() has counted, and perhaps spent a use of
\* its scenario on, before it fails.
RejectStarted(c, cmd) ==
  /\ calls[c].at = "new"
  /\ ~Cached(cmd)
  /\ Fresh(cmd)
  /\ cmd.resource = "purchase"
  /\ Effect(cmd, generation, FALSE)
  /\ calls' = [calls EXCEPT ![c] =
                 [at |-> "rejected", command |-> cmd, execution |-> Len(executions')]]
  /\ UNCHANGED <<generation, commands, resetConnections, transport, listenerVars>>

\* Mutant: a reset clears its own result too.
RememberThenClear(cmd, execution) ==
  IF cmd.resource = "reset" THEN << >>
  ELSE [id \in DOMAIN commands \cup {cmd.id} |->
          IF id = cmd.id THEN [command |-> cmd, execution |-> execution] ELSE commands[id]]

\* The cache with a new entry; a reset has cleared it first.
Remember(cmd, execution) ==
  LET kept == IF cmd.resource = "reset" THEN {} ELSE DOMAIN commands
      new  == [command |-> cmd, execution |-> execution]
  IN  [id \in kept \cup {cmd.id} |-> IF id = cmd.id THEN new ELSE commands[id]]

Execute(c, cmd) ==
  /\ calls[c].at = "new"
  /\ ~Cached(cmd)
  /\ Fresh(cmd)
  /\ cmd.resource = "reset" => generation < MaxGeneration
  /\ generation' = IF cmd.resource = "reset" THEN generation + 1 ELSE generation
  /\ Effect(cmd, generation', TRUE)
  /\ commands' = Remember(cmd, Len(executions'))
  /\ calls' = [calls EXCEPT ![c] =
                 [at |-> IF cmd.resource = "reset"          THEN "signal"
                         ELSE IF cmd.resource = "transport" THEN "switching"
                         ELSE "journalling",
                  command |-> cmd, execution |-> Len(executions')]]
  /\ UNCHANGED <<resetConnections, transport, listenerVars>>

-----------------------------------------------------------------------------
\* The rest of a handler.

\* The generation that c's own command left.
Target(c) == executions[calls[c].execution].generation

Signal(c) ==
  /\ calls[c].at = "signal"
  /\ resetConnections' = Watch(Target(c), TRUE)
  /\ Move(c, "waiting")
  /\ UNCHANGED <<generation, commands, executions, transport, listenerVars>>

\* A look under the lock finds the acknowledgement.
Confirmed(c) ==
  /\ calls[c].at = "waiting"
  /\ listenerGeneration = Target(c)
  /\ Move(c, "switching")
  /\ UNCHANGED <<generation, commands, executions, resetConnections, transport, listenerVars>>

\* Mutant: the handler waits without a limit.
TimeOutNever(c) == calls[c].at = "timeout" /\ UNCHANGED controlVars

\* Two seconds passed and a look under the lock still does not find it.
TimeOut(c) ==
  /\ calls[c].at = "waiting"
  /\ listenerGeneration # Target(c)
  /\ Move(c, "reset_failed")
  /\ UNCHANGED <<generation, commands, executions, resetConnections, transport, listenerVars>>

Switch(c) ==
  /\ calls[c].at = "switching"
  /\ transport' = Watch(calls[c].command.resource = "reset" \/ calls[c].command.online, TRUE)
  /\ Move(c, "journalling")
  /\ UNCHANGED <<generation, commands, executions, resetConnections, listenerVars>>

Journalled(c) ==
  /\ calls[c].at = "journalling"
  /\ \E reply \in {"ok", "journal_failed"} : Move(c, reply)
  /\ UNCHANGED <<generation, commands, executions, resetConnections, transport, listenerVars>>

\* The client closes its connection: the handler is dropped at its await.
GiveUp(c) ==
  /\ calls[c].at \in {"waiting", "journalling"}
  /\ Move(c, "gone")
  /\ UNCHANGED <<generation, commands, executions, resetConnections, transport, listenerVars>>

-----------------------------------------------------------------------------
\* The listener task, as far as commands can tell; Server adds its connections.

Reading == /\ heard' = resetConnections.value
           /\ resetConnections' = [resetConnections EXCEPT !.unseen = FALSE]

Subscribe ==
  /\ listener = "starting"
  /\ listener' = "acknowledging"
  /\ Reading
  /\ transport' = [transport EXCEPT !.unseen = FALSE]
  /\ listenerOnline' = transport.value
  /\ UNCHANGED <<generation, commands, executions, listenerGeneration, listenerError,
                 acknowledged, calls>>

\* reset.changed(): the open connections are aborted ...
Hear ==
  /\ listener = "selecting"
  /\ resetConnections.unseen
  /\ listener' = "draining"
  /\ resetConnections' = [resetConnections EXCEPT !.unseen = FALSE]
  /\ UNCHANGED <<generation, commands, executions, transport, heard, listenerGeneration,
                 listenerOnline, listenerError, acknowledged, calls>>

\* ... and when all have ended the latest generation is read ...
Drained ==
  /\ listener = "draining"
  /\ listener' = "acknowledging"
  /\ Reading
  /\ UNCHANGED <<generation, commands, executions, transport, listenerGeneration,
                 listenerOnline, listenerError, acknowledged, calls>>

\* ... and, under the lock, acknowledged.
Acknowledge ==
  /\ listener = "acknowledging"
  /\ listener' = "selecting"
  /\ listenerGeneration' = heard
  /\ acknowledged' = acknowledged \cup {heard}
  /\ UNCHANGED <<generation, commands, executions, resetConnections, transport, heard,
                 listenerOnline, listenerError, calls>>

\* Mutant: the listener goes off when asked, and never on again.
FollowOff ==
  /\ listener = "selecting"
  /\ transport.unseen
  /\ transport' = [transport EXCEPT !.unseen = FALSE]
  /\ listenerOnline' = (listenerOnline /\ transport.value)
  /\ UNCHANGED <<generation, commands, executions, resetConnections, listener, heard,
                 listenerGeneration, listenerError, acknowledged, calls>>

\* online.changed(): unbind, or bind, which may fail and is not tried again.
Follow ==
  /\ listener = "selecting"
  /\ transport.unseen
  /\ transport' = [transport EXCEPT !.unseen = FALSE]
  /\ \/ ~transport.value /\ listenerOnline' = FALSE /\ listenerError' = FALSE
     \/ transport.value /\ listenerOnline /\ UNCHANGED <<listenerOnline, listenerError>>
     \/ /\ transport.value /\ ~listenerOnline
        /\ \E bound \in BOOLEAN : listenerOnline' = bound /\ listenerError' = ~bound
  /\ UNCHANGED <<generation, commands, executions, resetConnections, listener, heard,
                 listenerGeneration, acknowledged, calls>>

-----------------------------------------------------------------------------
Handle(c) == Signal(c) \/ Confirmed(c) \/ TimeOut(c) \/ Switch(c) \/ Journalled(c)

Listen == Subscribe \/ Hear \/ Drained \/ Acknowledge \/ Follow

Next ==
  \/ \E c \in Callers, cmd \in Offered :
       \/ Repeat(c, cmd) \/ Stale(c, cmd)
       \/ Reject(c, cmd) \/ RejectStarted(c, cmd)
       \/ Execute(c, cmd)
  \/ \E c \in Callers : Handle(c) \/ GiveUp(c)
  \/ Listen

Spec == Init /\ [][Next]_controlVars

\* The runtime keeps polling every handler and the listener task.
LiveSpec ==
  /\ Spec
  /\ \A c \in Callers : WF_controlVars(Handle(c))
  /\ WF_controlVars(Listen)

-----------------------------------------------------------------------------
\* Properties.

TypeOK ==
  /\ generation \in 1..MaxGeneration \cup {1}
  /\ DOMAIN commands \subseteq CommandIds
  /\ \A id \in DOMAIN commands :
       /\ commands[id].command \in Command
       /\ commands[id].execution \in DOMAIN executions
  /\ executions \in Seq([command : Command, generation : 1..generation, accepted : BOOLEAN])
  /\ resetConnections \in [value : 1..generation, unseen : BOOLEAN]
  /\ transport \in [value : BOOLEAN, unseen : BOOLEAN]
  /\ listener \in {"starting", "selecting", "draining", "acknowledging"}
  /\ heard \in 1..generation
  /\ listenerGeneration \in acknowledged
  /\ listenerOnline \in BOOLEAN
  /\ listenerError \in BOOLEAN
  /\ acknowledged \subseteq 1..generation
  /\ \A c \in Callers :
       /\ calls[c].at \in Places
       /\ calls[c].at # "new" => calls[c].command \in Command
       /\ calls[c].execution \in 0..Len(executions)

\* Refused, but not without effect.
RefusedPurchase(done) == done.command.resource = "purchase" /\ ~done.accepted

\* Idempotency: a command identifier has its effect once, however often and after
\* whatever failure clients repeat it, unless a reset under another identifier
\* came in between, with one exception.  The engine counts a purchase that it
\* refuses, and may spend a use of a scenario on it; the refusal is not
\* remembered, so the identifier may do the same again, or be accepted then.
\* What was accepted is not done again: a repeated reset does not reset twice.
ExecutedOnce ==
  \A n \in DOMAIN executions : \A m \in 1 .. n - 1 :
    executions[m].command.id = executions[n].command.id =>
      \/ RefusedPurchase(executions[m])
      \/ \E k \in m + 1 .. n - 1 :
           /\ executions[k].command.resource = "reset"
           /\ executions[k].command.id # executions[m].command.id

\* A reply tells its client the truth: "ok" comes with the accepted execution of
\* the very command it sent, not another's under the same identifier, in a
\* generation the command allowed; "conflict" means there was such another; the
\* handlers that end in a late failure did execute; and one that is rejected
\* did not, but for a purchase.
HonestReply ==
  \A c \in Callers :
    LET call == calls[c]
        done == executions[call.execution]
    IN
    /\ call.at \in {"ok", "repeated", "reset_failed", "journal_failed"} =>
         LET from == done.generation - (IF call.command.resource = "reset" THEN 1 ELSE 0)
         IN  /\ done.accepted
             /\ done.command = call.command
             /\ call.command.generation \in {Always, from}
    /\ call.at = "conflict" =>
         \E n \in DOMAIN executions :
           /\ executions[n].accepted
           /\ executions[n].command.id = call.command.id
           /\ executions[n].command # call.command
    /\ call.at = "rejected" /\ call.execution # 0 =>
         RefusedPurchase(done) /\ done.command = call.command

\* Every request is answered, unless its client gives up: resets that overtake
\* each other on the way to the listener at worst time out.
EveryRequestAnswered ==
  \A c \in Callers : calls[c].at \in Handling ~> calls[c].at \in Replies \cup {"gone"}
=============================================================================

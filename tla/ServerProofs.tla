----------------------------- MODULE ServerProofs -----------------------------
(***************************************************************************)
(* Theorems about Control, for any requests, commands and bounds, and then *)
(* about Server, which is Control with the payments' listener, for any     *)
(* clients and devices too.                                                *)
(***************************************************************************)
EXTENDS Server, FiniteSetTheorems, SequenceTheorems, TLAPS

-----------------------------------------------------------------------------
\* Control: the inductive invariant.

\* What a request may be about.
Call == [at : Places, command : Command \cup {NoCommand}, execution : Nat]

\* The replies that come with an execution, and the awaits on the way to them.
Executed == Handling \cup {"ok", "repeated", "reset_failed", "journal_failed"}

\* The generation in which an execution was accepted.
AcceptedIn(done) == done.generation - (IF done.command.resource = "reset" THEN 1 ELSE 0)

\* The cache refers to accepted executions of the very commands it holds.
CacheSound ==
  \A id \in DOMAIN commands :
    LET n == commands[id].execution IN
    /\ n \in DOMAIN executions
    /\ executions[n].command = commands[id].command
    /\ executions[n].command.id = id
    /\ executions[n].accepted

\* What the cache does not hold was never put into it, or cleared by a reset
\* under another identifier, which came after it.
CacheComplete ==
  \A n \in DOMAIN executions :
    \/ executions[n].command.id \in DOMAIN commands
    \/ RefusedPurchase(executions[n])
    \/ \E k \in n + 1 .. Len(executions) :
         /\ executions[k].command.resource = "reset"
         /\ executions[k].command.id # executions[n].command.id

\* No command was executed in a generation that it does not allow.
InGeneration ==
  \A n \in DOMAIN executions :
    executions[n].command.generation \in {Always, AcceptedIn(executions[n])}

\* A request that is past the lock refers to the execution of its own command.
OwnExecution ==
  \A c \in Callers :
    /\ calls[c].at \in Executed =>
         /\ calls[c].execution \in DOMAIN executions
         /\ executions[calls[c].execution].command = calls[c].command
         /\ executions[calls[c].execution].accepted
    /\ calls[c].at = "rejected" /\ calls[c].execution # 0 =>
         /\ calls[c].execution \in DOMAIN executions
         /\ executions[calls[c].execution].command = calls[c].command
         /\ RefusedPurchase(executions[calls[c].execution])
    /\ calls[c].at = "conflict" =>
         \E n \in DOMAIN executions :
           /\ executions[n].accepted
           /\ executions[n].command.id = calls[c].command.id
           /\ executions[n].command # calls[c].command

CInv ==
  /\ TypeOK
  /\ calls \in [Callers -> Call]
  /\ CacheSound
  /\ CacheComplete
  /\ InGeneration
  /\ OwnExecution
  /\ ExecutedOnce

\* An execution, in generation g at the latest.
Done(g) == [command : Command, generation : 1..g, accepted : BOOLEAN]

LEMMA LogEntries ==
  ASSUME CInv
  PROVE  /\ executions \in Seq(Done(generation))
         /\ Len(executions) \in Nat
         /\ DOMAIN executions = 1..Len(executions)
         /\ \A n \in 1..Len(executions) : /\ executions[n].command \in Command
                                          /\ executions[n].generation \in 1..generation
                                          /\ executions[n].accepted \in BOOLEAN
<1>1. executions \in Seq(Done(generation))
  BY DEF CInv, TypeOK, Done
<1>2. \A n \in 1..Len(executions) : executions[n] \in Done(generation)
  BY <1>1, ElementOfSeq
<1> QED
  BY <1>1, <1>2, LenProperties DEF Done

LEMMA CInvInit == Init => CInv
<1> SUFFICES ASSUME Init PROVE CInv
  OBVIOUS
<1>1. calls \in [Callers -> Call] /\ \A c \in Callers : calls[c].at = "new" /\ calls[c].execution = 0
  BY DEF Init, Call, Places
<1>2. DOMAIN commands = {} /\ executions = << >> /\ DOMAIN executions = {}
  BY DEF Init
<1>3. Len(executions) = 0
  BY <1>2, EmptySeq
<1>4. TypeOK
  <2>1. executions \in Seq([command : Command, generation : 1..generation, accepted : BOOLEAN])
    <3> DEFINE Entry == [command : Command, generation : 1..generation, accepted : BOOLEAN]
    <3> HIDE DEF Entry
    <3>1. executions \in Seq(Entry)
      BY <1>2, EmptySeq
    <3> QED
      BY <3>1 DEF Entry
  <2>2. /\ generation \in 1..MaxGeneration \cup {1}
        /\ resetConnections \in [value : 1..generation, unseen : BOOLEAN]
        /\ transport \in [value : BOOLEAN, unseen : BOOLEAN]
        /\ listener \in {"starting", "selecting", "draining", "acknowledging"}
        /\ heard \in 1..generation
        /\ listenerGeneration \in acknowledged
        /\ listenerOnline \in BOOLEAN /\ listenerError \in BOOLEAN
        /\ acknowledged \subseteq 1..generation
    <3>1. /\ generation = 1 /\ heard = 1 /\ listenerGeneration = 1 /\ acknowledged = {1}
          /\ resetConnections = Watch(1, FALSE) /\ transport = Watch(TRUE, FALSE)
          /\ listener = "starting" /\ listenerOnline = TRUE /\ listenerError = FALSE
      BY DEF Init
    <3>2. listenerOnline \in BOOLEAN /\ listenerError \in BOOLEAN
      BY <3>1
    <3>3. 1 \in 1..generation
      BY <3>1
    <3>4. /\ resetConnections \in [value : 1..generation, unseen : BOOLEAN]
          /\ transport \in [value : BOOLEAN, unseen : BOOLEAN]
      BY <3>1, <3>3 DEF Watch
    <3> QED
      BY <3>1, <3>2, <3>3, <3>4
  <2>3. \A c \in Callers : calls[c].at = "new" /\ calls[c].execution \in 0..Len(executions)
    <3>1. 0 \in 0..Len(executions)
      BY <1>3
    <3> QED
      BY <1>1, <3>1
  <2>4. \A c \in Callers : calls[c].at \in Places
    BY <2>3 DEF Places
  <2>5. DOMAIN commands \subseteq CommandIds /\ \A id \in DOMAIN commands : FALSE
    BY <1>2
  <2> QED
    BY <2>1, <2>2, <2>3, <2>4, <2>5, Zenon DEF TypeOK
<1> QED
  BY <1>1, <1>2, <1>4 DEF CInv, CacheSound, CacheComplete, InGeneration, OwnExecution, ExecutedOnce,
       Executed, Handling

-----------------------------------------------------------------------------
\* The steps.

\* What TypeOK says of the channels and of the listener.
ListenerOK ==
  /\ resetConnections \in [value : 1..generation, unseen : BOOLEAN]
  /\ transport \in [value : BOOLEAN, unseen : BOOLEAN]
  /\ listener \in {"starting", "selecting", "draining", "acknowledging"}
  /\ heard \in 1..generation
  /\ listenerGeneration \in acknowledged
  /\ listenerOnline \in BOOLEAN
  /\ listenerError \in BOOLEAN
  /\ acknowledged \subseteq 1..generation

\* What TypeOK and OwnExecution say of one request.
CallOK(log, call) ==
  /\ call \in Call
  /\ call.at # "new" => call.command \in Command
  /\ call.execution \in 0..Len(log)
  /\ call.at \in Executed =>
       /\ call.execution \in DOMAIN log
       /\ log[call.execution].command = call.command
       /\ log[call.execution].accepted
  /\ call.at = "rejected" /\ call.execution # 0 =>
       /\ call.execution \in DOMAIN log
       /\ log[call.execution].command = call.command
       /\ RefusedPurchase(log[call.execution])
  /\ call.at = "conflict" =>
       \E n \in DOMAIN log :
         /\ log[n].accepted
         /\ log[n].command.id = call.command.id
         /\ log[n].command # call.command

LEMMA CallsOK ==
  CInv => ListenerOK /\ DOMAIN calls = Callers /\ \A c \in Callers : CallOK(executions, calls[c])
BY DEF CInv, TypeOK, ListenerOK, OwnExecution, CallOK

\* A step that executes nothing has to keep the requests and the listener sound.
LEMMA Unexecuted ==
  ASSUME CInv, UNCHANGED <<generation, commands, executions>>, ListenerOK',
         calls' \in [Callers -> Call], \A c \in Callers : CallOK(executions', calls'[c])
  PROVE  CInv'
<1>1. TypeOK' /\ OwnExecution'
  BY DEF CInv, TypeOK, ListenerOK, OwnExecution, CallOK, Call
<1> QED
  BY <1>1 DEF CInv, CacheSound, CacheComplete, InGeneration, AcceptedIn, ExecutedOnce

\* A step of one request that executes nothing.
LEMMA CallStep ==
  ASSUME CInv, UNCHANGED <<generation, commands, executions>>, ListenerOK',
         NEW c \in Callers, NEW call, calls' = [calls EXCEPT ![c] = call], CallOK(executions, call)
  PROVE  CInv'
<1>1. \A x \in Callers : calls'[x] = IF x = c THEN call ELSE calls[x]
  BY CallsOK
<1>2. calls' \in [Callers -> Call]
  BY <1>1 DEF CInv, CallOK
<1>3. \A x \in Callers : CallOK(executions', calls'[x])
  BY <1>1, CallsOK
<1> QED
  BY <1>2, <1>3, Unexecuted

\* The request moves on, among the places to which its execution belongs.
LEMMA MoveStep ==
  ASSUME CInv, UNCHANGED <<generation, commands, executions>>, ListenerOK',
         NEW c \in Callers, NEW place \in Executed \cup {"gone"}, Move(c, place),
         calls[c].at \in Executed
  PROVE  CInv'
<1> DEFINE call == [calls[c] EXCEPT !.at = place]
<1>1. CallOK(executions, calls[c]) /\ calls[c] \in Call
  BY CallsOK DEF CallOK
<1>2. call \in Call /\ call.at = place /\ call.command = calls[c].command
      /\ call.execution = calls[c].execution
  BY <1>1 DEF Call, Executed, Handling, Places, Replies
<1>3. calls' = [calls EXCEPT ![c] = call]
  BY DEF Move
<1> HIDE DEF call
<1>4. calls[c].at # "new" /\ place \notin {"conflict", "rejected"}
  BY DEF Executed, Handling
<1>5. CallOK(executions, call)
  BY <1>1, <1>2, <1>4 DEF CallOK
<1> QED
  BY <1>3, <1>5, CallStep

\* A request that is answered at once.
LEMMA AnsweredStep ==
  ASSUME CInv, NEW c \in Callers, NEW cmd \in Command, NEW reply \in Replies,
         NEW execution \in 0..Len(executions), Answered(c, cmd, reply, execution),
         reply \in Executed =>
           /\ execution \in DOMAIN executions
           /\ executions[execution].command = cmd /\ executions[execution].accepted,
         reply = "rejected" => execution = 0,
         reply = "conflict" =>
           \E n \in DOMAIN executions :
             /\ executions[n].accepted
             /\ executions[n].command.id = cmd.id /\ executions[n].command # cmd
  PROVE  CInv'
<1> DEFINE call == [at |-> reply, command |-> cmd, execution |-> execution]
<1>1. calls' = [calls EXCEPT ![c] = call] /\ UNCHANGED <<generation, commands, executions>>
  BY DEF Answered
<1>2. ListenerOK'
  BY CallsOK DEF Answered, listenerVars, ListenerOK
<1>3. Len(executions) \in Nat
  BY DEF CInv, TypeOK
<1>4. CallOK(executions, call)
  BY <1>3 DEF CallOK, Call, Places
<1> QED
  BY <1>1, <1>2, <1>4, CallStep

LEMMA RepeatStep ==
  ASSUME CInv, NEW c \in Callers, NEW cmd \in Command, Repeat(c, cmd)
  PROVE  CInv'
<1> DEFINE n == commands[cmd.id].execution
<1>1. /\ n \in DOMAIN executions /\ n \in 0..Len(executions) /\ 0 \in 0..Len(executions)
      /\ executions[n].command = commands[cmd.id].command
      /\ executions[n].command.id = cmd.id
      /\ executions[n].accepted
  BY DEF CInv, CacheSound, TypeOK, Repeat, Cached
<1>2. CASE commands[cmd.id].command = cmd
  <2>1. Answered(c, cmd, "repeated", n) /\ "repeated" \in Replies
    BY <1>2 DEF Repeat, Replies
  <2> QED
    BY <1>1, <1>2, <2>1, AnsweredStep
<1>3. CASE commands[cmd.id].command # cmd
  <2>1. Answered(c, cmd, "conflict", 0) /\ "conflict" \in Replies /\ "conflict" \notin Executed
    BY <1>3 DEF Repeat, Replies, Executed, Handling
  <2> QED
    BY <1>1, <1>3, <2>1, AnsweredStep
<1> QED
  BY <1>2, <1>3

LEMMA RefusalStep ==
  ASSUME CInv, NEW c \in Callers, NEW cmd \in Command, Stale(c, cmd) \/ Reject(c, cmd)
  PROVE  CInv'
<1>1. PICK reply \in {"stale", "rejected"} : Answered(c, cmd, reply, 0)
  BY DEF Stale, Reject
<1>2. reply \in Replies /\ reply \notin Executed /\ reply # "conflict"
  BY <1>1 DEF Replies, Executed, Handling
<1>3. 0 \in 0..Len(executions)
  BY DEF CInv, TypeOK
<1> QED
  BY <1>1, <1>2, <1>3, AnsweredStep

LEMMA HandleStep ==
  ASSUME CInv, NEW c \in Callers, Handle(c) \/ GiveUp(c)
  PROVE  CInv'
<1>1. UNCHANGED <<generation, commands, executions>>
  BY DEF Handle, Signal, Confirmed, TimeOut, Switch, Journalled, GiveUp
<1>2. calls[c].at \in Executed /\ \E place \in Executed \cup {"gone"} : Move(c, place)
  BY DEF Handle, Signal, Confirmed, TimeOut, Switch, Journalled, GiveUp, Executed, Handling
<1>3. ListenerOK'
  <2>1. CASE Signal(c)
    <3>1. CallOK(executions, calls[c]) /\ calls[c].at \in Executed /\ ListenerOK
      BY CallsOK, <1>2
    <3>2. Target(c) \in 1..generation
      BY <3>1, LogEntries DEF CallOK, Target
    <3> QED
      BY <2>1, <3>1, <3>2 DEF ListenerOK, Signal, Watch, listenerVars
  <2>2. CASE Switch(c)
    <3>1. CallOK(executions, calls[c]) /\ ListenerOK /\ calls[c].at # "new"
      BY CallsOK, <2>2 DEF Switch
    <3>2. calls[c].command.online \in BOOLEAN
      BY <3>1 DEF CallOK, Command
    <3>3. transport' \in [value : BOOLEAN, unseen : BOOLEAN]
      BY <2>2, <3>2 DEF Switch, Watch
    <3> QED
      BY <2>2, <3>1, <3>3 DEF ListenerOK, Switch, listenerVars
  <2>3. CASE Confirmed(c) \/ TimeOut(c) \/ Journalled(c) \/ GiveUp(c)
    BY <2>3, CallsOK DEF ListenerOK, Confirmed, TimeOut, Journalled, GiveUp, listenerVars
  <2> QED
    BY <2>1, <2>2, <2>3 DEF Handle
<1> QED
  BY <1>1, <1>2, <1>3, MoveStep

LEMMA ListenStep ==
  ASSUME CInv, Listen
  PROVE  CInv'
<1>1. UNCHANGED <<generation, commands, executions, calls>>
  BY DEF Listen, Subscribe, Hear, Drained, Acknowledge, Follow
<1>2. ListenerOK'
  BY CallsOK DEF ListenerOK, Listen, Subscribe, Hear, Drained, Acknowledge, Follow, Reading
<1> QED
  BY <1>1, <1>2, CallsOK, Unexecuted DEF CInv

-----------------------------------------------------------------------------
\* The steps that have an effect, and append it to the log.

\* Every entry of the log stays, and the new one comes after them.
LEMMA LogGrows ==
  ASSUME CInv, NEW cmd \in Command, NEW accepted \in BOOLEAN, Effect(cmd, generation', accepted),
         generation' \in Nat, generation <= generation'
  PROVE  /\ executions' \in Seq(Done(generation'))
         /\ Len(executions') = Len(executions) + 1
         /\ DOMAIN executions' = 1..Len(executions) + 1
         /\ \A n \in 1..Len(executions) : executions'[n] = executions[n]
         /\ executions'[Len(executions) + 1].command = cmd
         /\ executions'[Len(executions) + 1].generation = generation'
         /\ executions'[Len(executions) + 1].accepted = accepted
<1> DEFINE done == [command |-> cmd, generation |-> generation', accepted |-> accepted]
<1>1. generation \in Nat /\ generation >= 1
  BY ControlAssumption DEF CInv, TypeOK
<1>2. executions \in Seq(Done(generation)) /\ Len(executions) \in Nat
  BY LogEntries
<1>3. Done(generation) \subseteq Done(generation') /\ done \in Done(generation')
  BY <1>1 DEF Done
<1>4. /\ done.command = cmd /\ done.generation = generation' /\ done.accepted = accepted
      /\ executions' = Append(executions, done)
  BY DEF Effect
<1> HIDE DEF done
<1>5. executions \in Seq(Done(generation'))
  BY <1>2, <1>3, SeqMonotonic
<1> QED
  BY <1>2, <1>3, <1>4, <1>5, AppendProperties

\* What is neither cached nor cleared by a reset was refused, so a command that
\* is not cached may have its effect.
LEMMA EffectOnce ==
  ASSUME CInv, NEW cmd \in Command, NEW accepted \in BOOLEAN, Effect(cmd, generation', accepted),
         generation' \in Nat, generation <= generation', ~Cached(cmd)
  PROVE  ExecutedOnce'
<1>0. PICK N \in Nat : N = Len(executions)
  BY LogEntries
<1>1. /\ DOMAIN executions = 1..N /\ DOMAIN executions' = 1..N + 1
      /\ \A n \in 1..N : executions'[n] = executions[n]
      /\ executions'[N + 1].command = cmd
  BY <1>0, LogEntries, LogGrows
<1> SUFFICES ASSUME NEW n \in 1..N + 1, NEW m \in 1 .. n - 1,
                    executions'[m].command.id = executions'[n].command.id,
                    ~RefusedPurchase(executions[m])
             PROVE  \E k \in m + 1 .. n - 1 :
                      /\ executions'[k].command.resource = "reset"
                      /\ executions'[k].command.id # executions'[m].command.id
  <2>1. \A n \in 1..N + 1 : \A m \in 1 .. n - 1 : executions'[m] = executions[m]
    BY <1>1
  <2> QED
    BY <1>1, <2>1 DEF ExecutedOnce, RefusedPurchase
<1>2. m \in 1..N /\ executions'[m] = executions[m]
  BY <1>1
<1>3. CASE n \in 1..N
  <2>1. executions'[n] = executions[n]
    BY <1>1, <1>3
  <2>2. PICK k \in m + 1 .. n - 1 : /\ executions[k].command.resource = "reset"
                                   /\ executions[k].command.id # executions[m].command.id
    BY <1>1, <1>2, <1>3, <2>1, ZenonT(30) DEF CInv, ExecutedOnce
  <2>3. k \in 1..N
    BY <1>2, <1>3
  <2> QED
    BY <1>1, <1>2, <2>2, <2>3
<1>4. CASE n = N + 1
  <2>1. executions[m].command.id \notin DOMAIN commands
    BY <1>1, <1>2, <1>4 DEF Cached
  <2>2. PICK k \in m + 1 .. N : /\ executions[k].command.resource = "reset"
                               /\ executions[k].command.id # executions[m].command.id
    BY <1>0, <1>1, <1>2, <2>1 DEF CInv, CacheComplete
  <2>3. k \in 1..N /\ k \in m + 1 .. n - 1
    BY <1>2, <1>4, <2>2
  <2> QED
    BY <1>1, <1>2, <2>2, <2>3
<1>5. n \in 1..N \/ n = N + 1
  OBVIOUS
<1> QED
  BY <1>3, <1>4, <1>5

LEMMA EffectInGeneration ==
  ASSUME CInv, NEW cmd \in Command, NEW accepted \in BOOLEAN, Effect(cmd, generation', accepted),
         generation' = IF cmd.resource = "reset" THEN generation + 1 ELSE generation, Fresh(cmd)
  PROVE  InGeneration'
<1>0. PICK N \in Nat : N = Len(executions)
  BY LogEntries
<1>1. generation \in Nat /\ generation' \in Nat /\ generation <= generation'
  BY ControlAssumption DEF CInv, TypeOK
<1>2. /\ DOMAIN executions = 1..N /\ DOMAIN executions' = 1..N + 1
      /\ \A n \in 1..N : executions'[n] = executions[n]
      /\ executions'[N + 1].command = cmd
      /\ executions'[N + 1].generation = generation'
  BY <1>0, <1>1, LogEntries, LogGrows
<1>3. \A n \in 1..N : executions[n].command.generation \in {Always, AcceptedIn(executions[n])}
  BY <1>2 DEF CInv, InGeneration
<1>4. \A n \in 1..N : executions'[n].command.generation \in {Always, AcceptedIn(executions'[n])}
  BY <1>2, <1>3 DEF AcceptedIn
<1>5. AcceptedIn(executions'[N + 1]) = generation
  BY <1>1, <1>2 DEF AcceptedIn
<1>6. executions'[N + 1].command.generation \in {Always, AcceptedIn(executions'[N + 1])}
  BY <1>2, <1>5 DEF Fresh
<1>7. \A n \in 1..N + 1 : n \in 1..N \/ n = N + 1
  OBVIOUS
<1> QED
  BY <1>2, <1>4, <1>6, <1>7 DEF InGeneration

\* The other requests refer to what they referred to.
LEMMA EffectCalls ==
  ASSUME CInv, NEW cmd \in Command, NEW accepted \in BOOLEAN, Effect(cmd, generation', accepted),
         generation' \in Nat, generation <= generation',
         NEW c \in Callers, NEW call, calls' = [calls EXCEPT ![c] = call], CallOK(executions', call)
  PROVE  /\ calls' \in [Callers -> Call]
         /\ \A x \in Callers : CallOK(executions', calls'[x])
<1>0. PICK N \in Nat : N = Len(executions)
  BY LogEntries
<1>1. /\ DOMAIN executions = 1..N /\ DOMAIN executions' = 1..N + 1 /\ Len(executions') = N + 1
      /\ \A n \in 1..N : n \in 1..N + 1 /\ executions'[n] = executions[n]
  BY <1>0, LogEntries, LogGrows
<1>2. \A x \in Callers : calls'[x] = IF x = c THEN call ELSE calls[x]
  BY CallsOK
<1>3. \A x \in Callers : CallOK(executions', calls'[x])
  <2> SUFFICES ASSUME NEW x \in Callers, x # c PROVE CallOK(executions', calls[x])
    BY <1>2
  <2>1. CallOK(executions, calls[x])
    BY CallsOK
  <2>2. calls[x].execution \in 0..N + 1
    BY <1>0, <2>1 DEF CallOK
  <2> QED
    BY <1>1, <2>1, <2>2 DEF CallOK
<1>4. calls' \in [Callers -> Call]
  BY <1>2, <1>3 DEF CInv, CallOK
<1> QED
  BY <1>3, <1>4

LEMMA ExecuteStep ==
  ASSUME CInv, NEW c \in Callers, NEW cmd \in Command, Execute(c, cmd)
  PROVE  CInv'
<1>0. PICK N \in Nat : N = Len(executions)
  BY LogEntries
<1> DEFINE call == [at |-> IF cmd.resource = "reset"          THEN "signal"
                           ELSE IF cmd.resource = "transport" THEN "switching"
                           ELSE "journalling",
                    command |-> cmd, execution |-> N + 1]
<1>1. /\ generation' = IF cmd.resource = "reset" THEN generation + 1 ELSE generation
      /\ Effect(cmd, generation', TRUE)
      /\ ~Cached(cmd) /\ Fresh(cmd)
      /\ cmd.resource = "reset" => generation < MaxGeneration
  BY DEF Execute
<1>2. /\ generation \in Nat /\ generation >= 1 /\ ListenerOK
      /\ generation' \in Nat /\ generation <= generation' /\ 1..generation \subseteq 1..generation'
  <2>1. generation \in Nat /\ generation >= 1
    BY ControlAssumption DEF CInv, TypeOK
  <2> QED
    BY <1>1, <2>1, CallsOK
<1>3. /\ executions' \in Seq(Done(generation'))
      /\ Len(executions') = N + 1 /\ DOMAIN executions' = 1..N + 1
      /\ \A n \in 1..N : executions'[n] = executions[n]
      /\ executions'[N + 1].command = cmd /\ executions'[N + 1].accepted
  BY <1>0, <1>1, <1>2, LogGrows
<1>4. /\ DOMAIN executions = 1..N /\ N + 1 \in 1..N + 1
      /\ \A n \in 1..N + 1 : n \in 1..N \/ n = N + 1
  BY <1>0, LogEntries
<1>5. calls' = [calls EXCEPT ![c] = call] /\ commands' = Remember(cmd, N + 1)
      /\ UNCHANGED <<resetConnections, transport, listenerVars>>
  BY <1>3 DEF Execute
<1>6. /\ DOMAIN commands' = (IF cmd.resource = "reset" THEN {} ELSE DOMAIN commands) \cup {cmd.id}
      /\ commands'[cmd.id] = [command |-> cmd, execution |-> N + 1]
      /\ \A id \in DOMAIN commands' \ {cmd.id} : id \in DOMAIN commands /\ commands'[id] = commands[id]
  BY <1>5 DEF Remember
<1>7. CallOK(executions', call)
  <2>1. /\ call.at \in {"signal", "switching", "journalling"}
        /\ call.command = cmd /\ call.execution = N + 1
        /\ call \in Call
    BY DEF Call, Places, Handling
  <2> HIDE DEF call
  <2>2. N + 1 \in 0..N + 1
    OBVIOUS
  <2> QED
    BY <1>3, <1>4, <2>1, <2>2 DEF CallOK
<1> HIDE DEF call
<1>8. CacheSound'
  <2>1. \A id \in DOMAIN commands : /\ commands[id].execution \in 1..N
                                   /\ executions[commands[id].execution].command = commands[id].command
                                   /\ executions[commands[id].execution].command.id = id
                                   /\ executions[commands[id].execution].accepted
    BY <1>4 DEF CInv, CacheSound
  <2>2. \A id \in DOMAIN commands' \ {cmd.id} :
          /\ commands'[id].execution \in 1..N + 1
          /\ executions'[commands'[id].execution].command = commands'[id].command
          /\ executions'[commands'[id].execution].command.id = id
          /\ executions'[commands'[id].execution].accepted
    BY <1>3, <1>6, <2>1
  <2> QED
    BY <1>3, <1>4, <1>6, <2>2 DEF CacheSound
<1>9. CacheComplete'
  <2> SUFFICES ASSUME NEW n \in 1..N + 1, executions'[n].command.id \notin DOMAIN commands',
                      ~RefusedPurchase(executions'[n])
               PROVE  \E k \in n + 1 .. N + 1 :
                        /\ executions'[k].command.resource = "reset"
                        /\ executions'[k].command.id # executions'[n].command.id
    BY <1>3 DEF CacheComplete, RefusedPurchase
  <2>1. n \in 1..N /\ executions'[n] = executions[n]
    BY <1>3, <1>4, <1>6
  <2>2. CASE cmd.resource = "reset"
    <3>1. executions'[N + 1].command.id # executions'[n].command.id
      BY <1>3, <1>6
    <3>2. N + 1 \in n + 1 .. N + 1
      BY <2>1
    <3> QED
      BY <1>3, <2>2, <3>1, <3>2
  <2>3. CASE cmd.resource # "reset"
    <3>1. executions[n].command.id \notin DOMAIN commands
      BY <1>6, <2>1, <2>3
    <3>2. PICK k \in n + 1 .. N : /\ executions[k].command.resource = "reset"
                                 /\ executions[k].command.id # executions[n].command.id
      BY <1>0, <1>4, <2>1, <3>1 DEF CInv, CacheComplete
    <3>3. k \in 1..N /\ k \in n + 1 .. N + 1
      BY <2>1, <3>2
    <3> QED
      BY <1>3, <2>1, <3>2, <3>3
  <2> QED
    BY <2>2, <2>3
<1>10. InGeneration' /\ ExecutedOnce'
  BY <1>1, <1>2, EffectInGeneration, EffectOnce
<1>11. calls' \in [Callers -> Call] /\ \A x \in Callers : CallOK(executions', calls'[x])
  BY <1>1, <1>2, <1>5, <1>7, EffectCalls
<1>12. OwnExecution'
  BY <1>11 DEF CallOK, OwnExecution
<1>13. ListenerOK'
  BY <1>2, <1>5 DEF ListenerOK, listenerVars
<1>14. TypeOK'
  <2>1. generation' \in 1..MaxGeneration \cup {1}
    BY <1>1, <1>2, ControlAssumption DEF CInv, TypeOK
  <2>2. DOMAIN commands' \subseteq CommandIds
    BY <1>6 DEF CInv, TypeOK, Command
  <2>3. \A id \in DOMAIN commands' :
          commands'[id].command \in Command /\ commands'[id].execution \in DOMAIN executions'
    <3> SUFFICES ASSUME NEW id \in DOMAIN commands'
                 PROVE  commands'[id].command \in Command /\ commands'[id].execution \in DOMAIN executions'
      OBVIOUS
    <3>1. CASE id = cmd.id
      BY <1>3, <1>4, <1>6, <3>1
    <3>2. CASE id # cmd.id
      BY <1>3, <1>6, <1>8, <3>2 DEF CInv, TypeOK, CacheSound
    <3> QED
      BY <3>1, <3>2
  <2>4. \A x \in Callers :
          /\ calls'[x].at \in Places
          /\ calls'[x].at # "new" => calls'[x].command \in Command
          /\ calls'[x].execution \in 0..Len(executions')
    BY <1>11 DEF CallOK, Call
  <2> QED
    BY <1>3, <1>13, <2>1, <2>2, <2>3, <2>4 DEF TypeOK, ListenerOK, Done
<1> QED
  BY <1>8, <1>9, <1>10, <1>11, <1>12, <1>14 DEF CInv

\* A purchase that is refused leaves its trace in the log, and nothing in the cache.
LEMMA RejectStartedStep ==
  ASSUME CInv, NEW c \in Callers, NEW cmd \in Command, RejectStarted(c, cmd)
  PROVE  CInv'
<1>0. PICK N \in Nat : N = Len(executions)
  BY LogEntries
<1> DEFINE call == [at |-> "rejected", command |-> cmd, execution |-> N + 1]
<1>1. /\ UNCHANGED <<generation, commands, resetConnections, transport, listenerVars>>
      /\ Effect(cmd, generation', FALSE)
      /\ ~Cached(cmd) /\ Fresh(cmd) /\ cmd.resource = "purchase"
  BY DEF RejectStarted
<1>2. generation \in Nat /\ generation >= 1 /\ generation' \in Nat /\ generation <= generation'
      /\ ListenerOK
  <2>1. generation \in Nat /\ generation >= 1
    BY ControlAssumption DEF CInv, TypeOK
  <2> QED
    BY <1>1, <2>1, CallsOK
<1>3. /\ executions' \in Seq(Done(generation'))
      /\ Len(executions') = N + 1 /\ DOMAIN executions' = 1..N + 1
      /\ \A n \in 1..N : executions'[n] = executions[n]
      /\ executions'[N + 1].command = cmd /\ executions'[N + 1].accepted = FALSE
  BY <1>0, <1>1, <1>2, LogGrows
<1>4. /\ DOMAIN executions = 1..N /\ N + 1 \in 1..N + 1
      /\ \A n \in 1..N + 1 : n \in 1..N \/ n = N + 1
  BY <1>0, LogEntries
<1>5. RefusedPurchase(executions'[N + 1])
  BY <1>1, <1>3 DEF RefusedPurchase
<1>6. calls' = [calls EXCEPT ![c] = call]
  BY <1>3 DEF RejectStarted
<1>7. CallOK(executions', call)
  <2>1. /\ call.at = "rejected" /\ call.command = cmd /\ call.execution = N + 1
        /\ call \in Call /\ call.at \notin Executed
    BY DEF Call, Places, Replies, Executed, Handling
  <2> HIDE DEF call
  <2>2. N + 1 \in 0..N + 1
    OBVIOUS
  <2> QED
    BY <1>3, <1>4, <1>5, <2>1, <2>2 DEF CallOK
<1> HIDE DEF call
<1>8. CacheSound'
  BY <1>1, <1>3, <1>4 DEF CInv, CacheSound
<1>9. CacheComplete'
  <2> SUFFICES ASSUME NEW n \in 1..N + 1, executions'[n].command.id \notin DOMAIN commands,
                      ~RefusedPurchase(executions'[n])
               PROVE  \E k \in n + 1 .. N + 1 :
                        /\ executions'[k].command.resource = "reset"
                        /\ executions'[k].command.id # executions'[n].command.id
    BY <1>1, <1>3 DEF CacheComplete, RefusedPurchase
  <2>1. n \in 1..N /\ executions'[n] = executions[n]
    BY <1>3, <1>4, <1>5
  <2>2. PICK k \in n + 1 .. N : /\ executions[k].command.resource = "reset"
                               /\ executions[k].command.id # executions[n].command.id
    BY <1>0, <1>4, <2>1 DEF CInv, CacheComplete
  <2>3. k \in 1..N /\ k \in n + 1 .. N + 1
    BY <2>1, <2>2
  <2> QED
    BY <1>3, <2>1, <2>2, <2>3
<1>10. InGeneration' /\ ExecutedOnce'
  BY <1>1, <1>2, EffectInGeneration, EffectOnce
<1>11. calls' \in [Callers -> Call] /\ \A x \in Callers : CallOK(executions', calls'[x])
  BY <1>1, <1>2, <1>6, <1>7, EffectCalls
<1>12. OwnExecution'
  BY <1>11 DEF CallOK, OwnExecution
<1>13. TypeOK'
  <2>1. ListenerOK'
    BY <1>1, <1>2 DEF ListenerOK, listenerVars
  <2>2. \A id \in DOMAIN commands' :
          commands'[id].command \in Command /\ commands'[id].execution \in DOMAIN executions'
    BY <1>1, <1>8 DEF CInv, TypeOK, CacheSound
  <2>3. \A x \in Callers :
          /\ calls'[x].at \in Places
          /\ calls'[x].at # "new" => calls'[x].command \in Command
          /\ calls'[x].execution \in 0..Len(executions')
    BY <1>11 DEF CallOK, Call
  <2>4. generation' \in 1..MaxGeneration \cup {1} /\ DOMAIN commands' \subseteq CommandIds
    BY <1>1 DEF CInv, TypeOK
  <2> QED
    BY <1>3, <2>1, <2>2, <2>3, <2>4 DEF TypeOK, ListenerOK, Done
<1> QED
  BY <1>8, <1>9, <1>10, <1>11, <1>12, <1>13 DEF CInv

LEMMA CInvNext == CInv /\ [Next]_controlVars => CInv'
<1> SUFFICES ASSUME CInv, [Next]_controlVars PROVE CInv'
  OBVIOUS
<1>1. ASSUME NEW c \in Callers, NEW cmd \in Offered,
             \/ Repeat(c, cmd) \/ Stale(c, cmd)
             \/ Reject(c, cmd) \/ RejectStarted(c, cmd)
             \/ Execute(c, cmd)
      PROVE  CInv'
  BY <1>1, ControlAssumption, RepeatStep, RefusalStep, RejectStartedStep, ExecuteStep
<1>2. ASSUME NEW c \in Callers, Handle(c) \/ GiveUp(c) PROVE CInv'
  BY <1>2, HandleStep
<1>3. CASE Listen
  BY <1>3, ListenStep
<1>4. CASE UNCHANGED controlVars
  <2>1. UNCHANGED <<generation, commands, executions, calls>>
    BY <1>4 DEF controlVars
  <2>2. ListenerOK'
    BY <1>4, CallsOK DEF controlVars, listenerVars, ListenerOK
  <2> QED
    BY <2>1, <2>2, CallsOK, Unexecuted DEF CInv
<1> QED
  BY <1>1, <1>2, <1>3, <1>4 DEF Next

-----------------------------------------------------------------------------
\* The theorems.

\* The invariant holds throughout.
THEOREM ControlInvariance == Spec => []CInv
BY CInvInit, CInvNext, PTL DEF Spec

\* Every variable of the control plane has its type, however its handlers and
\* the listener's task are interleaved; in particular no watch channel ever
\* holds a generation that the engine has not reached.
THEOREM ControlTypeCorrect == Spec => []TypeOK
<1>1. CInv => TypeOK
  BY DEF CInv
<1> QED
  BY <1>1, ControlInvariance, PTL

\* The cache of commands makes the repetition of an accepted command harmless: it
\* has no second effect unless a reset under another identifier came in between.
\* A purchase that the engine refused after counting it is not in the cache, and
\* is the one thing whose repetition may have an effect again.
THEOREM Idempotency == Spec => []ExecutedOnce
<1>1. CInv => ExecutedOnce
  BY DEF CInv
<1> QED
  BY <1>1, ControlInvariance, PTL

\* Replies tell the truth about what was accepted and executed, and when,
\* whatever happened between a command's execution and the reply to it; and what
\* a rejected command did, if anything, was to be counted as a purchase.
THEOREM RepliesAreHonest == Spec => []HonestReply
<1>1. CInv => HonestReply
  <2> SUFFICES ASSUME CInv, NEW c \in Callers
               PROVE  /\ calls[c].at \in {"ok", "repeated", "reset_failed", "journal_failed"} =>
                           LET done == executions[calls[c].execution]
                               from == done.generation
                                         - (IF calls[c].command.resource = "reset" THEN 1 ELSE 0)
                           IN  /\ done.accepted
                               /\ done.command = calls[c].command
                               /\ calls[c].command.generation \in {Always, from}
                      /\ calls[c].at = "conflict" =>
                           \E n \in DOMAIN executions :
                             /\ executions[n].accepted
                             /\ executions[n].command.id = calls[c].command.id
                             /\ executions[n].command # calls[c].command
                      /\ calls[c].at = "rejected" /\ calls[c].execution # 0 =>
                           /\ RefusedPurchase(executions[calls[c].execution])
                           /\ executions[calls[c].execution].command = calls[c].command
    BY DEF HonestReply
  <2> QED
    BY DEF CInv, OwnExecution, InGeneration, AcceptedIn, Executed
<1> QED
  BY <1>1, ControlInvariance, PTL

-----------------------------------------------------------------------------
\* Server: the inductive invariant.

\* The payments of a generation are numbered without gaps.
BookNumbered ==
  \E n \in 0..MaxPayments : DOMAIN book = {generation} \X (1..n)

BookTyped ==
  \A id \in DOMAIN book : book[id] \in [device : DeviceIds, status : Book!Status]

\* A connection, in generation g at the latest.
LinkIn(g) ==
  [at : {"absent", "backlog"} \cup Alive \cup Ended,
   since : 0..g, generation : 0..g,
   payment : {NoPayment} \cup ((1..g) \X (1..MaxPayments)),
   policy : Policies \cup {"normal"},
   reply : {"none", "refusal", "answer"} \cup Book!Status,
   aborted : BOOLEAN]

\* A connection's payment is of its own generation, and in the book for as long
\* as that generation lasts.
PaymentKept ==
  \A k \in Clients :
    links[k].payment # NoPayment =>
      /\ links[k].payment[1] = links[k].generation
      /\ links[k].generation = generation => links[k].payment \in DOMAIN book

OnePerPayment ==
  \A j, k \in Clients :
    links[k].payment # NoPayment /\ links[j].payment = links[k].payment => j = k

\* A connection that has not been served has no payment.
Unserved ==
  \A k \in Clients :
    links[k].at \in {"absent", "backlog", "parsing"} => links[k].payment = NoPayment

\* Between the end of the connections and the acknowledgement there are none,
\* and those that are accepted later are younger than what was acknowledged.
Fenced ==
  /\ listener \in {"starting", "acknowledging"} => Tasks = {}
  /\ \A k \in Tasks, g \in acknowledged : links[k].generation >= g

\* Whoever has reset has seen his generation acknowledged.
SeenAcknowledged ==
  \A c \in Callers : HasReset(c) => Target(c) \in acknowledged

SInv ==
  /\ CInv
  /\ BookNumbered
  /\ BookTyped
  /\ delivered \subseteq DOMAIN book
  /\ links \in [Clients -> LinkIn(generation)]
  /\ PaymentKept
  /\ OnePerPayment
  /\ Unserved
  /\ Fenced
  /\ SeenAcknowledged

LEMMA Generations == CInv => generation \in Nat /\ generation >= 1
BY ControlAssumption DEF CInv, TypeOK

LEMMA SInvInit == ServerInit => SInv
<1> SUFFICES ASSUME ServerInit PROVE SInv
  OBVIOUS
<1>1. CInv
  BY CInvInit DEF ServerInit
<1>2. /\ generation = 1 /\ DOMAIN book = {} /\ delivered = {}
      /\ acknowledged = {1}
      /\ \A c \in Callers : calls[c].at = "new"
  BY DEF ServerInit, Init
<1>3. BookNumbered
  <2>1. 0 \in 0..MaxPayments /\ {generation} \X (1..0) = {}
    BY ServerAssumption
  <2> QED
    BY <1>2, <2>1 DEF BookNumbered
<1>4. NewLink \in LinkIn(generation) /\ NewLink.at = "absent" /\ NewLink.payment = NoPayment
  BY <1>2 DEF NewLink, LinkIn
<1>5. /\ links \in [Clients -> LinkIn(generation)]
      /\ \A k \in Clients : links[k].at = "absent" /\ links[k].payment = NoPayment
  BY <1>4 DEF ServerInit
<1>6. Tasks = {}
  BY <1>5 DEF Tasks, Alive
<1> QED
  BY <1>1, <1>2, <1>3, <1>5, <1>6
  DEF SInv, BookTyped, PaymentKept, OnePerPayment, Unserved, Fenced, SeenAcknowledged, HasReset

-----------------------------------------------------------------------------
\* What the commands and the clock do to the book.

\* The next payment is the first number that the book does not have.
LEMMA NextNumber ==
  ASSUME CInv, NEW n \in Nat, DOMAIN book = {generation} \X (1..n)
  PROVE  Book!NextId = <<generation, n + 1>> /\ Cardinality(DOMAIN book) = n
<1>1. IsFiniteSet({generation}) /\ Cardinality({generation}) = 1
  BY FS_Singleton
<1>2. IsFiniteSet(1..n) /\ Cardinality(1..n) = n
  BY FS_Interval
<1>3. Cardinality({generation} \X (1..n)) = 1 * n
  BY <1>1, <1>2, FS_Product
<1>4. Book!Cardinality(DOMAIN book) = Cardinality(DOMAIN book)
  BY DEF Book!Cardinality, Cardinality
<1> QED
  BY <1>3, <1>4 DEF Book!NextId

LEMMA EnteredStep ==
  ASSUME CInv, BookNumbered, BookTyped, NEW d \in DeviceIds, NEW status \in Book!Status,
         Entered(d, status)
  PROVE  /\ BookNumbered' /\ BookTyped'
         /\ DOMAIN book' = DOMAIN book \cup {Book!NextId}
         /\ Book!NextId \notin DOMAIN book
         /\ Book!NextId \in {generation} \X (1..MaxPayments)
<1>1. PICK n \in 0..MaxPayments : DOMAIN book = {generation} \X (1..n)
  BY DEF BookNumbered
<1>2. n \in Nat /\ MaxPayments \in Nat
  BY ServerAssumption
<1>3. Book!NextId = <<generation, n + 1>> /\ n < MaxPayments
  BY <1>1, <1>2, NextNumber DEF Entered
<1>4. DOMAIN book' = DOMAIN book \cup {Book!NextId} /\ generation' = generation
  BY DEF Entered, Book!Enter
<1>5. DOMAIN book' = {generation} \X (1..n + 1)
  <2>1. 1..n + 1 = (1..n) \cup {n + 1}
    BY <1>2
  <2> QED
    BY <1>1, <1>3, <1>4, <2>1
<1>6. BookNumbered'
  <2>1. n + 1 \in 0..MaxPayments
    BY <1>2, <1>3
  <2> QED
    BY <1>4, <1>5, <2>1 DEF BookNumbered
<1>7. BookTyped'
  BY DEF BookTyped, Entered, Book!Enter
<1>8. Book!NextId \notin DOMAIN book
  <2>1. n + 1 \notin 1..n
    BY <1>2
  <2> QED
    BY <1>1, <1>3, <2>1
<1>9. n + 1 \in 1..MaxPayments
  BY <1>2, <1>3
<1> QED
  BY <1>3, <1>4, <1>6, <1>7, <1>8, <1>9

LEMMA TimeStep ==
  ASSUME BookNumbered, BookTyped, Time
  PROVE  /\ BookNumbered' /\ BookTyped'
         /\ DOMAIN book' = DOMAIN book
<1>1. DOMAIN book' = DOMAIN book /\ generation' = generation
  BY DEF Time, Book!Settlement
<1>2. BookTyped'
  BY <1>1 DEF Time, BookTyped
<1> QED
  BY <1>1, <1>2 DEF BookNumbered

\* A command never takes a payment out of the book of its generation.
LEMMA ActedStep ==
  ASSUME CInv, BookNumbered, BookTyped, Acted, UNCHANGED generation
  PROVE  /\ BookNumbered' /\ BookTyped'
         /\ DOMAIN book \subseteq DOMAIN book'
<1>1. CASE UNCHANGED book
  BY <1>1 DEF BookNumbered, BookTyped
<1>2. ASSUME NEW d \in DeviceIds, NEW status \in Book!Status, Entered(d, status)
      PROVE  /\ BookNumbered' /\ BookTyped'
             /\ DOMAIN book \subseteq DOMAIN book'
  BY <1>2, EnteredStep
<1>3. ASSUME NEW id \in DOMAIN book,
             Book!Refund(id) \/ \E status \in Book!Outcome : Book!Close(id, status)
      PROVE  /\ BookNumbered' /\ BookTyped'
             /\ DOMAIN book \subseteq DOMAIN book'
  <2>1. PICK status \in Book!Status : book' = [book EXCEPT ![id].status = status]
    BY <1>3 DEF Book!Refund, Book!Close, Book!Status
  <2>2. DOMAIN book' = DOMAIN book
    BY <2>1
  <2>3. BookTyped'
    BY <2>1, <2>2 DEF BookTyped
  <2> QED
    BY <2>2, <2>3 DEF BookNumbered
<1>4. CASE Time
  BY <1>4, TimeStep
<1> QED
  BY <1>1, <1>2, <1>3, <1>4 DEF Acted, Started

-----------------------------------------------------------------------------
\* The steps of the connections.

\* A connection in which another has turned: it keeps its payment, and with a
\* payment its generation; none that was served goes back.
Follows(link, after) ==
  /\ after.payment = link.payment
  /\ after.payment # NoPayment => after.generation = link.generation
  /\ after.at \in {"absent", "backlog", "parsing"} => after.payment = NoPayment

\* The task of a connection that was not alive begins in the present, while the
\* listener is accepting.
Younger(link, after) ==
  after.at \in Alive =>
    \/ link.at \in Alive /\ after.generation = link.generation
    \/ listener = "selecting" /\ after.generation = generation

LEMMA LinksFollow ==
  ASSUME SInv, generation' \in Nat, generation <= generation',
         generation' = generation => DOMAIN book \subseteq DOMAIN book',
         \A k \in Clients : Follows(links[k], links'[k])
  PROVE  PaymentKept' /\ OnePerPayment' /\ Unserved'
<1>1. \A k \in Clients : links[k].generation \in 0..generation
  BY DEF SInv, LinkIn
<1>2. \A k \in Clients : /\ links'[k].payment = links[k].payment
                         /\ links[k].payment # NoPayment => links'[k].generation = links[k].generation
  BY DEF Follows
<1>3. PaymentKept'
  <2> SUFFICES ASSUME NEW k \in Clients, links[k].payment # NoPayment
               PROVE  /\ links[k].payment[1] = links[k].generation
                      /\ links[k].generation = generation' => links[k].payment \in DOMAIN book'
    BY <1>2 DEF PaymentKept, NoPayment
  <2>1. generation \in Nat
    BY Generations DEF SInv
  <2>2. links[k].generation = generation' => generation' = generation
    BY <1>1, <2>1
  <2> QED
    BY <2>2 DEF SInv, PaymentKept
<1>4. OnePerPayment'
  BY <1>2 DEF SInv, OnePerPayment, NoPayment
<1>5. Unserved'
  BY DEF Unserved, Follows, NoPayment
<1> QED
  BY <1>3, <1>4, <1>5

\* What tasks there are after a step of the connections is fenced.
LEMMA LinksFenced ==
  ASSUME SInv, UNCHANGED <<generation, listener, acknowledged>>,
         \A k \in Clients : Younger(links[k], links'[k])
  PROVE  Fenced'
<1>1. acknowledged \subseteq 1..generation /\ generation \in Nat
  BY Generations DEF SInv, CInv, TypeOK
<1>2. ASSUME NEW k \in Tasks'
      PROVE  /\ listener \notin {"starting", "acknowledging"}
             /\ \A g \in acknowledged : links'[k].generation >= g
  <2>1. k \in Clients /\ links'[k].at \in Alive
    BY <1>2 DEF Tasks, Alive
  <2>2. CASE k \in Tasks /\ links'[k].generation = links[k].generation
    BY <2>2 DEF SInv, Fenced
  <2>3. CASE listener = "selecting" /\ links'[k].generation = generation
    BY <1>1, <2>3
  <2> QED
    BY <2>1, <2>2, <2>3 DEF Younger, Tasks
<1> QED
  BY <1>2 DEF Fenced

\* A step of one connection, which may enter a payment of its own.
LEMMA LinkStep ==
  ASSUME SInv, UNCHANGED controlVars, BookNumbered', BookTyped',
         DOMAIN book \subseteq DOMAIN book', delivered' \subseteq DOMAIN book',
         NEW k \in Clients, NEW link \in LinkIn(generation), Put(k, link),
         Younger(links[k], link),
         Follows(links[k], link)
           \/ (/\ link.payment \in DOMAIN book' \ DOMAIN book
               /\ link.generation = generation
               /\ link.at \notin {"absent", "backlog", "parsing"})
  PROVE  SInv'
<1>1. UNCHANGED <<generation, listener, acknowledged, calls, executions>> /\ generation \in Nat
  BY Generations DEF controlVars, listenerVars, SInv
<1>2. CInv'
  BY CInvNext DEF SInv
<1>3. links' \in [Clients -> LinkIn(generation')]
  BY <1>1 DEF SInv, Put
<1>4. \A j \in Clients : links'[j] = IF j = k THEN link ELSE links[j]
  BY DEF SInv, Put
<1>5. \A j \in Clients : Follows(links[j], links[j]) /\ Younger(links[j], links[j])
  BY DEF Follows, Younger, SInv, Unserved
<1>6. Fenced'
  <2>1. \A j \in Clients : Younger(links[j], links'[j])
    BY <1>4, <1>5
  <2> QED
    BY <1>1, <2>1, LinksFenced
<1>7. SeenAcknowledged'
  BY <1>1 DEF SInv, SeenAcknowledged, HasReset, Target
<1>8. CASE Follows(links[k], link)
  <2>1. \A j \in Clients : Follows(links[j], links'[j])
    BY <1>4, <1>5, <1>8
  <2>2. PaymentKept' /\ OnePerPayment' /\ Unserved'
    BY <1>1, <2>1, LinksFollow
  <2> QED
    BY <1>2, <1>3, <1>6, <1>7, <2>2 DEF SInv
<1>9. CASE /\ link.payment \in DOMAIN book' \ DOMAIN book
           /\ link.generation = generation
           /\ link.at \notin {"absent", "backlog", "parsing"}
  <2>1. \A id \in DOMAIN book' : id[1] = generation
    BY <1>1 DEF BookNumbered
  <2>2. link.payment[1] = generation
    BY <1>9, <2>1
  <2>3. \A j \in Clients : links[j].payment # link.payment
    <3> SUFFICES ASSUME NEW j \in Clients, links[j].payment = link.payment PROVE FALSE
      OBVIOUS
    <3>1. link.payment # NoPayment
      BY <1>1, <2>2, Generations DEF NoPayment, SInv
    <3>2. links[j].generation = generation
      BY <2>2, <3>1 DEF SInv, PaymentKept
    <3> QED
      BY <1>9, <3>1, <3>2 DEF SInv, PaymentKept
  <2>4. PaymentKept'
    BY <1>1, <1>4, <1>9, <2>2 DEF SInv, PaymentKept, NoPayment
  <2>5. OnePerPayment'
    BY <1>4, <2>3 DEF SInv, OnePerPayment, NoPayment
  <2>6. Unserved'
    BY <1>4, <1>9 DEF SInv, Unserved, NoPayment
  <2> QED
    BY <1>2, <1>3, <1>6, <1>7, <2>4, <2>5, <2>6 DEF SInv
<1> QED
  BY <1>8, <1>9

\* A step of a connection that is being served, short of a purchase.
LEMMA ServedStep ==
  ASSUME SInv, UNCHANGED <<controlVars, book>>, delivered' \subseteq DOMAIN book,
         NEW k \in Clients, NEW link \in LinkIn(generation), Put(k, link),
         links[k].at \in Alive, link.payment = links[k].payment,
         link.generation = links[k].generation,
         link.at \in Alive \cup Ended, link.at # "parsing"
  PROVE  SInv'
<1>1. BookNumbered' /\ BookTyped' /\ delivered' \subseteq DOMAIN book'
  BY DEF SInv, BookNumbered, BookTyped, controlVars
<1>2. Younger(links[k], link)
  BY DEF Younger
<1>3. link.at \notin {"absent", "backlog", "parsing"}
  BY DEF Alive, Ended
<1>4. Follows(links[k], link)
  BY <1>3 DEF Follows
<1> QED
  BY <1>1, <1>2, <1>4, LinkStep

LEMMA ServeStep ==
  ASSUME SInv, NEW k \in Clients, Serve(k)
  PROVE  SInv'
<1> DEFINE at     == links[k].at
           moved(place)          == [links[k] EXCEPT !.at = place]
           answering(place, text) == [links[k] EXCEPT !.at = place, !.reply = text]
<1>1. /\ links[k] \in LinkIn(generation)
      /\ delivered \subseteq DOMAIN book
  BY DEF SInv
<1>2. \A place \in Alive \cup Ended :
        /\ moved(place) \in LinkIn(generation) /\ moved(place).at = place
        /\ moved(place).payment = links[k].payment
        /\ moved(place).generation = links[k].generation
  BY <1>1 DEF LinkIn
<1>3. \A place \in Alive \cup Ended, text \in {"none", "refusal", "answer"} \cup Book!Status :
        /\ answering(place, text) \in LinkIn(generation) /\ answering(place, text).at = place
        /\ answering(place, text).payment = links[k].payment
        /\ answering(place, text).generation = links[k].generation
  BY <1>1 DEF LinkIn
<1> HIDE DEF moved, answering
<1>4. ASSUME NEW place \in Alive \cup Ended, place # "parsing", at \in Alive,
             UNCHANGED <<controlVars, book>>, delivered' \subseteq DOMAIN book, Put(k, moved(place))
      PROVE  SInv'
  BY <1>2, <1>4, ServedStep
<1>5. ASSUME NEW place \in Alive \cup Ended, place # "parsing", at \in Alive,
             NEW text \in {"none", "refusal", "answer"} \cup Book!Status,
             UNCHANGED <<controlVars, book>>, delivered' \subseteq DOMAIN book,
             Put(k, answering(place, text))
      PROVE  SInv'
  BY <1>3, <1>5, ServedStep
<1>6. CASE Unreadable(k) \/ Decline(k)
  <2>1. PICK text \in {"refusal", "answer"} : Put(k, answering("replying", text))
    BY <1>6 DEF Unreadable, Decline, answering
  <2> QED
    BY <1>1, <1>5, <1>6, <2>1 DEF Unreadable, Decline, Quiet, Alive
<1>7. CASE Fence(k) \/ Vanish(k) \/ Break(k) \/ Recorded(k) \/ Drop(k)
  <2>1. Put(k, moved("closed")) /\ at \in Alive
    BY <1>7 DEF Fence, Vanish, Break, Recorded, Drop, Close, moved, Alive
  <2> QED
    BY <1>1, <1>4, <1>7, <2>1 DEF Fence, Vanish, Break, Recorded, Drop, Quiet, Ended
<1>8. CASE PurchaseRefused(k)
  <2>1. PICK text \in {"refusal", "none"} : Put(k, answering("journalling", text))
    BY <1>8 DEF PurchaseRefused, answering
  <2> QED
    BY <1>1, <1>5, <1>8, <2>1 DEF PurchaseRefused, MayStart, Quiet, Alive
<1>9. CASE LinkJournalled(k)
  <2>1. PICK place \in {"closed", "checking", "replying"} : Put(k, moved(place))
    BY <1>9 DEF LinkJournalled, Close, moved
  <2> QED
    BY <1>1, <1>4, <1>9, <2>1 DEF LinkJournalled, Quiet, Alive, Ended
<1>10. CASE Check(k)
  <2>1. PICK place \in {"panicked", "closed", "polling"} : Put(k, moved(place))
    BY <1>10 DEF Check, moved
  <2> QED
    BY <1>1, <1>4, <1>10, <2>1 DEF Check, Quiet, Alive, Ended
<1>11. CASE Finish(k)
  <2>1. links[k].payment \in DOMAIN book /\ at \in Alive /\ Quiet
    BY <1>11 DEF Finish, Alive
  <2>2. book[links[k].payment].status \in Book!Status
    BY <2>1 DEF SInv, BookTyped
  <2>3. Put(k, moved("closed")) \/ Put(k, answering("replying", book[links[k].payment].status))
    BY <1>11 DEF Finish, Close, moved, answering
  <2> QED
    BY <1>1, <1>4, <1>5, <2>1, <2>2, <2>3 DEF Quiet, Alive, Ended
<1>12. CASE Reply(k)
  <2>1. PICK place \in {"confirming", "closed"} : Put(k, moved(place))
    BY <1>12 DEF Reply, moved
  <2> QED
    BY <1>1, <1>4, <1>12, <2>1 DEF Reply, Quiet, Alive, Ended
<1>13. CASE Confirm(k)
  <2>1. PICK place \in {"recording", "closed"} : Put(k, moved(place))
    BY <1>13 DEF Confirm, Close, moved
  <2>2. at \in Alive /\ delivered' \subseteq DOMAIN book
    BY <1>1, <1>13 DEF Confirm, Alive
  <2> QED
    BY <1>4, <1>13, <2>1, <2>2 DEF Confirm, Alive, Ended
<1>14. ASSUME NEW d \in DeviceIds, NEW status \in Book!Status, NEW policy \in Policies,
              Purchase(k, d, status, policy)
       PROVE  SInv'
  <2> DEFINE link == [links[k] EXCEPT !.at = "journalling", !.payment = Book!NextId, !.policy = policy]
  <2>1. CInv /\ BookNumbered /\ BookTyped /\ Entered(d, status)
    BY <1>14 DEF SInv, Purchase
  <2>2. /\ BookNumbered' /\ BookTyped'
        /\ DOMAIN book' = DOMAIN book \cup {Book!NextId}
        /\ Book!NextId \notin DOMAIN book
        /\ Book!NextId \in {generation} \X (1..MaxPayments)
    BY <2>1, EnteredStep
  <2>3. generation \in 1..generation
    BY Generations DEF SInv
  <2>4. Book!NextId \in {NoPayment} \cup ((1..generation) \X (1..MaxPayments))
    BY <2>2, <2>3
  <2>5. link \in LinkIn(generation)
    BY <1>1, <2>4 DEF LinkIn, Alive
  <2>6. link.payment = Book!NextId /\ link.at = "journalling" /\ link.generation = links[k].generation
    BY <1>1 DEF LinkIn
  <2>7. Put(k, link) /\ UNCHANGED <<controlVars, delivered>>
        /\ links[k].generation = generation /\ links[k].at = "parsing"
    BY <1>14 DEF Purchase, MayStart
  <2> HIDE DEF link
  <2>8. Younger(links[k], link)
    BY <2>6, <2>7 DEF Younger, Alive
  <2> QED
    BY <1>1, <2>2, <2>5, <2>6, <2>7, <2>8, LinkStep
<1> QED
  BY <1>6, <1>7, <1>8, <1>9, <1>10, <1>11, <1>12, <1>13, <1>14 DEF Serve

LEMMA ConnectStep ==
  ASSUME SInv, NEW k \in Clients, Connect(k) \/ Accept(k)
  PROVE  SInv'
<1>1. /\ links[k] \in LinkIn(generation) /\ delivered \subseteq DOMAIN book
      /\ generation \in 0..generation
      /\ UNCHANGED <<controlVars, book, delivered>>
  BY Generations DEF SInv, Connect, Accept, Quiet
<1>2. BookNumbered' /\ BookTyped' /\ delivered' \subseteq DOMAIN book'
  BY <1>1 DEF SInv, BookNumbered, BookTyped, controlVars
<1>3. links[k].at \in {"absent", "backlog"} /\ links[k].payment = NoPayment
  BY DEF Connect, Accept, SInv, Unserved
<1>4. CASE Connect(k)
  <2> DEFINE link == [NewLink EXCEPT !.at = "backlog", !.since = generation]
  <2>1. link \in LinkIn(generation)
    <3>1. generation \in Nat
      BY Generations DEF SInv
    <3>2. NewLink \in LinkIn(generation)
      BY <3>1 DEF LinkIn, NewLink
    <3> QED
      BY <1>1, <3>2 DEF LinkIn
  <2>2. link.payment = NoPayment /\ link.at = "backlog" /\ Put(k, link)
    BY <1>4 DEF NewLink, Connect
  <2> HIDE DEF link
  <2>3. Younger(links[k], link) /\ Follows(links[k], link)
    BY <1>3, <2>2 DEF Younger, Follows, Alive
  <2> QED
    BY <1>1, <1>2, <2>1, <2>2, <2>3, LinkStep
<1>5. CASE Accept(k)
  <2> DEFINE link == [links[k] EXCEPT !.at = "parsing", !.generation = generation]
  <2>1. link \in LinkIn(generation)
    BY <1>1 DEF LinkIn, Alive
  <2>2. link.payment = NoPayment /\ link.generation = generation /\ Put(k, link)
        /\ listener = "selecting"
    BY <1>1, <1>3, <1>5 DEF LinkIn, Accept
  <2> HIDE DEF link
  <2>3. Younger(links[k], link) /\ Follows(links[k], link)
    BY <1>3, <2>2 DEF Younger, Follows
  <2> QED
    BY <1>1, <1>2, <2>1, <2>2, <2>3, LinkStep
<1> QED
  BY <1>4, <1>5

-----------------------------------------------------------------------------
\* The steps of handlers, listener and clock.

\* Each is a step of Control.
LEMMA ServerStepIsControlStep ==
  ASSUME [ServerNext]_serverVars
  PROVE  [Next]_controlVars
<1>1. ASSUME NEW c \in Callers, NEW cmd \in Offered, ServerExecute(c, cmd) \/ ServerReply(c, cmd)
      PROVE  Next
  BY <1>1 DEF Next, ServerExecute, ServerReply
<1>2. ASSUME NEW c \in Callers, ServerHandle(c) PROVE Next
  BY <1>2 DEF Next, ServerHandle
<1>3. CASE ServerListen
  BY <1>3 DEF ServerListen, ServerSubscribe, ServerHear, ServerDrained, ServerAcknowledge,
              ServerFollow, Listen, Next
<1>4. ASSUME NEW k \in Clients, Connect(k) \/ Accept(k) \/ Serve(k)
      PROVE  UNCHANGED controlVars
  BY <1>4 DEF Connect, Accept, Serve, Unreadable, Decline, Fence, Purchase, PurchaseRefused,
              LinkJournalled, Check, Vanish, Finish, Reply, Break, Confirm, Recorded, Drop, Quiet
<1>5. Tick => UNCHANGED controlVars
  BY DEF Tick
<1>6. UNCHANGED serverVars => UNCHANGED controlVars
  BY DEF serverVars
<1> QED
  BY <1>1, <1>2, <1>3, <1>4, <1>5, <1>6 DEF ServerNext

LEMMA LinkInGrows ==
  ASSUME NEW g \in Nat, NEW h \in Nat, g <= h
  PROVE  LinkIn(g) \subseteq LinkIn(h)
<1>1. 0..g \subseteq 0..h /\ 1..g \subseteq 1..h
  OBVIOUS
<1>2. {NoPayment} \cup ((1..g) \X (1..MaxPayments)) \subseteq {NoPayment} \cup ((1..h) \X (1..MaxPayments))
  BY <1>1
<1> QED
  BY <1>1, <1>2 DEF LinkIn

\* A step of Control that enters no payment on behalf of a connection.
LEMMA CommandStep ==
  ASSUME SInv, [Next]_controlVars, generation <= generation',
         BookNumbered', BookTyped', delivered' \subseteq DOMAIN book',
         generation' = generation => DOMAIN book \subseteq DOMAIN book',
         links' \in [Clients -> LinkIn(generation)],
         \A k \in Clients : Follows(links[k], links'[k]),
         Fenced', SeenAcknowledged'
  PROVE  SInv'
<1>1. CInv'
  BY CInvNext DEF SInv
<1>2. generation \in Nat /\ generation' \in Nat
  <2>1. generation \in Nat
    BY Generations DEF SInv
  <2>2. generation' \in Nat
    BY <1>1, ControlAssumption DEF CInv, TypeOK
  <2> QED
    BY <2>1, <2>2
<1>3. PaymentKept' /\ OnePerPayment' /\ Unserved'
  BY <1>2, LinksFollow
<1>4. links' \in [Clients -> LinkIn(generation')]
  BY <1>2, LinkInGrows
<1> QED
  BY <1>1, <1>3, <1>4 DEF SInv

LEMMA SameLinks ==
  ASSUME SInv, UNCHANGED links
  PROVE  /\ \A k \in Clients : Follows(links[k], links'[k])
         /\ links' \in [Clients -> LinkIn(generation)]
BY DEF Follows, SInv, Unserved

LEMMA SameTasks ==
  ASSUME SInv, UNCHANGED <<links, listener, acknowledged>>
  PROVE  Fenced'
BY DEF SInv, Fenced, Tasks, Alive

LEMMA SameBook ==
  ASSUME SInv, UNCHANGED <<book, delivered, generation>>
  PROVE  /\ BookNumbered' /\ BookTyped' /\ delivered' \subseteq DOMAIN book'
         /\ generation' = generation /\ DOMAIN book \subseteq DOMAIN book'
         /\ generation <= generation'
BY Generations DEF SInv, BookNumbered, BookTyped

\* Executions are not forgotten, acknowledgements neither.
LEMMA StillSeen ==
  ASSUME SInv, NEW c \in Callers, UNCHANGED calls[c], HasReset(c),
         \A n \in DOMAIN executions : n \in DOMAIN executions' /\ executions'[n] = executions[n],
         acknowledged \subseteq acknowledged'
  PROVE  Target(c)' \in acknowledged'
<1>1. calls[c].execution \in DOMAIN executions
  BY DEF SInv, CInv, OwnExecution, HasReset, Executed, Handling
<1>2. Target(c)' = Target(c)
  BY <1>1 DEF Target
<1> QED
  BY <1>2 DEF SInv, SeenAcknowledged

LEMMA TickStep ==
  ASSUME SInv, Tick
  PROVE  SInv'
<1>1. UNCHANGED <<controlVars, delivered, links>> /\ Time
  BY DEF Tick
<1>2. UNCHANGED <<generation, listener, acknowledged, calls, executions>>
  BY <1>1 DEF controlVars, listenerVars
<1>3. BookNumbered' /\ BookTyped' /\ DOMAIN book' = DOMAIN book
  BY <1>1, TimeStep DEF SInv
<1>4. SeenAcknowledged'
  BY <1>2 DEF SInv, SeenAcknowledged, HasReset, Target
<1>5. generation <= generation' /\ delivered' \subseteq DOMAIN book'
  BY <1>1, <1>2, <1>3, Generations DEF SInv
<1> QED
  BY <1>1, <1>2, <1>3, <1>4, <1>5, SameLinks, SameTasks, CommandStep

\* A step of the request c.
LEMMA RequestStep ==
  ASSUME SInv, NEW c \in Callers, calls' = [calls EXCEPT ![c] = calls'[c]],
         \A n \in DOMAIN executions : n \in DOMAIN executions' /\ executions'[n] = executions[n],
         UNCHANGED acknowledged, HasReset(c)' => Target(c)' \in acknowledged'
  PROVE  SeenAcknowledged'
<1> SUFFICES ASSUME NEW x \in Callers, HasReset(x)', x # c PROVE Target(x)' \in acknowledged'
  BY DEF SeenAcknowledged
<1>1. UNCHANGED calls[x]
  BY DEF SInv, CInv
<1>2. HasReset(x)
  BY <1>1 DEF HasReset
<1> QED
  BY <1>1, <1>2, StillSeen

LEMMA ServerReplyStep ==
  ASSUME SInv, NEW c \in Callers, NEW cmd \in Offered, ServerReply(c, cmd)
  PROVE  SInv'
<1>1. PICK n, reply :
        /\ reply \in {"repeated", "conflict", "stale", "rejected"}
        /\ calls' = [calls EXCEPT ![c] = [at |-> reply, command |-> cmd, execution |-> n]]
  BY DEF ServerReply, Repeat, Stale, Reject, RejectStarted, Answered
<1>2. UNCHANGED <<generation, listener, acknowledged, book, delivered, links>>
  BY DEF ServerReply, Repeat, Stale, Reject, RejectStarted, Answered, listenerVars
<1>3. \A m \in DOMAIN executions : m \in DOMAIN executions' /\ executions'[m] = executions[m]
  <2>1. CASE UNCHANGED executions
    BY <2>1
  <2>2. CASE RejectStarted(c, cmd)
    <3>1. CInv /\ cmd \in Command /\ Effect(cmd, generation', FALSE)
      BY <2>2, ControlAssumption DEF RejectStarted, SInv
    <3>2. generation' \in Nat /\ generation <= generation'
      BY <1>2, <3>1, Generations
    <3>3. Len(executions) \in Nat /\ DOMAIN executions = 1..Len(executions)
      BY <3>1, LogEntries
    <3>4. /\ DOMAIN executions' = 1..Len(executions) + 1
          /\ \A m \in 1..Len(executions) : executions'[m] = executions[m]
      BY <3>1, <3>2, LogGrows
    <3> QED
      BY <3>3, <3>4
  <2> QED
    BY <2>1, <2>2 DEF ServerReply, Repeat, Stale, Reject, Answered
<1>4. SeenAcknowledged'
  <2>1. calls' = [calls EXCEPT ![c] = calls'[c]] /\ calls'[c].at = reply
    BY <1>1 DEF SInv, CInv
  <2>2. ~ HasReset(c)'
    BY <1>1, <2>1 DEF HasReset
  <2> QED
    BY <1>2, <1>3, <2>1, <2>2, RequestStep
<1>5. [Next]_controlVars
  BY DEF ServerReply, Next
<1> QED
  BY <1>2, <1>4, <1>5, SameBook, SameLinks, SameTasks, CommandStep

LEMMA ServerHandleStep ==
  ASSUME SInv, NEW c \in Callers, ServerHandle(c)
  PROVE  SInv'
<1>1. PICK place : /\ Move(c, place)
                   /\ \/ place \notin {"switching", "journalling", "ok", "journal_failed"}
                      \/ Confirmed(c) \/ Switch(c) \/ Journalled(c)
  <2>1. CASE Signal(c) \/ TimeOut(c) \/ GiveUp(c)
    <3>1. \E place \in {"waiting", "reset_failed", "gone"} : Move(c, place)
      BY <2>1 DEF Signal, TimeOut, GiveUp
    <3> QED
      BY <3>1
  <2>2. CASE Confirmed(c) \/ Switch(c) \/ Journalled(c)
    <3>1. \E place : Move(c, place)
      BY <2>2 DEF Confirmed, Switch, Journalled
    <3> QED
      BY <2>2, <3>1
  <2> QED
    BY <2>1, <2>2 DEF ServerHandle, Handle
<1>2. UNCHANGED <<generation, executions, listener, acknowledged, book, delivered, links>>
  BY DEF ServerHandle, Handle, Signal, Confirmed, TimeOut, Switch, Journalled, GiveUp, listenerVars
<1>3. /\ calls' = [calls EXCEPT ![c] = calls'[c]]
      /\ calls'[c] = [calls[c] EXCEPT !.at = place]
      /\ calls[c] \in Call
  BY <1>1 DEF Move, SInv, CInv
<1>4. /\ calls'[c].at = place
      /\ calls'[c].command = calls[c].command
      /\ calls'[c].execution = calls[c].execution
  BY <1>3 DEF Call
<1>5. Target(c)' = Target(c)
  BY <1>2, <1>4 DEF Target
<1>6. HasReset(c)' => Target(c) \in acknowledged
  <2>1. CASE Confirmed(c)
    BY <2>1 DEF Confirmed, SInv, CInv, TypeOK
  <2>2. CASE Switch(c) \/ Journalled(c)
    BY <1>4, <2>2 DEF Switch, Journalled, HasReset, SInv, SeenAcknowledged
  <2> QED
    BY <1>1, <1>4, <2>1, <2>2 DEF HasReset
<1>7. SeenAcknowledged'
  BY <1>2, <1>3, <1>5, <1>6, RequestStep
<1>8. [Next]_controlVars
  BY DEF ServerHandle, Next
<1> QED
  BY <1>2, <1>7, <1>8, SameBook, SameLinks, SameTasks, CommandStep

LEMMA ServerExecuteStep ==
  ASSUME SInv, NEW c \in Callers, NEW cmd \in Offered, ServerExecute(c, cmd)
  PROVE  SInv'
<1>1. /\ Execute(c, cmd)
      /\ generation' = IF cmd.resource = "reset" THEN generation + 1 ELSE generation
      /\ UNCHANGED <<listener, acknowledged, links>>
  BY DEF ServerExecute, Execute, listenerVars
<1>2. generation \in Nat /\ generation <= generation'
      /\ (generation' = generation => cmd.resource # "reset")
  BY <1>1, Generations DEF SInv
<1>3. /\ BookNumbered' /\ BookTyped' /\ delivered' \subseteq DOMAIN book'
      /\ generation' = generation => DOMAIN book \subseteq DOMAIN book'
  <2>1. CASE cmd.resource = "reset"
    <3>1. DOMAIN book' = {} /\ delivered' = {}
      BY <2>1 DEF ServerExecute
    <3>2. 0 \in 0..MaxPayments /\ {generation'} \X (1..0) = {}
      BY ServerAssumption
    <3> QED
      BY <1>2, <2>1, <3>1, <3>2 DEF BookNumbered, BookTyped
  <2>2. CASE cmd.resource = "transport"
    <3>1. UNCHANGED <<book, delivered, generation>>
      BY <1>1, <2>2 DEF ServerExecute
    <3> QED
      BY <3>1, SameBook
  <2>3. CASE cmd.resource \notin {"reset", "transport"}
    <3>1. Acted /\ UNCHANGED <<delivered, generation>>
      <4>1. Started => Acted
        BY DEF Acted
      <4> QED
        BY <1>1, <2>3, <4>1 DEF ServerExecute
    <3>2. BookNumbered' /\ BookTyped' /\ DOMAIN book \subseteq DOMAIN book'
      BY <3>1, ActedStep DEF SInv
    <3> QED
      BY <3>1, <3>2 DEF SInv
  <2> QED
    BY <2>1, <2>2, <2>3
<1>4. SeenAcknowledged'
  <2>1. /\ \A n \in DOMAIN executions : n \in DOMAIN executions' /\ executions'[n] = executions[n]
        /\ DOMAIN executions' = 1 .. Len(executions')
    <3>1. CInv /\ cmd \in Command /\ Effect(cmd, generation', TRUE) /\ generation' \in Nat
      <4>1. CInv /\ cmd \in Command
        BY ControlAssumption DEF SInv
      <4>2. Effect(cmd, generation', TRUE)
        BY <1>1 DEF Execute
      <4>3. generation' \in Nat
        BY <1>1, <1>2
      <4> QED
        BY <4>1, <4>2, <4>3
    <3>2. /\ Len(executions) \in Nat /\ DOMAIN executions = 1..Len(executions)
          /\ Len(executions') = Len(executions) + 1 /\ DOMAIN executions' = 1..Len(executions) + 1
          /\ \A n \in 1..Len(executions) : executions'[n] = executions[n]
      BY <1>2, <3>1, LogEntries, LogGrows
    <3> QED
      BY <3>2
  <2>2. calls' = [calls EXCEPT ![c] = calls'[c]] /\ calls'[c].command = cmd
        /\ calls'[c].at = IF cmd.resource = "reset"          THEN "signal"
                          ELSE IF cmd.resource = "transport" THEN "switching"
                          ELSE "journalling"
    BY <1>1 DEF Execute, SInv, CInv
  <2>3. ~ HasReset(c)'
    BY <2>2 DEF HasReset
  <2> QED
    BY <1>1, <2>1, <2>2, <2>3, RequestStep
<1>5. [Next]_controlVars
  BY <1>1 DEF Next
<1> QED
  BY <1>1, <1>2, <1>3, <1>4, <1>5, SameLinks, SameTasks, CommandStep

\* Aborting a connection and closing one that was not accepted moves no payment.
LEMMA AbortedLinks ==
  ASSUME SInv, links' \in {links, Abort(links), Unbound(links), Abort(Unbound(links))}
  PROVE  /\ \A k \in Clients : Follows(links[k], links'[k])
         /\ links' \in [Clients -> LinkIn(generation)]
         /\ \A k \in Clients : links'[k].at \in Alive => /\ links[k].at \in Alive
                                                        /\ links'[k].generation = links[k].generation
<1> DEFINE dropped(k) == [links[k] EXCEPT !.aborted = TRUE]
           closed(k)  == [links[k] EXCEPT !.at = "closed"]
<1>1. ASSUME NEW k \in Clients
      PROVE  /\ links[k] \in LinkIn(generation)
             /\ Follows(links[k], links[k])
             /\ links'[k] \in {links[k], dropped(k), closed(k)}
  BY ZenonT(30) DEF SInv, Unserved, Follows, Abort, Unbound, Alive
<1>2. ASSUME NEW k \in Clients
      PROVE  /\ dropped(k) \in LinkIn(generation) /\ dropped(k).payment = links[k].payment
             /\ dropped(k).at = links[k].at /\ dropped(k).generation = links[k].generation
             /\ closed(k) \in LinkIn(generation) /\ closed(k).payment = links[k].payment
             /\ closed(k).at = "closed" /\ closed(k).generation = links[k].generation
  BY <1>1 DEF LinkIn, Ended
<1>3. links' = [k \in Clients |-> links'[k]]
  BY DEF Abort, Unbound, SInv
<1> HIDE DEF dropped, closed
<1>4. "closed" \notin Alive
  BY DEF Alive
<1>5. ASSUME NEW k \in Clients
      PROVE  /\ Follows(links[k], links'[k])
             /\ links'[k] \in LinkIn(generation)
             /\ links'[k].at \in Alive => /\ links[k].at \in Alive
                                         /\ links'[k].generation = links[k].generation
  BY <1>1, <1>2, <1>4 DEF Follows
<1> QED
  BY <1>3, <1>5

LEMMA ServerListenStep ==
  ASSUME SInv, ServerListen
  PROVE  SInv'
<1>1. /\ links' \in {links, Abort(links), Unbound(links), Abort(Unbound(links))}
      /\ UNCHANGED <<generation, executions, calls, book, delivered>>
      /\ acknowledged \subseteq acknowledged'
  BY DEF ServerListen, ServerSubscribe, ServerHear, ServerDrained, ServerAcknowledge, ServerFollow,
         Subscribe, Hear, Drained, Acknowledge, Follow, Reading
<1>2. /\ \A k \in Clients : Follows(links[k], links'[k])
      /\ links' \in [Clients -> LinkIn(generation)]
      /\ Tasks' \subseteq Tasks
      /\ \A k \in Tasks' : links'[k].generation = links[k].generation
  BY <1>1, AbortedLinks DEF Tasks, Alive
<1>3. SeenAcknowledged'
  BY <1>1, StillSeen DEF SeenAcknowledged, HasReset
<1>4. Fenced'
  <2>1. CASE ServerAcknowledge
    <3>1. Tasks = {} /\ listener' = "selecting"
      BY <2>1 DEF ServerAcknowledge, Acknowledge, SInv, Fenced
    <3> QED
      BY <1>2, <3>1 DEF Fenced
  <2>2. CASE ServerSubscribe \/ ServerDrained
    <3>1. Tasks = {}
      BY <2>2 DEF ServerSubscribe, Subscribe, ServerDrained, SInv, Fenced
    <3> QED
      BY <1>2, <3>1 DEF Fenced
  <2>3. CASE ServerHear \/ ServerFollow
    <3>1. listener' \in {"draining", "selecting"} /\ acknowledged' = acknowledged
      BY <2>3 DEF ServerHear, Hear, ServerFollow, Follow
    <3> QED
      BY <1>2, <3>1 DEF SInv, Fenced
  <2> QED
    BY <2>1, <2>2, <2>3 DEF ServerListen
<1>5. [Next]_controlVars
  BY ServerStepIsControlStep DEF ServerNext
<1> QED
  BY <1>1, <1>2, <1>3, <1>4, <1>5, SameBook, CommandStep

LEMMA SInvNext == SInv /\ [ServerNext]_serverVars => SInv'
<1> SUFFICES ASSUME SInv, [ServerNext]_serverVars PROVE SInv'
  OBVIOUS
<1>1. ASSUME NEW c \in Callers, NEW cmd \in Offered, ServerExecute(c, cmd) \/ ServerReply(c, cmd)
      PROVE  SInv'
  BY <1>1, ServerExecuteStep, ServerReplyStep
<1>2. ASSUME NEW c \in Callers, ServerHandle(c) PROVE SInv'
  BY <1>2, ServerHandleStep
<1>3. CASE ServerListen
  BY <1>3, ServerListenStep
<1>4. ASSUME NEW k \in Clients, Connect(k) \/ Accept(k) \/ Serve(k) PROVE SInv'
  BY <1>4, ConnectStep, ServeStep
<1>5. CASE Tick
  BY <1>5, TickStep
<1>6. CASE UNCHANGED serverVars
  <2>1. UNCHANGED <<generation, executions, calls, book, delivered, links, listener, acknowledged>>
        /\ UNCHANGED controlVars
    BY <1>6 DEF serverVars, controlVars, listenerVars
  <2>2. SeenAcknowledged'
    BY <2>1 DEF SInv, SeenAcknowledged, HasReset, Target
  <2> QED
    BY <2>1, <2>2, SameBook, SameLinks, SameTasks, CommandStep
<1> QED
  BY <1>1, <1>2, <1>3, <1>4, <1>5, <1>6 DEF ServerNext

-----------------------------------------------------------------------------
\* The theorems.

\* The invariant holds throughout.
THEOREM ServerInvariance == ServerSpec => []SInv
BY SInvInit, SInvNext, PTL DEF ServerSpec

\* Every variable of the server has its type; in particular the payments marked
\* delivered are in the book, and no connection is of a generation to come.
THEOREM ServerTypeCorrect == ServerSpec => []ServerTypeOK
<1>1. SInv => ServerTypeOK
  <2> SUFFICES ASSUME SInv PROVE ServerTypeOK
    OBVIOUS
  <2>1. DOMAIN book \subseteq {generation} \X (1 .. MaxPayments)
    <3>1. PICK n \in 0..MaxPayments : DOMAIN book = {generation} \X (1..n)
      BY DEF SInv, BookNumbered
    <3>2. 1..n \subseteq 1..MaxPayments
      BY ServerAssumption
    <3> QED
      BY <3>1, <3>2
  <2> QED
    BY <2>1 DEF SInv, CInv, BookTyped, LinkIn, ServerTypeOK
<1> QED
  BY <1>1, ServerInvariance, PTL

\* A payment answers to one connection, accepted in the payment's generation,
\* whatever resets and numbers the engine starts again.
THEOREM PaymentsAreOwned == ServerSpec => []OwnPayment
<1>1. SInv => OwnPayment
  BY DEF SInv, OwnPayment, PaymentKept, OnePerPayment
<1> QED
  BY <1>1, ServerInvariance, PTL

\* The reset fence: once a reset's handler has seen its acknowledgement, no
\* connection that was accepted before that reset is alive.
THEOREM ResetIsFence == ServerSpec => []ResetFence
<1>1. SInv => ResetFence
  BY DEF SInv, ResetFence, Fenced, SeenAcknowledged
<1> QED
  BY <1>1, ServerInvariance, PTL

\* The server is a control plane: what is proved of Control holds of it, with
\* its connections and its payments.
THEOREM ServerImplementsControl == ServerSpec => Spec
<1>1. ServerInit => Init
  BY DEF ServerInit
<1>2. [ServerNext]_serverVars => [Next]_controlVars
  BY ServerStepIsControlStep
<1> QED
  BY <1>1, <1>2, PTL DEF ServerSpec, Spec

\* So at the server, too, an accepted command has its effect once, and no rejected
\* one but a purchase has any, and the replies say so.
THEOREM ServerKeepsControl == ServerSpec => [](ExecutedOnce /\ HonestReply)
BY ServerImplementsControl, Idempotency, RepliesAreHonest, PTL

-----------------------------------------------------------------------------
\* The server and the book of payments.

\* Every step of the server is one that Ledger allows, or none at all.
LEMMA ServerStepIsLedgerStep ==
  ASSUME [ServerNext]_serverVars
  PROVE  [Book!LedgerNext]_(Book!ledgerVars)
<1> USE DEF Book!ledgerVars
<1>1. ASSUME NEW d \in DeviceIds, NEW status \in Book!Status, Entered(d, status)
      PROVE  Book!LedgerNext
  BY <1>1 DEF Entered, Book!LedgerNext
<1>2. Time => Book!LedgerNext
  BY DEF Time, Book!LedgerNext
<1>3. ASSUME NEW c \in Callers, NEW cmd \in Offered, ServerExecute(c, cmd)
      PROVE  Book!LedgerNext \/ UNCHANGED <<generation, book>>
  <2>1. CASE cmd.resource = "reset"
    BY <1>3, <2>1 DEF ServerExecute, Execute, Book!NewBook, Book!LedgerNext
  <2>2. CASE cmd.resource = "transport"
    BY <1>3, <2>2 DEF ServerExecute, Execute
  <2>3. CASE cmd.resource \notin {"reset", "transport"}
    <3>1. Acted /\ UNCHANGED generation
      <4>1. Started => Acted
        BY DEF Acted
      <4> QED
        BY <1>3, <2>3, <4>1 DEF ServerExecute, Execute
    <3> QED
      BY <1>1, <1>2, <3>1 DEF Acted, Started, Book!LedgerNext
  <2> QED
    BY <2>1, <2>2, <2>3
<1>4. ASSUME NEW c \in Callers,
             ServerHandle(c) \/ \E cmd \in Offered : ServerReply(c, cmd)
      PROVE  UNCHANGED <<generation, book>>
  <2>1. CASE ServerHandle(c)
    BY <2>1 DEF ServerHandle, Handle, Signal, Confirmed, TimeOut, Switch, Journalled, GiveUp
  <2>2. ASSUME NEW cmd \in Offered, ServerReply(c, cmd)
        PROVE  UNCHANGED <<generation, book>>
    BY <2>2 DEF ServerReply, Repeat, Stale, Reject, RejectStarted, Answered
  <2> QED
    BY <1>4, <2>1, <2>2
<1>5. ServerListen => UNCHANGED <<generation, book>>
  BY DEF ServerListen, ServerSubscribe, ServerHear, ServerDrained, ServerAcknowledge, ServerFollow,
         Subscribe, Hear, Drained, Acknowledge, Follow
<1>6. ASSUME NEW k \in Clients, Connect(k) \/ Accept(k) \/ Serve(k)
      PROVE  Book!LedgerNext \/ UNCHANGED <<generation, book>>
  <2>1. ASSUME NEW d \in DeviceIds, NEW status \in Book!Status, NEW policy \in Policies,
               Purchase(k, d, status, policy)
        PROVE  Book!LedgerNext
    BY <1>1, <2>1 DEF Purchase
  <2>2. CASE Connect(k) \/ Accept(k) \/ Unreadable(k) \/ Decline(k) \/ Fence(k) \/ PurchaseRefused(k)
             \/ LinkJournalled(k) \/ Check(k) \/ Vanish(k) \/ Finish(k) \/ Reply(k) \/ Break(k)
             \/ Confirm(k) \/ Recorded(k) \/ Drop(k)
    BY <2>2 DEF Connect, Accept, Unreadable, Decline, Fence, PurchaseRefused, LinkJournalled, Check,
                Vanish, Finish, Reply, Break, Confirm, Recorded, Drop, Quiet, controlVars
  <2> QED
    BY <1>6, <2>1, <2>2 DEF Serve
<1>7. UNCHANGED serverVars => UNCHANGED <<generation, book>>
  BY DEF serverVars, controlVars
<1> QED
  BY <1>2, <1>3, <1>4, <1>5, <1>6, <1>7 DEF ServerNext, Tick

\* The server, with its connections, commands, clock and resets, does to the
\* payments only what the engine promises: what is entered, settled or refunded
\* is so once, and a reset is the only thing that takes a payment away.
THEOREM ServerImplementsLedger == ServerSpec => Book!LedgerSpec
<1>1. ServerInit => Book!LedgerInit
  BY DEF ServerInit, Init, Book!LedgerInit
<1>2. [ServerNext]_serverVars => [Book!LedgerNext]_(Book!ledgerVars)
  BY ServerStepIsLedgerStep
<1> QED
  BY <1>1, <1>2, PTL DEF ServerSpec, Book!LedgerSpec

\* What may become of a payment's status: an outcome is given once, and only a
\* charge is refunded.
Stands(told, status) == status = told \/ (told = "charged" /\ status = "refunded")

\* A payment in the book stays what it is, or goes on as it may; no step but a
\* new book takes one away.
LEMMA EntriesStand ==
  ASSUME SInv, [Book!LedgerNext]_(Book!ledgerVars)
  PROVE  /\ \A id \in DOMAIN book :
              id \in DOMAIN book' =>
                /\ book'[id].device = book[id].device
                /\ book[id].status # "open" => Stands(book[id].status, book'[id].status)
         /\ \/ \A id \in DOMAIN book' : id \in DOMAIN book
            \/ \E d \in DeviceIds :
                 /\ Book!Vacant(d)
                 /\ \A id \in DOMAIN book' \ DOMAIN book : id = Book!NextId /\ book'[id].device = d
                 /\ \A id \in DOMAIN book : id \in DOMAIN book' /\ book'[id] = book[id]
<1> DEFINE Goes(id) == /\ book'[id].device = book[id].device
                       /\ book[id].status # "open" => Stands(book[id].status, book'[id].status)
<1>0. \A id \in DOMAIN book : book[id] \in [device : DeviceIds, status : Book!Status]
  BY DEF SInv, BookTyped
<1>1. ASSUME NEW id \in DOMAIN book, UNCHANGED book[id] PROVE Goes(id)
  BY <1>1 DEF Stands
<1>2. CASE UNCHANGED Book!ledgerVars
  BY <1>1, <1>2 DEF Book!ledgerVars
<1>3. ASSUME NEW d \in DeviceIds, NEW status \in Book!Status, Book!Enter(d, status)
      PROVE  /\ Book!Vacant(d)
             /\ \A id \in DOMAIN book' \ DOMAIN book : id = Book!NextId /\ book'[id].device = d
             /\ \A id \in DOMAIN book : id \in DOMAIN book' /\ book'[id] = book[id]
  <2>1. PICK n \in 0..MaxPayments : DOMAIN book = {generation} \X (1..n)
    BY DEF SInv, BookNumbered
  <2>2. n \in Nat
    BY ServerAssumption, <2>1
  <2>3. Book!NextId = <<generation, n + 1>>
    BY <2>1, <2>2, NextNumber DEF SInv
  <2>4. Book!NextId \notin DOMAIN book
    BY <2>1, <2>2, <2>3
  <2> DEFINE next == Book!NextId
  <2>5. book' = [id \in DOMAIN book \cup {next} |->
                   IF id = next THEN [device |-> d, status |-> status] ELSE book[id]]
    BY <1>3 DEF Book!Enter
  <2>6. next \notin DOMAIN book
    BY <2>4
  <2> HIDE DEF next
  <2>7. /\ \A id \in DOMAIN book' \ DOMAIN book : id = next /\ book'[id].device = d
        /\ \A id \in DOMAIN book : id \in DOMAIN book' /\ book'[id] = book[id]
    BY <2>5, <2>6
  <2> QED
    BY <1>3, <2>7 DEF next, Book!Enter
<1>4. ASSUME NEW id \in DOMAIN book,
             Book!Refund(id) \/ \E status \in Book!Outcome : Book!Close(id, status)
      PROVE  /\ DOMAIN book' = DOMAIN book
             /\ \A other \in DOMAIN book : Goes(other)
  <2>1. PICK status \in Book!Status :
          /\ book' = [book EXCEPT ![id].status = status]
          /\ book[id].status = "open" \/ (book[id].status = "charged" /\ status = "refunded")
    BY <1>4 DEF Book!Refund, Book!Close, Book!Status
  <2>2. DOMAIN book' = DOMAIN book /\ \A other \in DOMAIN book \ {id} : book'[other] = book[other]
    BY <2>1
  <2>3. book'[id].status = status /\ book'[id].device = book[id].device
    BY <1>0, <2>1
  <2> QED
    BY <1>1, <2>1, <2>2, <2>3 DEF Stands
<1>5. CASE Book!Settlement
  <2>1. DOMAIN book' = DOMAIN book
    BY <1>5 DEF Book!Settlement
  <2>2. ASSUME NEW id \in DOMAIN book, book'[id] # book[id] PROVE Goes(id)
    <3>1. book[id].status = "open"
          /\ \E status \in Book!Outcome : book'[id] = [book[id] EXCEPT !.status = status]
      BY <1>5, <2>2 DEF Book!Settlement
    <3> QED
      BY <1>0, <3>1
  <2> QED
    BY <1>1, <2>1, <2>2
<1>6. CASE Book!NewBook
  BY <1>6 DEF Book!NewBook
<1> QED
  <2>1. CASE \E d \in DeviceIds, status \in Book!Status : Book!Enter(d, status)
    BY <1>1, <1>3, <2>1
  <2>2. CASE \E id \in DOMAIN book : Book!Refund(id) \/ \E status \in Book!Outcome : Book!Close(id, status)
    BY <1>4, <2>2
  <2> QED
    BY <1>2, <1>5, <1>6, <2>1, <2>2 DEF Book!LedgerNext

\* A terminal's payments are open one at a time.
OneOpen == \A a, b \in OpenPayments : book[a].device = book[b].device => a = b

LEMMA OneOpenStep ==
  ASSUME SInv, OneOpen, [Book!LedgerNext]_(Book!ledgerVars)
  PROVE  OneOpen'
<1>1. ASSUME NEW id \in DOMAIN book, id \in OpenPayments'
      PROVE  id \in OpenPayments /\ book'[id].device = book[id].device
  <2>1. id \in DOMAIN book' /\ book'[id].status = "open"
    BY <1>1 DEF OpenPayments
  <2> QED
    BY <2>1, EntriesStand DEF OpenPayments, Stands
<1>2. CASE \A id \in DOMAIN book' : id \in DOMAIN book
  BY <1>1, <1>2 DEF OneOpen, OpenPayments
<1>3. ASSUME NEW d \in DeviceIds, Book!Vacant(d),
             \A id \in DOMAIN book' \ DOMAIN book : id = Book!NextId /\ book'[id].device = d
      PROVE  OneOpen'
  <2>1. ASSUME NEW id \in OpenPayments', book'[id].device = d PROVE id = Book!NextId
    <3>1. id \in DOMAIN book'
      BY <2>1 DEF OpenPayments
    <3>2. id \notin DOMAIN book
      BY <1>1, <1>3, <2>1 DEF OpenPayments, Book!Vacant
    <3> QED
      BY <1>3, <3>1, <3>2
  <2>2. ASSUME NEW id \in OpenPayments', book'[id].device # d PROVE id \in DOMAIN book
    BY <1>3, <2>2 DEF OpenPayments
  <2> QED
    BY <1>1, <2>1, <2>2 DEF OneOpen
<1> QED
  BY <1>2, <1>3, EntriesStand

\* Whatever connections and commands start, act and reset at the same time, a
\* terminal has at most one open payment.
THEOREM OneOpenAtServer == ServerSpec => []OneOpen
<1>1. ServerInit => OneOpen
  BY DEF ServerInit, OneOpen, OpenPayments
<1>2. SInv /\ OneOpen /\ [ServerNext]_serverVars => OneOpen'
  BY ServerStepIsLedgerStep, OneOpenStep
<1> QED
  BY <1>1, <1>2, ServerInvariance, PTL DEF ServerSpec

-----------------------------------------------------------------------------
\* What clients are told of their payments.

\* A payment's client is told nothing before its outcome, and confirms only what
\* it was told.
Telling(link) ==
  /\ link.at \in {"absent", "backlog", "parsing", "checking", "polling"} => link.reply = "none"
  /\ link.payment # NoPayment /\ link.at = "journalling" => link.reply = "none"
  /\ link.payment # NoPayment /\ link.at = "replying" => link.reply # "none"
  /\ link.at \in {"confirming", "recording"} => link.payment # NoPayment /\ link.reply # "none"

\* What it was told is an outcome, and it stands.
Truthful(link) ==
  link.payment # NoPayment /\ link.reply # "none" =>
    /\ link.reply \in Book!Status \ {"open"}
    /\ link.payment \in DOMAIN book => Stands(link.reply, book[link.payment].status)

ToldStands == \A k \in Clients : Truthful(links[k])

\* A payment is marked delivered only when its own client has been told.
Told(id) == \E k \in Clients : /\ links[k].payment = id
                               /\ links[k].reply # "none"
                               /\ links[k].at \in {"recording", "closed"}

DeliveredWasTold == \A id \in delivered : Told(id)

ToldInv == (\A k \in Clients : Telling(links[k])) /\ ToldStands /\ DeliveredWasTold

\* What stands of a payment goes on standing.
LEMMA StandsOn ==
  \A told, before, after :
    Stands(told, before) /\ told # "open" /\ (before # "open" => Stands(before, after))
      => Stands(told, after)
BY DEF Stands

\* A payment of a connection that is in the book was there already.
LEMMA PaymentWasThere ==
  ASSUME SInv, SInv', generation <= generation',
         NEW k \in Clients, links[k].payment # NoPayment, links[k].payment \in DOMAIN book'
  PROVE  links[k].payment \in DOMAIN book
<1>1. links[k].payment[1] = links[k].generation /\ links[k].generation \in 0..generation
  BY DEF SInv, PaymentKept, LinkIn
<1>2. links[k].payment[1] = generation'
  BY DEF SInv, BookNumbered
<1>3. generation \in Nat /\ generation' \in Nat
  <2>1. generation \in Nat
    BY Generations DEF SInv
  <2>2. generation' \in Nat
    BY ControlAssumption DEF SInv, CInv, TypeOK
  <2> QED
    BY <2>1, <2>2
<1>4. links[k].generation = generation
  BY <1>1, <1>2, <1>3
<1> QED
  BY <1>4 DEF SInv, PaymentKept

\* The truth told stays true while the book goes on.
LEMMA TruthLasts ==
  ASSUME SInv, SInv', [Book!LedgerNext]_(Book!ledgerVars), generation <= generation',
         NEW k \in Clients, Truthful(links[k]),
         links'[k].payment = links[k].payment, links'[k].reply = links[k].reply
  PROVE  Truthful(links[k])'
<1> DEFINE id   == links[k].payment
           told == links[k].reply
<1> SUFFICES ASSUME id # NoPayment, told # "none"
             PROVE  /\ told \in Book!Status \ {"open"}
                    /\ id \in DOMAIN book' => Stands(told, book'[id].status)
  BY DEF Truthful, NoPayment, Book!Status, Book!Outcome
<1>1. /\ told \in Book!Status \ {"open"}
      /\ id \in DOMAIN book => Stands(told, book[id].status)
  BY DEF Truthful
<1>2. ASSUME id \in DOMAIN book' PROVE Stands(told, book'[id].status)
  <2>1. id \in DOMAIN book
    BY <1>2, PaymentWasThere
  <2>2. book[id].status # "open" => Stands(book[id].status, book'[id].status)
    BY <1>2, <2>1, EntriesStand
  <2> QED
    BY <1>1, <2>1, <2>2, StandsOn
<1> QED
  BY <1>1, <1>2

\* A connection that a step leaves as it is, or closes.
Keeps(k) == /\ links'[k].payment = links[k].payment
            /\ links'[k].reply = links[k].reply
            /\ links'[k].at \in {links[k].at, "closed"}

LEMMA ToldKept ==
  ASSUME SInv, SInv', ToldInv, [Book!LedgerNext]_(Book!ledgerVars), generation <= generation',
         NEW k \in Clients, Keeps(k)
  PROVE  Telling(links[k])' /\ Truthful(links[k])'
<1>1. Truthful(links[k])'
  BY TruthLasts DEF Keeps, ToldInv, ToldStands
<1>2. Telling(links[k])
  BY DEF ToldInv
<1>3. CASE links'[k].at = "closed"
  BY <1>1, <1>3 DEF Telling
<1>4. CASE links'[k].at = links[k].at
  BY <1>1, <1>2, <1>4 DEF Telling, Keeps, NoPayment
<1> QED
  BY <1>3, <1>4 DEF Keeps

\* A step that serves no connection.
LEMMA AllKept ==
  ASSUME SInv, SInv', ToldInv, [Book!LedgerNext]_(Book!ledgerVars), generation <= generation',
         \A k \in Clients : Keeps(k), delivered' \subseteq delivered
  PROVE  ToldInv'
<1>1. \A k \in Clients : Telling(links[k])' /\ Truthful(links[k])'
  BY ToldKept
<1>2. ASSUME NEW id \in delivered' PROVE Told(id)'
  <2>1. Told(id)
    BY <1>2 DEF ToldInv, DeliveredWasTold
  <2> QED
    BY <2>1 DEF Told, Keeps
<1> QED
  BY <1>1, <1>2 DEF ToldInv, ToldStands, DeliveredWasTold

\* A step of one connection.
LEMMA OneTold ==
  ASSUME SInv, SInv', ToldInv, [Book!LedgerNext]_(Book!ledgerVars), generation <= generation',
         NEW k \in Clients, NEW link, Put(k, link), links[k].at \notin {"recording", "closed"} \/ Keeps(k),
         Telling(links[k])', Truthful(links[k])',
         \A id \in delivered' \ delivered : Told(id)'
  PROVE  ToldInv'
<1>1. ASSUME NEW j \in Clients, j # k PROVE links'[j] = links[j]
  BY <1>1 DEF SInv, Put
<1>2. \A j \in Clients : Telling(links[j])' /\ Truthful(links[j])'
  <2> SUFFICES ASSUME NEW j \in Clients, j # k PROVE Telling(links[j])' /\ Truthful(links[j])'
    OBVIOUS
  <2>1. Keeps(j)
    BY <1>1 DEF Keeps
  <2> QED
    BY <2>1, ToldKept
<1>3. ASSUME NEW id \in delivered PROVE Told(id)'
  <2>1. PICK j \in Clients : links[j].payment = id /\ links[j].reply # "none"
                            /\ links[j].at \in {"recording", "closed"}
    BY <1>3 DEF ToldInv, DeliveredWasTold, Told
  <2>2. links'[j] = links[j] \/ (j = k /\ Keeps(k))
    BY <1>1, <2>1
  <2> QED
    BY <2>1, <2>2 DEF Told, Keeps
<1> QED
  BY <1>2, <1>3 DEF ToldInv, ToldStands, DeliveredWasTold

\* Aborting and unbinding tell nobody anything.
LEMMA CutTold ==
  ASSUME SInv, links' \in {links, Abort(links), Unbound(links), Abort(Unbound(links))}
  PROVE  \A k \in Clients : Keeps(k)
<1> SUFFICES ASSUME NEW k \in Clients PROVE Keeps(k)
  OBVIOUS
<1> DEFINE dropped == [links[k] EXCEPT !.aborted = TRUE]
           closed  == [links[k] EXCEPT !.at = "closed"]
<1>1. links'[k] \in {links[k], dropped, closed}
  BY ZenonT(30) DEF Abort, Unbound, Alive
<1>2. links[k] \in LinkIn(generation)
  BY DEF SInv
<1>3. /\ dropped.payment = links[k].payment /\ dropped.reply = links[k].reply /\ dropped.at = links[k].at
      /\ closed.payment = links[k].payment /\ closed.reply = links[k].reply /\ closed.at = "closed"
  BY <1>2 DEF LinkIn
<1> HIDE DEF dropped, closed
<1> QED
  BY <1>1, <1>3 DEF Keeps

LEMMA ServeTold ==
  ASSUME SInv, SInv', ToldInv, [Book!LedgerNext]_(Book!ledgerVars), generation <= generation',
         NEW k \in Clients, Connect(k) \/ Accept(k) \/ Serve(k)
  PROVE  ToldInv'
<1> DEFINE at    == links[k].at
<1>1. links[k] \in LinkIn(generation)
  BY DEF SInv
<1>2. ASSUME NEW link, Put(k, link) PROVE links'[k] = link
  BY <1>2 DEF SInv, Put
<1>3. Telling(links[k]) /\ Truthful(links[k])
  BY DEF ToldInv, ToldStands
<1>4. at \in {"absent", "backlog", "parsing"} => links[k].payment = NoPayment
  BY DEF SInv, Unserved
<1>5. ASSUME NEW link, Put(k, link), at \notin {"recording", "closed"}, UNCHANGED delivered,
             Telling(links[k])', Truthful(links[k])'
      PROVE  ToldInv'
  BY <1>5, OneTold
<1>6. ASSUME NEW link, Put(k, link), UNCHANGED delivered, Keeps(k)
      PROVE  ToldInv'
  BY <1>6, ToldKept, OneTold
<1>7. ASSUME NEW link, Put(k, link), at \notin {"recording", "closed"}, UNCHANGED delivered,
             link.payment = links[k].payment, link.reply = links[k].reply, Telling(link)
      PROVE  ToldInv'
  <2>1. links'[k] = link
    BY <1>2, <1>7
  <2>2. Truthful(links[k])'
    BY <1>3, <1>7, <2>1, TruthLasts
  <2>3. Telling(links[k])'
    BY <1>7, <2>1 DEF Telling, NoPayment
  <2> QED
    BY <1>5, <1>7, <2>2, <2>3
<1>8. ASSUME NEW link, Put(k, link), at \notin {"recording", "closed"}, UNCHANGED delivered,
             link.payment = NoPayment,
             \/ link.at = "replying" \/ link.at = "journalling"
             \/ link.at \in {"backlog", "parsing"} /\ link.reply = "none"
      PROVE  ToldInv'
  <2>1. links'[k] = link
    BY <1>2, <1>8
  <2>2. Telling(links[k])' /\ Truthful(links[k])'
    BY <1>8, <2>1 DEF Telling, Truthful, NoPayment
  <2> QED
    BY <1>5, <1>8, <2>2
<1>9. ASSUME Close(k), UNCHANGED delivered
      PROVE  ToldInv'
  <2> DEFINE link == [links[k] EXCEPT !.at = "closed"]
  <2>1. Put(k, link) /\ link.at = "closed" /\ link.payment = links[k].payment /\ link.reply = links[k].reply
    BY <1>1, <1>9 DEF Close, LinkIn
  <2> HIDE DEF link
  <2>2. Keeps(k)
    BY <1>2, <2>1 DEF Keeps
  <2> QED
    BY <1>6, <1>9, <2>1, <2>2
<1>10. CASE Connect(k)
  <2> DEFINE link == [NewLink EXCEPT !.at = "backlog", !.since = generation]
  <2>1. link.payment = NoPayment /\ link.at = "backlog" /\ link.reply = "none" /\ Put(k, link)
        /\ at \notin {"recording", "closed"} /\ UNCHANGED delivered
    BY <1>10 DEF NewLink, Connect, Quiet
  <2> HIDE DEF link
  <2> QED
    BY <1>8, <2>1
<1>11. CASE Accept(k)
  <2> DEFINE link == [links[k] EXCEPT !.at = "parsing", !.generation = generation]
  <2>1. link.payment = links[k].payment /\ link.at = "parsing" /\ link.reply = links[k].reply
        /\ Put(k, link) /\ at = "backlog" /\ UNCHANGED delivered
    BY <1>1, <1>11 DEF LinkIn, Accept, Quiet
  <2> HIDE DEF link
  <2>2. link.payment = NoPayment /\ link.reply = "none"
    BY <1>3, <1>4, <2>1 DEF Telling
  <2> QED
    BY <1>8, <2>1, <2>2
<1>12. CASE Unreadable(k) \/ Decline(k)
  <2>1. PICK text \in {"refusal", "answer"} :
          Put(k, [links[k] EXCEPT !.at = "replying", !.reply = text])
    BY <1>12 DEF Unreadable, Decline
  <2> DEFINE link == [links[k] EXCEPT !.at = "replying", !.reply = text]
  <2>2. link.payment = NoPayment /\ link.at = "replying" /\ Put(k, link)
        /\ at \notin {"recording", "closed"} /\ UNCHANGED delivered
    BY <1>1, <1>4, <1>12, <2>1 DEF LinkIn, Unreadable, Decline, Quiet
  <2> HIDE DEF link
  <2> QED
    BY <1>8, <2>2
<1>13. CASE PurchaseRefused(k)
  <2>1. PICK text \in {"refusal", "none"} :
          Put(k, [links[k] EXCEPT !.at = "journalling", !.reply = text])
    BY <1>13 DEF PurchaseRefused
  <2> DEFINE link == [links[k] EXCEPT !.at = "journalling", !.reply = text]
  <2>2. link.payment = NoPayment /\ link.at = "journalling" /\ Put(k, link)
        /\ at \notin {"recording", "closed"} /\ UNCHANGED delivered
    BY <1>1, <1>4, <1>13, <2>1 DEF LinkIn, PurchaseRefused, MayStart, Quiet
  <2> HIDE DEF link
  <2> QED
    BY <1>8, <2>2
<1>14. CASE Fence(k) \/ Vanish(k) \/ Break(k) \/ Recorded(k) \/ Drop(k)
  BY <1>9, <1>14 DEF Fence, Vanish, Break, Recorded, Drop, Quiet
<1>15. ASSUME NEW d \in DeviceIds, NEW status \in Book!Status, NEW policy \in Policies,
              Purchase(k, d, status, policy)
       PROVE  ToldInv'
  <2> DEFINE link == [links[k] EXCEPT !.at = "journalling", !.payment = Book!NextId, !.policy = policy]
  <2>1. Put(k, link) /\ at = "parsing" /\ UNCHANGED delivered
    BY <1>15 DEF Purchase, MayStart
  <2>2. link.at = "journalling" /\ link.reply = links[k].reply
    BY <1>1 DEF LinkIn
  <2> HIDE DEF link
  <2>3. link.reply = "none" /\ links'[k] = link
    BY <1>2, <1>3, <2>1, <2>2 DEF Telling
  <2>4. Telling(links[k])' /\ Truthful(links[k])'
    BY <2>2, <2>3 DEF Telling, Truthful
  <2> QED
    BY <1>5, <2>1, <2>4
<1>16. CASE LinkJournalled(k)
  <2>0. at = "journalling" /\ UNCHANGED delivered
    BY <1>16 DEF LinkJournalled, Quiet
  <2>1. CASE Close(k)
    BY <1>9, <2>0, <2>1
  <2>2. CASE links[k].payment # NoPayment /\ Put(k, [links[k] EXCEPT !.at = "checking"])
    <3> DEFINE link == [links[k] EXCEPT !.at = "checking"]
    <3>1. Put(k, link) /\ link.at = "checking" /\ link.payment = links[k].payment /\ link.reply = links[k].reply
      BY <1>1, <2>2 DEF LinkIn
    <3> HIDE DEF link
    <3>2. Telling(link)
      BY <1>3, <2>0, <2>2, <3>1 DEF Telling
    <3> QED
      BY <1>7, <2>0, <3>1, <3>2
  <2>3. CASE links[k].reply = "refusal" /\ Put(k, [links[k] EXCEPT !.at = "replying"])
    <3> DEFINE link == [links[k] EXCEPT !.at = "replying"]
    <3>1. Put(k, link) /\ link.at = "replying" /\ link.payment = links[k].payment
      BY <1>1, <2>3 DEF LinkIn
    <3> HIDE DEF link
    <3>2. link.payment = NoPayment
      BY <1>3, <2>0, <2>3, <3>1 DEF Telling
    <3> QED
      BY <1>8, <2>0, <3>1, <3>2
  <2> QED
    BY <1>16, <2>1, <2>2, <2>3 DEF LinkJournalled
<1>17. CASE Check(k)
  <2>1. PICK place \in {"panicked", "closed", "polling"} :
          Put(k, [links[k] EXCEPT !.at = place])
    BY <1>17 DEF Check
  <2> DEFINE link == [links[k] EXCEPT !.at = place]
  <2>2. Put(k, link) /\ link.at = place /\ link.payment = links[k].payment /\ link.reply = links[k].reply
        /\ at = "checking" /\ UNCHANGED delivered
    BY <1>1, <1>17, <2>1 DEF LinkIn, Check, Quiet
  <2> HIDE DEF link
  <2>3. Telling(link)
    BY <1>3, <2>1, <2>2 DEF Telling
  <2> QED
    BY <1>7, <2>2, <2>3
<1>18. CASE Finish(k)
  <2> DEFINE told == book[links[k].payment].status
             link == [links[k] EXCEPT !.at = "replying", !.reply = told]
  <2>1. /\ at = "polling" /\ UNCHANGED <<book, delivered>>
        /\ links[k].payment \in DOMAIN book /\ told # "open"
    BY <1>18 DEF Finish, Quiet, OpenPayments
  <2>2. told \in Book!Status \ {"open"}
    BY <2>1 DEF SInv, BookTyped
  <2>3. CASE Close(k)
    BY <1>9, <2>1, <2>3
  <2>4. CASE Put(k, link)
    <3>1. link.at = "replying" /\ link.payment = links[k].payment /\ link.reply = told
      BY <1>1 DEF LinkIn
    <3>2. told # "none"
      BY <2>2 DEF Book!Status, Book!Outcome
    <3>3. links'[k] = link
      BY <1>2, <2>4
    <3>4. links'[k].at = "replying" /\ links'[k].payment = links[k].payment /\ links'[k].reply = told
      BY <3>1, <3>3
    <3>5. Telling(links[k])'
      BY <3>2, <3>4 DEF Telling
    <3>6. told = book'[links[k].payment].status
      BY <2>1
    <3>7. Truthful(links[k])'
      BY <2>2, <3>4, <3>6 DEF Truthful, Stands, Book!Status, Book!Outcome
    <3> QED
      BY <1>5, <2>1, <2>4, <3>5, <3>7
  <2> QED
    BY <1>18, <2>3, <2>4 DEF Finish
<1>19. CASE Reply(k)
  <2>1. PICK place \in {"confirming", "closed"} :
          /\ Put(k, [links[k] EXCEPT !.at = place])
          /\ place = "confirming" => links[k].payment # NoPayment
    BY <1>19 DEF Reply
  <2> DEFINE link == [links[k] EXCEPT !.at = place]
  <2>2. Put(k, link) /\ link.at = place /\ link.payment = links[k].payment /\ link.reply = links[k].reply
        /\ at = "replying" /\ UNCHANGED delivered
    BY <1>1, <1>19, <2>1 DEF LinkIn, Reply, Quiet
  <2> HIDE DEF link
  <2>3. Telling(link)
    BY <1>3, <2>1, <2>2 DEF Telling
  <2> QED
    BY <1>7, <2>2, <2>3
<1>20. CASE Confirm(k)
  <2>1. CASE links[k].payment \notin DOMAIN book
    BY <1>9, <1>20, <2>1 DEF Confirm
  <2>2. CASE links[k].payment \in DOMAIN book
    <3> DEFINE link == [links[k] EXCEPT !.at = "recording"]
    <3>1. /\ Put(k, link) /\ at = "confirming"
          /\ delivered' = delivered \cup {links[k].payment}
          /\ link.at = "recording" /\ link.payment = links[k].payment /\ link.reply = links[k].reply
      BY <1>1, <1>20, <2>2 DEF LinkIn, Confirm
    <3> HIDE DEF link
    <3>2. links'[k] = link
      BY <1>2, <3>1
    <3>3. links[k].payment # NoPayment /\ links[k].reply # "none"
      BY <1>3, <3>1 DEF Telling
    <3>4. \A id \in delivered' \ delivered : Told(id)'
      BY <3>1, <3>2, <3>3 DEF Told
    <3>5. Truthful(links[k])'
      BY <1>3, <3>1, <3>2, TruthLasts
    <3>6. Telling(links[k])'
      BY <3>1, <3>2, <3>3 DEF Telling, NoPayment
    <3> QED
      BY <3>1, <3>4, <3>5, <3>6, OneTold
  <2> QED
    BY <2>1, <2>2
<1> QED
  BY <1>10, <1>11, <1>12, <1>13, <1>14, <1>15, <1>16, <1>17, <1>18, <1>19, <1>20 DEF Serve

LEMMA ToldStep ==
  ASSUME SInv, SInv', ToldInv, [ServerNext]_serverVars
  PROVE  ToldInv'
<1>1. [Book!LedgerNext]_(Book!ledgerVars)
  BY ServerStepIsLedgerStep
<1>2. generation <= generation'
  <2>1. generation' \in {generation, generation + 1}
    BY <1>1 DEF Book!LedgerNext, Book!ledgerVars, Book!Enter, Book!Refund, Book!Close,
                Book!Settlement, Book!NewBook
  <2>2. generation \in Nat
    BY Generations DEF SInv
  <2> QED
    BY <2>1, <2>2
<1>3. ASSUME UNCHANGED links, delivered' \subseteq delivered PROVE ToldInv'
  BY <1>1, <1>2, <1>3, AllKept DEF Keeps
<1>4. ASSUME NEW c \in Callers, NEW cmd \in Offered, ServerExecute(c, cmd) \/ ServerReply(c, cmd)
      PROVE  ToldInv'
  BY <1>3, <1>4 DEF ServerExecute, ServerReply
<1>5. ASSUME NEW c \in Callers, ServerHandle(c) PROVE ToldInv'
  BY <1>3, <1>5 DEF ServerHandle
<1>6. CASE ServerListen
  <2>1. /\ links' \in {links, Abort(links), Unbound(links), Abort(Unbound(links))}
        /\ UNCHANGED delivered
    BY <1>6 DEF ServerListen, ServerSubscribe, ServerHear, ServerDrained, ServerAcknowledge, ServerFollow
  <2> QED
    BY <1>1, <1>2, <2>1, CutTold, AllKept
<1>7. ASSUME NEW k \in Clients, Connect(k) \/ Accept(k) \/ Serve(k) PROVE ToldInv'
  BY <1>1, <1>2, <1>7, ServeTold
<1>8. Tick => ToldInv'
  BY <1>3 DEF Tick
<1>9. UNCHANGED serverVars => ToldInv'
  BY <1>3 DEF serverVars
<1> QED
  BY <1>4, <1>5, <1>6, <1>7, <1>8, <1>9 DEF ServerNext

\* What a client is told of its payment is its outcome, and stands, whatever
\* others do between the look at the book, the reply and its confirmation: as
\* long as the payment is in the book it has that outcome, or is a charge that
\* was refunded.  And a payment is marked delivered only when the connection that
\* started it has told its client.
THEOREM ToldIsTrue == ServerSpec => [](ToldStands /\ DeliveredWasTold)
<1>1. ServerInit => ToldInv
  <2> SUFFICES ASSUME ServerInit PROVE ToldInv
    OBVIOUS
  <2>1. delivered = {} /\ \A k \in Clients : links[k] = NewLink
    BY DEF ServerInit
  <2>2. NewLink.at = "absent" /\ NewLink.reply = "none" /\ NewLink.payment = NoPayment
    BY DEF NewLink
  <2> QED
    BY <2>1, <2>2 DEF ToldInv, ToldStands, DeliveredWasTold, Telling, Truthful
<1>2. SInv /\ SInv' /\ ToldInv /\ [ServerNext]_serverVars => ToldInv'
  BY ToldStep
<1>3. ToldInv => ToldStands /\ DeliveredWasTold
  BY DEF ToldInv
<1> QED
  BY <1>1, <1>2, <1>3, ServerInvariance, PTL DEF ServerSpec
=============================================================================

----------------------------- MODULE SsiServer -----------------------------
(***************************************************************************)
(* The SSI server around that terminal: TCP connections whose requests are *)
(* served one after the other, with delays, split replies and injected     *)
(* faults; the control port, which arms and resets; the file that keeps    *)
(* the last result over a restart; restarts; and disks that fail: emit()   *)
(* throws then, upon which a request's connection is destroyed, a call of  *)
(* the control port refused, and anything else ends the process.           *)
(*                                                                         *)
(* The server is one JavaScript thread: what runs between two of its       *)
(* awaits is one action.  Frames are taken as the decoder gives them.      *)
(***************************************************************************)
EXTENDS SsiTerminal

CONSTANTS
  Peers,           \* TCP clients; each connects once
  Requests,        \* what each of them may send
  MaxSent,         \* bound: how many requests each sends
  MaxGeneration,   \* bound: generations between two restarts
  MaxPurchases,    \* bound: purchases accepted
  MaxRestarts,     \* bound: restarts
  MaxFailures      \* bound: writes of the state file that fail

\* A frame with a wrong prefix is fatal; a wrong checksum or JSON is garbled.
Request == [frame : {"request", "garbled", "fatal"}, method : Methods \cup {"Other"},
            uid : Uids, legal : BOOLEAN]

ASSUME SsiServerAssumption ==
  /\ Requests \in [Peers -> SUBSET Request]
  /\ MaxSent \in [Peers -> Nat]
  /\ MaxGeneration \in Nat /\ MaxPurchases \in Nat
  /\ MaxRestarts \in Nat /\ MaxFailures \in Nat

VARIABLES
  terminal,
  saved,      \* the last result as the state file has it
  sockets,    \* the connections: see NewSocket
  restarts,
  failures,
  missed      \* history: the events that the file lacks; "lost", when it lacked the
              \* latest purchase's acceptance at a restart

disk    == <<saved, failures, missed>>
ssiVars == <<terminal, disk, sockets, restarts>>

\* queue: the requests in the order of their arrival; the first may be under way.
\* sent: how many there have been.  answered: those whose reply is all written.
\* outOfStep: the first whose frame had a wrong prefix.
NewSocket == [at |-> "absent", queue |-> << >>, sent |-> 0, answered |-> << >>, outOfStep |-> 0]

Init ==
  /\ terminal = NewTerminal(Nothing, 0)
  /\ saved = Nothing
  /\ sockets = [p \in Peers |-> NewSocket]
  /\ restarts = 0
  /\ failures = 0
  /\ missed = {}

-----------------------------------------------------------------------------
\* emit(): the events that write the state file.

\* Mutant: a purchase that is accepted leaves the file alone.
EventsLate(before, after) ==
  {kind \in {"completed"} : before.last # after.last /\ after.last # Nothing}

Events(before, after) ==
  {kind \in {"accepted", "completed", "reset"} :
     \/ kind = "accepted"  /\ after.accepted # before.accepted
     \/ kind = "completed" /\ before.active # Nothing /\ after.last # Nothing
                           /\ after.active # before.active
     \/ kind = "reset"     /\ after.generation # before.generation}

\* What it lacks after these events, of which some failed.
Lacks(events, failed) == failed \cup (IF "accepted" \in events THEN {} ELSE missed \cap {"lost"})

\* The file after the terminal has come from before to after.
Becomes(t) ==
  /\ terminal' = t
  /\ IF Events(terminal, t) = {} THEN UNCHANGED <<saved, missed>>
     ELSE saved' = t.last /\ missed' = Lacks(Events(terminal, t), {})
  /\ UNCHANGED failures

\* The terminal comes to t, the file only to what it was on the way, if it is
\* written before at all: the last event does not reach the disk.
FailsAfter(between, t) ==
  /\ failures < MaxFailures
  /\ Events(between, t) # {}
  /\ terminal' = t
  /\ failures' = failures + 1
  /\ IF Events(terminal, between) = {} THEN saved' = saved /\ missed' = missed \cup Events(between, t)
     ELSE saved' = between.last /\ missed' = Lacks(Events(terminal, t), Events(between, t))

Pass == /\ Passed(terminal) # terminal
        /\ terminal' = Passed(terminal)
        /\ UNCHANGED <<disk, sockets, restarts>>

\* The interval timer, or a look at /state.
Ticks == /\ Tick(terminal) # terminal
         /\ Becomes(Tick(terminal))
         /\ UNCHANGED <<sockets, restarts>>

\* /state is refused.  (The timer would not survive it: that is a Restart before.)
TicksFail == /\ FailsAfter(terminal, Tick(terminal))
             /\ UNCHANGED <<sockets, restarts>>

-----------------------------------------------------------------------------
\* Connections.

Put(p, socket) == sockets' = [sockets EXCEPT ![p] = socket]

Connect(p) ==
  /\ sockets[p].at = "absent"
  /\ Put(p, [NewSocket EXCEPT !.at = "open"])
  /\ UNCHANGED <<terminal, disk, restarts>>

\* A frame is complete; it belongs to the generation of that moment.
Data(p, request) ==
  /\ sockets[p].at = "open"
  /\ sockets[p].sent < MaxSent[p]
  /\ Put(p, [sockets[p] EXCEPT
               !.sent = @ + 1,
               !.outOfStep = IF @ = 0 /\ request.frame = "fatal" THEN sockets[p].sent + 1 ELSE @,
               !.queue = Append(@, [n |-> sockets[p].sent + 1, stage |-> "queued", left |-> 0,
                                    request |-> request, generation |-> terminal.generation])])
  /\ UNCHANGED <<terminal, disk, restarts>>

\* Mutant: requests do not wait for those before them.
AnyTurn(p) == DOMAIN sockets[p].queue

\* The chain of promises: whose turn it is.
Turn(p) == DOMAIN sockets[p].queue \cap {1}

\* Mutant: neither is looked at.
CurrentUnfenced(p, job) == TRUE

\* Neither has the socket been destroyed nor the terminal reset.
Current(p, job) == sockets[p].at = "open" /\ job.generation = terminal.generation

\* The connection with its i-th request served, or replaced.
Served(p, i)          == [sockets[p] EXCEPT !.queue = RemoveAt(@, i)]
Destroyed(p, i)       == [Served(p, i) EXCEPT !.at = "destroyed"]
Staged(p, i, stage, left) ==
  LET job == sockets[p].queue[i] IN
  [sockets[p] EXCEPT !.queue = ReplaceAt(@, i, [job EXCEPT !.stage = stage, !.left = left])]

\* A request of another time is passed over, at whatever stage it is.
Skip(p, i) ==
  LET job == sockets[p].queue[i] IN
  /\ job.stage # "pausing" \/ sockets[p].at = "open"
  /\ ~Current(p, job)
  /\ Put(p, Served(p, i))
  /\ UNCHANGED <<terminal, disk, restarts>>

\* A frame out of step: the rest of the stream cannot be read.
Fatal(p, i) ==
  LET job == sockets[p].queue[i] IN
  /\ job.stage = "queued" /\ job.request.frame = "fatal"
  /\ Current(p, job)
  /\ Put(p, Destroyed(p, i))
  /\ UNCHANGED <<terminal, disk, restarts>>

\* The scenario whose faults and delays the reply to a method gets.
ReplyScenario(t, method) ==
  IF t.active # Nothing THEN t.active.scenario
  ELSE IF method \in {"GetLastResult", "GetResultByUid"} /\ t.last # Nothing THEN t.last.scenario
  ELSE t.armed

\* What handle() makes of a frame; a garbled one does not reach it.
Handled(p, job) ==
  IF job.request.frame = "garbled" THEN Gives(terminal, "E02", 0)
  ELSE Serve(terminal,
             [method |-> job.request.method, uid |-> job.request.uid, legal |-> job.request.legal,
              asked  |-> [peer |-> p, n |-> job.n, generation |-> job.generation]])

\* The request is handled and its reply prepared; it is then withheld, or put
\* off, or its first piece handed to the socket.  Bad bytes are bytes.
Begin(p, i) ==
  LET job    == sockets[p].queue[i]
      method == IF job.request.frame = "request" THEN job.request.method ELSE "Other"
      t      == Handled(p, job).terminal
      s      == ReplyScenario(t, method)
      fault  == IF method \in Methods THEN s.faults[method] ELSE "normal"
  IN
  /\ job.stage = "queued" /\ job.request.frame # "fatal"
  /\ Current(p, job)
  /\ t.accepted <= MaxPurchases
  /\ Becomes(t)
  /\ Put(p, IF fault = "silence" THEN Served(p, i)
            ELSE IF fault = "close" THEN Destroyed(p, i)
            ELSE IF s.delayed THEN Staged(p, i, "pausing", s.fragments)
            ELSE Staged(p, i, "writing", s.fragments - 1))
  /\ UNCHANGED restarts

\* The tick or the request itself cannot be written: the client is not answered.
BeginFails(p, i) ==
  LET job == sockets[p].queue[i] IN
  /\ job.stage = "queued" /\ job.request.frame # "fatal"
  /\ Current(p, job)
  /\ \/ FailsAfter(terminal, Tick(terminal))
     \/ Handled(p, job).terminal.accepted <= MaxPurchases
        /\ FailsAfter(Tick(terminal), Handled(p, job).terminal)
  /\ Put(p, Destroyed(p, i))
  /\ UNCHANGED restarts

\* The delay is over, or its piece has been written and the pause after it is.
Resume(p, i) ==
  LET job == sockets[p].queue[i] IN
  /\ job.stage = "pausing" \/ (job.stage = "writing" /\ job.left > 0)
  /\ Current(p, job)
  /\ Put(p, Staged(p, i, "writing", job.left - 1))
  /\ UNCHANGED <<terminal, disk, restarts>>

\* The last piece has been written.
Written(p, i) ==
  LET job == sockets[p].queue[i] IN
  /\ job.stage = "writing" /\ job.left = 0
  /\ sockets[p].at = "open"
  /\ Put(p, [Served(p, i) EXCEPT !.answered = Append(@, job.n)])
  /\ UNCHANGED <<terminal, disk, restarts>>

\* The client closes its connection, or a write fails, to it or to the journal.
Hang(p) ==
  /\ sockets[p].at = "open"
  /\ Put(p, [sockets[p] EXCEPT !.at = "destroyed"])
  /\ UNCHANGED <<terminal, disk, restarts>>

\* A destroyed socket's close event, which cuts a delay short.
Closed(p) ==
  /\ sockets[p].at = "destroyed"
  /\ Put(p, [sockets[p] EXCEPT !.at = "closed", !.queue = << >>])
  /\ UNCHANGED <<terminal, disk, restarts>>

-----------------------------------------------------------------------------
\* The control port, and the process.

\* The reply shows the state, and looking at it ticks the terminal.  The journal
\* may not take that something was armed, and then the reply is an error.
Arms(scenario) ==
  /\ \/ Becomes(Tick(Arm(terminal, scenario)))
     \/ FailsAfter(Arm(terminal, scenario), Tick(Arm(terminal, scenario)))
     \/ terminal' = Arm(terminal, scenario) /\ UNCHANGED disk
  /\ UNCHANGED <<sockets, restarts>>

\* The connections are destroyed first; the reply is an error when the journal or
\* the file cannot be written, but the terminal has been reset.
Resets(preserve_result) ==
  /\ terminal.generation < MaxGeneration
  /\ \/ Becomes(Reset(terminal, preserve_result))
     \/ FailsAfter(terminal, Reset(terminal, preserve_result))
  /\ sockets' = [p \in Peers |-> IF sockets[p].at = "open"
                                 THEN [sockets[p] EXCEPT !.at = "destroyed"] ELSE sockets[p]]
  /\ UNCHANGED restarts

\* The process ends, in whatever way, and is started again: the file is read.
Restart ==
  /\ restarts < MaxRestarts
  /\ restarts' = restarts + 1
  /\ terminal' = NewTerminal(saved, terminal.accepted)
  /\ sockets' = [p \in Peers |-> [sockets[p] EXCEPT
                    !.at = IF @ = "absent" THEN "absent" ELSE "closed", !.queue = << >>]]
  /\ missed' = {kind \in {"lost"} : missed \cap {"accepted", "lost"} # {}}
  /\ UNCHANGED <<saved, failures>>

-----------------------------------------------------------------------------
Serving(p) ==
  \E i \in Turn(p) : Skip(p, i) \/ Fatal(p, i) \/ Begin(p, i) \/ BeginFails(p, i)
                      \/ Resume(p, i) \/ Written(p, i)

Next ==
  \/ Pass
  \/ Ticks
  \/ TicksFail
  \/ \E p \in Peers :
       \/ Connect(p)
       \/ \E request \in Requests[p] : Data(p, request)
       \/ Serving(p)
       \/ Hang(p)
       \/ Closed(p)
  \/ \E scenario \in Scenarios : Arms(scenario)
  \/ \E preserve_result \in BOOLEAN : Resets(preserve_result)
  \/ Restart

Spec == Init /\ [][Next]_ssiVars

-----------------------------------------------------------------------------
\* Properties.

\* The result that the terminal gives, also after a restart at any moment, is
\* that of the purchase accepted last, or none: never that of an earlier one,
\* unless the disk refused the latest purchase's acceptance, and then its client
\* has got no reply to it.
LatestResult ==
  /\ \A result \in {terminal.last, saved} \ {Nothing} :
       \/ result.serial = terminal.accepted /\ terminal.active = Nothing
       \/ "lost" \in missed
       \/ "accepted" \in missed /\ result # terminal.last
  /\ terminal.active # Nothing /\ "accepted" \in missed =>
       LET asked == terminal.active.asked IN ~Contains(sockets[asked.peer].answered, asked.n)

\* Every result is on disk before anybody can be told of it, so that no restart
\* loses one; and what a disk error has kept from the file is made good by the
\* next event, whatever it is.
Durable == missed \subseteq {"lost"} => saved = terminal.last

\* A purchase ends with its scenario's code, and then not before all phases are
\* over, or it was interrupted during a phase that allows it, whenever the
\* terminal looked at the clock.
EndsAsScripted ==
  LET result == terminal.last IN
  result # Nothing =>
    LET phases == result.scenario.phases IN
    \/ result.ended >= Length(phases) /\ result.code = result.scenario.error
    \/ /\ result.code = "E12"
       /\ \E k \in DOMAIN phases :
            /\ phases[k].status \in Interruptible
            /\ Length(SubSeq(phases, 1, k - 1)) <= result.ended
            /\ result.ended < Length(SubSeq(phases, 1, k))

\* A request that came before a reset or a restart starts nothing after it, and
\* neither does one that follows a frame out of step on its connection.
StartsInStep ==
  terminal.active # Nothing =>
    LET asked  == terminal.active.asked
        socket == sockets[asked.peer]
    IN  /\ asked.generation = terminal.generation
        /\ socket.outOfStep # 0 => asked.n < socket.outOfStep

\* On each connection replies come in the order of the requests, whatever their
\* delays, and none answers a frame out of step or one after it.
InOrder ==
  \A p \in Peers :
    LET answered == sockets[p].answered IN
    /\ \A i, j \in DOMAIN answered : i < j => answered[i] < answered[j]
    /\ sockets[p].outOfStep # 0 => \A i \in DOMAIN answered : answered[i] < sockets[p].outOfStep
=============================================================================

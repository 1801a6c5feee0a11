----------------------------- MODULE SsiProofs -----------------------------
(***************************************************************************)
(* What SsiServer says of results and of connections, for any clients,     *)
(* scenarios, frames and bounds, whatever fails and restarts; and what     *)
(* SsiDecoder hears in any bytes, however they are cut into chunks.        *)
(***************************************************************************)
EXTENDS SsiWire, SequenceTheorems, FiniteSetTheorems, TLAPS

-----------------------------------------------------------------------------
\* Types.

Asking == [peer : Peers, n : Nat, generation : Nat]

Operation == [serial : Nat \ {0}, uid : Uids, elapsed : Nat, scenario : Scenario, asked : Asking]

Outcome == [serial : Nat \ {0}, uid : Uids, code : {""} \cup Errors, scenario : Scenario, ended : Nat]

Terminal == [generation : Nat, armed : Scenario, active : Operation \cup {Nothing},
             last : Outcome \cup {Nothing}, accepted : Nat]

Job == [n : Nat, stage : {"queued", "pausing", "writing"}, left : Int, request : Request,
        generation : Nat]

Socket == [at : {"absent", "open", "destroyed", "closed"}, queue : Seq(Job), sent : Nat,
           answered : Seq(Nat), outOfStep : Nat]

-----------------------------------------------------------------------------
\* What a call makes of the terminal.

\* Nothing that the file or a client could tell.
Rests(t0, t) ==
  /\ t.generation = t0.generation /\ t.accepted = t0.accepted
  /\ t.active = t0.active /\ t.last = t0.last

\* The purchase under way has ended.
Ends(t0, t) ==
  /\ t.generation = t0.generation /\ t.accepted = t0.accepted
  /\ t0.active # Nothing /\ t.active = Nothing
  /\ t.last # Nothing /\ t.last.serial = t0.active.serial

\* A purchase has been accepted.
Accepts(t0, t, asked) ==
  /\ t.generation = t0.generation /\ t.accepted = t0.accepted + 1
  /\ t.active # Nothing /\ t.active.serial = t.accepted /\ t.active.asked = asked
  /\ t.last = Nothing

\* The terminal has been reset.
Cleared(t0, t) ==
  /\ t.generation = t0.generation + 1 /\ t.accepted = t0.accepted
  /\ t.active = Nothing /\ t.last \in {t0.last, Nothing}

LEMMA TerminalFields ==
  ASSUME NEW t \in Terminal
  PROVE  /\ t.generation \in Nat /\ t.accepted \in Nat /\ t.armed \in Scenario
         /\ t.active \in Operation \cup {Nothing} /\ t.last \in Outcome \cup {Nothing}
BY DEF Terminal

LEMMA OperationFields ==
  ASSUME NEW a \in Operation
  PROVE  /\ a.serial \in Nat /\ a.serial # 0 /\ a.uid \in Uids /\ a.elapsed \in Nat
         /\ a.scenario \in Scenario /\ a.asked \in Asking
BY DEF Operation

LEMMA OutcomeFields ==
  ASSUME NEW r \in Outcome
  PROVE  /\ r.serial \in Nat /\ r.serial # 0 /\ r # Nothing
         /\ r.scenario \in Scenario
<1>1. /\ r.serial \in Nat /\ r.serial # 0
      /\ r.scenario \in Scenario
  BY DEF Outcome
<1>2. Nothing.serial = 0
  BY DEF Nothing
<1> QED BY <1>1, <1>2

\* The clock that moves on leaves all of it but the time since the purchase.
LEMMA PassedKeeps ==
  ASSUME NEW t \in Terminal
  PROVE  /\ Passed(t) \in Terminal
         /\ Passed(t).generation = t.generation /\ Passed(t).accepted = t.accepted
         /\ Passed(t).last = t.last
         /\ (Passed(t).active = Nothing) = (t.active = Nothing)
         /\ t.active # Nothing =>
              Passed(t).active.serial = t.active.serial /\ Passed(t).active.asked = t.active.asked
<1>1. CASE Passed(t) = t
  BY <1>1
<1>2. CASE Passed(t) # t
  <2>1. /\ t.active # Nothing
        /\ Passed(t) = [t EXCEPT !.active = [t.active EXCEPT !.elapsed = t.active.elapsed + 1]]
    BY <1>2 DEF Passed
  <2>2. t.active \in Operation
    BY <2>1, TerminalFields
  <2>3. DEFINE a == [t.active EXCEPT !.elapsed = t.active.elapsed + 1]
  <2>4. /\ a \in Operation
        /\ a.serial = t.active.serial /\ a.asked = t.active.asked
    BY <2>2 DEF Operation
  <2>5. a # Nothing
    BY <2>4, <2>2, OperationFields DEF Nothing
  <2> HIDE DEF a
  <2>6. Passed(t) = [t EXCEPT !.active = a]
    BY <2>1 DEF a
  <2>7. /\ [t EXCEPT !.active = a] \in Terminal
        /\ [t EXCEPT !.active = a].generation = t.generation
        /\ [t EXCEPT !.active = a].accepted = t.accepted
        /\ [t EXCEPT !.active = a].last = t.last
        /\ [t EXCEPT !.active = a].active = a
    BY <2>4 DEF Terminal
  <2> QED BY <2>1, <2>4, <2>5, <2>6, <2>7
<1> QED BY <1>1, <1>2

LEMMA CompleteEnds ==
  ASSUME NEW t \in Terminal, t.active # Nothing, NEW code \in {""} \cup Errors
  PROVE  Complete(t, code) \in Terminal /\ Ends(t, Complete(t, code))
<1>1. t.active \in Operation
  BY TerminalFields
<1> DEFINE r == [serial |-> t.active.serial, uid |-> t.active.uid, code |-> code,
                 scenario |-> t.active.scenario, ended |-> t.active.elapsed]
<1>2. r \in Outcome /\ r.serial = t.active.serial
  BY <1>1, OperationFields DEF Outcome
<1>3. r # Nothing
  BY <1>2, OutcomeFields
<1> HIDE DEF r
<1>4. Complete(t, code) = [t EXCEPT !.active = Nothing, !.last = r]
  BY DEF Complete, r
<1>5. /\ Complete(t, code) \in Terminal
      /\ Complete(t, code).generation = t.generation
      /\ Complete(t, code).accepted = t.accepted
      /\ Complete(t, code).active = Nothing
      /\ Complete(t, code).last = r
  BY <1>2, <1>4 DEF Terminal
<1> QED BY <1>2, <1>3, <1>5 DEF Ends

LEMMA ScenarioFields ==
  ASSUME NEW s \in Scenario
  PROVE  s.error \in {""} \cup Errors /\ s.fragments \in Int
<1>1. s.error \in {""} \cup Errors
  BY DEF Scenario
<1>2. s.fragments \in {1, 2}
  BY DEF Scenario
<1>3. s.fragments \in Int
  <2>1. CASE s.fragments = 1
    BY <2>1
  <2>2. CASE s.fragments = 2
    BY <2>2
  <2> QED BY <1>2, <2>1, <2>2
<1> QED BY <1>1, <1>3

LEMMA IdleStatus ==
  ASSUME NEW t, t.active = Nothing
  PROVE  Status(t) = "S00"
BY DEF Status

LEMMA TickDoes ==
  ASSUME NEW t \in Terminal
  PROVE  Tick(t) \in Terminal /\ (Rests(t, Tick(t)) \/ Ends(t, Tick(t)))
<1>1. CASE Tick(t) = t
  BY <1>1 DEF Rests
<1>2. CASE Tick(t) # t
  <2>1. t.active # Nothing /\ Tick(t) = Complete(t, t.active.scenario.error)
    BY <1>2 DEF Tick
  <2>2. t.active.scenario.error \in {""} \cup Errors
    BY <2>1, TerminalFields, OperationFields, ScenarioFields
  <2> QED BY <2>1, <2>2, CompleteEnds
<1> QED BY <1>1, <1>2

LEMMA GivesTerminal ==
  ASSUME NEW t, NEW error, NEW serial
  PROVE  Gives(t, error, serial).terminal = t
BY DEF Gives

LEMMA InterruptDoes ==
  ASSUME NEW t \in Terminal
  PROVE  LET t1 == Interrupt(t).terminal IN t1 \in Terminal /\ (Rests(t, t1) \/ Ends(t, t1))
<1>1. CASE Status(t) \in Interruptible
  <2>1. t.active # Nothing
    BY <1>1, IdleStatus DEF Interruptible
  <2>2. Interrupt(t) = Gives(Complete(t, "E12"), "", 0)
    BY <1>1 DEF Interrupt
  <2>3. Interrupt(t).terminal = Complete(t, "E12")
    BY <2>2, GivesTerminal
  <2>4. "E12" \in {""} \cup Errors
    BY DEF Errors
  <2> QED BY <2>1, <2>3, <2>4, CompleteEnds
<1>2. CASE Status(t) \notin Interruptible
  <2>1. Interrupt(t) = Gives(t, "E08", 0)
    BY <1>2 DEF Interrupt
  <2> QED BY <2>1, GivesTerminal DEF Rests
<1> QED BY <1>1, <1>2

LEMMA PurchaseDoes ==
  ASSUME NEW t \in Terminal, NEW request, request.uid \in Uids, request.asked \in Asking
  PROVE  LET t1 == Purchase(t, request).terminal IN
         t1 \in Terminal /\ (Rests(t, t1) \/ Accepts(t, t1, request.asked))
<1>1. CASE t.active # Nothing \/ ~request.legal
  <2>1. Purchase(t, request).terminal = t
    BY <1>1, GivesTerminal DEF Purchase
  <2> QED BY <2>1 DEF Rests
<1>2. CASE t.active = Nothing /\ request.legal
  <2> DEFINE a == [serial |-> t.accepted + 1, uid |-> request.uid, elapsed |-> 0,
                   scenario |-> t.armed, asked |-> request.asked]
             t1 == [t EXCEPT !.last = Nothing, !.accepted = t.accepted + 1, !.active = a]
  <2>1. t.accepted + 1 \in Nat \ {0} /\ t.armed \in Scenario
    BY TerminalFields
  <2>2. /\ a \in Operation
        /\ a.serial = t.accepted + 1 /\ a.asked = request.asked
    BY <2>1 DEF Operation
  <2>3. a # Nothing
    BY <2>1, <2>2 DEF Nothing
  <2> HIDE DEF a
  <2>4. /\ t1 \in Terminal
        /\ t1.generation = t.generation /\ t1.accepted = t.accepted + 1
        /\ t1.active = a /\ t1.last = Nothing
    BY <2>1, <2>2 DEF Terminal
  <2>5. Purchase(t, request) = Gives(t1, "", 0)
    BY <1>2 DEF Purchase, a
  <2> HIDE DEF t1
  <2>6. Purchase(t, request).terminal = t1
    BY <2>5, GivesTerminal
  <2> QED BY <2>2, <2>3, <2>4, <2>6 DEF Accepts
<1> QED BY <1>1, <1>2

LEMMA HandleDoes ==
  ASSUME NEW t \in Terminal, NEW request, request.uid \in Uids, request.asked \in Asking
  PROVE  LET t1 == Handle(t, request).terminal IN
         t1 \in Terminal /\ (Rests(t, t1) \/ Ends(t, t1) \/ Accepts(t, t1, request.asked))
<1>1. \/ Handle(t, request).terminal = t
      \/ Handle(t, request) = Interrupt(t)
      \/ Handle(t, request) = GetLastResult(t)
      \/ Handle(t, request) = GetResultByUid(t, request.uid)
      \/ Handle(t, request) = Purchase(t, request)
  BY GivesTerminal DEF Handle
<1>2. GetLastResult(t).terminal = t /\ GetResultByUid(t, request.uid).terminal = t
  BY GivesTerminal DEF GetLastResult, GetResultByUid
<1>3. CASE Handle(t, request).terminal = t
  BY <1>3 DEF Rests
<1> QED BY <1>1, <1>2, <1>3, InterruptDoes, PurchaseDoes

\* What a frame in the queue makes of the terminal, and in between.
LEMMA HandledDoes ==
  ASSUME NEW t \in Terminal, terminal = t, NEW p \in Peers, NEW job \in Job
  PROVE  LET t1    == Handled(p, job).terminal
             asked == [peer |-> p, n |-> job.n, generation |-> job.generation]
         IN  /\ t1 \in Terminal /\ asked \in Asking
             /\ Rests(t, t1) \/ Ends(t, t1) \/ Accepts(t, t1, asked)
             /\ \/ Rests(Tick(t), t1) \/ Ends(Tick(t), t1) \/ Accepts(Tick(t), t1, asked)
                \/ Ends(t, Tick(t)) /\ t1 = t
<1> DEFINE asked   == [peer |-> p, n |-> job.n, generation |-> job.generation]
           request == [method |-> job.request.method, uid |-> job.request.uid,
                       legal |-> job.request.legal, asked |-> asked]
<1>1. asked \in Asking
  BY DEF Job, Asking
<1>2. request.uid = job.request.uid /\ request.asked = asked
  OBVIOUS
<1>3. job.request.uid \in Uids
  BY DEF Job, Request
<1>4. Tick(t) \in Terminal /\ (Rests(t, Tick(t)) \/ Ends(t, Tick(t)))
  BY TickDoes
<1>5. CASE job.request.frame = "garbled"
  <2>1. Handled(p, job).terminal = t
    BY <1>5, GivesTerminal DEF Handled
  <2>2. Rests(t, t)
    BY DEF Rests
  <2>3. Rests(t, Tick(t)) => Rests(Tick(t), t)
    BY DEF Rests
  <2> QED BY <1>1, <1>4, <2>1, <2>2, <2>3
<1>6. CASE job.request.frame # "garbled"
  <2>1. Handled(p, job) = Handle(Tick(t), request)
    BY <1>6 DEF Handled, Serve
  <2> HIDE DEF asked, request
  <2> DEFINE t1 == Handled(p, job).terminal
  <2>2. /\ t1 \in Terminal
        /\ Rests(Tick(t), t1) \/ Ends(Tick(t), t1) \/ Accepts(Tick(t), t1, asked)
    BY <1>1, <1>2, <1>3, <1>4, <2>1, HandleDoes
  <2> HIDE DEF t1
  <2>3. Rests(t, t1) \/ Ends(t, t1) \/ Accepts(t, t1, asked)
    BY <1>4, <2>2 DEF Rests, Ends, Accepts
  <2> QED BY <1>1, <2>2, <2>3 DEF t1, asked
<1> QED BY <1>5, <1>6

-----------------------------------------------------------------------------
\* The events of these.

LEMMA EventsAre ==
  ASSUME NEW t0 \in Terminal, NEW t \in Terminal
  PROVE  /\ Events(t0, t) \subseteq {"accepted", "completed", "reset"}
         /\ ("accepted" \in Events(t0, t)) = (t.accepted # t0.accepted)
         /\ Rests(t0, t) => Events(t0, t) = {}
         /\ Ends(t0, t) => Events(t0, t) = {"completed"}
         /\ \A asked : Accepts(t0, t, asked) => Events(t0, t) = {"accepted"}
         /\ Cleared(t0, t) => "reset" \in Events(t0, t)
<1>1. t0.accepted + 1 # t0.accepted /\ t0.generation + 1 # t0.generation
  BY TerminalFields
<1>2. Rests(t0, t) => Events(t0, t) = {}
  BY DEF Events, Rests
<1>3. Ends(t0, t) => Events(t0, t) = {"completed"}
  BY DEF Events, Ends
<1>4. \A asked : Accepts(t0, t, asked) => Events(t0, t) = {"accepted"}
  BY <1>1 DEF Events, Accepts
<1>5. Cleared(t0, t) => "reset" \in Events(t0, t)
  BY <1>1 DEF Events, Cleared
<1>6. /\ Events(t0, t) \subseteq {"accepted", "completed", "reset"}
      /\ ("accepted" \in Events(t0, t)) = (t.accepted # t0.accepted)
  BY DEF Events
<1> QED BY <1>2, <1>3, <1>4, <1>5, <1>6

-----------------------------------------------------------------------------
\* The inductive invariant.

\* Serial numbers tell purchases apart: the one under way is the latest.
Numbered ==
  /\ terminal.active # Nothing => terminal.active.serial = terminal.accepted /\ terminal.last = Nothing
  /\ \A result \in {terminal.last, saved} \ {Nothing} : result.serial <= terminal.accepted

\* The terminal's result is the latest purchase's, and so is the file's; unless
\* that purchase's acceptance is what the file lacks, or has been lost.
Latest ==
  /\ terminal.last # Nothing => terminal.last.serial = terminal.accepted \/ "lost" \in missed
  /\ saved # Nothing =>
       \/ saved.serial = terminal.accepted /\ terminal.active = Nothing
       \/ "lost" \in missed
       \/ "accepted" \in missed
  /\ "accepted" \in missed /\ saved # Nothing => saved.serial < terminal.accepted

FileInv ==
  /\ terminal \in Terminal
  /\ saved \in Outcome \cup {Nothing}
  /\ missed \subseteq {"accepted", "completed", "reset", "lost"}
  /\ Numbered
  /\ Latest
  /\ Durable

\* The requests of a connection are numbered as they come, those with a reply
\* before those that wait; a frame out of step waits until the connection ends,
\* and all that wait on one that is open have come since the last reset.
InLine(socket, generation) ==
  LET queue == socket.queue  answered == socket.answered IN
  /\ \A i \in 1..Len(queue) : 1 <= queue[i].n /\ queue[i].n <= socket.sent
  /\ \A i, j \in 1..Len(queue) : i < j => queue[i].n < queue[j].n
  /\ \A i \in 1..Len(answered) :
       /\ answered[i] <= socket.sent
       /\ \A j \in 1..Len(queue) : answered[i] < queue[j].n
       /\ \A j \in 1..Len(answered) : i < j => answered[i] < answered[j]
       /\ socket.outOfStep # 0 => answered[i] < socket.outOfStep
  /\ socket.outOfStep <= socket.sent
  /\ socket.at = "open" =>
       /\ \A i \in 1..Len(queue) : queue[i].generation = generation
       /\ socket.outOfStep # 0 =>
            \E i \in 1..Len(queue) : /\ queue[i].n = socket.outOfStep
                                     /\ queue[i].stage = "queued"
                                     /\ queue[i].request.frame = "fatal"
  /\ socket.at = "absent" => socket = NewSocket

\* The purchase under way has been asked for since the last reset, and by a
\* request in step; while its acceptance is what the file lacks, its client has
\* lost the connection without a reply.
Asked(active, generation, refused) ==
  LET asked == active.asked  socket == sockets[asked.peer] IN
  /\ asked.generation = generation
  /\ 1 <= asked.n /\ asked.n <= socket.sent
  /\ socket.outOfStep # 0 => asked.n < socket.outOfStep
  /\ refused => /\ socket.at \in {"destroyed", "closed"}
                /\ \A i \in 1..Len(socket.answered) : socket.answered[i] # asked.n

AskedInv == terminal.active # Nothing =>
              Asked(terminal.active, terminal.generation, "accepted" \in missed)

LineInv == /\ sockets \in [Peers -> Socket]
           /\ \A p \in Peers : InLine(sockets[p], terminal.generation)

SsiInv == FileInv /\ LineInv /\ AskedInv

-----------------------------------------------------------------------------
\* The file keeps up with the terminal.

LEMMA SerialsAreNumbers ==
  ASSUME FileInv
  PROVE  /\ terminal.accepted \in Nat /\ terminal.generation \in Nat
         /\ terminal.active # Nothing => terminal.active.serial \in Nat
         /\ terminal.last # Nothing => terminal.last.serial \in Nat
         /\ saved # Nothing => saved.serial \in Nat
BY TerminalFields, OperationFields, OutcomeFields DEF FileInv

\* Nothing that the file could tell has changed.
LEMMA FileRests ==
  ASSUME FileInv, NEW t \in Terminal, Rests(terminal, t), terminal' = t, UNCHANGED <<saved, missed>>
  PROVE  FileInv'
BY DEF FileInv, Numbered, Latest, Durable, Rests

LEMMA FileEnds ==
  ASSUME FileInv, NEW t \in Terminal, Ends(terminal, t), terminal' = t,
         \/ saved' = t.last /\ missed' = missed \cap {"lost"}
         \/ saved' = saved /\ missed' = missed \cup {"completed"}
  PROVE  FileInv'
<1>1. /\ t.accepted = terminal.accepted /\ terminal.active # Nothing
      /\ t.active = Nothing /\ t.last # Nothing /\ t.last.serial = t.accepted
  BY DEF FileInv, Numbered, Ends
<1>2. t.last \in Outcome \cup {Nothing} /\ t.accepted \in Nat
  BY TerminalFields
<1>3. Numbered'
  BY <1>1, <1>2 DEF FileInv, Numbered
<1>4. Latest'
  BY <1>1, <1>2 DEF FileInv, Latest
<1>5. Durable'
  BY <1>1 DEF FileInv, Durable
<1> QED BY <1>2, <1>3, <1>4, <1>5 DEF FileInv

\* The file either gets the acceptance, or lacks it; it may just have got the
\* result of the purchase before.
LEMMA FileAccepts ==
  ASSUME FileInv, NEW t \in Terminal, NEW asked, Accepts(terminal, t, asked), terminal' = t,
         \/ saved' = Nothing /\ missed' = {}
         \/ saved' = saved /\ missed' = missed \cup {"accepted"}
         \/ /\ saved' \in Outcome \cup {Nothing} /\ missed' = {"accepted"}
            /\ saved' # Nothing => saved'.serial <= terminal.accepted
  PROVE  FileInv'
<1>1. /\ t.accepted = terminal.accepted + 1 /\ t.active.serial = t.accepted
      /\ t.active # Nothing /\ t.last = Nothing
  BY DEF Accepts
<1>2. /\ saved' \in Outcome \cup {Nothing}
      /\ saved' # Nothing => "accepted" \in missed' /\ saved'.serial <= terminal.accepted
      /\ missed' = {} \/ "accepted" \in missed'
      /\ missed' = {} => saved' = Nothing
      /\ missed' \subseteq {"accepted", "completed", "reset", "lost"}
  BY DEF FileInv, Numbered
<1>3. saved' # Nothing => saved'.serial \in Nat
  BY <1>2, OutcomeFields
<1>4. Numbered'
  BY <1>1, <1>2, <1>3, SerialsAreNumbers DEF Numbered
<1>5. Latest'
  BY <1>1, <1>2, <1>3, SerialsAreNumbers DEF Latest
<1>6. Durable'
  BY <1>1, <1>2 DEF Durable
<1> QED BY <1>2, <1>4, <1>5, <1>6 DEF FileInv

LEMMA FileCleared ==
  ASSUME FileInv, NEW t \in Terminal, Cleared(terminal, t), terminal' = t,
         \/ saved' = t.last /\ missed' = missed \cap {"lost"}
         \/ saved' = saved /\ \E failed \in SUBSET {"completed", "reset"} :
                                failed # {} /\ missed' = missed \cup failed
  PROVE  FileInv'
<1>1. /\ t.accepted = terminal.accepted
      /\ t.active = Nothing /\ t.last \in {terminal.last, Nothing}
  BY DEF Cleared
<1>2. t.last \in Outcome \cup {Nothing} /\ t.accepted \in Nat
  BY TerminalFields
<1>3. /\ saved' \in Outcome \cup {Nothing}
      /\ missed' \subseteq {"accepted", "completed", "reset", "lost"}
      /\ missed' \subseteq {"lost"} => saved' = t.last
      /\ "lost" \in missed => "lost" \in missed'
      /\ \/ saved' = t.last /\ "accepted" \notin missed'
         \/ saved' = saved /\ ("accepted" \in missed' <=> "accepted" \in missed)
  BY <1>2 DEF FileInv
<1>4. Numbered'
  BY <1>1, <1>3 DEF FileInv, Numbered
<1>5. Latest'
  BY <1>1, <1>3 DEF FileInv, Numbered, Latest
<1>6. Durable'
  BY <1>3 DEF Durable
<1> QED BY <1>3, <1>4, <1>5, <1>6 DEF FileInv

\* A call whose events reach the disk, and what that says of acceptances.
LEMMA BecomesKeeps ==
  ASSUME FileInv, NEW t \in Terminal, Becomes(t), NEW asked,
         Rests(terminal, t) \/ Ends(terminal, t) \/ Accepts(terminal, t, asked) \/ Cleared(terminal, t)
  PROVE  /\ FileInv' /\ terminal' = t
         /\ Rests(terminal, t) => missed' = missed
         /\ Accepts(terminal, t, asked) => "accepted" \notin missed'
<1>1. terminal' = t /\ terminal \in Terminal
  BY DEF Becomes, FileInv
<1>2. /\ Events(terminal, t) = {} => saved' = saved /\ missed' = missed
      /\ Events(terminal, t) # {} => saved' = t.last /\ missed' = Lacks(Events(terminal, t), {})
  BY DEF Becomes
<1>3. Rests(terminal, t) => FileInv' /\ missed' = missed
  BY <1>1, <1>2, EventsAre, FileRests
<1>4. CASE Ends(terminal, t)
  <2>1. saved' = t.last /\ missed' = missed \cap {"lost"}
    BY <1>1, <1>2, <1>4, EventsAre DEF Lacks
  <2>2. FileInv'
    BY <1>1, <1>4, <2>1, FileEnds
  <2> QED BY <1>1, <1>3, <1>4, <2>1, <2>2
<1>5. CASE Accepts(terminal, t, asked)
  <2>1. saved' = Nothing /\ missed' = {}
    BY <1>1, <1>2, <1>5, EventsAre DEF Lacks, Accepts
  <2>2. FileInv'
    BY <1>1, <1>5, <2>1, FileAccepts
  <2> QED BY <1>1, <1>3, <2>1, <2>2
<1>6. CASE Cleared(terminal, t)
  <2>1. "accepted" \notin Events(terminal, t) /\ Events(terminal, t) # {}
    BY <1>1, <1>6, EventsAre DEF Cleared
  <2>2. saved' = t.last /\ missed' = missed \cap {"lost"}
    BY <1>2, <2>1 DEF Lacks
  <2>3. FileInv'
    BY <1>1, <1>6, <2>2, FileCleared
  <2> QED BY <1>1, <1>3, <2>2, <2>3
<1> QED BY <1>1, <1>3, <1>4, <1>5, <1>6

\* A call whose last event does not reach the disk: something has happened.
LEMMA FailsKeeps ==
  ASSUME FileInv, NEW between \in Terminal, NEW t \in Terminal, FailsAfter(between, t), NEW asked,
         Rests(terminal, between) \/ Ends(terminal, between),
         \/ Rests(between, t) \/ Ends(between, t) \/ Accepts(between, t, asked)
         \/ Cleared(between, t) /\ between = terminal
  PROVE  /\ FileInv' /\ terminal' = t
         /\ Ends(terminal, t) \/ Accepts(terminal, t, asked) \/ Cleared(terminal, t)
<1>1. /\ terminal' = t /\ terminal \in Terminal /\ Events(between, t) # {}
      /\ Events(terminal, between) = {} =>
           saved' = saved /\ missed' = missed \cup Events(between, t)
      /\ Events(terminal, between) # {} =>
           saved' = between.last /\ missed' = Lacks(Events(terminal, t), Events(between, t))
  BY DEF FailsAfter, FileInv
<1>2. ~Rests(between, t)
  BY <1>1, EventsAre
<1>3. CASE Rests(terminal, between)
  <2>1. saved' = saved /\ missed' = missed \cup Events(between, t)
    BY <1>1, <1>3, EventsAre
  <2>2. CASE Ends(between, t)
    <3>1. Ends(terminal, t) /\ Events(between, t) = {"completed"}
      BY <1>3, <2>2, EventsAre DEF Rests, Ends
    <3> QED BY <1>1, <2>1, <3>1, FileEnds
  <2>3. CASE Accepts(between, t, asked)
    <3>1. Accepts(terminal, t, asked) /\ Events(between, t) = {"accepted"}
      BY <1>3, <2>3, EventsAre DEF Rests, Accepts
    <3> QED BY <1>1, <2>1, <3>1, FileAccepts
  <2>4. CASE Cleared(between, t)
    <3>1. Cleared(terminal, t)
      BY <1>3, <2>4 DEF Rests, Cleared
    <3>2. Events(between, t) \in SUBSET {"completed", "reset"}
      BY <2>4, EventsAre DEF Cleared
    <3> QED BY <1>1, <2>1, <3>1, <3>2, FileCleared
  <2> QED BY <1>2, <2>2, <2>3, <2>4
<1>4. CASE Ends(terminal, between)
  <2>1. /\ saved' = between.last /\ missed' = Lacks(Events(terminal, t), Events(between, t))
        /\ between.active = Nothing
    BY <1>1, <1>4, EventsAre DEF Ends
  <2>2. CASE Ends(between, t)
    BY <2>1, <2>2 DEF Ends
  <2>3. CASE Accepts(between, t, asked)
    <3>1. Accepts(terminal, t, asked)
      BY <1>4, <2>3 DEF Ends, Accepts
    <3>2. missed' = {"accepted"}
      BY <1>1, <2>1, <2>3, <3>1, EventsAre DEF Lacks
    <3>3. between.last \in Outcome \cup {Nothing} /\ between.last.serial <= terminal.accepted
      BY <1>4, TerminalFields, SerialsAreNumbers DEF Ends, FileInv, Numbered
    <3> QED BY <1>1, <2>1, <3>1, <3>2, <3>3, FileAccepts
  <2>4. CASE between = terminal
    BY <1>4, <2>4 DEF Ends
  <2> QED BY <1>2, <2>2, <2>3, <2>4
<1> QED BY <1>3, <1>4

-----------------------------------------------------------------------------
\* What the calls make of a connection.

LEMMA SocketFields ==
  ASSUME NEW s \in Socket
  PROVE  /\ s.at \in {"absent", "open", "destroyed", "closed"}
         /\ s.queue \in Seq(Job) /\ s.answered \in Seq(Nat)
         /\ s.sent \in Nat /\ s.outOfStep \in Nat
         /\ Len(s.queue) \in Nat /\ Len(s.answered) \in Nat
         /\ DOMAIN s.queue = 1..Len(s.queue)
         /\ \A i \in 1..Len(s.queue) : s.queue[i] \in Job
         /\ \A i \in 1..Len(s.answered) : s.answered[i] \in Nat
<1>1. /\ s.at \in {"absent", "open", "destroyed", "closed"}
      /\ s.queue \in Seq(Job) /\ s.answered \in Seq(Nat)
      /\ s.sent \in Nat /\ s.outOfStep \in Nat
  BY DEF Socket
<1> QED BY <1>1, LenProperties, ElementOfSeq

LEMMA JobFields ==
  ASSUME NEW job \in Job
  PROVE  /\ job.n \in Nat /\ job.generation \in Nat /\ job.left \in Int
         /\ job.request \in Request /\ job.stage \in {"queued", "pausing", "writing"}
BY DEF Job

LEMMA OneLess ==
  ASSUME NEW n \in Nat, 1 <= n
  PROVE  (IF 2 <= n THEN n - 2 + 1 ELSE 0) = n - 1
OBVIOUS

LEMMA OneMore ==
  ASSUME NEW n \in Nat
  PROVE  /\ \A i \in 1..(n + 1) : i \in 1..n \/ i = n + 1
         /\ \A i \in Nat : i <= n => i <= n + 1 /\ i < n + 1
OBVIOUS

LEMMA Dequeue ==
  ASSUME NEW queue \in Seq(Job), 1 \in DOMAIN queue
  PROVE  /\ RemoveAt(queue, 1) \in Seq(Job)
         /\ Len(queue) \in Nat /\ 1 <= Len(queue)
         /\ Len(RemoveAt(queue, 1)) = Len(queue) - 1
         /\ \A k \in 1..(Len(queue) - 1) : RemoveAt(queue, 1)[k] = queue[k + 1]
<1>1. Len(queue) \in Nat /\ 1 <= Len(queue) /\ \A k \in 1..Len(queue) : queue[k] \in Job
  BY LenProperties, ElementOfSeq
<1> DEFINE none == SubSeq(queue, 1, 0)  rest == SubSeq(queue, 2, Len(queue))
<1>2. none \in Seq(Job) /\ Len(none) = 0
  <2>1. \A k \in 1..0 : queue[k] \in Job
    OBVIOUS
  <2> QED BY <2>1, SubSeqProperties
<1>3. /\ rest \in Seq(Job) /\ Len(rest) = Len(queue) - 1
      /\ \A k \in 1..(Len(queue) - 1) : rest[k] = queue[k + 1]
  <2>1. \A k \in 2..Len(queue) : queue[k] \in Job
    BY <1>1
  <2>2. /\ rest \in Seq(Job)
        /\ Len(rest) = IF 2 <= Len(queue) THEN Len(queue) - 2 + 1 ELSE 0
        /\ \A k \in 1..(Len(queue) - 2 + 1) : rest[k] = queue[2 + k - 1]
    BY <1>1, <2>1, SubSeqProperties
  <2> HIDE DEF rest
  <2>3. Len(rest) = Len(queue) - 1
    <3>1. Len(rest) = IF 2 <= Len(queue) THEN Len(queue) - 2 + 1 ELSE 0
      BY <2>2
    <3> QED BY <1>1, <3>1, OneLess
  <2>4. ASSUME NEW k \in 1..(Len(queue) - 1)
        PROVE  rest[k] = queue[k + 1]
    <3>1. k \in 1..(Len(queue) - 2 + 1) /\ 2 + k - 1 = k + 1
      BY <1>1
    <3> QED BY <2>2, <3>1
  <2> QED BY <2>2, <2>3, <2>4
<1>4. RemoveAt(queue, 1) = none \o rest
  BY <1>1 DEF RemoveAt
<1> HIDE DEF none, rest
<1>5. /\ none \o rest \in Seq(Job) /\ Len(none \o rest) = Len(none) + Len(rest)
      /\ \A k \in 1..(Len(none) + Len(rest)) :
           (none \o rest)[k] = IF k <= Len(none) THEN none[k] ELSE rest[k - Len(none)]
  BY <1>2, <1>3, ConcatProperties
<1> QED BY <1>1, <1>2, <1>3, <1>4, <1>5

\* It has ended, and those that wait have been dropped or will be passed over.
LEMMA EndedInLine ==
  ASSUME NEW s \in Socket, NEW g, InLine(s, g), NEW t, t.at \in {"destroyed", "closed"},
         t.queue = s.queue \/ t.queue = << >>,
         t.sent = s.sent, t.answered = s.answered, t.outOfStep = s.outOfStep, NEW h
  PROVE  InLine(t, h)
<1>1. Len(<< >>) = 0
  BY EmptySeq
<1> QED BY <1>1 DEF InLine

\* The first is done with, with a reply or without; it is none out of step.
LEMMA ServedInLine ==
  ASSUME NEW s \in Socket, NEW g, InLine(s, g), 1 \in DOMAIN s.queue, NEW t,
         t.queue = RemoveAt(s.queue, 1), t.at = s.at, t.sent = s.sent, t.outOfStep = s.outOfStep,
         \/ s.at # "open"
         \/ s.queue[1].stage # "queued"
         \/ s.queue[1].request.frame # "fatal",
         \/ t.answered = s.answered
         \/ t.answered = Append(s.answered, s.queue[1].n) /\ s.at = "open"
  PROVE  InLine(t, g)
<1> DEFINE q == s.queue  r == t.queue  a == s.answered  b == t.answered
<1>1. /\ r \in Seq(Job) /\ Len(q) \in Nat /\ 1 <= Len(q) /\ Len(r) = Len(q) - 1
      /\ \A k \in 1..Len(r) : k + 1 \in 1..Len(q) /\ r[k] = q[k + 1] /\ r[k].n \in Nat
      /\ q[1].n \in Nat /\ \A k \in 1..Len(q) : q[k].n \in Nat
  BY SocketFields, Dequeue, JobFields, SMTT(30)
<1>2. /\ \A i \in 1..Len(q) : 1 <= q[i].n /\ q[i].n <= s.sent
      /\ \A i, j \in 1..Len(q) : i < j => q[i].n < q[j].n
      /\ \A i \in 1..Len(a) :
           /\ a[i] <= s.sent
           /\ \A j \in 1..Len(q) : a[i] < q[j].n
           /\ \A j \in 1..Len(a) : i < j => a[i] < a[j]
           /\ s.outOfStep # 0 => a[i] < s.outOfStep
      /\ s.outOfStep <= s.sent
      /\ s.at = "open" => \A i \in 1..Len(q) : q[i].generation = g
      /\ s.at = "open" /\ s.outOfStep # 0 =>
           \E i \in 1..Len(q) : /\ q[i].n = s.outOfStep
                                /\ q[i].stage = "queued"
                                /\ q[i].request.frame = "fatal"
  BY DEF InLine
<1>0. s.at # "absent"
  <2>1. s.at = "absent" => Len(s.queue) = 0
    BY EmptySeq DEF InLine, NewSocket
  <2> QED BY <1>1, <2>1
<1>3. s.at = "open" /\ s.outOfStep # 0 =>
        \E i \in 1..Len(r) : /\ r[i].n = s.outOfStep
                             /\ r[i].stage = "queued"
                             /\ r[i].request.frame = "fatal"
  <2> SUFFICES ASSUME s.at = "open", s.outOfStep # 0
               PROVE  \E i \in 1..Len(r) : /\ r[i].n = s.outOfStep
                                           /\ r[i].stage = "queued"
                                           /\ r[i].request.frame = "fatal"
    OBVIOUS
  <2>1. PICK i \in 1..Len(q) : /\ q[i].n = s.outOfStep
                               /\ q[i].stage = "queued"
                               /\ q[i].request.frame = "fatal"
    BY <1>2
  <2>2. i # 1
    BY <2>1
  <2>3. i - 1 \in 1..Len(r) /\ r[i - 1] = q[i]
    BY <1>1, <2>2
  <2> QED BY <2>1, <2>3
<1>4. s.at = "open" /\ s.outOfStep # 0 => q[1].n < s.outOfStep
  <2> HIDE DEF q, r
  <2>1. \A k \in 1..Len(r) : q[1].n < r[k].n
    BY <1>1, <1>2
  <2> QED BY <1>3, <2>1
<1>5. /\ \A i \in 1..Len(r) : /\ 1 <= r[i].n /\ r[i].n <= s.sent
                              /\ s.at = "open" => r[i].generation = g
                              /\ q[1].n < r[i].n
      /\ \A i, j \in 1..Len(r) : i < j => r[i].n < r[j].n
  <2> HIDE DEF q, r
  <2>1. ASSUME NEW i \in 1..Len(r)
        PROVE  /\ 1 <= r[i].n /\ r[i].n <= s.sent /\ q[1].n < r[i].n
               /\ s.at = "open" => r[i].generation = g
    <3>1. i + 1 \in 1..Len(q) /\ 1 \in 1..Len(q) /\ 1 < i + 1 /\ r[i] = q[i + 1]
      BY <1>1
    <3>2. 1 <= q[i + 1].n /\ q[i + 1].n <= s.sent /\ q[1].n < q[i + 1].n
      BY <1>2, <3>1
    <3>3. s.at = "open" => q[i + 1].generation = g
      BY <1>2, <3>1
    <3> QED BY <3>1, <3>2, <3>3
  <2>2. ASSUME NEW i \in 1..Len(r), NEW j \in 1..Len(r), i < j
        PROVE  r[i].n < r[j].n
    <3>1. /\ i + 1 \in 1..Len(q) /\ j + 1 \in 1..Len(q) /\ i + 1 < j + 1
          /\ r[i] = q[i + 1] /\ r[j] = q[j + 1]
      BY <1>1, <2>2
    <3> QED BY <1>2, <3>1
  <2> QED BY <2>1, <2>2
<1>6. \A i \in 1..Len(b) :
        /\ b[i] <= s.sent
        /\ \A j \in 1..Len(r) : b[i] < r[j].n
        /\ \A j \in 1..Len(b) : i < j => b[i] < b[j]
        /\ s.outOfStep # 0 => b[i] < s.outOfStep
  <2>1. CASE b = a
    <3> HIDE DEF a, b, q, r
    <3> QED BY <1>1, <1>2, <2>1
  <2>2. CASE b = Append(a, q[1].n) /\ s.at = "open"
    <3>1. /\ a \in Seq(Nat) /\ Len(a) \in Nat /\ \A i \in 1..Len(a) : a[i] \in Nat
          /\ s.sent \in Nat /\ s.outOfStep \in Nat
      BY SocketFields
    <3>2. /\ Len(b) = Len(a) + 1 /\ b[Len(a) + 1] = q[1].n
          /\ \A i \in 1..Len(a) : b[i] = a[i]
      BY <1>1, <2>2, <3>1, AppendProperties
    <3> HIDE DEF a, b, q, r
    <3>3. \A i \in 1..Len(b) : (i \in 1..Len(a) /\ b[i] = a[i]) \/ (i = Len(a) + 1 /\ b[i] = q[1].n)
      BY <3>1, <3>2
    <3>4. \A i \in 1..Len(a) : a[i] < q[1].n
      BY <1>1, <1>2
    <3>5. q[1].n <= s.sent /\ (s.outOfStep # 0 => q[1].n < s.outOfStep)
      BY <1>1, <1>2, <1>4, <2>2
    <3>6. \A i \in 1..Len(b) : b[i] <= s.sent /\ (s.outOfStep # 0 => b[i] < s.outOfStep)
      BY <1>2, <3>3, <3>5
    <3>7. \A i \in 1..Len(b) : \A j \in 1..Len(r) : b[i] < r[j].n
      BY <1>1, <1>2, <1>5, <3>3
    <3>8. \A i, j \in 1..Len(b) : i < j => b[i] < b[j]
      <4> TAKE i, j \in 1..Len(b)
      <4> HAVE i < j
      <4>1. i \in 1..Len(a) /\ b[i] = a[i]
        BY <3>1, <3>2
      <4>2. CASE j \in 1..Len(a) /\ b[j] = a[j]
        BY <1>2, <4>1, <4>2
      <4>3. CASE j = Len(a) + 1 /\ b[j] = q[1].n
        BY <3>4, <4>1, <4>3
      <4> QED BY <3>3, <4>2, <4>3
    <3> QED BY <3>6, <3>7, <3>8
  <2> QED BY <2>1, <2>2
<1> QED BY <1>0, <1>2, <1>3, <1>5, <1>6 DEF InLine

\* The first goes on to another stage; it is none out of step either.
LEMMA StagedInLine ==
  ASSUME NEW s \in Socket, NEW g, InLine(s, g), 1 \in DOMAIN s.queue, NEW job, NEW t,
         t.queue = ReplaceAt(s.queue, 1, job), job.n = s.queue[1].n,
         job.generation = s.queue[1].generation,
         t.at = s.at, t.sent = s.sent, t.outOfStep = s.outOfStep, t.answered = s.answered,
         s.queue[1].stage # "queued" \/ s.queue[1].request.frame # "fatal"
  PROVE  InLine(t, g)
<1> DEFINE q == s.queue  r == t.queue
<1>1. /\ DOMAIN q = 1..Len(q) /\ q \in Seq(Job) /\ Len(q) \in Nat /\ 1 <= Len(q)
  BY SocketFields
<1>2. r = [q EXCEPT ![1] = job] /\ Len(r) = Len(q)
  BY <1>1 DEF ReplaceAt
<1>3. r[1] = job /\ \A k \in 1..Len(q) : k # 1 => r[k] = q[k]
  BY <1>1, <1>2
<1>4. Len(r) = Len(q) /\ \A k \in 1..Len(q) : r[k].n = q[k].n /\ r[k].generation = q[k].generation
  BY <1>2, <1>3
<1>5. s.at = "absent" => Len(q) = 0
  BY EmptySeq DEF InLine, NewSocket
<1>6. ASSUME s.at = "open", s.outOfStep # 0
      PROVE  \E i \in 1..Len(r) : /\ r[i].n = s.outOfStep
                                  /\ r[i].stage = "queued"
                                  /\ r[i].request.frame = "fatal"
  <2>1. PICK i \in 1..Len(q) : /\ q[i].n = s.outOfStep
                               /\ q[i].stage = "queued"
                               /\ q[i].request.frame = "fatal"
    BY <1>6 DEF InLine
  <2>2. i # 1
    BY <2>1
  <2>3. i \in 1..Len(r) /\ r[i] = q[i]
    BY <1>3, <1>4, <2>2
  <2> QED BY <2>1, <2>3
<1>7. /\ \A i \in 1..Len(r) : 1 <= r[i].n /\ r[i].n <= s.sent
      /\ \A i, j \in 1..Len(r) : i < j => r[i].n < r[j].n
      /\ \A i \in 1..Len(s.answered) : \A j \in 1..Len(r) : s.answered[i] < r[j].n
      /\ s.at = "open" => \A i \in 1..Len(r) : r[i].generation = g
  <2>1. /\ \A i \in 1..Len(q) : 1 <= q[i].n /\ q[i].n <= s.sent
        /\ \A i, j \in 1..Len(q) : i < j => q[i].n < q[j].n
        /\ \A i \in 1..Len(s.answered) : \A j \in 1..Len(q) : s.answered[i] < q[j].n
        /\ s.at = "open" => \A i \in 1..Len(q) : q[i].generation = g
    BY DEF InLine
  <2> HIDE DEF q, r
  <2> QED BY <1>4, <2>1
<1>8. s.at # "absent"
  BY <1>1, <1>5
<1>9. /\ \A i \in 1..Len(s.answered) :
           /\ s.answered[i] <= s.sent
           /\ \A j \in 1..Len(s.answered) : i < j => s.answered[i] < s.answered[j]
           /\ s.outOfStep # 0 => s.answered[i] < s.outOfStep
      /\ s.outOfStep <= s.sent
  BY DEF InLine
<1> QED BY <1>6, <1>7, <1>8, <1>9 DEF InLine

\* A new one is the last, and the one out of step if it is the first of these.
LEMMA DataInLine ==
  ASSUME NEW s \in Socket, NEW g, InLine(s, g), s.at = "open", NEW job \in Job, NEW t,
         job.n = s.sent + 1, job.generation = g, job.stage = "queued",
         t.queue = Append(s.queue, job),
         t.at = s.at, t.sent = s.sent + 1, t.answered = s.answered,
         IF s.outOfStep = 0 /\ job.request.frame = "fatal"
         THEN t.outOfStep = s.sent + 1 ELSE t.outOfStep = s.outOfStep
  PROVE  InLine(t, g)
<1> DEFINE q == s.queue  r == t.queue  a == s.answered
<1>1. /\ q \in Seq(Job) /\ Len(q) \in Nat /\ a \in Seq(Nat) /\ Len(a) \in Nat
      /\ s.sent \in Nat /\ s.outOfStep \in Nat
      /\ \A i \in 1..Len(a) : a[i] \in Nat
      /\ \A i \in 1..Len(q) : q[i].n \in Nat
  BY SocketFields, JobFields
<1>2. /\ Len(r) = Len(q) + 1 /\ r[Len(q) + 1] = job
      /\ \A i \in 1..Len(q) : r[i] = q[i]
  BY <1>1, AppendProperties
<1>3. /\ \A i \in 1..Len(q) : 1 <= q[i].n /\ q[i].n <= s.sent /\ q[i].generation = g
      /\ \A i, j \in 1..Len(q) : i < j => q[i].n < q[j].n
      /\ \A i \in 1..Len(a) :
           /\ a[i] <= s.sent
           /\ \A j \in 1..Len(q) : a[i] < q[j].n
           /\ \A j \in 1..Len(a) : i < j => a[i] < a[j]
           /\ s.outOfStep # 0 => a[i] < s.outOfStep
      /\ s.outOfStep <= s.sent
      /\ s.outOfStep # 0 =>
           \E i \in 1..Len(q) : /\ q[i].n = s.outOfStep
                                /\ q[i].stage = "queued"
                                /\ q[i].request.frame = "fatal"
  BY DEF InLine
<1> HIDE DEF q, r, a
<1>4. \A i \in 1..Len(r) : (i \in 1..Len(q) /\ r[i] = q[i]) \/ (i = Len(q) + 1 /\ r[i] = job)
  BY <1>1, <1>2, OneMore
<1>5. \A i \in 1..Len(r) : 1 <= r[i].n /\ r[i].n <= s.sent + 1 /\ r[i].generation = g
  <2>1. ASSUME NEW i \in 1..Len(q)
        PROVE  1 <= q[i].n /\ q[i].n <= s.sent + 1 /\ q[i].generation = g
    BY <1>1, <1>3, OneMore
  <2>2. 1 <= job.n /\ job.n <= s.sent + 1 /\ job.generation = g
    BY <1>1
  <2> QED BY <1>4, <2>1, <2>2, Zenon
<1>6. ASSUME NEW i \in 1..Len(r), NEW j \in 1..Len(r), i < j
      PROVE  r[i].n < r[j].n
  <2>1. i \in 1..Len(q) /\ r[i] = q[i]
    BY <1>1, <1>2, <1>6
  <2>2. CASE j \in 1..Len(q) /\ r[j] = q[j]
    BY <1>3, <1>6, <2>1, <2>2
  <2>3. CASE r[j] = job
    BY <1>1, <1>3, <2>1, <2>3
  <2> QED BY <1>4, <2>2, <2>3
<1>7. /\ \A i \in 1..Len(a) :
           /\ a[i] <= s.sent + 1
           /\ \A j \in 1..Len(r) : a[i] < r[j].n
           /\ t.outOfStep # 0 => a[i] < t.outOfStep
      /\ t.outOfStep <= s.sent + 1
  <2>1. \A i \in 1..Len(a) : a[i] <= s.sent + 1 /\ a[i] < s.sent + 1
    BY <1>1, <1>3, OneMore
  <2>2. \A i \in 1..Len(a) : \A j \in 1..Len(r) : a[i] < r[j].n
    BY <1>3, <1>4, <2>1
  <2>3. /\ t.outOfStep = s.sent + 1 \/ t.outOfStep = s.outOfStep
    OBVIOUS
  <2>4. ASSUME NEW i \in 1..Len(a), t.outOfStep # 0 PROVE a[i] < t.outOfStep
    <3>1. CASE t.outOfStep = s.sent + 1
      BY <2>1, <3>1
    <3>2. CASE t.outOfStep = s.outOfStep
      BY <1>3, <2>4, <3>2
    <3> QED BY <2>3, <3>1, <3>2
  <2>5. t.outOfStep <= s.sent + 1
    BY <1>1, <1>3, <2>3
  <2> QED BY <2>1, <2>2, <2>4, <2>5
<1>8. ASSUME t.outOfStep # 0
      PROVE  \E i \in 1..Len(r) : /\ r[i].n = t.outOfStep
                                  /\ r[i].stage = "queued"
                                  /\ r[i].request.frame = "fatal"
  <2>1. CASE s.outOfStep = 0 /\ job.request.frame = "fatal"
    <3>1. Len(q) + 1 \in 1..Len(r)
      BY <1>1, <1>2
    <3> QED BY <1>2, <2>1, <3>1
  <2>2. CASE ~(s.outOfStep = 0 /\ job.request.frame = "fatal")
    <3>1. t.outOfStep = s.outOfStep
      BY <2>2
    <3>2. PICK i \in 1..Len(q) : /\ q[i].n = s.outOfStep
                                 /\ q[i].stage = "queued"
                                 /\ q[i].request.frame = "fatal"
      BY <1>3, <1>8, <3>1
    <3>3. i \in 1..Len(r) /\ r[i] = q[i]
      BY <1>1, <1>2
    <3> QED BY <3>1, <3>2, <3>3
  <2> QED BY <2>1, <2>2
<1> QED BY <1>3, <1>5, <1>6, <1>7, <1>8 DEF InLine, q, r, a

\* The first in the queue, if it is a request, has come before the one out of
\* step, and after those that have a reply.
LEMMA FirstInStep ==
  ASSUME NEW s \in Socket, NEW g, InLine(s, g), 1 \in DOMAIN s.queue, s.at = "open",
         s.queue[1].stage # "queued" \/ s.queue[1].request.frame # "fatal"
  PROVE  LET n == s.queue[1].n IN
         /\ 1 <= n /\ n <= s.sent
         /\ s.outOfStep # 0 => n < s.outOfStep
         /\ \A i \in 1..Len(s.answered) : s.answered[i] # n
<1> DEFINE q == s.queue
<1>1. /\ 1 \in 1..Len(q) /\ Len(q) \in Nat /\ q[1].n \in Nat
      /\ \A i \in 1..Len(s.answered) : s.answered[i] \in Nat
  BY SocketFields, JobFields
<1>2. 1 <= q[1].n /\ q[1].n <= s.sent
  BY <1>1 DEF InLine
<1>3. \A i \in 1..Len(s.answered) : s.answered[i] < q[1].n
  BY <1>1 DEF InLine
<1>4. ASSUME s.outOfStep # 0
      PROVE  q[1].n < s.outOfStep
  <2>1. PICK i \in 1..Len(q) : /\ q[i].n = s.outOfStep
                               /\ q[i].stage = "queued"
                               /\ q[i].request.frame = "fatal"
    BY <1>4 DEF InLine
  <2>2. 1 < i
    BY <1>1, <2>1
  <2>3. \A j, k \in 1..Len(q) : j < k => q[j].n < q[k].n
    BY DEF InLine
  <2> QED BY <1>1, <2>1, <2>2, <2>3
<1>5. \A i \in 1..Len(s.answered) : s.answered[i] # q[1].n
  BY <1>1, <1>3
<1> QED BY <1>2, <1>4, <1>5

\* How a connection may change and the purchase under way not notice.
Grows(s, t) ==
  /\ s.sent <= t.sent
  /\ t.outOfStep = s.outOfStep \/ t.outOfStep > s.sent
  /\ s.at \in {"destroyed", "closed"} => t.at \in {"destroyed", "closed"} /\ t.answered = s.answered

LEMMA SameGrows ==
  ASSUME NEW s \in Socket, NEW t, t.sent = s.sent, t.outOfStep = s.outOfStep,
         \/ s.at \in {"absent", "open"}
         \/ t.at \in {"destroyed", "closed"} /\ t.answered = s.answered
         \/ t.at = s.at /\ t.answered = s.answered
  PROVE  Grows(s, t)
<1>1. s.sent \in Nat
  BY SocketFields
<1> QED BY <1>1 DEF Grows

LEMMA AskedStays ==
  ASSUME SsiInv, sockets' \in [Peers -> Socket],
         \A p \in Peers : Grows(sockets[p], sockets'[p]),
         terminal'.active # Nothing =>
           /\ terminal.active # Nothing
           /\ terminal'.active.asked = terminal.active.asked
           /\ terminal'.generation = terminal.generation
           /\ "accepted" \in missed' => "accepted" \in missed
  PROVE  AskedInv'
<1> SUFFICES ASSUME terminal'.active # Nothing
             PROVE  Asked(terminal.active, terminal.generation, "accepted" \in missed)'
  BY DEF AskedInv
<1> DEFINE asked == terminal.active.asked
           s == sockets[asked.peer]
           t == sockets'[asked.peer]
<1>1. asked \in Asking
  BY TerminalFields, OperationFields DEF SsiInv, FileInv
<1>2. asked.peer \in Peers /\ asked.n \in Nat
  BY <1>1 DEF Asking
<1>3. s \in Socket /\ t \in Socket /\ Grows(s, t)
  BY <1>2 DEF SsiInv, LineInv
<1>4. /\ asked.generation = terminal.generation
      /\ 1 <= asked.n /\ asked.n <= s.sent
      /\ s.outOfStep # 0 => asked.n < s.outOfStep
      /\ "accepted" \in missed => /\ s.at \in {"destroyed", "closed"}
                                  /\ \A i \in 1..Len(s.answered) : s.answered[i] # asked.n
  BY DEF SsiInv, AskedInv, Asked
<1>5. terminal'.active.asked = asked
  OBVIOUS
<1> HIDE DEF asked, s, t
<1>6. 1 <= asked.n /\ asked.n <= t.sent /\ (t.outOfStep # 0 => asked.n < t.outOfStep)
  <2>1. s.sent \in Nat /\ t.sent \in Nat /\ s.outOfStep \in Nat /\ t.outOfStep \in Nat
    BY <1>3, SocketFields
  <2> QED BY <1>2, <1>3, <1>4, <2>1 DEF Grows
<1>7. "accepted" \in missed' => /\ t.at \in {"destroyed", "closed"}
                                /\ \A i \in 1..Len(t.answered) : t.answered[i] # asked.n
  BY <1>3, <1>4 DEF Grows
<1>8. sockets'[terminal'.active.asked.peer] = t
  BY <1>5 DEF t
<1> QED BY <1>4, <1>5, <1>6, <1>7, <1>8 DEF Asked

LEMMA PutKeeps ==
  ASSUME SsiInv, NEW p \in Peers, NEW s \in Socket, Put(p, s),
         InLine(s, terminal.generation), Grows(sockets[p], s),
         terminal'.generation = terminal.generation
  PROVE  /\ LineInv' /\ sockets'[p] = s
         /\ \A q \in Peers : Grows(sockets[q], sockets'[q])
<1>1. sockets \in [Peers -> Socket] /\ \A q \in Peers : InLine(sockets[q], terminal.generation)
  BY DEF SsiInv, LineInv
<1>2. sockets' = [sockets EXCEPT ![p] = s]
  BY DEF Put
<1>3. /\ sockets' \in [Peers -> Socket] /\ sockets'[p] = s
      /\ \A q \in Peers : q # p => sockets'[q] = sockets[q]
  BY <1>1, <1>2
<1>4. \A q \in Peers : InLine(sockets'[q], terminal'.generation)
  BY <1>1, <1>3
<1>5. \A q \in Peers : Grows(sockets[q], sockets'[q])
  BY <1>1, <1>3, SameGrows
<1> QED BY <1>3, <1>4, <1>5 DEF LineInv

\* The steps of a connection alone.
LEMMA ConnectionStep ==
  ASSUME SsiInv, NEW p \in Peers, NEW s \in Socket, Put(p, s),
         InLine(s, terminal.generation), Grows(sockets[p], s), UNCHANGED <<terminal, disk>>
  PROVE  SsiInv'
<1>1. terminal' = terminal /\ saved' = saved /\ missed' = missed
  BY DEF disk
<1>2. FileInv'
  BY <1>1 DEF SsiInv, FileInv, Numbered, Latest, Durable
<1>3. LineInv' /\ \A q \in Peers : Grows(sockets[q], sockets'[q])
  BY <1>1, PutKeeps
<1>4. AskedInv'
  BY <1>1, <1>3, AskedStays DEF LineInv
<1> QED BY <1>2, <1>3, <1>4 DEF SsiInv

\* What serving the first request leaves.
LEMMA ServedSocket ==
  ASSUME SsiInv, NEW p \in Peers, 1 \in DOMAIN sockets[p].queue
  PROVE  /\ sockets[p] \in Socket /\ sockets[p].queue[1] \in Job
         /\ Served(p, 1) \in Socket
         /\ Served(p, 1).queue = RemoveAt(sockets[p].queue, 1)
         /\ Served(p, 1).at = sockets[p].at /\ Served(p, 1).sent = sockets[p].sent
         /\ Served(p, 1).answered = sockets[p].answered
         /\ Served(p, 1).outOfStep = sockets[p].outOfStep
<1>1. sockets[p] \in Socket
  BY DEF SsiInv, LineInv
<1>2. sockets[p].queue \in Seq(Job) /\ sockets[p].queue[1] \in Job
  BY <1>1, SocketFields
<1>3. RemoveAt(sockets[p].queue, 1) \in Seq(Job)
  BY <1>2, Dequeue
<1> QED BY <1>1, <1>2, <1>3 DEF Served, Socket

LEMMA DestroyedSocket ==
  ASSUME SsiInv, NEW p \in Peers, 1 \in DOMAIN sockets[p].queue, sockets[p].at = "open"
  PROVE  /\ Destroyed(p, 1) \in Socket
         /\ Destroyed(p, 1).at = "destroyed" /\ Destroyed(p, 1).sent = sockets[p].sent
         /\ Destroyed(p, 1).answered = sockets[p].answered
         /\ Destroyed(p, 1).outOfStep = sockets[p].outOfStep
         /\ InLine(Destroyed(p, 1), terminal.generation)
         /\ Grows(sockets[p], Destroyed(p, 1))
<1>1. Served(p, 1) \in Socket
  BY ServedSocket
<1>2. /\ Destroyed(p, 1) \in Socket
      /\ Destroyed(p, 1).at = "destroyed"
      /\ Destroyed(p, 1).queue = Served(p, 1).queue /\ Destroyed(p, 1).sent = Served(p, 1).sent
      /\ Destroyed(p, 1).answered = Served(p, 1).answered
      /\ Destroyed(p, 1).outOfStep = Served(p, 1).outOfStep
  BY <1>1 DEF Destroyed, Socket
<1>3. Grows(sockets[p], Destroyed(p, 1))
  BY <1>2, ServedSocket, SameGrows
<1> DEFINE gone == [sockets[p] EXCEPT !.at = "destroyed"]
<1>4. /\ gone \in Socket /\ gone.at = "destroyed" /\ gone.queue = sockets[p].queue
      /\ gone.sent = sockets[p].sent /\ gone.answered = sockets[p].answered
      /\ gone.outOfStep = sockets[p].outOfStep
  <2>1. sockets[p] \in Socket
    BY ServedSocket
  <2> QED BY <2>1 DEF Socket
<1>5. InLine(sockets[p], terminal.generation)
  BY DEF SsiInv, LineInv
<1> HIDE DEF gone
<1>6. InLine(gone, terminal.generation)
  BY <1>4, <1>5, ServedSocket, EndedInLine
<1>7. InLine(Destroyed(p, 1), terminal.generation)
  BY <1>2, <1>4, <1>6, ServedSocket, ServedInLine
<1> QED BY <1>2, <1>3, <1>7, ServedSocket

LEMMA StagedSocket ==
  ASSUME SsiInv, NEW p \in Peers, 1 \in DOMAIN sockets[p].queue,
         NEW stage \in {"queued", "pausing", "writing"}, NEW left \in Int,
         sockets[p].queue[1].stage # "queued" \/ sockets[p].queue[1].request.frame # "fatal"
  PROVE  /\ Staged(p, 1, stage, left) \in Socket
         /\ Staged(p, 1, stage, left).at = sockets[p].at
         /\ Staged(p, 1, stage, left).sent = sockets[p].sent
         /\ Staged(p, 1, stage, left).answered = sockets[p].answered
         /\ Staged(p, 1, stage, left).outOfStep = sockets[p].outOfStep
         /\ InLine(Staged(p, 1, stage, left), terminal.generation)
         /\ Grows(sockets[p], Staged(p, 1, stage, left))
<1> DEFINE job == [sockets[p].queue[1] EXCEPT !.stage = stage, !.left = left]
           line == ReplaceAt(sockets[p].queue, 1, job)
<1>1. /\ sockets[p] \in Socket /\ sockets[p].queue[1] \in Job
      /\ sockets[p].queue \in Seq(Job) /\ InLine(sockets[p], terminal.generation)
  BY SocketFields, ServedSocket DEF SsiInv, LineInv
<1>2. /\ job \in Job /\ job.n = sockets[p].queue[1].n
      /\ job.generation = sockets[p].queue[1].generation
  BY <1>1 DEF Job
<1> HIDE DEF job
<1>3. line \in Seq(Job)
  BY <1>1, <1>2 DEF ReplaceAt
<1>4. Staged(p, 1, stage, left) = [sockets[p] EXCEPT !.queue = line]
  BY DEF Staged, job
<1> DEFINE s == [sockets[p] EXCEPT !.queue = line]
<1>5. s.queue = line
  BY <1>1 DEF Socket
<1> HIDE DEF line
<1>6. /\ s \in Socket /\ s.at = sockets[p].at /\ s.sent = sockets[p].sent
      /\ s.answered = sockets[p].answered /\ s.outOfStep = sockets[p].outOfStep
  BY <1>1, <1>3 DEF Socket
<1> HIDE DEF s
<1>7. InLine(s, terminal.generation)
  BY <1>1, <1>2, <1>5, <1>6, StagedInLine DEF line
<1>8. Grows(sockets[p], s)
  BY <1>1, <1>6, SameGrows
<1> QED BY <1>4, <1>6, <1>7, <1>8 DEF s

-----------------------------------------------------------------------------
\* The invariant is inductive: one lemma for each kind of step.

LEMMA NewIs ==
  /\ NewSocket \in Socket /\ NewSocket.queue = << >> /\ NewSocket.answered = << >>
  /\ NewSocket.sent = 0 /\ NewSocket.outOfStep = 0 /\ NewSocket.at = "absent"
  /\ Len(<< >>) = 0
  /\ \A result \in Outcome \cup {Nothing}, accepted \in Nat :
       LET t == NewTerminal(result, accepted) IN
       /\ t \in Terminal /\ t.generation = 1 /\ t.accepted = accepted
       /\ t.active = Nothing /\ t.last = result
<1>1. << >> \in Seq(Job) /\ << >> \in Seq(Nat) /\ Len(<< >>) = 0
  BY EmptySeq
<1>2. /\ NewSocket \in Socket /\ NewSocket.queue = << >> /\ NewSocket.answered = << >>
      /\ NewSocket.sent = 0 /\ NewSocket.outOfStep = 0 /\ NewSocket.at = "absent"
  BY <1>1 DEF NewSocket, Socket
<1>3. Default \in Scenario
  BY SsiAssumption
<1>4. \A result \in Outcome \cup {Nothing}, accepted \in Nat :
        LET t == NewTerminal(result, accepted) IN
        /\ t \in Terminal /\ t.generation = 1 /\ t.accepted = accepted
        /\ t.active = Nothing /\ t.last = result
  BY <1>3 DEF NewTerminal, Terminal
<1> QED BY <1>1, <1>2, <1>4

LEMMA EmptyInLine ==
  ASSUME NEW t, t.queue = << >>, t.answered = << >>, t.sent = 0, t.outOfStep = 0,
         t.at = "absent" => t = NewSocket, NEW g
  PROVE  InLine(t, g)
BY NewIs DEF InLine

LEMMA SsiInit == Init => SsiInv
<1> SUFFICES ASSUME Init PROVE SsiInv
  OBVIOUS
<1>1. /\ terminal \in Terminal /\ terminal.active = Nothing /\ terminal.last = Nothing
      /\ saved = Nothing /\ missed = {}
  BY NewIs DEF Init
<1>2. FileInv
  BY <1>1 DEF FileInv, Numbered, Latest, Durable
<1>3. /\ sockets \in [Peers -> Socket] /\ \A p \in Peers : sockets[p] = NewSocket
  BY NewIs DEF Init
<1>4. InLine(NewSocket, terminal.generation)
  BY NewIs, EmptyInLine
<1>5. LineInv
  BY <1>3, <1>4 DEF LineInv
<1>6. AskedInv
  BY <1>1 DEF AskedInv
<1> QED BY <1>2, <1>5, <1>6 DEF SsiInv

LEMMA PassStep ==
  ASSUME SsiInv, Pass
  PROVE  SsiInv'
<1>1. /\ terminal' = Passed(terminal) /\ saved' = saved /\ missed' = missed
      /\ sockets' = sockets
  BY DEF Pass, disk
<1>2. /\ terminal \in Terminal /\ terminal' \in Terminal
      /\ terminal'.generation = terminal.generation /\ terminal'.accepted = terminal.accepted
      /\ terminal'.last = terminal.last
      /\ (terminal'.active = Nothing) = (terminal.active = Nothing)
      /\ terminal.active # Nothing =>
           /\ terminal'.active.serial = terminal.active.serial
           /\ terminal'.active.asked = terminal.active.asked
  BY <1>1, PassedKeeps DEF SsiInv, FileInv
<1>3. FileInv'
  BY <1>1, <1>2 DEF SsiInv, FileInv, Numbered, Latest, Durable
<1>4. LineInv'
  BY <1>1, <1>2 DEF SsiInv, LineInv
<1>5. AskedInv'
  BY <1>1, <1>2 DEF SsiInv, AskedInv, Asked
<1> QED BY <1>3, <1>4, <1>5 DEF SsiInv

\* A call that leaves the connections alone and accepts no purchase.
LEMMA TerminalStep ==
  ASSUME SsiInv, NEW t, terminal' = t, UNCHANGED sockets, FileInv',
         (Rests(terminal, t) /\ missed' = missed) \/ Ends(terminal, t)
  PROVE  SsiInv'
<1>1. t.generation = terminal.generation
  BY DEF Rests, Ends
<1>2. LineInv'
  BY <1>1 DEF SsiInv, LineInv
<1>3. AskedInv'
  <2>1. CASE Ends(terminal, t)
    BY <2>1 DEF AskedInv, Ends
  <2>2. CASE Rests(terminal, t) /\ missed' = missed
    BY <2>2 DEF SsiInv, AskedInv, Asked, Rests
  <2> QED BY <2>1, <2>2
<1> QED BY <1>2, <1>3 DEF SsiInv

\* One that may end the purchase under way, whether the disk takes that or not.
LEMMA LookStep ==
  ASSUME SsiInv, NEW between \in Terminal, NEW t \in Terminal, UNCHANGED sockets,
         Rests(terminal, between), Rests(between, t) \/ Ends(between, t),
         \/ Becomes(t)
         \/ FailsAfter(between, t)
         \/ terminal' = between /\ UNCHANGED disk
  PROVE  SsiInv'
<1>1. FileInv /\ terminal \in Terminal
  BY DEF SsiInv, FileInv
<1>2. Rests(terminal, t) \/ Ends(terminal, t)
  BY DEF Rests, Ends
<1>3. CASE Becomes(t)
  BY <1>1, <1>2, <1>3, BecomesKeeps, TerminalStep
<1>4. CASE FailsAfter(between, t)
  <2>1. FileInv' /\ terminal' = t
    BY <1>1, <1>4, FailsKeeps
  <2>2. ~Rests(between, t)
    BY <1>4, EventsAre DEF FailsAfter
  <2>3. Ends(terminal, t)
    BY <2>2 DEF Rests, Ends
  <2> QED BY <2>1, <2>3, TerminalStep
<1>5. CASE terminal' = between /\ UNCHANGED disk
  <2>1. FileInv' /\ missed' = missed
    BY <1>1, <1>5, FileRests DEF disk
  <2> QED BY <1>5, <2>1, TerminalStep
<1> QED BY <1>3, <1>4, <1>5

LEMMA TickSteps ==
  ASSUME SsiInv, Ticks \/ TicksFail
  PROVE  SsiInv'
<1>1. terminal \in Terminal /\ Rests(terminal, terminal)
  BY DEF SsiInv, FileInv, Rests
<1>2. /\ Tick(terminal) \in Terminal
      /\ Rests(terminal, Tick(terminal)) \/ Ends(terminal, Tick(terminal))
  BY <1>1, TickDoes
<1>3. UNCHANGED sockets /\ (Becomes(Tick(terminal)) \/ FailsAfter(terminal, Tick(terminal)))
  BY DEF Ticks, TicksFail
<1> QED BY <1>1, <1>2, <1>3, LookStep

LEMMA ArmsStep ==
  ASSUME SsiInv, NEW scenario \in Scenarios, Arms(scenario)
  PROVE  SsiInv'
<1> DEFINE armed == Arm(terminal, scenario)
<1>1. terminal \in Terminal /\ scenario \in Scenario
  BY SsiAssumption DEF SsiInv, FileInv
<1>2. armed \in Terminal /\ Rests(terminal, armed)
  BY <1>1 DEF Arm, Terminal, Rests
<1>3. /\ UNCHANGED sockets
      /\ \/ Becomes(Tick(armed))
         \/ FailsAfter(armed, Tick(armed))
         \/ terminal' = armed /\ UNCHANGED disk
  BY DEF Arms
<1> HIDE DEF armed
<1>4. Tick(armed) \in Terminal /\ (Rests(armed, Tick(armed)) \/ Ends(armed, Tick(armed)))
  BY <1>2, TickDoes
<1> QED BY <1>2, <1>3, <1>4, LookStep

LEMMA ResetsStep ==
  ASSUME SsiInv, NEW preserve_result \in BOOLEAN, Resets(preserve_result)
  PROVE  SsiInv'
<1> DEFINE t == Reset(terminal, preserve_result)
<1>1. terminal \in Terminal /\ Rests(terminal, terminal) /\ FileInv
  BY DEF SsiInv, FileInv, Rests
<1>2. t \in Terminal /\ Cleared(terminal, t)
  <2> DEFINE last == IF preserve_result THEN terminal.last ELSE Nothing
  <2>1. Default \in Scenario
    BY SsiAssumption
  <2>2. last \in {terminal.last, Nothing}
    OBVIOUS
  <2>3. t = [terminal EXCEPT !.generation = terminal.generation + 1, !.armed = Default,
                             !.active = Nothing, !.last = last]
    BY DEF Reset
  <2> HIDE DEF last, t
  <2>4. last \in Outcome \cup {Nothing} /\ terminal.generation + 1 \in Nat
    BY <1>1, <2>2, TerminalFields
  <2> DEFINE generation == terminal.generation + 1
  <2> HIDE DEF generation
  <2>5. t = [terminal EXCEPT !.generation = generation, !.armed = Default,
                             !.active = Nothing, !.last = last]
    BY <2>3 DEF generation
  <2>6. generation \in Nat
    BY <2>4 DEF generation
  <2>7. /\ t \in Terminal /\ t.generation = generation /\ t.accepted = terminal.accepted
        /\ t.active = Nothing /\ t.last = last
    BY <1>1, <2>1, <2>4, <2>5, <2>6 DEF Terminal
  <2> QED BY <2>2, <2>7 DEF Cleared, generation
<1>3. Becomes(t) \/ FailsAfter(terminal, t)
  BY DEF Resets
<1>4. sockets' = [p \in Peers |-> IF sockets[p].at = "open"
                                  THEN [sockets[p] EXCEPT !.at = "destroyed"] ELSE sockets[p]]
  BY DEF Resets
<1> HIDE DEF t
<1>5. FileInv' /\ terminal' = t
  BY <1>1, <1>2, <1>3, BecomesKeeps, FailsKeeps
<1>6. AskedInv'
  BY <1>2, <1>5 DEF AskedInv, Cleared
<1>7. ASSUME NEW p \in Peers
      PROVE  sockets'[p] \in Socket /\ InLine(sockets'[p], terminal'.generation)
  <2>1. sockets[p] \in Socket /\ InLine(sockets[p], terminal.generation)
    BY DEF SsiInv, LineInv
  <2>2. CASE sockets[p].at = "open"
    <3> DEFINE s == [sockets[p] EXCEPT !.at = "destroyed"]
    <3>1. /\ s \in Socket /\ s.at = "destroyed" /\ s.queue = sockets[p].queue
          /\ s.sent = sockets[p].sent /\ s.answered = sockets[p].answered
          /\ s.outOfStep = sockets[p].outOfStep
      BY <2>1 DEF Socket
    <3>2. sockets'[p] = s
      BY <1>4, <2>2
    <3> HIDE DEF s
    <3> QED BY <2>1, <3>1, <3>2, EndedInLine
  <2>3. CASE sockets[p].at # "open"
    <3>1. sockets'[p] = sockets[p]
      BY <1>4, <2>3
    <3>2. InLine(sockets[p], terminal'.generation)
      BY <2>1, <2>3 DEF InLine
    <3> QED BY <2>1, <3>1, <3>2
  <2> QED BY <2>2, <2>3
<1>8. sockets' \in [Peers -> Socket]
  BY <1>4, <1>7
<1> QED BY <1>5, <1>6, <1>7, <1>8 DEF SsiInv, LineInv

LEMMA RestartStep ==
  ASSUME SsiInv, Restart
  PROVE  SsiInv'
<1> DEFINE t == NewTerminal(saved, terminal.accepted)
<1>1. FileInv /\ terminal \in Terminal /\ saved \in Outcome \cup {Nothing} /\ terminal.accepted \in Nat
  BY TerminalFields DEF SsiInv, FileInv
<1>2. /\ t \in Terminal /\ t.accepted = terminal.accepted
      /\ t.active = Nothing /\ t.last = saved
  BY <1>1, NewIs
<1>3. /\ terminal' = t /\ saved' = saved
      /\ missed' = {kind \in {"lost"} : missed \cap {"accepted", "lost"} # {}}
  BY DEF Restart
<1>4. sockets' = [p \in Peers |-> [sockets[p] EXCEPT
                     !.at = IF sockets[p].at = "absent" THEN "absent" ELSE "closed",
                     !.queue = << >>]]
  BY DEF Restart
<1> HIDE DEF t
<1>5. FileInv'
  BY <1>1, <1>2, <1>3 DEF FileInv, Numbered, Latest, Durable
<1>6. AskedInv'
  BY <1>2, <1>3 DEF AskedInv
<1>7. ASSUME NEW p \in Peers
      PROVE  sockets'[p] \in Socket /\ InLine(sockets'[p], terminal'.generation)
  <2>1. sockets[p] \in Socket /\ InLine(sockets[p], terminal.generation)
    BY DEF SsiInv, LineInv
  <2>2. << >> \in Seq(Job)
    BY EmptySeq
  <2> DEFINE at == IF sockets[p].at = "absent" THEN "absent" ELSE "closed"
             s == [sockets[p] EXCEPT !.at = at, !.queue = << >>]
  <2>3. at \in {"absent", "closed"} /\ (at = "absent") = (sockets[p].at = "absent")
    OBVIOUS
  <2>4. sockets'[p] = s
    BY <1>4
  <2> HIDE DEF at
  <2>5. /\ s \in Socket /\ s.at = at /\ s.queue = << >>
        /\ s.sent = sockets[p].sent /\ s.answered = sockets[p].answered
        /\ s.outOfStep = sockets[p].outOfStep
    BY <2>1, <2>2, <2>3 DEF Socket
  <2> HIDE DEF s
  <2>6. CASE sockets[p].at = "absent"
    <3>1. sockets[p] = NewSocket
      BY <2>1, <2>6 DEF InLine
    <3>2. s = NewSocket
      BY <2>3, <2>6, <3>1, NewIs DEF s, NewSocket
    <3> QED BY <2>4, <2>5, <3>2, NewIs, EmptyInLine
  <2>7. CASE sockets[p].at # "absent"
    <3>1. s.at \in {"destroyed", "closed"}
      BY <2>3, <2>5, <2>7
    <3> QED BY <2>1, <2>4, <2>5, <3>1, EndedInLine
  <2> QED BY <2>6, <2>7
<1>8. sockets' \in [Peers -> Socket]
  BY <1>4, <1>7
<1> QED BY <1>5, <1>6, <1>7, <1>8 DEF SsiInv, LineInv

LEMMA ConnectStep ==
  ASSUME SsiInv, NEW p \in Peers, Connect(p)
  PROVE  SsiInv'
<1> DEFINE s == [NewSocket EXCEPT !.at = "open"]
<1>1. /\ s \in Socket /\ s.at = "open" /\ s.queue = << >> /\ s.answered = << >>
      /\ s.sent = 0 /\ s.outOfStep = 0
  BY NewIs DEF Socket
<1>2. Put(p, s) /\ UNCHANGED <<terminal, disk>> /\ sockets[p].at = "absent"
  BY DEF Connect
<1> HIDE DEF s
<1>3. InLine(s, terminal.generation)
  BY <1>1, EmptyInLine
<1>4. sockets[p] \in Socket /\ sockets[p] = NewSocket
  BY <1>2 DEF SsiInv, LineInv, InLine
<1>5. Grows(sockets[p], s)
  BY <1>1, <1>4, NewIs, SameGrows
<1> QED BY <1>1, <1>2, <1>3, <1>5, ConnectionStep

LEMMA DataStep ==
  ASSUME SsiInv, NEW p \in Peers, NEW request \in Requests[p], Data(p, request)
  PROVE  SsiInv'
<1> DEFINE old == sockets[p]
           job == [n |-> old.sent + 1, stage |-> "queued", left |-> 0,
                   request |-> request, generation |-> terminal.generation]
           outOfStep == IF old.outOfStep = 0 /\ request.frame = "fatal"
                        THEN old.sent + 1 ELSE old.outOfStep
           line == Append(old.queue, job)
           s == [old EXCEPT !.sent = old.sent + 1, !.outOfStep = outOfStep, !.queue = line]
<1>1. /\ old \in Socket /\ InLine(old, terminal.generation) /\ old.sent \in Nat
      /\ old.outOfStep \in Nat /\ old.queue \in Seq(Job)
      /\ terminal.generation \in Nat /\ request \in Request
  BY SocketFields, TerminalFields, SsiServerAssumption DEF SsiInv, LineInv, FileInv
<1>2. old.at = "open" /\ Put(p, s) /\ UNCHANGED <<terminal, disk>>
  BY DEF Data
<1>3. /\ job \in Job /\ job.n = old.sent + 1 /\ job.generation = terminal.generation
      /\ job.stage = "queued" /\ job.request = request
  BY <1>1 DEF Job
<1>4. /\ outOfStep \in Nat
      /\ IF old.outOfStep = 0 /\ request.frame = "fatal"
         THEN outOfStep = old.sent + 1 ELSE outOfStep = old.outOfStep
  BY <1>1
<1> HIDE DEF job, outOfStep
<1>5. line \in Seq(Job)
  BY <1>1, <1>3, AppendProperties
<1>6. line = Append(old.queue, job)
  OBVIOUS
<1> HIDE DEF line, old
<1>7. /\ s \in Socket /\ s.queue = line /\ s.at = old.at /\ s.sent = old.sent + 1
      /\ s.answered = old.answered /\ s.outOfStep = outOfStep
  <2> DEFINE sent == old.sent + 1
  <2>1. sent \in Nat
    BY <1>1
  <2> HIDE DEF sent
  <2>2. s = [old EXCEPT !.sent = sent, !.outOfStep = outOfStep, !.queue = line]
    BY DEF sent
  <2> HIDE DEF s
  <2>3. /\ s \in Socket /\ s.queue = line /\ s.at = old.at /\ s.sent = sent
        /\ s.answered = old.answered /\ s.outOfStep = outOfStep
    BY <1>1, <1>4, <1>5, <2>1, <2>2 DEF Socket
  <2> QED BY <2>3 DEF sent
<1> HIDE DEF s
<1>8. InLine(s, terminal.generation)
  <2>1. IF old.outOfStep = 0 /\ job.request.frame = "fatal"
        THEN s.outOfStep = old.sent + 1 ELSE s.outOfStep = old.outOfStep
    BY <1>3, <1>4, <1>7
  <2> QED BY <1>1, <1>2, <1>3, <1>6, <1>7, <2>1, DataInLine
<1>9. Grows(old, s)
  <2>1. old.sent <= old.sent + 1 /\ old.sent + 1 > old.sent
    BY <1>1
  <2> QED BY <1>2, <1>4, <1>7, <2>1 DEF Grows
<1> QED BY <1>2, <1>7, <1>8, <1>9, ConnectionStep DEF old

LEMMA LooseSteps ==
  ASSUME SsiInv, NEW p \in Peers, Hang(p) \/ Closed(p)
  PROVE  SsiInv'
<1> DEFINE old == sockets[p]
           hung == [old EXCEPT !.at = "destroyed"]
           gone == [old EXCEPT !.at = "closed", !.queue = << >>]
<1>1. old \in Socket /\ InLine(old, terminal.generation) /\ << >> \in Seq(Job)
  BY EmptySeq DEF SsiInv, LineInv
<1>2. /\ UNCHANGED <<terminal, disk>>
      /\ Put(p, hung) \/ (Put(p, gone) /\ old.at = "destroyed")
  <2>1. CASE Hang(p)
    BY <2>1 DEF Hang
  <2>2. CASE Closed(p)
    BY <2>2 DEF Closed
  <2> QED BY <2>1, <2>2
<1> HIDE DEF old
<1>3. /\ hung \in Socket /\ hung.at = "destroyed" /\ hung.queue = old.queue
      /\ hung.sent = old.sent /\ hung.answered = old.answered /\ hung.outOfStep = old.outOfStep
      /\ gone \in Socket /\ gone.at = "closed" /\ gone.queue = << >>
      /\ gone.sent = old.sent /\ gone.answered = old.answered /\ gone.outOfStep = old.outOfStep
  BY <1>1 DEF Socket
<1> HIDE DEF hung, gone
<1>4. InLine(hung, terminal.generation) /\ InLine(gone, terminal.generation)
  BY <1>1, <1>3, EndedInLine
<1>5. Grows(old, hung) /\ Grows(old, gone)
  BY <1>1, <1>3, SameGrows
<1> QED BY <1>2, <1>3, <1>4, <1>5, ConnectionStep DEF old

LEMMA TurnIsFirst ==
  ASSUME NEW p, NEW i \in Turn(p)
  PROVE  i = 1 /\ 1 \in DOMAIN sockets[p].queue
BY DEF Turn

LEMMA PassedOverSteps ==
  ASSUME SsiInv, NEW p \in Peers, 1 \in DOMAIN sockets[p].queue, Skip(p, 1) \/ Fatal(p, 1)
  PROVE  SsiInv'
<1> DEFINE old == sockets[p]  job == sockets[p].queue[1]
<1>1. UNCHANGED <<terminal, disk>>
  BY DEF Skip, Fatal
<1>2. InLine(old, terminal.generation) /\ old \in Socket
  BY DEF SsiInv, LineInv
<1>3. CASE Skip(p, 1)
  <2>1. Put(p, Served(p, 1)) /\ ~Current(p, job)
    BY <1>3 DEF Skip
  <2>2. old.at # "open"
    <3>1. 1 \in 1..Len(old.queue)
      BY <1>2, SocketFields
    <3>2. old.at = "open" => job.generation = terminal.generation
      BY <1>2, <3>1 DEF InLine
    <3> QED BY <2>1, <3>2 DEF Current
  <2>3. InLine(Served(p, 1), terminal.generation)
    BY <1>2, <2>2, ServedSocket, ServedInLine
  <2>4. Grows(old, Served(p, 1))
    BY <1>2, ServedSocket, SameGrows
  <2> QED BY <1>1, <2>1, <2>3, <2>4, ServedSocket, ConnectionStep
<1>4. CASE Fatal(p, 1)
  <2>1. Put(p, Destroyed(p, 1)) /\ old.at = "open"
    BY <1>4 DEF Fatal, Current
  <2> QED BY <1>1, <2>1, DestroyedSocket, ConnectionStep
<1> QED BY <1>3, <1>4

LEMMA WritingSteps ==
  ASSUME SsiInv, NEW p \in Peers, 1 \in DOMAIN sockets[p].queue, Resume(p, 1) \/ Written(p, 1)
  PROVE  SsiInv'
<1> DEFINE old == sockets[p]  job == sockets[p].queue[1]
<1>1. UNCHANGED <<terminal, disk>> /\ job.stage # "queued"
  BY DEF Resume, Written
<1>2. InLine(old, terminal.generation) /\ old \in Socket /\ job \in Job
  BY ServedSocket DEF SsiInv, LineInv
<1>3. CASE Resume(p, 1)
  <2>1. Put(p, Staged(p, 1, "writing", job.left - 1))
    BY <1>3 DEF Resume
  <2>2. job.left - 1 \in Int
    BY <1>2, JobFields
  <2> QED BY <1>1, <2>1, <2>2, StagedSocket, ConnectionStep
<1>4. CASE Written(p, 1)
  <2> DEFINE rest == Served(p, 1)
             answered == Append(old.answered, job.n)
             s == [rest EXCEPT !.answered = answered]
  <2>1. old.at = "open" /\ Put(p, [rest EXCEPT !.answered = Append(rest.answered, job.n)])
    BY <1>4 DEF Written
  <2>2. rest.answered = old.answered /\ rest \in Socket
    BY ServedSocket
  <2>3. Put(p, s)
    BY <2>1, <2>2
  <2>4. answered \in Seq(Nat) /\ answered = Append(old.answered, job.n)
    BY <1>2, SocketFields, JobFields, AppendProperties
  <2> HIDE DEF rest, answered
  <2>5. /\ s \in Socket /\ s.answered = answered /\ s.queue = rest.queue /\ s.at = rest.at
        /\ s.sent = rest.sent /\ s.outOfStep = rest.outOfStep
    BY <2>2, <2>4 DEF Socket
  <2> HIDE DEF s
  <2>6. /\ s.queue = RemoveAt(old.queue, 1) /\ s.at = old.at /\ s.sent = old.sent
        /\ s.outOfStep = old.outOfStep
    BY <2>5, ServedSocket DEF rest
  <2>7. InLine(s, terminal.generation)
    BY <1>1, <1>2, <2>1, <2>4, <2>5, <2>6, ServedInLine
  <2>8. Grows(old, s)
    BY <1>2, <2>1, <2>6, SameGrows
  <2> QED BY <1>1, <2>3, <2>5, <2>7, <2>8, ConnectionStep
<1> QED BY <1>3, <1>4

\* A request that starts a purchase, whether its acceptance reaches the disk or
\* it ends the connection because that fails.
LEMMA HandledStep ==
  ASSUME SsiInv, FileInv', NEW p \in Peers, 1 \in DOMAIN sockets[p].queue, NEW t,
         terminal' = t, sockets[p].at = "open",
         sockets[p].queue[1].generation = terminal.generation,
         sockets[p].queue[1].stage # "queued" \/ sockets[p].queue[1].request.frame # "fatal",
         NEW s \in Socket, Put(p, s), InLine(s, terminal.generation),
         s.sent = sockets[p].sent, s.answered = sockets[p].answered,
         s.outOfStep = sockets[p].outOfStep,
         \/ Rests(terminal, t) /\ missed' = missed
         \/ Ends(terminal, t)
         \/ /\ Accepts(terminal, t, [peer |-> p, n |-> sockets[p].queue[1].n,
                                     generation |-> sockets[p].queue[1].generation])
            /\ "accepted" \notin missed' \/ s.at = "destroyed"
  PROVE  SsiInv'
<1> DEFINE old == sockets[p]  job == sockets[p].queue[1]
           asked == [peer |-> p, n |-> job.n, generation |-> job.generation]
<1>1. old \in Socket /\ InLine(old, terminal.generation)
  BY DEF SsiInv, LineInv
<1>2. t.generation = terminal.generation
  BY DEF Rests, Ends, Accepts
<1>3. Grows(old, s)
  BY <1>1, SameGrows
<1>4. LineInv' /\ sockets'[p] = s /\ \A q \in Peers : Grows(sockets[q], sockets'[q])
  BY <1>2, <1>3, PutKeeps
<1>5. CASE Rests(terminal, t) /\ missed' = missed
  <2>1. AskedInv'
    BY <1>4, <1>5, AskedStays DEF Rests, LineInv
  <2> QED BY <1>4, <2>1 DEF SsiInv
<1>6. CASE Ends(terminal, t)
  <2>1. AskedInv'
    BY <1>6 DEF Ends, AskedInv
  <2> QED BY <1>4, <2>1 DEF SsiInv
<1>7. CASE Accepts(terminal, t, asked) /\ ("accepted" \notin missed' \/ s.at = "destroyed")
  <2>1. t.active.asked = asked
    BY <1>7 DEF Accepts
  <2>2. /\ 1 <= job.n /\ job.n <= old.sent
        /\ old.outOfStep # 0 => job.n < old.outOfStep
        /\ \A i \in 1..Len(old.answered) : old.answered[i] # job.n
    BY <1>1, FirstInStep
  <2>3. asked.peer = p /\ asked.n = job.n /\ asked.generation = terminal.generation
    OBVIOUS
  <2> HIDE DEF asked, old, job
  <2>4. terminal'.active.asked = asked /\ sockets'[terminal'.active.asked.peer] = s
    BY <1>4, <2>1, <2>3
  <2>5. s.sent = old.sent /\ s.answered = old.answered /\ s.outOfStep = old.outOfStep
    BY DEF old
  <2>6. Asked(terminal.active, terminal.generation, "accepted" \in missed)'
    BY <1>2, <1>7, <2>2, <2>3, <2>4, <2>5 DEF Asked
  <2> QED BY <1>4, <2>6 DEF SsiInv, AskedInv
<1> QED BY <1>5, <1>6, <1>7

LEMMA ReplyScenarioIs ==
  ASSUME NEW t \in Terminal, NEW method
  PROVE  ReplyScenario(t, method) \in Scenario
BY TerminalFields, OperationFields, OutcomeFields DEF ReplyScenario

LEMMA BeginStep ==
  ASSUME SsiInv, NEW p \in Peers, 1 \in DOMAIN sockets[p].queue, Begin(p, 1)
  PROVE  SsiInv'
<1> DEFINE job    == sockets[p].queue[1]
           method == IF job.request.frame = "request" THEN job.request.method ELSE "Other"
           t      == Handled(p, job).terminal
           fragments == ReplyScenario(t, method).fragments
           asked  == [peer |-> p, n |-> job.n, generation |-> job.generation]
<1>1. /\ job.stage = "queued" /\ job.request.frame # "fatal" /\ Current(p, job)
      /\ Becomes(t)
  BY DEF Begin
<1>2. \/ Put(p, Served(p, 1))
      \/ Put(p, Destroyed(p, 1))
      \/ Put(p, Staged(p, 1, "pausing", fragments))
      \/ Put(p, Staged(p, 1, "writing", fragments - 1))
  BY DEF Begin
<1>3. sockets[p].at = "open" /\ job.generation = terminal.generation
  BY <1>1 DEF Current
<1>4. /\ terminal \in Terminal /\ FileInv /\ job \in Job
      /\ sockets[p] \in Socket /\ InLine(sockets[p], terminal.generation)
  BY ServedSocket DEF SsiInv, FileInv, LineInv
<1>5. t \in Terminal /\ (Rests(terminal, t) \/ Ends(terminal, t) \/ Accepts(terminal, t, asked))
  BY <1>4, HandledDoes
<1> HIDE DEF t, method
<1>6. fragments \in Int /\ fragments - 1 \in Int
  <2>1. ReplyScenario(t, method) \in Scenario
    BY <1>5, ReplyScenarioIs
  <2>2. fragments \in Int
    BY <2>1, ScenarioFields
  <2> HIDE DEF fragments
  <2> QED BY <2>2
<1>7. /\ FileInv' /\ terminal' = t
      /\ Rests(terminal, t) => missed' = missed
      /\ Accepts(terminal, t, asked) => "accepted" \notin missed'
  BY <1>1, <1>4, <1>5, BecomesKeeps
<1>8. PICK s \in Socket : /\ Put(p, s) /\ InLine(s, terminal.generation)
                          /\ s.sent = sockets[p].sent /\ s.answered = sockets[p].answered
                          /\ s.outOfStep = sockets[p].outOfStep
  <2> HIDE DEF fragments
  <2>1. CASE Put(p, Served(p, 1))
    <3>1. InLine(Served(p, 1), terminal.generation)
      BY <1>1, <1>4, ServedSocket, ServedInLine
    <3> QED BY <2>1, <3>1, ServedSocket
  <2>2. CASE Put(p, Destroyed(p, 1))
    BY <1>3, <2>2, DestroyedSocket
  <2>3. CASE Put(p, Staged(p, 1, "pausing", fragments))
    BY <1>1, <1>6, <2>3, StagedSocket
  <2>4. CASE Put(p, Staged(p, 1, "writing", fragments - 1))
    BY <1>1, <1>6, <2>4, StagedSocket
  <2> QED BY <1>2, <2>1, <2>2, <2>3, <2>4
<1> QED BY <1>1, <1>3, <1>5, <1>7, <1>8, HandledStep

LEMMA BeginFailsStep ==
  ASSUME SsiInv, NEW p \in Peers, 1 \in DOMAIN sockets[p].queue, BeginFails(p, 1)
  PROVE  SsiInv'
<1> DEFINE job   == sockets[p].queue[1]
           tick  == Tick(terminal)
           t     == Handled(p, job).terminal
           asked == [peer |-> p, n |-> job.n, generation |-> job.generation]
<1>1. /\ job.stage = "queued" /\ job.request.frame # "fatal" /\ Current(p, job)
      /\ FailsAfter(terminal, tick) \/ FailsAfter(tick, t)
      /\ Put(p, Destroyed(p, 1))
  BY DEF BeginFails
<1>2. sockets[p].at = "open" /\ job.generation = terminal.generation
  BY <1>1 DEF Current
<1>3. /\ terminal \in Terminal /\ FileInv /\ job \in Job /\ Rests(terminal, terminal)
  BY ServedSocket DEF SsiInv, FileInv, Rests
<1>4. tick \in Terminal /\ (Rests(terminal, tick) \/ Ends(terminal, tick))
  BY <1>3, TickDoes
<1>5. /\ t \in Terminal
      /\ \/ Rests(tick, t) \/ Ends(tick, t) \/ Accepts(tick, t, asked)
         \/ Ends(terminal, tick) /\ t = terminal
  BY <1>3, HandledDoes
<1> HIDE DEF t, tick, asked
<1>6. ~(FailsAfter(tick, t) /\ Ends(terminal, tick) /\ t = terminal)
  BY DEF FailsAfter, Events, Ends
<1>7. \E u : /\ FileInv' /\ terminal' = u
             /\ Ends(terminal, u) \/ Accepts(terminal, u, asked)
  <2>1. CASE FailsAfter(terminal, tick)
    <3>1. ~Rests(terminal, tick)
      BY <1>3, <1>4, <2>1, EventsAre DEF FailsAfter
    <3>2. FileInv' /\ terminal' = tick
      BY <1>3, <1>4, <2>1, FailsKeeps
    <3> QED BY <1>4, <3>1, <3>2
  <2>2. CASE FailsAfter(tick, t)
    <3>1. Rests(tick, t) \/ Ends(tick, t) \/ Accepts(tick, t, asked)
      BY <1>5, <1>6, <2>2
    <3>2. /\ FileInv' /\ terminal' = t
          /\ Ends(terminal, t) \/ Accepts(terminal, t, asked) \/ Cleared(terminal, t)
      BY <1>3, <1>4, <1>5, <2>2, <3>1, FailsKeeps
    <3>3. terminal.generation \in Nat /\ t.generation = terminal.generation
      BY <1>3, <1>4, <3>1, TerminalFields DEF Rests, Ends, Accepts
    <3>4. ~Cleared(terminal, t)
      BY <3>3 DEF Cleared
    <3> QED BY <3>2, <3>4
  <2> QED BY <1>1, <2>1, <2>2
<1>8. /\ Destroyed(p, 1) \in Socket
      /\ Destroyed(p, 1).at = "destroyed" /\ Destroyed(p, 1).sent = sockets[p].sent
      /\ Destroyed(p, 1).answered = sockets[p].answered
      /\ Destroyed(p, 1).outOfStep = sockets[p].outOfStep
      /\ InLine(Destroyed(p, 1), terminal.generation)
  BY <1>2, DestroyedSocket
<1> QED BY <1>1, <1>2, <1>7, <1>8, HandledStep DEF asked

-----------------------------------------------------------------------------

LEMMA SsiStep == SsiInv /\ [Next]_ssiVars => SsiInv'
<1> SUFFICES ASSUME SsiInv, [Next]_ssiVars
             PROVE  SsiInv'
  OBVIOUS
<1>1. CASE UNCHANGED ssiVars
  BY <1>1 DEF ssiVars, disk, SsiInv, FileInv, Numbered, Latest, Durable, LineInv, AskedInv, Asked
<1>2. CASE Pass
  BY <1>2, PassStep
<1>3. CASE Ticks \/ TicksFail
  BY <1>3, TickSteps
<1>4. ASSUME NEW p \in Peers,
             \/ Connect(p)
             \/ \E request \in Requests[p] : Data(p, request)
             \/ Serving(p)
             \/ Hang(p)
             \/ Closed(p)
      PROVE  SsiInv'
  <2>1. CASE Connect(p)
    BY <2>1, ConnectStep
  <2>2. CASE \E request \in Requests[p] : Data(p, request)
    BY <2>2, DataStep
  <2>3. CASE Serving(p)
    <3>1. PICK i \in Turn(p) : \/ Skip(p, i) \/ Fatal(p, i) \/ Begin(p, i) \/ BeginFails(p, i)
                               \/ Resume(p, i) \/ Written(p, i)
      BY <2>3 DEF Serving
    <3>2. i = 1 /\ 1 \in DOMAIN sockets[p].queue
      BY TurnIsFirst
    <3>3. \/ Skip(p, 1) \/ Fatal(p, 1) \/ Begin(p, 1) \/ BeginFails(p, 1)
          \/ Resume(p, 1) \/ Written(p, 1)
      BY <3>1, <3>2
    <3> QED BY <3>2, <3>3, PassedOverSteps, BeginStep, BeginFailsStep, WritingSteps
  <2>4. CASE Hang(p) \/ Closed(p)
    BY <2>4, LooseSteps
  <2> QED BY <1>4, <2>1, <2>2, <2>3, <2>4
<1>5. ASSUME NEW scenario \in Scenarios, Arms(scenario)
      PROVE  SsiInv'
  BY <1>5, ArmsStep
<1>6. ASSUME NEW preserve_result \in BOOLEAN, Resets(preserve_result)
      PROVE  SsiInv'
  BY <1>6, ResetsStep
<1>7. CASE Restart
  BY <1>7, RestartStep
<1> QED BY <1>1, <1>2, <1>3, <1>4, <1>5, <1>6, <1>7 DEF Next

-----------------------------------------------------------------------------
\* The theorems.

\* The terminal, the file and the connections keep to the inductive invariant,
\* whatever the clients send, the disk refuses and the process ends in.
THEOREM SsiInvariance == Spec => []SsiInv
<1>1. Init => SsiInv
  BY SsiInit
<1>2. SsiInv /\ [Next]_ssiVars => SsiInv'
  BY SsiStep
<1> QED BY <1>1, <1>2, PTL DEF Spec

\* The result that the terminal gives, after any restarts and failures of the
\* disk, is that of the purchase accepted last, unless its acceptance was refused
\* by the disk; and the client of such a purchase has got no reply to it.
THEOREM ResultIsLatest == Spec => []LatestResult
<1>1. SsiInv => LatestResult
  <2> SUFFICES ASSUME SsiInv PROVE LatestResult
    OBVIOUS
  <2>1. /\ terminal.last # Nothing => terminal.active = Nothing
        /\ terminal.last # Nothing => terminal.last.serial = terminal.accepted \/ "lost" \in missed
        /\ saved # Nothing => \/ saved.serial = terminal.accepted /\ terminal.active = Nothing
                              \/ "lost" \in missed
                              \/ "accepted" \in missed /\ saved.serial < terminal.accepted
        /\ terminal.accepted \in Nat
    BY SerialsAreNumbers DEF SsiInv, FileInv, Numbered, Latest
  <2>2. ASSUME NEW result \in {terminal.last, saved} \ {Nothing}
        PROVE  \/ result.serial = terminal.accepted /\ terminal.active = Nothing
               \/ "lost" \in missed
               \/ "accepted" \in missed /\ result # terminal.last
    BY <2>1
  <2>3. terminal.active # Nothing /\ "accepted" \in missed =>
          LET asked == terminal.active.asked IN ~Contains(sockets[asked.peer].answered, asked.n)
    BY DEF SsiInv, AskedInv, Asked, Contains
  <2> QED BY <2>2, <2>3 DEF LatestResult
<1> QED BY <1>1, SsiInvariance, PTL

\* Every result is on disk before anybody can be told of it, and what a failure
\* of the disk has kept from the file is made good by the next event.
THEOREM ResultIsDurable == Spec => []Durable
<1>1. SsiInv => Durable
  BY DEF SsiInv, FileInv
<1> QED BY <1>1, SsiInvariance, PTL

\* No purchase is started by a request of before a reset or a restart, nor by one
\* that follows a frame out of step on its connection.
THEOREM PurchasesStartInStep == Spec => []StartsInStep
<1>1. SsiInv => StartsInStep
  BY DEF SsiInv, AskedInv, Asked, StartsInStep
<1> QED BY <1>1, SsiInvariance, PTL

\* Replies keep the order of the requests on every connection, and none answers a
\* frame out of step or one after it.
THEOREM RepliesInOrder == Spec => []InOrder
<1>1. SsiInv => InOrder
  <2> SUFFICES ASSUME SsiInv, NEW p \in Peers
               PROVE  LET answered == sockets[p].answered IN
                      /\ \A i, j \in DOMAIN answered : i < j => answered[i] < answered[j]
                      /\ sockets[p].outOfStep # 0 =>
                           \A i \in DOMAIN answered : answered[i] < sockets[p].outOfStep
    BY DEF InOrder
  <2>1. sockets[p] \in Socket /\ InLine(sockets[p], terminal.generation)
    BY DEF SsiInv, LineInv
  <2>2. DOMAIN sockets[p].answered = 1..Len(sockets[p].answered)
    BY <2>1, SocketFields, LenProperties
  <2> QED BY <2>1, <2>2 DEF InLine
<1> QED BY <1>1, SsiInvariance, PTL
-----------------------------------------------------------------------------
\* How purchases end: the phases' lengths.

Phase == [status : PhaseStatus, ms : Nat]

\* What holds of a number holds of a least one.
LEMMA Least ==
  ASSUME NEW S \in SUBSET Nat, NEW n \in S
  PROVE  \E m \in S : \A k \in S : m <= k
<1> DEFINE R == StrictSubsetOrdering(1..n)
           T == {1..m : m \in {k \in S : k <= n}}
<1>1. IsWellFoundedOn(R, FiniteSubsetsOf(1..n))
  BY FS_StrictSubsetOrderingWellFounded
<1>2. T \subseteq FiniteSubsetsOf(1..n) /\ T # {}
  <2>1. \A m \in Nat : IsFiniteSet(1..m)
    BY FS_Interval
  <2> QED
    BY <2>1 DEF FiniteSubsetsOf
<1> HIDE DEF R
<1>3. PICK x \in T : \A y \in T : ~ (<<y, x>> \in R)
  <2> HIDE DEF T
  <2> QED
    BY <1>1, <1>2, WFMin
<1>4. PICK m \in S : m <= n /\ x = 1..m
  BY <1>3
<1>5. ASSUME NEW k \in S, k < m PROVE FALSE
  <2>1. 1..k \in T /\ 1..k \subseteq 1..m /\ 1..m \subseteq 1..n /\ 1..k # 1..m
    <3>1. k \in Nat /\ m \in Nat /\ n \in Nat
      OBVIOUS
    <3>2. m \in 1..m /\ m \notin 1..k
      BY <1>5, <3>1
    <3>3. 1..k \subseteq 1..m /\ 1..m \subseteq 1..n
      BY <1>4, <1>5, <3>1
    <3>4. 1..k \in T
      BY <1>4, <1>5, <3>1
    <3> HIDE DEF T
    <3> QED
      BY <3>2, <3>3, <3>4
  <2>2. <<1..k, 1..m>> \in R
    BY <2>1 DEF R, StrictSubsetOrdering
  <2> QED
    BY <1>3, <1>4, <2>1, <2>2
<1> QED
  BY <1>5

\* A sequence of phases has a length, which its definition by recursion does not
\* say: by the least number of phases that had none.
LEMMA LengthIs ==
  ASSUME NEW phases \in Seq(Phase)
  PROVE  Length(phases) \in Nat /\ (Len(phases) = 0 => Length(phases) = 0)
<1> DEFINE n       == Len(phases)
           ms(k)   == phases[k].ms
           G(f, m) == f = [k \in 0 .. m |-> IF k = 0 THEN 0 ELSE f[k - 1] + ms(k)]
           Good(m) == \E f \in [0 .. m -> Nat] : G(f, m)
<1>1. n \in Nat /\ \A k \in 1 .. n : ms(k) \in Nat
  <2>1. \A k \in 1 .. n : phases[k] \in Phase
    BY ElementOfSeq
  <2>2. \A phase \in Phase : phase.ms \in Nat
    BY DEF Phase
  <2> QED
    BY <2>1, <2>2
<1> HIDE DEF ms
<1>2. ASSUME NEW m \in 0 .. n, ~Good(m) PROVE FALSE
  <2> DEFINE Bad == {k \in 0 .. n : ~Good(k)}
  <2>1. Bad \in SUBSET Nat /\ m \in Bad
    BY <1>1, <1>2
  <2> HIDE DEF Bad
  <2>2. PICK l \in Bad : \A k \in Bad : l <= k
    BY <2>1, Least
  <2>3. l \in 0 .. n /\ l \in Nat /\ ~Good(l)
    BY <2>2 DEF Bad
  <2>4. CASE l = 0
    <3> DEFINE f == [k \in 0 .. 0 |-> 0]
    <3>1. f \in [0 .. 0 -> Nat] /\ G(f, 0)
      OBVIOUS
    <3> QED
      BY <2>3, <2>4, <3>1
  <2>5. CASE l # 0
    <3>1. l - 1 \in 0 .. n /\ l \in 1 .. n /\ l - 1 \in Nat
      BY <1>1, <2>3, <2>5
    <3>2. Good(l - 1)
      <4>1. ~(l <= l - 1)
        BY <2>3
      <4>2. l - 1 \notin Bad
        BY <2>2, <4>1
      <4> QED
        BY <3>1, <4>2 DEF Bad
    <3>3. PICK g \in [0 .. l - 1 -> Nat] : G(g, l - 1)
      BY <3>2
    <3> DEFINE f == [k \in 0 .. l |-> IF k = l THEN g[l - 1] + ms(l) ELSE g[k]]
    <3>4. \A k \in 0 .. l : k = l \/ k \in 0 .. l - 1
      BY <2>3
    <3>5. f \in [0 .. l -> Nat]
      BY <1>1, <3>1, <3>3, <3>4
    <3>6. ASSUME NEW k \in 0 .. l PROVE f[k] = IF k = 0 THEN 0 ELSE f[k - 1] + ms(k)
      <4>1. CASE k = l
        <5>1. k # 0 /\ f[k] = g[l - 1] + ms(l)
          BY <2>5, <4>1
        <5>2. l - 1 \in 0 .. l /\ l - 1 # l
          BY <3>1, <2>3
        <5>3. f[l - 1] = g[l - 1]
          BY <5>2
        <5> QED
          BY <4>1, <5>1, <5>3
      <4>2. CASE k # l
        <5>1. k \in 0 .. l - 1
          BY <3>4, <4>2
        <5>2. f[k] = g[k] /\ g[k] = IF k = 0 THEN 0 ELSE g[k - 1] + ms(k)
          BY <3>3, <4>2, <5>1
        <5>3. k # 0 => k - 1 \in 0 .. l /\ k - 1 # l
          BY <2>3, <5>1
        <5>4. k # 0 => f[k - 1] = g[k - 1]
          BY <5>3
        <5> QED
          BY <5>2, <5>4
      <4> QED
        BY <4>1, <4>2
    <3>7. f = [k \in 0 .. l |-> f[k]]
      BY <3>5
    <3> HIDE DEF f
    <3>8. [k \in 0 .. l |-> f[k]] = [k \in 0 .. l |-> IF k = 0 THEN 0 ELSE f[k - 1] + ms(k)]
      BY <3>6
    <3>9. G(f, l)
      BY <3>7, <3>8
    <3> QED
      BY <2>3, <3>5, <3>9
  <2> QED
    BY <2>4, <2>5
<1> DEFINE end == CHOOSE f : G(f, n)
<1>3. G(end, n)
  <2>1. n \in 0 .. n
    BY <1>1
  <2>2. \E f : G(f, n)
    BY <1>2, <2>1
  <2> QED
    BY <2>2, Zenon
<1>4. Length(phases) = end[n]
  BY Zenon DEF Length, ms
<1> HIDE DEF end
<1>5. \A k \in 0 .. n : end[k] = IF k = 0 THEN 0 ELSE end[k - 1] + ms(k)
  BY <1>3
<1>6. ASSUME NEW m \in 0 .. n, end[m] \notin Nat PROVE FALSE
  <2> DEFINE Bad == {k \in 0 .. n : end[k] \notin Nat}
  <2>1. Bad \in SUBSET Nat /\ m \in Bad
    BY <1>1, <1>6
  <2> HIDE DEF Bad
  <2>2. PICK l \in Bad : \A k \in Bad : l <= k
    BY <2>1, Least
  <2>3. l \in 0 .. n /\ l \in Nat /\ end[l] \notin Nat
    BY <2>2 DEF Bad
  <2>4. l # 0
    BY <1>5, <2>3
  <2>5. l - 1 \in 0 .. n /\ l \in 1 .. n /\ ~(l <= l - 1)
    BY <1>1, <2>3, <2>4
  <2>6. end[l - 1] \in Nat
    BY <2>2, <2>5 DEF Bad
  <2>7. end[l] = end[l - 1] + ms(l)
    BY <1>5, <2>3, <2>4
  <2> QED
    BY <1>1, <2>3, <2>5, <2>6, <2>7
<1>7. n \in 0 .. n /\ 0 \in 0 .. n
  BY <1>1
<1> QED
  BY <1>4, <1>5, <1>6, <1>7

\* The phase after so long, or that all are over.
LEMMA PhaseIs ==
  ASSUME NEW phases \in Seq(Phase), NEW elapsed \in Nat
  PROVE  /\ PhaseAt(phases, elapsed) = "S00" => elapsed >= Length(phases)
         /\ PhaseAt(phases, elapsed) # "S00" =>
              \E k \in DOMAIN phases :
                /\ phases[k].status = PhaseAt(phases, elapsed)
                /\ Length(SubSeq(phases, 1, k - 1)) <= elapsed
                /\ elapsed < Length(SubSeq(phases, 1, k))
<1> DEFINE Upto(k) == Length(SubSeq(phases, 1, k))
           current == {k \in DOMAIN phases : elapsed < Upto(k)}
<1>1. DOMAIN phases = 1 .. Len(phases) /\ Len(phases) \in Nat
  OBVIOUS
<1>2. /\ \A k \in 0 .. Len(phases) : Upto(k) \in Nat
      /\ Upto(0) = 0
      /\ Upto(Len(phases)) = Length(phases)
  <2>1. ASSUME NEW k \in 0 .. Len(phases)
        PROVE  SubSeq(phases, 1, k) \in Seq(Phase) /\ Len(SubSeq(phases, 1, k)) = k
    BY <1>1, <2>1, SubSeqProperties
  <2>2. \A k \in 0 .. Len(phases) : Upto(k) \in Nat
    BY <2>1, LengthIs
  <2>3. 0 \in 0 .. Len(phases)
    BY <1>1
  <2>4. Upto(0) = 0
    BY <2>1, <2>3, LengthIs
  <2>5. SubSeq(phases, 1, Len(phases)) = phases
    OBVIOUS
  <2> QED
    BY <2>2, <2>4, <2>5
<1> HIDE DEF Upto
<1>3. ASSUME NEW k \in DOMAIN phases PROVE phases[k].status # "S00"
  <2>1. phases[k] \in Phase
    BY <1>1, ElementOfSeq
  <2>2. phases[k].status \in PhaseStatus
    BY <2>1 DEF Phase
  <2> QED
    BY <2>2 DEF PhaseStatus
<1>4. CASE current = {}
  <2>1. PhaseAt(phases, elapsed) = "S00"
    BY <1>4 DEF PhaseAt, Upto
  <2>2. elapsed >= Length(phases)
    <3>1. CASE Len(phases) = 0
      BY <1>2, <3>1
    <3>2. CASE Len(phases) # 0
      <4>1. Len(phases) \in DOMAIN phases /\ Len(phases) \in 0 .. Len(phases)
        BY <1>1, <3>2
      <4>2. ~(elapsed < Upto(Len(phases)))
        BY <1>4, <4>1
      <4> QED
        BY <1>2, <4>1, <4>2
    <3> QED
      BY <3>1, <3>2
  <2> QED
    BY <2>1, <2>2
<1>5. CASE current # {}
  <2> DEFINE first == CHOOSE k \in current : \A j \in current : k <= j
  <2>1. current \in SUBSET Nat
    BY <1>1
  <2> HIDE DEF current
  <2>2. first \in current /\ \A j \in current : first <= j
    <3>1. \E k \in current : \A j \in current : k <= j
      BY <1>5, <2>1, Least
    <3> QED
      BY <3>1, Zenon
  <2>3. PhaseAt(phases, elapsed) = phases[first].status
    BY <1>5, Zenon DEF PhaseAt, Upto, current
  <2> HIDE DEF first
  <2>4. first \in DOMAIN phases /\ elapsed < Upto(first)
    BY <2>2 DEF current
  <2>5. first - 1 \in 0 .. Len(phases)
    BY <1>1, <2>4
  <2>6. Upto(first - 1) <= elapsed
    <3>1. CASE first = 1
      BY <1>2, <3>1
    <3>2. CASE first # 1
      <4>1. first - 1 \in DOMAIN phases /\ ~(first <= first - 1)
        BY <1>1, <2>4, <3>2
      <4>2. ~(elapsed < Upto(first - 1))
        BY <2>2, <4>1 DEF current
      <4> QED
        BY <1>2, <2>5, <4>2
    <3> QED
      BY <3>1, <3>2
  <2> QED
    BY <1>3, <2>3, <2>4, <2>6 DEF Upto
<1> QED
  BY <1>4, <1>5
\* What EndsAsScripted says of the terminal's result, of any result.
Scripted(result) ==
  LET phases == result.scenario.phases IN
  \/ result.ended >= Length(phases) /\ result.code = result.scenario.error
  \/ /\ result.code = "E12"
     /\ \E k \in DOMAIN phases :
          /\ phases[k].status \in Interruptible
          /\ Length(SubSeq(phases, 1, k - 1)) <= result.ended
          /\ result.ended < Length(SubSeq(phases, 1, k))

\* Of a terminal, or the file: what it has for the last result.
Holds(result) == result # Nothing => Scripted(result)

LEMMA CompleteScripted ==
  ASSUME NEW t \in Terminal, t.active # Nothing, NEW code,
         \/ Status(t) = "S00" /\ code = t.active.scenario.error
         \/ Status(t) \in Interruptible /\ code = "E12"
  PROVE  Scripted(Complete(t, code).last)
<1> DEFINE active == t.active
           phases == t.active.scenario.phases
           r == [serial |-> t.active.serial, uid |-> t.active.uid, code |-> code,
                 scenario |-> t.active.scenario, ended |-> t.active.elapsed]
<1>1. active.elapsed \in Nat /\ phases \in Seq(Phase)
  <2>1. active.elapsed \in Nat /\ active.scenario \in Scenario
    BY TerminalFields, OperationFields
  <2> QED
    BY <2>1 DEF Scenario, Phase
<1>2. Status(t) = PhaseAt(phases, active.elapsed)
  BY DEF Status
<1>3. r.code = code /\ r.scenario = active.scenario /\ r.ended = active.elapsed
  OBVIOUS
<1>4. Complete(t, code).last = r
  <2>1. Complete(t, code) = [t EXCEPT !.active = Nothing, !.last = r]
    BY DEF Complete
  <2> HIDE DEF r
  <2> QED
    BY <2>1 DEF Terminal
<1> HIDE DEF r, active, phases
<1>5. r.scenario.phases = phases /\ r.scenario.error = t.active.scenario.error
  BY <1>3 DEF phases, active
<1>6. CASE Status(t) = "S00" /\ code = t.active.scenario.error
  <2>1. r.ended >= Length(phases) /\ r.code = r.scenario.error
    BY <1>1, <1>2, <1>3, <1>5, <1>6, PhaseIs
  <2> QED
    BY <1>4, <1>5, <2>1 DEF Scripted
<1>7. CASE Status(t) \in Interruptible /\ code = "E12"
  <2>1. PhaseAt(phases, active.elapsed) # "S00"
    BY <1>2, <1>7 DEF Interruptible
  <2>2. \E k \in DOMAIN phases :
          /\ phases[k].status = Status(t)
          /\ Length(SubSeq(phases, 1, k - 1)) <= r.ended
          /\ r.ended < Length(SubSeq(phases, 1, k))
    BY <1>1, <1>2, <1>3, <2>1, PhaseIs
  <2> QED
    BY <1>3, <1>4, <1>5, <1>7, <2>2 DEF Scripted
<1> QED
  BY <1>6, <1>7

LEMMA TickScripted ==
  ASSUME NEW t \in Terminal, Holds(t.last)
  PROVE  Holds(Tick(t).last)
<1>1. CASE t.active # Nothing /\ Status(t) = "S00"
  <2>1. Tick(t) = Complete(t, t.active.scenario.error)
    BY <1>1 DEF Tick
  <2> QED
    BY <1>1, <2>1, CompleteScripted DEF Holds
<1>2. CASE ~(t.active # Nothing /\ Status(t) = "S00")
  BY <1>2 DEF Tick
<1> QED
  BY <1>1, <1>2

LEMMA HandleScripted ==
  ASSUME NEW t \in Terminal, Holds(t.last), NEW request,
         request.uid \in Uids, request.asked \in Asking
  PROVE  Holds(Handle(t, request).terminal.last)
<1>1. \/ Handle(t, request).terminal = t
      \/ Handle(t, request) = Interrupt(t)
      \/ Handle(t, request) = GetLastResult(t)
      \/ Handle(t, request) = GetResultByUid(t, request.uid)
      \/ Handle(t, request) = Purchase(t, request)
  BY GivesTerminal DEF Handle
<1>2. GetLastResult(t).terminal = t /\ GetResultByUid(t, request.uid).terminal = t
  BY GivesTerminal DEF GetLastResult, GetResultByUid
<1>3. Holds(Interrupt(t).terminal.last)
  <2>1. CASE Status(t) \in Interruptible
    <3>1. t.active # Nothing
      BY <2>1, IdleStatus DEF Interruptible
    <3>2. Interrupt(t).terminal = Complete(t, "E12")
      BY <2>1, GivesTerminal DEF Interrupt
    <3> QED
      BY <2>1, <3>1, <3>2, CompleteScripted DEF Holds
  <2>2. CASE Status(t) \notin Interruptible
    BY <2>2, GivesTerminal DEF Interrupt
  <2> QED
    BY <2>1, <2>2
<1>4. Holds(Purchase(t, request).terminal.last)
  <2>1. \/ Rests(t, Purchase(t, request).terminal)
        \/ Accepts(t, Purchase(t, request).terminal, request.asked)
    BY PurchaseDoes
  <2>2. Purchase(t, request).terminal.last \in {t.last, Nothing}
    BY <2>1 DEF Rests, Accepts
  <2> QED
    BY <2>2 DEF Holds
<1> QED
  BY <1>1, <1>2, <1>3, <1>4

LEMMA HandledScripted ==
  ASSUME terminal \in Terminal, Holds(terminal.last), NEW p \in Peers, NEW job \in Job
  PROVE  Holds(Handled(p, job).terminal.last)
<1> DEFINE asked   == [peer |-> p, n |-> job.n, generation |-> job.generation]
           request == [method |-> job.request.method, uid |-> job.request.uid,
                       legal |-> job.request.legal, asked |-> asked]
<1>1. CASE job.request.frame = "garbled"
  BY <1>1, GivesTerminal DEF Handled
<1>2. CASE job.request.frame # "garbled"
  <2>1. Handled(p, job) = Handle(Tick(terminal), request)
    BY <1>2 DEF Handled, Serve
  <2>2. request.uid \in Uids /\ request.asked \in Asking
    BY DEF Job, Request, Asking
  <2>3. Tick(terminal) \in Terminal /\ Holds(Tick(terminal).last)
    BY TickDoes, TickScripted
  <2> HIDE DEF request
  <2> QED
    BY <2>1, <2>2, <2>3, HandleScripted
<1> QED
  BY <1>1, <1>2

\* What the terminal tells has ended by its script, and so has what the file
\* would tell after a restart.
ScriptInv == Holds(terminal.last) /\ Holds(saved)

\* The file gets what the terminal has for its result, or had on the way.
LEMMA BecomesScripted ==
  ASSUME ScriptInv, NEW t, Holds(t.last),
         \/ Becomes(t)
         \/ \E between : Holds(between.last) /\ FailsAfter(between, t)
  PROVE  ScriptInv'
<1>1. terminal' = t
  BY DEF Becomes, FailsAfter
<1>2. CASE Becomes(t)
  <2>1. saved' \in {saved, t.last}
    BY <1>2 DEF Becomes
  <2> QED
    BY <1>1, <2>1 DEF ScriptInv
<1>3. CASE \E between : Holds(between.last) /\ FailsAfter(between, t)
  <2>1. PICK between : Holds(between.last) /\ FailsAfter(between, t)
    BY <1>3
  <2>2. saved' \in {saved, between.last}
    BY <2>1 DEF FailsAfter
  <2> QED
    BY <1>1, <2>1, <2>2 DEF ScriptInv
<1> QED
  BY <1>2, <1>3

LEMMA ScriptStep == SsiInv /\ ScriptInv /\ [Next]_ssiVars => ScriptInv'
<1> SUFFICES ASSUME SsiInv, ScriptInv, [Next]_ssiVars
             PROVE  ScriptInv'
  OBVIOUS
<1>1. terminal \in Terminal /\ Holds(terminal.last)
  BY DEF SsiInv, FileInv, ScriptInv
<1>2. Holds(Tick(terminal).last)
  BY <1>1, TickScripted
<1>3. ASSUME UNCHANGED <<terminal, disk>> PROVE ScriptInv'
  BY <1>3 DEF disk, ScriptInv
<1>4. CASE Pass
  <2>1. terminal'.last = terminal.last /\ saved' = saved
    BY <1>1, <1>4, PassedKeeps DEF Pass, disk
  <2> QED
    BY <2>1 DEF ScriptInv
<1>5. CASE Ticks \/ TicksFail
  <2>1. Becomes(Tick(terminal)) \/ FailsAfter(terminal, Tick(terminal))
    BY <1>5 DEF Ticks, TicksFail
  <2> QED
    BY <1>1, <1>2, <2>1, BecomesScripted
<1>6. ASSUME NEW p \in Peers, Serving(p) PROVE ScriptInv'
  <2>1. PICK i \in Turn(p) : \/ Skip(p, i) \/ Fatal(p, i) \/ Begin(p, i) \/ BeginFails(p, i)
                             \/ Resume(p, i) \/ Written(p, i)
    BY <1>6 DEF Serving
  <2>2. CASE Skip(p, i) \/ Fatal(p, i) \/ Resume(p, i) \/ Written(p, i)
    BY <1>3, <2>2 DEF Skip, Fatal, Resume, Written
  <2>3. sockets[p].queue[i] \in Job
    BY TurnIsFirst, ServedSocket DEF SsiInv, LineInv
  <2>4. Holds(Handled(p, sockets[p].queue[i]).terminal.last)
    BY <1>1, <2>3, HandledScripted
  <2>5. CASE Begin(p, i)
    <3>1. Becomes(Handled(p, sockets[p].queue[i]).terminal)
      BY <2>5 DEF Begin
    <3> QED
      BY <2>4, <3>1, BecomesScripted
  <2>6. CASE BeginFails(p, i)
    <3>1. \/ FailsAfter(terminal, Tick(terminal))
          \/ FailsAfter(Tick(terminal), Handled(p, sockets[p].queue[i]).terminal)
      BY <2>6 DEF BeginFails
    <3> QED
      BY <1>1, <1>2, <2>4, <3>1, BecomesScripted
  <2> QED
    BY <2>1, <2>2, <2>5, <2>6
<1>7. ASSUME NEW p \in Peers,
             \/ Connect(p)
             \/ \E request \in Requests[p] : Data(p, request)
             \/ Hang(p)
             \/ Closed(p)
      PROVE  ScriptInv'
  BY <1>3, <1>7 DEF Connect, Data, Hang, Closed
<1>8. ASSUME NEW scenario \in Scenarios, Arms(scenario) PROVE ScriptInv'
  <2> DEFINE armed == Arm(terminal, scenario)
  <2>1. scenario \in Scenario
    BY SsiAssumption
  <2>2. armed \in Terminal /\ armed.last = terminal.last
    BY <1>1, <2>1 DEF Arm, Terminal
  <2>3. \/ Becomes(Tick(armed))
        \/ FailsAfter(armed, Tick(armed))
        \/ terminal' = armed /\ UNCHANGED disk
    BY <1>8 DEF Arms
  <2> HIDE DEF armed
  <2>4. Holds(armed.last) /\ Holds(Tick(armed).last)
    BY <1>1, <2>2, TickScripted
  <2>5. CASE terminal' = armed /\ UNCHANGED disk
    BY <2>4, <2>5 DEF disk, ScriptInv
  <2> QED
    BY <2>3, <2>4, <2>5, BecomesScripted
<1>9. ASSUME NEW preserve_result \in BOOLEAN, Resets(preserve_result) PROVE ScriptInv'
  <2> DEFINE t == Reset(terminal, preserve_result)
  <2>1. t.last \in {terminal.last, Nothing}
    BY <1>1 DEF Reset, Terminal
  <2>2. Holds(t.last)
    BY <1>1, <2>1 DEF Holds
  <2>3. Becomes(t) \/ FailsAfter(terminal, t)
    BY <1>9 DEF Resets
  <2> HIDE DEF t
  <2> QED
    BY <1>1, <2>2, <2>3, BecomesScripted
<1>10. CASE Restart
  <2>1. terminal'.last = saved /\ saved' = saved
    BY <1>10 DEF Restart, NewTerminal
  <2> QED
    BY <2>1 DEF ScriptInv
<1>11. CASE UNCHANGED ssiVars
  BY <1>3, <1>11 DEF ssiVars
<1> QED
  BY <1>4, <1>5, <1>6, <1>7, <1>8, <1>9, <1>10, <1>11 DEF Next

\* A purchase's result is its scenario's, and then all phases were over when the
\* terminal gave it; or the purchase was interrupted, and then the phase it was
\* in allows that; for any scenarios, and over restarts.
THEOREM PurchasesEndAsScripted == Spec => []EndsAsScripted
<1>1. Init => ScriptInv
  BY NewIs DEF Init, ScriptInv, Holds
<1>2. SsiInv /\ ScriptInv /\ [Next]_ssiVars => ScriptInv'
  BY ScriptStep
<1>3. ScriptInv => EndsAsScripted
  BY DEF ScriptInv, Holds, Scripted, EndsAsScripted
<1> QED
  BY <1>1, <1>2, <1>3, SsiInvariance, PTL DEF Spec

-----------------------------------------------------------------------------
\* Induction, on sets.

\* What holds of 0 and of the number after each that it holds of.
LEMMA Climb ==
  ASSUME NEW n \in Nat, NEW T, 0 \in T, \A k \in 1 .. n : k - 1 \in T => k \in T
  PROVE  \A k \in 0 .. n : k \in T
<1> SUFFICES ASSUME NEW m \in 0 .. n, m \notin T PROVE FALSE
  OBVIOUS
<1> DEFINE Bad == {k \in 0 .. n : k \notin T}
<1>1. Bad \in SUBSET Nat /\ m \in Bad
  OBVIOUS
<1> HIDE DEF Bad
<1>2. PICK l \in Bad : \A k \in Bad : l <= k
  BY <1>1, Least
<1>3. l \in 0 .. n /\ l \in Nat /\ l \notin T
  BY <1>2 DEF Bad
<1>4. l # 0
  BY <1>3
<1>5. l \in 1 .. n /\ l - 1 \in 0 .. n /\ ~(l <= l - 1)
  BY <1>3, <1>4
<1>6. l - 1 \in T
  BY <1>2, <1>5 DEF Bad
<1> QED
  BY <1>3, <1>5, <1>6

\* What holds of a sequence when it holds of all that are shorter.
LEMMA ByLength ==
  ASSUME NEW S, NEW T,
         \A s \in Seq(S) : (\A r \in Seq(S) : Len(r) < Len(s) => r \in T) => s \in T
  PROVE  \A s \in Seq(S) : s \in T
<1> SUFFICES ASSUME NEW s \in Seq(S), s \notin T PROVE FALSE
  OBVIOUS
<1> DEFINE Bad == {Len(r) : r \in {r \in Seq(S) : r \notin T}}
<1>1. Bad \in SUBSET Nat /\ Len(s) \in Bad
  BY LenProperties
<1> HIDE DEF Bad
<1>2. PICK l \in Bad : \A k \in Bad : l <= k
  BY <1>1, Least
<1>3. PICK t \in Seq(S) : t \notin T /\ l = Len(t)
  BY <1>2 DEF Bad
<1>4. ASSUME NEW r \in Seq(S), Len(r) < Len(t), r \notin T PROVE FALSE
  <2>1. Len(r) \in Bad
    BY <1>4 DEF Bad
  <2>2. Len(r) \in Nat /\ Len(t) \in Nat
    BY LenProperties
  <2> QED
    BY <1>2, <1>3, <1>4, <2>1, <2>2
<1> QED
  BY <1>3, <1>4

\* A function that is defined by recursion on numbers is one.
LEMMA Recursion ==
  ASSUME NEW S, NEW first \in S, NEW n \in Nat, NEW next \in [1 .. n -> [S -> S]]
  PROVE  \E f \in [0 .. n -> S] :
           /\ f[0] = first
           /\ \A k \in 1 .. n : f[k] = next[k][f[k - 1]]
<1> DEFINE G(f, m) == f[0] = first /\ \A k \in 1 .. m : f[k] = next[k][f[k - 1]]
           T       == {m \in Nat : m <= n => \E f \in [0 .. m -> S] : G(f, m)}
<1>1. 0 \in T
  <2>1. [k \in 0 .. 0 |-> first] \in [0 .. 0 -> S] /\ G([k \in 0 .. 0 |-> first], 0)
    OBVIOUS
  <2> QED
    BY <2>1
<1>2. ASSUME NEW l \in 1 .. n, l - 1 \in T PROVE l \in T
  <2>1. l \in Nat /\ l - 1 \in Nat /\ l - 1 <= n /\ l \in 0 .. l /\ l - 1 \in 0 .. l - 1
    OBVIOUS
  <2>2. PICK g \in [0 .. l - 1 -> S] : G(g, l - 1)
    BY <1>2, <2>1
  <2> DEFINE f == [k \in 0 .. l |-> IF k = l THEN next[l][g[l - 1]] ELSE g[k]]
  <2>3. next[l][g[l - 1]] \in S
    <3>1. g[l - 1] \in S /\ next[l] \in [S -> S]
      BY <2>1, <2>2
    <3> QED
      BY <3>1
  <2>4. \A k \in 0 .. l : k # l => k \in 0 .. l - 1
    BY <2>1
  <2>5. f \in [0 .. l -> S]
    BY <2>3, <2>4
  <2>6. f[0] = first
    BY <2>1, <2>2
  <2>7. ASSUME NEW k \in 1 .. l PROVE f[k] = next[k][f[k - 1]]
    <3>1. k \in 0 .. l /\ k - 1 \in 0 .. l /\ k - 1 # l /\ k - 1 \in 0 .. l - 1
      BY <2>1
    <3>2. f[k - 1] = g[k - 1]
      BY <3>1
    <3>3. CASE k = l
      BY <3>1, <3>2, <3>3
    <3>4. CASE k # l
      <4>1. k \in 1 .. l - 1 /\ f[k] = g[k]
        BY <3>1, <3>4, <2>1
      <4> QED
        BY <2>2, <3>2, <4>1
    <3> QED
      BY <3>3, <3>4
  <2> HIDE DEF f
  <2> QED
    BY <2>1, <2>5, <2>6, <2>7
<1> HIDE DEF T
<1>3. n \in T
  <2>1. n \in 0 .. n
    OBVIOUS
  <2> QED
    BY <1>1, <1>2, <2>1, Climb
<1>4. n <= n
  OBVIOUS
<1> QED
  BY <1>3, <1>4 DEF T

-----------------------------------------------------------------------------
\* The decoder's loop.

LEMMA CutOfConcat ==
  ASSUME NEW S, NEW a \in Seq(S), NEW b \in Seq(S), NEW n \in 0 .. Len(a)
  PROVE  /\ a \o b \in Seq(S) /\ Len(a \o b) = Len(a) + Len(b)
         /\ SubSeq(a \o b, 1, n) = SubSeq(a, 1, n)
         /\ SubSeq(a, 1, n) \in Seq(S) /\ Len(SubSeq(a, 1, n)) = n
<1>1. Len(a) \in Nat /\ Len(b) \in Nat /\ n \in Nat
  BY LenProperties
<1>2. /\ a \o b \in Seq(S) /\ Len(a \o b) = Len(a) + Len(b)
      /\ \A i \in 1 .. Len(a) + Len(b) :
           (a \o b)[i] = IF i <= Len(a) THEN a[i] ELSE b[i - Len(a)]
  BY ConcatProperties
<1>3. \A i \in 1 .. Len(a) : a[i] \in S
  BY ElementOfSeq
<1>4. \A i \in 1 .. Len(a) + Len(b) : (a \o b)[i] \in S
  BY <1>2, ElementOfSeq
<1>5. /\ SubSeq(a, 1, n) \in Seq(S) /\ Len(SubSeq(a, 1, n)) = n
      /\ \A i \in 1 .. n : SubSeq(a, 1, n)[i] = a[i]
  <2>1. \A i \in 1 .. n : a[i] \in S
    BY <1>1, <1>3
  <2> QED
    BY <1>1, <2>1, SubSeqProperties
<1>6. /\ SubSeq(a \o b, 1, n) \in Seq(S) /\ Len(SubSeq(a \o b, 1, n)) = n
      /\ \A i \in 1 .. n : SubSeq(a \o b, 1, n)[i] = (a \o b)[i]
  <2>1. \A i \in 1 .. n : (a \o b)[i] \in S
    BY <1>1, <1>4
  <2> QED
    BY <1>1, <2>1, SubSeqProperties
<1>7. SubSeq(a \o b, 1, n) = SubSeq(a, 1, n)
  <2>1. \A i \in 1 .. n : (a \o b)[i] = a[i]
    BY <1>1, <1>2
  <2> QED
    BY <1>5, <1>6, <2>1, SeqEqual
<1> QED
  BY <1>2, <1>5, <1>7

LEMMA RestOfSeq ==
  ASSUME NEW S, NEW a \in Seq(S), NEW n \in 0 .. Len(a), NEW s, s = SubSeq(a, n + 1, Len(a))
  PROVE  /\ s \in Seq(S) /\ Len(s) = Len(a) - n
         /\ \A i \in 1 .. Len(a) - n : s[i] = a[n + i]
<1>1. Len(a) \in Nat /\ n \in Nat
  BY LenProperties
<1>2. \A i \in n + 1 .. Len(a) : a[i] \in S
  <2>1. \A i \in 1 .. Len(a) : a[i] \in S
    BY ElementOfSeq
  <2> QED
    BY <1>1, <2>1
<1>3. /\ s \in Seq(S) /\ Len(s) = IF n + 1 <= Len(a) THEN Len(a) - (n + 1) + 1 ELSE 0
      /\ \A i \in 1 .. Len(a) - (n + 1) + 1 : s[i] = a[(n + 1) + i - 1]
  BY <1>1, <1>2, SubSeqProperties
<1> QED
  BY <1>1, <1>3

LEMMA RestOfConcat ==
  ASSUME NEW S, NEW a \in Seq(S), NEW b \in Seq(S), NEW n \in 0 .. Len(a)
  PROVE  SubSeq(a \o b, n + 1, Len(a \o b)) = SubSeq(a, n + 1, Len(a)) \o b
<1> DEFINE s == SubSeq(a, n + 1, Len(a))
           t == SubSeq(a \o b, n + 1, Len(a \o b))
<1>1. Len(a) \in Nat /\ Len(b) \in Nat /\ n \in Nat
  BY LenProperties
<1>2. /\ a \o b \in Seq(S) /\ Len(a \o b) = Len(a) + Len(b)
      /\ \A i \in 1 .. Len(a) + Len(b) :
           (a \o b)[i] = IF i <= Len(a) THEN a[i] ELSE b[i - Len(a)]
  BY ConcatProperties
<1>3. /\ s \in Seq(S) /\ Len(s) = Len(a) - n
      /\ \A i \in 1 .. Len(a) - n : s[i] = a[n + i]
  <2> HIDE DEF s
  <2> QED
    BY RestOfSeq DEF s
<1>4. /\ t \in Seq(S) /\ Len(t) = Len(a) + Len(b) - n
      /\ \A i \in 1 .. Len(a) + Len(b) - n : t[i] = (a \o b)[n + i]
  <2>1. \A c \in Seq(S) : \A k : n \in 0 .. Len(c) /\ k = SubSeq(c, n + 1, Len(c)) =>
          /\ k \in Seq(S) /\ Len(k) = Len(c) - n
          /\ \A i \in 1 .. Len(c) - n : k[i] = c[n + i]
    BY RestOfSeq
  <2>2. n \in 0 .. Len(a \o b)
    BY <1>1, <1>2
  <2>3. /\ t \in Seq(S) /\ Len(t) = Len(a \o b) - n
        /\ \A i \in 1 .. Len(a \o b) - n : t[i] = (a \o b)[n + i]
    BY <1>2, <2>1, <2>2, Zenon
  <2> HIDE DEF t
  <2> QED
    BY <1>2, <2>3
<1> HIDE DEF s, t
<1>5. /\ s \o b \in Seq(S) /\ Len(s \o b) = Len(s) + Len(b)
      /\ \A i \in 1 .. Len(s) + Len(b) :
           (s \o b)[i] = IF i <= Len(s) THEN s[i] ELSE b[i - Len(s)]
  BY <1>3, ConcatProperties
<1>6. \A i \in 1 .. Len(t) : t[i] = (s \o b)[i]
  BY <1>1, <1>2, <1>3, <1>4, <1>5
<1>7. Len(t) = Len(s \o b)
  BY <1>1, <1>3, <1>4, <1>5
<1>8. t = s \o b
  BY <1>4, <1>5, <1>6, <1>7, SeqEqual
<1> QED
  BY <1>8 DEF s, t

\* What is pending waits, is out of step, or has a whole frame in front.
LEMMA FrontIs ==
  ASSUME NEW s \in Seq(Byte), ~Waits(s), ~OutOfStep(s)
  PROVE  LET n == FrameLength(s) IN
         /\ Len(s) >= 5 /\ n \in Nat /\ n >= 6 /\ n \in 0 .. Len(s)
         /\ SubSeq(s, n + 1, Len(s)) \in Seq(Byte)
         /\ Len(SubSeq(s, n + 1, Len(s))) < Len(s)
<1>1. Len(s) \in Nat /\ Len(s) >= 5 /\ ~(Len(s) < FrameLength(s))
  BY LenProperties DEF Waits
<1>2. s[4] \in Byte /\ s[5] \in Byte
  <2>1. 4 \in 1 .. Len(s) /\ 5 \in 1 .. Len(s)
    BY <1>1
  <2> QED
    BY <2>1, ElementOfSeq
<1>3. FrameLength(s) \in Nat /\ FrameLength(s) >= 6
  <2>1. s[4] \in Nat /\ s[5] \in Nat
    <3>1. \A x \in Byte : x \in Nat
      BY DEF Byte
    <3> QED
      BY <1>2, <3>1, Zenon
  <2> DEFINE x == s[4]  y == s[5]
  <2>2. FrameLength(s) = x * 256 + y + 6
    BY SMT DEF FrameLength
  <2>3. x \in Nat /\ y \in Nat
    BY <2>1
  <2> HIDE DEF x, y
  <2> QED
    BY <2>2, <2>3, SMT
<1>4. FrameLength(s) \in 0 .. Len(s)
  BY <1>1, <1>3
<1>6. /\ SubSeq(s, FrameLength(s) + 1, Len(s)) \in Seq(Byte)
      /\ Len(SubSeq(s, FrameLength(s) + 1, Len(s))) = Len(s) - FrameLength(s)
  BY <1>4, RestOfSeq
<1> DEFINE r == SubSeq(s, FrameLength(s) + 1, Len(s))
<1>7. r \in Seq(Byte) /\ Len(r) < Len(s)
  <2> HIDE DEF r
  <2> QED
    BY <1>1, <1>3, <1>6 DEF r
<1> QED
  BY <1>1, <1>3, <1>4, <1>7

\* One turn of the loop, with what the function f says of the rest.
Drained(f, s) ==
  IF Waits(s) THEN [frames |-> << >>, pending |-> s]
  ELSE IF OutOfStep(s) THEN [frames |-> <<"fatal">>, pending |-> << >>]
  ELSE LET length == FrameLength(s)
           rest   == f[SubSeq(s, length + 1, Len(s))]
       IN  [frames  |-> <<Verdict(SubSeq(s, 1, length))>> \o rest.frames,
            pending |-> rest.pending]

LEMMA SameRest ==
  ASSUME NEW s \in Seq(Byte), NEW f, NEW g,
         \A r \in Seq(Byte) : Len(r) < Len(s) => f[r] = g[r]
  PROVE  Drained(f, s) = Drained(g, s)
<1>1. CASE Waits(s) \/ OutOfStep(s)
  BY <1>1 DEF Drained
<1>2. CASE ~Waits(s) /\ ~OutOfStep(s)
  <2> DEFINE r == SubSeq(s, FrameLength(s) + 1, Len(s))
  <2>1. r \in Seq(Byte) /\ Len(r) < Len(s)
    BY <1>2, FrontIs
  <2>2. f[r] = g[r]
    BY <2>1
  <2> QED
    BY <1>2, <2>2, Zenon DEF Drained
<1> QED
  BY <1>1, <1>2

\* The loop ends: its recursion defines a function.
LEMMA DrainIs == \A s \in Seq(Byte) : Drain[s] = Drained(Drain, s)
<1> DEFINE Upto(n) == {s \in Seq(Byte) : Len(s) <= n}
           G(f, n) == \A s \in Upto(n) : f[s] = Drained(f, s)
           H(n)    == \E f : G(f, n)
\* For sequences up to a length there is one,
<1>1. ASSUME NEW n \in Nat PROVE H(n)
  <2> DEFINE T == {k \in Nat : H(k)}
  <2>1. 0 \in T
    <3> DEFINE f == [s \in Seq(Byte) |-> [frames |-> << >>, pending |-> s]]
    <3>1. ASSUME NEW s \in Upto(0) PROVE f[s] = Drained(f, s)
      <4>1. Waits(s)
        BY LenProperties DEF Waits
      <4> QED
        BY <4>1 DEF Drained
    <3> HIDE DEF f
    <3>2. G(f, 0)
      BY <3>1
    <3> QED
      BY <3>2
  <2>2. ASSUME NEW k \in 1 .. n, k - 1 \in T PROVE k \in T
    <3>1. PICK g : G(g, k - 1)
      BY <2>2
    <3> DEFINE f == [s \in Seq(Byte) |-> Drained(g, s)]
    <3>2. ASSUME NEW s \in Upto(k - 1) PROVE f[s] = g[s]
      BY <3>1
    <3>3. ASSUME NEW s \in Upto(k) PROVE f[s] = Drained(f, s)
      <4>1. ASSUME NEW r \in Seq(Byte), Len(r) < Len(s) PROVE f[r] = g[r]
        <5>1. Len(r) \in Nat /\ Len(s) \in Nat /\ Len(s) <= k
          BY LenProperties
        <5>2. r \in Upto(k - 1)
          BY <4>1, <5>1
        <5> HIDE DEF f
        <5> QED
          BY <3>2, <5>2
      <4>2. f[s] = Drained(g, s)
        OBVIOUS
      <4> HIDE DEF f
      <4>3. Drained(f, s) = Drained(g, s)
        BY <4>1, SameRest
      <4> QED
        BY <4>2, <4>3
    <3> HIDE DEF f
    <3>4. G(f, k)
      BY <3>3
    <3> QED
      BY <3>4
  <2> HIDE DEF T
  <2>3. n \in 0 .. n
    OBVIOUS
  <2>4. n \in T
    BY <2>1, <2>2, <2>3, Climb
  <2> QED
    BY <2>4 DEF T
\* and any two of them agree.
<1>2. ASSUME NEW n \in Nat, NEW m \in Nat, NEW f, NEW g, G(f, n), G(g, m),
             NEW s \in Seq(Byte), Len(s) <= n, Len(s) <= m
      PROVE  f[s] = g[s]
  <2> DEFINE T == {r \in Seq(Byte) : Len(r) <= n /\ Len(r) <= m => f[r] = g[r]}
  <2>1. ASSUME NEW t \in Seq(Byte), \A r \in Seq(Byte) : Len(r) < Len(t) => r \in T
        PROVE  t \in T
    <3> SUFFICES ASSUME Len(t) <= n, Len(t) <= m PROVE f[t] = g[t]
      OBVIOUS
    <3>1. ASSUME NEW r \in Seq(Byte), Len(r) < Len(t) PROVE f[r] = g[r]
      <4>1. Len(r) \in Nat /\ Len(t) \in Nat
        BY LenProperties
      <4>2. Len(r) <= n /\ Len(r) <= m /\ r \in T
        BY <2>1, <3>1, <4>1
      <4> QED
        BY <4>2
    <3> HIDE DEF T
    <3>2. Drained(f, t) = Drained(g, t)
      BY <3>1, SameRest
    <3>3. t \in Upto(n) /\ t \in Upto(m)
      OBVIOUS
    <3>4. f[t] = Drained(f, t) /\ g[t] = Drained(g, t)
      BY <1>2, <3>3
    <3> QED
      BY <3>2, <3>4
  <2> HIDE DEF T
  <2>2. s \in T
    BY <2>1, ByLength
  <2> QED
    BY <1>2, <2>2 DEF T
<1> DEFINE F(n)  == CHOOSE f : G(f, n)
           total == [s \in Seq(Byte) |-> F(Len(s))[s]]
<1>3. \A n \in Nat : G(F(n), n)
  BY <1>1, Zenon
<1> HIDE DEF F
<1>4. ASSUME NEW s \in Seq(Byte) PROVE total[s] = Drained(total, s)
  <2>1. Len(s) \in Nat /\ s \in Upto(Len(s))
    BY LenProperties
  <2>2. total[s] = Drained(F(Len(s)), s)
    <3>1. total[s] = F(Len(s))[s]
      OBVIOUS
    <3>2. F(Len(s))[s] = Drained(F(Len(s)), s)
      BY <1>3, <2>1
    <3> QED
      BY <3>1, <3>2
  <2>3. ASSUME NEW r \in Seq(Byte), Len(r) < Len(s) PROVE F(Len(s))[r] = total[r]
    <3>1. Len(r) \in Nat /\ Len(r) <= Len(s) /\ Len(r) <= Len(r)
      BY <2>1, <2>3, LenProperties
    <3>2. G(F(Len(s)), Len(s)) /\ G(F(Len(r)), Len(r))
      BY <1>3, <2>1, <3>1
    <3>3. F(Len(s))[r] = F(Len(r))[r]
      BY <1>2, <2>1, <3>1, <3>2
    <3>4. total[r] = F(Len(r))[r]
      OBVIOUS
    <3> QED
      BY <3>3, <3>4
  <2> HIDE DEF total
  <2>4. Drained(F(Len(s)), s) = Drained(total, s)
    BY <2>3, SameRest
  <2> QED
    BY <2>2, <2>4
<1> DEFINE D(f) == f = [s \in Seq(Byte) |-> Drained(f, s)]
<1>5. D(total)
  <2>1. total = [s \in Seq(Byte) |-> total[s]]
    OBVIOUS
  <2> HIDE DEF total
  <2> QED
    BY <1>4, <2>1
<1>6. Drain = CHOOSE f : D(f)
  BY Zenon DEF Drain, Drained
<1> HIDE DEF total
<1>7. D(Drain)
  <2>1. \E f : D(f)
    BY <1>5
  <2> QED
    BY <1>6, <2>1, Zenon
<1> QED
  BY <1>7, Zenon

Frame == {"request", "E02", "E03", "fatal"}

LEMMA VerdictIs == \A raw : Verdict(raw) \in Frame /\ Verdict(raw) # "fatal"
BY DEF Verdict, Frame

LEMMA OneFrame ==
  ASSUME NEW v \in Frame, NEW fs \in Seq(Frame)
  PROVE  /\ <<v>> \in Seq(Frame) /\ <<v>> \o fs \in Seq(Frame)
         /\ v # "fatal" => Contains(<<v>> \o fs, "fatal") = Contains(fs, "fatal")
<1>1. <<v>> \in Seq(Frame) /\ Len(<<v>>) = 1
  OBVIOUS
<1>2. /\ <<v>> \o fs \in Seq(Frame) /\ Len(<<v>> \o fs) = 1 + Len(fs) /\ Len(fs) \in Nat
      /\ \A i \in 1 .. 1 + Len(fs) : (<<v>> \o fs)[i] = IF i <= 1 THEN v ELSE fs[i - 1]
  BY <1>1, ConcatProperties, LenProperties
<1> DEFINE all == <<v>> \o fs
<1> HIDE DEF all
<1>3. ASSUME v # "fatal" PROVE Contains(all, "fatal") = Contains(fs, "fatal")
  <2>1. ASSUME Contains(all, "fatal") PROVE Contains(fs, "fatal")
    <3>1. PICK i \in 1 .. Len(all) : all[i] = "fatal"
      BY <2>1 DEF Contains
    <3>2. i - 1 \in 1 .. Len(fs) /\ fs[i - 1] = "fatal"
      BY <1>2, <1>3, <3>1 DEF all
    <3> QED
      BY <3>2 DEF Contains
  <2>2. ASSUME Contains(fs, "fatal") PROVE Contains(all, "fatal")
    <3>1. PICK i \in 1 .. Len(fs) : fs[i] = "fatal"
      BY <2>2 DEF Contains
    <3>2. i + 1 \in 1 .. Len(all) /\ all[i + 1] = "fatal"
      BY <1>2, <3>1 DEF all
    <3> QED
      BY <3>2 DEF Contains
  <2>3. Contains(all, "fatal") \in BOOLEAN /\ Contains(fs, "fatal") \in BOOLEAN
    BY DEF Contains
  <2> QED
    BY <2>1, <2>2, <2>3
<1> QED
  BY <1>1, <1>2, <1>3 DEF all

\* The three turns that the loop may take.
LEMMA DrainWaits ==
  ASSUME NEW s \in Seq(Byte), Waits(s)
  PROVE  Drain[s].frames = << >> /\ Drain[s].pending = s
<1>1. Drain[s] = [frames |-> << >>, pending |-> s]
  BY DrainIs, Zenon DEF Drained
<1> QED
  BY <1>1

LEMMA DrainOutOfStep ==
  ASSUME NEW s \in Seq(Byte), OutOfStep(s)
  PROVE  ~Waits(s) /\ Drain[s].frames = <<"fatal">> /\ Drain[s].pending = << >>
<1>1. ~Waits(s)
  BY LenProperties DEF OutOfStep, Waits
<1>2. Drain[s] = [frames |-> <<"fatal">>, pending |-> << >>]
  BY <1>1, DrainIs, Zenon DEF Drained
<1> QED
  BY <1>1, <1>2

LEMMA DrainWhole ==
  ASSUME NEW s \in Seq(Byte), ~Waits(s), ~OutOfStep(s),
         NEW r, r = SubSeq(s, FrameLength(s) + 1, Len(s)),
         NEW v, v = Verdict(SubSeq(s, 1, FrameLength(s)))
  PROVE  Drain[s].frames = <<v>> \o Drain[r].frames /\ Drain[s].pending = Drain[r].pending
<1>1. Drain[s] = [frames |-> <<v>> \o Drain[r].frames, pending |-> Drain[r].pending]
  BY DrainIs, Zenon DEF Drained
<1> QED
  BY <1>1

LEMMA DrainRecord ==
  ASSUME NEW s \in Seq(Byte)
  PROVE  Drain[s] = [frames |-> Drain[s].frames, pending |-> Drain[s].pending]
<1>1. Drain[s] = Drained(Drain, s)
  BY DrainIs
<1>2. \E fs, t : Drained(Drain, s) = [frames |-> fs, pending |-> t]
  <2>1. CASE Waits(s)
    BY <2>1, Zenon DEF Drained
  <2>2. CASE ~Waits(s) /\ OutOfStep(s)
    BY <2>2, Zenon DEF Drained
  <2>3. CASE ~Waits(s) /\ ~OutOfStep(s)
    BY <2>3, Zenon DEF Drained
  <2> QED
    BY <2>1, <2>2, <2>3
<1> QED
  BY <1>1, <1>2

\* What is left of anything waits for more.
LEMMA DrainTyped ==
  \A s \in Seq(Byte) : /\ Drain[s].frames \in Seq(Frame)
                       /\ Drain[s].pending \in Seq(Byte)
                       /\ Waits(Drain[s].pending)
<1> DEFINE T == {s \in Seq(Byte) : /\ Drain[s].frames \in Seq(Frame)
                                   /\ Drain[s].pending \in Seq(Byte)
                                   /\ Waits(Drain[s].pending)}
<1>1. ASSUME NEW s \in Seq(Byte), \A r \in Seq(Byte) : Len(r) < Len(s) => r \in T
      PROVE  s \in T
  <2>1. << >> \in Seq(Byte) /\ << >> \in Seq(Frame) /\ Waits(<< >>)
    BY EmptySeq DEF Waits
  <2>2. <<"fatal">> \in Seq(Frame)
    BY DEF Frame
  <2>3. CASE Waits(s)
    BY <2>1, <2>3, DrainWaits
  <2>4. CASE OutOfStep(s)
    BY <2>1, <2>2, <2>4, DrainOutOfStep
  <2>5. CASE ~Waits(s) /\ ~OutOfStep(s)
    <3> DEFINE n    == FrameLength(s)
               r    == SubSeq(s, n + 1, Len(s))
               v    == Verdict(SubSeq(s, 1, n))
    <3>1. r \in Seq(Byte) /\ Len(r) < Len(s)
      BY <2>5, FrontIs
    <3>2. Drain[r].frames \in Seq(Frame) /\ Drain[r].pending \in Seq(Byte) /\ Waits(Drain[r].pending)
      BY <1>1, <3>1
    <3>3. Drain[s].frames = <<v>> \o Drain[r].frames /\ Drain[s].pending = Drain[r].pending
      BY <2>5, DrainWhole
    <3>4. v \in Frame
      BY VerdictIs, Zenon
    <3> HIDE DEF T, r, v
    <3>5. <<v>> \o Drain[r].frames \in Seq(Frame)
      BY <3>2, <3>4, OneFrame
    <3> QED
      BY <3>2, <3>3, <3>5 DEF T
  <2> QED
    BY <2>3, <2>4, <2>5
<1> HIDE DEF T
<1>2. \A s \in Seq(Byte) : s \in T
  BY <1>1, ByLength
<1> QED
  BY <1>2 DEF T

\* Bytes that come after do not change what is in front.
LEMMA FrontStays ==
  ASSUME NEW a \in Seq(Byte), NEW b \in Seq(Byte), ~Waits(a)
  PROVE  /\ ~Waits(a \o b) /\ OutOfStep(a \o b) = OutOfStep(a)
         /\ ~OutOfStep(a) =>
              LET n == FrameLength(a) IN
              /\ FrameLength(a \o b) = n
              /\ SubSeq(a \o b, 1, n) = SubSeq(a, 1, n)
              /\ SubSeq(a \o b, n + 1, Len(a \o b)) = SubSeq(a, n + 1, Len(a)) \o b
<1>1. Len(a) \in Nat /\ Len(b) \in Nat /\ Len(a) >= 5
  BY LenProperties DEF Waits
<1>2. Len(a \o b) = Len(a) + Len(b)
  BY ConcatProperties
<1>3. SubSeq(a \o b, 1, 3) = SubSeq(a, 1, 3)
  <2>1. 3 \in 0 .. Len(a)
    BY <1>1
  <2> QED
    BY <2>1, CutOfConcat
<1>4. FrameLength(a \o b) = FrameLength(a)
  <2>1. (a \o b)[4] = a[4] /\ (a \o b)[5] = a[5]
    <3>1. 4 \in 1 .. Len(a) + Len(b) /\ 5 \in 1 .. Len(a) + Len(b) /\ 4 <= Len(a) /\ 5 <= Len(a)
      BY <1>1
    <3> QED
      BY <3>1, ConcatProperties
  <2> QED
    BY <2>1, Zenon DEF FrameLength
<1>5. OutOfStep(a \o b) = OutOfStep(a)
  BY <1>1, <1>2, <1>3 DEF OutOfStep
<1>6. CASE OutOfStep(a)
  BY <1>1, <1>2, <1>5, <1>6 DEF Waits
<1>7. CASE ~OutOfStep(a)
  <2>1. FrameLength(a) \in 0 .. Len(a)
    BY <1>7, FrontIs
  <2>2. ~Waits(a \o b)
    BY <1>1, <1>2, <1>4, <1>5, <1>7, <2>1 DEF Waits
  <2>3. \A n \in 0 .. Len(a) :
          /\ SubSeq(a \o b, 1, n) = SubSeq(a, 1, n)
          /\ SubSeq(a \o b, n + 1, Len(a \o b)) = SubSeq(a, n + 1, Len(a)) \o b
    <3> TAKE n \in 0 .. Len(a)
    <3>1. SubSeq(a \o b, 1, n) = SubSeq(a, 1, n)
      BY CutOfConcat
    <3>2. SubSeq(a \o b, n + 1, Len(a \o b)) = SubSeq(a, n + 1, Len(a)) \o b
      BY RestOfConcat
    <3> QED
      BY <3>1, <3>2
  <2> QED
    BY <1>4, <1>5, <1>7, <2>1, <2>2, <2>3, Zenon
<1> QED
  BY <1>6, <1>7

LEMMA PushIs ==
  ASSUME NEW d, NEW b
  PROVE  /\ Push(d, b).frames = d.frames \o Drain[d.pending \o b].frames
         /\ Push(d, b).pending = Drain[d.pending \o b].pending
BY DEF Push

LEMMA Associative ==
  ASSUME NEW S
  PROVE  \A x, y, z \in Seq(S) : (x \o y) \o z = x \o (y \o z)
<1> TAKE x, y, z \in Seq(S)
<1> QED
  BY ConcatAssociative

LEMMA FramesAssociative ==
  \A x, y, z \in Seq(Frame) : (x \o y) \o z = x \o (y \o z)
BY Associative

\* What has been decoded before more bytes come is what all of them decode to:
\* the decoder may be called as soon as there is anything.
THEOREM DecodesAsItComes ==
  \A a, b \in Seq(Byte) :
    IF Contains(Drain[a].frames, "fatal")
    THEN Drain[a \o b] = Drain[a]
    ELSE Drain[a \o b] = Push(Drain[a], b)
<1> SUFFICES ASSUME NEW b \in Seq(Byte)
             PROVE  \A a \in Seq(Byte) : IF Contains(Drain[a].frames, "fatal")
                                         THEN Drain[a \o b] = Drain[a]
                                         ELSE Drain[a \o b] = Push(Drain[a], b)
  OBVIOUS
<1> DEFINE P(a) == IF Contains(Drain[a].frames, "fatal")
                   THEN Drain[a \o b] = Drain[a]
                   ELSE Drain[a \o b] = Push(Drain[a], b)
           T    == {a \in Seq(Byte) : P(a)}
<1>1. ASSUME NEW a \in Seq(Byte), \A r \in Seq(Byte) : Len(r) < Len(a) => r \in T
      PROVE  P(a)
  <2>1. a \o b \in Seq(Byte)
    BY ConcatProperties
  <2>2. CASE Waits(a)
    <3>1. Drain[a].frames = << >> /\ Drain[a].pending = a
      BY <2>2, DrainWaits
    <3>2. ~Contains(Drain[a].frames, "fatal")
      BY <3>1, EmptySeq DEF Contains
    <3>3. Drain[a \o b].frames \in Seq(Frame)
      BY <2>1, DrainTyped
    <3>4. << >> \o Drain[a \o b].frames = Drain[a \o b].frames
      BY <3>3, ConcatEmptySeq
    <3>5. Push(Drain[a], b) = [frames |-> Drain[a \o b].frames, pending |-> Drain[a \o b].pending]
      BY <3>1, <3>4 DEF Push
    <3>6. Drain[a \o b] = [frames |-> Drain[a \o b].frames, pending |-> Drain[a \o b].pending]
      BY <2>1, DrainRecord
    <3> QED
      BY <3>2, <3>5, <3>6
  <2>3. CASE OutOfStep(a)
    <3>1. OutOfStep(a \o b)
      <4>1. ~Waits(a)
        BY <2>3, LenProperties DEF OutOfStep, Waits
      <4> QED
        BY <2>3, <4>1, FrontStays
    <3>2. /\ Drain[a].frames = <<"fatal">> /\ Drain[a].pending = << >>
          /\ Drain[a \o b].frames = <<"fatal">> /\ Drain[a \o b].pending = << >>
      BY <2>1, <2>3, <3>1, DrainOutOfStep
    <3>3. Contains(Drain[a].frames, "fatal")
      BY <3>2 DEF Contains
    <3>4. Drain[a \o b] = Drain[a]
      BY <2>1, <3>2, DrainRecord
    <3> QED
      BY <3>3, <3>4
  <2>4. CASE ~Waits(a) /\ ~OutOfStep(a)
    <3> DEFINE n == FrameLength(a)
               r == SubSeq(a, n + 1, Len(a))
               v == Verdict(SubSeq(a, 1, n))
               d == Drain[r]
    <3>1. r \in Seq(Byte) /\ Len(r) < Len(a)
      BY <2>4, FrontIs
    <3>2. P(r)
      BY <1>1, <3>1
    <3>3. Drain[a].frames = <<v>> \o d.frames /\ Drain[a].pending = d.pending
      BY <2>4, DrainWhole
    <3>4. /\ Drain[a \o b].frames = <<v>> \o Drain[r \o b].frames
          /\ Drain[a \o b].pending = Drain[r \o b].pending
      <4>1. /\ ~Waits(a \o b) /\ ~OutOfStep(a \o b) /\ FrameLength(a \o b) = n
            /\ SubSeq(a \o b, 1, n) = SubSeq(a, 1, n)
            /\ SubSeq(a \o b, n + 1, Len(a \o b)) = r \o b
        BY <2>4, FrontStays
      <4>2. v = Verdict(SubSeq(a \o b, 1, FrameLength(a \o b)))
        BY <4>1, Zenon
      <4>3. r \o b = SubSeq(a \o b, FrameLength(a \o b) + 1, Len(a \o b))
        BY <4>1, Zenon
      <4> HIDE DEF r, v
      <4> QED
        BY <2>1, <4>1, <4>2, <4>3, DrainWhole
    <3>5. v \in Frame /\ v # "fatal"
      BY VerdictIs, Zenon
    <3>6. d.frames \in Seq(Frame) /\ d.pending \in Seq(Byte)
      BY <3>1, DrainTyped
    <3>7. Contains(<<v>> \o d.frames, "fatal") = Contains(d.frames, "fatal")
      BY <3>5, <3>6, OneFrame
    <3> HIDE DEF r, v
    <3>8. CASE Contains(d.frames, "fatal")
      <4>1. Drain[r \o b] = d
        BY <3>2, <3>8
      <4>2. Drain[a \o b].frames = Drain[a].frames /\ Drain[a \o b].pending = Drain[a].pending
        BY <3>3, <3>4, <4>1
      <4>3. Drain[a \o b] = Drain[a]
        BY <2>1, <4>2, DrainRecord
      <4> QED
        BY <3>3, <3>7, <3>8, <4>3
    <3>9. CASE ~Contains(d.frames, "fatal")
      <4> DEFINE e == Drain[d.pending \o b]
      <4>1. Drain[r \o b].frames = d.frames \o e.frames /\ Drain[r \o b].pending = e.pending
        <5>1. Drain[r \o b] = Push(d, b)
          BY <3>2, <3>9, Zenon
        <5>2. Push(d, b).frames = d.frames \o e.frames /\ Push(d, b).pending = e.pending
          BY PushIs
        <5> QED
          BY <5>1, <5>2, Zenon
      <4>2. e.frames \in Seq(Frame)
        BY <3>6, ConcatProperties, DrainTyped
      <4>3. <<v>> \in Seq(Frame)
        BY <3>5, <3>6, OneFrame
      <4>4. <<v>> \o (d.frames \o e.frames) = (<<v>> \o d.frames) \o e.frames
        BY <3>6, <4>2, <4>3, FramesAssociative, Zenon
      <4>5. Push(Drain[a], b) = [frames |-> (<<v>> \o d.frames) \o e.frames, pending |-> e.pending]
        BY <3>3 DEF Push
      <4>6. Drain[a \o b] = [frames |-> <<v>> \o (d.frames \o e.frames), pending |-> e.pending]
        <5> HIDE DEF d, e
        <5>1. /\ Drain[a \o b].frames = <<v>> \o (d.frames \o e.frames)
              /\ Drain[a \o b].pending = e.pending
          BY <3>4, <4>1, Zenon
        <5> QED
          BY <2>1, <5>1, DrainRecord
      <4>7. ~Contains(Drain[a].frames, "fatal")
        BY <3>3, <3>7, <3>9
      <4> QED
        BY <4>4, <4>5, <4>6, <4>7
    <3> QED
      BY <3>8, <3>9
  <2> QED
    BY <2>2, <2>3, <2>4
<1>2. ASSUME NEW a \in Seq(Byte), \A r \in Seq(Byte) : Len(r) < Len(a) => r \in T
      PROVE  a \in T
  <2>1. P(a)
    BY <1>1, <1>2
  <2> QED
    BY <2>1
<1> HIDE DEF T
<1>3. \A a \in Seq(Byte) : a \in T
  BY <1>2, ByLength
<1> QED
  BY <1>3 DEF T

-----------------------------------------------------------------------------
\* All the chunks of a stream.

Decoder == [frames : Seq(Frame), pending : Seq(Byte)]

LEMMA PushTyped ==
  ASSUME NEW d \in Decoder, NEW c \in Seq(Byte)
  PROVE  Push(d, c) \in Decoder
<1> DEFINE e == Drain[d.pending \o c]
<1>1. d.frames \in Seq(Frame) /\ d.pending \in Seq(Byte)
  BY DEF Decoder
<1>2. d.pending \o c \in Seq(Byte)
  BY <1>1, ConcatProperties
<1>3. e.frames \in Seq(Frame) /\ e.pending \in Seq(Byte)
  BY <1>2, DrainTyped
<1>4. Push(d, c) = [frames |-> d.frames \o e.frames, pending |-> e.pending]
  BY DEF Push
<1> HIDE DEF e
<1>5. d.frames \o e.frames \in Seq(Frame)
  BY <1>1, <1>3, ConcatProperties
<1> QED
  BY <1>3, <1>4, <1>5 DEF Decoder

Fresh == [frames |-> << >>, pending |-> << >>]

LEMMA FreshTyped == Fresh \in Decoder /\ Fresh.frames = << >> /\ Fresh.pending = << >>
BY EmptySeq DEF Fresh, Decoder

LEMMA DecoderRecursion ==
  \A n \in Nat, first \in Decoder : \A next \in [1 .. n -> [Decoder -> Decoder]] :
    \E f \in [0 .. n -> Decoder] :
      f[0] = first /\ \A k \in 1 .. n : f[k] = next[k][f[k - 1]]
BY Recursion

\* Decoding goes from chunk to chunk.
LEMMA Chunkwise ==
  ASSUME NEW n \in Nat, NEW chunks, \A k \in 1 .. n : chunks[k] \in Seq(Byte)
  PROVE  \E f \in [0 .. n -> Decoder] :
           f[0] = Fresh /\ \A k \in 1 .. n : f[k] = Push(f[k - 1], chunks[k])
<1>1. PICK next \in [1 .. n -> [Decoder -> Decoder]] :
        \A k \in 1 .. n, d \in Decoder : next[k][d] = Push(d, chunks[k])
  <2>1. [k \in 1 .. n |-> [d \in Decoder |-> Push(d, chunks[k])]]
          \in [1 .. n -> [Decoder -> Decoder]]
    BY PushTyped
  <2> QED
    BY <2>1
<1>2. PICK f \in [0 .. n -> Decoder] :
        f[0] = Fresh /\ \A k \in 1 .. n : f[k] = next[k][f[k - 1]]
  BY FreshTyped, DecoderRecursion, Zenon
<1>3. \A k \in 1 .. n : k - 1 \in 0 .. n
  OBVIOUS
<1> QED
  BY <1>1, <1>2, <1>3

LEMMA DecodeIs ==
  ASSUME NEW chunks \in Seq(Seq(Byte))
  PROVE  \E f :
           /\ f[0] = Fresh
           /\ \A k \in 1 .. Len(chunks) : f[k] = Push(f[k - 1], chunks[k])
           /\ Decode(chunks) = f[Len(chunks)]
<1> DEFINE len  == Len(chunks)
           G(f) == f = [k \in 0 .. len |-> IF k = 0 THEN Fresh ELSE Push(f[k - 1], chunks[k])]
<1>1. len \in Nat /\ \A k \in 1 .. len : chunks[k] \in Seq(Byte)
  BY LenProperties, ElementOfSeq
<1>2. PICK f \in [0 .. len -> Decoder] :
        f[0] = Fresh /\ \A k \in 1 .. len : f[k] = Push(f[k - 1], chunks[k])
  BY <1>1, Chunkwise
<1> HIDE DEF len
<1>3. G(f)
  <2>1. \A k \in 0 .. len : f[k] = IF k = 0 THEN Fresh ELSE Push(f[k - 1], chunks[k])
    BY <1>1, <1>2
  <2> QED
    BY <2>1
<1> DEFINE g == CHOOSE h : G(h)
<1>4. Decode(chunks) = g[len]
  BY Zenon DEF Decode, len, Fresh
<1>5. G(g)
  BY <1>3, Zenon
<1> HIDE DEF g
<1>6. g[0] = Fresh /\ \A k \in 1 .. len : g[k] = Push(g[k - 1], chunks[k])
  BY <1>1, <1>5
<1> QED
  BY <1>4, <1>6 DEF len

\* So does joining.
Bytes == Seq(Byte)

LEMMA BytesRecursion ==
  \A n \in Nat, first \in Bytes : \A next \in [1 .. n -> [Bytes -> Bytes]] :
    \E f \in [0 .. n -> Bytes] :
      f[0] = first /\ \A k \in 1 .. n : f[k] = next[k][f[k - 1]]
BY Recursion

LEMMA BytesJoin ==
  /\ << >> \in Bytes
  /\ \A s, t \in Bytes : s \o t \in Bytes
BY EmptySeq, ConcatProperties DEF Bytes

LEMMA Partwise ==
  ASSUME NEW n \in Nat, NEW parts, \A k \in 1 .. n : parts[k] \in Bytes
  PROVE  \E f \in [0 .. n -> Bytes] :
           f[0] = << >> /\ \A k \in 1 .. n : f[k] = f[k - 1] \o parts[k]
<1>1. PICK next \in [1 .. n -> [Bytes -> Bytes]] :
        \A k \in 1 .. n, s \in Bytes : next[k][s] = s \o parts[k]
  <2>1. [k \in 1 .. n |-> [s \in Bytes |-> s \o parts[k]]] \in [1 .. n -> [Bytes -> Bytes]]
    BY BytesJoin
  <2> QED
    BY <2>1
<1>2. PICK f \in [0 .. n -> Bytes] :
        f[0] = << >> /\ \A k \in 1 .. n : f[k] = next[k][f[k - 1]]
  BY BytesJoin, BytesRecursion, Zenon
<1>3. ASSUME NEW k \in 1 .. n PROVE f[k] = f[k - 1] \o parts[k]
  <2>1. k - 1 \in 0 .. n
    OBVIOUS
  <2>2. f[k - 1] \in Bytes
    BY <1>2, <2>1
  <2>3. next[k][f[k - 1]] = f[k - 1] \o parts[k]
    BY <1>1, <2>2
  <2> QED
    BY <1>2, <2>3
<1> QED
  BY <1>2, <1>3

LEMMA JoinedIs ==
  ASSUME NEW parts \in Seq(Seq(Byte))
  PROVE  \E f \in [0 .. Len(parts) -> Bytes] :
           /\ f[0] = << >>
           /\ \A k \in 1 .. Len(parts) : f[k] = f[k - 1] \o parts[k]
           /\ Joined(parts) = f[Len(parts)]
<1> DEFINE len  == Len(parts)
           G(f) == f = [k \in 0 .. len |-> IF k = 0 THEN << >> ELSE f[k - 1] \o parts[k]]
<1>1. len \in Nat /\ \A k \in 1 .. len : parts[k] \in Bytes
  BY LenProperties, ElementOfSeq DEF Bytes
<1>2. << >> \in Bytes
  BY BytesJoin
<1>4. PICK f \in [0 .. len -> Bytes] :
        f[0] = << >> /\ \A k \in 1 .. len : f[k] = f[k - 1] \o parts[k]
  BY <1>1, Partwise
<1> HIDE DEF len
<1>6. G(f)
  <2>1. ASSUME NEW k \in 0 .. len
        PROVE  f[k] = IF k = 0 THEN << >> ELSE f[k - 1] \o parts[k]
    <3>1. CASE k = 0
      BY <1>4, <3>1, Zenon
    <3>2. CASE k # 0
      <4>1. k \in 1 .. len
        BY <1>1, <3>2
      <4> QED
        BY <1>4, <3>2, <4>1, Zenon
    <3> QED
      BY <3>1, <3>2
  <2>2. f = [k \in 0 .. len |-> f[k]]
    BY <1>4
  <2>3. [k \in 0 .. len |-> f[k]] = [k \in 0 .. len |-> IF k = 0 THEN << >> ELSE f[k - 1] \o parts[k]]
    BY <2>1, Zenon
  <2> QED
    BY <2>2, <2>3
<1> DEFINE g == CHOOSE h : G(h)
<1>7. Joined(parts) = g[len]
  BY Zenon DEF Joined, len
<1>8. G(g)
  BY <1>6, Zenon
<1> HIDE DEF g
<1>9. g[0] = << >> /\ \A k \in 1 .. len : g[k] = g[k - 1] \o parts[k]
  <2>1. 0 \in 0 .. len /\ \A k \in 1 .. len : k \in 0 .. len /\ k # 0
    BY <1>1
  <2>2. \A k \in 0 .. len : g[k] = IF k = 0 THEN << >> ELSE g[k - 1] \o parts[k]
    BY <1>8, Zenon
  <2> QED
    BY <2>1, <2>2, Zenon
<1> DEFINE T == {k \in 0 .. len : g[k] \in Bytes}
<1>10. 0 \in T /\ \A k \in 1 .. len : k - 1 \in T => k \in T
  <2>1. 0 \in T
    <3>1. 0 \in 0 .. len
      BY <1>1
    <3>2. g[0] \in Bytes
      BY <1>2, <1>9, Zenon
    <3> QED
      BY <3>1, <3>2
  <2>2. ASSUME NEW k \in 1 .. len, k - 1 \in T PROVE k \in T
    <3>1. g[k - 1] \in Bytes /\ parts[k] \in Bytes /\ k \in 0 .. len
      BY <1>1, <2>2
    <3>2. g[k - 1] \o parts[k] \in Bytes
      BY <3>1, BytesJoin
    <3> QED
      BY <1>9, <3>1, <3>2
  <2> QED
    BY <2>1, <2>2
<1>11. \A k \in 0 .. len : k \in T
  <2> HIDE DEF T
  <2> QED
    BY <1>1, <1>10, Climb
<1>12. g \in [0 .. len -> Bytes]
  BY <1>8, <1>11
<1> QED
  BY <1>7, <1>9, <1>12 DEF len

\* What is heard ends with the first frame out of step.
LEMMA HeardIs ==
  ASSUME NEW fs \in Seq(Frame), Contains(fs, "fatal")
  PROVE  \E m \in 1 .. Len(fs) : /\ fs[m] = "fatal"
                                 /\ \A i \in 1 .. Len(fs) : fs[i] = "fatal" => m <= i
                                 /\ Heard(fs) = SubSeq(fs, 1, m)
<1> DEFINE I == {i \in 1 .. Len(fs) : fs[i] = "fatal"}
           m == CHOOSE i \in I : \A j \in I : i <= j
<1>1. PICK n \in I : TRUE
  BY DEF Contains
<1>2. I \in SUBSET Nat
  BY LenProperties
<1> HIDE DEF I
<1>3. m \in I /\ \A j \in I : m <= j
  BY <1>1, <1>2, Least
<1>4. SelectInSeq(fs, LAMBDA f : f = "fatal") = m
  BY <1>1 DEF SelectInSeq, Min, I
<1> HIDE DEF m
<1>5. Heard(fs) = SubSeq(fs, 1, m)
  BY <1>4 DEF Heard
<1> QED
  BY <1>3, <1>5 DEF I

LEMMA HeardStops ==
  ASSUME NEW fs \in Seq(Frame), NEW gs \in Seq(Frame), Contains(fs, "fatal")
  PROVE  Contains(fs \o gs, "fatal") /\ Heard(fs \o gs) = Heard(fs)
<1>1. /\ fs \o gs \in Seq(Frame) /\ Len(fs \o gs) = Len(fs) + Len(gs)
      /\ \A i \in 1 .. Len(fs) + Len(gs) :
           (fs \o gs)[i] = IF i <= Len(fs) THEN fs[i] ELSE gs[i - Len(fs)]
      /\ Len(fs) \in Nat /\ Len(gs) \in Nat
  BY ConcatProperties, LenProperties
<1>2. PICK m \in 1 .. Len(fs) : /\ fs[m] = "fatal"
                                /\ \A i \in 1 .. Len(fs) : fs[i] = "fatal" => m <= i
                                /\ Heard(fs) = SubSeq(fs, 1, m)
  BY HeardIs
<1> DEFINE all == fs \o gs
<1>3. SubSeq(all, 1, m) = SubSeq(fs, 1, m)
  <2>1. m \in 0 .. Len(fs)
    BY <1>1
  <2> QED
    BY <2>1, CutOfConcat
<1> HIDE DEF all
<1>4. all[m] = "fatal" /\ m \in 1 .. Len(all)
  BY <1>1, <1>2 DEF all
<1>5. Contains(all, "fatal")
  BY <1>4 DEF Contains
<1>6. PICK k \in 1 .. Len(all) : /\ all[k] = "fatal"
                                 /\ \A i \in 1 .. Len(all) : all[i] = "fatal" => k <= i
                                 /\ Heard(all) = SubSeq(all, 1, k)
  BY <1>1, <1>5, HeardIs DEF all
<1>7. k <= m
  BY <1>4, <1>6
<1>8. k \in 1 .. Len(fs) /\ fs[k] = "fatal"
  BY <1>1, <1>6, <1>7 DEF all
<1>9. k = m
  BY <1>1, <1>2, <1>7, <1>8
<1> QED
  BY <1>2, <1>3, <1>5, <1>6, <1>9 DEF all

\* The decoder d has heard what w has, and is where w is if it still listens.
Same(d, w) ==
  IF Contains(w.frames, "fatal")
  THEN Contains(d.frames, "fatal") /\ Heard(d.frames) = Heard(w.frames)
  ELSE d = w

LEMMA SameAsItself == \A d : Same(d, d)
BY DEF Same

LEMMA SamePushed ==
  ASSUME NEW d \in Decoder, NEW a \in Seq(Byte), NEW c \in Seq(Byte), Same(d, Drain[a])
  PROVE  Push(d, c) \in Decoder /\ Same(Push(d, c), Drain[a \o c])
<1>1. Push(d, c) \in Decoder
  BY PushTyped
<1>2. CASE Contains(Drain[a].frames, "fatal")
  <2>1. Drain[a \o c] = Drain[a]
    BY <1>2, DecodesAsItComes
  <2>2. Contains(d.frames, "fatal") /\ Heard(d.frames) = Heard(Drain[a].frames)
    BY <1>2 DEF Same
  <2> DEFINE more == Drain[d.pending \o c].frames
  <2>3. d.frames \in Seq(Frame) /\ more \in Seq(Frame)
    <3>1. d.frames \in Seq(Frame) /\ d.pending \in Seq(Byte)
      BY DEF Decoder
    <3>2. d.pending \o c \in Seq(Byte)
      BY <3>1, ConcatProperties
    <3> QED
      BY <3>1, <3>2, DrainTyped
  <2>4. Push(d, c).frames = d.frames \o more
    BY PushIs
  <2> HIDE DEF more
  <2>5. Contains(d.frames \o more, "fatal") /\ Heard(d.frames \o more) = Heard(d.frames)
    BY <2>2, <2>3, HeardStops
  <2> QED
    BY <1>1, <1>2, <2>1, <2>2, <2>4, <2>5 DEF Same
<1>3. CASE ~Contains(Drain[a].frames, "fatal")
  <2>1. d = Drain[a]
    BY <1>3 DEF Same
  <2>2. Drain[a \o c] = Push(d, c)
    BY <1>3, <2>1, DecodesAsItComes
  <2> QED
    BY <1>1, <2>2, SameAsItself
<1> QED
  BY <1>2, <1>3

LEMMA NothingDrained == Drain[<< >>] = Fresh
<1>1. << >> \in Seq(Byte) /\ Waits(<< >>)
  BY EmptySeq DEF Waits
<1>2. Drain[<< >>].frames = << >> /\ Drain[<< >>].pending = << >>
  BY <1>1, DrainWaits
<1>3. Drain[<< >>] = [frames |-> Drain[<< >>].frames, pending |-> Drain[<< >>].pending]
  BY <1>1, DrainRecord
<1> QED
  BY <1>2, <1>3 DEF Fresh

\* Step by step, pieces of any kind.
LEMMA SameAlong ==
  ASSUME NEW n \in Nat, NEW parts, \A k \in 1 .. n : parts[k] \in Seq(Byte),
         NEW d, d[0] = Fresh, \A k \in 1 .. n : d[k] = Push(d[k - 1], parts[k]),
         NEW b \in [0 .. n -> Seq(Byte)],
         b[0] = << >>, \A k \in 1 .. n : b[k] = b[k - 1] \o parts[k]
  PROVE  \A k \in 0 .. n : d[k] \in Decoder /\ Same(d[k], Drain[b[k]])
<1> DEFINE T == {k \in 0 .. n : d[k] \in Decoder /\ Same(d[k], Drain[b[k]])}
<1>1. 0 \in T
  BY FreshTyped, NothingDrained, SameAsItself
<1>2. ASSUME NEW k \in 1 .. n, k - 1 \in T PROVE k \in T
  <2>1. k - 1 \in 0 .. n /\ k \in 0 .. n
    OBVIOUS
  <2>2. d[k - 1] \in Decoder /\ b[k - 1] \in Seq(Byte) /\ parts[k] \in Seq(Byte)
        /\ Same(d[k - 1], Drain[b[k - 1]])
    BY <1>2, <2>1
  <2>3. /\ Push(d[k - 1], parts[k]) \in Decoder
        /\ Same(Push(d[k - 1], parts[k]), Drain[b[k - 1] \o parts[k]])
    BY <2>2, SamePushed
  <2> QED
    BY <2>1, <2>3
<1> HIDE DEF T
<1>3. \A k \in 0 .. n : k \in T
  BY <1>1, <1>2, Climb
<1> QED
  BY <1>3 DEF T

LEMMA ChunksSame ==
  ASSUME NEW chunks \in Seq(Seq(Byte))
  PROVE  Joined(chunks) \in Seq(Byte) /\ Same(Decode(chunks), Drain[Joined(chunks)])
<1>1. Len(chunks) \in Nat /\ \A k \in 1 .. Len(chunks) : chunks[k] \in Seq(Byte)
  BY LenProperties, ElementOfSeq
<1>2. PICK b \in [0 .. Len(chunks) -> Seq(Byte)] :
        /\ b[0] = << >>
        /\ \A k \in 1 .. Len(chunks) : b[k] = b[k - 1] \o chunks[k]
        /\ Joined(chunks) = b[Len(chunks)]
  BY JoinedIs DEF Bytes
<1>3. PICK d : /\ d[0] = Fresh
               /\ \A k \in 1 .. Len(chunks) : d[k] = Push(d[k - 1], chunks[k])
               /\ Decode(chunks) = d[Len(chunks)]
  BY DecodeIs
<1>4. \A k \in 0 .. Len(chunks) : d[k] \in Decoder /\ Same(d[k], Drain[b[k]])
  BY <1>1, <1>2, <1>3, SameAlong
<1>5. Len(chunks) \in 0 .. Len(chunks)
  BY <1>1
<1> QED
  BY <1>2, <1>3, <1>4, <1>5

\* The chunks of a stream are heard as the stream in one piece is, and while the
\* decoder listens it has the same bytes pending: codec.mjs's push() does not
\* tell where the network has cut, whatever the bytes are.
THEOREM DecodesAnyChunks ==
  \A chunks \in Seq(Seq(Byte)) :
    LET decoded == Decode(chunks)
        whole   == Drain[Joined(chunks)]
    IN  /\ Heard(decoded.frames) = Heard(whole.frames)
        /\ Contains(whole.frames, "fatal") \/ decoded = whole
<1> TAKE chunks \in Seq(Seq(Byte))
<1>1. Same(Decode(chunks), Drain[Joined(chunks)])
  BY ChunksSame
<1> QED
  BY <1>1 DEF Same

-----------------------------------------------------------------------------
\* The messages that clients send.

LEMMA MessageDrained ==
  ASSUME NEW m \in Seq(Byte), Whole(m) \/ OutOfStep(m)
  PROVE  Drain[m].frames = <<Found(m)>> /\ Drain[m].pending = << >> /\ Found(m) \in Frame
<1>1. CASE OutOfStep(m)
  BY <1>1, DrainOutOfStep DEF Found, Frame
<1>2. CASE ~OutOfStep(m)
  <2>1. ~Waits(m) /\ Len(m) = FrameLength(m)
    BY <1>2 DEF Whole
  <2>2. Len(m) \in Nat
    BY LenProperties
  <2> DEFINE r == SubSeq(m, FrameLength(m) + 1, Len(m))
             v == Verdict(SubSeq(m, 1, FrameLength(m)))
  <2>3. r = << >>
    <3>1. Len(m) \in Int /\ Len(m) + 1 \in Int /\ Len(m) < Len(m) + 1
      BY <2>2
    <3>2. SubSeq(m, Len(m) + 1, Len(m)) = << >>
      BY <3>1, SubSeqEmpty
    <3> QED
      BY <2>1, <3>2
  <2>4. v = Found(m)
    <3>1. SubSeq(m, 1, Len(m)) = m
      BY SubSeqFull
    <3> QED
      BY <1>2, <2>1, <3>1, Zenon DEF Found
  <2>5. Drain[m].frames = <<v>> \o Drain[r].frames /\ Drain[m].pending = Drain[r].pending
    BY <1>2, <2>1, DrainWhole
  <2>6. v \in Frame
    BY VerdictIs, Zenon
  <2> HIDE DEF r, v
  <2>7. Drain[r].frames = << >> /\ Drain[r].pending = << >>
    BY <2>3, NothingDrained, FreshTyped
  <2>8. <<v>> \o << >> = <<v>>
    <3>1. <<v>> \in Seq(Frame)
      BY <2>6
    <3> QED
      BY <3>1, ConcatEmptySeq
  <2> QED
    BY <2>4, <2>5, <2>6, <2>7, <2>8
<1> QED
  BY <1>1, <1>2

\* A message adds what it is found to be, and leaves nothing behind.
LEMMA MessagePushed ==
  ASSUME NEW d \in Decoder, d.pending = << >>, NEW m \in Seq(Byte), Whole(m) \/ OutOfStep(m)
  PROVE  Push(d, m) = [frames |-> Append(d.frames, Found(m)), pending |-> << >>]
<1>1. << >> \o m = m
  BY ConcatEmptySeq
<1>2. Drain[m].frames = <<Found(m)>> /\ Drain[m].pending = << >> /\ Found(m) \in Frame
  BY MessageDrained
<1>3. Append(d.frames, Found(m)) = d.frames \o <<Found(m)>>
  <2>1. d.frames \in Seq(Frame)
    BY DEF Decoder
  <2> QED
    BY <1>2, <2>1, AppendIsConcat
<1>4. Push(d, m) = [frames |-> d.frames \o <<Found(m)>>, pending |-> << >>]
  BY <1>1, <1>2 DEF Push
<1> QED
  BY <1>3, <1>4

\* What a whole stream of messages comes to.
LEMMA StreamSame ==
  ASSUME NEW stream \in Seq(Seq(Byte)),
         \A i \in 1 .. Len(stream) : Whole(stream[i]) \/ OutOfStep(stream[i]),
         NEW found, found = [i \in 1 .. Len(stream) |-> Found(stream[i])],
         NEW tail \in Seq(Byte), Waits(tail)
  PROVE  /\ found \in Seq(Frame) /\ Joined(stream) \o tail \in Seq(Byte)
         /\ Same([frames |-> found, pending |-> tail], Drain[Joined(stream) \o tail])
<1> DEFINE len  == Len(stream)
           x(k) == [frames |-> SubSeq(found, 1, k), pending |-> << >>]
           d    == [k \in 0 .. len |-> x(k)]
<1>1. len \in Nat /\ \A k \in 1 .. len : stream[k] \in Seq(Byte)
  BY LenProperties, ElementOfSeq
<1>2. found \in Seq(Frame) /\ Len(found) = len
      /\ \A i \in 1 .. len : found[i] = Found(stream[i]) /\ found[i] \in Frame
  <2>1. \A i \in 1 .. len : Found(stream[i]) \in Frame
    BY <1>1, MessageDrained
  <2> HIDE DEF len
  <2>2. found = [i \in 1 .. len |-> Found(stream[i])]
    BY DEF len
  <2>3. found \in [1 .. len -> Frame]
    BY <2>1, <2>2
  <2> QED
    BY <1>1, <2>1, <2>2, <2>3
<1>3. PICK b \in [0 .. len -> Seq(Byte)] :
        /\ b[0] = << >>
        /\ \A k \in 1 .. len : b[k] = b[k - 1] \o stream[k]
        /\ Joined(stream) = b[len]
  BY JoinedIs DEF Bytes
<1> HIDE DEF len
<1>4. \A k \in 0 .. len : d[k].frames = SubSeq(found, 1, k) /\ d[k].pending = << >>
                          /\ d[k] \in Decoder
  <2>1. ASSUME NEW k \in 0 .. len PROVE SubSeq(found, 1, k) \in Seq(Frame)
    <3>1. \A i \in 1 .. k : found[i] \in Frame
      BY <1>1, <1>2
    <3>2. 1 \in Int /\ k \in Int
      OBVIOUS
    <3> QED
      BY <3>1, <3>2, SubSeqProperties
  <2>2. << >> \in Seq(Byte)
    BY EmptySeq
  <2> QED
    BY <2>1, <2>2 DEF Decoder
<1>5. d[0] = Fresh
  <2>1. SubSeq(found, 1, 0) = << >>
    BY SubSeqEmpty
  <2>2. d[0] = x(0)
    BY <1>1
  <2> QED
    BY <2>1, <2>2 DEF Fresh
<1>6. ASSUME NEW k \in 1 .. len PROVE d[k] = Push(d[k - 1], stream[k])
  <2>1. k - 1 \in 0 .. len /\ k \in 0 .. len /\ k \in Nat
    BY <1>1
  <2>2. d[k - 1] \in Decoder /\ d[k - 1].pending = << >> /\ d[k - 1].frames = SubSeq(found, 1, k - 1)
    BY <1>4, <2>1
  <2>3. stream[k] \in Seq(Byte) /\ (Whole(stream[k]) \/ OutOfStep(stream[k]))
    BY <1>1 DEF len
  <2> HIDE DEF d
  <2>4. Push(d[k - 1], stream[k])
          = [frames |-> Append(SubSeq(found, 1, k - 1), Found(stream[k])), pending |-> << >>]
    BY <2>2, <2>3, MessagePushed
  <2>5. Append(SubSeq(found, 1, k - 1), Found(stream[k])) = SubSeq(found, 1, k)
    <3>1. SubSeq(found, 1, k) = SubSeq(found, 1, k - 1) \o <<found[k]>>
      <4>1. 1 \in 1 .. Len(found) /\ k \in 1 .. Len(found)
        BY <1>1, <1>2, <2>1
      <4> QED
        BY <1>2, <4>1, SubSeqRecursiveSecond
    <3>2. SubSeq(found, 1, k - 1) \in Seq(Frame)
      BY <2>2 DEF Decoder
    <3>3. found[k] \in Frame /\ found[k] = Found(stream[k])
      BY <1>2
    <3>4. Append(SubSeq(found, 1, k - 1), found[k]) = SubSeq(found, 1, k - 1) \o <<found[k]>>
      BY <3>2, <3>3, AppendIsConcat
    <3> QED
      BY <3>1, <3>3, <3>4
  <2>6. d[k] = x(k)
    BY <2>1 DEF d
  <2> QED
    BY <2>4, <2>5, <2>6
<1> HIDE DEF d
<1>7. \A k \in 0 .. len : d[k] \in Decoder /\ Same(d[k], Drain[b[k]])
  BY <1>1, <1>3, <1>5, <1>6, SameAlong
<1>8. /\ d[len] \in Decoder /\ Same(d[len], Drain[b[len]]) /\ b[len] \in Seq(Byte)
      /\ d[len].frames = found /\ d[len].pending = << >>
  <2>1. len \in 0 .. len
    BY <1>1
  <2>2. SubSeq(found, 1, len) = found
    BY <1>2, SubSeqFull
  <2> QED
    BY <1>3, <1>4, <1>7, <2>1, <2>2
<1>9. Same(Push(d[len], tail), Drain[b[len] \o tail])
  BY <1>8, SamePushed
<1>10. Push(d[len], tail) = [frames |-> found, pending |-> tail]
  <2>1. << >> \o tail = tail
    BY ConcatEmptySeq
  <2>2. Drain[tail].frames = << >> /\ Drain[tail].pending = tail
    BY DrainWaits
  <2>3. found \o << >> = found
    BY <1>2, ConcatEmptySeq
  <2> QED
    BY <1>8, <2>1, <2>2, <2>3 DEF Push
<1>11. b[len] \o tail \in Seq(Byte)
  BY <1>8, ConcatProperties
<1> QED
  BY <1>2, <1>3, <1>9, <1>10, <1>11

\* Whatever messages a client sends, and whatever it has sent of the next one,
\* however the network cuts the bytes: server.mjs hears of each message what it
\* is, in their order and up to the first one out of step, and of nothing else,
\* and the rest stays pending.  Bytes in the data of a message are no message.
THEOREM MessagesAreHeard ==
  ASSUME NEW stream \in Seq(Seq(Byte)),
         \A i \in DOMAIN stream : Whole(stream[i]) \/ OutOfStep(stream[i]),
         NEW tail \in Seq(Byte), Waits(tail),
         NEW chunks \in Seq(Seq(Byte)), Joined(chunks) = Joined(stream) \o tail
  PROVE  LET decoded == Decode(chunks)
             found   == [i \in DOMAIN stream |-> Found(stream[i])]
         IN  /\ Heard(decoded.frames) = Heard(found)
             /\ Contains(found, "fatal") \/ decoded.pending = tail
<1> DEFINE found   == [i \in DOMAIN stream |-> Found(stream[i])]
           w       == Drain[Joined(chunks)]
           x       == [frames |-> found, pending |-> tail]
<1>1. DOMAIN stream = 1 .. Len(stream)
  BY LenProperties
<1>2. Same(x, w)
  <2>1. Same(x, Drain[Joined(stream) \o tail])
    <3>1. found = [i \in 1 .. Len(stream) |-> Found(stream[i])]
      BY <1>1
    <3> HIDE DEF found
    <3> QED
      BY <1>1, <3>1, StreamSame
  <2> QED
    BY <2>1
<1>3. Same(Decode(chunks), w)
  BY ChunksSame
<1>4. x.frames = found /\ x.pending = tail
  OBVIOUS
<1> HIDE DEF found, w, x
<1>5. CASE Contains(w.frames, "fatal")
  <2>1. Contains(found, "fatal") /\ Heard(found) = Heard(w.frames)
    BY <1>2, <1>4, <1>5 DEF Same
  <2>2. Heard(Decode(chunks).frames) = Heard(w.frames)
    BY <1>3, <1>5 DEF Same
  <2> QED
    BY <2>1, <2>2 DEF found
<1>6. CASE ~Contains(w.frames, "fatal")
  <2>1. x = w /\ Decode(chunks) = w
    BY <1>2, <1>3, <1>6 DEF Same
  <2>2. Decode(chunks).frames = found /\ Decode(chunks).pending = tail
    BY <1>4, <2>1
  <2> QED
    BY <2>2 DEF found
<1> QED
  BY <1>5, <1>6

LEMMA BytesAssociative ==
  \A x, y, z \in Seq(Byte) : (x \o y) \o z = x \o (y \o z)
BY Associative

LEMMA JoinedFront ==
  ASSUME NEW m \in Seq(Byte), NEW s \in Seq(Seq(Byte))
  PROVE  <<m>> \o s \in Seq(Seq(Byte)) /\ Joined(<<m>> \o s) = m \o Joined(s)
<1> DEFINE all == <<m>> \o s
           len == Len(s)
<1>1. len \in Nat /\ \A k \in 1 .. len : s[k] \in Seq(Byte)
  BY LenProperties, ElementOfSeq
<1>2. /\ all \in Seq(Seq(Byte)) /\ Len(all) = len + 1
      /\ all[1] = m /\ \A k \in 1 .. len : all[k + 1] = s[k]
  <2>1. <<m>> \in Seq(Seq(Byte)) /\ Len(<<m>>) = 1 /\ <<m>>[1] = m
    OBVIOUS
  <2>2. /\ all \in Seq(Seq(Byte)) /\ Len(all) = 1 + len
        /\ \A i \in 1 .. 1 + len : all[i] = IF i <= 1 THEN <<m>>[i] ELSE s[i - 1]
    BY <2>1, ConcatProperties
  <2> HIDE DEF all, len
  <2>3. all[1] = m
    <3>1. 1 \in 1 .. 1 + len /\ 1 <= 1
      BY <1>1
    <3>2. all[1] = <<m>>[1]
      BY <2>2, <3>1, Zenon
    <3> QED
      BY <2>1, <3>2, Zenon
  <2>4. ASSUME NEW k \in 1 .. len PROVE all[k + 1] = s[k]
    <3>1. k + 1 \in 1 .. 1 + len /\ ~(k + 1 <= 1) /\ k + 1 - 1 = k
      BY <1>1
    <3> QED
      BY <2>2, <3>1
  <2> QED
    BY <1>1, <2>2, <2>3, <2>4
<1>3. PICK f \in [0 .. Len(all) -> Bytes] :
        /\ f[0] = << >>
        /\ \A k \in 1 .. Len(all) : f[k] = f[k - 1] \o all[k]
        /\ Joined(all) = f[Len(all)]
  <2> HIDE DEF all
  <2> QED
    BY <1>2, JoinedIs
<1>4. PICK g \in [0 .. len -> Bytes] :
        /\ g[0] = << >>
        /\ \A k \in 1 .. len : g[k] = g[k - 1] \o s[k]
        /\ Joined(s) = g[len]
  BY JoinedIs
<1> HIDE DEF all, len
<1> DEFINE T == {k \in 0 .. len : f[k + 1] = m \o g[k]}
<1>5. 0 \in T
  <2>1. 0 \in 0 .. len /\ 1 \in 1 .. Len(all) /\ 1 - 1 = 0 /\ 0 + 1 = 1
    BY <1>1, <1>2
  <2>2. f[1] = << >> \o m
    BY <1>2, <1>3, <2>1
  <2>3. << >> \o m = m /\ m \o << >> = m
    BY ConcatEmptySeq
  <2> QED
    BY <1>4, <2>1, <2>2, <2>3
<1>6. ASSUME NEW k \in 1 .. len, k - 1 \in T PROVE k \in T
  <2>1. /\ k \in 0 .. len /\ k - 1 \in 0 .. len /\ k + 1 \in 1 .. Len(all)
        /\ k + 1 - 1 = k /\ k - 1 + 1 = k
    BY <1>1, <1>2
  <2>2. f[k] = m \o g[k - 1]
    BY <1>6, <2>1
  <2>3. f[k + 1] = f[k] \o s[k]
    <3>1. PICK n \in 1 .. Len(all) : n = k + 1 /\ n - 1 = k
      BY <2>1
    <3>2. f[n] = f[n - 1] \o all[n]
      BY <1>3
    <3>3. all[n] = s[k]
      BY <1>2, <3>1, Zenon
    <3> QED
      BY <3>1, <3>2, <3>3, Zenon
  <2>4. g[k] = g[k - 1] \o s[k] /\ g[k - 1] \in Seq(Byte) /\ s[k] \in Seq(Byte)
    BY <1>1, <1>4, <2>1 DEF Bytes
  <2>5. (m \o g[k - 1]) \o s[k] = m \o (g[k - 1] \o s[k])
    BY <2>4, BytesAssociative, Zenon
  <2> QED
    BY <2>1, <2>2, <2>3, <2>4, <2>5
<1> HIDE DEF T
<1>7. len \in T
  <2>1. \A k \in 0 .. len : k \in T
    BY <1>1, <1>5, <1>6, Climb
  <2> QED
    BY <1>1, <2>1
<1>8. f[len + 1] = m \o g[len]
  BY <1>7 DEF T
<1> QED
  BY <1>2, <1>3, <1>4, <1>8 DEF all

\* Whatever does not wait has a message in front.
LEMMA FrontTaken ==
  ASSUME NEW a \in Seq(Byte), ~Waits(a)
  PROVE  \E m \in Seq(Byte), r \in Seq(Byte) :
           (Whole(m) \/ OutOfStep(m)) /\ a = m \o r /\ Len(r) < Len(a)
<1>1. Len(a) \in Nat /\ Len(a) >= 5
  BY LenProperties DEF Waits
<1>2. CASE OutOfStep(a)
  <2>1. << >> \in Seq(Byte) /\ a = a \o << >> /\ Len(<< >>) < Len(a)
    BY <1>1, EmptySeq, ConcatEmptySeq
  <2> QED
    BY <1>2, <2>1
<1>3. CASE ~OutOfStep(a)
  <2>1. PICK n \in 0 .. Len(a) : n = FrameLength(a) /\ n >= 6
    BY <1>3, FrontIs
  <2> DEFINE m == SubSeq(a, 1, n)
             r == SubSeq(a, n + 1, Len(a))
  <2>2. << >> \in Seq(Byte)
    BY EmptySeq
  <2>3. m \in Seq(Byte) /\ Len(m) = n
    BY <2>2, CutOfConcat
  <2>4. r \in Seq(Byte) /\ Len(r) = Len(a) - n
    <3> HIDE DEF r
    <3> QED
      BY RestOfSeq DEF r
  <2>5. m \o r = a
    <3>1. 1 \in 1 .. Len(a) + 1 /\ n \in 1 - 1 .. Len(a) /\ Len(a) \in n .. Len(a)
      BY <1>1
    <3>2. m \o r = SubSeq(a, 1, Len(a))
      BY <3>1, ConcatAdjacentSubSeq
    <3> QED
      BY <3>2, SubSeqFull
  <2>6. \A i \in 1 .. n : m[i] = a[i]
    <3>1. \A i \in 1 .. n : a[i] \in Byte
      BY <1>1, ElementOfSeq
    <3>2. 1 \in Int /\ n \in Int
      OBVIOUS
    <3>3. \A i \in 1 .. n - 1 + 1 : m[i] = a[1 + i - 1]
      BY <3>1, <3>2, SubSeqProperties
    <3> HIDE DEF m
    <3> QED
      BY <3>3
  <2>7. SubSeq(m, 1, 3) = SubSeq(a, 1, 3)
    <3>1. 1 \in 1 .. Len(a) /\ n \in 1 .. Len(a) /\ 1 \in 1 .. n - 1 + 1 /\ 3 \in 1 .. n - 1 + 1
      BY <1>1, <2>1
    <3>2. SubSeq(m, 1, 3) = SubSeq(a, 1 + 1 - 1, 1 + 3 - 1)
      BY <2>2, <3>1, SubSeqOfSubSeq
    <3>3. 1 + 1 - 1 = 1 /\ 1 + 3 - 1 = 3
      OBVIOUS
    <3> QED
      BY <3>2, <3>3, Zenon
  <2>8. FrameLength(m) = n
    <3>1. m[4] = a[4] /\ m[5] = a[5]
      <4>1. 4 \in 1 .. n /\ 5 \in 1 .. n
        BY <2>1
      <4> HIDE DEF m
      <4> QED
        BY <2>6, <4>1
    <3> HIDE DEF m
    <3> QED
      BY <2>1, <3>1, Zenon DEF FrameLength
  <2> HIDE DEF m, r
  <2>9. Whole(m)
    <3>1. SubSeq(a, 1, 3) = Prefix
      BY <1>1, <1>3 DEF OutOfStep
    <3>2. ~OutOfStep(m)
      BY <2>7, <3>1 DEF OutOfStep
    <3>3. ~(Len(m) < 5) /\ ~(Len(m) < FrameLength(m)) /\ Len(m) = FrameLength(m)
      BY <2>1, <2>3, <2>8
    <3> QED
      BY <3>2, <3>3 DEF Whole, Waits
  <2>10. Len(r) < Len(a)
    BY <1>1, <2>1, <2>4
  <2> QED
    BY <2>3, <2>4, <2>5, <2>9, <2>10
<1> QED
  BY <1>2, <1>3

LEMMA JoinedNone ==
  /\ << >> \in Seq(Seq(Byte)) /\ Joined(<< >>) = << >>
<1>1. << >> \in Seq(Seq(Byte)) /\ Len(<< >>) = 0
  BY EmptySeq
<1> QED
  BY <1>1, JoinedIs

\* Whatever bytes a client sends, they are such messages, and such a rest.
THEOREM EveryStreamIsMessages ==
  \A bytes \in Seq(Byte) :
    \E stream \in Seq(Seq(Byte)), tail \in Seq(Byte) :
      /\ \A i \in DOMAIN stream : Whole(stream[i]) \/ OutOfStep(stream[i])
      /\ Waits(tail)
      /\ bytes = Joined(stream) \o tail
<1> DEFINE P(bytes) ==
             \E stream \in Seq(Seq(Byte)), tail \in Seq(Byte) :
               /\ \A i \in DOMAIN stream : Whole(stream[i]) \/ OutOfStep(stream[i])
               /\ Waits(tail)
               /\ bytes = Joined(stream) \o tail
           T == {bytes \in Seq(Byte) : P(bytes)}
<1>1. ASSUME NEW a \in Seq(Byte), \A r \in Seq(Byte) : Len(r) < Len(a) => r \in T
      PROVE  P(a)
  <2>1. CASE Waits(a)
    <3>1. << >> \o a = a
      BY ConcatEmptySeq
    <3>2. \A i \in DOMAIN << >> : FALSE
      OBVIOUS
    <3> QED
      BY <2>1, <3>1, <3>2, JoinedNone
  <2>2. CASE ~Waits(a)
    <3>1. PICK m \in Seq(Byte), r \in Seq(Byte) :
            (Whole(m) \/ OutOfStep(m)) /\ a = m \o r /\ Len(r) < Len(a)
      BY <2>2, FrontTaken
    <3>2. P(r)
      BY <1>1, <3>1
    <3>3. PICK s \in Seq(Seq(Byte)), t \in Seq(Byte) :
            /\ \A i \in DOMAIN s : Whole(s[i]) \/ OutOfStep(s[i])
            /\ Waits(t) /\ r = Joined(s) \o t
      BY <3>2
    <3> HIDE DEF P, T
    <3> DEFINE all == <<m>> \o s
    <3>4. all \in Seq(Seq(Byte)) /\ Joined(all) = m \o Joined(s)
      BY JoinedFront
    <3>5. ASSUME NEW i \in DOMAIN all PROVE Whole(all[i]) \/ OutOfStep(all[i])
      <4>1. <<m>> \in Seq(Seq(Byte)) /\ Len(<<m>>) = 1 /\ <<m>>[1] = m
        OBVIOUS
      <4>2. /\ Len(all) = 1 + Len(s) /\ Len(s) \in Nat
            /\ \A k \in 1 .. 1 + Len(s) : all[k] = IF k <= 1 THEN <<m>>[k] ELSE s[k - 1]
        BY <4>1, ConcatProperties, LenProperties
      <4> HIDE DEF all
      <4>3. i \in 1 .. 1 + Len(s)
        BY <3>4, <4>2, LenProperties
      <4>4. CASE i <= 1
        <5>1. i = 1
          BY <4>2, <4>3, <4>4
        <5>2. all[i] = m
          BY <4>1, <4>2, <4>3, <5>1
        <5> QED
          BY <3>1, <5>2
      <4>5. CASE ~(i <= 1)
        <5>1. i - 1 \in 1 .. Len(s) /\ all[i] = s[i - 1]
          BY <4>2, <4>3, <4>5
        <5>2. i - 1 \in DOMAIN s
          BY <5>1, LenProperties
        <5> QED
          BY <3>3, <5>1, <5>2
      <4> QED
        BY <4>4, <4>5
    <3>6. a = Joined(all) \o t
      <4> HIDE DEF all
      <4>1. Joined(s) \in Seq(Byte) /\ m \in Seq(Byte) /\ t \in Seq(Byte)
        BY ChunksSame
      <4>2. m \o (Joined(s) \o t) = (m \o Joined(s)) \o t
        <5>1. (m \o Joined(s)) \o t = m \o (Joined(s) \o t)
          BY <4>1, BytesAssociative, Zenon
        <5> QED
          BY <5>1, Zenon
      <4> QED
        BY <3>1, <3>3, <3>4, <4>2
    <3> HIDE DEF all
    <3> QED
      BY <3>3, <3>4, <3>5, <3>6 DEF P
  <2> QED
    BY <2>1, <2>2
<1>2. ASSUME NEW a \in Seq(Byte), \A r \in Seq(Byte) : Len(r) < Len(a) => r \in T
      PROVE  a \in T
  <2>1. P(a)
    BY <1>1, <1>2
  <2> QED
    BY <2>1
<1> HIDE DEF T
<1>3. \A a \in Seq(Byte) : a \in T
  BY <1>2, ByLength
<1> QED
  BY <1>3 DEF T

-----------------------------------------------------------------------------
\* What encode() makes, and what becomes of it.

Bits == {1, 2, 4, 8, 16, 32, 64, 128}

Bit(byte, bit) == (byte \div bit) % 2

With(bytes, bit) == {i \in DOMAIN bytes : Bit(bytes[i], bit) = 1}

LEMMA BitIs ==
  ASSUME NEW byte \in Byte, NEW bit \in Bits
  PROVE  Bit(byte, bit) \in {0, 1}
<1>1. byte \div bit \in Nat
  BY DEF Byte, Bits
<1> QED
  BY <1>1 DEF Bit

LEMMA Halves ==
  \A b \in Nat : \E q \in Nat, r \in 0 .. 1 : b = 2 * q + r /\ q = b \div 2 /\ r = b % 2
OBVIOUS

\* A number is its half and its last bit.
LEMMA HalfAndBit ==
  \A b, c \in Nat : b \div 2 = c \div 2 /\ b % 2 = c % 2 => b = c
<1> TAKE b, c \in Nat
<1> HAVE b \div 2 = c \div 2 /\ b % 2 = c % 2
<1>1. PICK q \in Nat, r \in 0 .. 1 : b = 2 * q + r /\ q = b \div 2 /\ r = b % 2
  BY Halves
<1>2. PICK p \in Nat, s \in 0 .. 1 : c = 2 * p + s /\ p = c \div 2 /\ s = c % 2
  BY Halves
<1> QED
  BY <1>1, <1>2

LEMMA HalvesOfHalves ==
  ASSUME NEW b \in Nat
  PROVE  /\ b \div 1 = b /\ b \div 4 = (b \div 2) \div 2 /\ b \div 8 = (b \div 4) \div 2
         /\ b \div 16 = (b \div 8) \div 2 /\ b \div 32 = (b \div 16) \div 2
         /\ b \div 64 = (b \div 32) \div 2 /\ b \div 128 = (b \div 64) \div 2
<1>1. b \div 1 = b
  OBVIOUS
<1>2. b \div 4 = (b \div 2) \div 2
  OBVIOUS
<1>3. b \div 8 = (b \div 4) \div 2
  OBVIOUS
<1>4. b \div 16 = (b \div 8) \div 2
  OBVIOUS
<1>5. b \div 32 = (b \div 16) \div 2
  OBVIOUS
<1>6. b \div 64 = (b \div 32) \div 2
  OBVIOUS
<1>7. b \div 128 = (b \div 64) \div 2
  OBVIOUS
<1> QED
  BY <1>1, <1>2, <1>3, <1>4, <1>5, <1>6, <1>7

LEMMA HalvesTyped ==
  \A b \in Nat : /\ b \div 2 \in Nat /\ b \div 4 \in Nat /\ b \div 8 \in Nat /\ b \div 16 \in Nat
      /\ b \div 32 \in Nat /\ b \div 64 \in Nat /\ b \div 128 \in Nat
OBVIOUS

LEMMA TopBit == \A b \in Byte : b \div 128 = (b \div 128) % 2
<1> TAKE b \in Byte
<1>1. b \in Nat /\ b <= 255
 BY DEF Byte
<1>2. b \div 128 \in 0 .. 1
  BY <1>1
<1> QED
  BY <1>2

\* Bytes that agree in every bit are one.
LEMMA BitsAreByte ==
  ASSUME NEW b \in Byte, NEW c \in Byte, \A bit \in Bits : Bit(b, bit) = Bit(c, bit)
  PROVE  b = c
<1>1. b \in Nat /\ c \in Nat
  BY DEF Byte
<1>2. /\ (b \div 1) % 2 = (c \div 1) % 2 /\ (b \div 2) % 2 = (c \div 2) % 2
      /\ (b \div 4) % 2 = (c \div 4) % 2 /\ (b \div 8) % 2 = (c \div 8) % 2
      /\ (b \div 16) % 2 = (c \div 16) % 2 /\ (b \div 32) % 2 = (c \div 32) % 2
      /\ (b \div 64) % 2 = (c \div 64) % 2 /\ (b \div 128) % 2 = (c \div 128) % 2
  <2>1. /\ Bit(b, 1) = Bit(c, 1) /\ Bit(b, 2) = Bit(c, 2) /\ Bit(b, 4) = Bit(c, 4)
        /\ Bit(b, 8) = Bit(c, 8) /\ Bit(b, 16) = Bit(c, 16) /\ Bit(b, 32) = Bit(c, 32)
        /\ Bit(b, 64) = Bit(c, 64) /\ Bit(b, 128) = Bit(c, 128)
    BY DEF Bits
  <2> QED
    BY <2>1 DEF Bit
<1>3. b \div 128 = c \div 128
  BY <1>2, TopBit
<1>4. b \div 64 = c \div 64
  BY <1>1, <1>2, <1>3, HalvesTyped, HalvesOfHalves, HalfAndBit
<1>5. b \div 32 = c \div 32
  BY <1>1, <1>2, <1>4, HalvesTyped, HalvesOfHalves, HalfAndBit
<1>6. b \div 16 = c \div 16
  BY <1>1, <1>2, <1>5, HalvesTyped, HalvesOfHalves, HalfAndBit
<1>7. b \div 8 = c \div 8
  BY <1>1, <1>2, <1>6, HalvesTyped, HalvesOfHalves, HalfAndBit
<1>8. b \div 4 = c \div 4
  BY <1>1, <1>2, <1>7, HalvesTyped, HalvesOfHalves, HalfAndBit
<1>9. b \div 2 = c \div 2
  BY <1>1, <1>2, <1>8, HalvesTyped, HalvesOfHalves, HalfAndBit
<1>10. b % 2 = c % 2
  BY <1>1, <1>2, HalvesOfHalves
<1> QED
  BY <1>1, <1>9, <1>10, HalfAndBit

\* A length in two bytes.
LEMMA Quotient ==
  ASSUME NEW n \in Nat, NEW q \in Nat, NEW r \in 0 .. 255, n = 256 * q + r
  PROVE  n \div 256 = q /\ n % 256 = r
<1>1. n \div 256 = q
  BY SMT
<1>2. n % 256 = r
  BY SMT
<1> QED
  BY <1>1, <1>2, SMT

LEMMA Halve ==
  \A b \in Nat : \E q \in Nat, r \in 0 .. 1 : b = 2 * q + r
BY Halves

LEMMA QuotientExists ==
  \A n \in Nat : \E q \in Nat, r \in 0 .. 255 : n = 256 * q + r
<1> TAKE n \in Nat
<1>1. PICK q1 \in Nat, r1 \in 0 .. 1 : n = 2 * q1 + r1
  BY Halve, Zenon
<1>2. PICK q2 \in Nat, r2 \in 0 .. 1 : q1 = 2 * q2 + r2
  BY Halve, Zenon
<1>3. PICK q3 \in Nat, r3 \in 0 .. 1 : q2 = 2 * q3 + r3
  BY Halve, Zenon
<1>4. PICK q4 \in Nat, r4 \in 0 .. 1 : q3 = 2 * q4 + r4
  BY Halve, Zenon
<1>5. PICK q5 \in Nat, r5 \in 0 .. 1 : q4 = 2 * q5 + r5
  BY Halve, Zenon
<1>6. PICK q6 \in Nat, r6 \in 0 .. 1 : q5 = 2 * q6 + r6
  BY Halve, Zenon
<1>7. PICK q7 \in Nat, r7 \in 0 .. 1 : q6 = 2 * q7 + r7
  BY Halve, Zenon
<1>8. PICK q8 \in Nat, r8 \in 0 .. 1 : q7 = 2 * q8 + r8
  BY Halve, Zenon
<1> DEFINE r == r1 + 2 * r2 + 4 * r3 + 8 * r4 + 16 * r5 + 32 * r6 + 64 * r7 + 128 * r8
<1>9. r \in 0 .. 255 /\ n = 256 * q8 + r
  BY <1>1, <1>2, <1>3, <1>4, <1>5, <1>6, <1>7, <1>8, SMT
<1> HIDE DEF r
<1> QED
  BY <1>9, SMT

\* More encode() throws for.
MaxData == 65535

LEMMA MaxDataIs == MaxData \in Nat /\ MaxData <= 65535
<1>1. MaxData = 65535
  BY SMT DEF MaxData
<1>2. 65535 \in Nat /\ 65535 <= 65535
  BY SMT
<1> QED
  BY <1>1, <1>2, SMT

LEMMA LengthInTwo ==
  ASSUME NEW n \in 0 .. MaxData
  PROVE n \div 256 \in Byte /\ n % 256 \in Byte /\ (n \div 256) * 256 + (n % 256) + 6 = n + 6
<1>0. n \in Nat /\ n <= 65535
  <2>1. n \in Nat /\ n <= MaxData
    BY MaxDataIs, SMT
  <2> QED
    BY <2>1, MaxDataIs, SMT
<1>1. PICK q \in Nat, r \in 0 .. 255 : n = 256 * q + r
  BY <1>0, QuotientExists, SMT
<1>2. n \div 256 = q /\ n % 256 = r
  BY <1>0, <1>1, Quotient, SMT
<1>3. q \in Byte /\ r \in Byte /\ q * 256 + r + 6 = n + 6
  BY <1>0, <1>1, SMT DEF Byte
<1>4. (n \div 256) * 256 + (n % 256) + 6 = q * 256 + r + 6
  BY <1>2, SMT
<1> HIDE DEF Byte
<1> QED
  BY <1>2, <1>3, <1>4, SMT

\* Binary numbers of eight digits.
LEMMA BinaryIs ==
  ASSUME NEW r0 \in 0 .. 1, NEW r1 \in 0 .. 1, NEW r2 \in 0 .. 1, NEW r3 \in 0 .. 1,
         NEW r4 \in 0 .. 1, NEW r5 \in 0 .. 1, NEW r6 \in 0 .. 1, NEW r7 \in 0 .. 1
  PROVE  r0 + 2 * r1 + 4 * r2 + 8 * r3 + 16 * r4 + 32 * r5 + 64 * r6 + 128 * r7 \in 0 .. 255
BY SMT

LEMMA BinaryOnce ==
  ASSUME NEW r0 \in 0 .. 1, NEW r1 \in 0 .. 1, NEW r2 \in 0 .. 1, NEW r3 \in 0 .. 1,
         NEW r4 \in 0 .. 1, NEW r5 \in 0 .. 1, NEW r6 \in 0 .. 1, NEW r7 \in 0 .. 1,
         NEW s0 \in 0 .. 1, NEW s1 \in 0 .. 1, NEW s2 \in 0 .. 1, NEW s3 \in 0 .. 1,
         NEW s4 \in 0 .. 1, NEW s5 \in 0 .. 1, NEW s6 \in 0 .. 1, NEW s7 \in 0 .. 1,
         r0 + 2 * r1 + 4 * r2 + 8 * r3 + 16 * r4 + 32 * r5 + 64 * r6 + 128 * r7
           = s0 + 2 * s1 + 4 * s2 + 8 * s3 + 16 * s4 + 32 * s5 + 64 * s6 + 128 * s7
  PROVE  /\ r0 = s0 /\ r1 = s1 /\ r2 = s2 /\ r3 = s3
         /\ r4 = s4 /\ r5 = s5 /\ r6 = s6 /\ r7 = s7
BY SMT

LEMMA WithIs ==
  ASSUME NEW bytes \in Seq(Byte), NEW bit \in Bits
  PROVE  /\ IsFiniteSet(With(bytes, bit)) /\ Cardinality(With(bytes, bit)) \in Nat
         /\ Odd(bytes, bit) = Cardinality(With(bytes, bit)) % 2
         /\ Odd(bytes, bit) \in {0, 1}
<1>1. DOMAIN bytes = 1 .. Len(bytes) /\ Len(bytes) \in Nat
  BY LenProperties
<1>2. IsFiniteSet(DOMAIN bytes)
  BY <1>1, FS_Interval
<1>3. IsFiniteSet(With(bytes, bit))
  BY <1>2, FS_Subset DEF With
<1>4. Cardinality(With(bytes, bit)) \in Nat
  BY <1>3, FS_CardinalityType
<1>5. Odd(bytes, bit) = Cardinality(With(bytes, bit)) % 2
  BY Zenon DEF Odd, With, Bit
<1> QED
  BY <1>3, <1>4, <1>5

LEMMA LrcTyped ==
  ASSUME NEW bytes \in Seq(Byte)
  PROVE  Lrc(bytes) \in Byte
<1>1. \A bit \in Bits : Odd(bytes, bit) \in {0, 1}
  BY WithIs
<1>2. /\ Odd(bytes, 1) \in {0, 1} /\ Odd(bytes, 2) \in {0, 1} /\ Odd(bytes, 4) \in {0, 1}
      /\ Odd(bytes, 8) \in {0, 1} /\ Odd(bytes, 16) \in {0, 1} /\ Odd(bytes, 32) \in {0, 1}
      /\ Odd(bytes, 64) \in {0, 1} /\ Odd(bytes, 128) \in {0, 1}
  BY <1>1 DEF Bits
<1> DEFINE r0 == Odd(bytes, 1)   r1 == Odd(bytes, 2)   r2 == Odd(bytes, 4)   r3 == Odd(bytes, 8)
           r4 == Odd(bytes, 16)  r5 == Odd(bytes, 32)  r6 == Odd(bytes, 64)  r7 == Odd(bytes, 128)
<1>3. /\ r0 \in 0 .. 1 /\ r1 \in 0 .. 1 /\ r2 \in 0 .. 1 /\ r3 \in 0 .. 1
      /\ r4 \in 0 .. 1 /\ r5 \in 0 .. 1 /\ r6 \in 0 .. 1 /\ r7 \in 0 .. 1
  BY <1>2
<1>4. Lrc(bytes) = r0 + 2 * r1 + 4 * r2 + 8 * r3 + 16 * r4 + 32 * r5 + 64 * r6 + 128 * r7
  BY DEF Lrc
<1> HIDE DEF r0, r1, r2, r3, r4, r5, r6, r7
<1>5. Lrc(bytes) \in 0 .. 255
  BY <1>3, <1>4, SMT
<1> QED
  BY <1>5, SMT DEF Byte

\* What x with y after it is, of lengths m and n.
IsBoth(z, x, y, m, n) ==
  /\ z \in Seq(Byte) /\ Len(z) = m + n
  /\ \A i \in 1 .. m : z[i] = x[i]
  /\ \A i \in 1 .. n : z[m + i] = y[i]

LEMMA BytesConcat ==
  ASSUME NEW x \in Seq(Byte), NEW y \in Seq(Byte),
         NEW m \in Nat, NEW n \in Nat, Len(x) = m, Len(y) = n
  PROVE  IsBoth(x \o y, x, y, m, n)
<1>1. /\ x \o y \in Seq(Byte) /\ Len(x \o y) = m + n
      /\ \A i \in 1 .. m + n : (x \o y)[i] = IF i <= m THEN x[i] ELSE y[i - m]
  BY ConcatProperties
<1>2. \A i \in 1 .. m : (x \o y)[i] = x[i]
  BY <1>1
<1>3. ASSUME NEW i \in 1 .. n PROVE (x \o y)[m + i] = y[i]
  <2>1. m + i \in 1 .. m + n /\ ~(m + i <= m) /\ m + i - m = i
    OBVIOUS
  <2> QED
    BY <1>1, <2>1
<1> QED
  BY <1>1, <1>2, <1>3 DEF IsBoth

LEMMA BytesEqual ==
  \A x, y \in Seq(Byte) : Len(x) = Len(y) /\ (\A i \in 1 .. Len(x) : x[i] = y[i]) => x = y
BY SeqEqual

LEMMA BytesCut ==
  ASSUME NEW e \in Seq(Byte), NEW m \in Nat, NEW n \in Nat, Len(e) >= m + n
  PROVE  /\ SubSeq(e, m + 1, m + n) \in Seq(Byte) /\ Len(SubSeq(e, m + 1, m + n)) = n
         /\ \A i \in 1 .. n : SubSeq(e, m + 1, m + n)[i] = e[m + i]
<1> DEFINE d == SubSeq(e, m + 1, m + n)
<1>1. Len(e) \in Nat /\ \A i \in 1 .. Len(e) : e[i] \in Byte
  BY LenProperties, ElementOfSeq
<1>2. m + 1 \in Int /\ m + n \in Int /\ \A i \in m + 1 .. m + n : e[i] \in Byte
  BY <1>1
<1>3. /\ d \in Seq(Byte) /\ Len(d) = IF m + 1 <= m + n THEN m + n - (m + 1) + 1 ELSE 0
      /\ \A i \in 1 .. m + n - (m + 1) + 1 : d[i] = e[m + 1 + i - 1]
  BY <1>2, SubSeqProperties
<1> HIDE DEF d
<1>4. ASSUME NEW i \in 1 .. n PROVE d[i] = e[m + i]
  <2>1. i \in 1 .. m + n - (m + 1) + 1 /\ m + 1 + i - 1 = m + i
    OBVIOUS
  <2> QED
    BY <1>3, <2>1
<1>5. Len(d) = n
  BY <1>3
<1> QED
  BY <1>3, <1>4, <1>5 DEF d

\* The frame of some data, byte by byte.
LEMMA EncodeIs ==
  ASSUME NEW data \in Seq(Byte), Len(data) <= MaxData
  PROVE  LET e == Encode(data)  n == Len(data) IN
         /\ e \in Seq(Byte) /\ Len(e) = n + 6
         /\ e[1] = 2 /\ e[2] = 102 /\ e[3] = 1
         /\ e[4] = n \div 256 /\ e[5] = n % 256
         /\ \A i \in 1 .. n : e[5 + i] = data[i]
         /\ e[n + 6] = Lrc(data)
<1> DEFINE n    == Len(data)
           head == Prefix \o <<n \div 256, n % 256>>
           body == head \o data
           last == <<Lrc(data)>>
           e    == body \o last
<1>9. Encode(data) = e
  BY SMT DEF Encode
<1>1. n \in Nat /\ n \div 256 \in Byte /\ n % 256 \in Byte
  <2>1. n \in 0 .. MaxData
    BY LenProperties
  <2> HIDE DEF n
  <2> QED
    BY <2>1, LengthInTwo, SMT
<1>2. /\ head \in Seq(Byte) /\ Len(head) = 5
      /\ head[1] = 2 /\ head[2] = 102 /\ head[3] = 1 /\ head[4] = n \div 256 /\ head[5] = n % 256
  <2> DEFINE h == n \div 256  l == n % 256  length == <<h, l>>
  <2>1. h \in Byte /\ l \in Byte
    BY <1>1
  <2>2. Prefix \in Seq(Byte) /\ Len(Prefix) = 3 /\ Prefix[1] = 2 /\ Prefix[2] = 102 /\ Prefix[3] = 1
    BY SMT DEF Prefix, Byte
  <2> HIDE DEF h, l
  <2>3. length \in Seq(Byte) /\ Len(length) = 2 /\ length[1] = h /\ length[2] = l
    BY <2>1
  <2>4. head = Prefix \o length
    BY DEF h, l
  <2> HIDE DEF length, head
  <2>5. /\ head \in Seq(Byte) /\ Len(head) = 3 + 2
        /\ \A i \in 1 .. 3 : head[i] = Prefix[i]
        /\ \A i \in 1 .. 2 : head[3 + i] = length[i]
    <3>1. Len(Prefix) = 3 /\ Len(length) = 2 /\ 3 \in Nat /\ 2 \in Nat
      BY <2>2, <2>3
    <3>2. Prefix \in Seq(Byte) /\ length \in Seq(Byte)
      BY <2>2, <2>3
    <3>3. IsBoth(Prefix \o length, Prefix, length, 3, 2)
      BY <3>1, <3>2, BytesConcat, Zenon
    <3> QED
      BY <2>4, <3>3 DEF IsBoth
  <2>6. head[1] = 2 /\ head[2] = 102 /\ head[3] = 1 /\ head[4] = h /\ head[5] = l
    <3>1. head[3 + 1] = length[1] /\ head[3 + 2] = length[2]
      BY <2>5, SMT
    <3> QED
      BY <2>2, <2>3, <2>5, <3>1, SMT
  <2> QED
    BY <2>5, <2>6, SMT DEF h, l
<1> HIDE DEF head, n
<1>3. last \in Seq(Byte) /\ Len(last) = 1 /\ last[1] = Lrc(data)
  <2>1. Lrc(data) \in Byte
    BY LrcTyped
  <2> QED
    BY <2>1
<1> HIDE DEF last
<1>4. /\ body \in Seq(Byte) /\ Len(body) = 5 + n
      /\ \A i \in 1 .. 5 : body[i] = head[i]
      /\ \A i \in 1 .. n : body[5 + i] = data[i]
  <2>1. Len(data) = n /\ Len(head) = 5 /\ 5 \in Nat /\ n \in Nat
    BY <1>1, <1>2 DEF n
  <2>2. head \in Seq(Byte)
    BY <1>2
  <2>3. IsBoth(head \o data, head, data, 5, n)
    BY <2>1, <2>2, BytesConcat, Zenon
  <2> QED
    BY <2>3 DEF IsBoth
<1> HIDE DEF body
<1>5. /\ e \in Seq(Byte) /\ Len(e) = 5 + n + 1
      /\ \A i \in 1 .. 5 + n : e[i] = body[i]
      /\ \A i \in 1 .. 1 : e[5 + n + i] = last[i]
  <2>1. Len(body) = 5 + n /\ Len(last) = 1 /\ 5 + n \in Nat /\ 1 \in Nat
    BY <1>1, <1>3, <1>4
  <2>2. body \in Seq(Byte) /\ last \in Seq(Byte)
    BY <1>3, <1>4
  <2>3. IsBoth(body \o last, body, last, 5 + n, 1)
    BY <2>1, <2>2, BytesConcat, Zenon
  <2> QED
    BY <2>3 DEF IsBoth
<1> HIDE DEF e
<1>6. \A i \in 1 .. 5 : e[i] = head[i]
  BY <1>1, <1>4, <1>5, SMT
<1>7. \A i \in 1 .. n : e[5 + i] = data[i]
  BY <1>1, <1>4, <1>5, SMT
<1>8. e[n + 6] = Lrc(data)
  <2>1. 1 \in 1 .. 1 /\ 5 + n + 1 = n + 6
    BY <1>1, SMT
  <2>2. e[5 + n + 1] = last[1]
    BY <1>5, <2>1, Zenon
  <2> QED
    BY <1>3, <2>1, <2>2, Zenon
<1>10. e[1] = 2 /\ e[2] = 102 /\ e[3] = 1 /\ e[4] = n \div 256 /\ e[5] = n % 256
  BY <1>2, <1>6
<1>11. Len(e) = n + 6
  BY <1>1, <1>5
<1> QED
  BY <1>5, <1>7, <1>8, <1>9, <1>10, <1>11 DEF n

\* What starts as the frame of so many bytes, and is as long, is whole.
Framed(e, n, data, check) ==
  /\ e \in Seq(Byte) /\ data \in Seq(Byte)
  /\ n \in 0 .. MaxData /\ Len(data) = n /\ Len(e) = n + 6
  /\ e[1] = 2 /\ e[2] = 102 /\ e[3] = 1
  /\ e[4] = n \div 256 /\ e[5] = n % 256
  /\ \A i \in 1 .. n : e[5 + i] = data[i]
  /\ e[n + 6] = check

LEMMA FramedIs ==
  ASSUME NEW e, NEW n, NEW data, NEW check, Framed(e, n, data, check)
  PROVE  /\ Whole(e)
         /\ Found(e) = IF Lrc(data) # check THEN "E02"
                       ELSE IF data \in Json THEN "request" ELSE "E03"
<1> USE DEF Framed
<1>1. \A i \in 1 .. n + 6 : e[i] \in Byte
  BY ElementOfSeq
<1>2. SubSeq(e, 1, 3) = Prefix
  <2> DEFINE p == SubSeq(e, 0 + 1, 0 + 3)
  <2>1. p \in Seq(Byte) /\ Len(p) = 3 /\ \A i \in 1 .. 3 : p[i] = e[0 + i]
    <3>1. Len(e) >= 0 + 3 /\ 0 \in Nat /\ 3 \in Nat
      OBVIOUS
    <3> QED
      BY <3>1, BytesCut
  <2>2. p = SubSeq(e, 1, 3)
    OBVIOUS
  <2> HIDE DEF p
  <2>3. p[1] = 2 /\ p[2] = 102 /\ p[3] = 1
    BY <2>1
  <2>4. Prefix \in Seq(Byte) /\ Len(Prefix) = 3 /\ Prefix[1] = 2 /\ Prefix[2] = 102 /\ Prefix[3] = 1
    BY DEF Prefix, Byte
  <2>5. \A i \in 1 .. 3 : p[i] = Prefix[i]
    BY <2>3, <2>4
  <2>6. p = Prefix
    <3>1. Len(p) = Len(Prefix) /\ \A i \in 1 .. Len(p) : p[i] = Prefix[i]
      BY <2>1, <2>4, <2>5
    <3> QED
      BY <2>1, <2>4, <3>1, BytesEqual, Zenon
  <2> QED
    BY <2>2, <2>6
<1>3. FrameLength(e) = n + 6
  <2>1. FrameLength(e) = (n \div 256) * 256 + (n % 256) + 6
    BY SMT DEF FrameLength
  <2> QED
    BY <2>1, LengthInTwo, SMT
<1>4. ~OutOfStep(e)
  BY <1>2 DEF OutOfStep
<1>5. Whole(e)
  BY <1>3, <1>4 DEF Whole, Waits
<1>6. SubSeq(e, 6, Len(e) - 1) = data
  <2> DEFINE d == SubSeq(e, 5 + 1, 5 + n)
  <2>1. n \in Nat /\ Len(e) >= 5 + n
    BY SMT
  <2>2. d \in Seq(Byte) /\ Len(d) = n /\ \A i \in 1 .. n : d[i] = e[5 + i]
    BY <2>1, BytesCut
  <2>3. 5 + 1 = 6 /\ Len(e) - 1 = 5 + n
    BY <2>1
  <2> HIDE DEF d
  <2>4. d = data
    <3>1. Len(d) = Len(data) /\ \A i \in 1 .. Len(d) : d[i] = data[i]
      BY <2>2
    <3> QED
      BY <2>2, <3>1, BytesEqual, Zenon
  <2> QED
    BY <2>3, <2>4, Zenon DEF d
<1>7. Found(e) = Verdict(e)
  BY <1>4 DEF Found
<1>8. e[Len(e)] = check
  OBVIOUS
<1>9. Verdict(e) = IF Lrc(data) # check THEN "E02"
                   ELSE IF data \in Json THEN "request" ELSE "E03"
  BY <1>6, <1>8, Zenon DEF Verdict
<1> QED
  BY <1>5, <1>7, <1>9

\* What encode() makes of JSON is a message, and a request to the decoder: the
\* two agree on the length, the data and the checksum, for any data that the two
\* bytes of the length allow.  (For more, encode() throws.)
THEOREM EncodedIsRequest ==
  \A data \in Seq(Byte) : Len(data) <= MaxData =>
    /\ Encode(data) \in Seq(Byte) /\ Whole(Encode(data))
    /\ Found(Encode(data)) = IF data \in Json THEN "request" ELSE "E03"
<1> TAKE data \in Seq(Byte)
<1> HAVE Len(data) <= MaxData
<1> DEFINE e == Encode(data)
<1>1. /\ e \in Seq(Byte) /\ Len(e) = Len(data) + 6
      /\ e[1] = 2 /\ e[2] = 102 /\ e[3] = 1
      /\ e[4] = Len(data) \div 256 /\ e[5] = Len(data) % 256
      /\ \A i \in 1 .. Len(data) : e[5 + i] = data[i]
      /\ e[Len(data) + 6] = Lrc(data)
  BY EncodeIs
<1>2. Len(data) \in 0 .. MaxData
  BY LenProperties
<1> HIDE DEF e
<1>3. Framed(e, Len(data), data, Lrc(data))
  BY <1>1, <1>2 DEF Framed
<1>4. Whole(e) /\ Found(e) = IF Lrc(data) # Lrc(data) THEN "E02"
                             ELSE IF data \in Json THEN "request" ELSE "E03"
  BY <1>3, FramedIs
<1> QED
  BY <1>1, <1>4 DEF e

\* Where two bytes differ, they differ in a bit.
LEMMA SomeBit ==
  ASSUME NEW b \in Byte, NEW c \in Byte, b # c
  PROVE  \E bit \in Bits : Bit(b, bit) # Bit(c, bit)
BY BitsAreByte

LEMMA OneMoreWith ==
  ASSUME NEW a \in Seq(Byte), NEW b \in Seq(Byte), Len(a) = Len(b),
         NEW j \in 1 .. Len(a), \A i \in 1 .. Len(a) : i # j => a[i] = b[i],
         NEW bit \in Bits, Bit(a[j], bit) = 1, Bit(b[j], bit) # 1
  PROVE  Odd(a, bit) # Odd(b, bit)
<1>1. DOMAIN a = 1 .. Len(a) /\ DOMAIN b = 1 .. Len(a)
  BY LenProperties
<1>2. With(a, bit) = With(b, bit) \cup {j} /\ j \notin With(b, bit)
  BY <1>1 DEF With
<1>3. Cardinality(With(a, bit)) = Cardinality(With(b, bit)) + 1
  BY <1>2, WithIs, FS_AddElement
<1>4. /\ Odd(a, bit) = Cardinality(With(a, bit)) % 2 /\ Odd(b, bit) = Cardinality(With(b, bit)) % 2
      /\ Cardinality(With(b, bit)) \in Nat
  BY WithIs
<1> DEFINE c == Cardinality(With(b, bit))
<1>5. c \in Nat /\ Odd(a, bit) = (c + 1) % 2 /\ Odd(b, bit) = c % 2
  BY <1>3, <1>4
<1> HIDE DEF c
<1>6. (c + 1) % 2 # c % 2
  BY <1>5, SMT
<1> QED
  BY <1>5, <1>6

LEMMA LrcDiffers ==
  ASSUME NEW a \in Seq(Byte), NEW b \in Seq(Byte), Len(a) = Len(b),
         NEW j \in 1 .. Len(a), \A i \in 1 .. Len(a) : i # j => a[i] = b[i], a[j] # b[j]
  PROVE  Lrc(a) # Lrc(b)
<1>1. a[j] \in Byte /\ b[j] \in Byte
  BY ElementOfSeq
<1>2. PICK bit \in Bits : Bit(a[j], bit) # Bit(b[j], bit)
  BY <1>1, SomeBit
<1>3. Bit(a[j], bit) \in {0, 1} /\ Bit(b[j], bit) \in {0, 1}
  BY <1>1, BitIs
<1>4. Odd(a, bit) # Odd(b, bit)
  <2>1. CASE Bit(a[j], bit) = 1
    <3>1. Bit(b[j], bit) # 1
      BY <1>2, <2>1
    <3> QED
      BY <2>1, <3>1, OneMoreWith
  <2>2. CASE Bit(a[j], bit) # 1
    <3>1. Bit(b[j], bit) = 1
      BY <1>2, <1>3, <2>2
    <3>2. j \in 1 .. Len(b) /\ \A i \in 1 .. Len(b) : i # j => b[i] = a[i]
      OBVIOUS
    <3> QED
      BY <2>2, <3>1, <3>2, OneMoreWith
  <2> QED
    BY <2>1, <2>2
<1> DEFINE r0 == Odd(a, 1)   r1 == Odd(a, 2)   r2 == Odd(a, 4)   r3 == Odd(a, 8)
           r4 == Odd(a, 16)  r5 == Odd(a, 32)  r6 == Odd(a, 64)  r7 == Odd(a, 128)
           s0 == Odd(b, 1)   s1 == Odd(b, 2)   s2 == Odd(b, 4)   s3 == Odd(b, 8)
           s4 == Odd(b, 16)  s5 == Odd(b, 32)  s6 == Odd(b, 64)  s7 == Odd(b, 128)
<1>5. \A s \in {a, b} : \A k \in Bits : Odd(s, k) \in {0, 1}
  BY WithIs
<1>6. /\ r0 \in 0 .. 1 /\ r1 \in 0 .. 1 /\ r2 \in 0 .. 1 /\ r3 \in 0 .. 1
      /\ r4 \in 0 .. 1 /\ r5 \in 0 .. 1 /\ r6 \in 0 .. 1 /\ r7 \in 0 .. 1
      /\ s0 \in 0 .. 1 /\ s1 \in 0 .. 1 /\ s2 \in 0 .. 1 /\ s3 \in 0 .. 1
      /\ s4 \in 0 .. 1 /\ s5 \in 0 .. 1 /\ s6 \in 0 .. 1 /\ s7 \in 0 .. 1
  BY <1>5, SMT DEF Bits
<1>7. /\ Lrc(a) = r0 + 2 * r1 + 4 * r2 + 8 * r3 + 16 * r4 + 32 * r5 + 64 * r6 + 128 * r7
      /\ Lrc(b) = s0 + 2 * s1 + 4 * s2 + 8 * s3 + 16 * s4 + 32 * s5 + 64 * s6 + 128 * s7
  BY DEF Lrc
<1>8. ~(r0 = s0 /\ r1 = s1 /\ r2 = s2 /\ r3 = s3 /\ r4 = s4 /\ r5 = s5 /\ r6 = s6 /\ r7 = s7)
  BY <1>4, SMT DEF Bits
<1> HIDE DEF r0, r1, r2, r3, r4, r5, r6, r7, s0, s1, s2, s3, s4, s5, s6, s7
<1>9. ASSUME Lrc(a) = Lrc(b) PROVE FALSE
  <2>1. r0 + 2 * r1 + 4 * r2 + 8 * r3 + 16 * r4 + 32 * r5 + 64 * r6 + 128 * r7
          = s0 + 2 * s1 + 4 * s2 + 8 * s3 + 16 * s4 + 32 * s5 + 64 * s6 + 128 * s7
    BY <1>7, <1>9
  <2> QED
    BY <1>6, <1>8, <2>1, BinaryOnce, SMT
<1> QED
  BY <1>9

\* A frame with one byte of its data changed on the way, or its checksum, is
\* never taken for a request: the decoder finds its checksum wrong (E02).
THEOREM OneWrongByteIsFound ==
  ASSUME NEW data \in Seq(Byte), Len(data) <= MaxData,
         NEW raw \in Seq(Byte), Len(raw) = Len(Encode(data)),
         NEW k \in 6 .. Len(raw), raw[k] # Encode(data)[k],
         \A i \in 1 .. Len(raw) : i # k => raw[i] = Encode(data)[i]
  PROVE  Whole(raw) /\ Found(raw) = "E02"
<1> DEFINE e    == Encode(data)
           n    == Len(data)
           mine == SubSeq(raw, 5 + 1, 5 + n)
<1>1. n \in 0 .. MaxData
  BY LenProperties
<1>2. /\ e \in Seq(Byte) /\ Len(e) = n + 6
      /\ e[1] = 2 /\ e[2] = 102 /\ e[3] = 1
      /\ e[4] = n \div 256 /\ e[5] = n % 256
      /\ \A i \in 1 .. n : e[5 + i] = data[i]
      /\ e[n + 6] = Lrc(data)
  BY EncodeIs
<1>3. Len(raw) = n + 6 /\ k \in 6 .. n + 6 /\ raw[k] # e[k] /\ \A i \in 1 .. n + 6 : i # k => raw[i] = e[i]
  BY <1>2
<1> HIDE DEF e, n
<1>4. mine \in Seq(Byte) /\ Len(mine) = n /\ \A i \in 1 .. n : mine[i] = raw[5 + i]
  <2>1. n \in Nat /\ Len(raw) >= 5 + n
    BY <1>1, <1>3, SMT
  <2> QED
    BY <2>1, BytesCut
<1> HIDE DEF mine
<1>5. /\ raw[1] = 2 /\ raw[2] = 102 /\ raw[3] = 1
      /\ raw[4] = n \div 256 /\ raw[5] = n % 256
  BY <1>1, <1>2, <1>3
<1>6. /\ Whole(raw)
      /\ Found(raw) = IF Lrc(mine) # raw[n + 6] THEN "E02"
                      ELSE IF mine \in Json THEN "request" ELSE "E03"
  <2>1. Framed(raw, n, mine, raw[n + 6])
    BY <1>1, <1>3, <1>4, <1>5 DEF Framed
  <2> QED
    BY <2>1, FramedIs
<1>7. Lrc(mine) # raw[n + 6]
  <2>1. CASE k = n + 6
    <3>1. \A i \in 1 .. n : mine[i] = data[i]
      <4> TAKE i \in 1 .. n
      <4>1. 5 + i \in 1 .. n + 6 /\ 5 + i # k
        BY <1>1, <2>1
      <4> QED
        BY <1>2, <1>3, <1>4, <4>1
    <3>2. mine = data
      BY <1>4, <3>1, SeqEqual DEF n
    <3> QED
      BY <1>2, <1>3, <2>1, <3>2
  <2>2. CASE k # n + 6
    <3>1. PICK j \in 1 .. n : 5 + j = k
      BY <1>1, <1>3, <2>2
    <3>2. \A i \in 1 .. n : i # j => mine[i] = data[i]
      <4> TAKE i \in 1 .. n
      <4> HAVE i # j
      <4>1. 5 + i \in 1 .. n + 6 /\ 5 + i # k
        BY <1>1, <3>1
      <4> QED
        BY <1>2, <1>3, <1>4, <4>1
    <3>3. mine[j] # data[j]
      BY <1>2, <1>3, <1>4, <3>1
    <3>4. Lrc(mine) # Lrc(data)
      BY <1>4, <3>1, <3>2, <3>3, LrcDiffers DEF n
    <3>5. raw[n + 6] = Lrc(data)
      BY <1>1, <1>2, <1>3, <2>2
    <3> QED
      BY <3>4, <3>5
  <2> QED
    BY <2>1, <2>2
<1> QED
  BY <1>6, <1>7

\* Any JSON that is encoded, message after message, is heard as that many
\* requests and nothing else, however the network cuts the bytes.
THEOREM EncodedAreHeard ==
  ASSUME NEW values \in Seq(Seq(Byte)),
         \A i \in DOMAIN values : Len(values[i]) <= MaxData /\ values[i] \in Json,
         NEW chunks \in Seq(Seq(Byte)),
         Joined(chunks) = Joined([i \in DOMAIN values |-> Encode(values[i])])
  PROVE  /\ Heard(Decode(chunks).frames) = [i \in DOMAIN values |-> "request"]
         /\ Decode(chunks).pending = << >>
<1> DEFINE stream == [i \in DOMAIN values |-> Encode(values[i])]
           found  == [i \in DOMAIN stream |-> Found(stream[i])]
           tail   == << >>
<1>1. /\ Len(values) \in Nat /\ DOMAIN values = 1 .. Len(values)
      /\ \A i \in 1 .. Len(values) : values[i] \in Seq(Byte)
  BY LenProperties, ElementOfSeq
<1>2. ASSUME NEW i \in DOMAIN values
      PROVE  Encode(values[i]) \in Bytes /\ Whole(Encode(values[i])) /\ Found(Encode(values[i])) = "request"
  <2>1. values[i] \in Seq(Byte) /\ Len(values[i]) <= MaxData /\ values[i] \in Json
    BY <1>1
  <2> QED
    BY <2>1, EncodedIsRequest, Zenon DEF Bytes
<1>3. DOMAIN stream = DOMAIN values /\ \A i \in DOMAIN values : stream[i] = Encode(values[i])
  OBVIOUS
<1>4. stream \in [1 .. Len(values) -> Bytes]
  BY <1>1, <1>2
<1>5. stream \in Seq(Bytes)
  BY <1>1, <1>4
<1>6. Joined(chunks) = Joined(stream)
  OBVIOUS
<1> HIDE DEF stream
<1>7. found = [i \in DOMAIN values |-> "request"]
  BY <1>2, <1>3
<1>8. Joined(stream) \o << >> = Joined(stream)
  <2>1. Joined(stream) \in Seq(Byte)
    BY <1>5, ChunksSame DEF Bytes
  <2> QED
    BY <2>1, ConcatEmptySeq
<1>9. tail \in Seq(Byte) /\ Waits(tail)
  BY EmptySeq DEF Waits
<1>10. Joined(chunks) = Joined(stream) \o tail
  BY <1>6, <1>8
<1> HIDE DEF tail
<1>11. stream \in Seq(Seq(Byte)) /\ \A i \in DOMAIN stream : Whole(stream[i]) \/ OutOfStep(stream[i])
  BY <1>2, <1>3, <1>5 DEF Bytes
<1>12. /\ Heard(Decode(chunks).frames) = Heard(found)
       /\ Contains(found, "fatal") \/ Decode(chunks).pending = tail
  BY <1>9, <1>10, <1>11, MessagesAreHeard
<1>13. ~Contains(found, "fatal")
  <2>1. found = [i \in 1 .. Len(values) |-> "request"]
    BY <1>1, <1>7
  <2> HIDE DEF found
  <2>2. Len(found) = Len(values) /\ \A i \in 1 .. Len(values) : found[i] = "request"
    BY <1>1, <2>1
  <2> QED
    BY <2>2 DEF Contains
<1>14. Heard(found) = found
  BY <1>13, Zenon DEF Heard
<1> QED
  BY <1>7, <1>12, <1>13, <1>14 DEF tail

-----------------------------------------------------------------------------
\* The frames that wait on a connection.

LEMMA PartOfBytes ==
  ASSUME NEW b \in Seq(Byte), NEW m \in 1 .. Len(b) + 1, NEW n \in 0 .. Len(b)
  PROVE  SubSeq(b, m, n) \in Seq(Byte)
<1>1. Len(b) \in Nat /\ \A i \in 1 .. Len(b) : b[i] \in Byte
  BY LenProperties, ElementOfSeq
<1>2. \A i \in m .. n : b[i] \in Byte
  BY <1>1
<1> QED
  BY <1>2, SubSeqProperties

LEMMA JoinedThree ==
  ASSUME NEW a \in Seq(Byte), NEW b \in Seq(Byte), NEW c \in Seq(Byte)
  PROVE  <<a, b, c>> \in Seq(Seq(Byte)) /\ Joined(<<a, b, c>>) = (a \o b) \o c
<1> DEFINE s == <<a, b, c>>
<1>1. s \in Seq(Bytes) /\ Len(s) = 3 /\ s[1] = a /\ s[2] = b /\ s[3] = c
  <2>1. a \in Bytes /\ b \in Bytes /\ c \in Bytes
    BY DEF Bytes
  <2> QED
    BY <2>1
<1> HIDE DEF s
<1>2. s \in Seq(Seq(Byte))
  BY <1>1 DEF Bytes
<1>3. PICK f \in [0 .. Len(s) -> Bytes] :
        /\ f[0] = << >>
        /\ \A k \in 1 .. Len(s) : f[k] = f[k - 1] \o s[k]
        /\ Joined(s) = f[Len(s)]
  BY <1>2, JoinedIs
<1>4. \A k \in 1 .. 3 : f[k] = f[k - 1] \o s[k]
  BY <1>1, <1>3
<1>5. f[1] = f[0] \o s[1] /\ f[2] = f[1] \o s[2] /\ f[3] = f[2] \o s[3]
  <2>1. 1 \in 1 .. 3 /\ 2 \in 1 .. 3 /\ 3 \in 1 .. 3 /\ 1 - 1 = 0 /\ 2 - 1 = 1 /\ 3 - 1 = 2
    OBVIOUS
  <2>2. f[1] = f[1 - 1] \o s[1] /\ f[2] = f[2 - 1] \o s[2] /\ f[3] = f[3 - 1] \o s[3]
    BY <1>4, <2>1, Zenon
  <2> QED
    BY <2>1, <2>2, Zenon
<1>6. << >> \o a = a
  BY ConcatEmptySeq
<1>7. Joined(s) = f[3] /\ f[0] = << >>
  BY <1>1, <1>3
<1>8. Joined(s) = (a \o b) \o c
  BY <1>1, <1>5, <1>6, <1>7, Zenon
<1> QED
  BY <1>2, <1>8 DEF s

\* Three chunks are chunks.
LEMMA AlikeAll ==
  ASSUME NEW stream \in Seq(Seq(Byte)),
         \A i \in DOMAIN stream : Whole(stream[i]) \/ OutOfStep(stream[i]),
         NEW tail \in Seq(Byte), Waits(tail)
  PROVE  Alike(stream, tail)
<1> DEFINE bytes == Joined(stream) \o tail
           found == [i \in DOMAIN stream |-> Found(stream[i])]
           chunks(i, j) == <<SubSeq(bytes, 1, i), SubSeq(bytes, i + 1, j),
                             SubSeq(bytes, j + 1, Len(bytes))>>
<1>1. bytes \in Seq(Byte)
  <2>1. Joined(stream) \in Seq(Byte)
    BY ChunksSame
  <2> QED
    BY <2>1, ConcatProperties
<1>2. ASSUME NEW i \in 0 .. Len(bytes), NEW j \in i .. Len(bytes)
      PROVE  chunks(i, j) \in Seq(Seq(Byte)) /\ Joined(chunks(i, j)) = Joined(stream) \o tail
  <2> DEFINE all == bytes
  <2>1. all \in Seq(Byte) /\ all = Joined(stream) \o tail /\ Len(all) = Len(bytes)
    BY <1>1
  <2> HIDE DEF all, bytes
  <2>2. /\ Len(all) \in Nat /\ i \in 0 .. Len(all) /\ j \in i .. Len(all) /\ j \in 0 .. Len(all)
        /\ 1 \in 1 .. Len(all) + 1 /\ i + 1 \in 1 .. Len(all) + 1 /\ j + 1 \in 1 .. Len(all) + 1
        /\ i \in 1 - 1 .. Len(all) /\ j \in 1 - 1 .. Len(all)
        /\ Len(all) \in 0 .. Len(all) /\ Len(all) \in j .. Len(all)
    BY <2>1, LenProperties
  <2> DEFINE a == SubSeq(all, 1, i)
             b == SubSeq(all, i + 1, j)
             c == SubSeq(all, j + 1, Len(all))
  <2>3. a \in Seq(Byte) /\ b \in Seq(Byte) /\ c \in Seq(Byte)
    BY <2>1, <2>2, PartOfBytes
  <2>4. a \o b = SubSeq(all, 1, j)
    BY <2>1, <2>2, ConcatAdjacentSubSeq
  <2>5. SubSeq(all, 1, j) \o c = SubSeq(all, 1, Len(all))
    BY <2>1, <2>2, ConcatAdjacentSubSeq
  <2>6. SubSeq(all, 1, Len(all)) = all
    BY <2>1, SubSeqFull
  <2>7. <<a, b, c>> \in Seq(Seq(Byte)) /\ Joined(<<a, b, c>>) = (a \o b) \o c
    <3> HIDE DEF a, b, c
    <3> QED
      BY <2>3, JoinedThree
  <2>8. chunks(i, j) = <<a, b, c>>
    BY DEF all
  <2> HIDE DEF a, b, c, chunks
  <2>9. Joined(chunks(i, j)) = all
    BY <2>4, <2>5, <2>6, <2>7, <2>8, Zenon
  <2> QED
    BY <2>1, <2>7, <2>8, <2>9
<1>3. ASSUME NEW i \in 0 .. Len(bytes), NEW j \in i .. Len(bytes)
      PROVE  LET decoded == Decode(chunks(i, j))
             IN  /\ Heard(decoded.frames) = Heard(found)
                 /\ Contains(found, "fatal") \/ decoded.pending = tail
  <2> DEFINE cut == chunks(i, j)
  <2>1. cut \in Seq(Seq(Byte)) /\ Joined(cut) = Joined(stream) \o tail
    BY <1>2
  <2> HIDE DEF cut
  <2>2. /\ Heard(Decode(cut).frames) = Heard([k \in DOMAIN stream |-> Found(stream[k])])
        /\ Contains([k \in DOMAIN stream |-> Found(stream[k])], "fatal") \/ Decode(cut).pending = tail
    BY <2>1, MessagesAreHeard
  <2> QED
    BY <2>2, Zenon DEF cut
<1> QED
  BY <1>3, Zenon DEF Alike

\* Nothing that clients send decodes differently.
LEMMA AllDecodedAlike == DecodedAlike = {Kinds(s) : s \in Streams}
<1>1. ASSUME NEW s \in Streams, NEW t \in Tails PROVE Alike(s, t)
  <2>1. PICK p \in Peers : \E n \in 0 .. MaxSent[p] : s \in [1 .. n -> Messages]
    BY DEF Streams
  <2>2. PICK n \in 0 .. MaxSent[p] : s \in [1 .. n -> Messages]
    BY <2>1
  <2>3. n \in Nat
    BY <2>2, SsiServerAssumption
  <2>4. \A i \in 1 .. n : s[i] \in Messages
    BY <2>2
  <2>5. \A i \in 1 .. n : s[i] \in Bytes /\ (Whole(s[i]) \/ OutOfStep(s[i]))
    BY <2>4, SsiWireAssumption, Zenon DEF Bytes
  <2>6. s \in [1 .. n -> Bytes]
    BY <2>2, <2>5
  <2>7. s \in Seq(Bytes)
    BY <2>3, <2>6
  <2>8. s \in Seq(Seq(Byte)) /\ DOMAIN s = 1 .. n
    BY <2>2, <2>7 DEF Bytes
  <2>9. t \in Seq(Byte) /\ Waits(t)
    BY SsiWireAssumption, Zenon
  <2> QED
    BY <2>5, <2>8, <2>9, AlikeAll
<1>2. {s \in Streams : \E t \in Tails : ~Alike(s, t)} = {}
  BY <1>1, Zenon
<1> QED
  BY <1>2, Zenon DEF DecodedAlike

\* No client sends more than it may.
SentInv == \A p \in Peers : sockets[p].sent <= MaxSent[p]

LEMMA PutSent ==
  ASSUME SsiInv, SentInv, NEW p \in Peers, NEW s, s.sent <= MaxSent[p], Put(p, s)
  PROVE  SentInv'
<1>1. sockets \in [Peers -> Socket]
  BY DEF SsiInv, LineInv
<1> QED
  BY <1>1 DEF Put, SentInv

LEMMA ServingSent ==
  ASSUME SsiInv, SentInv, NEW p \in Peers, Serving(p)
  PROVE  SentInv'
<1>1. sockets[p] \in Socket /\ sockets[p].sent <= MaxSent[p]
  BY DEF SsiInv, LineInv, SentInv
<1>2. PICK i \in Turn(p) : \/ Skip(p, i) \/ Fatal(p, i) \/ Begin(p, i) \/ BeginFails(p, i)
                           \/ Resume(p, i) \/ Written(p, i)
  BY DEF Serving
<1>3. /\ Served(p, i).sent = sockets[p].sent
      /\ Destroyed(p, i).sent = sockets[p].sent
      /\ [Served(p, i) EXCEPT !.answered = Append(@, sockets[p].queue[i].n)].sent = sockets[p].sent
  BY <1>1 DEF Socket, Served, Destroyed
<1>4. ASSUME NEW stage, NEW left PROVE Staged(p, i, stage, left).sent = sockets[p].sent
  BY <1>1 DEF Socket, Staged
<1>5. CASE Skip(p, i)
  <2>1. Put(p, Served(p, i))
    BY <1>5 DEF Skip
  <2> QED
    BY <1>1, <1>3, <2>1, PutSent
<1>6. CASE Fatal(p, i) \/ BeginFails(p, i)
  <2>1. Put(p, Destroyed(p, i))
    BY <1>6 DEF Fatal, BeginFails
  <2> QED
    BY <1>1, <1>3, <2>1, PutSent
<1>7. CASE Begin(p, i)
  <2>1. \/ Put(p, Served(p, i)) \/ Put(p, Destroyed(p, i))
        \/ \E stage, left : Put(p, Staged(p, i, stage, left))
    BY <1>7, Zenon DEF Begin
  <2> QED
    BY <1>1, <1>3, <1>4, <2>1, PutSent
<1>8. CASE Resume(p, i)
  <2>1. \E stage, left : Put(p, Staged(p, i, stage, left))
    BY <1>8, Zenon DEF Resume
  <2> QED
    BY <1>1, <1>4, <2>1, PutSent
<1>9. CASE Written(p, i)
  <2>1. Put(p, [Served(p, i) EXCEPT !.answered = Append(@, sockets[p].queue[i].n)])
    BY <1>9 DEF Written
  <2> QED
    BY <1>1, <1>3, <2>1, PutSent
<1> QED
  BY <1>2, <1>5, <1>6, <1>7, <1>8, <1>9

LEMMA SentStep == SsiInv /\ SentInv /\ [Next]_ssiVars => SentInv'
<1> SUFFICES ASSUME SsiInv, SentInv, [Next]_ssiVars
             PROVE  SentInv'
  OBVIOUS
<1>1. sockets \in [Peers -> Socket] /\ \A p \in Peers : sockets[p].sent \in Nat /\ MaxSent[p] \in Nat
  BY SocketFields, SsiServerAssumption DEF SsiInv, LineInv
<1>2. ASSUME UNCHANGED sockets PROVE SentInv'
  BY <1>2 DEF SentInv
<1>3. CASE Pass \/ Ticks \/ TicksFail \/ \E scenario \in Scenarios : Arms(scenario)
  BY <1>2, <1>3 DEF Pass, Ticks, TicksFail, Arms
<1>4. ASSUME NEW p \in Peers, Connect(p) PROVE SentInv'
  <2>1. [NewSocket EXCEPT !.at = "open"].sent = 0
    BY DEF NewSocket
  <2>2. PICK s : Put(p, s) /\ s = [NewSocket EXCEPT !.at = "open"]
    BY <1>4 DEF Connect
  <2>3. s.sent <= MaxSent[p]
    BY <1>1, <2>1, <2>2
  <2> QED
    BY <2>2, <2>3, PutSent
<1>5. ASSUME NEW p \in Peers, NEW request \in Requests[p], Data(p, request) PROVE SentInv'
  <2>1. sockets[p] \in Socket /\ sockets[p].sent + 1 <= MaxSent[p]
    BY <1>1, <1>5 DEF Data
  <2> DEFINE old == sockets[p]
             outOfStep == IF old.outOfStep = 0 /\ request.frame = "fatal"
                          THEN old.sent + 1 ELSE old.outOfStep
             line == Append(old.queue, [n |-> old.sent + 1, stage |-> "queued", left |-> 0,
                                        request |-> request, generation |-> terminal.generation])
             s == [old EXCEPT !.sent = old.sent + 1, !.outOfStep = outOfStep, !.queue = line]
  <2>2. Put(p, s)
    BY <1>5 DEF Data
  <2> HIDE DEF outOfStep, line
  <2>3. s.sent = sockets[p].sent + 1
    BY <2>1 DEF Socket
  <2> HIDE DEF s
  <2> QED
    BY <2>1, <2>2, <2>3, PutSent
<1>6. ASSUME NEW p \in Peers, Serving(p) PROVE SentInv'
  BY <1>6, ServingSent
<1>7. ASSUME NEW p \in Peers, Hang(p) \/ Closed(p) PROVE SentInv'
  <2>1. sockets[p] \in Socket /\ sockets[p].sent <= MaxSent[p]
    BY <1>1 DEF SentInv
  <2>2. /\ [sockets[p] EXCEPT !.at = "destroyed"].sent = sockets[p].sent
        /\ [sockets[p] EXCEPT !.at = "closed", !.queue = << >>].sent = sockets[p].sent
    BY <2>1 DEF Socket
  <2>3. \/ Put(p, [sockets[p] EXCEPT !.at = "destroyed"])
        \/ Put(p, [sockets[p] EXCEPT !.at = "closed", !.queue = << >>])
    BY <1>7 DEF Hang, Closed
  <2> QED
    BY <2>1, <2>2, <2>3, PutSent
<1>8. CASE (\E preserve_result \in BOOLEAN : Resets(preserve_result)) \/ Restart
  <2>1. ASSUME NEW p \in Peers PROVE sockets'[p].sent = sockets[p].sent
    <3> DEFINE old == sockets[p]
    <3>1. old \in Socket
      BY <1>1
    <3>2. CASE \E preserve_result \in BOOLEAN : Resets(preserve_result)
      <4>1. sockets'[p] = IF old.at = "open" THEN [old EXCEPT !.at = "destroyed"] ELSE old
        BY <3>2 DEF Resets
      <4> HIDE DEF old
      <4>2. sockets'[p].sent = old.sent
        BY <3>1, <4>1 DEF Socket
      <4> QED
        BY <4>2 DEF old
    <3>3. CASE Restart
      <4>1. \E at : sockets'[p] = [old EXCEPT !.at = at, !.queue = << >>]
        BY <3>3 DEF Restart
      <4> HIDE DEF old
      <4>2. sockets'[p].sent = old.sent
        BY <3>1, <4>1 DEF Socket
      <4> QED
        BY <4>2 DEF old
    <3> QED
      BY <1>8, <3>2, <3>3
  <2> QED
    BY <2>1 DEF SentInv
<1>9. CASE UNCHANGED ssiVars
  BY <1>2, <1>9 DEF ssiVars
<1> QED
  BY <1>3, <1>4, <1>5, <1>6, <1>7, <1>8, <1>9 DEF Next

\* The requests that wait are numbered apart, by what has been sent.
LEMMA FewWait ==
  ASSUME SsiInv, SentInv, NEW p \in Peers
  PROVE  Len(sockets[p].queue) \in 0 .. MaxSent[p]
<1> DEFINE queue == sockets[p].queue
           len   == Len(queue)
           T     == {k \in Nat : k = 0 \/ k <= queue[k].n}
<1>1. /\ sockets[p] \in Socket /\ InLine(sockets[p], terminal.generation)
      /\ sockets[p].sent <= MaxSent[p] /\ MaxSent[p] \in Nat /\ sockets[p].sent \in Nat
      /\ len \in Nat /\ \A k \in 1 .. len : queue[k].n \in Nat
  BY SocketFields, JobFields, SsiServerAssumption DEF SsiInv, LineInv, SentInv
<1>2. /\ \A k \in 1 .. len : 1 <= queue[k].n /\ queue[k].n <= sockets[p].sent
      /\ \A j, k \in 1 .. len : j < k => queue[j].n < queue[k].n
  BY <1>1 DEF InLine
<1> HIDE DEF queue, len
<1>3. ASSUME NEW k \in 1 .. len, k - 1 \in T PROVE k \in T
  <2>1. CASE k = 1
    BY <1>1, <1>2, <2>1
  <2>2. CASE k # 1
    <3>1. k - 1 \in 1 .. len /\ k - 1 < k /\ k - 1 # 0 /\ k \in Nat
      BY <1>1, <2>2
    <3>2. queue[k - 1].n < queue[k].n /\ queue[k - 1].n \in Nat /\ queue[k].n \in Nat
      BY <1>1, <1>2, <3>1
    <3>3. k - 1 <= queue[k - 1].n
      BY <1>3, <3>1
    <3> QED
      BY <3>1, <3>2, <3>3
  <2> QED
    BY <2>1, <2>2
<1>4. 0 \in T
  OBVIOUS
<1> HIDE DEF T
<1>5. len \in T
  <2>1. \A k \in 0 .. len : k \in T
    BY <1>1, <1>3, <1>4, Climb
  <2> QED
    BY <1>1, <2>1
<1>6. len = 0 \/ len <= queue[len].n
  BY <1>5 DEF T
<1>7. len <= MaxSent[p]
  BY <1>1, <1>2, <1>6
<1> QED
  BY <1>1, <1>7 DEF queue, len

\* Whatever the clients send, in whatever chunks, and whatever happens to their
\* connections: the frames that wait are, in their order, ones that the decoder
\* makes of the bytes however these are cut.
THEOREM ChunksDecodedAlike == Spec => []ChunksDoNotMatter
<1>1. Init => SentInv
  BY SsiServerAssumption DEF Init, SentInv, NewSocket
<1>2. SsiInv /\ SentInv /\ [Next]_ssiVars => SentInv'
  BY SentStep
<1>3. SsiInv /\ SentInv => ChunksDoNotMatter
  <2> SUFFICES ASSUME SsiInv, SentInv, NEW p \in Peers
               PROVE  LET queue == sockets[p].queue
                      IN  [i \in DOMAIN queue |-> queue[i].request.frame] \in DecodedAlike
    BY DEF ChunksDoNotMatter
  <2> DEFINE queue == sockets[p].queue
             len   == Len(queue)
             s     == [i \in 1 .. len |-> CHOOSE m \in Messages : Kind(m) = queue[i].request.frame]
  <2>1. /\ len \in 0 .. MaxSent[p] /\ DOMAIN queue = 1 .. len
        /\ \A i \in 1 .. len : queue[i].request.frame \in {"request", "garbled", "fatal"}
    <3>1. sockets[p] \in Socket
      BY DEF SsiInv, LineInv
    <3>2. \A i \in 1 .. len : queue[i].request \in Request
      BY <3>1, SocketFields, JobFields
    <3> QED
      BY <3>1, <3>2, SocketFields, FewWait DEF Request
  <2> HIDE DEF queue, len
  <2>2. \A i \in 1 .. len : s[i] \in Messages /\ Kind(s[i]) = queue[i].request.frame
    <3> SUFFICES ASSUME NEW i \in 1 .. len
                 PROVE  s[i] \in Messages /\ Kind(s[i]) = queue[i].request.frame
      OBVIOUS
    <3>1. \E m \in Messages : Kind(m) = queue[i].request.frame
      BY <2>1, SsiWireAssumption, Zenon
    <3> QED
      BY <3>1, Zenon
  <2>3. s \in [1 .. len -> Messages] /\ DOMAIN s = 1 .. len
    BY <2>2
  <2> HIDE DEF s
  <2>4. s \in Streams
    <3>1. [1 .. len -> Messages] \in {[1 .. n -> Messages] : n \in 0 .. MaxSent[p]}
      BY <2>1, Zenon
    <3>2. s \in UNION {[1 .. n -> Messages] : n \in 0 .. MaxSent[p]}
      BY <2>3, <3>1, Zenon
    <3> QED
      BY <3>2, Zenon DEF Streams
  <2>5. Kinds(s) = [i \in DOMAIN queue |-> queue[i].request.frame]
    BY <2>1, <2>2, <2>3, Zenon DEF Kinds
  <2>6. Kinds(s) \in DecodedAlike
    BY <2>4, AllDecodedAlike, Zenon
  <2> QED
    BY <2>5, <2>6 DEF queue
<1> QED
  BY <1>1, <1>2, <1>3, SsiInvariance, PTL DEF Spec
=============================================================================

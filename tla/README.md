# A verification model of the PayLink emulator

TLA+ modules, model-checking configurations and machine-checked proofs about the
program in this repository: a simulator of a payment terminal service (a Rust
workspace) and of the terminal behind it (the SSI scripts). Everything here is
written from the source; file and line of every definition are in `PROJECT.json`
("map"). Paths below are relative to the repository.

## 1. The system

| part | where | state it keeps | operations |
|---|---|---|---|
| core engine | `crates/core/src/lib.rs` | clock, generation, devices, queue of armed scenarios, operations (payments), counters, events | `arm`, `set_device`, `start`, `advance`, `action`, `delivered`, `reset`, `result` |
| error catalogue | `crates/core/src/catalog.rs` | constants | look-up |
| control plane | `crates/server/src/lib.rs` | cache of commands, two watch channels, the listener's status | POST `command` (purchase, standalone, arm, action, advance, reset, transport, devices, ...), reads, long poll |
| payment listener | `crates/server/src/wire.rs` `serve` | set of connection tasks, bound socket | accept, reset, on/off, stop |
| payment connection | `wire.rs` `connection` | the request, its generation, its operation | parse, start, journal, poll, reply, confirm |
| clock task | `lib.rs` `Server::start` | last tick | `advance` under the lock, journal |
| journal | `lib.rs` `Shared::journal` | temporary file, journal file | write, rename |
| lifecycle, CLI | `lib.rs` `Server`, `crates/cli` | stop channel, tasks | start, `serve`, shutdown; else one request per invocation |
| event feed | `Engine::log`, `lib.rs` long poll | event list, cursor, epoch | log, read after a cursor, wait |
| native client | `crates/gui/src/main.rs` | polled snapshot, chosen device, one request thread | every button that sends, post, fetch |
| SSI terminal | `scripts/ssi/model.mjs` | armed scenario, active purchase, last result | `handle`, `tick`, `arm`, `reset` |
| SSI server, codec | `scripts/ssi/server.mjs`, `codec.mjs` | sockets and their chains of requests, state file, decoder buffers | data, serve, arm, reset, restart; `encode`, `push` |

All Rust tasks share one `Data` under one asynchronous mutex. A handler holds it
for a synchronous stretch and lets go of it before its next await, with one
exception: `journal` keeps it while it writes. Handlers reach the listener only
through the two watch channels, and the listener answers by writing
`listener_generation` under the lock. The SSI server is one JavaScript thread.

### What is hard here

* **Time.** One `advance()` may serve many steps of many payments; a scheduled
  step may fall exactly on the deadline; a realtime clock comes in pieces.
* **Reset.** It must abort connections that parse, poll, hang or reply, and be
  acknowledged only when they have gone; resets overtake each other; a reset may
  time out or lose its client.
* **State used after an await.** A connection's generation, the operation it has
  just started, the snapshot its reply is made from; a transport switch sent
  after the lock was released.
* **Repetition.** A command repeated after a lost reply, a time-out or a reset.
* **Aborted work.** A file operation already handed to a blocking thread outlives
  the task that started it; a control connection outlives the aborted task that
  accepted it.
* **Stale views.** The native client decides from a snapshot which payment a button
  is for; a runner reads events by a cursor while resets clear the list.
* **Restart.** What the SSI terminal remembers of a purchase.

The list with lines and the properties that watch each item is "hazards" in
`PROJECT.json`.

### What makes each part correct

* engine: one payment per terminal, outcomes as scripted and final, deadlines
  exact, counters right, scenario queue strict, independence of tick size;
* control plane: an accepted command has its effect at most once, replies are honest,
  every request is answered;
* listener and connections: nothing of an old generation survives an acknowledged
  reset, a payment belongs to one connection, what a client was told stands,
  connections end;
* replies: what a client was told agrees with the money, whatever comes between the
  look a reply is made from and its arrival;
* journal: always one whole snapshot, never an older one;
* lifecycle: the process ends once it is told to, and what it leaves is complete;
* event feed: no event skipped or repeated, time never goes back;
* native client: the open payment is the one it acts on, and its inputs hit that one;
* SSI: results are those of the latest purchase and durable, nothing crosses a
  reset, replies in order, frames independent of how their bytes arrive.

## 2. The modules

| module | models | composed from |
|---|---|---|
| `Payment` | one operation: stages, `validate`, `due`, `step`, the part of `advance` and `action` that concerns it | |
| `Selection` | the part of a sequence at some of its indices, without recursion | |
| `Engine` | the whole engine, one action per operation | `Payment`, `Selection` |
| `Ledger` | abstract: a book of payments | |
| `AdvanceLoop` | `advance()`'s loop over all operations | `Engine` |
| `Replies` | `result()` and the delayed reply of each connection | `Engine` |
| `Client` | the native client's buttons, thread and snapshot | `Engine` |
| `EventFeed` | the event log, cursors, the long poll | `Selection` |
| `Control` | command handlers, cache, watch channels, listener task | |
| `Server` | connections, with `Control` and the engine at its promise (`Ledger`) | `Control`, `Ledger` |
| `Journal` | export of snapshots, blocking file operations, aborts | |
| `Lifecycle` | start, tasks, shutdown, the last export | `Journal` |
| `SsiTerminal` | the terminal as a record and operators on it | |
| `SsiServer` | sockets, chain of requests, control port, state file, restart | `SsiTerminal` |
| `SsiDecoder` | encoder and decoder on bytes and chunks | |
| `SsiWire` | the server with the decoder that feeds it: what it must make of messages in any chunks | `SsiServer`, `SsiDecoder` |
| `MC*` | instances for TLC | |
| `EngineProofs`, `LoopProofs`, `RepliesProofs`, `ClientProofs`, `ServerProofs`, `LifecycleProofs`, `FeedProofs`, `SsiProofs` | theorems (section 4) | `Engine`, `AdvanceLoop`, `Replies`, `Client`, `Server`, `Lifecycle`, `EventFeed`, `SsiWire` |

Three layers meet in `Ledger`. `AdvanceLoop` implements `Engine`
(`LoopImplementsEngine`: the loop that serves due steps of all operations in order
has the effect of serving each operation alone), `Engine` implements `Ledger`
(`ImplementsLedger`), and `Server` uses only what `Ledger` promises, so that its
runs hold for whatever scenarios and clocks the engine has, and keeps that promise
itself (`ServerImplementsLedger`). `Replies` and `Client`
on the other hand are put on top of `Engine` itself: a reply and a button depend on
the stage, the outcome and the device of a payment.

### Correspondence

* **Engine.** Variables are the fields of `Engine`; an operation keeps its
  scenario, times in milliseconds since the reset, error, charge and delivery flag.
  A refused call is a disabled action, except a refused payment request, which is
  counted (`RefuseStart`), and one that breaks the link first, which also spends
  a use of its scenario (`LoseStart`). The `advance(0)` that ends a handler is part
  of its action (`Settled`). `Standalone` is the control command that arms and
  starts on a copy. Names, identifiers and error wording are abstracted; the
  terminal errors are those of the catalogue.
* **Control.** A request goes through `Repeat`, `Stale`, `Reject`, `RejectStarted` or
  `Execute` (all it does under the lock) and then through its awaits: `Signal`, `Confirmed`
  or `TimeOut`, `Switch`, `Journalled`; `GiveUp` is the client closing its
  connection, upon which axum drops the handler. `executions` is history: every effect
  that a command had. A refused command has none, but for a purchase that reached
  `start()`, which counts it first and may spend a use of a scenario before it fails
  (`RejectStarted`; `core/src/lib.rs:380` and `430`); so only "purchase" is told from
  the other commands, which "action" stands for. The listener task is `Subscribe`,
  `Hear`, `Drained`, `Acknowledge`, `Follow`. A watch channel is its value and
  whether it has been seen, so that two quick sends are one notification.
* **Server.** `links[k]` is at the await its task is suspended at; every action
  runs to the next one. An aborted task ends at one of its awaits, not necessarily
  the next (`Drop`). A malformed, unreadable or non-payment request is one
  nondeterministic reply. The response delay is the time that `Finish` takes; its
  length is the business of `Replies`. After the reply come `Confirm`, which marks the
  payment delivered, and the journal's await ("recording").
* **Replies.** `links[id]` is the connection that started payment `id`. `Answer` is
  one look of its loop that finds the delay over (`ReplyDue`, from `completed_ms`,
  which a reversal rewrites) and fixes the reply; `Confirm` comes after the write,
  when the payment may have changed again; `Break` stands for every other end of a
  connection, with or without the reply having reached the client.
* **EventFeed.** `past` is history: every event ever logged. The poll's last look
  (`Wake`) and the answer (`Receive`) take the lock separately, as in the code.
  `Newer` is the answer's filter, `Last(events).cursor` the cursor it gives.
* **Journal.** Files are told apart from their names: an open file may be written
  after it was renamed. What a task has handed to a blocking thread (`job`)
  survives the task.
* **Lifecycle.** `served` is where each of the three tasks is: before its first poll,
  running, draining, done, `deaf` (a clock that subscribed after stop was sent) or
  aborted. `main` is where `serve` (or the window's end) is: which task it awaits,
  or its last export. Two seconds may pass at any await of a task that is not done
  (`TimeOut`). Main's writer is also a writer of `Journal`.
* **Client.** A handler of the window reads the snapshot that the thread fetched and
  sends; OK reads it twice, so a fetch may come between (`PressOk`, `ReleaseOk`). A
  request that times out goes to `late` and may be executed at any later moment. What
  was set with other buttons, the amount and the delays, may be anything.
* **SSI.** `Serve` is `handle` with the tick it begins with; one step of a
  connection's chain of promises runs up to its next await. A state file is taken to
  be configured; without one a restart forgets the result. When a write fails, `emit`
  throws: memory has changed and the file has not (`FailsAfter`), the request's
  connection is destroyed or the control port answers 400. Where nobody catches it the
  process ends, which is a `Restart` before the write. `missed` is history: what the
  file lacks. The server takes frames; that the decoder gives it the same ones however
  the bytes come is `ChunksDoNotMatter` (in `SsiWire`, which has both).
* **SSI codec.** Bytes are numbers, and `Drain` is the loop of `push()` over what is
  pending, as a recursive function: the frames found and the bytes left. The checksum is
  the exclusive or of all bytes, bit by bit (`Odd`). The text of JSON is a constant, the
  set of byte sequences that parse (`Json`); a frame is what the decoder says of it:
  "request", or the error.

## 3. The runs

| run | instance | shows |
|---|---|---|
| `script` | 1 device, 17 scenarios (all modes, outcomes, failure stages, ties with the deadline, two refused by `validate`), clock steps 1 and 2 to 6, a reset, fair clock | `NothingOverdue`, `DeadlineDecides`, `OutcomeHonoured`, `ChunkIndependent`, `EveryPaymentEnds` |
| `shared` | 2 devices, 2 merchants, a queue of 2, 2 requests, reconfiguration, lost cables, zero delays and ties, the loop of `advance()` step by step | `OneOpenPerDevice`, `OpenOnReadyDevice`, `StrictQueue`, `FinalIsFinal`, `Accounting`, `ImplementsLedger`, `LoopImplementsEngine`, `AdvanceReturns` |
| `replies` | 1 device, a payment that is approved, declined or decided by the bank, a recorded case, the faults of delivery, a reset | `ToldTruth` |
| `control` | 3 requests out of 4 commands: a purchase that is accepted, refused, or refused after it was counted, a switch of the same identifier, 2 resets, stale generations | `ExecutedOnce`, `HonestReply`, `EveryRequestAnswered` |
| `server` | 2 clients, all delivery policies, 2 payments a generation, a reset, an operator's action or a purchase from the control plane (symmetry among clients) | `ServerTypeOK`, `OwnPayment`, `ResetFence` |
| `live` | a client that may hang, a reset and a switch off, a port that may be taken when the reset switches on again, fairness | `ConnectionsEnd`, `LastResetAcknowledged`, `LastSwitchFollowed` |
| `lifecycle` | clock, connection, handler and main export; failing disk, any of them aborted, a stalled control client, shutdown at any moment | `JournalWhole`, `ExportedWhenOk`, `ForwardUndisturbed`, `FinalExport`, `ShutdownEnds` |
| `feed` | 5 events around 2 resets, lost answers and polls | `FeedWhole`, `FeedChronological`, `NewsIsThere` |
| `client` | 2 devices, 2 presses of any buttons, 3 things that others do | `OpenIsCurrent`, `InputHitsItsPayment` |
| `ssi` | 2 connections (one sends any two frames), 2 scenarios, a reset, a restart, a disk error, 2 purchases; every split into three chunks of any two frames and what may follow them | `LatestResult`, `Durable`, `EndsAsScripted`, `StartsInStep`, `InOrder`, `ChunksDoNotMatter` |

and two runs in which TLC finds a statement of the repository violated (section 5).

**Why these bounds.** The engine treats each operation by itself and refers to
others only to see whether a device is busy and which queue entry is first, so two
devices, two entries and two requests show every pair of operations, and one device
with all scenarios shows every path of one. Delays of 0 to 2 with a deadline of 2 or
3 and a clock to 6 put every step before, at and after the deadline. Two resets are
the least that overtake each other; three requests are two resets and a repetition
or a switch between them. Two clients are the least that compete. In `lifecycle` one
aborted task, one that overwrites it and one that follows are the least that disturb
each other: two changes of the engine and main's own last export. A connection's reply
depends on its own payment and on the clock only, hence one payment in `replies`, with
time for an approval, a reversal and the delay after it. In `feed` two resets clear the
list around a poll, and five events leave some before, between and after them. A
press of the native client needs one payment to be meant and one to be hit instead:
two requests, and three things that others do (start, finish or reset, start again).
Bounded counters (`Horizon`, `MaxQueue`, `MaxRequests`, `MaxGeneration`,
`MaxPayments`, `MaxEvents`, `MaxChanges`, `MaxPresses`, `MaxOthers`, `MaxPurchases`,
`MaxRestarts`, `MaxFailures`, `MaxSent`) are constants and appear as guards; the proofs are for any
value of them.

**Deadlock** is not checked: with a bounded clock and a bounded number of requests
every system here comes to rest.

**Fairness.** `script`: the clock task keeps advancing (weak fairness of `Advance`
only; no input is sure to come). `shared`: a thread inside a synchronous loop
runs on. `control`, `live`: tokio polls every task that is ready, hence weak fairness
per handler, listener and connection; nothing is assumed of a client. `live` also
assumes a last tick, since deadlines pass. `lifecycle`: main goes on, two seconds
pass, a blocking thread finishes what it was given, and tokio's mutex is fair to those
who wait; of the tasks themselves nothing is assumed, for main aborts those that do not
end. No run needs strong fairness, and those not named have safety properties only.

## 4. The proofs

TLAPS proves every safety property of the runs, for any
devices, merchants, scenarios, amounts, clients, requests, writers, messages and bounds. The
assumptions are the named ones of the modules, which TLC evaluates in the runs: the
constants have their types; the default device and merchant are among the others
(`EngineAssumption`); "any merchant" is none of them (`MerchantAssumption`); a value
that stands for nobody is no writer (`JournalAssumption`); the process has four
exporting tasks, of which main is not abortable (`LifecycleAssumption`); clients send
whole frames or bytes out of step, followed by less than a frame, and every kind of
frame is among them (`SsiWireAssumption`; `EveryStreamIsMessages` proves that any bytes
at all are of this form).

Each theorem about a state rests on an inductive invariant, proved by one lemma per
action and first checked by TLC on the runs' instances. What each needs beyond the
properties it implies, and why:

| module | theorems | inductive invariant |
|---|---|---|
| `EngineProofs` | `TypeCorrect`, `OneAtATime`, `ReadyWhileOpen`, `NeverOverdue`, `DeadlineIsExact`, `ScriptHonoured`, `Finality`, `ChunksDoNotMatter` | `IInv` |
| | `BooksBalance`, `EngineImplementsLedger`, `QueueIsStrict` | `LInv` |
| `LoopProofs` | `OneAtATimeInLoop`, `ReadyInLoop`, `FinalityInLoop`, `LoopComputesTheSame` | `LoopInv` |
| | `BooksBalanceInLoop`, `QueueIsStrictInLoop`, `LoopImplementsLedger` | `BookInv` |
| `RepliesProofs` | `RepliesAreTrue` | `RepliesInv` |
| | `RepliesImplementEngine`, `RepliesKeepEngine` | |
| `ClientProofs` | `OpenIsShown`, `InputsHitTheirPayment`, `ClientKeepsEngine` | `ClientInv` |
| `ServerProofs` | `ControlTypeCorrect`, `Idempotency`, `RepliesAreHonest` | `CInv` |
| | `ServerTypeCorrect`, `PaymentsAreOwned`, `ResetIsFence`, `ServerImplementsControl`, `ServerKeepsControl`, `ServerImplementsLedger`, `OneOpenAtServer` | `SInv` |
| | `ToldIsTrue` | `ToldInv`, with `SInv` |
| `LifecycleProofs` | `JournalIsWhole`, `ExportsAreKept`, `JournalMovesForward` | `JInv` |
| | `LifeKeepsJournal`, `LastExportIsFinal`, `ExportsAtOnce` | `LifeInv` |
| `FeedProofs` | `FeedIsWhole`, `FeedGoesForward`, `NewsIsAnswered` | `FeedInv` |
| `SsiProofs` | `ResultIsLatest`, `ResultIsDurable`, `PurchasesStartInStep`, `RepliesInOrder` | `SsiInv` |
| | `PurchasesEndAsScripted` | `ScriptInv`, with `SsiInv` |
| | `ChunksDecodedAlike` | `SentInv`, with `SsiInv` |
| | `DecodesAsItComes`, `DecodesAnyChunks`, `MessagesAreHeard`, `EveryStreamIsMessages` | about operators |
| | `EncodedIsRequest`, `OneWrongByteIsFound`, `EncodedAreHeard` | about operators |

* **`IInv`** is `TypeOK` with four parts. *Good*: every operation is consistent with its
  scenario and its deadline (what `DeadlineDecides` and `OutcomeHonoured` say of a
  finished payment needs to be said of an open one too: it has no error, is not
  charged, started its stage between its start and its deadline). *Quiet*: an open
  operation's next step is in the future; without it an input could approve a payment
  whose deadline has passed. *One open* payment per device, and *ready*: its device is
  configured, reachable and without a setup error; neither is inductive without the
  other parts, for `set_device` is refused by the open payment it would disturb. The
  argument is the code's own: `start` and `action` change one operation and leave the
  others as they were, `advance` serves each operation on its own. The lemmas on one
  operation (`StepSound`, `TurnGood`, `ReactGood`) carry most of it. That `Settle`
  leaves nothing due rests on a rank of stages: each `step` at least lowers it, and
  `Settle` makes as many turns as there are ranks.
* The engine's `ChunksDoNotMatter` compares five turns to the whole time with five turns to a part
  of it and five to the rest. Its lemma is about *punctual* operations, which have
  nothing due earlier than where the call began: they take a step at its due time
  wherever the call began, and five turns are always enough.
* **`LInv`** adds that serial numbers have no gaps and that each counter is the size of
  the set of operations it counts. That the sets grow with the counters, one by one when
  an input is counted and by a tally after an `advance`, is where sizes of finite sets
  come in. `EngineImplementsLedger` maps an operation to an entry (open, charged,
  refunded or void) and shows, action by action, a step of `Ledger` or a stutter.
* `QueueIsStrict` says of every device's part of the queue what the code does to the
  whole. A request that is refused leaves all parts alone and admits nothing. Any other
  takes exactly one use of the first entry for its device, which goes with its last one:
  the operation admitted has that entry's scenario, or the link is lost by it. Where
  nothing is armed for the device, an operation admitted brought its scenario along, as a
  standalone start does, and the spare uses of that are the device's part afterwards. That
  taking out or changing an entry of the queue is, for its device, taking or changing
  the first, and for the others nothing, rests on lemmas about `Selection` (`ThoseSame`,
  `ThoseFirst`, `ThoseExcept`): parts are the same when their indices are in an order
  preserving bijection under which the entries agree.
* **`LoopInv`**: between calls `IInv`'s parts; inside `advance()` operations may be due,
  but the clock has passed no deadline. `LoopComputesTheSame` is a refinement in which
  entering the loop is the whole call, and what callers see meanwhile is what serving
  all operations would yield: a turn of the loop computes a part of that (`Settle` after
  one turn of the operation due first is `Settle`), and at its end nothing is left. The
  approvals and reversals counted in the turns add up to the tally of all operations.
* **`BookInv`** is `LInv` inside the loop. That what holds between calls holds at every
  turn, too, does not follow from that refinement, which shows callers no turn. The
  theorems rest on `LoopSteps`: a step of the loop is a call that does not advance, adds
  one counted payment, changes one as the book allows and counts it, or moves the clock.
* **`RepliesInv`**: a reply was made from the stage its operation still has, or from
  "approved" if it is reversed by now; and an operation is delivered only if its
  connection closed after a faultless reply.
* **`ClientInv`**: the numbers of payments are in the order of their starts, and the open
  payment of a device has the largest number there; the same of any snapshot fetched.
  For the inputs: a request that names a payment was made from an identifier, and
  identifiers hold their generation, so no later payment has it. `ClientKeepsEngine` is
  not an instance of the engine's theorems, for the window makes scenarios of its own.
* **`CInv`**: each entry of the cache refers to an execution of its very command, each
  execution is in the cache, or was a purchase refused, or a reset under another
  identifier followed it, no command ran in a generation it excludes, and a request past
  the lock refers to its own execution. `ExecutedOnce` is inductive only with the second
  of these. Its exception is needed: without `RefusedPurchase` TLC finds a purchase that
  is refused and then, repeated, accepted (section 5).
* **`SInv`** adds the listener's fence: no connection is alive between the end of the
  drain and the acknowledgement, and those alive are no older than anything
  acknowledged; payments are numbered without gaps, and a connection's payment is of its
  generation and in the book while that lasts, so that a number that a reset gives again
  cannot make two connections share a payment. `ServerImplementsControl` shows every
  step of `Server` to be one of `Control`, so that `Control`'s theorems hold of it, and
  `ServerImplementsLedger` shows it to be one of `Ledger`, or none of its business.
* **`ToldInv`** says what a connection knows at each of its awaits: no reply before the
  payment's outcome, and then one that stands. Between the look at the book and the
  confirmation anything may happen; that the reply stays true follows from the steps of
  `Ledger` (`EntriesStand`), and that a number given again after a reset does not lend
  its payment to an old connection from `SInv` (`PaymentWasThere`). The theorem has no
  run of its own, and its two statements are in `ServerProofs`; `ToldTruth` is what
  `Replies` says of the same with stages, delays and faults.
* **`RepliesImplementEngine`**: connections act on the engine by its operations only, so
  that its theorems hold under them (`RepliesKeepEngine`).
* **`JInv`**: whoever has the lock holds the newest snapshot and is the only one with a
  file operation under way, on a file that is not the journal. The first half holds
  always, the second until a task is aborted; the split is what `ForwardUndisturbed`
  needs (its guard is about the state before the step). Because the lock is kept from the
  snapshot to the rename, an export is atomic to whoever reads the file: it makes the
  journal the engine's state of the moment of the rename (`ExportsAtOnce`, from which
  `ForwardUndisturbed` would follow).
* **`LifeInv`** adds main's order of awaiting: nothing but a connection can export after
  main's snapshot was taken, and then it writes the same.
* **`FeedInv`**: cursors count the events over all resets, the list is the newest part of
  all of them, the discarded part is of older generations, and the runner has all events
  up to its cursor but of generations it knows to be over.
* **`SsiInv`**: serial numbers tell purchases apart, requests on a connection wait in
  their order behind those answered, all that wait on an open connection came since the
  last reset, and the purchase under way was asked for by such a request, which has no
  reply as long as the file lacks its acceptance. **`ScriptInv`** says of both the
  terminal's result and the file's that it ended by its script: the two change places in
  a restart.

What stays with TLC:

* liveness (`EveryPaymentEnds`, `AdvanceReturns`, `EveryRequestAnswered`,
  `ConnectionsEnd`, `LastResetAcknowledged`, `LastSwitchFollowed`, `ShutdownEnds`):
  the prover does not do fairness and `ENABLED`;
* the two statements of section 5, which TLC refutes.

**What a recursion computes.** The total length of an SSI purchase's phases, the
decoder's loop and the joining of chunks are recursive functions. The library's induction
theorems take an operator as a parameter, which the provers cannot instantiate; here
induction is over sets: any set of numbers has a least one (`Least`), so a set that has 0
and with a number the next has all (`Climb`), a set of sequences that has each sequence
if it has the shorter ones has all (`ByLength`), and a function defined by recursion
exists (`Recursion`, `LengthIs`). On that rest:

* `DecodesAsItComes`: decoding some bytes and then more is decoding all of them, because
  a frame that is whole stays the first frame whatever follows, and one that is not whole
  waits. `DecodesAnyChunks` follows chunk by chunk.
* `MessagesAreHeard`, for any number of messages in any number of chunks: each is heard
  for what it is, in order and up to the first out of step. `EveryStreamIsMessages` says
  that this covers every stream there is. A frame inside another's data is in no
  message's place, so it is never heard: what the comment at `codec.mjs:13` is afraid of.
* `EncodedIsRequest` needs that two bytes hold any length up to 65535 (`encode()` throws
  beyond); `OneWrongByteIsFound` that two bytes differ in a bit, so that the count of the
  bytes that have it changes by one; `EncodedAreHeard` joins encoder and decoder.
* `ChunksDecodedAlike` carries this to the server: no more frames wait on a connection
  than its client may send (`SentInv`, and the order of the queue from `SsiInv`), so some
  messages of their kinds are a stream from which the decoder makes these very frames,
  however it is cut.

## 5. Disagreements between code and documents

Shown by a run that TLC violates:

* `panic` (`ResetInvalidates`): a reset between a purchase's start and its first look
  at the operation makes `operations[&id]` panic (`wire.rs:430`); the polling loop
  below handles the same case ("Reset invalidated this connection").
* `journal_aborted` (`NeverOlder`): snapshots are serialised "so an older write cannot
  replace a newer one" (`server/src/lib.rs:71`), but an aborted export's file
  operation goes on without the lock.

Met while modelling, not shown by a run:

* validation says that of the recorded failures "only lost-reply timeout allows
  approval" (`core/src/lib.rs:159`), but a scripted decline with `manual_bank` is
  approved by the bank's input (`core/src/lib.rs:561`); the client still gets the
  recorded reply, which `ToldTruth` takes for neither success nor failure;
* reset shall "restore payment listener" (`docs/CONTROL_API.md:35`), but switches are
  sent after the lock is released, so an older "off" may come after a reset's "on"
  (`server/src/lib.rs:502`); and a reset that times out or whose client goes away
  returns before it sends its switch at all (`lib.rs:494`), nor does its repetition,
  which is answered from the cache. `LastSwitchFollowed` says only that the listener
  does what was sent last, on as well as off, or shows that it could not bind; which
  command's switch that is, it does not say;
* a reset overtaken by another waits for a value of `listener_generation` that was
  overwritten and answers 500, although a later generation was acknowledged
  (`server/src/lib.rs:489`);
* "A repeated ID with identical content returns the same result"
  (`docs/CONTROL_API.md:24`): a rejected command is not remembered
  (`server/src/lib.rs:480`), so it may be accepted when repeated, and one whose journal
  write failed succeeds when repeated. A purchase that is rejected has been counted
  and, if its scenario breaks the link before acceptance, has spent a use of it
  (`core/src/lib.rs:380`, `430` to `441`); its repetition does both again. This is the
  exception that `ExecutedOnce` names;
* "reset closes active and incomplete old sockets" (`docs/VALIDATION.md:40`): those in
  the listener's backlog are served under the new generation;
* a busy terminal is said to answer 400 (`docs/VALIDATION.md:53`), the code says 503;
* the native client's OK button looks at the current payment twice
  (`gui/src/main.rs:432` to `437`) and may send one payment's event to another that
  has become current in between; the engine refuses what does not fit its stage;
* the native client's `devices` requests write back a whole profile as it was when last
  fetched, so that they undo what others changed meanwhile; and since its requests
  name no generation, one that timed out (an arm, a standalone payment, a switch) may
  be executed after a reset. Inputs cannot go astray: an operation's identifier holds
  its generation ("Late commands referencing pre-reset operation IDs fail",
  `docs/CONTROL_API.md:67`), which is what `InputHitsItsPayment` rests on;
* the clock task subscribes to stop when it is first polled (`server/src/lib.rs:168`);
  told to stop before, it does not hear it and is aborted after two seconds;
* control connections outlive a serve task that had to be aborted, so a request of a
  client that stalled may change the engine after the last export; `FinalExport`
  excepts it;
* "Accepting a new purchase clears the old saved result"
  (`docs/WINDOWS_SSI_LAB.md:163`): when the SSI server cannot write its state file then,
  the client's connection is destroyed, but the purchase goes on, and a restart brings
  the old result back; a result that could not be saved is given to whoever asks next.

## 6. Not modelled, and why

* parsing, the formats of HTTP, authorization, reads other than events, named scenarios
  and assertions: no state that the properties tell apart; one nondeterministic refusal
  stands for them;
* fields of events and replies other than cursor, generation, time, status and outcome;
* a start whose ports cannot be bound: nothing runs yet;
* the Windows branch of `journal` and what survives a power failure (the code does
  not sync): the process may die at any moment, the system may not;
* overflow of the clock: an `advance` is at most an hour, so that 64 bits last;
* SSI server: the limit of 32 connections, the idle timeout of an incomplete frame, its
  event list;
* the command line client but for `serve`: one request per invocation and no state, so
  its commands are among `Control`'s requests;
* the native client's rendering (`display_state`, what is only shown) and the typing of
  amounts and delays, whose results may be any;
* the recording, comparison and laboratory scripts and the profiles are I/O or data.

## 7. Plan

In order of importance; all modules of the plan are written, and their safety
properties proved:

1. `Payment`, `Engine`: the heart of the program.
2. `AdvanceLoop`, `Ledger`: the loop below and the promise above.
3. `Control`: commands, resets and switches.
4. `Server`: connections around resets.
5. `Journal`, and `Lifecycle` around it.
6. `SsiTerminal`, `SsiServer`, `SsiDecoder`.
7. `EventFeed`.
8. `Replies`.
9. `Client`.

Nothing of this is left open. What could be added: the idle timeout of an incomplete SSI
frame. Four hazards are watched by no property, for the code promises nothing of them that
it keeps (section 5): a recorded failure whose payment the bank approves, a reset that
returns before it restores the listener, the order of the switches of concurrent commands,
and sockets in the listener's backlog.

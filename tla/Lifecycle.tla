------------------------------ MODULE Lifecycle ------------------------------
(***************************************************************************)
(* The process around the journal: the server starts its three tasks, main *)
(* arms the scenario it was given, serves, and shuts down: it sends stop,  *)
(* awaits each task for two seconds before it aborts it, and exports a     *)
(* last snapshot.  A control connection outlives the task that accepted    *)
(* it.                                                                     *)
(*                                                                         *)
(* A crash needs no action here: the invariants hold at every moment.      *)
(***************************************************************************)
EXTENDS Journal

CONSTANTS
  Clock, Connection, Handler, Main,   \* the writers
  MaxChanges                          \* bound: how many of them change the engine

ASSUME LifecycleAssumption ==
  /\ Writers = {Clock, Connection, Handler, Main}
  /\ Abortable = {Clock, Connection, Handler}
  /\ Main \notin Abortable /\ Clock \notin {Connection, Handler} /\ Connection # Handler
  /\ MaxChanges \in Nat

VARIABLES
  stop,     \* the watch channel
  served,   \* the server's tasks
  stalled,  \* a control client neither completes its request nor goes away
  main,     \* where main is: the task it awaits, among others
  alone     \* nobody's file operation was under way when main took its snapshot

lifeVars == <<journalVars, stop, served, stalled, main, alone>>

LifeInit ==
  /\ Init
  /\ stop = FALSE
  /\ served = [k \in {"control", "payment", "clock"} |-> IF k = "control" THEN "running" ELSE "new"]
  /\ stalled \in BOOLEAN
  /\ main = "starting"
  /\ alone = FALSE

Busy(w) == tasks[w].at \in {"changed", "writing", "renaming"}

Becomes(k, state) == served' = [served EXCEPT ![k] = state]

-----------------------------------------------------------------------------
\* The tasks.

\* A task is polled for the first time and subscribes to stop; the control task
\* has a subscription before.  The clock does not look at what was sent before.
Begin(k) ==
  /\ served[k] = "new"
  /\ Becomes(k, IF ~stop THEN "running" ELSE IF k = "payment" THEN "done" ELSE "deaf")
  /\ UNCHANGED <<journalVars, stop, stalled, main, alone>>

\* The graceful shutdown lets requests finish, also those that are not complete.
ControlStops ==
  /\ served.control = "running" /\ stop
  /\ ~stalled /\ ~Busy(Handler)
  /\ Becomes("control", "done")
  /\ UNCHANGED <<journalVars, stop, stalled, main, alone>>

PaymentHears ==
  /\ served.payment = "running" /\ stop
  /\ Becomes("payment", "draining")
  /\ UNCHANGED <<journalVars, stop, stalled, main, alone>>

PaymentStops ==
  /\ served.payment = "draining" /\ ~Busy(Connection)
  /\ Becomes("payment", "done")
  /\ UNCHANGED <<journalVars, stop, stalled, main, alone>>

\* Between two ticks, never within one.
ClockStops ==
  /\ served.clock = "running" /\ stop /\ ~Busy(Clock)
  /\ Becomes("clock", "done")
  /\ UNCHANGED <<journalVars, stop, stalled, main, alone>>

\* Who may begin something: a tick, a payment, a command.
MayBegin(w) ==
  \/ w = Clock      /\ served.clock \in {"running", "deaf"}
  \/ w = Connection /\ served.payment = "running"
  \/ w = Handler    /\ served.control \in {"running", "aborted"} /\ (stop => stalled)

\* The writers' own steps; the process does not end before its file operations.
Work(w) ==
  /\ \/ main # "gone" /\ version < MaxChanges /\ MayBegin(w) /\ Change(w)
     \/ w # Main /\ Capture(w)
     \/ Job(w)
  /\ UNCHANGED <<stop, served, stalled, main, alone>>

\* A reset, the listener switched off, stop, or the listener task's own abort
\* ends a connection; a control client that leaves ends its handler.
Cut(w) ==
  /\ \/ w = Connection /\ served.payment \in {"running", "draining", "aborted"}
     \/ w = Handler
     \/ main = "gone"
  /\ Abort(w)
  /\ UNCHANGED <<stop, served, stalled, main, alone>>

-----------------------------------------------------------------------------
\* Main.

\* It announces the server when the scenario it was given, if any, is armed.
Announce ==
  /\ main = "starting"
  /\ tasks[Handler].at \in {"idle", "ok"}
  /\ main' = "serving"
  /\ UNCHANGED <<journalVars, stop, served, stalled, alone>>

\* It could not be read or armed, or the answer was lost: main returns, which
\* drops the server.
GiveUp ==
  /\ main = "starting"
  /\ main' = "gone"
  /\ stop' = TRUE
  /\ served' = [k \in DOMAIN served |-> "aborted"]
  /\ UNCHANGED <<journalVars, stalled, alone>>

\* A signal, or the last window is closed.
Shutdown ==
  /\ main = "serving"
  /\ stop' = TRUE
  /\ main' = "control"
  /\ UNCHANGED <<journalVars, served, stalled, alone>>

\* The tasks in the order in which they are awaited.
After(k) == IF k = "control" THEN "payment" ELSE IF k = "payment" THEN "clock" ELSE "export"

Awaited ==
  /\ main \in DOMAIN served
  /\ served[main] = "done"
  /\ main' = After(main)
  /\ UNCHANGED <<journalVars, stop, served, stalled, alone>>

\* Mutant: shutdown waits for as long as it takes.
TimeOutNever ==
  /\ main \in DOMAIN served
  /\ served[main] \in {"done", "aborted"}
  /\ main' = After(main)
  /\ UNCHANGED <<journalVars, stop, served, stalled, alone>>

\* Two seconds have passed.
TimeOut ==
  /\ main \in DOMAIN served
  /\ served[main] # "done"
  /\ Becomes(main, "aborted")
  /\ main' = After(main)
  /\ IF main = "clock" /\ Busy(Clock) THEN Abort(Clock) ELSE UNCHANGED journalVars
  /\ UNCHANGED <<stop, stalled, alone>>

\* Mutant: the last snapshot is taken as soon as stop is sent.
ExportEarly ==
  /\ main \in {"control", "payment", "clock", "export"}
  /\ tasks[Main].at = "idle" /\ lock = Nobody
  /\ lock' = Main
  /\ tasks' = [tasks EXCEPT ![Main] = [@ EXCEPT !.at = "writing", !.snapshot = version, !.job = "open"]]
  /\ alone' = \A w \in Writers : tasks[w].job = "none"
  /\ UNCHANGED <<version, data, temp, file, stop, served, stalled, main>>

\* The last journal(): main changes nothing, it takes the lock for a snapshot.
Export ==
  /\ main = "export"
  /\ tasks[Main].at = "idle" /\ lock = Nobody
  /\ lock' = Main
  /\ tasks' = [tasks EXCEPT ![Main] = [@ EXCEPT !.at = "writing", !.snapshot = version, !.job = "open"]]
  /\ alone' = \A w \in Writers : tasks[w].job = "none"
  /\ UNCHANGED <<version, data, temp, file, stop, served, stalled, main>>

\* Main returns, in error when its export failed.
Return ==
  /\ main = "export" /\ tasks[Main].at \in {"ok", "failed"}
  /\ main' = "gone"
  /\ UNCHANGED <<journalVars, stop, served, stalled, alone>>

MainNext == Announce \/ GiveUp \/ Shutdown \/ Awaited \/ TimeOut \/ Export \/ Return

TaskNext(k) == Begin(k) \/ (k = "control" /\ ControlStops)
                        \/ (k = "payment" /\ (PaymentHears \/ PaymentStops))
                        \/ (k = "clock" /\ ClockStops)

LifeNext ==
  \/ \E w \in Writers : Work(w) \/ Cut(w)
  \/ \E k \in DOMAIN served : TaskNext(k)
  \/ MainNext

\* Main goes on, time passes, a blocking thread does its job and a task that
\* waits for the lock gets it.
LifeSpec ==
  /\ LifeInit
  /\ [][LifeNext]_lifeVars
  /\ WF_lifeVars(Awaited \/ TimeOut)
  /\ WF_lifeVars(Export)
  /\ WF_lifeVars(Return)
  /\ \A w \in Writers : WF_lifeVars(Job(w) /\ Work(w)) /\ WF_lifeVars(Capture(w) /\ Work(w))

-----------------------------------------------------------------------------
\* Properties.

\* The last export is complete: when main has returned without error, the
\* journal is a whole snapshot of the final state, with everything that the
\* clock, the payments and the commands did until they stopped.  Except that an
\* aborted task's file operation may still have been under way, and that a
\* control connection outlives a task that had to be aborted.
FinalExport ==
  main = "gone" /\ tasks[Main].at = "ok" /\ alone /\ served.control = "done" =>
    data[file] = Content(version, TRUE)

\* The process ends once it was told to, whatever a client, the disk or a task
\* that has not heard of it does.
ShutdownEnds == main = "control" ~> main = "gone"
=============================================================================

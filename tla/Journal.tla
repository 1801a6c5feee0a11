------------------------------- MODULE Journal -------------------------------
(***************************************************************************)
(* The journal file: tasks change the engine and then export a snapshot of *)
(* it, each holding the engine's lock while it writes a temporary file and *)
(* renames that over the journal.                                          *)
(*                                                                         *)
(* The file operations run on the runtime's blocking threads.  A task that *)
(* is aborted or dropped meanwhile releases the lock, but an operation it  *)
(* has handed over still runs.  Files are told apart from their names: an  *)
(* operation that has opened the temporary file goes on writing to it when *)
(* it has become the journal.                                              *)
(***************************************************************************)
EXTENDS Naturals

CONSTANTS
  Writers,     \* tasks: each changes the engine once and journals once
  Abortable,   \* those that may be aborted or dropped: connections and handlers
  Nobody       \* no task; no file

ASSUME JournalAssumption == Nobody \notin Writers /\ Abortable \subseteq Writers

VARIABLES
  version,   \* of the engine's state
  lock,      \* who holds the engine
  tasks,     \* the writers
  data,      \* the files, each named for the writer that created it
  temp,      \* the file that has the temporary name
  file       \* the one that has the journal's name

journalVars == <<version, lock, tasks, data, temp, file>>

Content(v, whole) == [version |-> v, whole |-> whole]

\* at: where the task is.  job: what it has handed to a blocking thread.
Resting(at, v) == [at |-> at, snapshot |-> v, job |-> "none", opened |-> Nobody]

Init ==
  /\ version = 0
  /\ lock = Nobody
  /\ tasks = [w \in Writers |-> Resting("idle", 0)]
  /\ data = [w \in Writers |-> Content(0, FALSE)]
  /\ temp = Nobody
  /\ file = Nobody

Release(w) == lock' = IF lock = w THEN Nobody ELSE lock

\* The task changes the engine and releases it ...
Change(w) ==
  /\ tasks[w].at = "idle"
  /\ lock = Nobody
  /\ version' = version + 1
  /\ tasks' = [tasks EXCEPT ![w].at = "changed"]
  /\ UNCHANGED <<lock, data, temp, file>>

\* Mutant: the engine is released before the snapshot is on disk.
CaptureUnlocked(w) ==
  /\ tasks[w].at = "changed"
  /\ lock = Nobody
  /\ tasks' = [tasks EXCEPT ![w] = [@ EXCEPT !.at = "writing", !.snapshot = version, !.job = "open"]]
  /\ UNCHANGED <<version, lock, data, temp, file>>

\* ... then takes it again for a snapshot and keeps it for as long as it writes.
Capture(w) ==
  /\ tasks[w].at = "changed"
  /\ lock = Nobody
  /\ lock' = w
  /\ tasks' = [tasks EXCEPT ![w] = [@ EXCEPT !.at = "writing", !.snapshot = version, !.job = "open"]]
  /\ UNCHANGED <<version, data, temp, file>>

\* Mutant: an existing journal is rewritten in place.
OpenJournal(w) ==
  /\ tasks[w].job = "open"
  /\ LET f == IF file = Nobody THEN w ELSE file IN
       /\ temp' = f
       /\ data' = [data EXCEPT ![f] = Content(tasks[w].snapshot, FALSE)]
       /\ tasks' = [tasks EXCEPT ![w] = [@ EXCEPT !.job = "fill", !.opened = f]]
  /\ UNCHANGED <<version, lock, file>>

\* The temporary file is created, or truncated when there is one.
OpenTemp(w) ==
  /\ tasks[w].job = "open"
  /\ LET f == IF temp = Nobody THEN w ELSE temp IN
       /\ temp' = f
       /\ data' = [data EXCEPT ![f] = Content(tasks[w].snapshot, FALSE)]
       /\ tasks' = [tasks EXCEPT ![w] = [@ EXCEPT !.job = "fill", !.opened = f]]
  /\ UNCHANGED <<version, lock, file>>

\* Its content is written; over another's content the result may be a mixture.
\* The task, if it is still there, hands over the rename.
Fill(w) ==
  /\ tasks[w].job = "fill"
  /\ LET f    == tasks[w].opened
         mine == Content(tasks[w].snapshot, FALSE)
     IN  \E whole \in IF data[f] = mine THEN {TRUE} ELSE BOOLEAN :
           data' = [data EXCEPT ![f] = Content(tasks[w].snapshot, whole)]
  /\ tasks' = [tasks EXCEPT ![w] = IF @.at = "writing"
                 THEN [@ EXCEPT !.job = "rename", !.at = "renaming", !.opened = Nobody]
                 ELSE Resting(@.at, 0)]
  /\ UNCHANGED <<version, lock, temp, file>>

\* Without a name and not open, a file's content is gone.
Forgotten(f) == \A w \in Writers : tasks[w].opened # f

\* The rename, which fails when another has moved the temporary file away.
RenameTemp(w) ==
  /\ tasks[w].job = "rename"
  /\ IF temp = Nobody
     THEN UNCHANGED <<data, temp, file>>
     ELSE /\ file' = temp
          /\ temp' = Nobody
          /\ data' = [data EXCEPT ![file] = IF Forgotten(file) THEN Content(0, FALSE) ELSE @]
  /\ tasks' = [tasks EXCEPT ![w] = IF @.at # "renaming" THEN Resting(@.at, 0)
                                   ELSE IF temp = Nobody THEN Resting("failed", 0)
                                   ELSE Resting("ok", @.snapshot)]
  /\ Release(w)
  /\ UNCHANGED version

\* Mutant: an error of the disk is not reported.
JobFailsSilently(w) ==
  /\ tasks[w].job # "none"
  /\ tasks' = [tasks EXCEPT ![w] = IF @.at = "aborted" THEN Resting("aborted", 0)
                                   ELSE Resting("ok", @.snapshot)]
  /\ Release(w)
  /\ UNCHANGED <<version, data, temp, file>>

\* The disk is full, say: journal() returns the error.
JobFails(w) ==
  /\ tasks[w].job # "none"
  /\ tasks' = [tasks EXCEPT ![w] = Resting(IF @.at = "aborted" THEN "aborted" ELSE "failed", 0)]
  /\ Release(w)
  /\ UNCHANGED <<version, data, temp, file>>

\* The task is gone; a rename that it had not yet handed over will not happen.
Abort(w) ==
  /\ w \in Abortable
  /\ tasks[w].at \in {"changed", "writing", "renaming"}
  /\ \/ /\ tasks[w].job # "none"
        /\ tasks' = [tasks EXCEPT ![w].at = "aborted"]
     \/ /\ tasks[w].job \in {"none", "rename"}
        /\ tasks' = [tasks EXCEPT ![w] = Resting("aborted", 0)]
  /\ Release(w)
  /\ UNCHANGED <<version, data, temp, file>>

Job(w) == OpenTemp(w) \/ Fill(w) \/ RenameTemp(w) \/ JobFails(w)

Next == \E w \in Writers : Change(w) \/ Capture(w) \/ Job(w) \/ Abort(w)

Spec == Init /\ [][Next]_journalVars

-----------------------------------------------------------------------------
\* Properties.

\* No task has been aborted so far.
Undisturbed == \A w \in Writers : tasks[w].at # "aborted"

\* Unless an export was aborted, the journal holds one whole snapshot at any
\* moment, hence after a crash at any moment: what is half written has only the
\* temporary name.
JournalWhole == Undisturbed /\ file # Nobody => data[file].whole

\* Unless an export was aborted, a task whose journal() returned without error
\* finds the journal at least as new as its own change.
ExportedWhenOk ==
  \A w \in Writers :
    Undisturbed /\ tasks[w].at = "ok" => /\ file # Nobody
                                        /\ data[file].whole
                                        /\ data[file].version >= tasks[w].snapshot

\* The journal stays and does not go back to an older snapshot.
Forward == file # Nobody => file' # Nobody /\ data'[file'].version >= data[file].version

\* Unless an export was aborted, the journal only moves forward.
ForwardUndisturbed == [][Undisturbed => Forward]_journalVars

\* What the comment in journal() says, "Serialize snapshots under the same lock
\* so an older write cannot replace a newer one".
NeverOlder == [][Forward]_journalVars
=============================================================================

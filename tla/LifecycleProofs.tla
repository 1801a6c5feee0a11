--------------------------- MODULE LifecycleProofs ---------------------------
(***************************************************************************)
(* Theorems about the journal, for any writers: in Journal, where they may *)
(* be aborted at any await, and in Lifecycle, up to the last export.       *)
(***************************************************************************)
EXTENDS Lifecycle, TLAPS

-----------------------------------------------------------------------------
\* The inductive invariant of the journal.

Task == [at : {"idle", "changed", "writing", "renaming", "ok", "failed", "aborted"},
         snapshot : Nat,
         job : {"none", "open", "fill", "rename"},
         opened : Writers \cup {Nobody}]

JournalTyped ==
  /\ version \in Nat
  /\ lock \in Writers \cup {Nobody}
  /\ tasks \in [Writers -> Task]
  /\ data \in [Writers -> [version : Nat, whole : BOOLEAN]]
  /\ temp \in Writers \cup {Nobody}
  /\ file \in Writers \cup {Nobody}

\* A task that is not aborted has handed over what its place says; it has the
\* lock from its snapshot, which is the newest, to the end of the rename.
InPlace(w) ==
  /\ tasks[w].at = "writing" => tasks[w].job \in {"open", "fill"}
  /\ tasks[w].at = "renaming" => tasks[w].job = "rename"
  /\ tasks[w].at \in {"idle", "changed", "ok", "failed"} => tasks[w].job = "none"
  /\ tasks[w].job = "fill" <=> tasks[w].opened # Nobody
  /\ lock = w <=> tasks[w].at \in {"writing", "renaming"}
  /\ lock = w => tasks[w].snapshot = version

\* A file is not there before its writer creates it.
Uncreated(w) ==
  tasks[w].at \in {"idle", "changed"} \/ tasks[w].job = "open" => w \notin {temp, file}

TwoFiles == temp # Nobody => temp # file

\* What a file operation finds when no other has come between.
Prepared(w) ==
  /\ tasks[w].job = "fill" => tasks[w].opened = temp /\ data[temp] = Content(tasks[w].snapshot, FALSE)
  /\ tasks[w].job = "rename" => temp # Nobody /\ data[temp] = Content(tasks[w].snapshot, TRUE)

\* There is one file operation at most, and nothing has disturbed it.
Orderly ==
  /\ \A v, w \in Writers : tasks[v].job # "none" /\ tasks[w].job # "none" => v = w
  /\ \A w \in Writers : Prepared(w)

\* The journal is whole and no task has seen more than it holds.
Kept ==
  /\ file # Nobody => data[file].whole /\ data[file].version <= version
  /\ \A w \in Writers : tasks[w].at = "ok" => file # Nobody /\ data[file].version >= tasks[w].snapshot

\* What holds whether a task has been aborted or not ...
Frame ==
  /\ JournalTyped
  /\ \A w \in Writers : InPlace(w) /\ Uncreated(w)
  /\ TwoFiles

\* ... and what holds until one is.
JInv == Frame /\ (Undisturbed => Orderly /\ Kept)

-----------------------------------------------------------------------------
\* The inductive invariant of the process.

Over(k) == served[k] \in {"done", "aborted"}

LifeTyped ==
  /\ served \in [{"control", "payment", "clock"} -> {"new", "running", "draining", "deaf", "done", "aborted"}]
  /\ main \in {"starting", "serving", "control", "payment", "clock", "export", "gone"}
  /\ alone \in BOOLEAN

\* Main awaits the tasks one after the other and begins nothing before the
\* last of them is over.
Awaiting ==
  /\ main \in {"payment", "clock", "export"} => Over("control")
  /\ main \in {"clock", "export"} => Over("payment")
  /\ main = "export" => Over("clock") /\ ~Busy(Clock)
  /\ tasks[Main].at # "idle" =>
       main \in {"export", "gone"} /\ Over("control") /\ Over("payment") /\ Over("clock") /\ ~Busy(Clock)
  /\ tasks[Main].at \notin {"changed", "aborted"}

\* A task that has stopped has nothing under way.
Stopped ==
  /\ served["control"] = "done" => ~Busy(Handler)
  /\ served["clock"] = "done" => ~Busy(Clock)

\* Main has begun its export while nobody's file operation was under way, and
\* the control task has ended by itself.
Closing == tasks[Main].at # "idle" /\ alone /\ served["control"] = "done"

\* Main's export was not disturbed, and what is exported after it is the same.
Last ==
  Closing =>
    /\ Orderly
    /\ lock = Main => \A w \in Writers \ {Main} : tasks[w].job = "none"
    /\ lock # Main => \A w \in Writers : tasks[w].job # "none" => w = Connection /\ tasks[w].snapshot = version
    /\ tasks[Main].at = "ok" => file # Nobody /\ data[file] = Content(version, TRUE)

LifeInv == JInv /\ LifeTyped /\ Awaiting /\ Stopped /\ Last

-----------------------------------------------------------------------------
\* The steps of the journal.

\* Capture, and what main does instead: it takes the lock for its snapshot.
Take(w) ==
  /\ tasks[w].at \in {"idle", "changed"} /\ lock = Nobody
  /\ lock' = w
  /\ tasks' = [tasks EXCEPT ![w] = [@ EXCEPT !.at = "writing", !.snapshot = version, !.job = "open"]]
  /\ UNCHANGED <<version, data, temp, file>>

\* A step of one task leaves the others as they are.
LEMMA OneTask ==
  ASSUME JournalTyped, NEW w \in Writers, NEW t \in Task, tasks' = [tasks EXCEPT ![w] = t]
  PROVE  /\ tasks'[w] = t
         /\ \A v \in Writers \ {w} : tasks'[v] = tasks[v]
         /\ tasks' \in [Writers -> Task]
BY DEF JournalTyped

\* It keeps its own place, and takes away no other's lock or file.
LEMMA OtherTasks ==
  ASSUME Frame, NEW w \in Writers, \A v \in Writers \ {w} : tasks'[v] = tasks[v],
         UNCHANGED version, lock' \in {lock, IF lock = w THEN Nobody ELSE lock},
         temp' \in {temp, w, Nobody}, file' \in {temp, file},
         InPlace(w)', Uncreated(w)'
  PROVE  \A v \in Writers : InPlace(v)' /\ Uncreated(v)'
<1> SUFFICES ASSUME NEW v \in Writers \ {w} PROVE InPlace(v)' /\ Uncreated(v)'
  OBVIOUS
<1>1. tasks'[v] = tasks[v] /\ InPlace(v) /\ Uncreated(v) /\ v # Nobody /\ v # w
  BY JournalAssumption DEF Frame
<1>2. lock' = v <=> lock = v
  BY <1>1
<1>3. v \notin {temp, file} => v \notin {temp', file'}
  BY <1>1
<1>4. InPlace(v)'
  BY <1>1, <1>2 DEF InPlace
<1>5. Uncreated(v)'
  BY <1>1, <1>3 DEF Uncreated
<1> QED BY <1>4, <1>5

\* A file operation that ends leaves the one that there is in order.
LEMMA EndsOrderly ==
  ASSUME Orderly, NEW w \in Writers, tasks[w].job # "none", tasks'[w].job = "none",
         \A v \in Writers \ {w} : tasks'[v] = tasks[v]
  PROVE  Orderly'
<1>1. \A v \in Writers : tasks'[v].job = "none"
  BY DEF Orderly
<1> QED BY <1>1 DEF Orderly, Prepared

\* A change of the engine touches no file, and no task has the lock then.
LEMMA ChangeKeeps ==
  ASSUME Frame, NEW w \in Writers, Change(w)
  PROVE  Frame' /\ (Orderly => Orderly') /\ (Kept => Kept') /\ UNCHANGED <<data, temp, file>>
<1>1. /\ tasks'[w] = [tasks[w] EXCEPT !.at = "changed"]
      /\ \A v \in Writers \ {w} : tasks'[v] = tasks[v]
      /\ tasks' \in [Writers -> Task]
  BY DEF Change, Frame, JournalTyped, Task
<1>2. Frame'
  BY <1>1, JournalAssumption DEF Change, Frame, JournalTyped, InPlace, Uncreated, TwoFiles, Task
<1>3. Orderly => Orderly'
  BY <1>1 DEF Orderly, Prepared, Change, Content, Frame, JournalTyped, Task
<1>4. Kept => Kept'
  BY <1>1, JournalAssumption DEF Kept, Change, Content, Frame, JournalTyped, Task
<1> QED BY <1>2, <1>3, <1>4 DEF Change

\* The taking of a snapshot touches no file.
LEMMA TakeKeeps ==
  ASSUME Frame, NEW w \in Writers, Take(w)
  PROVE  /\ Frame' /\ (Kept => Kept') /\ UNCHANGED <<version, data, temp, file>>
         /\ tasks'[w].job = "open" /\ tasks'[w].snapshot = version /\ tasks'[w].at = "writing"
         /\ \A v \in Writers \ {w} : tasks'[v] = tasks[v]
         /\ Orderly /\ (\A v \in Writers : tasks[v].job = "none") => Orderly'
<1>1. /\ tasks'[w] = [tasks[w] EXCEPT !.at = "writing", !.snapshot = version, !.job = "open"]
      /\ \A v \in Writers \ {w} : tasks'[v] = tasks[v]
      /\ tasks' \in [Writers -> Task]
  <2>1. tasks \in [Writers -> Task] /\ tasks[w] \in Task
    BY DEF Frame, JournalTyped
  <2> DEFINE new == [tasks[w] EXCEPT !.at = "writing", !.snapshot = version, !.job = "open"]
  <2>2. new \in Task
    BY <2>1 DEF Frame, JournalTyped, Task
  <2>3. tasks' = [tasks EXCEPT ![w] = new]
    BY DEF Take
  <2> HIDE DEF new
  <2>4. tasks'[w] = new /\ tasks' \in [Writers -> Task] /\ \A v \in Writers \ {w} : tasks'[v] = tasks[v]
    BY <2>1, <2>2, <2>3
  <2> QED
    BY <2>4 DEF new
<1>2. Frame'
  BY <1>1, JournalAssumption DEF Take, Frame, JournalTyped, InPlace, Uncreated, TwoFiles, Task
<1>3. Orderly /\ (\A v \in Writers : tasks[v].job = "none") => Orderly'
  BY <1>1 DEF Orderly, Prepared, Take, Content, Frame, JournalTyped, Task
<1>4. Kept => Kept'
  BY <1>1, JournalAssumption DEF Kept, Take, Content, Frame, JournalTyped, Task
<1>5. tasks'[w].job = "open" /\ tasks'[w].snapshot = version /\ tasks'[w].at = "writing"
  BY <1>1 DEF Frame, JournalTyped, Task
<1> QED BY <1>1, <1>2, <1>3, <1>4, <1>5 DEF Take

\* A task that is gone leaves the file operation that it has handed over.
LEMMA AbortKeeps ==
  ASSUME Frame, NEW w \in Writers, Abort(w)
  PROVE  /\ Frame' /\ (Orderly => Orderly') /\ UNCHANGED <<version, data, temp, file>>
         /\ tasks'[w].at = "aborted"
         /\ tasks'[w].job # "none" => tasks'[w] = [tasks[w] EXCEPT !.at = "aborted"]
         /\ \A v \in Writers \ {w} : tasks'[v] = tasks[v]
<1>1. /\ tasks'[w] \in {[tasks[w] EXCEPT !.at = "aborted"], Resting("aborted", 0)}
      /\ \A v \in Writers \ {w} : tasks'[v] = tasks[v]
      /\ tasks' \in [Writers -> Task]
  <2>1. [tasks[w] EXCEPT !.at = "aborted"] \in Task /\ Resting("aborted", 0) \in Task
    BY DEF Frame, JournalTyped, Task, Resting
  <2>2. \/ tasks' = [tasks EXCEPT ![w] = [tasks[w] EXCEPT !.at = "aborted"]]
        \/ tasks' = [tasks EXCEPT ![w] = Resting("aborted", 0)]
    BY DEF Abort
  <2> QED BY <2>1, <2>2, OneTask DEF Frame
<1>2. Frame'
  BY <1>1, JournalAssumption DEF Abort, Release, Frame, JournalTyped, InPlace, Uncreated, TwoFiles, Task, Resting
<1>3. ASSUME Orderly PROVE Orderly'
  <2>1. /\ tasks'[w].job \in {tasks[w].job, "none"}
        /\ tasks'[w].job # "none" => tasks'[w].opened = tasks[w].opened /\ tasks'[w].snapshot = tasks[w].snapshot
    BY <1>1 DEF Frame, JournalTyped, Task, Resting
  <2>2. UNCHANGED <<data, temp>>
    BY DEF Abort
  <2>3. \A v \in Writers : Prepared(v)'
    <3>1. Prepared(w)'
      BY <1>3, <2>1, <2>2 DEF Orderly, Prepared
    <3>2. \A v \in Writers \ {w} : Prepared(v)'
      BY <1>1, <1>3, <2>2 DEF Orderly, Prepared
    <3> QED BY <3>1, <3>2
  <2>4. \A v, u \in Writers : tasks'[v].job # "none" /\ tasks'[u].job # "none" => v = u
    BY <1>1, <1>3, <2>1 DEF Orderly
  <2> QED BY <2>3, <2>4 DEF Orderly
<1>5. /\ tasks'[w].at = "aborted"
      /\ tasks'[w].job # "none" => tasks'[w] = [tasks[w] EXCEPT !.at = "aborted"]
  BY <1>1 DEF Frame, JournalTyped, Task, Resting
<1> QED BY <1>1, <1>2, <1>3, <1>5 DEF Abort

\* Whoever creates or truncates the temporary file leaves the journal alone.
LEMMA OpenKeeps ==
  ASSUME Frame, NEW w \in Writers, OpenTemp(w)
  PROVE  /\ Frame' /\ (Orderly => Orderly') /\ UNCHANGED <<version, lock, file>>
         /\ file # Nobody => data'[file] = data[file]
         /\ tasks'[w].at = tasks[w].at /\ tasks'[w].snapshot = tasks[w].snapshot
         /\ \A v \in Writers \ {w} : tasks'[v] = tasks[v]
<1> DEFINE f == IF temp = Nobody THEN w ELSE temp
<1>1. /\ tasks'[w] = [tasks[w] EXCEPT !.job = "fill", !.opened = f]
      /\ \A v \in Writers \ {w} : tasks'[v] = tasks[v]
      /\ tasks' \in [Writers -> Task]
      /\ temp' = f /\ f \in Writers /\ f # file /\ f # Nobody
  <2>1. tasks[w] \in Task /\ tasks[w].job = "open" /\ Uncreated(w) /\ temp \in Writers \cup {Nobody}
    BY DEF OpenTemp, Frame, JournalTyped
  <2>2. temp' = f /\ f \in Writers /\ f # file /\ f # Nobody
    BY <2>1, JournalAssumption DEF OpenTemp, Frame, Uncreated, TwoFiles
  <2>3. [tasks[w] EXCEPT !.job = "fill", !.opened = f] \in Task
    BY <2>1, <2>2 DEF Task
  <2>4. tasks' = [tasks EXCEPT ![w] = [tasks[w] EXCEPT !.job = "fill", !.opened = f]]
    BY DEF OpenTemp
  <2> HIDE DEF f
  <2> QED BY <2>2, <2>3, <2>4, OneTask DEF Frame
<1>2. /\ data' = [data EXCEPT ![f] = Content(tasks[w].snapshot, FALSE)]
      /\ data' \in [Writers -> [version : Nat, whole : BOOLEAN]]
      /\ data'[f] = Content(tasks[w].snapshot, FALSE)
      /\ tasks[w].job = "open"
      /\ UNCHANGED <<version, lock, file>>
  BY <1>1 DEF OpenTemp, Frame, JournalTyped, Task, Content
<1>3. f = w \/ f = temp
  OBVIOUS
<1> HIDE DEF f
<1>4. Frame'
  <2>1. JournalTyped' /\ TwoFiles'
    BY <1>1, <1>2 DEF Frame, JournalTyped, TwoFiles
  <2>2. /\ tasks'[w].at = tasks[w].at /\ tasks'[w].snapshot = tasks[w].snapshot
        /\ tasks'[w].job = "fill" /\ tasks'[w].opened # Nobody /\ tasks[w].job = "open"
        /\ tasks[w].at \in {"writing", "aborted"}
    BY <1>1, <1>2 DEF Frame, JournalTyped, InPlace, Task
  <2>3. InPlace(w)' /\ Uncreated(w)'
    BY <1>2, <2>2 DEF Frame, InPlace, Uncreated
  <2>4. \A v \in Writers : InPlace(v)' /\ Uncreated(v)'
    BY <1>1, <1>2, <1>3, <2>3, OtherTasks
  <2> QED BY <2>1, <2>4 DEF Frame
<1>5. ASSUME Orderly PROVE Orderly'
  <2>1. \A v \in Writers \ {w} : tasks'[v].job = "none"
    BY <1>1, <1>2, <1>5 DEF Orderly
  <2>2. tasks'[w].job = "fill" /\ tasks'[w].opened = f /\ tasks'[w].snapshot = tasks[w].snapshot
    BY <1>1 DEF Frame, JournalTyped, Task
  <2> QED BY <1>1, <1>2, <2>1, <2>2 DEF Orderly, Prepared
<1>6. file # Nobody => data'[file] = data[file]
  BY <1>1, <1>2 DEF Frame, JournalTyped
<1>7. tasks'[w].at = tasks[w].at /\ tasks'[w].snapshot = tasks[w].snapshot
  BY <1>1 DEF Frame, JournalTyped, Task
<1> QED BY <1>1, <1>2, <1>4, <1>5, <1>6, <1>7

\* An undisturbed write leaves the journal alone and the temporary file whole.
LEMMA FillKeeps ==
  ASSUME Frame, NEW w \in Writers, Fill(w)
  PROVE  /\ Frame' /\ (Orderly => Orderly') /\ UNCHANGED <<version, lock, file>>
         /\ Orderly /\ file # Nobody => data'[file] = data[file]
         /\ tasks'[w].at = IF tasks[w].at = "writing" THEN "renaming" ELSE tasks[w].at
         /\ tasks'[w].job # "none" => tasks'[w].snapshot = tasks[w].snapshot
         /\ \A v \in Writers \ {w} : tasks'[v] = tasks[v]
<1> DEFINE f == tasks[w].opened
<1>1. PICK whole \in BOOLEAN :
        /\ data' = [data EXCEPT ![f] = Content(tasks[w].snapshot, whole)]
        /\ data[f] = Content(tasks[w].snapshot, FALSE) => whole
  BY DEF Fill
<1>2. /\ tasks'[w] = IF tasks[w].at = "writing"
                     THEN [tasks[w] EXCEPT !.job = "rename", !.at = "renaming", !.opened = Nobody]
                     ELSE Resting(tasks[w].at, 0)
      /\ \A v \in Writers \ {w} : tasks'[v] = tasks[v]
      /\ tasks' \in [Writers -> Task]
      /\ tasks[w].job = "fill"
      /\ UNCHANGED <<version, lock, temp, file>>
      /\ f \in Writers /\ tasks[w].at \in {"writing", "aborted"}
  <2> DEFINE t == IF tasks[w].at = "writing"
                  THEN [tasks[w] EXCEPT !.job = "rename", !.at = "renaming", !.opened = Nobody]
                  ELSE Resting(tasks[w].at, 0)
  <2>1. /\ tasks[w] \in Task /\ tasks[w].job = "fill" /\ InPlace(w)
        /\ UNCHANGED <<version, lock, temp, file>>
    BY DEF Fill, Frame, JournalTyped
  <2>2. f \in Writers /\ tasks[w].at \in {"writing", "aborted"}
    BY <2>1 DEF InPlace, Task
  <2>3. t \in Task
    BY <2>1 DEF Task, Resting
  <2>4. tasks' = [tasks EXCEPT ![w] = t]
    BY DEF Fill
  <2> HIDE DEF t
  <2>5. tasks'[w] = t /\ (\A v \in Writers \ {w} : tasks'[v] = tasks[v]) /\ tasks' \in [Writers -> Task]
    BY <2>3, <2>4, OneTask DEF Frame
  <2> QED BY <2>1, <2>2, <2>5 DEF t
<1>3. /\ data' \in [Writers -> [version : Nat, whole : BOOLEAN]]
      /\ data'[f] = Content(tasks[w].snapshot, whole)
      /\ \A g \in Writers \ {f} : data'[g] = data[g]
  BY <1>1, <1>2 DEF Frame, JournalTyped, Task, Content
<1> HIDE DEF f
<1>4. Frame'
  <2>1. JournalTyped' /\ TwoFiles'
    BY <1>2, <1>3 DEF Frame, JournalTyped, TwoFiles
  <2>2. /\ tasks[w].at = "writing" => /\ tasks'[w].at = "renaming" /\ tasks'[w].job = "rename"
                                      /\ tasks'[w].opened = Nobody
                                      /\ tasks'[w].snapshot = tasks[w].snapshot
        /\ tasks[w].at # "writing" => tasks'[w] = Resting("aborted", 0)
    BY <1>2 DEF Frame, JournalTyped, Task
  <2>3. InPlace(w)'
    BY <1>2, <2>2, JournalAssumption DEF Frame, InPlace, Resting
  <2>4. Uncreated(w)'
    BY <1>2, <2>2 DEF Uncreated, Resting
  <2>5. \A v \in Writers : InPlace(v)' /\ Uncreated(v)'
    BY <1>2, <2>3, <2>4, OtherTasks
  <2> QED BY <2>1, <2>5 DEF Frame
<1>5. ASSUME Orderly PROVE Orderly' /\ f = temp
  <2>1. \A v \in Writers \ {w} : tasks'[v].job = "none"
    BY <1>2, <1>5 DEF Orderly
  <2>2. f = temp /\ temp # Nobody /\ whole
    BY <1>1, <1>2, <1>5, JournalAssumption DEF Orderly, Prepared, f
  <2>3. tasks'[w].job # "fill" /\ (tasks'[w].job = "rename" => tasks'[w].snapshot = tasks[w].snapshot)
    BY <1>2 DEF Frame, JournalTyped, Task, Resting
  <2> QED BY <1>2, <1>3, <2>1, <2>2, <2>3 DEF Orderly, Prepared
<1>6. Orderly /\ file # Nobody => data'[file] = data[file]
  BY <1>2, <1>3, <1>5 DEF Frame, JournalTyped, TwoFiles
<1>7. /\ tasks'[w].at = IF tasks[w].at = "writing" THEN "renaming" ELSE tasks[w].at
      /\ tasks'[w].job # "none" => tasks'[w].snapshot = tasks[w].snapshot
  BY <1>2 DEF Frame, JournalTyped, Task, Resting
<1> QED BY <1>2, <1>4, <1>5, <1>6, <1>7

\* An undisturbed rename makes the task's snapshot the journal.
LEMMA RenameKeeps ==
  ASSUME Frame, NEW w \in Writers, RenameTemp(w)
  PROVE  /\ Frame' /\ (Orderly => Orderly') /\ UNCHANGED version
         /\ Orderly => file' # Nobody /\ data'[file'] = Content(tasks[w].snapshot, TRUE)
         /\ tasks'[w].job = "none" /\ lock' # w
         /\ tasks'[w].at \in IF tasks[w].at = "renaming" THEN {"failed", "ok"} ELSE {tasks[w].at}
         /\ tasks'[w].at = "ok" => tasks'[w].snapshot = tasks[w].snapshot
         /\ \A v \in Writers \ {w} : tasks'[v] = tasks[v]
         /\ tasks[w].job = "rename"
<1>1. /\ tasks'[w] = IF tasks[w].at # "renaming" THEN Resting(tasks[w].at, 0)
                     ELSE IF temp = Nobody THEN Resting("failed", 0)
                     ELSE Resting("ok", tasks[w].snapshot)
      /\ \A v \in Writers \ {w} : tasks'[v] = tasks[v]
      /\ tasks' \in [Writers -> Task]
      /\ tasks[w].job = "rename" /\ tasks[w].at \in {"renaming", "aborted"}
      /\ UNCHANGED version
      /\ lock' = IF lock = w THEN Nobody ELSE lock
  BY DEF RenameTemp, Release, Frame, JournalTyped, Task, Resting, InPlace
<1>2. /\ data' \in [Writers -> [version : Nat, whole : BOOLEAN]]
      /\ \A g \in Writers \ {file} : data'[g] = data[g]
      /\ temp = Nobody => UNCHANGED <<temp, file>>
      /\ temp # Nobody => file' = temp /\ temp' = Nobody
  <2>1. /\ data' = IF temp = Nobody THEN data
                   ELSE [data EXCEPT ![file] = IF Forgotten(file) THEN Content(0, FALSE) ELSE @]
        /\ temp = Nobody => UNCHANGED <<temp, file>>
        /\ temp # Nobody => file' = temp /\ temp' = Nobody
    BY DEF RenameTemp
  <2>2. Content(0, FALSE) \in [version : Nat, whole : BOOLEAN]
    BY DEF Content
  <2>3. data' \in [Writers -> [version : Nat, whole : BOOLEAN]]
    BY <2>1, <2>2 DEF Frame, JournalTyped
  <2>4. \A g \in Writers \ {file} : data'[g] = data[g]
    BY <2>1 DEF Frame, JournalTyped
  <2> QED BY <2>1, <2>3, <2>4
<1>3. Frame'
  <2>1. JournalTyped' /\ TwoFiles'
    BY <1>1, <1>2 DEF Frame, JournalTyped, TwoFiles
  <2>2. \A v \in Writers : InPlace(v)'
    BY <1>1, <1>2, JournalAssumption DEF Frame, JournalTyped, InPlace, Task, Resting
  <2>3. \A v \in Writers : Uncreated(v)'
    BY <1>1, <1>2, JournalAssumption DEF Frame, JournalTyped, InPlace, Uncreated, Task, Resting
  <2> QED BY <2>1, <2>2, <2>3 DEF Frame
<1>5. Orderly => file' # Nobody /\ data'[file'] = Content(tasks[w].snapshot, TRUE)
  BY <1>1, <1>2, ZenonT(30) DEF Orderly, Prepared, Frame, JournalTyped, TwoFiles
<1>6. /\ tasks'[w].job = "none" /\ lock' # w
      /\ tasks'[w].at \in IF tasks[w].at = "renaming" THEN {"failed", "ok"} ELSE {tasks[w].at}
      /\ tasks'[w].at = "ok" => tasks'[w].snapshot = tasks[w].snapshot
  BY <1>1, JournalAssumption DEF Frame, JournalTyped, Resting
<1>7. Orderly => Orderly'
  BY <1>1, <1>6, EndsOrderly
<1> QED BY <1>1, <1>3, <1>5, <1>6, <1>7

\* A file operation that fails changes no file.
LEMMA FailKeeps ==
  ASSUME Frame, NEW w \in Writers, JobFails(w)
  PROVE  /\ Frame' /\ (Orderly => Orderly') /\ UNCHANGED <<version, data, temp, file>>
         /\ tasks'[w].job = "none" /\ lock' # w
         /\ tasks'[w].at = IF tasks[w].at = "aborted" THEN "aborted" ELSE "failed"
         /\ \A v \in Writers \ {w} : tasks'[v] = tasks[v]
<1>1. /\ tasks'[w] = Resting(IF tasks[w].at = "aborted" THEN "aborted" ELSE "failed", 0)
      /\ \A v \in Writers \ {w} : tasks'[v] = tasks[v]
      /\ tasks' \in [Writers -> Task]
      /\ tasks[w].job # "none" /\ tasks[w].at \in {"writing", "renaming", "aborted"}
      /\ UNCHANGED <<version, data, temp, file>>
      /\ lock' = IF lock = w THEN Nobody ELSE lock
  BY DEF JobFails, Release, Frame, JournalTyped, Task, Resting, InPlace
<1>2. Frame'
  BY <1>1, JournalAssumption DEF Frame, JournalTyped, InPlace, Uncreated, TwoFiles, Task, Resting
<1>4. /\ tasks'[w].job = "none" /\ lock' # w
      /\ tasks'[w].at = IF tasks[w].at = "aborted" THEN "aborted" ELSE "failed"
  BY <1>1, JournalAssumption DEF Resting, Frame, JournalTyped
<1>5. Orderly => Orderly'
  BY <1>1, <1>4, EndsOrderly
<1> QED BY <1>1, <1>2, <1>4, <1>5

-----------------------------------------------------------------------------
\* The journal while no task has been aborted.

\* A step of the journal's, by a task or by main.
JournalStep == \E w \in Writers : Change(w) \/ Take(w) \/ Job(w) \/ Abort(w)

LEMMA InitJInv == Init => JInv
<1> SUFFICES ASSUME Init PROVE JInv
  OBVIOUS
<1>1. JournalTyped /\ TwoFiles
  BY DEF Init, Resting, Content, JournalTyped, Task, TwoFiles
<1>2. \A w \in Writers : InPlace(w) /\ Uncreated(w)
  BY JournalAssumption DEF Init, Resting, InPlace, Uncreated
<1>3. Orderly /\ Kept
  BY DEF Init, Resting, Orderly, Prepared, Kept
<1> QED BY <1>1, <1>2, <1>3 DEF JInv, Frame

\* A task that is aborted stays so.
LEMMA Undone ==
  ASSUME Frame, JournalStep, Undisturbed'
  PROVE  Undisturbed
<1>1. PICK w \in Writers : Change(w) \/ Take(w) \/ Job(w) \/ Abort(w)
  BY DEF JournalStep
<1>2. \A v \in Writers \ {w} : tasks'[v] = tasks[v]
  BY <1>1, TakeKeeps, OpenKeeps, FillKeeps, RenameKeeps, FailKeeps, AbortKeeps
     DEF Job, Change, Frame, JournalTyped
<1>3. tasks[w].at = "aborted" => tasks'[w].at = "aborted"
  <2>1. Job(w) => (tasks[w].at = "aborted" => tasks'[w].at = "aborted")
    BY OpenKeeps, FillKeeps, RenameKeeps, FailKeeps DEF Job
  <2>2. Change(w) \/ Take(w) => tasks[w].at # "aborted"
    BY DEF Change, Take
  <2> QED BY <1>1, <2>1, <2>2, AbortKeeps
<1> QED BY <1>2, <1>3 DEF Undisturbed

\* Undisturbed, a task's file operation is the holder's of the lock.
LEMMA HolderWorks ==
  ASSUME Frame, Undisturbed
  PROVE  \A w \in Writers : tasks[w].job # "none" => lock = w /\ tasks[w].snapshot = version
BY DEF Frame, JournalTyped, Task, Undisturbed, InPlace

\* Whatever file operation runs, the journal is kept if it was in order.
LEMMA JobKept ==
  ASSUME Frame, NEW w \in Writers, Job(w), Orderly, Kept,
         tasks[w].at # "aborted", tasks[w].snapshot = version
  PROVE  Kept' /\ Forward
<1>1. CASE OpenTemp(w)
  <2>1. /\ UNCHANGED <<version, file>> /\ (file # Nobody => data'[file] = data[file])
        /\ \A v \in Writers : tasks'[v].at = tasks[v].at /\ tasks'[v].snapshot = tasks[v].snapshot
    BY <1>1, OpenKeeps
  <2> QED BY <2>1 DEF Kept, Forward, Frame, JournalTyped
<1>2. CASE Fill(w)
  <2>1. /\ UNCHANGED <<version, file>> /\ (file # Nobody => data'[file] = data[file])
        /\ \A v \in Writers \ {w} : tasks'[v] = tasks[v]
        /\ tasks'[w].at = IF tasks[w].at = "writing" THEN "renaming" ELSE tasks[w].at
    BY <1>2, FillKeeps
  <2>2. tasks[w] \in Task /\ InPlace(w) /\ tasks[w].job = "fill"
    BY <1>2 DEF Fill, Frame, JournalTyped
  <2>3. tasks[w].at = "writing"
    BY <2>2 DEF Task, InPlace
  <2> QED BY <2>1, <2>3 DEF Kept, Forward, Frame, JournalTyped
<1>3. CASE RenameTemp(w)
  <2>1. /\ file' # Nobody /\ data'[file'] = Content(version, TRUE) /\ UNCHANGED version
        /\ \A v \in Writers \ {w} : tasks'[v] = tasks[v]
        /\ tasks'[w].at = "ok" => tasks'[w].snapshot = version
    BY <1>3, RenameKeeps
  <2>2. data'[file'].version = version /\ data'[file'].whole
    BY <2>1 DEF Content
  <2>3. \A v \in Writers : tasks[v].at = "ok" => tasks[v].snapshot <= version
    BY DEF Kept, Frame, JournalTyped, Task
  <2>4. file # Nobody => version >= data[file].version
    BY DEF Kept, Frame, JournalTyped
  <2>5. \A v \in Writers : tasks'[v].at = "ok" => version >= tasks'[v].snapshot
    BY <2>1, <2>3 DEF Frame, JournalTyped, Task
  <2>6. version \in Nat
    BY DEF Frame, JournalTyped
  <2>7. Forward
    BY <2>1, <2>2, <2>4 DEF Forward
  <2>8. Kept'
    <3>1. \A v \in Writers : tasks'[v].at = "ok" => file' # Nobody /\ data'[file'].version >= tasks'[v].snapshot
      BY <2>1, <2>2, <2>5
    <3>2. data'[file'].version <= version'
      <4>1. version' = version /\ data'[file'].version = version
        BY <2>1, <2>2
      <4> QED BY <4>1, <2>6
    <3>3. data'[file'].whole
      BY <2>2, Zenon
    <3> QED BY <3>1, <3>2, <3>3 DEF Kept
  <2> QED BY <2>7, <2>8
<1>4. CASE JobFails(w)
  <2>1. /\ UNCHANGED <<version, data, file>>
        /\ \A v \in Writers \ {w} : tasks'[v] = tasks[v]
        /\ tasks'[w].at # "ok"
    BY <1>4, FailKeeps
  <2> QED BY <2>1 DEF Kept, Forward, Frame, JournalTyped
<1> QED BY <1>1, <1>2, <1>3, <1>4 DEF Job

\* A step of the journal keeps its invariant, and moves the journal forward
\* unless a task has been aborted before.
LEMMA JournalKeeps ==
  ASSUME JInv, JournalStep
  PROVE  JInv' /\ (Undisturbed => Forward)
<1>1. PICK w \in Writers : Change(w) \/ Take(w) \/ Job(w) \/ Abort(w)
  BY DEF JournalStep
<1>2. Undisturbed' => Undisturbed
  BY Undone DEF JInv
<1>3. CASE Change(w)
  <2>1. UNCHANGED <<data, file>>
    BY <1>3 DEF Change
  <2> QED BY <1>2, <1>3, <2>1, ChangeKeeps DEF JInv, Forward, Frame, JournalTyped
<1>4. CASE Take(w)
  <2>1. lock = Nobody
    BY <1>4 DEF Take
  <2>2. Undisturbed => \A v \in Writers : tasks[v].job = "none"
    BY <2>1, HolderWorks, JournalAssumption DEF JInv
  <2>3. UNCHANGED <<data, file>>
    BY <1>4, TakeKeeps DEF JInv
  <2> QED BY <1>2, <1>4, <2>2, <2>3, TakeKeeps DEF JInv, Forward, Frame, JournalTyped
<1>5. CASE Job(w)
  <2>1. Frame' /\ (Orderly => Orderly')
    BY <1>5, OpenKeeps, FillKeeps, RenameKeeps, FailKeeps DEF Job, JInv
  <2>2. Undisturbed => Kept' /\ Forward
    <3>1. tasks[w].job # "none"
      BY <1>5 DEF Job, OpenTemp, Fill, RenameTemp, JobFails
    <3> QED BY <1>5, <3>1, HolderWorks, JobKept DEF JInv, Undisturbed
  <2> QED BY <1>2, <2>1, <2>2 DEF JInv
<1>6. CASE Abort(w)
  <2>1. ~Undisturbed' /\ Frame' /\ UNCHANGED <<data, file>>
    BY <1>6, AbortKeeps DEF JInv, Undisturbed
  <2> QED BY <2>1 DEF JInv, Forward, Frame, JournalTyped
<1> QED BY <1>1, <1>3, <1>4, <1>5, <1>6

LEMMA JournalRests ==
  ASSUME JInv, UNCHANGED journalVars
  PROVE  JInv' /\ Forward
<1> USE DEF journalVars
<1>1. Frame'
  BY DEF JInv, Frame, JournalTyped, InPlace, Uncreated, TwoFiles
<1>2. Undisturbed' <=> Undisturbed
  BY DEF Undisturbed
<1>3. Orderly => Orderly'
  BY DEF Orderly, Prepared
<1>4. Kept => Kept'
  BY DEF Kept
<1>5. Forward
  BY DEF Forward, JInv, Frame, JournalTyped
<1> QED BY <1>1, <1>2, <1>3, <1>4, <1>5 DEF JInv

LEMMA JInvShows == JInv => JournalWhole /\ ExportedWhenOk
BY DEF JInv, JournalWhole, ExportedWhenOk, Kept

LEMMA CaptureTakes ==
  ASSUME NEW w \in Writers, Capture(w)
  PROVE  Take(w)
BY DEF Capture, Take

LEMMA NextSteps == Next => JournalStep
BY CaptureTakes DEF Next, JournalStep

\* Journal keeps its invariant: types, the place of each task, and, until a task
\* is aborted, one file operation at a time on a file that is not the journal.
THEOREM JournalInvariance == Spec => []JInv
<1>1. JInv /\ [Next]_journalVars => JInv'
  BY JournalKeeps, JournalRests, NextSteps
<1> QED BY InitJInv, <1>1, PTL DEF Spec

\* Until an export is aborted, the journal is one whole snapshot at any moment,
\* whatever tasks are exporting and whichever of their file operations fail.
THEOREM JournalIsWhole == Spec => []JournalWhole
BY JournalInvariance, JInvShows, PTL

\* Until an export is aborted, a task whose journal() returned without error
\* finds its own change, or a later one, in the journal.
THEOREM ExportsAreKept == Spec => []ExportedWhenOk
BY JournalInvariance, JInvShows, PTL

\* Until an export is aborted, no step replaces the journal by an older snapshot
\* or removes it.
THEOREM JournalMovesForward == Spec => ForwardUndisturbed
<1>1. JInv /\ [Next]_journalVars => [Undisturbed => Forward]_journalVars
  BY JournalKeeps, NextSteps
<1> QED BY JournalInvariance, <1>1, PTL DEF Spec, ForwardUndisturbed

-----------------------------------------------------------------------------
\* The process around the journal.

\* What a file operation may do to its task, to the lock and to the journal.
LEMMA JobDoes ==
  ASSUME Frame, NEW w \in Writers, Job(w)
  PROVE  /\ Frame' /\ (Orderly => Orderly') /\ UNCHANGED version
         /\ \A v \in Writers \ {w} : tasks'[v] = tasks[v]
         /\ tasks[w].job # "none" /\ tasks[w].at \in {"writing", "renaming", "aborted"}
         /\ tasks'[w].at \in {"writing", "renaming", "aborted", "failed", "ok"}
         /\ tasks'[w].at = "aborted" <=> tasks[w].at = "aborted"
         /\ lock' \in {lock, Nobody} /\ (tasks'[w].at \in {"ok", "failed"} => lock' # w /\ tasks'[w].job = "none")
         /\ tasks'[w].job # "none" => tasks'[w].snapshot = tasks[w].snapshot
         /\ Orderly /\ file # Nobody /\ data[file] = Content(tasks[w].snapshot, TRUE) =>
              file' # Nobody /\ data'[file'] = Content(tasks[w].snapshot, TRUE)
         /\ Orderly /\ tasks'[w].at = "ok" => file' # Nobody /\ data'[file'] = Content(tasks[w].snapshot, TRUE)
<1>1. tasks[w].job # "none" /\ tasks[w].at \in {"writing", "renaming", "aborted"}
  <2>1. tasks[w].job # "none"
    BY DEF Job, OpenTemp, Fill, RenameTemp, JobFails
  <2> QED BY <2>1 DEF Frame, JournalTyped, Task, InPlace
<1>2. CASE OpenTemp(w)
  BY <1>1, <1>2, OpenKeeps
<1>3. CASE Fill(w)
  <2>1. UNCHANGED lock /\ tasks[w].job = "fill"
    BY <1>3 DEF Fill
  <2>2. tasks[w].at \in {"writing", "aborted"}
    BY <1>1, <2>1 DEF Frame, InPlace
  <2> QED BY <1>1, <1>3, <2>1, <2>2, FillKeeps
<1>4. CASE RenameTemp(w)
  <2>1. lock' \in {lock, Nobody}
    BY <1>4 DEF RenameTemp, Release
  <2>2. tasks[w].at \in {"renaming", "aborted"}
    BY <1>1, <1>4 DEF RenameTemp, Frame, InPlace
  <2> QED BY <1>1, <1>4, <2>1, <2>2, RenameKeeps
<1>5. CASE JobFails(w)
  <2>1. lock' \in {lock, Nobody}
    BY <1>5 DEF JobFails, Release
  <2> QED BY <1>1, <1>5, <2>1, FailKeeps
<1> QED BY <1>2, <1>3, <1>4, <1>5 DEF Job

\* Main is none of the tasks that may be aborted, and there are no others.
LEMMA Who ==
  /\ Main \in Writers /\ Clock \in Writers /\ Connection \in Writers /\ Handler \in Writers
  /\ Main \notin {Clock, Connection, Handler} /\ Clock # Connection /\ Clock # Handler /\ Connection # Handler
  /\ \A w \in Writers : w \in {Main, Clock, Connection, Handler}
  /\ Main \notin Abortable /\ Nobody \notin Writers
BY LifecycleAssumption, JournalAssumption

LEMMA InitLifeInv == LifeInit => LifeInv
<1> SUFFICES ASSUME LifeInit PROVE LifeInv
  OBVIOUS
<1>1. JInv
  BY InitJInv DEF LifeInit
<1>2. \A w \in Writers : tasks[w].at = "idle"
  BY DEF LifeInit, Init, Resting
<1>3. /\ served = [k \in {"control", "payment", "clock"} |-> IF k = "control" THEN "running" ELSE "new"]
      /\ main = "starting" /\ alone = FALSE
  BY DEF LifeInit
<1>4. LifeTyped
  BY <1>3 DEF LifeTyped
<1>5. Awaiting /\ Stopped /\ Last
  BY <1>2, <1>3, Who DEF Awaiting, Stopped, Last, Closing
<1> QED BY <1>1, <1>4, <1>5 DEF LifeInv

\* A tick, a payment or a command begins only where its task is not over.
LEMMA WorkChanges ==
  ASSUME LifeInv, NEW w \in Writers, Change(w), MayBegin(w), UNCHANGED <<stop, served, stalled, main, alone>>
  PROVE  LifeTyped' /\ Awaiting' /\ Stopped' /\ Last'
<1>1. /\ w # Main /\ (w = Clock => ~Over("clock")) /\ (w = Connection => ~Over("payment"))
      /\ w = Handler => served["control"] # "done"
  BY Who DEF MayBegin, Over
<1>2. /\ \A v \in Writers \ {w} : tasks'[v] = tasks[v]
      /\ UNCHANGED <<served, main, alone>>
  BY DEF Change, LifeInv, JInv, Frame, JournalTyped
<1>3. tasks'[Main] = tasks[Main]
  BY <1>1, <1>2, Who
<1>4. LifeTyped'
  BY <1>2 DEF LifeInv, LifeTyped
<1>5. w = Clock \/ UNCHANGED Busy(Clock)
  BY <1>2, Who DEF Busy
<1>6. w = Handler \/ UNCHANGED Busy(Handler)
  BY <1>2, Who DEF Busy
<1>7. Awaiting'
  BY <1>1, <1>2, <1>3, <1>5 DEF LifeInv, Awaiting, Over
<1>8. Stopped'
  BY <1>1, <1>2, <1>5, <1>6 DEF LifeInv, Stopped, Over
<1>9. Last'
  <2>1. ~Closing
    BY <1>1, Who DEF LifeInv, Awaiting, Over, Closing
  <2> QED BY <1>2, <1>3, <2>1 DEF Last, Closing
<1> QED BY <1>4, <1>7, <1>8, <1>9

\* After main's snapshot only the connection may still take one.
LEMMA WorkCaptures ==
  ASSUME LifeInv, NEW w \in Writers, w # Main, Capture(w), UNCHANGED <<stop, served, stalled, main, alone>>
  PROVE  LifeTyped' /\ Awaiting' /\ Stopped' /\ Last'
<1>1. /\ Busy(w) /\ lock = Nobody /\ lock' = w
      /\ \A v \in Writers \ {w} : tasks'[v] = tasks[v]
      /\ UNCHANGED <<version, data, file, served, main, alone>>
      /\ tasks'[w].snapshot = version /\ Frame
      /\ (\A v \in Writers : tasks[v].job = "none") => (Orderly => Orderly')
  BY TakeKeeps, CaptureTakes DEF Capture, Busy, LifeInv, JInv
<1>2. tasks'[Main] = tasks[Main]
  BY <1>1, Who
<1>3. LifeTyped'
  BY <1>1 DEF LifeInv, LifeTyped
<1>4. (Busy(Clock)' => Busy(Clock)) /\ (Busy(Handler)' => Busy(Handler))
  BY <1>1, Who DEF Busy
<1>5. Awaiting' /\ Stopped'
  BY <1>1, <1>2, <1>4 DEF LifeInv, Awaiting, Stopped, Over
<1>6. ASSUME Closing
      PROVE  w = Connection /\ Orderly' /\ \A v \in Writers : tasks[v].job = "none"
  <2>1. w = Connection
    BY <1>1, <1>6, Who DEF LifeInv, Awaiting, Stopped, Closing
  <2>2. \A v \in Writers : tasks[v].job # "none" => v = Connection
    BY <1>1, <1>6, Who DEF LifeInv, Last
  <2>3. tasks[w].job = "none"
    BY DEF Capture, LifeInv, JInv, Frame, InPlace
  <2> QED BY <1>1, <1>6, <2>1, <2>2, <2>3 DEF LifeInv, Last
<1>7. Last'
  <2>0. Closing' => Closing
    BY <1>1, <1>2 DEF Closing
  <2> SUFFICES ASSUME Closing
               PROVE  /\ Orderly' /\ lock' # Main
                      /\ \A v \in Writers : tasks'[v].job # "none" => v = Connection /\ tasks'[v].snapshot = version'
                      /\ tasks'[Main].at = "ok" => file' # Nobody /\ data'[file'] = Content(version', TRUE)
    BY <2>0 DEF Last
  <2>1. w = Connection /\ Orderly' /\ \A v \in Writers : tasks[v].job = "none"
    BY <1>6
  <2>2. \A v \in Writers : tasks'[v].job # "none" => v = w
    BY <1>1, <2>1
  <2>3. tasks'[Main].at = "ok" => file' # Nobody /\ data'[file'] = Content(version', TRUE)
    BY <1>1, <1>2 DEF LifeInv, Last
  <2> QED BY <1>1, <2>1, <2>2, <2>3, Who
<1> QED BY <1>3, <1>5, <1>7

\* Main's file operations come first; then those of the connection write the
\* same snapshot.
LEMMA WorkJobs ==
  ASSUME LifeInv, NEW w \in Writers, Job(w), UNCHANGED <<stop, served, stalled, main, alone>>
  PROVE  LifeTyped' /\ Awaiting' /\ Stopped' /\ Last'
<1>1. Frame
  BY DEF LifeInv, JInv
<1>2. /\ Orderly => Orderly'
      /\ UNCHANGED <<version, served, main, alone>>
      /\ \A v \in Writers \ {w} : tasks'[v] = tasks[v]
      /\ tasks[w].job # "none" /\ tasks[w].at \in {"writing", "renaming", "aborted"}
      /\ tasks'[w].at \in {"writing", "renaming", "aborted", "failed", "ok"}
      /\ tasks'[w].at = "aborted" <=> tasks[w].at = "aborted"
      /\ lock' \in {lock, Nobody} /\ (tasks'[w].at \in {"ok", "failed"} => lock' # w /\ tasks'[w].job = "none")
      /\ tasks'[w].job # "none" => tasks'[w].snapshot = tasks[w].snapshot
      /\ Orderly /\ file # Nobody /\ data[file] = Content(tasks[w].snapshot, TRUE) =>
           file' # Nobody /\ data'[file'] = Content(tasks[w].snapshot, TRUE)
      /\ Orderly /\ tasks'[w].at = "ok" => file' # Nobody /\ data'[file'] = Content(tasks[w].snapshot, TRUE)
      /\ Frame'
  BY <1>1, JobDoes
<1>3. LifeTyped'
  BY <1>2 DEF LifeInv, LifeTyped
<1>4. \A v \in Writers : Busy(v)' => Busy(v)
  BY <1>2 DEF Busy
<1>5. /\ tasks[Main].at = "idle" <=> tasks'[Main].at = "idle"
      /\ tasks[Main].at \notin {"changed", "aborted"} => tasks'[Main].at \notin {"changed", "aborted"}
  BY <1>2, Who
<1>6. Awaiting' /\ Stopped'
  BY <1>2, <1>4, <1>5, Who DEF LifeInv, Awaiting, Stopped, Over
<1>7. Last'
  <2>0. Closing' => Closing
    BY <1>2, <1>5 DEF Closing
  <2> SUFFICES ASSUME Closing
               PROVE  /\ Orderly'
                      /\ lock' = Main => \A v \in Writers \ {Main} : tasks'[v].job = "none"
                      /\ lock' # Main => \A v \in Writers : tasks'[v].job # "none" => v = Connection /\ tasks'[v].snapshot = version'
                      /\ tasks'[Main].at = "ok" => file' # Nobody /\ data'[file'] = Content(version', TRUE)
    BY <2>0 DEF Last
  <2>1. /\ Orderly
        /\ lock = Main => \A v \in Writers \ {Main} : tasks[v].job = "none"
        /\ lock # Main => \A v \in Writers : tasks[v].job # "none" => v = Connection /\ tasks[v].snapshot = version
        /\ tasks[Main].at = "ok" => file # Nobody /\ data[file] = Content(version, TRUE)
    BY DEF LifeInv, Last
  <2>2. Orderly'
    BY <1>2, <2>1
  <2>3. CASE lock = Main
    <3>1. w = Main /\ tasks[Main].snapshot = version /\ tasks[Main].at # "ok"
      BY <1>1, <1>2, <2>1, <2>3, Who DEF Frame, InPlace
    <3>2. \A v \in Writers \ {Main} : tasks'[v].job = "none"
      BY <1>2, <2>1, <2>3, <3>1
    <3>3. lock' # Main => tasks'[Main].job = "none"
      BY <1>2, <3>1, Who DEF Frame, InPlace, LifeInv, Awaiting
    <3>4. tasks'[Main].at = "ok" => file' # Nobody /\ data'[file'] = Content(version', TRUE)
      BY <1>2, <2>1, <3>1
    <3> QED BY <2>2, <3>2, <3>3, <3>4
  <2>4. CASE lock # Main
    <3>1. w = Connection /\ tasks[w].snapshot = version /\ w # Main
      BY <1>2, <2>1, <2>4, Who
    <3>2. lock' # Main /\ tasks'[Main] = tasks[Main]
      BY <1>2, <2>4, <3>1, Who
    <3>3. \A v \in Writers : tasks'[v].job # "none" => v = Connection /\ tasks'[v].snapshot = version'
      BY <1>2, <2>1, <2>4, <3>1
    <3>4. tasks'[Main].at = "ok" => file' # Nobody /\ data'[file'] = Content(version', TRUE)
      BY <1>2, <2>1, <3>1, <3>2
    <3> QED BY <2>2, <3>2, <3>3, <3>4
  <2> QED BY <2>3, <2>4
<1> QED BY <1>3, <1>6, <1>7

\* An abort, by the listener, the client, main or the end of the process.
LEMMA LifeAborts ==
  ASSUME LifeInv, NEW w \in Writers, Abort(w), UNCHANGED <<main, alone>>,
         UNCHANGED served
  PROVE  LifeTyped' /\ Awaiting' /\ Stopped' /\ Last'
<1>1. /\ Orderly => Orderly'
      /\ UNCHANGED <<version, data, temp, file>>
      /\ tasks'[w].at = "aborted"
      /\ tasks'[w].job # "none" => tasks'[w] = [tasks[w] EXCEPT !.at = "aborted"]
      /\ \A v \in Writers \ {w} : tasks'[v] = tasks[v]
      /\ lock' = IF lock = w THEN Nobody ELSE lock
      /\ w # Main /\ tasks'[Main] = tasks[Main]
  BY AbortKeeps, Who DEF LifeInv, JInv, Abort, Release
<1>2. LifeTyped'
  BY DEF LifeInv, LifeTyped
<1>3. \A v \in Writers : Busy(v)' => Busy(v)
  BY <1>1 DEF Busy
<1>4. Awaiting' /\ Stopped'
  BY <1>1, <1>3, Who DEF LifeInv, Awaiting, Stopped, Over
<1>5. tasks'[w].job # "none" => tasks[w].job # "none" /\ tasks'[w].snapshot = tasks[w].snapshot
  BY <1>1 DEF LifeInv, JInv, Frame, JournalTyped, Task
<1>6. lock' = Main <=> lock = Main
  BY <1>1, Who
<1>7. Last'
  <2>1. Closing' => Closing
    BY <1>1 DEF Closing
  <2>2. \A v \in Writers : tasks'[v].job # "none" => tasks[v].job # "none" /\ tasks'[v].snapshot = tasks[v].snapshot
    BY <1>1, <1>5
  <2> QED BY <1>1, <1>6, <2>1, <2>2 DEF LifeInv, Last
<1> QED BY <1>2, <1>4, <1>7

\* The server's tasks hear of the stop and end; none of them comes back.
LEMMA TaskKeeps ==
  ASSUME LifeInv, NEW k \in DOMAIN served, TaskNext(k)
  PROVE  LifeInv' /\ UNCHANGED journalVars
<1> DEFINE tables == {"control", "payment", "clock"}
<1>1. /\ DOMAIN served = tables /\ ~Over(k)
      /\ UNCHANGED <<journalVars, main, alone>>
  BY DEF LifeInv, LifeTyped, TaskNext, Begin, ControlStops, PaymentHears, PaymentStops, ClockStops, Over
<1>2. /\ served' \in [tables -> {"new", "running", "draining", "deaf", "done", "aborted"}]
      /\ \A j \in tables \ {k} : served'[j] = served[j]
  BY DEF LifeInv, LifeTyped, TaskNext, Begin, ControlStops, PaymentHears, PaymentStops, ClockStops, Becomes
<1>3. /\ k = "control" /\ served'["control"] = "done" => ~Busy(Handler)
      /\ k = "clock" /\ served'["clock"] = "done" => ~Busy(Clock)
  BY DEF LifeInv, LifeTyped, TaskNext, Begin, ControlStops, PaymentHears, PaymentStops, ClockStops, Becomes
<1>4. /\ UNCHANGED <<tasks, version, data, temp, file, lock>> /\ UNCHANGED Busy(Handler) /\ UNCHANGED Busy(Clock)
      /\ Orderly => Orderly'
  BY <1>1 DEF journalVars, Busy, Orderly, Prepared
<1>5. \A j \in tables : Over(j) => Over(j)' /\ served'[j] = served[j]
  BY <1>1, <1>2 DEF Over
<1>6. LifeTyped' /\ Awaiting' /\ Stopped'
  BY <1>1, <1>2, <1>3, <1>4, <1>5 DEF LifeInv, LifeTyped, Awaiting, Stopped
<1>7. Last'
  <2>1. Closing' => Closing
    BY <1>1, <1>4, <1>5 DEF LifeInv, Awaiting, Closing
  <2> QED BY <1>4, <2>1 DEF LifeInv, Last
<1>8. JInv'
  BY <1>1, JournalRests DEF LifeInv
<1> QED BY <1>1, <1>6, <1>7, <1>8 DEF LifeInv

\* The last export takes its snapshot like any other; nobody's file operation is
\* under way then if alone says so.
LEMMA ExportKeeps ==
  ASSUME LifeInv, Export
  PROVE  LifeInv' /\ Take(Main)
<1>1. Take(Main) /\ Main \in Writers /\ main = "export"
  BY Who DEF Export, Take
<1>2. /\ UNCHANGED <<version, data, file, served, main>>
      /\ tasks'[Main].job = "open" /\ tasks'[Main].at = "writing"
      /\ \A v \in Writers \ {Main} : tasks'[v] = tasks[v]
      /\ Orderly /\ (\A v \in Writers : tasks[v].job = "none") => Orderly'
      /\ lock' = Main
  BY <1>1, TakeKeeps DEF LifeInv, JInv, Export
<1>3. alone' = \A w \in Writers : tasks[w].job = "none"
  BY DEF Export
<1>4. JInv'
  BY <1>1, JournalKeeps DEF LifeInv, JournalStep
<1>5. LifeTyped'
  BY <1>2, <1>3 DEF LifeInv, LifeTyped
<1>6. UNCHANGED Busy(Clock) /\ UNCHANGED Busy(Handler)
  BY <1>2, Who DEF Busy
<1>7. Awaiting' /\ Stopped'
  BY <1>1, <1>2, <1>6 DEF LifeInv, Awaiting, Stopped, Over
<1>8. Last'
  <2> SUFFICES ASSUME Closing' PROVE Orderly' /\ \A w \in Writers \ {Main} : tasks'[w].job = "none"
    BY <1>2 DEF Last
  <2>1. \A w \in Writers : tasks[w].job = "none"
    BY <1>3 DEF Closing
  <2>2. (\A w \in Writers : tasks[w].job = "none") => Orderly'
    BY <1>2, <2>1 DEF Orderly, Prepared
  <2> QED BY <1>2, <2>1, <2>2
<1> QED BY <1>1, <1>4, <1>5, <1>7, <1>8 DEF LifeInv

\* Main waits for a task that has not stopped for two seconds, and aborts it.
LEMMA TimeOutKeeps ==
  ASSUME LifeInv, TimeOut
  PROVE  LifeInv' /\ (JournalStep \/ UNCHANGED journalVars)
<1>1. /\ main \in {"control", "payment", "clock"} /\ main' = After(main)
      /\ served' = [served EXCEPT ![main] = "aborted"]
      /\ UNCHANGED alone /\ tasks[Main].at = "idle"
      /\ DOMAIN served = {"control", "payment", "clock"}
  BY DEF LifeInv, LifeTyped, TimeOut, Becomes, Awaiting
<1>2. LifeTyped'
  BY <1>1 DEF LifeInv, LifeTyped, After
<1>3. CASE main = "clock" /\ Busy(Clock)
  <2>1. Abort(Clock) /\ Clock \in Writers
    BY <1>3, Who DEF TimeOut
  <2>2. /\ tasks'[Clock].at = "aborted" /\ Frame'
        /\ \A v \in Writers \ {Clock} : tasks'[v] = tasks[v]
    BY <2>1, AbortKeeps DEF LifeInv, JInv
  <2>3. JInv' /\ JournalStep
    BY <2>1, JournalKeeps DEF JournalStep, LifeInv
  <2>4. tasks'[Main].at = "idle" /\ ~Busy(Clock)' /\ UNCHANGED Busy(Handler)
    BY <1>1, <2>2, Who DEF Busy
  <2>5. Awaiting'
    BY <1>1, <1>3, <2>4 DEF LifeInv, Awaiting, Over, After
  <2>6. Stopped' /\ Last'
    BY <1>1, <1>3, <2>4 DEF LifeInv, Stopped, Last, Closing
  <2> QED BY <1>2, <2>3, <2>5, <2>6 DEF LifeInv
<1>4. CASE ~(main = "clock" /\ Busy(Clock))
  <2>1. UNCHANGED journalVars
    BY <1>4 DEF TimeOut
  <2>2. UNCHANGED tasks /\ UNCHANGED Busy(Clock) /\ UNCHANGED Busy(Handler) /\ JInv'
    BY <2>1, JournalRests DEF journalVars, Busy, LifeInv
  <2>3. Awaiting'
    BY <1>1, <1>4, <2>2 DEF LifeInv, Awaiting, Over, After
  <2>4. Stopped' /\ Last'
    BY <1>1, <2>2 DEF LifeInv, Stopped, Last, Closing
  <2> QED BY <1>2, <2>1, <2>2, <2>3, <2>4 DEF LifeInv
<1> QED BY <1>3, <1>4

\* The other steps of main touch neither the journal nor the engine.
LEMMA MainKeeps ==
  ASSUME LifeInv, Announce \/ GiveUp \/ Shutdown \/ Awaited \/ Return
  PROVE  LifeInv' /\ UNCHANGED journalVars
<1>1. UNCHANGED <<journalVars, alone>>
  BY DEF Announce, GiveUp, Shutdown, Awaited, Return
<1>2. /\ JInv' /\ UNCHANGED <<tasks, version, data, file, lock>>
      /\ UNCHANGED Busy(Clock) /\ UNCHANGED Busy(Handler) /\ (Orderly => Orderly')
  BY <1>1, JournalRests DEF journalVars, Busy, LifeInv, Orderly, Prepared
<1>3. CASE GiveUp
  <2>1. /\ main = "starting" /\ main' = "gone" /\ tasks[Main].at = "idle"
        /\ served' = [k \in {"control", "payment", "clock"} |-> "aborted"]
    BY <1>3 DEF GiveUp, LifeInv, LifeTyped, Awaiting
  <2>2. LifeTyped'
    BY <1>1, <2>1 DEF LifeInv, LifeTyped
  <2>3. Awaiting' /\ Stopped' /\ Last'
    BY <1>2, <2>1 DEF LifeInv, Awaiting, Stopped, Last, Closing
  <2> QED BY <1>1, <1>2, <2>2, <2>3 DEF LifeInv
<1>4. CASE Announce \/ Shutdown \/ Awaited \/ Return
  <2>1. UNCHANGED served
    BY <1>4 DEF Announce, Shutdown, Awaited, Return
  <2>2. \/ main \in {"starting", "serving"} /\ main' \in {"serving", "control"}
        \/ main \in {"control", "payment", "clock"} /\ served[main] = "done" /\ main' = After(main)
        \/ main = "export" /\ main' = "gone"
    <3>1. DOMAIN served = {"control", "payment", "clock"}
      BY DEF LifeInv, LifeTyped
    <3> QED BY <1>4, <3>1 DEF Announce, Shutdown, Awaited, Return
  <2>3. LifeTyped'
    BY <1>1, <2>1, <2>2 DEF LifeInv, LifeTyped, After
  <2>4. Awaiting'
    BY <1>2, <2>1, <2>2 DEF LifeInv, Awaiting, Stopped, Over, After
  <2>5. Stopped'
    BY <1>2, <2>1 DEF LifeInv, Stopped
  <2>6. Last'
    <3>1. Closing' => Closing
      BY <1>1, <1>2, <2>1 DEF Closing
    <3> QED BY <1>2, <3>1 DEF LifeInv, Last
  <2> QED BY <1>1, <1>2, <2>3, <2>4, <2>5, <2>6 DEF LifeInv
<1> QED BY <1>3, <1>4

\* A step of the process is one of the journal or leaves it alone, and keeps
\* the invariant.
LEMMA LifeKeeps ==
  ASSUME LifeInv, LifeNext
  PROVE  LifeInv' /\ (JournalStep \/ UNCHANGED journalVars)
<1>1. CASE \E w \in Writers : Work(w) \/ Cut(w)
  <2>1. PICK w \in Writers : Work(w) \/ Cut(w)
    BY <1>1
  <2>2. UNCHANGED <<stop, served, stalled, main, alone>>
    BY <2>1 DEF Work, Cut
  <2>3. \/ MayBegin(w) /\ Change(w)
        \/ w # Main /\ Capture(w)
        \/ Job(w)
        \/ Abort(w)
    BY <2>1 DEF Work, Cut
  <2>4. JournalStep
    BY <2>3, CaptureTakes DEF JournalStep
  <2>5. JInv'
    BY <2>4, JournalKeeps DEF LifeInv
  <2>6. LifeTyped' /\ Awaiting' /\ Stopped' /\ Last'
    BY <2>2, <2>3, WorkChanges, WorkCaptures, WorkJobs, LifeAborts
  <2> QED BY <2>4, <2>5, <2>6 DEF LifeInv
<1>2. CASE \E k \in DOMAIN served : TaskNext(k)
  BY <1>2, TaskKeeps
<1>3. CASE MainNext
  <2>1. Export => LifeInv' /\ JournalStep
    BY ExportKeeps, Who DEF JournalStep
  <2> QED BY <1>3, <2>1, TimeOutKeeps, MainKeeps DEF MainNext
<1> QED BY <1>1, <1>2, <1>3 DEF LifeNext

LEMMA LifeRests ==
  ASSUME LifeInv, UNCHANGED lifeVars
  PROVE  LifeInv' /\ UNCHANGED journalVars
<1>1. UNCHANGED <<journalVars, served, main, alone>>
  BY DEF lifeVars
<1>2. JInv' /\ UNCHANGED <<tasks, version, data, file, lock>> /\ (Orderly => Orderly')
  BY <1>1, JournalRests DEF journalVars, LifeInv, Orderly, Prepared
<1>3. LifeTyped' /\ Awaiting' /\ Stopped'
  BY <1>1, <1>2 DEF LifeInv, LifeTyped, Awaiting, Stopped, Over, Busy
<1>4. Last'
  <2>1. Closing' => Closing
    BY <1>1, <1>2 DEF Closing
  <2> QED BY <1>2, <2>1 DEF LifeInv, Last
<1> QED BY <1>1, <1>2, <1>3, <1>4 DEF LifeInv

\* The process keeps the journal's invariant through its whole life, and with it
\* that main's last export runs after whatever may change the engine.
THEOREM LifeInvariance == LifeSpec => []LifeInv
<1>1. LifeInv /\ [LifeNext]_lifeVars => LifeInv'
  BY LifeKeeps, LifeRests
<1> QED BY InitLifeInv, <1>1, PTL DEF LifeSpec

\* From start to shutdown, until an export is aborted: the journal is one whole
\* snapshot, it holds what a task was told is exported, and it goes forward.
THEOREM LifeKeepsJournal == LifeSpec => [](JournalWhole /\ ExportedWhenOk) /\ ForwardUndisturbed
<1>1. LifeInv => JournalWhole /\ ExportedWhenOk
  BY JInvShows DEF LifeInv
<1>2. LifeInv /\ [LifeNext]_lifeVars => [Undisturbed => Forward]_journalVars
  <2> SUFFICES ASSUME LifeInv, [LifeNext]_lifeVars PROVE [Undisturbed => Forward]_journalVars
    OBVIOUS
  <2>1. JournalStep \/ UNCHANGED journalVars
    BY LifeKeeps, LifeRests
  <2> QED BY <2>1, JournalKeeps DEF LifeInv
<1> QED BY LifeInvariance, <1>1, <1>2, PTL DEF LifeSpec, ForwardUndisturbed

\* When main has returned without error, the journal is a whole snapshot of the
\* engine's final state, also when tasks were aborted, unless one of their file
\* operations was still under way or the control task itself was aborted.
THEOREM LastExportIsFinal == LifeSpec => []FinalExport
<1>1. LifeInv => FinalExport
  BY DEF LifeInv, Last, Closing, FinalExport
<1> QED BY LifeInvariance, <1>1, PTL

-----------------------------------------------------------------------------
\* What an abstract journal would be: one that takes the engine's state at once.

\* The journal stays as it is, or becomes the engine's state of this moment.
AtOnce == \/ file' = file /\ (file # Nobody => data'[file] = data[file])
          \/ file' # Nobody /\ data'[file'] = Content(version, TRUE)

LEMMA JobAtOnce ==
  ASSUME JInv, Undisturbed, NEW w \in Writers, Job(w)
  PROVE  AtOnce
<1>1. Frame /\ Orderly
  BY DEF JInv
<1>2. tasks[w].job # "none"
  BY DEF Job, OpenTemp, Fill, RenameTemp, JobFails
<1>3. tasks[w].snapshot = version
  BY <1>1, <1>2, HolderWorks
<1>4. CASE OpenTemp(w)
  BY <1>1, <1>4, OpenKeeps DEF AtOnce
<1>5. CASE Fill(w)
  BY <1>1, <1>5, FillKeeps DEF AtOnce
<1>6. CASE RenameTemp(w)
  BY <1>1, <1>3, <1>6, RenameKeeps DEF AtOnce
<1>7. CASE JobFails(w)
  BY <1>1, <1>7, FailKeeps DEF AtOnce
<1> QED
  BY <1>4, <1>5, <1>6, <1>7 DEF Job

LEMMA StepAtOnce ==
  ASSUME JInv, Undisturbed, JournalStep
  PROVE  AtOnce
<1>1. PICK w \in Writers : Change(w) \/ Take(w) \/ Job(w) \/ Abort(w)
  BY DEF JournalStep
<1>2. CASE Change(w) \/ Take(w) \/ Abort(w)
  BY <1>2 DEF Change, Take, Abort, AtOnce
<1> QED
  BY <1>1, <1>2, JobAtOnce

\* An export takes many steps of the file system, between which other tasks run,
\* but, until one is aborted, it happens at once for whoever reads the journal:
\* the rename turns it from what it was into the engine's state of that very
\* moment, for the lock is kept from the snapshot to the rename.
THEOREM ExportsAtOnce == LifeSpec => [][Undisturbed => AtOnce]_journalVars
<1>1. LifeInv /\ [LifeNext]_lifeVars => [Undisturbed => AtOnce]_journalVars
  <2> SUFFICES ASSUME LifeInv, [LifeNext]_lifeVars PROVE [Undisturbed => AtOnce]_journalVars
    OBVIOUS
  <2>1. JournalStep \/ UNCHANGED journalVars
    BY LifeKeeps, LifeRests
  <2> QED
    BY <2>1, StepAtOnce DEF LifeInv
<1> QED
  BY LifeInvariance, <1>1, PTL DEF LifeSpec
=============================================================================

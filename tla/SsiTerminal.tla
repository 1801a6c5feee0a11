---------------------------- MODULE SsiTerminal ----------------------------
(***************************************************************************)
(* The simulated SSI terminal of scripts/ssi: at most one purchase at a    *)
(* time, which goes through its scenario's phases by the clock alone, and  *)
(* the result of the last one.  Nothing happens at the end of a phase: the *)
(* terminal looks at the clock when it is ticked or asked.                 *)
(*                                                                         *)
(* A terminal is a record, and its methods are operators on it, since      *)
(* every request first ticks the terminal and then acts on what that left. *)
(***************************************************************************)
EXTENDS Naturals, Sequences, SequencesExt

CONSTANTS
  Uids,        \* the transaction identifiers of cash registers
  Scenarios,   \* what may be armed
  Default      \* the scenario after a reset

\* The methods that only give information are one here.
Methods == {"Purchase", "GetStatus", "GetLastResult", "Interrupt", "GetResultByUid", "Info"}

FaultTypes == {"normal", "silence", "close", "bad_lrc", "bad_json", "bad_length", "unknown_status"}

PhaseStatus == {"S01", "S02", "S03", "S04", "S05", "S06", "S07", "S08"}
Errors == {"E00", "E01", "E02", "E03", "E04", "E05", "E06", "E07", "E08", "E09", "E10", "E11",
           "E12", "E13", "E14", "E15", "E16", "E17", "E18", "E19", "E20", "E21", "E22"}

Scenario == [phases         : Seq([status : PhaseStatus, ms : Nat]),
             error          : {""} \cup Errors,
             faults         : [Methods -> FaultTypes],
             request_errors : SUBSET Methods,    \* answered with E21, for one
             delayed        : BOOLEAN,
             fragments      : {1, 2}]

ASSUME SsiAssumption == Scenarios \cup {Default} \subseteq Scenario

Nothing == [serial |-> 0]   \* null

\* serial numbers the accepted purchases and tells their results apart.
NewTerminal(result, accepted) ==
  [generation |-> 1, armed |-> Default, active |-> Nothing, last |-> result, accepted |-> accepted]

-----------------------------------------------------------------------------
\* The clock.

\* How long all of these take: the end of the last one.
Length(phases) ==
  LET end[k \in 0 .. Len(phases)] == IF k = 0 THEN 0 ELSE end[k - 1] + phases[k].ms
  IN  end[Len(phases)]

\* Mutant: a phase includes the instant of its end.
PhaseAtInclusive(phases, elapsed) ==
  LET current == {k \in DOMAIN phases : elapsed <= Length(SubSeq(phases, 1, k))}
  IN  IF current = {} THEN "S00"
      ELSE phases[CHOOSE k \in current : \A j \in current : k <= j].status

\* The phase that an operation is in after so long, or "S00" after the last.
PhaseAt(phases, elapsed) ==
  LET current == {k \in DOMAIN phases : elapsed < Length(SubSeq(phases, 1, k))}
  IN  IF current = {} THEN "S00"
      ELSE phases[CHOOSE k \in current : \A j \in current : k <= j].status

Status(t) == IF t.active = Nothing THEN "S00"
             ELSE PhaseAt(t.active.scenario.phases, t.active.elapsed)

Complete(t, code) ==
  [t EXCEPT !.active = Nothing,
            !.last = [serial |-> t.active.serial, uid |-> t.active.uid, code |-> code,
                      scenario |-> t.active.scenario, ended |-> t.active.elapsed]]

Tick(t) == IF t.active # Nothing /\ Status(t) = "S00"
           THEN Complete(t, t.active.scenario.error)
           ELSE t

\* The clock moves on; what it says after the last phase makes no difference.
Passed(t) ==
  IF t.active = Nothing \/ t.active.elapsed > Length(t.active.scenario.phases) THEN t
  ELSE [t EXCEPT !.active = [t.active EXCEPT !.elapsed = @ + 1]]

-----------------------------------------------------------------------------
\* The requests: each operator says what becomes of a ticked terminal, and the
\* reply, with the serial of the result it carries, if any.

Gives(t, error, serial) == [terminal |-> t, error |-> error, serial |-> serial]

Interruptible == {"S02", "S03", "S08"}

Interrupt(t) ==
  IF Status(t) \in Interruptible THEN Gives(Complete(t, "E12"), "", 0) ELSE Gives(t, "E08", 0)

GetLastResult(t) ==
  IF t.active # Nothing THEN Gives(t, "E06", 0)
  ELSE IF t.last = Nothing THEN Gives(t, "", 0)
  ELSE Gives(t, t.last.code, t.last.serial)

GetResultByUid(t, uid) ==
  IF t.active # Nothing /\ t.active.uid = uid THEN Gives(t, "E22", 0)
  ELSE IF t.last # Nothing /\ t.last.uid = uid THEN Gives(t, t.last.code, t.last.serial)
  ELSE Gives(t, "E20", 0)

\* Mutant: the result of the purchase before is kept.
PurchaseKeepsLast(t, request) ==
  IF t.active # Nothing THEN Gives(t, "E06", 0)
  ELSE IF ~request.legal THEN Gives(t, "E09", 0)
  ELSE Gives([t EXCEPT !.accepted = @ + 1,
                       !.active = [serial |-> t.accepted + 1, uid |-> request.uid, elapsed |-> 0,
                                   scenario |-> t.armed, asked |-> request.asked]], "", 0)

Purchase(t, request) ==
  IF t.active # Nothing THEN Gives(t, "E06", 0)
  ELSE IF ~request.legal THEN Gives(t, "E09", 0)
  ELSE Gives([t EXCEPT !.last = Nothing,
                       !.accepted = @ + 1,
                       !.active = [serial |-> t.accepted + 1, uid |-> request.uid, elapsed |-> 0,
                                   scenario |-> t.armed, asked |-> request.asked]], "", 0)

InForce(t) == IF t.active # Nothing THEN t.active.scenario ELSE t.armed

Handle(t, request) ==
  IF request.method \notin Methods THEN Gives(t, "E05", 0)
  ELSE IF request.method \in InForce(t).request_errors THEN Gives(t, "E21", 0)
  ELSE IF request.method = "Interrupt" THEN Interrupt(t)
  ELSE IF request.method = "GetLastResult" THEN GetLastResult(t)
  ELSE IF request.method = "GetResultByUid" THEN GetResultByUid(t, request.uid)
  ELSE IF request.method = "Purchase" THEN Purchase(t, request)
  ELSE Gives(t, "", 0)

Serve(t, request) == Handle(Tick(t), request)

-----------------------------------------------------------------------------
\* The control port.

Arm(t, scenario) == [t EXCEPT !.armed = scenario]

Reset(t, preserve_result) ==
  [t EXCEPT !.generation = @ + 1,
            !.armed = Default,
            !.active = Nothing,
            !.last = IF preserve_result THEN @ ELSE Nothing]
=============================================================================

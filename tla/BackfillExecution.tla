-------------------------- MODULE BackfillExecution ---------------------------
(***************************************************************************)
(* Invocations of the backfill runner (backfill_execute.main), which share *)
(* the database and nothing else: no lock keeps two of them apart.  Every  *)
(* unit is one ingestion call, taken as AtomicIngestion promises it; other *)
(* calls on the same stream may land in between.  An invocation reads the  *)
(* plan's progress, the rows and the audits in statements of their own,    *)
(* before the batch and again after it.                                    *)
(***************************************************************************)
EXTENDS BackfillPlan, FiniteSets

CONSTANTS
  Invocations,     \* runs of the program
  MaxUnits,        \* ABSOLUTE_MAX_UNITS_PER_INVOCATION
  RecentRequests,  \* requests of the stream's other ingestion calls
  Faults,          \* subset of FaultKinds
  Absent

FaultKinds == {"source",     \* the call of a unit fails and is audited
               "unaudited",  \* it fails and its audit row stays running
               "gap",        \* the source leaves out hours of a window
               "pressure",   \* the host is short of memory between two units
              "interrupt",  \* Ctrl-C in a call between its commit and its return
               "crash"}      \* the process dies

ASSUME FaultsAssumption == Faults \subseteq FaultKinds
ASSUME MaxUnitsAssumption == MaxUnits \in Nat \ {0}
ASSUME InvocationsAssumption == IsFiniteSet(Invocations)

Stream == "whale"
Recent == <<"other_call", 0>>
Hours == 0..TargetEnd
Runs == {Recent} \cup (Invocations \X Units)

ASSUME RecentAssumption ==
  RecentRequests \subseteq [endpoint: {"flows"}, stream: {Stream}, first: Int, last: Hours]
ASSUME AbsentAssumption ==
  Absent \notin [timestamp: Hours, run: Runs] \cup [writer: Runs, complete: {TRUE}]

Requests == RecentRequests \cup {UnitRequest(u) : u \in Units}

VARIABLES
  status, request, table, checkpoint,  \* the database, as in AtomicIngestion
  landed,  \* runs whose data was ever committed, whatever their audit row says by now
  pc,      \* where main stands
  limit,   \* --max-units, equal to --max-live-calls
  before,  \* the snapshot main read before the batch
  unit,    \* the unit run_one was last called with
  done     \* successful_units

vars == <<status, request, table, checkpoint, landed, pc, limit, before, unit, done>>
db == <<status, request, table, checkpoint, landed>>

\* A flow record's key is its hour: the label of the stream's calls never changes.
Ingestion == INSTANCE AtomicIngestion
               WITH Streams <- {Stream}, Keys <- Hours, TimeOf <- [h \in Hours |-> h]

Audits == {[request |-> request[r], status |-> status[r]] : r \in {r \in Runs : status[r] # "none"}}
AuditCount == Cardinality({r \in Runs : status[r] # "none"})
Stored == {h \in Hours : table[Stream][h] # Absent}
Mark == checkpoint[Stream]

Ended == {"refused", "succeeded", "gap", "failed", "crashed"}
PCs == {"idle", "inspected", "rows_read", "snapshot", "authorized", "next", "ingesting",
        "landed", "validated", "finishing", "progress_checked", "rows_checked"} \cup Ended

NoSnapshot == [progress |-> [u \in Units |-> "PENDING"], rows |-> {}, audits |-> 0, mark |-> Absent]

Checkpoints == [timestamp: Hours, run: Runs] \cup {Absent}

TypeOK ==
  /\ status \in [Runs -> {"none", "running", "success", "failed"}]
  /\ request \in [Runs -> Requests \cup {Absent}]
  /\ table \in [{Stream} -> [Hours -> [writer: Runs, complete: {TRUE}] \cup {Absent}]]
  /\ checkpoint \in [{Stream} -> Checkpoints]
  /\ landed \subseteq Runs
  /\ pc \in [Invocations -> PCs]
  /\ limit \in [Invocations -> 0..MaxUnits]
  /\ before \in [Invocations ->
       [progress: [Units -> {"COMPLETE", "PENDING", "AMBIGUOUS"}], rows: SUBSET Hours,
        audits: 0..Cardinality(Runs), mark: Checkpoints]]
  /\ unit \in [Invocations -> Units \cup {0}]
  /\ done \in [Invocations -> 0..MaxUnits]

Init ==
  /\ Ingestion!Init
  /\ landed = {}
  /\ pc = [i \in Invocations |-> "idle"]
  /\ limit = [i \in Invocations |-> 0]
  /\ before = [i \in Invocations |-> NoSnapshot]
  /\ unit = [i \in Invocations |-> 0]
  /\ done = [i \in Invocations |-> 0]

-------------------------------------------------------------------------------
(* The rules. *)

LimitsTooHigh == 1..(MaxUnits + 1)

\* validate_invocation_limits
Limits == 1..MaxUnits

\* pending[:n], in the order of the plan.
FirstOf(units, n) == {u \in units : Cardinality({v \in units : v <= u}) <= n}

Selected(i) == FirstOf(Having(before[i].progress, "PENDING"), limit[i])

SelectedHours(i) == UNION {Desired(u) : u \in Selected(i)}

RunOf(i) == <<i, unit[i]>>

Contiguous(units) == \A u, v \in units : \A w \in Units : u < w /\ w < v => w \in units

\* select_authorized_units, and main's demand for a checkpoint.
MayAuthorize(i) ==
  /\ Having(before[i].progress, "AMBIGUOUS") = {}
  /\ Cardinality(Selected(i)) = limit[i]
  /\ Contiguous(Selected(i))
  /\ before[i].mark # Absent

Counts(progress) ==
  <<Cardinality(Having(progress, "COMPLETE")), Cardinality(Having(progress, "PENDING")),
    Cardinality(Having(progress, "AMBIGUOUS"))>>

\* expected_progress_after
Expected(i, n) ==
  <<Cardinality(Having(before[i].progress, "COMPLETE")) + n,
    Cardinality(Having(before[i].progress, "PENDING")) - n, 0>>

\* validate_unit_readonly: the desired hours that are not in the table.
MissingOf(u) == Desired(u) \ Stored

\* validate_checkpoint_transition
CheckpointTransitionValid(old) ==
  /\ Mark # Absent /\ Mark.timestamp >= old.timestamp
  /\ Mark # old => /\ status[Mark.run] = "success"
                   /\ request[Mark.run].last = Mark.timestamp

Goto(i, from, to) == pc[i] = from /\ pc' = [pc EXCEPT ![i] = to]

\* main goes on; what it has read is gone when it ends without success.
Proceed(i, from, to) ==
  /\ Goto(i, from, to)
  /\ IF to \in Ended \ {"succeeded"}
     THEN /\ limit' = [limit EXCEPT ![i] = 0]
          /\ before' = [before EXCEPT ![i] = NoSnapshot]
          /\ done' = [done EXCEPT ![i] = 0]
     ELSE UNCHANGED <<limit, before, done>>

CallLands(r) == Ingestion!Land(r) /\ landed' = landed \cup {r}

\* The handler marks the run failed: nothing landed, or Ctrl-C came after the commit.
CallFails(r) ==
  /\ status[r] = "running" \/ "interrupt" \in Faults
  /\ Ingestion!Fail(r)
  /\ UNCHANGED landed

-------------------------------------------------------------------------------
(* Another ingestion call of the stream. *)

BeginRecent ==
  /\ Ingestion!Begin(Recent) /\ request'[Recent] \in RecentRequests
  /\ UNCHANGED <<landed, pc, limit, before, unit, done>>

EndRecent ==
  /\ CallLands(Recent) \/ CallFails(Recent)
  /\ UNCHANGED <<pc, limit, before, unit, done>>

-------------------------------------------------------------------------------
(* Before the batch. *)

InspectProgress(i) ==
  /\ Goto(i, "idle", "inspected")
  /\ \E n \in Limits : limit' = [limit EXCEPT ![i] = n]
  /\ before' = [before EXCEPT ![i].progress = PlanProgress(Audits)]
  /\ UNCHANGED <<db, unit, done>>

ReadRows(i) ==
  /\ Goto(i, "inspected", "rows_read")
  /\ before' = [before EXCEPT ![i].rows = Stored]
  /\ UNCHANGED <<db, limit, unit, done>>

ReadAudits(i) ==
  /\ Goto(i, "rows_read", "snapshot")
  /\ before' = [before EXCEPT ![i].audits = AuditCount, ![i].mark = Mark]
  /\ UNCHANGED <<db, limit, unit, done>>

\* The batch is not what was authorized, the opt-ins are missing, the host is short
\* of memory: nothing is called and nothing written.
Refuse(i) ==
  /\ Proceed(i, "snapshot", "refused")
  /\ UNCHANGED <<db, unit>>

\* The operator's expectations match what main has read.
Authorize(i) ==
  /\ Proceed(i, "snapshot", "authorized")
  /\ MayAuthorize(i)
  /\ UNCHANGED <<db, unit>>

\* progress_again
Reinspect(i) ==
  LET again == PlanProgress(Audits)
      same == /\ Counts(again) = Counts(before[i].progress)
              /\ FirstOf(Having(again, "PENDING"), limit[i]) = Selected(i)
  IN  /\ Proceed(i, "authorized", IF same THEN "next" ELSE "failed")
      /\ UNCHANGED <<db, unit>>

-------------------------------------------------------------------------------
(* run_one, for each selected unit in turn. *)

\* The next of the selected units, which select_authorized_units found contiguous.
StartUnit(i) ==
  /\ Proceed(i, "next", "ingesting")
  /\ \E u \in Selected(i) :
       /\ Cardinality({v \in Selected(i) : v < u}) = done[i]
       /\ unit' = [unit EXCEPT ![i] = u]
       /\ Ingestion!Begin(<<i, u>>) /\ request'[<<i, u>>] = UnitRequest(u)
  /\ UNCHANGED landed

UnitLands(i) ==
  /\ Proceed(i, "ingesting", "landed")
  /\ CallLands(RunOf(i))
  /\ "gap" \notin Faults =>
       \A h \in Hours : h \in Desired(unit[i]) => table'[Stream][h] # Absent
  /\ UNCHANGED unit

FailedUnitIsSkipped(i) ==
  /\ "source" \in Faults
  /\ Goto(i, "ingesting", IF done[i] + 1 < limit[i] THEN "next" ELSE "finishing")
  /\ CallFails(RunOf(i))
  /\ done' = [done EXCEPT ![i] = @ + 1]
  /\ UNCHANGED <<limit, before, unit>>

\* ingest_flows raises: the batch stops.
UnitFails(i) ==
  /\ Proceed(i, "ingesting", "failed")
  /\ \/ "source" \in Faults /\ CallFails(RunOf(i))
     \/ "unaudited" \in Faults /\ UNCHANGED db
  /\ UNCHANGED unit

\* Ctrl-C after the commit and before ingest_flows returns: its handler marks the run
\* failed although the rows and the checkpoint have landed, and the batch stops.
UnitInterrupted(i) ==
  /\ "interrupt" \in Faults
  /\ Proceed(i, "landed", "failed")
  /\ CallFails(RunOf(i))
  /\ UNCHANGED unit

GapIsPassed(i) == Proceed(i, "landed", "validated") /\ UNCHANGED <<db, unit>>

\* SourceCoverageGap stops the batch, although the unit's run is a success.
ValidateUnit(i) ==
  /\ Proceed(i, "landed", IF MissingOf(unit[i]) = {} THEN "validated" ELSE "gap")
  /\ UNCHANGED <<db, unit>>

CountDone(i) == done' = [done EXCEPT ![i] = @ + 1]

\* The progress must have advanced by this unit; then the host's memory is looked at.
CheckProgress(i) ==
  LET advanced == Counts(PlanProgress(Audits)) = Expected(i, done[i] + 1)
      more == done[i] + 1 < limit[i]
  IN  /\ UNCHANGED <<db, unit>>
      /\ \/ /\ advanced
            /\ Goto(i, "validated", IF more THEN "next" ELSE "finishing")
            /\ CountDone(i)
            /\ UNCHANGED <<limit, before>>
         \/ /\ ~advanced \/ ("pressure" \in Faults /\ more)
            /\ Proceed(i, "validated", "failed")

-------------------------------------------------------------------------------
(* After the batch: each check that does not hold raises. *)

\* expected_next_pending_index and first_pending_index agree.
ResumesNext(i, progress) ==
  \A u \in Selected(i) : (\A v \in Selected(i) : v <= u) =>
    IF u = UnitCount THEN Having(progress, "PENDING") = {}
    ELSE FirstOf(Having(progress, "PENDING"), 1) = {u + 1}

CheckFinalProgress(i) ==
  LET final == PlanProgress(Audits)
      holds == Counts(final) = Expected(i, done[i]) /\ ResumesNext(i, final)
  IN  /\ Proceed(i, "finishing", IF holds THEN "progress_checked" ELSE "failed")
      /\ UNCHANGED <<db, unit>>

\* The desired hours are all there, and nothing else is new.
CheckFinalRows(i) ==
  LET new == SelectedHours(i) \ before[i].rows
      holds == /\ SelectedHours(i) \subseteq Stored
               /\ Cardinality(Stored) = Cardinality(before[i].rows) + Cardinality(new)
               /\ before[i].rows \subseteq Stored
  IN  /\ Proceed(i, "progress_checked", IF holds THEN "rows_checked" ELSE "failed")
      /\ UNCHANGED <<db, unit>>

CountsNoLess(i) == AuditCount >= before[i].audits + done[i]

AuditsAddUp(i) == AuditCount = before[i].audits + done[i]

CheckFinalAudits(i) ==
  LET holds == AuditsAddUp(i) /\ CheckpointTransitionValid(before[i].mark)
  IN  /\ Proceed(i, "rows_checked", IF holds THEN "succeeded" ELSE "failed")
      /\ UNCHANGED <<db, unit>>

-------------------------------------------------------------------------------
\* The process dies; a call it was making leaves its audit row running.
Crash(i) ==
  /\ "crash" \in Faults
  /\ pc[i] \notin Ended \cup {"idle"}
  /\ Proceed(i, pc[i], "crashed")
  /\ UNCHANGED <<db, unit>>

MainStep(i) ==
  \/ ReadRows(i) \/ ReadAudits(i) \/ Refuse(i) \/ Authorize(i) \/ Reinspect(i)
  \/ StartUnit(i) \/ UnitLands(i) \/ UnitFails(i) \/ UnitInterrupted(i)
  \/ ValidateUnit(i) \/ CheckProgress(i)
  \/ CheckFinalProgress(i) \/ CheckFinalRows(i) \/ CheckFinalAudits(i)

Next ==
  \/ BeginRecent \/ EndRecent
  \/ \E i \in Invocations : InspectProgress(i) \/ MainStep(i) \/ Crash(i)

Spec == Init /\ [][Next]_vars

-------------------------------------------------------------------------------
(* What must hold. *)

Complete(u) == UnitProgress(u, Audits) = "COMPLETE"

\* A call landed the unit and was then interrupted: its audit row says it failed.
LandedAsFailed(u) ==
  \E r \in landed : request[r] = UnitRequest(u) /\ status[r] = "failed"

\* Two invocations that ran beside each other never both report success on the same
\* unit, although nothing keeps them from calling the source for it twice: the second
\* to finish finds an audit row too many.
SuccessesDisjoint ==
  \A i, j \in Invocations :
    i # j /\ pc[i] = "succeeded" /\ pc[j] = "succeeded" => Selected(i) \cap Selected(j) = {}

\* Invocations work through the plan in order: when the call of one for a unit has
\* landed, every earlier unit has, however invocations overlap, fail or die and whatever
\* lands beside them.  The earlier unit counts as complete, unless Ctrl-C came after the
\* commit of the call that landed it.  (select_authorized_units, progress_again)
LandedInOrder ==
  \A i \in Invocations, u, v \in Units :
    v < u /\ <<i, u>> \in landed => Complete(v) \/ LandedAsFailed(v)

\* No unit is complete before an earlier one.  This is lost where another call asks for
\* just the window of a unit, progress being read off the audit rows of whoever wrote
\* them, and where Ctrl-C makes a failure of a call that has landed.
CompletePrefix == \A u, v \in Units : v < u /\ Complete(u) => Complete(v)

\* No batch goes on past a gap: an invocation that has landed a unit the source left
\* hours of out is still at that unit, stopped there or died there; and none succeeds
\* over a gap in what it had selected, whoever landed it.  Nobody reports the gap of a
\* unit that another call landed, or that died at it: it counts as complete.
\* (_validate_unit_readonly, the checks after the batch)
GapsStopTheBatch ==
  \A i \in Invocations, u \in Units : MissingOf(u) # {} =>
    /\ status[<<i, u>>] = "success" => unit[i] = u /\ pc[i] \in {"landed", "gap", "crashed"}
    /\ u \in Selected(i) => pc[i] # "succeeded"

===============================================================================

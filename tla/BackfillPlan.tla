----------------------------- MODULE BackfillPlan -----------------------------
(***************************************************************************)
(* The plan of the hourly flow backfill and its progress, as pure          *)
(* operators.  Time is in whole hours; a unit covers the bucket starts     *)
(* first..last and requests one hour more at the front.                    *)
(***************************************************************************)
EXTENDS Integers

CONSTANTS
  TargetStart, TargetEnd,  \* first and last desired bucket start
  MaxDesired               \* max_desired_buckets_per_request

ASSUME TargetAssumption == TargetStart \in Nat \ {0} /\ TargetEnd \in Nat
ASSUME TargetOrdered == TargetStart <= TargetEnd
ASSUME MaxDesiredAssumption == MaxDesired \in Nat \ {0}

Smaller(a, b) == IF a <= b THEN a ELSE b

\* plan_hourly_flow_backfill: the loop's count, the last unit being the shorter one.
UnitCount == (TargetEnd - TargetStart) \div MaxDesired + 1

\* HourlyFlowBackfillUnit.index
Units == 1..UnitCount

\* Each pass of the loop starts where the last one ended.
Plan ==
  [u \in Units |->
    LET first == TargetStart + (u - 1) * MaxDesired
    IN  [first |-> first, last |-> Smaller(first + MaxDesired - 1, TargetEnd)]]

\* The bucket starts a unit answers for.
Desired(u) == Plan[u].first..Plan[u].last

\* The window run_one asks for: request_start lies one hour before the coverage.
UnitRequest(u) ==
  [endpoint |-> "flows", stream |-> "whale", first |-> Plan[u].first - 1, last |-> Plan[u].last]

\* classify_unit_progress.  Audits are (request, status) pairs.  Two ways to AMBIGUOUS
\* are left out, a success without a valid warning summary and 'partial': every success
\* of a flows call stores a valid one, the empty one included, and no code writes
\* 'partial'.  An older row of either kind only makes the invocations refuse.
UnitProgress(u, audits) ==
  LET exact == {a.status : a \in {b \in audits : b.request = UnitRequest(u)}} IN
  IF "success" \in exact THEN "COMPLETE"
  ELSE IF "running" \in exact THEN "AMBIGUOUS"
  ELSE "PENDING"

\* inspect_plan_progress and classify_plan_progress.
PlanProgress(audits) == [u \in Units |-> UnitProgress(u, audits)]

Having(progress, value) == {u \in Units : progress[u] = value}

===============================================================================

-------------------------- MODULE MCBackfillExecution --------------------------
(***************************************************************************)
(* An instance of BackfillExecution for TLC: a target of two hours in      *)
(* two units, and another call whose window ends where the target does:    *)
(* the window of the second unit, or an hour of its own.                   *)
(***************************************************************************)
EXTENDS BackfillExecution, TLC

RecentWindows ==
  {UnitRequest(UnitCount),
   [endpoint |-> "flows", stream |-> Stream, first |-> TargetEnd, last |-> TargetEnd]}

\* Invocations differ in nothing but their name.
Interchangeable == Permutations(Invocations)

===============================================================================

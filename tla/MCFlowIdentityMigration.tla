----------------------- MODULE MCFlowIdentityMigration -----------------------
(***************************************************************************)
(* An instance of FlowIdentityMigration for TLC: an hour, the day that     *)
(* starts with it, and the next hour.                                      *)
(***************************************************************************)
EXTENDS FlowIdentityMigration

HoursAndDay == {[date |-> 1, end |-> 2], [date |-> 1, end |-> 4], [date |-> 2, end |-> 3]}

Old(date, end) == Row(Key("start", date, Absent), date, end, Before)

\* Sound rows, one without an end, one that ends where it starts.
SoundAndBroken == {Old(1, 2), Old(1, 4), Old(2, 3), Old(2, Absent), Old(3, 3)}

===============================================================================

SPECIFICATION FairSpec
CONSTANTS
  Migrations = {m1, m2}
  Calls = {c1, c2}
  Buckets <- HoursAndDay
  OldRows <- SoundAndBroken
  Faults = {"error", "lost_answer"}
  Absent = Absent
INVARIANTS TypeOK AllKeysOrNone
PROPERTIES NoRowLost EveryMigrationEnds
CHECK_DEADLOCK FALSE

SPECIFICATION FairSpec
CONSTANTS
  Runs = {r1, r2}
  Streams = {"whale", "swaps", "token"}
  Hours <- Hours2
  Keys = {"first", "tied", "second"}
  TimeOf <- KeysTied
  Answers <- SmallAnswers
  MaxRecords = 2
  Requests <- AllEndpoints
  Faults <- AllFaults
  Absent = Absent
INVARIANTS TypeOK CheckpointBacked SuccessRecorded RowsFromCommittedRuns StoredRowsComplete CirclesTakeTies
PROPERTIES CheckpointMonotone ImplementsAtomic EveryCallEnds

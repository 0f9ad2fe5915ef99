SPECIFICATION Spec
CONSTANTS
  Runs = {r1, r2}
  Streams = {"whale"}
  Hours <- Hours2
  Keys = {"first", "second"}
  TimeOf <- KeyAnHour
  Answers <- SmallAnswers
  MaxRecords = 2
  Requests <- TwoWindows
  Faults <- LostConnections
  Absent = Absent
INVARIANTS RaisedCallsAreAudited

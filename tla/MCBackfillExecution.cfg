SPECIFICATION Spec
CONSTANTS
  TargetStart = 1
  TargetEnd = 2
  MaxDesired = 1
  Invocations = {i1, i2}
  MaxUnits = 2
  RecentRequests <- RecentWindows
  Faults = {"source", "unaudited", "gap", "pressure", "interrupt", "crash"}
  Absent = Absent
INVARIANTS TypeOK SuccessesDisjoint LandedInOrder GapsStopTheBatch
SYMMETRY Interchangeable
CHECK_DEADLOCK FALSE

SPECIFICATION FairSpec
CONSTANTS
  HourTicks = 2
  FirstHour = 0
  LastHour = 10
  OldOffset = 2
  WinterOffset = 4
  SummerFrom = 18
  LastOld = 8
  FirstNew = 9
  BroadMargin = 4
  Gap = 2
  Pre = 1
  Post = 2
  Quantile = 4
  Builders = {b1, b2}
  Settled <- SettledSales
  Sales <- AllSales
  AcceptedOverlap <- OverlapSales
  PriceSeries <- AllSeries
  Faults = {"error", "lost_answer"}
  Empty = Empty
  Absent = Absent
INVARIANTS TypeOK TablesAgree SettledSalesCounted EventsStandApart
PROPERTIES CheckedTablesStood ImplementsAtomicSnapshot EveryBuildEnds
CHECK_DEADLOCK FALSE

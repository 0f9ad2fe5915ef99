SPECIFICATION FairSpec
CONSTANTS
  Others = {"other"}
  Interval = 2
  MaxClock = 4
  Faults = {"fetch", "crash", "load"}
INVARIANTS TypeOK SingleFlight
PROPERTIES DueRefreshHappens RequestsSpaced
CHECK_DEADLOCK FALSE

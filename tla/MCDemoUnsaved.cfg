SPECIFICATION Spec
CONSTANTS
  Others = {}
  Interval = 3
  MaxClock = 8
  Faults = {"disk", "crash_unsaved"}
PROPERTIES NoSoonerThanAnHour
CHECK_DEADLOCK FALSE

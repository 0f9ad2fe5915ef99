SPECIFICATION LiveSpec
CONSTANTS
  Others = {}
  Interval = 2
  MaxClock = 4
  Faults = {"fetch", "disk", "crash", "crash_unsaved", "load"}
  Window = 4
  History <- PastHours
  NoHour = NoHour
INVARIANTS  FileFollowsMemory
PROPERTIES RequestsSpaced ShownNeverGoesBack ShownHourNeverGoesBack
CHECK_DEADLOCK FALSE

SPECIFICATION Spec
CONSTANTS
  Others = {}
  Interval = 3
  MaxClock = 8
  Faults = {}
PROPERTIES SlotStaysPut
CHECK_DEADLOCK FALSE

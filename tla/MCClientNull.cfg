SPECIFICATION Spec
CONSTANTS
  Calls = 1
  MaxCalls = 5
  MaxRetries = 0
  MaxPages = 2
INVARIANT
  WarnedRunsKeepEvidence
CHECK_DEADLOCK FALSE

\* Three calls on one client, whose budget is well below what they could spend.
SPECIFICATION FairSpec
CONSTANTS
  Calls = 3
  MaxCalls = 8
  MaxRetries = 2
  MaxPages = 3
INVARIANTS
  TypeOK
  PostsWithinBudget
  EveryPageOnce
  AuditedCallsWereSent
  OnlyApprovedWarningsSucceed
  WarnedPagesNamed
PROPERTY
  EveryCallEnds
\* The client stops after its last call.
CHECK_DEADLOCK FALSE

\* One action, every decision: how calls and exits end.
CONSTANTS
  a1 = a1
  a2 = a2
  Owner = Owner
  Actions <- OneAction
  Decisions <- KnownDecisions
  MaxRetries = 1
  MaxPolls = 2
SPECIFICATION FairSpec
INVARIANTS
  OneEventPerAction
  ExitIsConfirmed
  SequenceBehindLedger
PROPERTIES
  CancellationIsPrimary
  CallsSettle
\* Every task may have ended and every request been handled.
CHECK_DEADLOCK FALSE

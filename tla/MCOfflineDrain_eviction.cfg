\* Four events through a buffer of two, with drains, failures and a close.
CONSTANTS
  e1 = e1
  e2 = e2
  e3 = e3
  e4 = e4
  None = None
  Events <- TheEvents
  MaxEvents = 2
SPECIFICATION FairSpec
INVARIANTS
  DrainTypeOK
  LossIsPaidFor
  OrderKept
  QuietCompletion
PROPERTIES
  OnlineWhenDrained
  DrainRecovers
\* A closed chain with nothing in flight does nothing more.
CHECK_DEADLOCK FALSE

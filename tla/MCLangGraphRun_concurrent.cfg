\* Two concurrent invocations of one graph, every way of wrapping its nodes.
CONSTANTS
  i1 = i1
  i2 = i2
  x1 = x1
  x2 = x2
  n1 = n1
  n2 = n2
  None = None
  Invocations <- TwoInvocations
  Runs <- TwoRuns
  Nodes <- TwoNodes
  Invoked <- InvokedBy
  Node <- NodeOf
SPECIFICATION FairSpec
INVARIANTS
  LangGraphTypeOK
  BodiesAreGated
  GovernedOnce
  AllAccountedFor
  RefusalSurfaces
  OwnTrail
PROPERTIES
  InvocationEnds
\* Every invocation may have ended.
CHECK_DEADLOCK FALSE

\* A graph without a stream.
CONSTANTS
  i1 = i1
  i2 = i2
  x1 = x1
  x2 = x2
  n1 = n1
  n2 = n2
  None = None
  Invocations <- OneInvocation
  Runs <- OneRun
  Nodes <- OneNode
  Invoked <- OneInvokedBy
  Node <- OneNodeOf
SPECIFICATION Spec
INVARIANTS
  NoReportLost
\* Every invocation may have ended.
CHECK_DEADLOCK FALSE

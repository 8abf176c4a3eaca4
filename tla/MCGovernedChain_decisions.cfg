\* Every decision, two concurrent actions, two polls.
CONSTANTS
  a1 = a1
  a2 = a2
  Owner = Owner
  Actions <- TwoActions
  Decisions <- KnownDecisions
  MaxRetries = 0
  MaxPolls = 2
SPECIFICATION Spec
SYMMETRY ActionSymmetry
INVARIANTS
  TypeOK
  FailClosed
  RefusalsAreTrue
PROPERTIES
  ImplementsGate
\* Every task may have ended and every request been handled.
CHECK_DEADLOCK FALSE

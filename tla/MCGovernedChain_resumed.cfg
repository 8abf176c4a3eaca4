\* A chain resumed after its auto-pause.
CONSTANTS
  a1 = a1
  a2 = a2
  Owner = Owner
  Actions <- TwoActions
  Decisions <- HaltDecisions
  MaxRetries = 0
  MaxPolls = 0
SPECIFICATION Spec
SYMMETRY ActionSymmetry
PROPERTIES
  SkipsOnlyHalted
\* Every task may have ended and every request been handled.
CHECK_DEADLOCK FALSE

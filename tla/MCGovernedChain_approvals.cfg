\* Two actions that wait for a reviewer at the same time.
CONSTANTS
  a1 = a1
  a2 = a2
  Owner = Owner
  Actions <- TwoActions
  Decisions <- ReviewDecisions
  MaxRetries = 0
  MaxPolls = 1
SPECIFICATION Spec
SYMMETRY ActionSymmetry
INVARIANTS
  ApprovedIsNotDenied
\* Every task may have ended and every request been handled.
CHECK_DEADLOCK FALSE

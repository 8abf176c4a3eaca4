\* Two runs of one crew that overlap.
CONSTANTS
  r1 = r1
  r2 = r2
  Runs <- TwoRuns
  Shapes <- CurrentShape
  Overlapping = TRUE
  Breakable = FALSE
  MaxCalls <- Calls
SPECIFICATION Spec
INVARIANTS
  HooksRestored
\* Every run may have ended.
CHECK_DEADLOCK FALSE

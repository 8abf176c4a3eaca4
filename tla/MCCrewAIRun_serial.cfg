\* Two runs one after the other, every shape of crew.
CONSTANTS
  r1 = r1
  r2 = r2
  Runs <- TwoRuns
  Shapes <- Shape
  Overlapping = FALSE
  Breakable = TRUE
  MaxCalls <- Calls
SPECIFICATION FairSpec
INVARIANTS
  CrewTypeOK
  HooksRestored
  GatedWhileGoverned
  TrailIsTrue
PROPERTIES
  RunsEnd
\* Every run may have ended.
CHECK_DEADLOCK FALSE

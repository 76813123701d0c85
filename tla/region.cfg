CONSTANTS
  g1 = g1 g2 = g2
  Rows <- ThreeRows
  Replicators = {g1, g2}
  Stoppable = {g1}
  BatchSize = 2
  MaxFaults = 1
SPECIFICATION Spec
CHECK_DEADLOCK FALSE
INVARIANTS SkippedOnlyIfLate ResendsAccounted
PROPERTIES EventuallyForwarded

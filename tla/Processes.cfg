SPECIFICATION Spec
CONSTANTS
  CHILD_PROCESSES = 2
  MaxRuns = 2
INVARIANTS
  ChildrenReadTheirs
  AllReaped
  SpawningShown
PROPERTIES
  RunEnds
CHECK_DEADLOCK FALSE

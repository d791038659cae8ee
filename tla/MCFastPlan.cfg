SPECIFICATION Spec
CONSTANTS
  Graphs <- MCGraphs
  MaxFailures = 1
INVARIANTS
  AvailableIsCurrent
PROPERTY
  EvalSpec
CHECK_DEADLOCK FALSE

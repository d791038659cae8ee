SPECIFICATION Spec
CONSTANTS
  Graphs <- MCGraphs
  Strategies = {"NHWC", "NCHW"}
  FfnTiling = TRUE
  Unit = 2
INVARIANTS
  OrdersMatch
  PairsAccepted
  PlacesDisjoint
PROPERTY
  EvalSpec
CHECK_DEADLOCK FALSE

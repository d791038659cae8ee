SPECIFICATION Spec
CONSTANTS
  Graphs <- MCGraphs
  Strategies = {"NHWC", "NCHW"}
  Wasm = {FALSE, TRUE}
  Unit = 2
INVARIANTS
  LayoutsMatch
PROPERTY
  EvalSpec
CHECK_DEADLOCK FALSE

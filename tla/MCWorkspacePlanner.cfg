SPECIFICATION Spec
CONSTANTS
  Graphs <- MCGraphs
  Builds <- MCBuilds
  Avx2 = TRUE
  Sizes = {1, 2, 3}
INVARIANTS
  LiveRangesDisjoint
  ReadsIntact
  FusedReadsIntact
  NoElidedTensorIsUsed
CHECK_DEADLOCK FALSE

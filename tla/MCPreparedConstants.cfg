SPECIFICATION SharedSpec
CONSTANTS
  Sessions = {s1, s2, s3}
  Blocks = {b1, b2, b3, b4}
  MaxRefs = 2
  Nil = Nil
SYMMETRY Symmetry
INVARIANTS
  CountIsReferences
  NothingDangles
  NothingLeaks
CHECK_DEADLOCK FALSE

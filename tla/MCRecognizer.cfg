CONSTANTS
  Widths = {1, 2, 3}
  Sessions = {s1, s2, s3, s4}
  Pools = {p1, p2}
  MaxWorkers = 2
  Nil = Nil
SPECIFICATION Spec
SYMMETRY Interchangeable
INVARIANTS OneOwner  AtMostTwoWidths  ExecutesItsLine OnePool
PROPERTIES FailedSwitchKeepsActive

SPECIFICATION Spec
CONSTANTS
  MaxWorkers = 3
  MaxCrops = 3
  Widths = {1, 2}
  MaxWidth = 2
  MaxHeight = 2
  FirstBandCapacity = 2
  MaxRequests = 3
  Settings <- MCSettings
INVARIANTS
  BandsStayDisjoint
  NoLineMissing
  RecognizedWhole
PROPERTIES
  PublishedWhole
  RequestReturns
CHECK_DEADLOCK FALSE

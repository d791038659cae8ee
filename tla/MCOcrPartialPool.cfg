SPECIFICATION Spec
CONSTANTS
  MaxWorkers = 3
  MaxCrops = 3
  Widths = {1}
  MaxWidth = 1
  MaxHeight = 1
  FirstBandCapacity = 2
  MaxRequests = 1
  Settings <- ScarceThreads
INVARIANT EveryLineRecognized
CHECK_DEADLOCK FALSE

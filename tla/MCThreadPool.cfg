SPECIFICATION PoolSpec
CONSTANTS
  MaxWorkers = 4
  MaxRequests = 3
INVARIANTS
  BarrierInv
  ContextAlive
PROPERTIES
  ImplementsParallelFor
  RunTerminates
  FreeTerminates

CONSTANTS
  SizeId = {1, 2}
  InitialPools = {1, 2}
  POOL_SIZE = 3
  Heap <- MCHeap
  HEADER = 1
  UINT32 = 100
  NULL = NULL
  MAX_ALLOCATIONS = 6

SPECIFICATION DriverSpec

INVARIANTS
  DriverTypeOK
  DriverStaysInPools

PROPERTIES
  DriverEnds

CHECK_DEADLOCK FALSE

CONSTANTS
  SizeId = {0, 1, 2, 3}
  InitialPools = {1, 2}
  POOL_SIZE = 2
  Heap <- MCHeap
  HEADER = 1
  UINT32 = 100
  NULL = NULL

SPECIFICATION Spec

INVARIANTS
  FreeBlockExists

CHECK_DEADLOCK FALSE

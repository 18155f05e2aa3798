CONSTANTS
  SizeId = {0, 1, 2, 3}
  InitialPools = {1, 2}
  POOL_SIZE = 3
  Heap <- MCHeap
  HEADER = 1
  UINT32 = 100
  NULL = NULL

SPECIFICATION Spec

INVARIANTS
  TypeOK
  
  PoolAccounts
  
  NextBlocksAreFree

PROPERTIES
  
  StraysOnlyAfterLoss

CHECK_DEADLOCK FALSE

CONSTANTS
  SYSTEM_PAGE_SIZE = 9
  SIZEOF_META = 2
  OFFSET_META = 1
  NULL = NULL
  f1 = f1
  f2 = f2
  Family = {f1, f2}
  StructSize <- MCSizes
  Page = {p1, p2, p3}
  Units = {0, 1, 2}
  UINT32 = 100

SPECIFICATION Spec

SYMMETRY MCSymmetry

INVARIANTS
  TypeOK
  PagesTiled
  BlocksFindTheirPage
  FreeBlocksCoalesced
  FreeBlocksListed
  BiggestIsInChain
  PageListsIntact
  

PROPERTIES
  PageOnlyWhenNeeded
  ImplementsByteHeap

CHECK_DEADLOCK FALSE

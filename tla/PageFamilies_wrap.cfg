CONSTANTS
  SYSTEM_PAGE_SIZE = 12
  SIZEOF_META = 2
  OFFSET_META = 1
  NULL = NULL
  f1 = f1
  f2 = f2
  Family = {f1, f2}
  StructSize <- MCSizes
  Page = {p1, p2}
  Units = {0, 1, 6}
  UINT32 = 16

SPECIFICATION Spec

SYMMETRY MCSymmetry

PROPERTIES
  OversizeIsRefused

CHECK_DEADLOCK FALSE

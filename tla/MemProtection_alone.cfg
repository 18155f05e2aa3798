CONSTANTS
  Thread = {t1}
  NUM_PAGES = 3
  NUM_FRAMES = 2
  PAGE_SIZE = 2
  Address <- MCAddress
  PageNumber <- MCPageNumber
  Permission = {"read", "write"}
  Access = {"write", "append"}
  PASSES_ADDRESS = FALSE
  MAX_CALLS = 4
  NONE = NONE

SPECIFICATION Spec

INVARIANTS
  TypeOK
  LoadedPagesHoldTheirBytes

PROPERTIES
  ImplementsPageMapping

CHECK_DEADLOCK FALSE

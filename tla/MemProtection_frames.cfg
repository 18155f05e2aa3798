CONSTANTS
  Thread = {t1, t2}
  NUM_PAGES = 2
  NUM_FRAMES = 2
  PAGE_SIZE = 2
  Address <- MCAddress
  PageNumber <- MCPageNumber
  Permission = {"read", "write"}
  Access = {"write", "append"}
  PASSES_ADDRESS = FALSE
  MAX_CALLS = 1
  NONE = NONE

SPECIFICATION Spec

INVARIANTS
  LoadedPagesHoldTheirBytes

CHECK_DEADLOCK FALSE

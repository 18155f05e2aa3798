CONSTANTS
  Thread = {t1, t2}
  NUM_PAGES = 1
  NUM_FRAMES = 1
  PAGE_SIZE = 2
  Address <- MCAddress
  PageNumber <- MCPageNumber
  Permission = {"write"}
  Access = {"write", "append"}
  PASSES_ADDRESS = TRUE
  MAX_CALLS = 2
  NONE = NONE

SPECIFICATION FairSpec

INVARIANTS
  DecisionStandsUnderLock

PROPERTIES
  ImplementsAccessControl
  CallsReturn

CHECK_DEADLOCK FALSE

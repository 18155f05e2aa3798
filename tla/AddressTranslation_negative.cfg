CONSTANTS
  NUM_PAGES = 3
  NUM_FRAMES = 3
  TLB_SIZE = 2
  PAGE_SIZE = 2
  Address <- MCAddress
  MAX_REFERENCES = 5
  MAX_TIME = 3

SPECIFICATION Spec

INVARIANTS
  InvalidAddressesRefused

CHECK_DEADLOCK FALSE

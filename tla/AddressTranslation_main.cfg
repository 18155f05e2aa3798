CONSTANTS
  NUM_PAGES = 3
  NUM_FRAMES = 3
  TLB_SIZE = 2
  PAGE_SIZE = 2
  Address <- MCAddress
  MAX_REFERENCES = 5
  MAX_TIME = 3

SPECIFICATION FairSpec

INVARIANTS
  TypeOK
  FramesExclusive
  TlbCoherent
  OneFaultPerPage
  TranslationIsInjective
  TestReadsWhatWasTranslated
  

PROPERTIES
  
  ImplementsPageMapping
  RunEnds

CHECK_DEADLOCK FALSE

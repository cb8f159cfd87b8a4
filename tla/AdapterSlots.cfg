SPECIFICATION FairSpec
CONSTANTS
  Reads = 3
  Lists = 2
  ReadSlots = 1
  ScanSlots = 1
  CacheSeconds = 2
  Wait = 1
  MaxTime = 3
INVARIANTS TypeOK SlotsConserved NodeSpared ListingAge
PROPERTIES EveryCallEnds
CHECK_DEADLOCK FALSE

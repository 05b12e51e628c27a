\* The model stops once an extension has made blocks overlap.
CONSTANTS
  HEAP_START = 16
  HEAP_END = 80
  HEADER = 12
  WRAP = 128
  NULL = NULL
  Requests <- const_Requests
  Arrays <- const_Arrays
  MayExtend = TRUE
  MAX_WINDOWS = 2
  Areas <- const_Areas
  MayCloseTwice = FALSE
SPECIFICATION WmFairSpec
INVARIANTS SoundUntilExtended Coalesced BuffersOwned
PROPERTIES CallsReturn RefinesAllocator
CHECK_DEADLOCK FALSE

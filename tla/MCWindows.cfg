CONSTANTS
  HEAP_START = 16
  HEAP_END = 80
  HEADER = 12
  WRAP = 128
  NULL = NULL
  Requests <- const_Requests
  Arrays <- const_Arrays
  MayExtend = FALSE
  MAX_WINDOWS = 3
  Areas <- const_Areas
  MayCloseTwice = TRUE
SPECIFICATION WmSpec
INVARIANT BuffersOwned

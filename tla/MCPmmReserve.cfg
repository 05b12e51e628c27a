CONSTANTS
  MAX_PAGES = 6
  LOW_PAGES = 2
  TotalPages = 5
  WRAP = 16
SPECIFICATION PmmSpec
INVARIANTS LowPagesReserved

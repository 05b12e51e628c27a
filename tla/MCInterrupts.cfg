CONSTANTS
  Lines <- const_Lines
  Stubs = {TRUE, FALSE}
  NO_LINE = NO_LINE
  WRAP = 32
  SECOND = 4
  PIT_FREQ = 17
  RELOAD = 8
  Sleeps <- const_Sleeps
  LATE = 2
  Frequencies <- const_Frequent
  MayWrap = FALSE
  FULL = 8
  Calls = {"read", "write"}
  Counts = {1, 2, 3, 4}
  Drives = {"present", "absent0", "absentFF"}
  MayFail = TRUE
SPECIFICATION InterruptsSpec
INVARIANTS EoiMatchesStub HaltsOnTime  OwnSector
PROPERTIES Served NeverEarly SleepEnds ReadsReturn
\* A call whose drive failed waits for ever.
CHECK_DEADLOCK FALSE

CONSTANTS
  MAX_PROCESSES = 4
  TIME_SLICE = 2
  Priorities <- const_Priorities
  IDLE_PRIORITY = 2
  PRIO_NONE = 3
  NULL = NULL
  IrqBeforeStart = FALSE
  IrqDuringCalls = TRUE
  MAX_PAGES = 5
  LOW_PAGES = 2
  TotalPages = 4
  WRAP = 16
  TABLE = 2
  Tables = 2
  Frames <- const_Frames
  IDENTITY_PAGES = 1
  NONE = NONE
  MayRemap = FALSE
  SIZE = 4
  Events = {e1, e2, e3}
  NO_EVENT = NO_EVENT
  Moves = 2
  Keys = 2
  Irq12Reaches = TRUE
  Keyboard <- const_Keys
  WIRE = 3
  OneOfEach = TRUE
SPECIFICATION KernelSpec
INVARIANTS OneRunning PidsUnique PagesSound Isolated NeverTorn ModifiersFollow EventAsTyped
PROPERTIES RefinesAddressSpace OnlyCurrentRevives SettledByPriority FirstIsServed RefinesQueue KeyRead

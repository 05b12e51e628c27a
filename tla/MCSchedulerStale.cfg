CONSTANTS
  MAX_PROCESSES = 3
  TIME_SLICE = 1
  Priorities <- const_Priorities
  IDLE_PRIORITY = 2
  PRIO_NONE = 3
  NULL = NULL
  IrqBeforeStart = FALSE
  IrqDuringCalls = TRUE
SPECIFICATION Spec
PROPERTIES DispatchByPriority

CONSTANTS
  Moves = 2
  Keys = 2
  Irq12Reaches = TRUE
SPECIFICATION Ps2Spec
INVARIANTS PacketsAligned
\* A byte left in the output buffer blocks both devices.
CHECK_DEADLOCK FALSE

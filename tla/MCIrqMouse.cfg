CONSTANTS
  Lines <- const_BootLines
  Stubs = {TRUE}
  NO_LINE = NO_LINE
SPECIFICATION BootSpec
PROPERTIES MouseServed

SPECIFICATION TimedSpec
CHECK_DEADLOCK FALSE
CONSTANTS
  Code <- MCOneCode
  DirectGrab = {FALSE}
  KeyPress = {}
  Period = 20
  TimeOut = 100
INVARIANT Fed

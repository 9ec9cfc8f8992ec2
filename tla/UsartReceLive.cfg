CONSTANTS
  CarState = {"Arrive"}
  TaskCode = {}
  Lead = {0}
  BlueNumber <- MCMotion
  QueueCap = 2
  IdleIE = {"USART3", "UART4"}
  Connected = {"USART3", "UART4"}
  InitComplete = TRUE
  CodeLen = 7
  CutAt = 6
  NULL = NULL
SPECIFICATION FairSpec
PROPERTY EventServed
PROPERTY MotionGranted

CONSTANTS
  CarState = {"Arrive"}
  TaskCode = {"123+123"}
  Lead = {0}
  BlueNumber <- MCBlueNumber
  QueueCap = 2
  IdleIE = {"USART2", "USART3", "UART4"}
  Connected = {"USART2", "UART4"}
  InitComplete = TRUE
  CodeLen = 7
  CutAt = 6
  NULL = NULL
SPECIFICATION Spec
INVARIANT ReceBufFilled
INVARIANT NoLostWakeup
INVARIANT MutexHandedOver
PROPERTY TakenWithMutex

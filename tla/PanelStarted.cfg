CONSTANTS
  ShakeTime = 2
  ShortTime = 3
  PersistTime = 5
  LooseLimit = 1
  MailSize = 1
  DebugBuild = FALSE
  MaxPress = 6
SPECIFICATION Spec
INVARIANT StartedOnce

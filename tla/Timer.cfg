SPECIFICATION FairSpec
CONSTANTS
  led = led
  once = once
  sleeper = sleeper
  Own = own
  None = none
  Soft = {led, once}
  Hard = {sleeper}
  Period <- MCPeriod
  Periodic = {led}
  SleepTimes = {0, 2, 4}
  TickMax = 15
  Late = 1
INVARIANT Consistent
INVARIANT SleepsUntilDue
PROPERTY NoStrayCall
PROPERTY DueIsCalled

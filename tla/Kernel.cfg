SPECIFICATION FairSpec
CONSTANTS
  top = top
  mid = mid
  low = low
  between = between
  Idle = Idle
  None = None
  Users = {top, mid, low}
  Peers = {between}
  Prio <- MCPrio
  Lowest = 3
  HoldMax = 2
  TimedTake = FALSE
INVARIANT Consistent
INVARIANT HighestRuns
INVARIANT Inherits
PROPERTY LockSpec
PROPERTY TopServed

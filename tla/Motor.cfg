CONSTANTS
  Zero = 8
  Lowest = 4
  Jog = 2
  Slack = 1
  HeightOf <- MCHeightOf
  VisionPulses = 2
  Num = 3
  Den = 2
  Rev = 3
  SjLength = 3
  WordSize = 7
SPECIFICATION FairSpec
INVARIANT StepsMade
INVARIANT HeightKnown
INVARIANT InRange
PROPERTY MotionEnds

CONSTANTS
  Frames <- MCFrames
  RecLen = 4
  SenLen = 11
  MqSize = 1
  MaxEarly = 2
  Heights = {7}
  Digits <- MCDigits
SPECIFICATION FairSpec
INVARIANT TypeOK
INVARIANT AnswerWhole
PROPERTY AnswerChecks
PROPERTY Terminated
PROPERTY FrameWhole
PROPERTY OverflowRecovers

SPECIFICATION FairSpec
CONSTANTS
  Short = Short
  Long = Long
  Unknown = Unknown
  Request <- SmallRequests
  FrameLen <- SmallFrames
  HeaderLen = 2
  BufMax = 8
  GarbledSize = 6
  SendMax = 1
  Window <- OneAndTwo
  Sends <- ThreeEach
  Breaks = 0
INVARIANTS FramesIntact AnswersMatch
PROPERTY TcpAnswered
CHECK_DEADLOCK FALSE

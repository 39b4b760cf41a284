SPECIFICATION FairSpec
CONSTANTS
  Short = Short
  Long = Long
  Unknown = Unknown
  Request <- SmallRequests
  FrameLen <- SmallFrames
  HeaderLen = 2
  BufMax = 8
  GarbledSize = 6
  SendMax = 1
  Window <- TwoAndOne
  Sends <- ThreeEach
  Breaks = 1
INVARIANTS TypeOK PartialWantsMore FramesIntact AnswersMatch
PROPERTY UsbAnswered
CHECK_DEADLOCK FALSE

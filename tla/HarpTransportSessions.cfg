SPECIFICATION Spec
CONSTANTS
  Short = Short
  Long = Long
  Unknown = Unknown
  Request <- SmallRequests
  FrameLen <- SmallFrames
  HeaderLen = 2
  BufMax = 8
  GarbledSize = 6
  SendMax = 1
  Window <- OneEach
  Sends <- TcpOnly
  Breaks = 1
INVARIANT SessionsSeparate
CHECK_DEADLOCK FALSE

SPECIFICATION Spec
CONSTANTS
  Short = Short
  Long = Long
  Unknown = Unknown
  Request <- SmallRequests
  FrameLen <- SmallFrames
  HeaderLen = 2
  BufMax = 8
  GarbledSize = 6
  SendMax = 1
  Window <- TwoEach
  Sends <- TcpOnly
  Breaks = 0
INVARIANT CommandsAccepted
CHECK_DEADLOCK FALSE

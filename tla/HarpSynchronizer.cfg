SPECIFICATION Spec
CONSTANTS
  Radix = 4
  H0 = 3
  H1 = 1
  Second = 7
  SyncOffset = 1
  Half = 8
  Jitter = 1
  First = 15
  Packets = 10
  FifoMax = 2
  HostOffsets <- Asked
  Faults = 1
  Sets = 1
INVARIANTS TypeOK NoFalseTime Resync ReadsWhole
CHECK_DEADLOCK FALSE

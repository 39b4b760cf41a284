SPECIFICATION Spec
CONSTANTS
  Fd = {f1, f2}
  NoFd = NoFd
  Cfg = {c1, c2}
  TcpCfg = {c1, c2}
  NoCfg = NoCfg
  EventQueueMax = 3
  Budget <- SafetyBudget
SYMMETRY FdSymmetry
INVARIANTS TypeOK SocketOwnership HeldWhere NoLostWakeup EndpointCurrent
CHECK_DEADLOCK FALSE

SPECIFICATION Spec
CONSTANTS
  Fd = {f1, f2}
  NoFd = NoFd
  Cfg = {c1}
  TcpCfg = {c1}
  NoCfg = NoCfg
  EventQueueMax = 3
  Budget <- PursuedBudget
INVARIANT AppliedIsPursued
CHECK_DEADLOCK FALSE

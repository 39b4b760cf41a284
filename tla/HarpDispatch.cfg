SPECIFICATION FairSpec
CONSTANTS
  AppRegs = 3
  AppHandlers <- Handlers
  Requests <- Sample
  Reported = {"tcp_conn"}
  NoMsg = NoMsg
INVARIANTS TypeOK RegistersLegal StatusFresh AckIsCurrent
PROPERTIES Answered RefusedUnchanged DumpExact MessageEnds

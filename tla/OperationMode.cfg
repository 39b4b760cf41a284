SPECIFICATION Spec
CONSTANTS
  Second = 2
  ActiveInterval = 2
  StandbyInterval = 6
  Modes <- AllModes
  SyncJumps <- EarlyAndLate
  Stall = 2
  Hits = 1
INVARIANTS TypeOK IntervalMatchesMode OrderKept BeatsOnTheSecond BeatsInTime

\* Two cores, two frequencies, calls that begin around the end of a second,
\* and cores that are kept from the clock until the window has passed.
CONSTANTS
  Available <- TwoLevels
  NbCores = 2
  Second = 6
  Latency = 2
  Gap = 3
  LastKept = 6
  LastStart = 5
  LastTick = 14
  MaxCalls = 2
SPECIFICATION FairSpec
INVARIANTS
  TypeOK
  ScaledOnReturn
  NotMuchLate
  LevelsByRank
PROPERTIES
  WaitEnds

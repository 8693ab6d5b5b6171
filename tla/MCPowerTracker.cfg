\* The program switches cores, but not during a reading.
CONSTANTS
  Cpus <- MCCpus
  Cores <- MCCores
  Vid <- MCVid
  Unused <- MCUnused
  NbNodes = 2
  FirstOf <- MCFirstOf
  MaxWork = 3
  MaxSwitches = 3
  SwitchesAnyTime = FALSE
SPECIFICATION FairSpec
INVARIANTS
  TypeOK
  CoresKept
  WokenGoBack
  ReadsAwake
  MeasuredWithinCalls
PROPERTIES
  EndReturns

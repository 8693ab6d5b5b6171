\* The program switches cores at any time.
CONSTANTS
  Cpus <- MCCpus
  Cores <- MCCores
  Vid <- MCVid
  Unused <- MCUnused
  NbNodes = 2
  FirstOf <- MCFirstOf
  MaxWork = 3
  MaxSwitches = 3
  SwitchesAnyTime = TRUE
SPECIFICATION Spec
PROPERTIES
  OnlyUnusedSwitchedOff

\* First threads first, then their siblings; cpu 0 is not the first core.
CONSTANTS
  NbCpus = 6
  CoreOf <- SmallCore
  PackageOf <- SmallPackage
  BootOff <- AnyOff
  Width = 32
  MaxCrashes = 1
  MaxRuns = 2
  MaxSwitches = 2
  MaxFailures = 1
SPECIFICATION Spec
INVARIANTS
  TypeOK
  OneCpuPerCore
  CoresOrdered
  CoresSwitched
  TopologyFound
  Restored
  BoostRestored

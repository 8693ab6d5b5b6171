\* A core that is switched off while cpus poll.
CONSTANTS
  NbCpus = 6
  CoreOf <- SmallCore
  PackageOf <- SmallPackage
  BootOff <- AnyOff
  Width = 32
  MaxCrashes = 0
  MaxRuns = 1
  MaxSwitches = 2
  MaxFailures = 0
SPECIFICATION Spec
INVARIANTS
  PowerSavingRestored

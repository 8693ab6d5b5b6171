\* Siblings next to each other.
CONSTANTS
  NbCpus = 4
  CoreOf <- PairedCore
  PackageOf <- PairedPackage
  BootOff <- AnyOff
  Width = 32
  MaxCrashes = 1
  MaxRuns = 2
  MaxSwitches = 2
  MaxFailures = 1
SPECIFICATION Spec
INVARIANTS
  TopologyFound

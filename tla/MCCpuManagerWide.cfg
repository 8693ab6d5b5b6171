\* More cores than an int has bits.
CONSTANTS
  NbCpus = 34
  CoreOf <- WideCore
  PackageOf <- WidePackage
  BootOff = {}
  Width = 32
  MaxCrashes = 0
  MaxRuns = 1
  MaxSwitches = 0
  MaxFailures = 0
SPECIFICATION Spec
INVARIANTS
  OneCpuPerCore

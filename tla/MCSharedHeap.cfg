\* Two cores with an arena of two levels each.
CONSTANTS
  NbCores = 2
  Size <- SmallSizes
  PrivateSize = 1
  BarrierSize = 2
  Programs <- SmallPrograms
SPECIFICATION Spec
INVARIANTS
  TypeOK
  SameAddresses
  BlocksApart
  DataKept
  BarrierReady

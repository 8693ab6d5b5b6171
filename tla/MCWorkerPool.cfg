\* Three workers, four orders, fair threads.
CONSTANTS
  CoreSize = 3
  MaxOrders = 4
  WorkersStarted = TRUE
SPECIFICATION FairSpec
INVARIANTS
  TypeOK
  WorkersInStep
  TokenBalance
  AnswerIsComplete
  NoUseAfterDestroy
  BuffersOutliveUse
  DestroyIsUnanimous
PROPERTIES
  PhaseStable
  OrdersImplemented
  EveryOrderAnswered
  WorkersExit

\* The source as it stands: no thread is started and none is waited for.  The
\* first call then waits for ever, which is the deadlock this run is about.
CONSTANTS
  CoreSize = 2
  MaxOrders = 2
  WorkersStarted = FALSE
SPECIFICATION FairSpec
CHECK_DEADLOCK FALSE
PROPERTIES
  EveryOrderAnswered

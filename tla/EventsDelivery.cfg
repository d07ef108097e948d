\* One session whose channel retains two messages and whose runtime publishes three
\* changes: lags during the flush, lags of the listener and lags before a barrier.
SPECIFICATION FairSpec
CONSTANTS
  Capacity = 2
  MaxChanges = 3
CHECK_DEADLOCK FALSE
INVARIANTS
  WindowAgreesWithRuntime
PROPERTIES
  FeedSpec
  LagsEnd

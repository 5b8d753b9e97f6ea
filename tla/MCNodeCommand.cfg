\* Deadlock is off: processes end.
SPECIFICATION Spec
CONSTANTS
  main = main
  side = side
  Processes = {main, side}
  Assignments <- MCAssignments
  Interruptible = {main}
  Caches <- MCCaches
  Chain = vara
  LastSpec = 1
  MaxEntriesPerChain = 1
INVARIANTS TypeOK OneSocket CacheRecovers ResultTruth
PROPERTIES NoRetryAfterInterrupt NewestKept CommandEnds
CHECK_DEADLOCK FALSE

SPECIFICATION MCSpec
CONSTANTS
  Mutations <- MCMutations
  Requests = {r1}
  Tabs = {t1}
  MaxRetries = 2
  MaxRejections = 1
INVARIANTS
  TypeOK
  RemovedStoredOrUndone
  AttemptsBounded
PROPERTIES
  FlushFinishes
  TimerFlushesQueue

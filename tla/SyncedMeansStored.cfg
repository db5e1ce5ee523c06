SPECIFICATION Spec
CONSTANTS
  Mutations <- MCMutations
  Requests = {r1, r2}
  Tabs = {t1}
  MaxRetries = 2
  MaxRejections = 0
INVARIANTS
  SyncedMeansStored

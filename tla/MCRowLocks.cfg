SPECIFICATION MCSpec
CONSTANTS
  Mutations <- MCMutations
  Requests = {r1, r2}
  Students <- MCStudents
  Rank <- MCRank
  Leavers <- MCLeavers
  ErasedRank = 3
  Classes = {k1}
  Values = {v1}
  Closers = {c1, c2}
  Approvers = {}
  None = None
INVARIANTS
  StoredAtMostOnce
  SyncedStoredOrUndone
  NoWaitCycle
  CirclesAreNamesakes
PROPERTIES
  RequestsAnswered
  CloseFinishes

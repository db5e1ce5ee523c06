SPECIFICATION Spec
CONSTANTS
  Mutations <- MCMutations
  Requests = {r1, r2, r3}
  Tabs = {t1, t2}
  MaxRetries = 2
  MaxRejections = 0
SYMMETRY MCSymmetry
INVARIANTS
  AnswerMatchesBatch
PROPERTIES
  OutboxSpec

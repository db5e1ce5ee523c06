SPECIFICATION Spec
CONSTANTS
  Students <- MCStudents
  Rank <- MCRank
  Leavers = {}
  ErasedRank = 3
  Classes = {k1, k2}
  Values = {v1, v2}
  Closers = {c1, c2}
  Approvers = {a1, a2}
  None = None
PROPERTIES
  ApprovedOverwrittenOnlyBy
  NoPartialClose
  BookSpec
CHECK_DEADLOCK FALSE

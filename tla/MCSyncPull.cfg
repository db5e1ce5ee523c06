SPECIFICATION Spec
CONSTANTS
  Grades = {g1}
  Values = {v1, v2}
  Teachers = {u1, u2}
  Others = {a1}
  Writers = {w1, w2}
  MaxTime = 3
  Second = 2
  None = None
INVARIANTS
  PullBringsUnlessStraddled
PROPERTIES
  OnlyAuthorChanges
  GradeLifeSpec

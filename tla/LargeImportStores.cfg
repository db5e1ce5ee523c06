SPECIFICATION MCSpec
CONSTANTS
  None = None
  People = {p1}
  AuthRequests = {r1, r2}
  Links = {l1, l2}
  Passwords = {w1, w2}
  x1 = x1
  x2 = x2
  s1 = s1
  s2 = s2
  Students = {x1, x2}
  Sessions = {s1, s2}
  File <- MCFile
  Confirms = {c1, c2}
  Jobs = {j1}
  AsyncThreshold = 2
  Records = {d1, d2}
  Clerks = {k1, k2}
  ClassIds = {n1}
  Fields = {f1, f2}
  Pupils = {u1}
  SubjectIds = {b1}
  Staff = {t1}
  Edits = {e1, e2}
  Lessons = {h1, h2}
  Recorders = {t1, t2}
  Excusers = {t1, t2}
  ClientIds = {i1}
  Topics = {q1}
  Authors = {t1, t2}
  Admins = {a1}
  Desks = {g1, g2}
  MaxIds = 3
  Mutations <- MCMutations
  Entries <- MCEntries
  Again <- MCAgain
  Requests = {r1}
  MessageIds = {m1, m2}
  Recipients = {u1, u2}
  MinGrades = 3
  MaxGrades = 10
INVARIANTS
  LargeImportStores
CHECK_DEADLOCK FALSE

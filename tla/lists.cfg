SPECIFICATION Spec
CONSTANTS
  Courses = {c1}
  Sections = {s1, s2, s3}
  Lessons = {l1, l2}
  Outcomes = {o1}
  Requests = {r1, r2}
  NoRow = NoRow
  NoId = NoId
  Indexes = {1, 2}
  MayFail = TRUE
SYMMETRY Symmetry
INVARIANT TypeOK
INVARIANT OwnersLive
INVARIANT TiesBounded
CHECK_DEADLOCK FALSE

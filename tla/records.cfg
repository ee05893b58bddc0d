SPECIFICATION RecordsSpec
CONSTANTS
  Courses = {c1}
  Requests = {r1, r2, r3}
  NoCourse = NoCourse
  MaxSubmits = 2
  MayFail = TRUE
  Writers = {r1, r2}
  Clients = {r1}
  Values = {1, 2, 3}
  Unset = Unset
  MaxAccounts = 4
  MaxIngests = 3
  Indexes = {0, 1, 2}
  Students = {u1, u2}
  MaxPosts = 2
  NoOne = NoOne
  Lessons = {l1, l2}
  MaxRows = 3
  Limits = {1, 2}
  p1 = p1
  p2 = p2
  Purchases = {p1, p2}
  Amount <- MCAmount
  Own = {p2}
  LastMonth = 3
CHECK_DEADLOCK FALSE
INVARIANT LogExplainsStatus
INVARIANT DecisionsBounded
INVARIANT PublishedIsAnnounced
INVARIANT ContextWhole
INVARIANT DefaultsBounded
INVARIANT ContextsWhole
INVARIANT PostsAreOrdered
INVARIANT FiguresHold
INVARIANT NothingSkipped
INVARIANT RecordsTypeOK
PROPERTY AnnouncementReaches

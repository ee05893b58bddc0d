SPECIFICATION Spec
CONSTANTS
  c1 = c1
  c2 = c2
  l1 = l1
  l2 = l2
  Users = {u1}
  Courses = {c1, c2}
  Lessons = {l1}
  CourseOf <- MCOneLesson
  Prices = {0, 1}
  Codes = {k1, k2}
  NoCode = NoCode
  NoUser = NoUser
  NoCourse = NoCourse
  Requests = {r1, r2}
  Received = {1, 2}
  MayFail = TRUE
  Ops = {"order", "cart", "vnpay", "casso", "reprice", "deleteCourse"}
SYMMETRY Symmetry
INVARIANT TypeOK
INVARIANT OrderIsOne
INVARIANT FreeOrOrdered
INVARIANT TransferCoversOrder
PROPERTY CartKept
PROPERTY EntitlementSpec
CHECK_DEADLOCK FALSE

SPECIFICATION Spec
CONSTANTS
  c1 = c1
  l1 = l1
  l2 = l2
  Users = {u1}
  Courses = {c1}
  Lessons = {l1, l2}
  CourseOf <- MCCourseOf
  Previews = {l1}
  Prices = {0, 1}
  Codes = {k1}
  NoCode = NoCode
  NoUser = NoUser
  NoCourse = NoCourse
  NoLesson = NoLesson
  Requests = {r1, r2}
  Ops = {"submit", "addLesson", "deleteLesson", "deleteCourse"}
SYMMETRY Symmetry
INVARIANT TypeOK
INVARIANT OverviewCovers
PROPERTY ResultKept
PROPERTY StartedIsOrdered
CHECK_DEADLOCK FALSE

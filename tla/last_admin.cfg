SPECIFICATION Spec
CONSTANTS
  u1 = u1
  u2 = u2
  r1 = r1
  r2 = r2
  Users <- UsersValue
  Goals <- GoalsValue
  Choices = {"active"}
  MaxProfiles = 1
  Requests <- RequestsValue
  NoUser = NoUser
  MayFail = TRUE
  Ops <- FullOps
CHECK_DEADLOCK FALSE
PROPERTY LastAdminKept

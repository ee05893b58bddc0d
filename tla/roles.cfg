SPECIFICATION MCSpec
CONSTANTS
  u1 = u1
  u2 = u2
  r1 = r1
  r2 = r2
  Users <- UsersValue
  Goals <- GoalsValue
  Choices = {"locked"}
  MaxProfiles = 1
  Requests <- RequestsValue
  NoUser = NoUser
  MayFail = TRUE
  Ops <- OpsValue
CHECK_DEADLOCK FALSE
INVARIANT TypeOK
INVARIANT RoleGiven
INVARIANT ApprovedIsGranted
INVARIANT AdminRemains
SYMMETRY Symmetry

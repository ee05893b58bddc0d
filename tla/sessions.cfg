SPECIFICATION Spec
CONSTANTS
  u1 = u1
  r1 = r1
  r2 = r2
  Users <- UsersValue
  MaxPasswords = 2
  MaxSessions = 3
  MaxResets = 3
  Requests <- RequestsValue
  NoUser = NoUser
  MayFail = TRUE
  Ops = {"login", "refresh", "forgot", "reset", "change", "admin", "expire"}
SYMMETRY Symmetry
CHECK_DEADLOCK FALSE
INVARIANT TypeOK
INVARIANT SessionsFollowPassword
INVARIANT OneSessionPerLogin
INVARIANT OpenResetsBounded

SPECIFICATION Spec
CONSTANTS
  Emails = {e1}
  MaxCodes = 1
  MaxAttempts = 2
  Requests = {r1}
  NoEmail = NoEmail
  MayFail = FALSE
  Ops = {"register", "login", "admin"}
SYMMETRY Symmetry
PROPERTY LockedStaysLocked
CHECK_DEADLOCK FALSE

SPECIFICATION Spec
CONSTANTS
  Emails = {e1}
  MaxCodes = 4
  MaxAttempts = 2
  Requests = {r1, r2, r3}
  NoEmail = NoEmail
  MayFail = TRUE
  Ops = {"register", "verify", "resend", "login", "admin", "expire"}
SYMMETRY Symmetry
INVARIANT TypeOK
INVARIANT AttemptsBounded
INVARIANT LiveCodesBounded
INVARIANT PendingCanVerify
CHECK_DEADLOCK FALSE

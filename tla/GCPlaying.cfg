CONSTANTS
  t1 = t1
  r1 = r1
  Tokens = {t1}
  Requests = {r1}
  NumCandidates = 1
  MaxClock = 3
  MaxFile = 2
  IdleTimeout = 4
  ProtectWindow = 2
  MaxBytes = 1
  MaxUnseen = 1
  UnlinkMayFail = FALSE
SPECIFICATION Spec
INVARIANT PlayingSurvives
CHECK_DEADLOCK FALSE

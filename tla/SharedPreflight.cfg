CONSTANTS
  t1 = t1
  r1 = r1
  r2 = r2
  r3 = r3
  Tokens = {t1}
  Requests = {r1, r2, r3}
  NumCandidates = 2
  MaxClock = 1
  MaxFile = 1
  IdleTimeout = 1
  ProtectWindow = 1
  MaxBytes = 1
  MaxUnseen = 0
  UnlinkMayFail = FALSE
SPECIFICATION FairSpec
PROPERTY RequestsAnswered
CHECK_DEADLOCK FALSE

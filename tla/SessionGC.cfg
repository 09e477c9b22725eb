CONSTANTS
  t1 = t1
  t2 = t2
  r1 = r1
  r2 = r2
  Tokens = {t1, t2}
  Requests = {r1, r2}
  NumCandidates = 2
  MaxClock = 4
  MaxFile = 2
  IdleTimeout = 4
  ProtectWindow = 2
  MaxBytes = 1
  MaxUnseen = 1
  UnlinkMayFail = TRUE
SPECIFICATION Spec
INVARIANT NoStrayFiles
PROPERTIES RecentlyUsedSurvives CapReached
CHECK_DEADLOCK FALSE
SYMMETRY Symmetry

CONSTANTS
  r1 = r1
  r2 = r2
  r3 = r3
  ann = ann
  bob = bob
  eve = eve
  proxy = proxy
  Requests = {r1, r2, r3}
  Addresses = {ann, bob, eve, proxy}
  Threshold = 2
  Window = 1
  BanDuration = 2
  MaxTime = 5
  Trim <- MCTrim
  Lower <- MCLower
  Files <- MCFiles
  Sendable <- MCSendable
  TrustProxy = TRUE
SPECIFICATION Spec
INVARIANTS BanEarned NoneOverlooked InnocentAdmitted RoutesGuarded OwnSettings
CHECK_DEADLOCK FALSE
SYMMETRY Symmetry

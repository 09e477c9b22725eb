CONSTANTS
  u1 = u1
  h1 = h1
  a = a
  b = b
  c = c
  Tasks = {a, b, c}
  Urls = {u1, u2}
  u2 = u2
  Hosts = {h1}
  HostOf <- SameHost
  RetryAttempts = 2
  NumServers = 2
SPECIFICATION MCSpec
INVARIANTS ListedIsFetched AvailableEverywhere DeadStaysDead
PROPERTY QuietCooldown
CHECK_DEADLOCK FALSE
SYMMETRY Symmetry

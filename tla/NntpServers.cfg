CONSTANTS
  f1 = f1
  f2 = f2
  x = x
  y = y
  Fetches = {f1, f2}
  Articles = {x, y}
  NumServers = 2
  Refusals = {403, 503}
  Connections <- MCConnections
  Admitted <- MCAdmitted
SPECIFICATION MCSpec
INVARIANTS PermitsReturned RightArticle FailsAfterAll StandoffsExplained ProbeTrue
PROPERTY EveryFetchEnds
CHECK_DEADLOCK FALSE

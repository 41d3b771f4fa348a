\* Two compiles, on threads of their own or on one worker of the application's pool: attempts, rescues and fallbacks.
SPECIFICATION FairSpec
CONSTANTS
  c1 = c1  c2 = c2  h1 = h1  h2 = h2  w = w  p1 = p1  p2 = p2
  Compiles = {c1, c2}
  Hosts = {h1, h2, w}
  PoolHosts = {w}
  Hostings <- Callers
  Parts = {p1, p2}
  Requests <- Mixed
  Limit = 2
  PoolMayFail = TRUE
INVARIANTS
  TypeOK
  DeclinedIffOverrun
  CallerRestored
  DeclineIsFinal
PROPERTY EveryCompileAnswers
\* Every compile returns.
CHECK_DEADLOCK FALSE

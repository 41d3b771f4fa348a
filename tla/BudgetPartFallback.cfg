\* A parent above the limit, composed with a retained child, under Auto.
SPECIFICATION Spec
CONSTANTS
  c1 = c1  c2 = c2  h1 = h1  h2 = h2  w = w  p1 = p1  p2 = p2
  Compiles = {c1, c2}
  Hosts = {h1, h2, w}
  PoolHosts = {w}
  Hostings <- TwoThreads
  Parts = {p1, p2}
  Requests <- RetainedChild
  Limit = 2
  PoolMayFail = FALSE
INVARIANT AutoFallsBack
CHECK_DEADLOCK FALSE

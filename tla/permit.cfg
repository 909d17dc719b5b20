CONSTANTS
  h1 = h1  h2 = h2  a1 = a1  a2 = a2  r1 = r1  r2 = r2  r3 = r3
  w1 = w1  w2 = w2  c1 = c1  c2 = c2  None = None  Permit = Permit
  Hosts = {h1}
  Addresses = {a1}
  Address <- MCAddress
  Requests = {r1}
  Workers = {w1}
  Callers = {c1, c2}
  Waiters = {}
  maxConcurrentOps = 1
  maxQueueSize = 2
SPECIFICATION Spec
INVARIANT PermitsAreExclusive

CONSTANTS
  h1 = h1  h2 = h2  a1 = a1  a2 = a2  r1 = r1  r2 = r2  r3 = r3
  w1 = w1  w2 = w2  c1 = c1  c2 = c2  None = None  Permit = Permit
  Hosts = {h1, h2}
  Addresses = {a1, a2}
  Address <- MCAddress
  Requests = {r1, r2}
  Workers = {w1, w2}
  Callers = {c1}
  Waiters = {r1}
  maxConcurrentOps = 1
  maxQueueSize = 2
SPECIFICATION FairSpec
INVARIANTS TypeOK WithinLimits RequestsAreInOnePlace ResultIsDelivered
PROPERTIES CancelledStaysOut QueueIsServed StopCompletes

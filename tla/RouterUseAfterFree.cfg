CONSTANTS
  p1 = p1
  p2 = p2
  h1 = h1
  h2 = h2
  m1 = m1
  m2 = m2
  r1 = r1
  r2 = r2
  r3 = r3
  Null = Null
  Packets = {p1}
  Unrouted = {}
  Hosts = {h1}
  Macs = {m1}
  Reqs = {r1, r2}
  CacheSize = 1
  Timeout = 0
  MaxTries = 2
SPECIFICATION Spec
INVARIANT RequestStaysAllocated
CHECK_DEADLOCK FALSE

CONSTANTS
  p1 = p1
  p2 = p2
  h1 = h1
  h2 = h2
  m1 = m1
  m2 = m2
  r1 = r1
  r2 = r2
  r3 = r3
  Null = Null
  Packets = {p1, p2}
  Unrouted = {}
  Hosts = {h1, h2}
  Macs = {m1}
  Reqs = {r1, r2, r3}
  CacheSize = 2
  Timeout = 0
  MaxTries = 1
SPECIFICATION Spec
INVARIANTS
  TriesBounded
  RequestsAreSound
  NoneForgotten
  ForwardedAsLearned
  OneFate
CHECK_DEADLOCK FALSE
SYMMETRY Symmetry

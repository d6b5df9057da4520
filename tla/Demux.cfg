CONSTANTS
  c1 = c1
  c2 = c2
  c3 = c3
  c4 = c4
  d1 = d1
  d2 = d2
  Null = Null
  Clients = {c1, c2, c3}
  Sds = {d1, d2}
  MaxLen = 2
  CountMod = 8
  ClosesListener = TRUE
SPECIFICATION FairSpec
INVARIANTS
  TypeOK
  RequestsAreFound
  AcceptsInOrder
  OneOwner
CHECK_DEADLOCK FALSE
PROPERTIES AcceptedUnlessBusy ClosesUnlessBlocked

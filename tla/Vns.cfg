CONSTANTS
  r1 = r1
  r2 = r2
  i1 = i1
  i2 = i2
  Null = Null
  Routers = {r1, r2}
  Templates = {r2}
  Interfaces = {i1, i2}
  MaxPackets = 2
  MaxOut = 1
SPECIFICATION FairSpec
INVARIANTS
  TypeOK
  SessionInStep
  InterfacesKnown
  NoPacketSkipped
PROPERTY SessionSettles
CHECK_DEADLOCK FALSE

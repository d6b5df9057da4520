CONSTANTS
  Width = 4
  OctetBits = 2
  MaxRoutes = 2
SPECIFICATION Spec
INVARIANTS

  RouteMatches
  OnlyDefaultRouteMissed
  FirstOfEqualMasks
CHECK_DEADLOCK FALSE

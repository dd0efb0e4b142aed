SPECIFICATION GraphSpec
CONSTANTS
  ra = ra  rb = rb  rc = rc  rd = rd  re = re
  RoomNames <- Names
  LinkReports <- MapReports
  RouteReports <- MapClosures
  MaxRooms = 4
  MaxLinkCost = 3
  Inf = 24
  UnreachableCost = 20
INVARIANTS CacheIsFresh ShortestWalks
PROPERTIES ClosuresOnlySlow ImplementsWalkingCosts

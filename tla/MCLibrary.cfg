CONSTANTS
  red = red  blue = blue  seven = seven
  hall = hall  wing = wing  annex = annex  palace = palace  room7 = room7  torn = torn
  limbo = limbo  Nobody = Nobody  NoId = NoId  Absent = Absent  Nowhere = Nowhere
  Deployments <- RuleSets
  Calls <- RoundCalls
  Unsafe <- Torn
  Unassertable <- Numerals
  Size <- Sizes
  Buffer = 4
  RoomLimit = 3
  MaxLinkCost = 3
  MaxCalls = 4
SPECIFICATION IngestSpec
INVARIANTS DetectorIsWhole VentsAreReal
PROPERTIES TallyIsExact
CHECK_DEADLOCK FALSE

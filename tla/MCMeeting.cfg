SPECIFICATION FairBeliefsSpec
CONSTANTS
  me = me  p1 = p1  p2 = p2
  kitchen = kitchen  lab = lab  reactor = reactor
  Colors <- P3
  Rooms <- R3
  Nowhere = Nowhere
  Nobody = Nobody
  OnTaskTasks = 2
  SelfChoices <- OnlyMe
  SightingReports <- MeetingSightings
  BodyReports <- None
  TaskReports <- None
  DeathReports <- None
  EjectionReports <- RevealEjections
  VentReports <- None
  ImpostorCounts <- None
  Maps <- OneMap
  MaxTasks = 0
  ClaimReports <- MeetingClaims
  VoteReports <- RevealVotes
  DefenseReports <- RevealDefenses
  ClaimOverlapWindow = 2
  Position <- Order
INVARIANTS AlibisAreMutual RetroScored
PROPERTIES QueriesReturn

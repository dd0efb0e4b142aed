SPECIFICATION BeliefsSpec
CONSTANTS
  me = me  p1 = p1  p2 = p2
  kitchen = kitchen  lab = lab  reactor = reactor
  Colors <- P3
  Rooms <- R3
  Nowhere = Nowhere
  Nobody = Nobody
  OnTaskTasks = 2
  SelfChoices <- OnlyMe
  SightingReports <- CrimeSightings
  BodyReports <- CrimeBodies
  TaskReports <- None
  DeathReports <- None
  EjectionReports <- None
  VentReports <- CrimeVents
  ImpostorCounts <- None
  Maps <- OneMap
  MaxTasks = 0
  ClaimReports <- CrimeClaims
  VoteReports <- CrimeVotes
  DefenseReports <- None
  ClaimOverlapWindow = 2
  Position <- Order
INVARIANTS BlameNeedsTheImpossible ChargesAreTrue PoolIsTheLiving
PROPERTIES ImplementsWeights

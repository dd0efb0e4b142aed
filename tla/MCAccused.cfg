SPECIFICATION Spec
CONSTANTS
  me = me  p1 = p1  p2 = p2  p3 = p3
  kitchen = kitchen  lab = lab  reactor = reactor
  Colors <- C4
  Rooms <- R3
  Nowhere = Nowhere
  Nobody = Nobody
  EnumOrder <- Seats4
  OnTaskTasks = 2
  SelfChoices <- OnlyMe
  SightingReports <- AccusedSightings
  BodyReports <- CaseBodies
  TaskReports <- None
  DeathReports <- None
  EjectionReports <- None
  VentReports <- None
  ImpostorCounts <- None
  Maps <- NoMap
  MaxTasks = 0
PROPERTIES AccusedAmongAll

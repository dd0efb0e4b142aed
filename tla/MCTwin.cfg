SPECIFICATION FairSpec
CONSTANTS
  me = me  p1 = p1  p2 = p2  p3 = p3
  kitchen = kitchen  lab = lab  reactor = reactor
  Colors <- C4
  Rooms <- R3
  Nowhere = Nowhere
  Nobody = Nobody
  EnumOrder <- Seats4
  OnTaskTasks = 2
  SelfChoices <- OnlyMe
  SightingReports <- TwinSightings
  BodyReports <- TwinBodies
  TaskReports <- None
  DeathReports <- None
  EjectionReports <- None
  VentReports <- CaseVents
  ImpostorCounts <- None
  Maps <- TwoMaps
  MaxTasks = 0
INVARIANTS ClearedAreInnocent EvidenceHolds
PROPERTIES RunTerminates RulesSeeTheMap

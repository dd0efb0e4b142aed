SPECIFICATION Spec
CONSTANTS
  me = me  p1 = p1  p2 = p2  p3 = p3
  kitchen = kitchen  lab = lab  reactor = reactor
  Colors <- C3
  Rooms <- R2
  Nowhere = Nowhere
  Nobody = Nobody
  EnumOrder <- Seats3
  OnTaskTasks = 2
  SelfChoices <- OnlyMe
  SightingReports <- RoundSightings
  BodyReports <- None
  TaskReports <- RoundTasks
  DeathReports <- RoundDeaths
  EjectionReports <- RoundEjections
  VentReports <- RoundVents
  ImpostorCounts <- OneOrTwo
  Maps <- NoMap
  MaxTasks = 2
INVARIANTS OneFactPerKey StatusMatchesReports RosterIsCurrent VotesMatchRisks
PROPERTIES ThreatIsLasting NoResurrection

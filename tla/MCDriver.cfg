SPECIFICATION DriverSpec
CONSTANTS
  red = red  orange = orange  yellow = yellow  pink = pink  lime = lime
  blue = blue  gray = gray  white = white  brown = brown  darkTeal = darkTeal
  green = green
  cafeteria = cafeteria  admin = admin  medbay = medbay  storage = storage
  Colors <- Cast
  Rooms <- Skeld4
  Nowhere = Nowhere
  Nobody = Nobody
  OnTaskTasks = 2
  SelfChoices <- NoSelf
  SightingReports <- PlayedSightings
  BodyReports <- PlayedBodies
  TaskReports <- PlayedTasks
  DeathReports <- None
  EjectionReports <- PlayedEjections
  VentReports <- PlayedVents
  ImpostorCounts <- PlayedCounts
  Maps <- OneSkeld
  MaxTasks = 4
  ClaimReports <- PlayedClaims
  VoteReports <- PlayedVotes
  DefenseReports <- PlayedDefenses
  ClaimOverlapWindow = 50
  Position <- Seats
  EnumOrder <- Seats
INVARIANTS ScenariosHold
CHECK_DEADLOCK FALSE

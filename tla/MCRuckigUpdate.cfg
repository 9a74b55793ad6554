SPECIFICATION Spec
CONSTANTS
  Plans         <- MCPlans
  WaypointPlans <- MCWaypointPlans
  Rejected      = {"bad"}
  OverOtg       = {"long"}
  OverOutput    = {"wide"}
  States        <- MCStates
  NumCandidates = 4
  Openers       = 2
  DeltaTime     = 1
  Horizon       = 7
  MaxMoves      = 3
  Duration      <- MCDuration
  StateAt       <- MCStateAt
  SectionAt     <- MCSectionAt
  Near          <- MCNear
INVARIANT LoopInv
PROPERTIES HonoursInput NoJump OnlyForward OnlyShorter

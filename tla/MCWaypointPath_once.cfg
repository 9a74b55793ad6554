SPECIFICATION PathSpec
CONSTANTS
  MCPlans       = {"back", "stuck"}
  Plans         <- MCPlans
  WaypointPlans = {"back", "stuck"}
  Rejected      = {}
  OverOtg       = {}
  OverOutput    = {}
  States        <- MCStates
  NumCandidates = 5
  Openers       = 2
  DeltaTime     = 1
  Horizon       = 21
  MaxMoves      = 0
  Stops         <- MCStops
  Pace          <- MCPace
  Solvable      <- MCSolvable
  Duration      <- PathDuration
  StateAt       <- PathState
  SectionAt     <- PathSection
  Near          <- MCNear
INVARIANT NotPassedTwice

SPECIFICATION FairPathSpec
CONSTANTS
  MCPlans       = {"back", "stuck", "long", "direct"}
  Plans         <- MCPlans
  WaypointPlans = {"back", "stuck", "long"}
  Rejected      = {}
  OverOtg       = {"long"}
  OverOutput    = {}
  States        <- MCStates
  NumCandidates = 5
  Openers       = 2
  DeltaTime     = 1
  Horizon       = 21
  MaxMoves      = 2
  Stops         <- MCStops
  Pace          <- MCPace
  Solvable      <- MCSolvable
  Duration      <- PathDuration
  StateAt       <- PathState
  SectionAt     <- PathSection
  Near          <- MCNear
INVARIANT StopsVisited
PROPERTY LoopSettles
PROPERTY PlanFollowed

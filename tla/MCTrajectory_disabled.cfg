SPECIFICATION Spec
CONSTANTS
  Dofs <- TwoDofs
  Proposals <- DisabledProposals
  WaypointCounts = {0}
  Synchronized = TRUE
  PositionLimits <- Anywhere
  VelocityRange <- Velocities
  AccelerationRange <- Accelerations
  Beyond = 1
  Asked <- Positions
CHECK_DEADLOCK FALSE
INVARIANT ExtremaReached

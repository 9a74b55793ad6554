SPECIFICATION Spec
CONSTANTS
  Dofs <- OneDof
  Proposals <- TurningProposals
  WaypointCounts = {1}
  Synchronized = TRUE
  PositionLimits <- Near
  VelocityRange <- Velocities
  AccelerationRange <- Accelerations
  Beyond = 1
  Asked <- Positions
CHECK_DEADLOCK FALSE
INVARIANT PositionsKept

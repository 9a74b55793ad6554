SPECIFICATION Spec
CONSTANTS
  Dofs <- OneDof
  Proposals <- BrakeProposals
  WaypointCounts = {0}
  Synchronized = TRUE
  PositionLimits <- Anywhere
  VelocityRange <- Velocities
  AccelerationRange <- Accelerations
  Beyond = 1
  Asked <- Positions
CHECK_DEADLOCK FALSE
INVARIANT FirstTimeFound

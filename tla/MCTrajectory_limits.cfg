SPECIFICATION Spec
CONSTANTS
  Dofs <- OneDof
  Proposals <- LimitProposals
  WaypointCounts = {1}
  Synchronized = TRUE
  PositionLimits <- Anywhere
  VelocityRange <- Velocities
  AccelerationRange <- Steep
  Beyond = 1
  Asked <- Positions
CHECK_DEADLOCK FALSE
INVARIANT WithinLimits

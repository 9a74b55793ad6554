SPECIFICATION Spec
CONSTANTS
  Dofs <- TwoDofs
  Proposals <- UnequalProposals
  WaypointCounts = {1}
  Synchronized = FALSE
  PositionLimits <- Anywhere
  VelocityRange <- Velocities
  AccelerationRange <- Accelerations
  Beyond = 1
  Asked <- Positions
CHECK_DEADLOCK FALSE
PROPERTY NoJumps

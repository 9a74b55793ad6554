SPECIFICATION Spec
CONSTANTS
  Dofs <- TwoDofs
  Proposals <- MCProposals
  WaypointCounts = {0, 1}
  Synchronized = TRUE
  PositionLimits <- Nearby
  VelocityRange <- Velocities
  AccelerationRange <- Accelerations
  Beyond = 2
  Asked <- Positions
CHECK_DEADLOCK FALSE
INVARIANTS SampledRight ExtremaExact FirstTimeFoundInMotion PositionsKept
PROPERTY NoJumps

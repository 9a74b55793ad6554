SPECIFICATION Spec
CONSTANTS
  NoAim = NoAim
  Idle = Idle
  NoRun = NoRun
  NoPlan = NoPlan
  Places <- MCPlaces
  Aims <- MCAims
  Targets = {0, 2, 9}
  VelocityPlaces = {9}
  WaypointPlaces = {3}
  NonFinite = {9}
  Reactivenesses = {1}
  MaxLookAhead = 2
  Capacity = 2
  MaxFailures = 1
  HandleSettings <- MCHandleSettings
  Origin = 0
  Requests <- MCRequests
  OtherPlans <- MCOtherPlans
  Predict <- MCPredict
  Blend <- MCBlend
  Damp <- MCDamp
  Solvable <- MCSolvable
  Move <- MCMove
  Score <- MCScore
  TerminalError <- MCTerminalError
INVARIANT OptimizedImproves

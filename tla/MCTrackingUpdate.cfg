SPECIFICATION FairSpec
CONSTANTS
  NoAim = NoAim
  Idle = Idle
  NoPlan = NoPlan
  Elsewhere = Elsewhere
  NoCall = NoCall
  Places <- MCPlaces
  Aims <- MCAims
  Targets = {0, 1, 2, 9}
  VelocityPlaces = {9}
  WaypointPlaces = {4}
  NonFinite = {9}
  Reactivenesses = {1}
  MaxLookAhead = 2
  Capacity = 2
  MaxAge = 2
  HandleSettings <- MCHandleSettings
  Outputs = {1, 2}
  Inputs <- MCInputs
  OtherMemories <- MCOtherMemories
  Predict <- MCPredict
  Blend <- MCBlend
  Damp <- MCDamp
  Solvable <- MCSolvable
  Move <- MCMove
  Score <- MCScore
  TerminalError <- MCTerminalError
INVARIANTS Reported BestSoFar StopsInTime NoJump
PROPERTIES UpdateReturns

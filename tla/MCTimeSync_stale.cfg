\* One trajectory object, a position motion and then a velocity motion.
SPECIFICATION Spec
CONSTANTS
  NumDofs = 2
  low = low
  high = high
  flat = flat
  first = first
  stuck = stuck
  NoMotion = NoMotion
  Motions <- MCMotions
  Velocity <- MCVelocity
  Plain <- MCVelocity
  FirstOrder <- MCFirstOrder
  AtRest <- MCAtRest
  DeltaTime = 2
  Requests <- MCRequests
  MinDuration <- MCMinDuration
  GapA <- MCGapA
  GapB <- MCGapB
  SyncsUsed = {"TIME", "NONE"}
  Minimums <- NoMinimumOnly
INVARIANTS
  OwnMotion

\* A discrete duration is rounded before it is moved out of the gaps.
SPECIFICATION Spec
CONSTANTS
  NumDofs = 2
  low = low
  high = high
  flat = flat
  first = first
  stuck = stuck
  NoMotion = NoMotion
  Motions <- MCMotions
  Velocity <- MCVelocity
  Plain <- MCVelocity
  FirstOrder <- MCFirstOrder
  AtRest <- MCAtRest
  DeltaTime = 2
  Requests <- MCRequests
  MinDuration <- MCMinDuration
  GapA <- MCGapA
  GapB <- MCGapB
  SyncsUsed = {"TIME", "TIME_IF_NECESSARY", "PHASE", "NONE"}
  Minimums <- NoneOrInGap
INVARIANTS
  DiscreteIsMultiple

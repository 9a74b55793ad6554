\* One pair, two states, a queue of three moves and twelve rejections at most:
\* room for every move along one coordinate, and not for those along two.
SPECIFICATION FairSpec
CONSTANTS
  MCPlans        = {"valley", "velocity", "rugged", "late", "none", "bad", "long"}
  MCStarts       = {0, 1}
  Plans          <- MCPlans
  Starts         <- MCStarts
  Refused        = {"bad"}
  OverOtg        = {"long"}
  Values         <- MCValues
  NumCoordinates = 2
  Lower          <- MCLower
  Upper          <- MCUpper
  Free           <- MCFree
  Direction      <- MCDirection
  Duration       <- MCDuration
  DeltaTime      = 2
  DBL_MAX        = 60
  BranchBudget   = 12
  QueueCapacity  = 3
INVARIANTS SearchCoherent LocallyBest
PROPERTIES OnlyImproves IsAnytimeSearch SearchFinishes

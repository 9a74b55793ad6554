SPECIFICATION Spec
CONSTANTS
  Problems <- UnevenLimits
  Durations <- AllDurations
INVARIANT AnyStateIsSolved
CHECK_DEADLOCK FALSE

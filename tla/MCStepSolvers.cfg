SPECIFICATION Spec
CONSTANTS
  Problems <- AllProblems
  Durations <- AllDurations
INVARIANTS Step1Right FreeIsFound BlockedIsNotFound
CHECK_DEADLOCK FALSE

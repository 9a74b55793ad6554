SPECIFICATION CallerSpec
CONSTANTS
  NaN = nan
  nan = nan
  NotGiven = NotGiven
  Infinity <- Large
  Dofs <- OneDof
  Capacity = 2
  SolverCapacity = 1
  Cyclic = TRUE
  Offered <- NumberOffers
  MaxChanged = 2
INVARIANTS
  NaNRefused

SPECIFICATION CallerSpec
CONSTANTS
  NaN = nan
  nan = nan
  NotGiven = NotGiven
  Infinity <- Large
  Dofs <- OneDof
  Capacity = 1
  SolverCapacity = 1
  Cyclic = TRUE
  Offered <- AcceptOffers
  MaxChanged = 3
INVARIANTS
  AcceptedCanBePlanned

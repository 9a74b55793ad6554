SPECIFICATION Spec
CONSTANTS
  NaN = nan
  nan = nan
  NotGiven = NotGiven
  Infinity <- Large
  Dofs <- OneDof
  Capacity = 2
  SolverCapacity = 1
  Cyclic = TRUE
  Offered <- StoreOffers
  MaxChanged = 2
INVARIANTS StoreFaithful AcceptedCanBePlanned
PROPERTIES ImplementsContract AcceptedIsRemembered

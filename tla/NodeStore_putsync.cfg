CONSTANTS
  Items <- MCItems
  Routes <- MCRoutes
  RouteOf <- MCRouteOf
  ChargeOf <- MCChargeOf
  WorkOf <- MCWorkOf
  Handlers = {h1, h2}
  MaxConcurrentRequests = 2
  Capacity = 3
  RouteQuota = 2
  MaxStoredItems = 3
  MaxItemsPerRoute = 2
  BaseDifficulty = 0
  Faults = {"processCrash"}
SPECIFICATION Spec
INVARIANT PutSynchronised
SYMMETRY HandlerSymmetry
CHECK_DEADLOCK FALSE

SPECIFICATION Spec
CONSTANTS
  Sellers = {a, b}
  Warehouses = {1, 2, 3, 4}
  RegionOf <- MCRegionOf
  RegionShares <- MCRegionShares
  Reserve = 1
  PriorityRegions = 2
  BasisPoints = 2
  Requests = {r1, r2}
  MaxQuantity = 5
  MaxEdits = 1
  MaxJobs = 3
  BuyersOrder = TRUE
  MaxFaults = 1
INVARIANTS TypeOK PlansShareThePool PlanSpendsItsShare SmallStockSpreads MemoryIsWildberries VerifiedReachesPlan
CHECK_DEADLOCK FALSE
SYMMETRY Symmetry

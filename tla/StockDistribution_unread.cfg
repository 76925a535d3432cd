SPECIFICATION Spec
CONSTANTS
  Sellers = {a}
  Warehouses = {2, 3}
  RegionOf <- MCRegionOf
  RegionShares <- MCRegionShares
  Reserve = 1
  PriorityRegions = 2
  BasisPoints = 2
  Requests = {r1}
  MaxQuantity = 1
  MaxEdits = 1
  MaxJobs = 4
  BuyersOrder = FALSE
  MaxFaults = 1
INVARIANT PublicationReachesPlan
CHECK_DEADLOCK FALSE

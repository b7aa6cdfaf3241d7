SPECIFICATION Spec
CONSTANTS
  Drivers = {d1, d2}
  v1 = v1
  v2 = v2
  c1 = c1
  Vendors <- MCVendors
  Customers <- MCCustomers
  PlacedBy <- MCPlacedBy
  PlacedFor <- MCPlacedFor
  Admin = admin
  None = None
  Zones <- MCZones
  Stamps <- MCStamps
  Dates <- MCDates
  Searches <- MCSearches
  Limit = 1
  BATCH_SIZE = 1
  MAX_ROWS = 2
  MaxMoves = 2
CHECK_DEADLOCK FALSE
INVARIANTS TypeOK ListedOnce BusinessDays

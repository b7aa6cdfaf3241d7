SPECIFICATION Spec
CONSTANTS
  t1 = t1
  t2 = t2
  d1 = d1
  v1 = v1
  c1 = c1
  c2 = c2
  p1 = p1
  p2 = p2
  n1 = n1
  n2 = n2
  o1 = o1
  None = None
  Tabs <- MCTabs
  Drivers <- MCDrivers
  Vendors <- MCVendors
  Customers <- MCCustomers
  Phones <- MCPhones
  Names <- MCNames
  Orders <- MCOrders
SYMMETRY MCSymmetry
INVARIANTS TypeOK LinksCountOrders NobodysOrder OnePhoneLastName
CHECK_DEADLOCK FALSE

CONSTANTS
  Orders = {o1}
  Vendors = {v1, v2}
  Drivers = {d1, d2}
  Calls = {c1, c2}
  Charges = {15}
  Rates = {3000}
  DefaultBps = 5000
  DriverInputs <- MCDriverInputs
  Admin = Admin
  None = None
  MaxHistory = 3
SPECIFICATION Spec
INVARIANT RateReadInTransaction
SYMMETRY Symmetry

SPECIFICATION Spec
CONSTANTS
  v1 = v1
  a1 = a1
  p1 = p1
  p2 = p2
  k1 = k1
  l1 = l1
  None = None
  Vendors <- MCVendors
  Clients <- MCClients
  Admins <- MCAdmins
  Phones <- MCPhones
  Keys <- MCKeys
  Links <- MCLinks
  MaxRows = 1
SYMMETRY MCSymmetry
INVARIANTS TypeOK OneCopy RightDoor

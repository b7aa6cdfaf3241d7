SPECIFICATION LiveSpec
CONSTANTS
  tab = tab
  d1 = d1
  d2 = d2
  Vendor = Vendor
  Admin = Admin
  Null = Null
  Tabs <- MCTabs
  TabUsers <- MCTabUsers
  Drivers <- MCDrivers
  OtherDevices = FALSE
  MaxChanges = 3
  MaxDrops = 1
INVARIANTS LiveTypeOK
PROPERTIES NeverBackwards  
CHECK_DEADLOCK FALSE

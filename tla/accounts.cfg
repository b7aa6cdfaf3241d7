SPECIFICATION Spec
CONSTANTS
  a1 = a1
  a2 = a2
  c1 = c1
  c2 = c2
  d1 = d1
  None = None
  Admins <- MCAdmins
  Consoles <- MCConsoles
  ActorOf <- MCActorOf
  Devices <- MCDevices
  Threshold = 1
  MaxLock = 2
  MaxFailures = 1
INVARIANTS TypeOK SomeAdminActive LockMatchesFailures
PROPERTIES RequestsSettle

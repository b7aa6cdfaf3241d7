CONSTANTS
  Orders = {o1, o2}
  Drivers = {d1}
  Currencies = {"LBP", "USD"}
  Calls = {c1, c2}
  Commissions = {1}
  Adjustments <- MCAdjustments
  Collections <- MCCollections
  None = None
  MaxTime = 2
  MaxSettlements = 2
SPECIFICATION Spec
INVARIANT SweptInWindow
CHECK_DEADLOCK FALSE

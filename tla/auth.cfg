SPECIFICATION SessionSpec
CONSTANTS
  u1 = u1
  d1 = d1
  t1 = t1
  t2 = t2
  a1 = a1
  Null = Null
  Users <- MCUsers
  Browsers <- MCBrowsers
  Tabs <- MCTabs
  AdminTabs <- MCAdminTabs
  DeviceOf <- MCDeviceOf
  MaxTokens = 2
INVARIANTS SessionTypeOK OneLivePerFamily
PROPERTIES  EndingReachesLogin CallsSettle

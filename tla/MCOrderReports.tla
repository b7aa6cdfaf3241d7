--------------------------- MODULE MCOrderReports ---------------------------
(* Three orders, a zone per kind of day: winter, summer, the spring change *)
(* that skips midnight and the autumn change from midnight back to 23:00,  *)
(* as Lebanon's are.                                                       *)
EXTENDS OrderReports

CONSTANTS v1, v2, c1

MCVendors == {v1, v2}
MCCustomers == {c1}
MCPlacedBy == <<v1, v2, v1>>
MCPlacedFor == <<c1, c1, c1>>

MCZones == { [before |-> 2, after |-> 2, at |-> 0],
             [before |-> 3, after |-> 3, at |-> 0],
             [before |-> 2, after |-> 3, at |-> 46],
             [before |-> 3, after |-> 2, at |-> 45] }

MCStamps == {<<45, 46, 45>>}
MCDates == {1, 2}

MCSearches == { Unfiltered, Filter("PENDING", None, None, None, None),
                Filter("ALL", None, None, 2, 2), Filter("PENDING", None, None, 2, None),
                Filter("PICKED_UP", None, CHOOSE d \in Drivers : TRUE, None, 1) }
=============================================================================

----------------------------- MODULE MCRecords -----------------------------
(***************************************************************************)
(* One driver and one vendor, two tabs, two ids for customers, one order.  *)
(***************************************************************************)
EXTENDS Records, TLC

CONSTANTS t1, t2, d1, v1, c1, c2, p1, p2, n1, n2, o1

MCTabs == {t1, t2}
MCDrivers == {d1}
MCVendors == {v1}
MCCustomers == {c1, c2}
MCPhones == {p1, p2}
MCNames == {n1, n2}
MCOrders == {o1}

\* Nothing tells apart ids that are not used yet, numbers or names.
MCSymmetry == Permutations(MCCustomers) \cup Permutations(MCPhones) \cup Permutations(MCNames)
              \cup Permutations(MCTabs)
=============================================================================

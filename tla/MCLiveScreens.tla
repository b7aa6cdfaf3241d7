--------------------------- MODULE MCLiveScreens ---------------------------
(***************************************************************************)
(* One tab, of the admin, the vendor or one of two drivers.                *)
(***************************************************************************)
EXTENDS LiveScreens, TLC

CONSTANTS tab, d1, d2

MCTabs == {tab}
MCTabUsers == {d1, Vendor, Admin}
MCDrivers == {d1, d2}
=============================================================================

--------------------------- MODULE MCAuthSessions ---------------------------
(***************************************************************************)
(* One account on one device with two tabs, and one admin.                 *)
(***************************************************************************)
EXTENDS AuthSessions

CONSTANTS u1, d1, t1, t2, a1

MCUsers == {u1}
MCBrowsers == {d1}
MCTabs == {t1, t2}
MCAdminTabs == {a1}
MCDeviceOf == [t \in MCTabs |-> d1]
=============================================================================

----------------------------- MODULE MCNewOrder -----------------------------
(***************************************************************************)
(* One vendor and one admin, two customers, one text and one pin.          *)
(***************************************************************************)
EXTENDS NewOrder, TLC

CONSTANTS v1, a1, p1, p2, k1, l1

MCVendors == {v1}
MCClients == {v1, a1}
MCAdmins == {a1}
MCPhones == {p1, p2}
MCKeys == {k1}
MCLinks == {l1}

\* Nothing tells one customer's number from another's.
MCSymmetry == Permutations(MCPhones)
=============================================================================

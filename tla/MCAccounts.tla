----------------------------- MODULE MCAccounts -----------------------------
(***************************************************************************)
(* Two admins, each at a console of his own, and a device where somebody    *)
(* tries to sign in as one or the other.                                    *)
(***************************************************************************)
EXTENDS Accounts, TLC

CONSTANTS a1, a2, c1, c2, d1

MCAdmins == {a1, a2}
MCConsoles == {c1, c2}
MCActorOf == (c1 :> a1) @@ (c2 :> a2)
MCDevices == {d1}
=============================================================================

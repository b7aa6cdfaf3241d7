--------------------------- MODULE MCSettleDesk ---------------------------
(***************************************************************************)
(* One desk, beside whoever settles and voids elsewhere.                   *)
(***************************************************************************)
EXTENDS SettleDesk, TLC

MCItems == {[order |-> "o1", currency |-> "LBP", commission |-> 1],
            [order |-> "o2", currency |-> "USD", commission |-> 1]}

\* A bonus of 1 USD, or none.
MCForms == {{}, {[currency |-> "USD", direction |-> "CREDIT", amount |-> 1]}}
=============================================================================

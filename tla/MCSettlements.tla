--------------------------- MODULE MCSettlements ---------------------------
(* Settlements on two orders, two currencies and two dialogs.              *)
EXTENDS Settlements, TLC

\* No adjustment, or a bonus of 1 in USD; no cash, or 1 in each currency.
MCAdjustments == { [cur \in Currencies |-> 0],
                   [cur \in Currencies |-> IF cur = "USD" THEN -1 ELSE 0] }

MCCollections == { [cur \in Currencies |-> 0], [cur \in Currencies |-> 1] }

Symmetry == Permutations(Orders) \cup Permutations(Drivers) \cup Permutations(Calls)
=============================================================================

-------------------------- MODULE MCOrderLifecycle --------------------------
(* OrderLifecycle on one order, two drivers and two commands in flight.    *)
EXTENDS OrderLifecycle, TLC

\* A suspension that drops the override, and a return at a rate of his own.
MCDriverInputs == { [status |-> "SUSPENDED", commissionOverrideBps |-> None],
                    [status |-> "ACTIVE", commissionOverrideBps |-> 3000] }

\* The order and the vendors are not interchangeable with anything; drivers
\* and calls are.  Used by the runs without liveness only.
Symmetry == Permutations(Drivers) \cup Permutations(Calls) \cup Permutations(Vendors)
=============================================================================

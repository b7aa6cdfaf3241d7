---------------------------- MODULE DriverAccount ----------------------------
(***************************************************************************)
(* What settlements.service.ts promises, without its reads, locks and      *)
(* columns.  A driver has a pile of delivered work nobody has collected on *)
(* and a stack of handovers.  A handover takes work off the pile and moves *)
(* the balance by what that work is due less what was paid; only the last  *)
(* handover can be undone, which restores the pile and the balance.        *)
(***************************************************************************)
EXTENDS Integers, SequencesExt

CONSTANTS Drivers, Currencies,
          Items,     \* [order, currency, commission]: one delivery
          Payments   \* cash less adjustments, per currency

VARIABLES work,      \* driver -> items delivered and not collected on
          handovers, \* driver -> stack of [items, carried], the last on top
          balance    \* driver -> currency -> what he owes beside the work

Nothing == [cur \in Currencies |-> 0]

Due(items, cur) == MapThenSumSet(LAMBDA item : item.commission,
                                 {item \in items : item.currency = cur})

Carried(stack) == IF stack = <<>> THEN Nothing ELSE Last(stack).carried

Init == /\ work = [d \in Drivers |-> {}]
        /\ handovers = [d \in Drivers |-> <<>>]
        /\ balance = [d \in Drivers |-> Nothing]

\* An order is delivered once, by one driver.
Known(order) ==
  \E d \in Drivers : \/ \E item \in work[d] : item.order = order
                     \/ \E i \in DOMAIN handovers[d] :
                          \E item \in handovers[d][i].items : item.order = order

Deliver(d, item) == /\ work' = [work EXCEPT ![d] = @ \cup {item}]
                    /\ ~Known(item.order)
                    /\ UNCHANGED <<handovers, balance>>

HandOver(d, items, paid) ==
  LET carried == [cur \in Currencies |->
                    balance[d][cur] + Due(items, cur) - paid[cur]]
  IN  /\ work' = [work EXCEPT ![d] = @ \ items]
      /\ balance' = [balance EXCEPT ![d] = carried]
      /\ handovers' = [handovers EXCEPT ![d] =
                         Append(@, [items |-> items, carried |-> carried])]

Undo(d) == /\ handovers[d] # <<>>
           /\ work' = [work EXCEPT ![d] = @ \cup Last(handovers[d]).items]
           /\ handovers' = [handovers EXCEPT ![d] = Front(@)]
           /\ balance' = [balance EXCEPT ![d] = Carried(Front(handovers[d]))]

Next == \E d \in Drivers :
          \/ \E item \in Items : Deliver(d, item)
          \/ \E items \in SUBSET work[d], paid \in Payments : HandOver(d, items, paid)
          \/ Undo(d)

Spec == Init /\ [][Next]_<<work, handovers, balance>>
=============================================================================

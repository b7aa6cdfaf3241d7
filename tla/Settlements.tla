---------------------------- MODULE Settlements ----------------------------
(***************************************************************************)
(* apps/api/src/settlements/settlements.service.ts: the previews admins    *)
(* read, the cash handovers they record and the ones they void, while      *)
(* drivers keep delivering.                                                *)
(*                                                                         *)
(* settle() and void() hold the driver's advisory lock to their end, and   *)
(* only they write settlements and balances, so what they read of those    *)
(* cannot change under them.  What can is the work: deliver() takes        *)
(* deliveredAt before its transaction and no lock.  settle() is therefore  *)
(* two steps, up to the sweep and from the stamping UPDATE on.             *)
(***************************************************************************)
EXTENDS Integers, Sequences, FiniteSets, FiniteSetsExt, Functions

CONSTANTS Orders, Drivers, Currencies, Calls,
          Commissions,  \* commission snapshots of delivered orders, minor units
          Adjustments,  \* net adjustment of a handover, per currency
          Collections,  \* cash handed over, per currency
          None,
          MaxTime,       \* bound on the clock
          MaxSettlements \* bound on the settlements recorded

Times == 1 .. MaxTime
Ids   == 1 .. MaxSettlements

ASSUME SettlementsAssumption ==
  /\ IsFiniteSet(Orders)
  /\ Commissions \subseteq Nat
  /\ Adjustments \subseteq [Currencies -> Int]
  /\ Collections \subseteq [Currencies -> Nat]   \* toMinorUnits takes no sign
  /\ MaxTime \in Nat \ {0}
  /\ MaxSettlements \in Nat
  /\ None \notin Int \cup Drivers \cup Currencies

VARIABLES now,         \* the API's clock
          delivering,  \* order -> the deliveredAt its deliver() call carries
          orders,      \* the settlement's columns of the orders table
          settlements, \* driver_settlements and their lines, by settledAt
          balances,    \* driver_balances; no row reads as 0
          calls        \* admins' dialogs, and the requests they submit

vars == <<now, delivering, orders, settlements, balances, calls>>
-----------------------------------------------------------------------------
NotDelivered == [driver |-> None, currency |-> None, commission |-> 0,
                 deliveredAt |-> None, settlementId |-> None]

NoCall == [phase |-> "idle", driver |-> None, cutoff |-> None,
           swept |-> {}, expected |-> None, previous |-> None, brought |-> None]

Delivered(o) == orders[o].deliveredAt # None

Stamped(id) == {o \in Orders : orders[o].settlementId = id}

UnsettledWhere(d, cutoff) ==
  {o \in Orders : /\ Delivered(o)
                  /\ orders[o].driver = d
                  /\ orders[o].settlementId = None
                  /\ orders[o].deliveredAt <= cutoff}

InCurrency(S, cur) == {o \in S : orders[o].currency = cur}

\* The _sum of a groupBy, or the 0 that stands for a group without rows.
CommissionDue(S, cur) ==
  IF InCurrency(S, cur) = {} THEN 0
  ELSE SumFunction([o \in InCurrency(S, cur) |-> orders[o].commission])

\* What a preview shows, expected echoes and the drift check recomputes.  A
\* currency without orders or debt has no row: here, a row of zeros.
Figures(d, S) ==
  [cur \in Currencies |-> [orderCount |-> Cardinality(InCurrency(S, cur)),
                           totalDue   |-> CommissionDue(S, cur) + balances[d][cur]]]

MutLocked(d) == FALSE

\* A settle() of this driver's holds pg_advisory_xact_lock.
Locked(d) == \E c \in Calls : calls[c].phase = "locked" /\ calls[c].driver = d

\* The driver's settlements that are not voided, and the last of them.
Settled(d) == {i \in DOMAIN settlements :
                 settlements[i].driver = d /\ settlements[i].status = "SETTLED"}

PreviousSettlement(d) == IF Settled(d) = {} THEN None ELSE Max(Settled(d))

PeriodEnd(i) == IF i = None THEN None ELSE settlements[i].periodEnd

End(c) == calls' = [calls EXCEPT ![c] = NoCall]
-----------------------------------------------------------------------------
Init == /\ now = 1
        /\ delivering = [o \in Orders |-> None]
        /\ orders = [o \in Orders |-> NotDelivered]
        /\ settlements = <<>>
        /\ balances = [d \in Drivers |-> [cur \in Currencies |-> 0]]
        /\ calls = [c \in Calls |-> NoCall]

Tick == /\ now < MaxTime
        /\ now' = now + 1
        /\ UNCHANGED <<delivering, orders, settlements, balances, calls>>

\* deliver() builds its UPDATE, new Date() included, ...
DeliverStamp(o) ==
  /\ ~Delivered(o) /\ delivering[o] = None
  /\ delivering' = [delivering EXCEPT ![o] = now]
  /\ UNCHANGED <<now, orders, settlements, balances, calls>>

MutDeliveredRow(o, d, cur, commission) ==
  [driver |-> d, currency |-> cur, commission |-> commission,
   deliveredAt |-> None, settlementId |-> None]

DeliveredRow(o, d, cur, commission) ==
  [driver |-> d, currency |-> cur, commission |-> commission,
   deliveredAt |-> delivering[o], settlementId |-> None]

\* ... and commits it later, on the driver and the snapshot the row then has.
DeliverCommit(o, d, cur, commission) ==
  /\ delivering[o] # None
  /\ orders' = [orders EXCEPT ![o] = DeliveredRow(o, d, cur, commission)]
  /\ delivering' = [delivering EXCEPT ![o] = None]
  /\ UNCHANGED <<now, settlements, balances, calls>>

\* preview(): the sweep and the balances are queries of different moments.
PreviewSweep(c, d, cutoff) ==
  /\ calls[c].phase = "idle"
  /\ Len(settlements) < MaxSettlements
  /\ calls' = [calls EXCEPT ![c] = [NoCall EXCEPT !.phase = "preview", !.driver = d,
                                                  !.cutoff = cutoff,
                                                  !.swept = UnsettledWhere(d, cutoff)]]
  /\ UNCHANGED <<now, delivering, orders, settlements, balances>>

PreviewBalances(c) ==
  LET call == calls[c] IN
  /\ call.phase = "preview"
  /\ calls' = [calls EXCEPT ![c] = [call EXCEPT !.phase = "shown", !.swept = {},
                                      !.expected = Figures(call.driver, call.swept)]]
  /\ UNCHANGED <<now, delivering, orders, settlements, balances>>

\* The cutoff is past the previous settlement's.
PeriodOpen(d, cutoff) == \/ PreviousSettlement(d) = None
                         \/ cutoff > PeriodEnd(PreviousSettlement(d))

MutNoDrift(expected, figures) ==
  \A cur \in Currencies : expected[cur].orderCount = figures[cur].orderCount

NoDrift(expected, figures) == expected = figures

\* settle(), from the advisory lock to the drift check.
SettleSweep(c) ==
  LET call == calls[c]
      swept == UnsettledWhere(call.driver, call.cutoff)
  IN  /\ call.phase = "shown"
      /\ ~Locked(call.driver)
      /\ IF /\ PeriodOpen(call.driver, call.cutoff)
            /\ NoDrift(call.expected, Figures(call.driver, swept))
         THEN calls' = [calls EXCEPT ![c] =
                [call EXCEPT !.phase = "locked", !.swept = swept,
                             !.previous = PreviousSettlement(call.driver),
                             !.brought = balances[call.driver]]]
         ELSE End(c)
      /\ UNCHANGED <<now, delivering, orders, settlements, balances>>

MutLine(S, cur, brought, adjusted, collected) ==
  LET due == CommissionDue(S, cur) IN
  [orderCount |-> Cardinality(InCurrency(S, cur)), commissionDue |-> due,
   adjustmentsTotal |-> adjusted, broughtForward |-> brought,
   totalDue |-> due + adjusted + brought, amountCollected |-> collected,
   carriedForward |-> due + brought - collected]

\* ComputedLine, from the sweep, the balance read and the request.
Line(S, cur, brought, adjusted, collected) ==
  LET due == CommissionDue(S, cur) IN
  [orderCount |-> Cardinality(InCurrency(S, cur)), commissionDue |-> due,
   adjustmentsTotal |-> adjusted, broughtForward |-> brought,
   totalDue |-> due + adjusted + brought, amountCollected |-> collected,
   carriedForward |-> due + adjusted + brought - collected]

\* The currencies that earn a line; the others hold a line of zeros.
HasLine(line) == \/ line.orderCount # 0 \/ line.adjustmentsTotal # 0
                 \/ line.broughtForward # 0 \/ line.amountCollected # 0

MutStampedAll(swept, stamped) == TRUE

\* stamped.count against the sum of the lines' orderCount.
StampedAll(swept, stamped) == Cardinality(stamped) = Cardinality(swept)

SettleCommit(c, adjusted, collected) ==
  LET call == calls[c]
      d == call.driver
      id == Len(settlements) + 1
      lines == [cur \in Currencies |-> Line(call.swept, cur, call.brought[cur],
                                            adjusted[cur], collected[cur])]
      stamped == UnsettledWhere(d, call.cutoff)
  IN  /\ call.phase = "locked"
      /\ id \in Ids
      /\ IF /\ \E cur \in Currencies : HasLine(lines[cur])
            /\ StampedAll(call.swept, stamped)
         THEN /\ settlements' = Append(settlements,
                   [driver |-> d, status |-> "SETTLED",
                    periodStart |-> PeriodEnd(call.previous),
                    periodEnd |-> call.cutoff, lines |-> lines,
                    expected |-> call.expected])
              /\ orders' = [o \in Orders |->
                   IF o \in stamped THEN [orders[o] EXCEPT !.settlementId = id]
                   ELSE orders[o]]
              /\ balances' = [balances EXCEPT ![d] = [cur \in Currencies |->
                   IF HasLine(lines[cur]) THEN lines[cur].carriedForward ELSE @[cur]]]
         ELSE UNCHANGED <<settlements, orders, balances>>
      /\ End(c)
      /\ UNCHANGED <<now, delivering>>

MutVoidable(d, i) == i \in Settled(d)

\* Still SETTLED, and the last of its driver's that is.
Voidable(d, i) == i = PreviousSettlement(d)

\* void(): all its reads and writes are behind the advisory lock.
Void(i) ==
  LET d == settlements[i].driver
      lines == settlements[i].lines
  IN  /\ ~Locked(d)
      /\ Voidable(d, i)
      /\ settlements' = [settlements EXCEPT ![i].status = "VOIDED"]
      /\ orders' = [o \in Orders |->
           IF o \in Stamped(i) THEN [orders[o] EXCEPT !.settlementId = None]
           ELSE orders[o]]
      /\ balances' = [balances EXCEPT ![d] = [cur \in Currencies |->
           IF HasLine(lines[cur]) THEN lines[cur].broughtForward ELSE @[cur]]]
      /\ UNCHANGED <<now, delivering, calls>>

\* The dialog is closed, or the transaction dies and rolls back.
Abort(c) == /\ calls[c].phase # "idle"
            /\ End(c)
            /\ UNCHANGED <<now, delivering, orders, settlements, balances>>

Next ==
  \/ Tick
  \/ \E o \in Orders :
       \/ DeliverStamp(o)
       \/ \E d \in Drivers, cur \in Currencies, commission \in Commissions :
            DeliverCommit(o, d, cur, commission)
  \/ \E c \in Calls :
       \/ \E d \in Drivers, cutoff \in 1 .. now : PreviewSweep(c, d, cutoff)
       \/ PreviewBalances(c)
       \/ SettleSweep(c)
       \/ \E adjusted \in Adjustments, collected \in Collections :
            SettleCommit(c, adjusted, collected)
       \/ Abort(c)
  \/ \E i \in DOMAIN settlements : Void(i)

Spec == Init /\ [][Next]_vars
-----------------------------------------------------------------------------
OrderRows == {NotDelivered} \cup
  [driver : Drivers, currency : Currencies, commission : Commissions,
   deliveredAt : Times, settlementId : Ids \cup {None}]

LineRows == [orderCount : Nat, commissionDue : Nat, adjustmentsTotal : Int,
             broughtForward : Int, totalDue : Int, amountCollected : Nat,
             carriedForward : Int]

FigureRows == [Currencies -> [orderCount : Nat, totalDue : Int]]

SettlementRows ==
  [driver : Drivers, status : {"SETTLED", "VOIDED"}, periodStart : Times \cup {None},
   periodEnd : Times, lines : [Currencies -> LineRows], expected : FigureRows]

\* What a dialog holds, before and after its figures are shown, and what a
\* settle() transaction has read.
PreviewCalls == [phase : {"preview"}, driver : Drivers, cutoff : Times,
                 swept : SUBSET Orders, expected : {None},
                 previous : {None}, brought : {None}]

ShownCalls == [phase : {"shown"}, driver : Drivers, cutoff : Times,
               swept : {{}}, expected : FigureRows,
               previous : {None}, brought : {None}]

LockedCalls == [phase : {"locked"}, driver : Drivers, cutoff : Times,
                swept : SUBSET Orders, expected : FigureRows,
                previous : Ids \cup {None}, brought : [Currencies -> Int]]

CallRows == {NoCall} \cup PreviewCalls \cup ShownCalls \cup LockedCalls

\* Types of the tables and of what a dialog or a request carries.
TypeOK == /\ now \in Times
          /\ delivering \in [Orders -> Times \cup {None}]
          /\ orders \in [Orders -> OrderRows]
          /\ settlements \in Seq(SettlementRows)
          /\ Len(settlements) <= MaxSettlements
          /\ balances \in [Drivers -> [Currencies -> Int]]
          /\ calls \in [Calls -> CallRows]

\* No commission is collected twice, or stamped without being collected: the
\* orders stamped with a settlement are the driver's and, per currency, as
\* many and worth as much as its lines say; a voided one has none.
StampedMatchesLines ==
  \A i \in DOMAIN settlements :
    IF settlements[i].status = "VOIDED" THEN Stamped(i) = {}
    ELSE /\ \A o \in Stamped(i) : orders[o].driver = settlements[i].driver
         /\ \A cur \in Currencies :
              LET line == settlements[i].lines[cur] IN
              /\ line.orderCount = Cardinality(InCurrency(Stamped(i), cur))
              /\ line.commissionDue = CommissionDue(Stamped(i), cur)

\* What a settlement leaves owing; None is the driver's first day.
CarriedForward(i, cur) ==
  IF i = None THEN 0 ELSE settlements[i].lines[cur].carriedForward

Before(i) == LET S == {j \in Settled(settlements[i].driver) : j < i}
             IN  IF S = {} THEN None ELSE Max(S)

\* DriverBalance is "derivable from the settlement chain": it is what the
\* last settlement that stands carried forward, and each that stands brought
\* forward what the one before it carried.
BalanceIsChainEnd ==
  /\ \A d \in Drivers, cur \in Currencies :
       balances[d][cur] = CarriedForward(PreviousSettlement(d), cur)
  /\ \A d \in Drivers : \A i \in Settled(d) : \A cur \in Currencies :
       settlements[i].lines[cur].broughtForward = CarriedForward(Before(i), cur)

\* periodStart is the previous standing settlement's periodEnd and the
\* windows only move on, however settles and voids interleave.
WindowsAbut ==
  \A d \in Drivers : \A i \in Settled(d) :
    /\ settlements[i].periodStart = PeriodEnd(Before(i))
    /\ Before(i) # None => settlements[i].periodStart < settlements[i].periodEnd

\* A driver's settlements are a chain, in time and in money, however settles and
\* voids interleave.
ChainUnbroken == BalanceIsChainEnd /\ WindowsAbut

\* What a driver handed over in all, and what he was charged beside his work
\* (or, where negative, was let off), by the settlements that stand.
HandedOver(d, cur) ==
  SumFunction([i \in Settled(d) |-> settlements[i].lines[cur].amountCollected])
Adjusted(d, cur) ==
  SumFunction([i \in Settled(d) |-> settlements[i].lines[cur].adjustmentsTotal])

DeliveredBy(d) == {o \in Orders : Delivered(o) /\ orders[o].driver = d}

\* No money is made or lost between the orders, the settlements and the
\* balance: the commission of all a driver delivered, adjusted, is what he
\* handed over, what he carries, and the commission nobody collected yet.
CommissionsAddUp ==
  \A d \in Drivers, cur \in Currencies :
    CommissionDue(DeliveredBy(d), cur) + Adjusted(d, cur) =
      HandedOver(d, cur) + balances[d][cur] + CommissionDue(UnsettledWhere(d, MaxTime), cur)

\* The comment on the drift check: what was recorded is what the admin read
\* aloud to the driver.
RecordedAsShown ==
  \A i \in DOMAIN settlements : \A cur \in Currencies :
    LET line == settlements[i].lines[cur] IN
    settlements[i].expected[cur] =
      [orderCount |-> line.orderCount, totalDue |-> line.commissionDue + line.broughtForward]

\* The schema on periodStart and periodEnd: the "sweep window (periodStart,
\* periodEnd]".  A settlement would then hold deliveries of its window only.
SweptInWindow ==
  \A i \in DOMAIN settlements : \A o \in Stamped(i) :
    /\ settlements[i].periodStart # None =>
         orders[o].deliveredAt > settlements[i].periodStart
    /\ orders[o].deliveredAt <= settlements[i].periodEnd

\* The settlements implement each driver's account: every delivery is owed
\* once, in one handover or on the pile, and voids undo handovers in order.
Item(o) == [order |-> o, currency |-> orders[o].currency,
            commission |-> orders[o].commission]

Work == [d \in Drivers |-> {Item(o) : o \in UnsettledWhere(d, MaxTime)}]

Handover(i) ==
  [items   |-> {Item(o) : o \in Stamped(i)},
   carried |-> [cur \in Currencies |-> settlements[i].lines[cur].carriedForward]]

\* The k-th smallest number of a set.
Nth(S, k) == CHOOSE i \in S : Cardinality({j \in S : j <= i}) = k

\* A driver's handovers are his settlements that stand, in their order.
Handovers ==
  [d \in Drivers |-> [k \in 1 .. Cardinality(Settled(d)) |-> Handover(Nth(Settled(d), k))]]

Account ==
  INSTANCE DriverAccount
    WITH Items <- [order : Orders, currency : Currencies, commission : Commissions],
         Payments <- {[cur \in Currencies |-> collected[cur] - adjusted[cur]] :
                        collected \in Collections, adjusted \in Adjustments},
         work <- Work, handovers <- Handovers, balance <- balances

ImplementsAccount == Account!Spec
=============================================================================

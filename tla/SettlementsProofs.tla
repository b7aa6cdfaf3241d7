------------------------- MODULE SettlementsProofs -------------------------
(***************************************************************************)
(* Theorems about Settlements, for any drivers, orders, currencies, number *)
(* of dialogs, amounts and bounds.                                         *)
(***************************************************************************)
EXTENDS Settlements, Sums, SequenceTheorems, TLAPS

-----------------------------------------------------------------------------
(* The inductive invariant.  The shape of the tables comes first; amounts   *)
(* are left untyped, since no step depends on their being numbers.          *)

SettlementShape(L, E) ==
  [driver : Drivers, status : {"SETTLED", "VOIDED"}, periodStart : Times \cup {None},
   periodEnd : Times, lines : L, expected : E]

CallShape(E, B) ==
  [phase : {"idle", "preview", "shown", "locked"}, driver : Drivers \cup {None},
   cutoff : Times \cup {None}, swept : SUBSET Orders, expected : E,
   previous : Ids \cup {None}, brought : B]

TablesShape ==
  /\ now \in Times
  /\ delivering \in [Orders -> Times \cup {None}]
  /\ orders \in [Orders -> OrderRows]
  /\ \E L, E : settlements \in Seq(SettlementShape(L, E))
  /\ Len(settlements) <= MaxSettlements
  /\ \E B : balances \in [Drivers -> B]

CallsShape ==
  /\ \E E, B : calls \in [Calls -> CallShape(E, B)]
  /\ \A c \in Calls : calls[c].phase # "idle" =>
       calls[c].driver \in Drivers /\ calls[c].cutoff \in Times

\* A deliver() in flight is about an order not delivered yet.
DeliveringInv == \A o \in Orders : delivering[o] # None => orders[o] = NotDelivered

\* Orders are stamped with settlements that exist.
StampsInv == \A o \in Orders : orders[o].settlementId \in DOMAIN settlements \cup {None}

\* What a settle() has read under the lock still holds, and the work it swept
\* is still unsettled: the work can only have grown.
LockedCallInv(call) ==
  /\ call.swept \subseteq UnsettledWhere(call.driver, call.cutoff)
  /\ call.previous = PreviousSettlement(call.driver)
  /\ call.brought = balances[call.driver]
  /\ PeriodOpen(call.driver, call.cutoff)
  /\ call.expected = Figures(call.driver, call.swept)

LockedInv == \A c \in Calls : calls[c].phase = "locked" => LockedCallInv(calls[c])

\* The advisory lock: one settle() of a driver at a time.
LockInv == \A b, c \in Calls :
  calls[b].phase = "locked" /\ calls[c].phase = "locked" /\ calls[b].driver = calls[c].driver
    => b = c

\* A currency that earned no line carried nothing.
LinesInv == \A i \in DOMAIN settlements : \A cur \in Currencies :
  LET line == settlements[i].lines[cur] IN
  ~HasLine(line) => line.carriedForward = 0

HasMax(S) == S # {} => \E m \in S : \A j \in S : m >= j

Below(i) == {j \in Settled(settlements[i].driver) : j < i}

\* The settlements that stand, and those before each of them, have a last.
MaxInv == /\ \A d \in Drivers : HasMax(Settled(d))
          /\ \A d \in Drivers : \A i \in Settled(d) : HasMax(Below(i))

Shape == TablesShape /\ CallsShape

IInv == /\ Shape
        /\ DeliveringInv
        /\ StampsInv
        /\ LockInv
        /\ LockedInv
        /\ LinesInv
        /\ MaxInv
        /\ StampedMatchesLines
        /\ BalanceIsChainEnd
        /\ WindowsAbut
        /\ RecordedAsShown

-----------------------------------------------------------------------------
\* The empty tables satisfy the inductive invariant.
LEMMA InitIInv == Init => IInv
<1> SUFFICES ASSUME Init PROVE IInv
  OBVIOUS
<1> USE DEF Init
<1>1. TablesShape
  <2>1. settlements \in Seq(SettlementShape({}, {}))
    OBVIOUS
  <2>2. balances \in [Drivers -> {[cur \in Currencies |-> 0]}]
    OBVIOUS
  <2>3. now \in Times
    BY SettlementsAssumption DEF Times
  <2>4. Len(settlements) <= MaxSettlements
    BY SettlementsAssumption
  <2>5. QED
    BY <2>1, <2>2, <2>3, <2>4 DEF TablesShape, OrderRows
<1>2. CallsShape
  <2>1. calls \in [Calls -> CallShape({None}, {None})]
    BY DEF NoCall, CallShape
  <2>2. \A c \in Calls : calls[c].phase = "idle"
    BY DEF NoCall
  <2>3. QED
    BY <2>1, <2>2 DEF CallsShape
<1>3. \A c \in Calls : calls[c].phase = "idle"
  BY DEF NoCall
<1>4. DOMAIN settlements = {}
  OBVIOUS
<1>5. \A d \in Drivers : Settled(d) = {}
  BY <1>4 DEF Settled
<1>6. DeliveringInv /\ StampsInv
  BY <1>4 DEF DeliveringInv, StampsInv, NotDelivered
<1>7. LockInv /\ LockedInv
  BY <1>3 DEF LockInv, LockedInv
<1>8. LinesInv /\ MaxInv /\ StampedMatchesLines /\ RecordedAsShown
  BY <1>4, <1>5 DEF LinesInv, MaxInv, HasMax, StampedMatchesLines, RecordedAsShown
<1>9. BalanceIsChainEnd /\ WindowsAbut
  BY <1>5 DEF BalanceIsChainEnd, WindowsAbut, PreviousSettlement, CarriedForward
<1>10. QED
  BY <1>1, <1>2, <1>6, <1>7, <1>8, <1>9 DEF IInv, Shape

-----------------------------------------------------------------------------
(* The last of a set that has one, and what it says of the settlements.     *)

\* Max of a non-empty set of settlement ids is its greatest member.
LEMMA MaxIsLast ==
  ASSUME NEW S \in SUBSET Nat, S # {}, HasMax(S)
  PROVE  Max(S) \in S /\ (\A j \in S : Max(S) >= j)
BY DEF HasMax, Max

\* A member no other member exceeds is the Max.
LEMMA MaxUnique ==
  ASSUME NEW S \in SUBSET Nat, NEW m \in S, \A j \in S : m >= j
  PROVE  Max(S) = m
<1>1. Max(S) \in S /\ (\A j \in S : Max(S) >= j)
  BY MaxIsLast DEF HasMax
<1>2. /\ m \in Nat /\ Max(S) \in Nat
      /\ Max(S) >= m /\ m >= Max(S)
  BY <1>1
<1>3. QED
  BY <1>2

\* A standing settlement is an entry of the sequence, of its driver.
LEMMA SettlementIds ==
  ASSUME TablesShape
  PROVE  /\ Len(settlements) \in Nat /\ DOMAIN settlements = 1 .. Len(settlements)
         /\ DOMAIN settlements \subseteq Ids /\ Ids \subseteq Nat
         /\ \A i \in DOMAIN settlements : settlements[i].driver \in Drivers
         /\ \A d : Settled(d) \subseteq DOMAIN settlements
<1>1. PICK L, E : settlements \in Seq(SettlementShape(L, E))
  BY DEF TablesShape
<1>2. \A i \in DOMAIN settlements : settlements[i] \in SettlementShape(L, E)
  BY <1>1
<1>3. QED
  BY <1>1, <1>2, SettlementsAssumption DEF TablesShape, SettlementShape, Ids, Settled

\* PreviousSettlement is None or the last of the standing ones.
LEMMA PreviousInIds ==
  ASSUME TablesShape, MaxInv, NEW d \in Drivers
  PROVE  /\ PreviousSettlement(d) \in Ids \cup {None}
         /\ Settled(d) # {} => /\ PreviousSettlement(d) \in Settled(d)
                              /\ \A j \in Settled(d) : PreviousSettlement(d) >= j
<1>1. Settled(d) \subseteq Ids /\ Ids \subseteq Nat
  BY SettlementIds
<1>2. Settled(d) \in SUBSET Nat
  BY <1>1
<1>3. HasMax(Settled(d))
  BY DEF MaxInv
<1>4. Settled(d) # {} => /\ Max(Settled(d)) \in Settled(d)
                         /\ \A j \in Settled(d) : Max(Settled(d)) >= j
  BY <1>2, <1>3, MaxIsLast
<1>5. QED
  BY <1>1, <1>4 DEF PreviousSettlement

\* Appending a settlement keeps the entries before it.
LEMMA SeqMonotone ==
  ASSUME NEW A, NEW B, A \subseteq B, NEW s \in Seq(A)
  PROVE  s \in Seq(B)
<1>1. Len(s) \in Nat /\ s \in [1 .. Len(s) -> A]
  OBVIOUS
<1>2. s \in [1 .. Len(s) -> B]
  BY <1>1
<1>3. QED
  BY <1>1, <1>2

\* The fields of a line that later steps look at.
LEMMA LineFields ==
  ASSUME NEW S, NEW cur, NEW brought, NEW a, NEW k
  PROVE  LET line == Line(S, cur, brought, a, k) IN
         /\ line.orderCount = Cardinality(InCurrency(S, cur))
         /\ line.commissionDue = CommissionDue(S, cur)
         /\ line.adjustmentsTotal = a
         /\ line.broughtForward = brought
         /\ line.amountCollected = k
         /\ line.carriedForward = CommissionDue(S, cur) + a + brought - k
BY DEF Line

\* Before(i) is None or the greatest standing id below i.
LEMMA BeforeIds ==
  ASSUME TablesShape, MaxInv
  PROVE  /\ \A e \in Drivers : PreviousSettlement(e) \in DOMAIN settlements \cup {None}
         /\ \A e \in Drivers : \A j \in Settled(e) : Before(j) \in DOMAIN settlements \cup {None}
<1>1. /\ DOMAIN settlements \subseteq Nat
      /\ \A e : Settled(e) \subseteq DOMAIN settlements
  BY SettlementIds
<1>2. ASSUME NEW e \in Drivers, NEW j \in Settled(e)
      PROVE  Before(j) \in DOMAIN settlements \cup {None}
  <2>1. Below(j) \in SUBSET Nat /\ Below(j) \subseteq DOMAIN settlements /\ HasMax(Below(j))
    BY <1>1 DEF Below, MaxInv
  <2>2. Before(j) = IF Below(j) = {} THEN None ELSE Max(Below(j))
    BY DEF Before, Below
  <2>3. QED
    BY <2>1, <2>2, MaxIsLast
<1>3. QED
  BY <1>1, <1>2, PreviousInIds DEF PreviousSettlement

-----------------------------------------------------------------------------
(* Steps that write no settlement, balance or stamp: the work may grow.     *)

\* What the invariant says of the tables.
TablesInv == /\ StampsInv
             /\ LinesInv
             /\ MaxInv
             /\ StampedMatchesLines
             /\ BalanceIsChainEnd
             /\ WindowsAbut
             /\ RecordedAsShown

\* A group's count and sum depend on its orders' currency and commission only.
LEMMA AmountsKept ==
  ASSUME NEW S, NEW cur,
         \A o \in S : /\ orders'[o].currency = orders[o].currency
                      /\ orders'[o].commission = orders[o].commission
  PROVE  /\ InCurrency(S, cur)' = InCurrency(S, cur)
         /\ CommissionDue(S, cur)' = CommissionDue(S, cur)
<1>1. InCurrency(S, cur)' = InCurrency(S, cur)
  BY DEF InCurrency
<1>2. \A o \in InCurrency(S, cur) : o \in S
  BY DEF InCurrency
<1>3. [o \in InCurrency(S, cur)' |-> orders'[o].commission]
        = [o \in InCurrency(S, cur) |-> orders[o].commission]
  BY <1>1, <1>2
<1>4. QED
  BY <1>1, <1>3 DEF CommissionDue

\* Only delivered orders carry a settlement id.
LEMMA StampedDelivered ==
  ASSUME TablesShape, NEW o \in Orders
  PROVE  /\ ~Delivered(o) => orders[o] = NotDelivered
         /\ orders[o].settlementId # None => Delivered(o)
BY SettlementsAssumption DEF TablesShape, OrderRows, NotDelivered, Delivered, Times

\* A delivery adds to the unsettled work and touches no stamped order.
LEMMA WorkGrows ==
  ASSUME TablesShape, TablesInv, UNCHANGED <<settlements, balances>>,
         \A o \in Orders : /\ Delivered(o) => orders'[o] = orders[o]
                           /\ orders'[o].settlementId = orders[o].settlementId
  PROVE  TablesInv' /\ (\A call : LockedCallInv(call) => LockedCallInv(call)')
<1>1. \A d : Settled(d)' = Settled(d)
  BY DEF Settled
<1>2. \A d : PreviousSettlement(d)' = PreviousSettlement(d)
  BY <1>1 DEF PreviousSettlement
<1>3. \A i : Stamped(i)' = Stamped(i)
  BY DEF Stamped
<1>4. \A i \in DOMAIN settlements : \A o \in Stamped(i) : orders'[o] = orders[o]
  BY StampedDelivered, SettlementIds, SettlementsAssumption DEF Stamped
<1>5. \A i \in DOMAIN settlements : \A cur :
        /\ InCurrency(Stamped(i), cur)' = InCurrency(Stamped(i), cur)
        /\ CommissionDue(Stamped(i), cur)' = CommissionDue(Stamped(i), cur)
  <2> SUFFICES ASSUME NEW i \in DOMAIN settlements, NEW cur
               PROVE  /\ InCurrency(Stamped(i), cur)' = InCurrency(Stamped(i), cur)
                      /\ CommissionDue(Stamped(i), cur)' = CommissionDue(Stamped(i), cur)
    OBVIOUS
  <2>1. PICK S : S = Stamped(i)
    OBVIOUS
  <2>2. S = Stamped(i)'
    BY <1>3, <2>1
  <2>3. /\ InCurrency(S, cur)' = InCurrency(S, cur)
        /\ CommissionDue(S, cur)' = CommissionDue(S, cur)
    BY <1>4, <2>1, AmountsKept
  <2>4. QED
    BY <2>1, <2>2, <2>3
<1>6. \A i, cur : CarriedForward(i, cur)' = CarriedForward(i, cur)
  BY DEF CarriedForward
<1>7. \A i : Before(i)' = Before(i) /\ Below(i)' = Below(i)
  BY <1>1 DEF Before, Below
<1>8. \A i : PeriodEnd(i)' = PeriodEnd(i)
  BY DEF PeriodEnd
<1>9. StampsInv' /\ LinesInv' /\ MaxInv' /\ RecordedAsShown'
  BY <1>1, <1>7 DEF TablesInv, StampsInv, LinesInv, MaxInv, RecordedAsShown
<1>10. StampedMatchesLines'
  BY <1>3, <1>4, <1>5 DEF TablesInv, StampedMatchesLines
<1>11. BalanceIsChainEnd' /\ WindowsAbut'
  BY <1>1, <1>2, <1>6, <1>7, <1>8 DEF TablesInv, BalanceIsChainEnd, WindowsAbut
<1>12. ASSUME NEW call, LockedCallInv(call) PROVE LockedCallInv(call)'
  <2>1. /\ call.swept \subseteq UnsettledWhere(call.driver, call.cutoff)
        /\ \A o \in call.swept : o \in Orders /\ Delivered(o)
    BY <1>12 DEF LockedCallInv, UnsettledWhere
  <2>2. UnsettledWhere(call.driver, call.cutoff)
          \subseteq UnsettledWhere(call.driver, call.cutoff)'
    BY DEF UnsettledWhere, Delivered
  <2>3. Figures(call.driver, call.swept)' = Figures(call.driver, call.swept)
    BY <2>1, AmountsKept DEF Figures
  <2>4. QED
    BY <1>2, <1>8, <1>12, <2>1, <2>2, <2>3 DEF LockedCallInv, PeriodOpen
<1>13. QED
  BY <1>9, <1>10, <1>11, <1>12 DEF TablesInv

\* A call that ends, or begins without the lock, leaves the lock's facts be.
LEMMA CallStutter ==
  ASSUME IInv, NEW c \in Calls, NEW call, calls' = [calls EXCEPT ![c] = call],
         UNCHANGED <<now, delivering, orders, settlements, balances>>,
         call.phase # "idle" => call.driver \in Drivers /\ call.cutoff \in Times,
         call.phase = "locked" => ~Locked(call.driver) /\ LockedCallInv(call),
         \E E, B : call \in CallShape(E, B)
  PROVE  IInv'
<1>1. TablesInv' /\ (\A k : LockedCallInv(k) => LockedCallInv(k)')
  BY WorkGrows DEF IInv, TablesInv, Shape
<1>2. \A b \in Calls : calls'[b] = IF b = c THEN call ELSE calls[b]
  BY DEF IInv, Shape, CallsShape
<1>3. TablesShape' /\ DeliveringInv'
  BY DEF IInv, Shape, TablesShape, DeliveringInv
<1>4. CallsShape'
  <2>1. PICK E, B : calls \in [Calls -> CallShape(E, B)]
    BY DEF IInv, Shape, CallsShape
  <2>2. PICK F, C : call \in CallShape(F, C)
    OBVIOUS
  <2>3. \A k : k \in CallShape(E, B) \/ k \in CallShape(F, C)
                => k \in CallShape(E \cup F, B \cup C)
    BY DEF CallShape
  <2>4. calls' \in [Calls -> CallShape(E \cup F, B \cup C)]
    BY <2>1, <2>2, <2>3
  <2>5. QED
    BY <2>4, <1>2 DEF IInv, Shape, CallsShape
<1>5. LockInv'
  <2>1. SUFFICES ASSUME NEW a \in Calls, NEW b \in Calls,
                        calls'[a].phase = "locked", calls'[b].phase = "locked",
                        calls'[a].driver = calls'[b].driver
                 PROVE  a = b
    BY DEF LockInv
  <2>2. CASE a = c /\ b # c
    BY <1>2, <2>1, <2>2 DEF Locked
  <2>3. CASE a # c /\ b = c
    BY <1>2, <2>1, <2>3 DEF Locked
  <2>4. CASE a # c /\ b # c
    BY <1>2, <2>1, <2>4 DEF IInv, LockInv
  <2>5. QED
    BY <2>2, <2>3, <2>4
<1>6. LockedInv'
  BY <1>1, <1>2 DEF IInv, LockedInv
<1>7. QED
  BY <1>1, <1>3, <1>4, <1>5, <1>6 DEF IInv, Shape, TablesInv

\* Steps that only move a call keep the inductive invariant.
LEMMA CallActions ==
  ASSUME IInv, NEW c \in Calls
  PROVE  /\ \A d \in Drivers, cutoff \in 1 .. now : PreviewSweep(c, d, cutoff) => IInv'
         /\ PreviewBalances(c) => IInv'
         /\ SettleSweep(c) => IInv'
         /\ End(c) /\ UNCHANGED <<now, delivering, orders, settlements, balances>> => IInv'
<1>1. NoCall \in CallShape({None}, {None})
  BY DEF NoCall, CallShape
<1>2. ASSUME End(c), UNCHANGED <<now, delivering, orders, settlements, balances>>
      PROVE  IInv'
  BY <1>1, <1>2, CallStutter DEF End, NoCall
<1>3. \A d, cutoff : UnsettledWhere(d, cutoff) \subseteq Orders
  BY DEF UnsettledWhere
<1>4. now \in Nat /\ 1 .. now \subseteq Times
  BY SettlementsAssumption DEF IInv, Shape, TablesShape, Times
<1>5. ASSUME NEW d \in Drivers, NEW cutoff \in 1 .. now, PreviewSweep(c, d, cutoff)
      PROVE  IInv'
  <2> DEFINE call == [NoCall EXCEPT !.phase = "preview", !.driver = d, !.cutoff = cutoff,
                                    !.swept = UnsettledWhere(d, cutoff)]
  <2>2. call \in CallShape({None}, {None})
    BY <1>3, <1>4 DEF NoCall, CallShape
  <2>3. call.phase = "preview" /\ call.driver = d /\ call.cutoff = cutoff
    BY DEF NoCall
  <2>4. QED
    <3> HIDE DEF call
    <3> QED
      BY <1>4, <1>5, <2>2, <2>3, CallStutter DEF PreviewSweep, call
<1>6. PICK E0, B0 : calls \in [Calls -> CallShape(E0, B0)]
  BY DEF IInv, Shape, CallsShape
<1>7. ASSUME PreviewBalances(c) PROVE IInv'
  <2> DEFINE fig == Figures(calls[c].driver, calls[c].swept)
             call == [calls[c] EXCEPT !.phase = "shown", !.swept = {}, !.expected = fig]
  <2>2. call \in CallShape({fig}, B0)
    <3> HIDE DEF fig
    <3> QED BY <1>6 DEF CallShape
  <2>3. /\ call.phase = "shown"
        /\ call.driver \in Drivers /\ call.cutoff \in Times
    BY <1>6, <1>7 DEF CallShape, PreviewBalances, IInv, Shape, CallsShape
  <2>4. calls' = [calls EXCEPT ![c] = call]
    BY <1>7 DEF PreviewBalances
  <2>5. QED
    <3> HIDE DEF call
    <3> QED
      BY <1>7, <2>2, <2>3, <2>4, CallStutter DEF PreviewBalances
<1>8. ASSUME SettleSweep(c) PROVE IInv'
  <2> DEFINE d == calls[c].driver
             swept == UnsettledWhere(d, calls[c].cutoff)
             call == [calls[c] EXCEPT !.phase = "locked", !.swept = swept,
                                      !.previous = PreviousSettlement(d),
                                      !.brought = balances[d]]
  <2>1. d \in Drivers /\ calls[c].cutoff \in Times
    BY <1>8 DEF SettleSweep, IInv, Shape, CallsShape
  <2>2. CASE PeriodOpen(d, calls[c].cutoff) /\ NoDrift(calls[c].expected, Figures(d, swept))
    <3>1. PreviousSettlement(d) \in Ids \cup {None}
      BY <2>1, PreviousInIds DEF IInv, Shape
    <3>3. call \in CallShape(E0, {balances[d]})
      BY <1>3, <1>6, <3>1 DEF CallShape
    <3>4. /\ call.phase = "locked" /\ call.driver = d /\ call.cutoff = calls[c].cutoff
          /\ call.swept = swept /\ call.expected = calls[c].expected
          /\ call.previous = PreviousSettlement(d) /\ call.brought = balances[d]
      BY <1>6 DEF CallShape
    <3>5. calls' = [calls EXCEPT ![c] = call] /\ ~Locked(d)
      BY <1>8, <2>2 DEF SettleSweep
    <3>6. LockedCallInv(call)
      <4> HIDE DEF call
      <4> QED BY <2>2, <3>4 DEF LockedCallInv, NoDrift
    <3>7. QED
      <4> HIDE DEF call
      <4> QED BY <1>8, <2>1, <3>3, <3>4, <3>5, <3>6, CallStutter DEF SettleSweep
  <2>3. QED
    BY <1>2, <1>8, <2>2 DEF SettleSweep
<1>9. QED
  BY <1>2, <1>5, <1>7, <1>8

\* Steps of the clock and of deliveries keep the inductive invariant.
LEMMA WorkActions ==
  ASSUME IInv
  PROVE  /\ Tick => IInv'
         /\ \A o \in Orders : DeliverStamp(o) => IInv'
         /\ \A o \in Orders, d \in Drivers, cur \in Currencies, commission \in Commissions :
              DeliverCommit(o, d, cur, commission) => IInv'
<1>1. ASSUME UNCHANGED <<settlements, balances, calls>>, TablesShape', DeliveringInv',
             \A o \in Orders : /\ Delivered(o) => orders'[o] = orders[o]
                               /\ orders'[o].settlementId = orders[o].settlementId
      PROVE  IInv'
  <2>1. TablesInv' /\ (\A k : LockedCallInv(k) => LockedCallInv(k)')
    BY <1>1, WorkGrows DEF IInv, TablesInv, Shape
  <2>2. CallsShape'
    BY <1>1 DEF IInv, Shape, CallsShape
  <2>3. LockInv' /\ LockedInv'
    BY <1>1, <2>1 DEF IInv, LockInv, LockedInv
  <2>4. QED
    BY <1>1, <2>1, <2>2, <2>3 DEF IInv, Shape, TablesInv
<1>2. ASSUME Tick PROVE IInv'
  <2>1. now' \in Times
    BY <1>2, SettlementsAssumption DEF Tick, IInv, Shape, TablesShape, Times
  <2>2. TablesShape' /\ DeliveringInv'
    BY <1>2, <2>1 DEF Tick, IInv, Shape, TablesShape, DeliveringInv
  <2>3. QED
    BY <1>1, <1>2, <2>2 DEF Tick
<1>3. ASSUME NEW o \in Orders, DeliverStamp(o) PROVE IInv'
  <2>1. TablesShape'
    BY <1>3 DEF DeliverStamp, IInv, Shape, TablesShape
  <2>2. DeliveringInv'
    BY <1>3, StampedDelivered DEF DeliverStamp, IInv, Shape, TablesShape, DeliveringInv
  <2>3. QED
    BY <1>1, <1>3, <2>1, <2>2 DEF DeliverStamp
<1>4. ASSUME NEW o \in Orders, NEW d \in Drivers, NEW cur \in Currencies,
             NEW commission \in Commissions, DeliverCommit(o, d, cur, commission)
      PROVE  IInv'
  <2>1. DeliveredRow(o, d, cur, commission) \in OrderRows
    BY <1>4 DEF DeliverCommit, DeliveredRow, OrderRows, IInv, Shape, TablesShape
  <2>2. TablesShape'
    BY <1>4, <2>1 DEF DeliverCommit, IInv, Shape, TablesShape
  <2>3. DeliveringInv'
    BY <1>4 DEF DeliverCommit, IInv, Shape, TablesShape, DeliveringInv
  <2>4. orders[o] = NotDelivered /\ ~Delivered(o)
    BY <1>4 DEF DeliverCommit, IInv, DeliveringInv, NotDelivered, Delivered
  <2>5. \A p \in Orders : orders'[p] = IF p = o THEN DeliveredRow(o, d, cur, commission)
                                        ELSE orders[p]
    BY <1>4 DEF DeliverCommit, IInv, Shape, TablesShape
  <2>6. \A p \in Orders : /\ Delivered(p) => orders'[p] = orders[p]
                          /\ orders'[p].settlementId = orders[p].settlementId
    BY <2>4, <2>5 DEF DeliveredRow, NotDelivered
  <2>7. QED
    BY <1>1, <1>4, <2>2, <2>3, <2>6 DEF DeliverCommit
<1>5. QED
  BY <1>2, <1>3, <1>4

-----------------------------------------------------------------------------
(* Void and the commit of a settle.                                         *)

\* A settlement written for one driver does not disturb another's settle().
LEMMA OtherDriver ==
  ASSUME TablesShape, MaxInv, NEW call, LockedCallInv(call), call.driver \in Drivers,
         Settled(call.driver)' = Settled(call.driver),
         \A j \in DOMAIN settlements : settlements'[j].periodEnd = settlements[j].periodEnd,
         balances'[call.driver] = balances[call.driver],
         \A o \in UnsettledWhere(call.driver, call.cutoff) : orders'[o] = orders[o]
  PROVE  LockedCallInv(call)'
<1> DEFINE d == call.driver
<1>1. PreviousSettlement(d)' = PreviousSettlement(d)
  BY DEF PreviousSettlement
<1>2. PeriodEnd(PreviousSettlement(d))' = PeriodEnd(PreviousSettlement(d))
  BY <1>1, PreviousInIds, SettlementIds DEF PeriodEnd, PreviousSettlement
<1>3. /\ call.swept \subseteq UnsettledWhere(d, call.cutoff)
      /\ UnsettledWhere(d, call.cutoff) \subseteq UnsettledWhere(d, call.cutoff)'
  BY DEF LockedCallInv, UnsettledWhere, Delivered
<1>4. Figures(d, call.swept)' = Figures(d, call.swept)
  BY <1>3, AmountsKept DEF Figures
<1>5. PeriodOpen(d, call.cutoff)'
  BY <1>1, <1>2 DEF PeriodOpen, LockedCallInv
<1>6. QED
  BY <1>1, <1>3, <1>4, <1>5 DEF LockedCallInv

\* Voiding the last standing settlement keeps the inductive invariant.
LEMMA VoidKeepsIInv ==
  ASSUME IInv, NEW i \in DOMAIN settlements, Void(i)
  PROVE  IInv'
<1> DEFINE lines == settlements[i].lines
<1> USE DEF IInv, Shape
<1>d. PICK d : d = settlements[i].driver
  OBVIOUS
<1>1. PICK L, E : settlements \in Seq(SettlementShape(L, E))
  BY DEF TablesShape
<1>2. /\ settlements' \in Seq(SettlementShape(L, E))
      /\ Len(settlements') = Len(settlements) /\ DOMAIN settlements' = DOMAIN settlements
      /\ \A j \in DOMAIN settlements :
           /\ settlements'[j].driver = settlements[j].driver
           /\ settlements'[j].periodStart = settlements[j].periodStart
           /\ settlements'[j].periodEnd = settlements[j].periodEnd
           /\ settlements'[j].lines = settlements[j].lines
           /\ settlements'[j].expected = settlements[j].expected
           /\ settlements'[j].status = IF j = i THEN "VOIDED" ELSE settlements[j].status
  <2> DEFINE voided == [settlements[i] EXCEPT !.status = "VOIDED"]
  <2>1. \A j \in DOMAIN settlements : settlements[j] \in SettlementShape(L, E)
    BY <1>1
  <2>2. /\ voided \in SettlementShape(L, E)
        /\ voided.driver = settlements[i].driver
        /\ voided.periodStart = settlements[i].periodStart
        /\ voided.periodEnd = settlements[i].periodEnd
        /\ voided.lines = settlements[i].lines
        /\ voided.expected = settlements[i].expected
        /\ voided.status = "VOIDED"
    BY <2>1 DEF SettlementShape
  <2>3. settlements' = [settlements EXCEPT ![i] = voided]
    BY DEF Void
  <2> HIDE DEF voided
  <2>4. /\ settlements' \in Seq(SettlementShape(L, E))
        /\ Len(settlements') = Len(settlements) /\ DOMAIN settlements' = DOMAIN settlements
    BY <1>1, <2>2, <2>3
  <2>5. \A j \in DOMAIN settlements :
          settlements'[j] = IF j = i THEN voided ELSE settlements[j]
    BY <1>1, <2>3
  <2>6. QED
    BY <2>2, <2>4, <2>5
<1>3. /\ d \in Drivers /\ i \in Nat /\ i # None /\ DOMAIN settlements \subseteq Nat
      /\ \A e : Settled(e) \subseteq DOMAIN settlements
  BY <1>d, SettlementIds, SettlementsAssumption
<1>4. i \in Settled(d) /\ (\A j \in Settled(d) : i >= j)
  BY <1>d, <1>3, PreviousInIds DEF Void, Voidable, PreviousSettlement
<1>5. \A e : Settled(e)' = Settled(e) \ {i}
  BY <1>2 DEF Settled
<1>6. \A e : e # d => Settled(e)' = Settled(e)
  BY <1>d, <1>5 DEF Settled
<1>7. Settled(d)' = Below(i)
  <2>1. \A j \in Settled(d) : j # i <=> j < i
    BY <1>3, <1>4
  <2>2. QED
    BY <1>d, <1>5, <2>1 DEF Below
<1>8. \A e \in Drivers : \A j \in Settled(e)' :
        /\ j \in Settled(e) /\ j \in DOMAIN settlements
        /\ settlements[j].driver = e /\ j # i
        /\ {k \in Settled(e)' : k < j} = {k \in Settled(e) : k < j}
  BY <1>3, <1>4, <1>5, <1>6 DEF Settled
<1>9. \A e \in Drivers : \A j \in Settled(e)' :
        Before(j)' = Before(j) /\ Below(j)' = Below(j)
  <2> SUFFICES ASSUME NEW e \in Drivers, NEW j \in Settled(e)'
               PROVE  Before(j)' = Before(j) /\ Below(j)' = Below(j)
    OBVIOUS
  <2>1. settlements[j].driver = e /\ settlements'[j].driver = e
    BY <1>2, <1>8
  <2>2. {k \in Settled(e)' : k < j} = {k \in Settled(e) : k < j}
    BY <1>8
  <2>3. Below(j)' = Below(j)
    BY <2>1, <2>2 DEF Below
  <2>4. QED
    BY <2>3 DEF Before, Below
<1>10. PreviousSettlement(d)' = Before(i)
  BY <1>d, <1>7 DEF PreviousSettlement, Before, Below
<1>11. \A o \in Orders : orders'[o] = IF o \in Stamped(i)
                                      THEN [orders[o] EXCEPT !.settlementId = None]
                                      ELSE orders[o]
  BY DEF Void
<1>12. \A o \in Stamped(i) : /\ o \in Orders /\ orders[o].settlementId = i
                              /\ orders[o] \in OrderRows \ {NotDelivered}
  BY <1>3 DEF Stamped, TablesShape, NotDelivered
<1>13. orders' \in [Orders -> OrderRows]
  <2>1. \A o \in Orders : orders'[o] \in OrderRows
    BY <1>11, <1>12 DEF OrderRows, TablesShape
  <2>2. QED
    BY <2>1 DEF Void
<1>14. \A o \in Orders : orders'[o].settlementId = IF o \in Stamped(i) THEN None
                                                   ELSE orders[o].settlementId
  BY <1>11, <1>12 DEF OrderRows
<1>15. Stamped(i)' = {} /\ (\A j : j # i /\ j # None => Stamped(j)' = Stamped(j))
  BY <1>3, <1>14 DEF Stamped
<1>16. TablesShape'
  <2>1. \E B : balances' \in [Drivers -> B]
    <3>1. PICK B : balances \in [Drivers -> B]
      BY DEF TablesShape
    <3>2. PICK b : balances' = [balances EXCEPT ![d] = b]
      BY <1>d DEF Void
    <3>3. balances' \in [Drivers -> B \cup {b}]
      BY <3>1, <3>2
    <3>4. QED
      BY <3>3
  <2>2. QED
    BY <1>2, <1>13, <2>1 DEF TablesShape, Void
<1>17. CallsShape' /\ LockInv'
  BY DEF Void, CallsShape, LockInv
<1>18. DeliveringInv'
  BY <1>11, <1>12 DEF Void, DeliveringInv
<1>19. StampsInv' /\ LinesInv' /\ RecordedAsShown'
  BY <1>2, <1>14 DEF StampsInv, LinesInv, RecordedAsShown
<1>20. MaxInv'
  <2>1. ASSUME NEW e \in Drivers PROVE HasMax(Settled(e)')
    <3>1. CASE e = d
      BY <1>d, <1>3, <1>4, <1>7, <3>1 DEF MaxInv
    <3>2. CASE e # d
      BY <1>6, <3>2 DEF MaxInv
    <3>3. QED
      BY <3>1, <3>2
  <2>2. ASSUME NEW e \in Drivers, NEW j \in Settled(e)' PROVE HasMax(Below(j)')
    BY <1>8, <1>9 DEF MaxInv
  <2>3. QED
    BY <2>1, <2>2 DEF MaxInv, HasMax
<1>21. StampedMatchesLines'
  <2> SUFFICES ASSUME NEW j \in DOMAIN settlements, j # i
               PROVE  /\ Stamped(j)' = Stamped(j)
                      /\ \A o \in Stamped(j) : orders'[o] = orders[o]
                      /\ \A cur : /\ InCurrency(Stamped(j), cur)' = InCurrency(Stamped(j), cur)
                                 /\ CommissionDue(Stamped(j), cur)' = CommissionDue(Stamped(j), cur)
    BY <1>2, <1>15 DEF StampedMatchesLines
  <2>1. j # None
    BY <1>3, SettlementsAssumption
  <2>2. Stamped(j)' = Stamped(j)
    BY <1>15, <2>1
  <2>3. \A o \in Stamped(j) : orders'[o] = orders[o]
    BY <1>11 DEF Stamped
  <2>4. PICK S : S = Stamped(j)
    OBVIOUS
  <2>5. S = Stamped(j)'
    BY <2>2, <2>4
  <2>6. \A cur : /\ InCurrency(S, cur)' = InCurrency(S, cur)
                /\ CommissionDue(S, cur)' = CommissionDue(S, cur)
    BY <2>3, <2>4, AmountsKept
  <2>7. QED
    BY <2>2, <2>3, <2>4, <2>5, <2>6
<1>22. \A e \in Drivers : balances'[e] =
         IF e = d THEN [cur \in Currencies |-> IF HasLine(lines[cur])
                          THEN lines[cur].broughtForward ELSE balances[e][cur]]
         ELSE balances[e]
  BY <1>d, <1>3 DEF Void, TablesShape
<1>23. \A j, cur : j \in DOMAIN settlements \cup {None} =>
         /\ CarriedForward(j, cur)' = CarriedForward(j, cur)
         /\ PeriodEnd(j)' = PeriodEnd(j)
  BY <1>2 DEF CarriedForward, PeriodEnd
<1>24. /\ \A e \in Drivers : PreviousSettlement(e) \in DOMAIN settlements \cup {None}
       /\ \A e \in Drivers : \A j \in Settled(e) : Before(j) \in DOMAIN settlements \cup {None}
  BY BeforeIds
<1>25. BalanceIsChainEnd'
  <2>1. ASSUME NEW cur \in Currencies
        PROVE  balances'[d][cur] = CarriedForward(Before(i), cur)
    <3>1. lines[cur].broughtForward = CarriedForward(Before(i), cur)
      BY <1>d, <1>3, <1>4 DEF BalanceIsChainEnd
    <3>2. CASE HasLine(lines[cur])
      BY <1>3, <1>22, <3>1, <3>2
    <3>3. CASE ~HasLine(lines[cur])
      <4>1. lines[cur].carriedForward = 0 /\ lines[cur].broughtForward = 0
        BY <3>3 DEF LinesInv, HasLine
      <4>2. balances[d][cur] = CarriedForward(i, cur)
        BY <1>d, <1>3 DEF BalanceIsChainEnd, Void, Voidable
      <4>3. QED
        BY <1>3, <1>22, <3>1, <3>3, <4>1, <4>2 DEF CarriedForward
    <3>4. QED
      BY <3>2, <3>3
  <2>2. \A e \in Drivers, cur \in Currencies :
          balances'[e][cur] = CarriedForward(PreviousSettlement(e), cur)'
    <3>1. \A e \in Drivers : e # d => PreviousSettlement(e)' = PreviousSettlement(e)
      BY <1>6 DEF PreviousSettlement
    <3>2. ASSUME NEW e \in Drivers, NEW cur \in Currencies, e # d
          PROVE  balances'[e][cur] = CarriedForward(PreviousSettlement(e), cur)'
      <4>1. CarriedForward(PreviousSettlement(e), cur)'
              = CarriedForward(PreviousSettlement(e), cur)
        BY <1>23, <1>24, <3>1, <3>2
      <4>2. balances'[e] = balances[e]
        BY <1>22, <3>2
      <4>3. QED
        BY <4>1, <4>2 DEF BalanceIsChainEnd
    <3>3. \A cur \in Currencies :
            balances'[d][cur] = CarriedForward(PreviousSettlement(d), cur)'
      BY <1>3, <1>4, <1>10, <1>23, <1>24, <2>1
    <3>4. QED
      BY <3>2, <3>3
  <2>3. \A e \in Drivers : \A j \in Settled(e)' : \A cur \in Currencies :
          settlements'[j].lines[cur].broughtForward = CarriedForward(Before(j), cur)'
    BY <1>2, <1>8, <1>9, <1>23, <1>24 DEF BalanceIsChainEnd
  <2>4. QED
    BY <2>2, <2>3 DEF BalanceIsChainEnd
<1>26. WindowsAbut'
  <2> SUFFICES ASSUME NEW e \in Drivers, NEW j \in Settled(e)'
               PROVE  /\ settlements'[j].periodStart = PeriodEnd(Before(j))'
                      /\ Before(j)' # None => settlements'[j].periodStart < settlements'[j].periodEnd
    BY DEF WindowsAbut
  <2>1. /\ settlements'[j].periodStart = settlements[j].periodStart
        /\ settlements'[j].periodEnd = settlements[j].periodEnd
        /\ Before(j)' = Before(j) /\ j \in Settled(e)
    BY <1>2, <1>8, <1>9
  <2>2. PeriodEnd(Before(j))' = PeriodEnd(Before(j))
    BY <1>23, <1>24, <2>1
  <2>3. QED
    BY <2>1, <2>2 DEF WindowsAbut
<1>27. LockedInv'
  <2> SUFFICES ASSUME NEW c \in Calls, calls[c].phase = "locked"
               PROVE  LockedCallInv(calls[c])'
    BY DEF LockedInv, Void
  <2>1. LockedCallInv(calls[c]) /\ calls[c].driver \in Drivers /\ calls[c].driver # d
    BY <1>d DEF LockedInv, CallsShape, Void, Locked
  <2>2. \A o \in UnsettledWhere(calls[c].driver, calls[c].cutoff) : orders'[o] = orders[o]
    BY <1>d, <1>3, <1>11 DEF UnsettledWhere, Stamped
  <2>3. PICK call : call = calls[c]
    OBVIOUS
  <2>4. LockedCallInv(call)'
    BY <1>2, <1>6, <1>22, <2>1, <2>2, <2>3, OtherDriver
  <2>5. call = calls'[c]
    BY <2>3 DEF Void
  <2>6. QED
    BY <2>4, <2>5
<1>28. QED
  BY <1>16, <1>17, <1>18, <1>19, <1>20, <1>21, <1>25, <1>26, <1>27

\* The count check: under the lock the work only grows, so stamping as many
\* orders as were swept is stamping the orders that were swept.
LEMMA StampedAreSwept ==
  ASSUME IInv, NEW c \in Calls, calls[c].phase = "locked",
         StampedAll(calls[c].swept, UnsettledWhere(calls[c].driver, calls[c].cutoff))
  PROVE  UnsettledWhere(calls[c].driver, calls[c].cutoff) = calls[c].swept
<1> DEFINE work == UnsettledWhere(calls[c].driver, calls[c].cutoff)
<1>1. IsFiniteSet(work)
  BY FS_Subset, SettlementsAssumption DEF UnsettledWhere
<1>2. calls[c].swept \in SUBSET work
  BY DEF IInv, LockedInv, LockedCallInv
<1>3. Cardinality(work) = Cardinality(calls[c].swept)
  BY DEF StampedAll
<1> HIDE DEF work
<1>4. work = calls[c].swept
  BY <1>1, <1>2, <1>3, FS_Subset
<1>5. QED
  BY <1>4 DEF work

\* The commit of a settlement keeps the inductive invariant.
LEMMA SettleKeepsIInv ==
  ASSUME IInv, NEW c \in Calls, NEW adjusted \in Adjustments, NEW collected \in Collections,
         SettleCommit(c, adjusted, collected)
  PROVE  IInv'
<1> USE DEF IInv, Shape
<1>a. PICK call : call = calls[c]
  OBVIOUS
<1>b. PICK d : d = call.driver
  OBVIOUS
<1>c. PICK id : id = Len(settlements) + 1
  OBVIOUS
<1>d. PICK swept : swept = call.swept
  OBVIOUS
<1>e. PICK lines : lines = [cur \in Currencies |-> Line(call.swept, cur, call.brought[cur],
                                                      adjusted[cur], collected[cur])]
  OBVIOUS
<1>f. PICK row : row = [driver |-> d, status |-> "SETTLED",
                        periodStart |-> PeriodEnd(call.previous),
                        periodEnd |-> call.cutoff, lines |-> lines,
                        expected |-> call.expected]
  OBVIOUS
<1>1. CASE UNCHANGED <<settlements, orders, balances>>
  BY <1>1, CallActions DEF SettleCommit
<1>2. CASE /\ StampedAll(swept, UnsettledWhere(d, call.cutoff))
           /\ settlements' = Append(settlements, row)
           /\ orders' = [o \in Orders |->
                IF o \in UnsettledWhere(d, call.cutoff)
                THEN [orders[o] EXCEPT !.settlementId = id] ELSE orders[o]]
           /\ balances' = [balances EXCEPT ![d] = [cur \in Currencies |->
                IF HasLine(lines[cur]) THEN lines[cur].carriedForward ELSE @[cur]]]
  <2>1. /\ call.phase = "locked" /\ id \in Ids /\ calls' = [calls EXCEPT ![c] = NoCall]
        /\ UNCHANGED <<now, delivering>>
    BY <1>a, <1>c DEF SettleCommit, End
  <2>2. /\ d \in Drivers /\ call.cutoff \in Times /\ LockedCallInv(call)
    BY <1>a, <1>b, <2>1 DEF CallsShape, LockedInv
  <2>3. UnsettledWhere(d, call.cutoff) = swept
    BY <1>a, <1>b, <1>d, <1>2, <2>1, StampedAreSwept
  <2>4. /\ Len(settlements) \in Nat /\ id = Len(settlements) + 1 /\ id # None
        /\ DOMAIN settlements = 1 .. Len(settlements)
        /\ id \notin DOMAIN settlements /\ (\A j \in DOMAIN settlements : j < id)
        /\ DOMAIN settlements \subseteq Nat
        /\ \A e : Settled(e) \subseteq DOMAIN settlements
    BY <1>c, SettlementIds, SettlementsAssumption
  <2>5. PICK L, E : settlements \in Seq(SettlementShape(L, E))
    BY DEF TablesShape
  <2>6. /\ \A e \in Drivers : PreviousSettlement(e) \in DOMAIN settlements \cup {None}
        /\ \A e \in Drivers : \A j \in Settled(e) : Before(j) \in DOMAIN settlements \cup {None}
    BY BeforeIds
  <2>7. PeriodEnd(call.previous) \in Times \cup {None}
    <3>1. \A j \in DOMAIN settlements : settlements[j].periodEnd \in Times
      <4>1. \A j \in DOMAIN settlements : settlements[j] \in SettlementShape(L, E)
        BY <2>5
      <4>2. QED
        BY <4>1 DEF SettlementShape
    <3>2. QED
      BY <1>b, <2>2, <2>6, <3>1 DEF LockedCallInv, PeriodEnd
  <2>8. /\ settlements' \in Seq(SettlementShape(L \cup {lines}, E \cup {call.expected}))
        /\ Len(settlements') = id /\ DOMAIN settlements' = DOMAIN settlements \cup {id}
        /\ settlements'[id] = row
        /\ \A j \in DOMAIN settlements : settlements'[j] = settlements[j]
    <3>1. row \in SettlementShape(L \cup {lines}, E \cup {call.expected})
      BY <1>f, <2>2, <2>7 DEF SettlementShape
    <3>2. settlements \in Seq(SettlementShape(L \cup {lines}, E \cup {call.expected}))
      <4>1. SettlementShape(L, E) \subseteq SettlementShape(L \cup {lines}, E \cup {call.expected})
        BY DEF SettlementShape
      <4>2. QED
        BY <2>5, <4>1, SeqMonotone
    <3>3. QED
      BY <1>2, <2>4, <3>1, <3>2
  <2>9. /\ row.driver = d /\ row.status = "SETTLED" /\ row.periodEnd = call.cutoff
        /\ row.periodStart = PeriodEnd(PreviousSettlement(d))
        /\ row.lines = lines /\ row.expected = Figures(d, swept)
    BY <1>b, <1>d, <1>f, <2>2 DEF LockedCallInv
  <2>10. /\ Settled(d)' = Settled(d) \cup {id}
         /\ \A e : e # d => Settled(e)' = Settled(e)
    BY <2>4, <2>8, <2>9 DEF Settled
  <2>11. PreviousSettlement(d)' = id
    <3>1. Settled(d)' \in SUBSET Nat /\ id \in Settled(d)' /\ (\A j \in Settled(d)' : id >= j)
      BY <2>4, <2>10
    <3>2. Max(Settled(d)') = id
      BY <3>1, MaxUnique
    <3>3. QED
      BY <3>1, <3>2 DEF PreviousSettlement
  <2>12. \A e \in Drivers : \A j \in Settled(e) :
           /\ j \in DOMAIN settlements /\ settlements[j].driver = e
           /\ Before(j)' = Before(j) /\ Below(j)' = Below(j)
    <3> SUFFICES ASSUME NEW e \in Drivers, NEW j \in Settled(e)
                 PROVE  /\ j \in DOMAIN settlements /\ settlements[j].driver = e
                        /\ Before(j)' = Before(j) /\ Below(j)' = Below(j)
      OBVIOUS
    <3>1. j \in DOMAIN settlements /\ settlements[j].driver = e /\ settlements'[j].driver = e
      BY <2>8 DEF Settled
    <3>2. {k \in Settled(e)' : k < j} = {k \in Settled(e) : k < j}
      <4>1. j \in Nat /\ ~(id < j)
        BY <2>4, <3>1
      <4>2. QED
        BY <2>10, <4>1
    <3>3. Below(j)' = Below(j)
      BY <3>1, <3>2 DEF Below
    <3>4. QED
      BY <3>1, <3>3 DEF Before, Below
  <2>13. Below(id)' = Settled(d) /\ Before(id)' = PreviousSettlement(d)
    <3>1. settlements'[id].driver = d
      BY <2>8, <2>9
    <3>2. {k \in Settled(d)' : k < id} = Settled(d)
      BY <2>4, <2>10
    <3>3. Below(id)' = Settled(d)
      BY <3>1, <3>2 DEF Below
    <3>4. QED
      BY <3>3 DEF Below, Before, PreviousSettlement
  <2>14. \A e \in Drivers : \A j : j \in Settled(e)' <=> j \in Settled(e) \/ (e = d /\ j = id)
    BY <2>10
  <2>15. \A j, cur : j \in DOMAIN settlements \cup {None} =>
           /\ CarriedForward(j, cur)' = CarriedForward(j, cur)
           /\ PeriodEnd(j)' = PeriodEnd(j)
    BY <2>8 DEF CarriedForward, PeriodEnd
  <2>16. \A o \in Orders :
           /\ o \in swept => /\ orders[o].settlementId = None /\ orders[o].driver = d
                            /\ orders[o] \in OrderRows \ {NotDelivered}
           /\ orders'[o] = IF o \in swept THEN [orders[o] EXCEPT !.settlementId = id]
                           ELSE orders[o]
    BY <1>2, <2>3, SettlementsAssumption
       DEF UnsettledWhere, Delivered, NotDelivered, TablesShape
  <2>17. \A o \in Orders :
           /\ orders'[o] \in OrderRows
           /\ orders'[o].settlementId = IF o \in swept THEN id ELSE orders[o].settlementId
           /\ orders'[o].driver = orders[o].driver
           /\ orders'[o].currency = orders[o].currency
           /\ orders'[o].commission = orders[o].commission
    <3>1. ASSUME NEW o \in swept, o \in Orders
          PROVE  /\ orders'[o] \in OrderRows
                 /\ orders'[o].settlementId = id
                 /\ orders'[o].driver = orders[o].driver
                 /\ orders'[o].currency = orders[o].currency
                 /\ orders'[o].commission = orders[o].commission
      BY <2>1, <2>16, <3>1 DEF OrderRows
    <3>2. QED
      BY <2>16, <3>1 DEF TablesShape
  <2>18. swept \subseteq Orders
    BY <2>3 DEF UnsettledWhere
  <2>19. /\ Stamped(id)' = swept
         /\ \A j \in DOMAIN settlements : Stamped(j)' = Stamped(j)
    <3>1. \A o \in Orders : orders[o].settlementId # id
      BY <2>4 DEF StampsInv
    <3>2. \A j \in DOMAIN settlements : j # None /\ j # id
      BY <2>4, SettlementsAssumption
    <3>3. QED
      BY <2>16, <2>17, <2>18, <3>1, <3>2 DEF Stamped
  <2>20. \A S, cur : S \subseteq Orders =>
           /\ InCurrency(S, cur)' = InCurrency(S, cur)
           /\ CommissionDue(S, cur)' = CommissionDue(S, cur)
    BY <2>17, AmountsKept
  <2>21. TablesShape'
    <3>1. \E B : balances' \in [Drivers -> B]
      <4>1. PICK B : balances \in [Drivers -> B]
        BY DEF TablesShape
      <4>2. PICK b : balances' = [balances EXCEPT ![d] = b]
        BY <1>2
      <4>3. balances' \in [Drivers -> B \cup {b}]
        BY <4>1, <4>2
      <4>4. QED
        BY <4>3
    <3>2. orders' \in [Orders -> OrderRows]
      BY <1>2, <2>17
    <3>3. Len(settlements') <= MaxSettlements
      BY <2>1, <2>8, SettlementsAssumption DEF Ids
    <3>4. QED
      BY <2>1, <2>8, <3>1, <3>2, <3>3 DEF TablesShape
  <2>22. \A b \in Calls : calls'[b] = IF b = c THEN NoCall ELSE calls[b]
    BY <2>1 DEF CallsShape
  <2>23. CallsShape'
    <3>1. PICK F, B : calls \in [Calls -> CallShape(F, B)]
      BY DEF CallsShape
    <3>2. \A k : k \in CallShape(F, B) \/ k = NoCall
                 => k \in CallShape(F \cup {None}, B \cup {None})
      BY DEF CallShape, NoCall
    <3>3. calls' \in [Calls -> CallShape(F \cup {None}, B \cup {None})]
      BY <2>1, <3>1, <3>2
    <3>4. QED
      BY <2>22, <3>3 DEF CallsShape, NoCall
  <2>24. LockInv'
    BY <2>22 DEF LockInv, NoCall
  <2>25. DeliveringInv'
    BY <2>1, <2>16 DEF DeliveringInv
  <2>26. StampsInv'
    BY <2>8, <2>17 DEF StampsInv
  <2>27. \A cur \in Currencies :
           lines[cur] = Line(swept, cur, balances[d][cur], adjusted[cur], collected[cur])
    BY <1>b, <1>d, <1>e, <2>2 DEF LockedCallInv
  <2>28. \A cur \in Currencies : ~HasLine(lines[cur]) =>
           lines[cur].carriedForward = 0 /\ balances[d][cur] = 0
    <3> SUFFICES ASSUME NEW cur \in Currencies, ~HasLine(lines[cur])
                 PROVE  lines[cur].carriedForward = 0 /\ balances[d][cur] = 0
      OBVIOUS
    <3>1. /\ Cardinality(InCurrency(swept, cur)) = 0 /\ adjusted[cur] = 0
          /\ balances[d][cur] = 0 /\ collected[cur] = 0
      BY <2>27, LineFields DEF HasLine
    <3>2. InCurrency(swept, cur) = {}
      <4>1. IsFiniteSet(InCurrency(swept, cur))
        BY <2>18, FS_Subset, SettlementsAssumption DEF InCurrency
      <4>2. QED
        BY <3>1, <4>1, FS_EmptySet
    <3>3. CommissionDue(swept, cur) = 0
      BY <3>2 DEF CommissionDue
    <3>4. QED
      BY <2>27, <3>1, <3>3, LineFields
  <2>29. LinesInv'
    BY <2>8, <2>9, <2>28 DEF LinesInv
  <2>30. MaxInv'
    <3>1. ASSUME NEW e \in Drivers PROVE HasMax(Settled(e)')
      <4>1. CASE e = d
        <5>1. id \in Settled(e)' /\ (\A j \in Settled(e)' : j \in Nat /\ id >= j)
          BY <2>4, <2>10, <4>1
        <5>2. QED
          BY <5>1 DEF HasMax
      <4>2. CASE e # d
        BY <2>10, <4>2 DEF MaxInv
      <4>3. QED
        BY <4>1, <4>2
    <3>2. ASSUME NEW e \in Drivers, NEW j \in Settled(e)' PROVE HasMax(Below(j)')
      <4>1. CASE j = id
        BY <2>2, <2>13, <4>1 DEF MaxInv
      <4>2. CASE j # id
        BY <2>12, <2>14, <4>2 DEF MaxInv
      <4>3. QED
        BY <4>1, <4>2
    <3>3. QED
      BY <3>1, <3>2 DEF MaxInv, HasMax
  <2>31. \A cur \in Currencies :
           /\ lines[cur].orderCount = Cardinality(InCurrency(swept, cur))
           /\ lines[cur].commissionDue = CommissionDue(swept, cur)
           /\ lines[cur].broughtForward = balances[d][cur]
    BY <2>27, LineFields
  <2>32. StampedMatchesLines'
    <3> SUFFICES ASSUME NEW j \in DOMAIN settlements'
                 PROVE  IF settlements'[j].status = "VOIDED" THEN Stamped(j)' = {}
                        ELSE /\ \A o \in Stamped(j)' : orders'[o].driver = settlements'[j].driver
                             /\ \A cur \in Currencies :
                                  LET line == settlements'[j].lines[cur] IN
                                  /\ line.orderCount = Cardinality(InCurrency(Stamped(j), cur)')
                                  /\ line.commissionDue = CommissionDue(Stamped(j), cur)'
      BY DEF StampedMatchesLines
    <3>1. CASE j = id
      <4>1. \A cur : /\ InCurrency(Stamped(j), cur)' = InCurrency(swept, cur)
                    /\ CommissionDue(Stamped(j), cur)' = CommissionDue(swept, cur)
        BY <2>18, <2>19, <2>20, <3>1
      <4>2. QED
        <5>1. settlements'[j] = row /\ Stamped(j)' = swept
          BY <2>8, <2>19, <3>1
        <5>2. \A o \in Stamped(j)' : orders'[o].driver = d
          BY <2>16, <2>17, <2>18, <5>1
        <5>3. \A cur \in Currencies :
                /\ lines[cur].orderCount = Cardinality(InCurrency(Stamped(j), cur)')
                /\ lines[cur].commissionDue = CommissionDue(Stamped(j), cur)'
          BY <2>31, <4>1
        <5>4. row.status # "VOIDED" /\ row.driver = d /\ row.lines = lines
          BY <2>9
        <5>5. QED
          BY <5>1, <5>2, <5>3, <5>4
    <3>2. CASE j \in DOMAIN settlements
      <4>1. PICK S : S = Stamped(j)
        OBVIOUS
      <4>2. S = Stamped(j)' /\ S \subseteq Orders
        BY <2>19, <3>2, <4>1 DEF Stamped
      <4>3. \A cur : /\ InCurrency(Stamped(j), cur)' = InCurrency(Stamped(j), cur)
                    /\ CommissionDue(Stamped(j), cur)' = CommissionDue(Stamped(j), cur)
        BY <2>20, <4>1, <4>2
      <4>4. QED
        <5>1. /\ settlements'[j] = settlements[j] /\ Stamped(j)' = Stamped(j)
              /\ \A o \in Stamped(j) : orders'[o].driver = orders[o].driver
          BY <2>8, <2>17, <3>2, <4>1, <4>2
        <5>2. IF settlements[j].status = "VOIDED" THEN Stamped(j) = {}
              ELSE /\ \A o \in Stamped(j) : orders[o].driver = settlements[j].driver
                   /\ \A cur \in Currencies :
                        /\ settlements[j].lines[cur].orderCount
                             = Cardinality(InCurrency(Stamped(j), cur))
                        /\ settlements[j].lines[cur].commissionDue
                             = CommissionDue(Stamped(j), cur)
          BY <3>2 DEF StampedMatchesLines
        <5>3. CASE settlements[j].status = "VOIDED"
          BY <5>1, <5>2, <5>3
        <5>4. CASE settlements[j].status # "VOIDED"
          BY <4>3, <5>1, <5>2, <5>4
        <5>5. QED
          BY <5>3, <5>4
    <3>3. QED
      BY <2>8, <3>1, <3>2
  <2>33. \A e \in Drivers : balances'[e] =
           IF e = d THEN [cur \in Currencies |-> IF HasLine(lines[cur])
                            THEN lines[cur].carriedForward ELSE balances[e][cur]]
           ELSE balances[e]
    BY <1>2, <2>2 DEF TablesShape
  <2>34. BalanceIsChainEnd'
    <3>1. ASSUME NEW e \in Drivers, NEW cur \in Currencies
          PROVE  balances'[e][cur] = CarriedForward(PreviousSettlement(e), cur)'
      <4>1. CASE e = d
        <5>1. CarriedForward(PreviousSettlement(e), cur)' = lines[cur].carriedForward
          BY <2>4, <2>8, <2>9, <2>11, <4>1 DEF CarriedForward
        <5>2. QED
          BY <2>28, <2>33, <4>1, <5>1
      <4>2. CASE e # d
        <5>1. PreviousSettlement(e)' = PreviousSettlement(e)
          BY <2>10, <4>2 DEF PreviousSettlement
        <5>2. CarriedForward(PreviousSettlement(e), cur)'
                = CarriedForward(PreviousSettlement(e), cur)
          BY <2>6, <2>15, <5>1
        <5>3. QED
          BY <2>33, <4>2, <5>2 DEF BalanceIsChainEnd
      <4>3. QED
        BY <4>1, <4>2
    <3>2. ASSUME NEW e \in Drivers, NEW j \in Settled(e)', NEW cur \in Currencies
          PROVE  settlements'[j].lines[cur].broughtForward = CarriedForward(Before(j), cur)'
      <4>1. CASE j = id
        <5>1. CarriedForward(Before(j), cur)' = CarriedForward(PreviousSettlement(d), cur)
          BY <2>2, <2>6, <2>13, <2>15, <4>1
        <5>2. QED
          BY <2>2, <2>8, <2>9, <2>31, <4>1, <5>1 DEF BalanceIsChainEnd
      <4>2. CASE j # id
        <5>1. j \in Settled(e) /\ j \in DOMAIN settlements /\ Before(j)' = Before(j)
          BY <2>12, <2>14, <4>2
        <5>2. CarriedForward(Before(j), cur)' = CarriedForward(Before(j), cur)
          BY <2>6, <2>15, <5>1
        <5>3. QED
          BY <2>8, <5>1, <5>2 DEF BalanceIsChainEnd
      <4>3. QED
        BY <4>1, <4>2
    <3>3. QED
      BY <3>1, <3>2 DEF BalanceIsChainEnd
  <2>35. WindowsAbut'
    <3> SUFFICES ASSUME NEW e \in Drivers, NEW j \in Settled(e)'
                 PROVE  /\ settlements'[j].periodStart = PeriodEnd(Before(j))'
                        /\ Before(j)' # None =>
                             settlements'[j].periodStart < settlements'[j].periodEnd
      BY DEF WindowsAbut
    <3>1. CASE j = id
      <4>1. PeriodEnd(Before(j))' = PeriodEnd(PreviousSettlement(d))
        BY <2>2, <2>6, <2>13, <2>15, <3>1
      <4>2. PreviousSettlement(d) # None => PeriodEnd(PreviousSettlement(d)) < call.cutoff
        <5>1. \A i \in DOMAIN settlements : settlements[i].periodEnd \in Times
          <6>1. \A i \in DOMAIN settlements : settlements[i] \in SettlementShape(L, E)
            BY <2>5
          <6>2. QED
            BY <6>1 DEF SettlementShape
        <5>2. PreviousSettlement(d) # None =>
                PeriodEnd(PreviousSettlement(d)) \in Nat /\ call.cutoff \in Nat
          BY <2>2, <2>6, <5>1 DEF PeriodEnd, Times
        <5>3. QED
          BY <1>b, <2>2, <5>2 DEF LockedCallInv, PeriodOpen
      <4>3. QED
        BY <2>8, <2>9, <2>13, <3>1, <4>1, <4>2
    <3>2. CASE j # id
      <4>1. j \in Settled(e) /\ j \in DOMAIN settlements /\ Before(j)' = Before(j)
        BY <2>12, <2>14, <3>2
      <4>2. PeriodEnd(Before(j))' = PeriodEnd(Before(j))
        BY <2>6, <2>15, <4>1
      <4>3. QED
        BY <2>8, <4>1, <4>2 DEF WindowsAbut
    <3>3. QED
      BY <3>1, <3>2
  <2>36. RecordedAsShown'
    <3>1. \A cur \in Currencies : Figures(d, swept)[cur] =
            [orderCount |-> lines[cur].orderCount,
             totalDue |-> lines[cur].commissionDue + lines[cur].broughtForward]
      BY <2>31 DEF Figures
    <3>2. QED
      BY <2>8, <2>9, <3>1 DEF RecordedAsShown
  <2>37. LockedInv'
    <3> SUFFICES ASSUME NEW b \in Calls, b # c, calls[b].phase = "locked"
                 PROVE  LockedCallInv(calls[b])'
      BY <2>22 DEF LockedInv, NoCall
    <3>1. LockedCallInv(calls[b]) /\ calls[b].driver \in Drivers /\ calls[b].driver # d
      BY <1>a, <1>b, <2>1 DEF LockedInv, CallsShape, LockInv
    <3>2. \A o \in UnsettledWhere(calls[b].driver, calls[b].cutoff) : orders'[o] = orders[o]
      BY <2>16, <3>1 DEF UnsettledWhere
    <3>3. PICK k : k = calls[b]
      OBVIOUS
    <3>4. LockedCallInv(k)'
      BY <2>8, <2>10, <2>33, <3>1, <3>2, <3>3, OtherDriver
    <3>5. k = calls'[b]
      BY <2>22, <3>3
    <3>6. QED
      BY <3>4, <3>5
  <2>38. QED
    BY <2>21, <2>23, <2>24, <2>25, <2>26, <2>29, <2>30, <2>32, <2>34, <2>35, <2>36, <2>37
<1>3. QED
  BY <1>a, <1>b, <1>c, <1>d, <1>e, <1>f, <1>1, <1>2 DEF SettleCommit

-----------------------------------------------------------------------------
\* Every step of the system keeps the inductive invariant.
LEMMA NextKeepsIInv == IInv /\ [Next]_vars => IInv'
<1> SUFFICES ASSUME IInv, [Next]_vars PROVE IInv'
  OBVIOUS
<1>1. CASE UNCHANGED vars
  <2>1. UNCHANGED <<now, delivering, orders, settlements, balances, calls>>
    BY <1>1 DEF vars
  <2>2. TablesInv' /\ (\A k : LockedCallInv(k) => LockedCallInv(k)')
    BY <2>1, WorkGrows DEF IInv, TablesInv, Shape
  <2>3. TablesShape' /\ CallsShape' /\ DeliveringInv' /\ LockInv' /\ LockedInv'
    BY <2>1, <2>2 DEF IInv, Shape, TablesShape, CallsShape, DeliveringInv, LockInv, LockedInv
  <2>4. QED
    BY <2>2, <2>3 DEF IInv, Shape, TablesInv
<1>2. CASE Next
  BY <1>2, WorkActions, CallActions, SettleKeepsIInv, VoidKeepsIInv DEF Next, Abort
<1>3. QED
  BY <1>1, <1>2

\* The inductive invariant holds in every reachable state.
LEMMA Invariance == Spec => []IInv
<1>1. IInv /\ [Next]_vars => IInv'
  BY NextKeepsIInv
<1>2. QED
  BY InitIInv, <1>1, PTL DEF Spec

\* However previews, deliveries, settles and voids interleave, the orders a
\* settlement that stands has stamped are the work its lines bill, and a
\* voided one has none: no commission is collected twice.
THEOREM StampsMatch == Spec => []StampedMatchesLines
<1>1. IInv => StampedMatchesLines
  BY DEF IInv
<1>2. QED
  BY Invariance, <1>1, PTL

\* A driver's balance is what his last standing settlement carried forward, every
\* standing settlement brought forward what the one before carried, and their
\* periods follow one another.
THEOREM ChainHolds == Spec => []ChainUnbroken
<1>1. IInv => ChainUnbroken
  BY DEF IInv, ChainUnbroken
<1>2. QED
  BY Invariance, <1>1, PTL

\* A settlement records the figures the admin was shown.
THEOREM ShownIsRecorded == Spec => []RecordedAsShown
<1>1. IInv => RecordedAsShown
  BY DEF IInv
<1>2. QED
  BY Invariance, <1>1, PTL

-----------------------------------------------------------------------------
(* Types.                                                                  *)

\* An order's commission is a natural number, 0 before delivery.
LEMMA CommissionIsNat ==
  ASSUME orders \in [Orders -> OrderRows], NEW o \in Orders
  PROVE  orders[o].commission \in Nat
<1>1. orders[o] = NotDelivered \/ orders[o].commission \in Commissions
  BY DEF OrderRows
<1>2. Commissions \subseteq Nat
  BY SettlementsAssumption
<1>3. NotDelivered.commission \in Nat
  BY DEF NotDelivered
<1> QED BY <1>1, <1>2, <1>3

\* A group's count and sum are naturals: commissions are, and orders finite.
LEMMA GroupTyped ==
  ASSUME orders \in [Orders -> OrderRows], NEW S \in SUBSET Orders, NEW cur
  PROVE  CommissionDue(S, cur) \in Nat /\ Cardinality(InCurrency(S, cur)) \in Nat
<1> DEFINE G == InCurrency(S, cur)
           fun == [o \in G |-> orders[o].commission]
<1>1. G \in SUBSET Orders /\ IsFiniteSet(G)
  BY SettlementsAssumption, FS_Subset DEF InCurrency
<1>2. \A o \in Orders : orders[o].commission \in Nat
  BY CommissionIsNat
<1>3. SumFunction(fun) \in Nat
  <2>1. \A o \in G : fun[o] \in Nat
    BY <1>1, <1>2
  <2>2. SumFunction(fun) = Sum(fun, G)
    <3>1. DOMAIN fun = G
      OBVIOUS
    <3> QED BY <3>1, SumFunctionIsSum
  <2> HIDE DEF fun, G
  <2> QED BY <1>1, <2>1, <2>2, SumTyped
<1>4. Cardinality(G) \in Nat
  BY <1>1, FS_CardinalityType
<1> QED BY <1>3, <1>4 DEF CommissionDue

\* What a preview shows and the drift check recomputes.
LEMMA FiguresTyped ==
  ASSUME TypeOK, NEW d \in Drivers, NEW S \in SUBSET Orders
  PROVE  Figures(d, S) \in FigureRows
<1>1. ASSUME NEW cur \in Currencies
      PROVE  [orderCount |-> Cardinality(InCurrency(S, cur)),
              totalDue |-> CommissionDue(S, cur) + balances[d][cur]]
               \in [orderCount : Nat, totalDue : Int]
  <2>1. CommissionDue(S, cur) \in Nat /\ Cardinality(InCurrency(S, cur)) \in Nat
    BY GroupTyped DEF TypeOK
  <2>2. balances[d][cur] \in Int
    BY DEF TypeOK
  <2> QED BY <2>1, <2>2
<1> QED BY <1>1 DEF Figures, FigureRows

\* What a settlement records of a currency.
LEMMA LineTyped ==
  ASSUME TypeOK, NEW S \in SUBSET Orders, NEW cur, NEW brought \in Int,
         NEW adjusted \in Int, NEW collected \in Nat
  PROVE  Line(S, cur, brought, adjusted, collected) \in LineRows
<1>1. CommissionDue(S, cur) \in Nat /\ Cardinality(InCurrency(S, cur)) \in Nat
  BY GroupTyped DEF TypeOK
<1> QED BY <1>1 DEF Line, LineRows

\* The empty tables have their types.
LEMMA InitTypeOK == Init => TypeOK
BY SettlementsAssumption DEF Init, TypeOK, OrderRows, CallRows, Times

\* The clock and the deliveries keep the types.
LEMMA WorkTyped ==
  ASSUME TypeOK,
         \/ Tick
         \/ \E o \in Orders : \/ DeliverStamp(o)
                              \/ \E d \in Drivers, cur \in Currencies, commission \in Commissions :
                                   DeliverCommit(o, d, cur, commission)
  PROVE  TypeOK'
<1>1. CASE Tick
  BY <1>1, SettlementsAssumption DEF Tick, TypeOK, Times
<1>2. ASSUME NEW o \in Orders, DeliverStamp(o) PROVE TypeOK'
  BY <1>2 DEF DeliverStamp, TypeOK
<1>3. ASSUME NEW o \in Orders, NEW d \in Drivers, NEW cur \in Currencies,
             NEW commission \in Commissions, DeliverCommit(o, d, cur, commission)
      PROVE  TypeOK'
  <2>1. delivering[o] \in Times
    BY <1>3 DEF DeliverCommit, TypeOK
  <2>2. DeliveredRow(o, d, cur, commission) \in OrderRows
    BY <2>1 DEF DeliveredRow, OrderRows
  <2>3. orders' \in [Orders -> OrderRows] /\ delivering' \in [Orders -> Times \cup {None}]
    BY <1>3, <2>2 DEF DeliverCommit, TypeOK
  <2> QED BY <1>3, <2>3 DEF DeliverCommit, TypeOK
<1> QED BY <1>1, <1>2, <1>3

\* So do previews, sweeps and aborts, ...
LEMMA DialogsTyped ==
  ASSUME TypeOK, IInv, NEW c \in Calls,
         \/ \E d \in Drivers, cutoff \in 1 .. now : PreviewSweep(c, d, cutoff)
         \/ PreviewBalances(c) \/ SettleSweep(c) \/ Abort(c)
  PROVE  TypeOK'
<1>1. SUFFICES calls' \in [Calls -> CallRows]
  BY DEF TypeOK, PreviewSweep, PreviewBalances, SettleSweep, Abort
<1>2. calls \in [Calls -> CallRows] /\ calls[c] \in CallRows
  BY DEF TypeOK
<1>3. NoCall \in CallRows
  BY DEF CallRows
<1>4. CASE End(c)
  BY <1>2, <1>3, <1>4 DEF End
<1>5. ASSUME NEW d \in Drivers, NEW cutoff \in 1 .. now, PreviewSweep(c, d, cutoff)
      PROVE  calls' \in [Calls -> CallRows]
  <2>1. cutoff \in Times /\ UnsettledWhere(d, cutoff) \in SUBSET Orders
    BY SettlementsAssumption DEF TypeOK, Times, UnsettledWhere
  <2>2. [NoCall EXCEPT !.phase = "preview", !.driver = d, !.cutoff = cutoff,
                       !.swept = UnsettledWhere(d, cutoff)] \in PreviewCalls
    BY <2>1 DEF NoCall, PreviewCalls
  <2> QED BY <1>2, <1>5, <2>2 DEF PreviewSweep, CallRows
<1>6. CASE PreviewBalances(c)
  <2>1. calls[c] \in PreviewCalls
    BY <1>2, <1>6 DEF PreviewBalances, CallRows, NoCall, ShownCalls, LockedCalls
  <2>2. Figures(calls[c].driver, calls[c].swept) \in FigureRows
    BY <2>1, FiguresTyped DEF PreviewCalls
  <2>3. [calls[c] EXCEPT !.phase = "shown", !.swept = {},
           !.expected = Figures(calls[c].driver, calls[c].swept)] \in ShownCalls
    BY <2>1, <2>2 DEF PreviewCalls, ShownCalls
  <2> QED BY <1>2, <1>6, <2>3 DEF PreviewBalances, CallRows
<1>7. CASE SettleSweep(c) /\ ~End(c)
  <2>1. calls[c] \in ShownCalls
    BY <1>2, <1>7 DEF SettleSweep, CallRows, NoCall, PreviewCalls, LockedCalls
  <2> DEFINE d == calls[c].driver
             swept == UnsettledWhere(d, calls[c].cutoff)
  <2>2. d \in Drivers /\ swept \in SUBSET Orders
    BY <2>1 DEF ShownCalls, UnsettledWhere
  <2>3. PreviousSettlement(d) \in Ids \cup {None}
    BY <2>2, PreviousInIds DEF IInv, Shape
  <2>4. balances[d] \in [Currencies -> Int]
    BY <2>2 DEF TypeOK
  <2>5. [calls[c] EXCEPT !.phase = "locked", !.swept = swept,
           !.previous = PreviousSettlement(d), !.brought = balances[d]] \in LockedCalls
    BY <2>1, <2>2, <2>3, <2>4 DEF ShownCalls, LockedCalls
  <2> QED BY <1>2, <1>7, <2>5 DEF SettleSweep, CallRows
<1> QED BY <1>4, <1>5, <1>6, <1>7 DEF Abort

\* ... the commit of a settlement ...
LEMMA SettleTyped ==
  ASSUME TypeOK, IInv, NEW c \in Calls, NEW adjusted \in Adjustments,
         NEW collected \in Collections, SettleCommit(c, adjusted, collected)
  PROVE  TypeOK'
<1> DEFINE call == calls[c]
           d == call.driver
           id == Len(settlements) + 1
           lines == [cur \in Currencies |-> Line(call.swept, cur, call.brought[cur],
                                                 adjusted[cur], collected[cur])]
           row == [driver |-> d, status |-> "SETTLED",
                   periodStart |-> PeriodEnd(call.previous),
                   periodEnd |-> call.cutoff, lines |-> lines, expected |-> call.expected]
           stamped == UnsettledWhere(d, call.cutoff)
<1>1. call \in LockedCalls
  BY DEF TypeOK, CallRows, NoCall, PreviewCalls, ShownCalls, SettleCommit
<1>2. d \in Drivers /\ call.cutoff \in Times
  BY <1>1 DEF LockedCalls
<1>3. lines \in [Currencies -> LineRows]
  <2> SUFFICES ASSUME NEW cur \in Currencies
               PROVE  Line(call.swept, cur, call.brought[cur], adjusted[cur], collected[cur])
                        \in LineRows
    OBVIOUS
  <2>1. call.swept \in SUBSET Orders /\ call.brought[cur] \in Int
    BY <1>1 DEF LockedCalls
  <2>2. adjusted[cur] \in Int /\ collected[cur] \in Nat
    BY SettlementsAssumption
  <2> QED BY <2>1, <2>2, LineTyped
<1>4. row \in SettlementRows
  <2>1. PeriodEnd(call.previous) \in Times \cup {None}
    <3>1. call.previous \in DOMAIN settlements \cup {None}
      BY <1>2, BeforeIds DEF IInv, Shape, LockedInv, LockedCallInv, SettleCommit
    <3>2. ASSUME NEW i \in DOMAIN settlements PROVE settlements[i].periodEnd \in Times
      <4>1. settlements[i] \in SettlementRows
        BY DEF TypeOK
      <4> QED BY <4>1 DEF SettlementRows
    <3> QED BY <3>1, <3>2 DEF PeriodEnd
  <2>2. call.expected \in FigureRows
    BY <1>1 DEF LockedCalls
  <2> HIDE DEF lines
  <2> QED BY <1>2, <1>3, <2>1, <2>2 DEF SettlementRows
<1>5. calls' \in [Calls -> CallRows]
  BY DEF SettleCommit, End, TypeOK, CallRows
<1>6. CASE UNCHANGED <<settlements, orders, balances>>
  BY <1>5, <1>6 DEF SettleCommit, TypeOK
<1>7. CASE /\ settlements' = Append(settlements, row)
           /\ orders' = [o \in Orders |-> IF o \in stamped
                           THEN [orders[o] EXCEPT !.settlementId = id] ELSE orders[o]]
           /\ balances' = [balances EXCEPT ![d] = [cur \in Currencies |->
                IF HasLine(lines[cur]) THEN lines[cur].carriedForward ELSE @[cur]]]
  <2>1. id \in Ids /\ Len(settlements) \in Nat
    BY DEF SettleCommit, TypeOK
  <2>2. settlements' \in Seq(SettlementRows) /\ Len(settlements') <= MaxSettlements
    <3> HIDE DEF row
    <3>1. settlements' \in Seq(SettlementRows) /\ Len(settlements') = id
      BY <1>4, <1>7 DEF TypeOK
    <3> QED BY <2>1, <3>1, SettlementsAssumption DEF Ids
  <2>3. orders' \in [Orders -> OrderRows]
    <3> SUFFICES ASSUME NEW o \in Orders, o \in stamped
                 PROVE  [orders[o] EXCEPT !.settlementId = id] \in OrderRows
      BY <1>7 DEF TypeOK
    <3>1. orders[o] \in OrderRows \ {NotDelivered}
      BY DEF UnsettledWhere, Delivered, NotDelivered, TypeOK
    <3> QED BY <2>1, <3>1 DEF OrderRows
  <2>4. balances' \in [Drivers -> [Currencies -> Int]]
    <3>1. \A cur \in Currencies : lines[cur].carriedForward \in Int
      <4> HIDE DEF lines
      <4> QED BY <1>3 DEF LineRows
    <3>2. \A cur \in Currencies : balances[d][cur] \in Int
      BY <1>2 DEF TypeOK
    <3> HIDE DEF lines
    <3>3. [cur \in Currencies |-> IF HasLine(lines[cur]) THEN lines[cur].carriedForward
                                  ELSE balances[d][cur]] \in [Currencies -> Int]
      BY <3>1, <3>2
    <3> QED BY <1>2, <1>7, <3>3 DEF TypeOK
  <2> QED BY <1>5, <2>2, <2>3, <2>4 DEF SettleCommit, TypeOK
<1> QED BY <1>6, <1>7 DEF SettleCommit

\* ... and a void.
LEMMA VoidTyped ==
  ASSUME TypeOK, NEW i \in DOMAIN settlements, Void(i)
  PROVE  TypeOK'
<1> DEFINE d == settlements[i].driver
           lines == settlements[i].lines
<1>1. settlements[i] \in SettlementRows /\ i \in 1 .. Len(settlements)
  BY DEF TypeOK
<1>2. d \in Drivers /\ \A cur \in Currencies : lines[cur].broughtForward \in Int
  BY <1>1 DEF SettlementRows, LineRows
<1>3. settlements' \in Seq(SettlementRows) /\ Len(settlements') = Len(settlements)
  <2>1. [settlements[i] EXCEPT !.status = "VOIDED"] \in SettlementRows
    BY <1>1 DEF SettlementRows
  <2>2. settlements' = [settlements EXCEPT ![i] = [settlements[i] EXCEPT !.status = "VOIDED"]]
    BY DEF Void
  <2> QED BY <1>1, <2>1, <2>2 DEF TypeOK
<1>4. orders' \in [Orders -> OrderRows]
  <2> SUFFICES ASSUME NEW o \in Stamped(i)
               PROVE  [orders[o] EXCEPT !.settlementId = None] \in OrderRows
    BY DEF Void, TypeOK
  <2>1. o \in Orders /\ orders[o].settlementId = i /\ i # None
    BY <1>1, SettlementsAssumption DEF Stamped
  <2>2. orders[o] \in OrderRows \ {NotDelivered}
    BY <2>1 DEF NotDelivered, TypeOK
  <2> QED BY <2>2 DEF OrderRows
<1>5. balances' \in [Drivers -> [Currencies -> Int]]
  <2>1. \A cur \in Currencies : balances[d][cur] \in Int
    BY <1>2 DEF TypeOK
  <2>2. [cur \in Currencies |-> IF HasLine(lines[cur]) THEN lines[cur].broughtForward
                                ELSE balances[d][cur]] \in [Currencies -> Int]
    BY <1>2, <2>1
  <2>3. balances' = [balances EXCEPT ![d] = [cur \in Currencies |->
          IF HasLine(lines[cur]) THEN lines[cur].broughtForward ELSE balances[d][cur]]]
    BY DEF Void
  <2> QED BY <1>2, <2>2, <2>3 DEF TypeOK
<1> QED BY <1>3, <1>4, <1>5 DEF Void, TypeOK

\* Tables, dialogs and transactions keep their types: every sum of
\* commissions is a natural number and every balance an integer.
THEOREM TypesHold == Spec => []TypeOK
<1>1. IInv /\ TypeOK /\ [Next]_vars => TypeOK'
  <2> SUFFICES ASSUME IInv, TypeOK, [Next]_vars PROVE TypeOK'
    OBVIOUS
  <2>1. CASE UNCHANGED vars
    BY <2>1 DEF vars, TypeOK
  <2> QED BY <2>1, WorkTyped, DialogsTyped, SettleTyped, VoidTyped DEF Next
<1> QED BY <1>1, Invariance, InitTypeOK, PTL DEF Spec

-----------------------------------------------------------------------------
(* The money adds up.  Each line says what it carries forward; a chain of  *)
(* lines that bring forward what the one before carried telescopes to the  *)
(* balance; and the stamped orders are, settlement by settlement, the work *)
(* the lines bill.                                                         *)

\* What a line carries forward is the rest of what it says is due.
LinesAddUp ==
  \A i \in DOMAIN settlements : \A cur \in Currencies :
    LET line == settlements[i].lines[cur] IN
    line.carriedForward =
      line.commissionDue + line.adjustmentsTotal + line.broughtForward - line.amountCollected

\* ComputedLine says so, and no step edits a line.
LEMMA LinesStayTrue == ASSUME IInv, LinesAddUp, [Next]_vars PROVE LinesAddUp'
<1>1. CASE settlements' = settlements
  BY <1>1 DEF LinesAddUp
<1>2. ASSUME NEW row, settlements' = Append(settlements, row),
             \A cur \in Currencies : \E S, brought, a, k :
               row.lines[cur] = Line(S, cur, brought, a, k)
      PROVE  LinesAddUp'
  <2>1. \A cur \in Currencies :
          row.lines[cur].carriedForward = row.lines[cur].commissionDue
            + row.lines[cur].adjustmentsTotal + row.lines[cur].broughtForward
            - row.lines[cur].amountCollected
    BY <1>2, LineFields
  <2>2. PICK L, E : settlements \in Seq(SettlementShape(L, E))
    BY DEF IInv, Shape, TablesShape
  <2>3. /\ Len(settlements) \in Nat /\ DOMAIN settlements = 1 .. Len(settlements)
        /\ DOMAIN settlements' = 1 .. Len(settlements) + 1
        /\ \A i \in DOMAIN settlements : settlements'[i] = settlements[i]
        /\ settlements'[Len(settlements) + 1] = row
    BY <1>2, <2>2
  <2>4. ASSUME NEW i \in DOMAIN settlements' PROVE i \in DOMAIN settlements \/ settlements'[i] = row
    BY <2>3
  <2> QED BY <2>1, <2>3, <2>4 DEF LinesAddUp
<1>3. ASSUME NEW i \in DOMAIN settlements, Void(i) PROVE LinesAddUp'
  <2>1. PICK L, E : settlements \in Seq(SettlementShape(L, E))
    BY DEF IInv, Shape, TablesShape
  <2>2. \A j \in DOMAIN settlements : settlements[j] \in SettlementShape(L, E)
    BY <2>1
  <2>3. settlements' = [settlements EXCEPT ![i] = [settlements[i] EXCEPT !.status = "VOIDED"]]
    BY <1>3 DEF Void
  <2>4. /\ DOMAIN settlements' = DOMAIN settlements
        /\ \A j \in DOMAIN settlements : settlements'[j].lines = settlements[j].lines
    BY <2>2, <2>3 DEF SettlementShape
  <2> QED BY <2>4 DEF LinesAddUp
<1>4. ASSUME NEW c \in Calls, NEW a, NEW k, SettleCommit(c, a, k)
      PROVE  \/ settlements' = settlements
             \/ \E row : /\ settlements' = Append(settlements, row)
                         /\ \A cur \in Currencies : \E S, brought, x, y :
                              row.lines[cur] = Line(S, cur, brought, x, y)
  BY <1>4 DEF SettleCommit
<1>5. ASSUME NEW c \in Calls, NEW d, NEW cutoff,
             PreviewSweep(c, d, cutoff) \/ PreviewBalances(c) \/ SettleSweep(c) \/ Abort(c)
      PROVE  settlements' = settlements
  BY <1>5 DEF PreviewSweep, PreviewBalances, SettleSweep, Abort
<1>6. ASSUME NEW o, NEW d, NEW cur, NEW commission,
             Tick \/ DeliverStamp(o) \/ DeliverCommit(o, d, cur, commission)
      PROVE  settlements' = settlements
  BY <1>6 DEF Tick, DeliverStamp, DeliverCommit
<1>7. CASE UNCHANGED vars
  BY <1>1, <1>7 DEF vars
<1>8. CASE Next
  BY <1>1, <1>2, <1>3, <1>4, <1>5, <1>6, <1>8 DEF Next
<1> QED BY <1>7, <1>8

\* What the orders table says of each order's commission.
Commission == [o \in Orders |-> orders[o].commission]

LEMMA DueIsSum ==
  ASSUME orders \in [Orders -> OrderRows], NEW S \in SUBSET Orders, NEW cur
  PROVE  CommissionDue(S, cur) = Sum(Commission, InCurrency(S, cur))
<1> DEFINE G == InCurrency(S, cur)
           fun == [o \in G |-> orders[o].commission]
<1>1. G \in SUBSET Orders /\ IsFiniteSet(G)
  <2>1. G \in SUBSET Orders
    BY DEF InCurrency
  <2> QED BY <2>1, SettlementsAssumption, FS_Subset
<1>2. SumFunction(fun) = Sum(fun, G)
  <2>1. DOMAIN fun = G
    OBVIOUS
  <2> QED BY <2>1, SumFunctionIsSum
<1>3. Sum(fun, G) = Sum(Commission, G)
  <2>1. \A o \in G : fun[o] = Commission[o]
    BY <1>1 DEF Commission
  <2> HIDE DEF fun, G
  <2> QED BY <1>1, <2>1, SumCongruence
<1>4. G = {} => Sum(Commission, G) = 0
  <2> HIDE DEF G
  <2> QED BY SumOfNone
<1> QED BY <1>2, <1>3, <1>4 DEF CommissionDue

\* Work in two parts is due part by part.
LEMMA DueOfUnion ==
  ASSUME orders \in [Orders -> OrderRows], NEW A \in SUBSET Orders, NEW B \in SUBSET Orders,
         A \cap B = {}, NEW cur
  PROVE  CommissionDue(A \cup B, cur) = CommissionDue(A, cur) + CommissionDue(B, cur)
<1>1. /\ InCurrency(A \cup B, cur) = InCurrency(A, cur) \cup InCurrency(B, cur)
      /\ InCurrency(A, cur) \cap InCurrency(B, cur) = {}
      /\ InCurrency(A, cur) \in SUBSET Orders /\ InCurrency(B, cur) \in SUBSET Orders
  BY DEF InCurrency
<1>2. \A o \in Orders : Commission[o] \in Int
  BY CommissionIsNat DEF Commission
<1>3. Sum(Commission, InCurrency(A, cur) \cup InCurrency(B, cur)) =
        Sum(Commission, InCurrency(A, cur)) + Sum(Commission, InCurrency(B, cur))
  BY <1>1, <1>2, SettlementsAssumption, SumOfUnion
<1>4. /\ CommissionDue(A, cur) = Sum(Commission, InCurrency(A, cur))
      /\ CommissionDue(B, cur) = Sum(Commission, InCurrency(B, cur))
      /\ CommissionDue(A \cup B, cur) = Sum(Commission, InCurrency(A \cup B, cur))
  BY DueIsSum
<1> QED BY <1>1, <1>3, <1>4

\* A driver's settlements that stand, up to the n-th of all, and their last.
UpTo(d, n) == {j \in Settled(d) : j <= n}
LastOf(S) == IF S = {} THEN None ELSE Max(S)

LEMMA UpToGrows ==
  ASSUME TablesShape, NEW d \in Drivers
  PROVE  /\ UpTo(d, 0) = {} /\ UpTo(d, Len(settlements)) = Settled(d)
         /\ \A n \in 0 .. Len(settlements) - 1 :
              UpTo(d, n + 1) = IF n + 1 \in Settled(d) THEN UpTo(d, n) \cup {n + 1} ELSE UpTo(d, n)
<1>1. /\ Len(settlements) \in Nat
      /\ \A j \in Settled(d) : j \in Nat /\ 1 <= j /\ j <= Len(settlements)
  BY SettlementIds
<1>2. UpTo(d, 0) = {} /\ UpTo(d, Len(settlements)) = Settled(d)
  <2>1. \A j \in Settled(d) : ~(j <= 0) /\ j <= Len(settlements)
    BY <1>1
  <2> QED BY <2>1 DEF UpTo
<1>3. ASSUME NEW n \in 0 .. Len(settlements) - 1
      PROVE  UpTo(d, n + 1) = IF n + 1 \in Settled(d) THEN UpTo(d, n) \cup {n + 1} ELSE UpTo(d, n)
  <2>1. \A j \in Settled(d) : j <= n + 1 <=> j <= n \/ j = n + 1
    BY <1>1
  <2> QED BY <2>1 DEF UpTo
<1> QED BY <1>2, <1>3

\* Each step of a chain carries forward what it adds to what it brought.
LEMMA ChainTelescopes ==
  ASSUME IInv, TypeOK, NEW d \in Drivers, NEW cur \in Currencies, NEW fun,
         \A i \in Settled(d) :
           fun[i] = settlements[i].lines[cur].carriedForward
                      - settlements[i].lines[cur].broughtForward
  PROVE  Sum(fun, Settled(d)) = balances[d][cur]
<1> DEFINE total == [n \in 0 .. Len(settlements) |-> CarriedForward(LastOf(UpTo(d, n)), cur)]
<1>1. /\ Len(settlements) \in Nat /\ Settled(d) \in SUBSET (1 .. Len(settlements))
      /\ Settled(d) \subseteq DOMAIN settlements
  BY SettlementIds DEF IInv, Shape
<1>2. \A i \in Settled(d) : /\ settlements[i].lines[cur].carriedForward \in Int
                            /\ settlements[i].lines[cur].broughtForward \in Int
                            /\ settlements[i].driver = d
  <2>1. \A i \in DOMAIN settlements : settlements[i] \in SettlementRows
    BY DEF TypeOK
  <2>2. \A i \in DOMAIN settlements : settlements[i].lines[cur] \in LineRows
    BY <2>1 DEF SettlementRows
  <2> QED BY <1>1, <2>2 DEF LineRows, Settled
<1>3. \A i \in Settled(d) : fun[i] \in Int
  BY <1>2
<1>4. UpTo(d, 0) = {} /\ UpTo(d, Len(settlements)) = Settled(d)
  BY UpToGrows DEF IInv, Shape
<1>5. total[0] = 0
  <2>1. total[0] = CarriedForward(LastOf(UpTo(d, 0)), cur)
    BY <1>1
  <2> QED BY <1>4, <2>1 DEF LastOf, CarriedForward
<1>6. ASSUME NEW n \in 0 .. Len(settlements) - 1
      PROVE  total[n + 1] = IF n + 1 \in Settled(d) THEN fun[n + 1] + total[n] ELSE total[n]
  <2>1. /\ total[n] = CarriedForward(LastOf(UpTo(d, n)), cur)
        /\ total[n + 1] = CarriedForward(LastOf(UpTo(d, n + 1)), cur)
    BY <1>1
  <2>2. UpTo(d, n + 1) = IF n + 1 \in Settled(d) THEN UpTo(d, n) \cup {n + 1} ELSE UpTo(d, n)
    BY UpToGrows DEF IInv, Shape
  <2>3. CASE n + 1 \in Settled(d)
    <3>1. LastOf(UpTo(d, n + 1)) = n + 1
      <4>1. UpTo(d, n + 1) \in SUBSET Nat /\ n + 1 \in UpTo(d, n + 1)
        BY <1>1, <2>2, <2>3 DEF UpTo
      <4>2. \A j \in UpTo(d, n + 1) : n + 1 >= j
        BY <1>1 DEF UpTo
      <4> QED BY <4>1, <4>2, MaxUnique DEF LastOf
    <3>2. Before(n + 1) = LastOf(UpTo(d, n))
      <4>1. UpTo(d, n) = {j \in Settled(d) : j < n + 1}
        BY <1>1 DEF UpTo
      <4> QED BY <1>2, <2>3, <4>1 DEF Before, LastOf
    <3>3. settlements[n + 1].lines[cur].broughtForward = CarriedForward(Before(n + 1), cur)
      BY <2>3 DEF IInv, BalanceIsChainEnd
    <3>4. CarriedForward(n + 1, cur) = settlements[n + 1].lines[cur].carriedForward
      <4>1. n + 1 # None
        BY SettlementsAssumption
      <4> QED BY <4>1 DEF CarriedForward
    <3>5. total[n + 1] = fun[n + 1] + total[n]
      BY <1>2, <2>1, <2>3, <3>1, <3>2, <3>3, <3>4
    <3> QED BY <2>3, <3>5
  <2>4. CASE n + 1 \notin Settled(d)
    BY <2>1, <2>2, <2>4
  <2> QED BY <2>3, <2>4
<1>7. total[Len(settlements)] = balances[d][cur]
  <2>1. total[Len(settlements)] = CarriedForward(LastOf(Settled(d)), cur)
    BY <1>1, <1>4
  <2>2. LastOf(Settled(d)) = PreviousSettlement(d)
    BY DEF LastOf, PreviousSettlement
  <2> QED BY <2>1, <2>2 DEF IInv, BalanceIsChainEnd
<1>8. Sum(fun, Settled(d)) = total[Len(settlements)]
  <2> HIDE DEF total
  <2> QED BY ONLY <1>1, <1>3, <1>5, <1>6, SumOfSteps
<1> QED BY <1>7, <1>8

\* The orders that settlements have stamped are the work their lines bill.
LEMMA StampedWorkIsBilled ==
  ASSUME IInv, TypeOK, NEW d \in Drivers, NEW cur \in Currencies, NEW fun,
         \A i \in Settled(d) : fun[i] = settlements[i].lines[cur].commissionDue
  PROVE  Sum(fun, Settled(d)) =
           CommissionDue({o \in Orders : orders[o].settlementId \in Settled(d)}, cur)
<1> DEFINE Swept(n) == {o \in Orders : orders[o].settlementId \in UpTo(d, n)}
           total == [n \in 0 .. Len(settlements) |-> CommissionDue(Swept(n), cur)]
<1>1. /\ Len(settlements) \in Nat /\ Settled(d) \in SUBSET (1 .. Len(settlements))
      /\ Settled(d) \subseteq DOMAIN settlements
  BY SettlementIds DEF IInv, Shape
<1>2. \A i \in Settled(d) : fun[i] = CommissionDue(Stamped(i), cur)
  BY <1>1 DEF IInv, StampedMatchesLines, Settled
<1>3. \A n : Swept(n) \in SUBSET Orders /\ \A i : Stamped(i) \in SUBSET Orders
  BY DEF Stamped
<1>4. \A i \in Settled(d) : fun[i] \in Int
  <2>1. \A S \in SUBSET Orders : CommissionDue(S, cur) \in Nat
    BY GroupTyped DEF TypeOK
  <2> HIDE DEF Swept
  <2> QED BY <1>2, <1>3, <2>1
<1>5. UpTo(d, 0) = {} /\ UpTo(d, Len(settlements)) = Settled(d)
  BY UpToGrows DEF IInv, Shape
<1>6. total[0] = 0
  <2>1. total[0] = CommissionDue(Swept(0), cur) /\ Swept(0) = {}
    BY <1>1, <1>5
  <2>2. CommissionDue({}, cur) = 0
    BY DEF CommissionDue, InCurrency
  <2> QED BY <2>1, <2>2
<1>7. ASSUME NEW n \in 0 .. Len(settlements) - 1
      PROVE  total[n + 1] = IF n + 1 \in Settled(d) THEN fun[n + 1] + total[n] ELSE total[n]
  <2>1. total[n] = CommissionDue(Swept(n), cur) /\ total[n + 1] = CommissionDue(Swept(n + 1), cur)
    BY <1>1
  <2>2. UpTo(d, n + 1) = IF n + 1 \in Settled(d) THEN UpTo(d, n) \cup {n + 1} ELSE UpTo(d, n)
    BY UpToGrows DEF IInv, Shape
  <2>3. CASE n + 1 \in Settled(d)
    <3>1. Swept(n + 1) = Stamped(n + 1) \cup Swept(n)
      BY <2>2, <2>3 DEF Stamped
    <3>2. Stamped(n + 1) \cap Swept(n) = {}
      <4>1. n + 1 \notin UpTo(d, n)
        BY <1>1 DEF UpTo
      <4> QED BY <4>1 DEF Stamped
    <3>3. CommissionDue(Stamped(n + 1) \cup Swept(n), cur) =
            CommissionDue(Stamped(n + 1), cur) + CommissionDue(Swept(n), cur)
      <4>1. /\ Stamped(n + 1) \in SUBSET Orders /\ Swept(n) \in SUBSET Orders
            /\ orders \in [Orders -> OrderRows]
        BY <1>3 DEF TypeOK
      <4> HIDE DEF Swept
      <4> QED BY ONLY <3>2, <4>1, DueOfUnion
    <3>4. fun[n + 1] = CommissionDue(Stamped(n + 1), cur)
      BY <1>2, <2>3
    <3> HIDE DEF Swept, total
    <3> QED BY <2>1, <2>3, <3>1, <3>3, <3>4
  <2>4. CASE n + 1 \notin Settled(d)
    <3>1. Swept(n + 1) = Swept(n)
      BY <2>2, <2>4
    <3> HIDE DEF Swept, total
    <3> QED BY <2>1, <2>4, <3>1
  <2> QED BY <2>3, <2>4
<1>8. total[Len(settlements)] =
        CommissionDue({o \in Orders : orders[o].settlementId \in Settled(d)}, cur)
  BY <1>1, <1>5
<1>9. Sum(fun, Settled(d)) = total[Len(settlements)]
  <2> HIDE DEF total, Swept
  <2> QED BY ONLY <1>1, <1>4, <1>6, <1>7, SumOfSteps
<1> QED BY <1>8, <1>9

\* What a driver delivered is stamped with a settlement that stands, or unsettled.
LEMMA DeliveredIsStampedOrUnsettled ==
  ASSUME IInv, TypeOK, NEW d \in Drivers
  PROVE  LET stamped == {o \in Orders : orders[o].settlementId \in Settled(d)} IN
         /\ DeliveredBy(d) = stamped \cup UnsettledWhere(d, MaxTime)
         /\ stamped \cap UnsettledWhere(d, MaxTime) = {}
<1> DEFINE stamped == {o \in Orders : orders[o].settlementId \in Settled(d)}
<1>1. /\ DOMAIN settlements \subseteq Nat /\ Settled(d) \subseteq DOMAIN settlements
      /\ None \notin Nat
  BY SettlementIds, SettlementsAssumption DEF IInv, Shape, Ids
<1>2. ASSUME NEW o \in Orders, o \in DeliveredBy(d)
      PROVE  o \in stamped \cup UnsettledWhere(d, MaxTime)
  <2>1. CASE orders[o].settlementId = None
    <3>1. orders[o] \in OrderRows /\ orders[o] # NotDelivered
      BY <1>2 DEF TypeOK, DeliveredBy, Delivered, NotDelivered
    <3>2. orders[o].deliveredAt \in Times
      BY <3>1 DEF OrderRows
    <3>3. orders[o].deliveredAt <= MaxTime
      BY <3>2, SettlementsAssumption DEF Times
    <3> QED BY <1>2, <2>1, <3>3 DEF DeliveredBy, UnsettledWhere
  <2>2. CASE orders[o].settlementId # None
    <3>1. orders[o].settlementId \in DOMAIN settlements
      BY <2>2 DEF IInv, StampsInv
    <3>2. PICK i \in DOMAIN settlements : i = orders[o].settlementId
      BY <3>1
    <3>3. o \in Stamped(i)
      BY <3>2 DEF Stamped
    <3>4. settlements[i].status # "VOIDED" /\ orders[o].driver = settlements[i].driver
      BY <3>3 DEF IInv, StampedMatchesLines
    <3>5. settlements[i].status = "SETTLED"
      <4>1. settlements[i] \in SettlementRows
        BY DEF TypeOK
      <4> QED BY <3>4, <4>1 DEF SettlementRows
    <3> QED BY <1>2, <3>2, <3>4, <3>5 DEF DeliveredBy, Settled
  <2> QED BY <2>1, <2>2
<1>3. ASSUME NEW o \in stamped PROVE o \in DeliveredBy(d)
  <2>1. PICK i \in Settled(d) : orders[o].settlementId = i
    BY <1>3
  <2>2. o \in Stamped(i) /\ orders[o].settlementId # None
    BY <1>1, <2>1 DEF Stamped
  <2>3. orders[o].driver = settlements[i].driver /\ settlements[i].driver = d
    BY <1>1, <2>1, <2>2 DEF IInv, StampedMatchesLines, Settled
  <2>4. Delivered(o)
    BY <2>2, StampedDelivered DEF IInv, Shape
  <2> QED BY <2>3, <2>4 DEF DeliveredBy
<1>4. UnsettledWhere(d, MaxTime) \subseteq DeliveredBy(d)
  BY DEF UnsettledWhere, DeliveredBy
<1>5. stamped \cap UnsettledWhere(d, MaxTime) = {}
  BY <1>1 DEF UnsettledWhere
<1> QED BY <1>2, <1>3, <1>4, <1>5 DEF DeliveredBy

\* The invariants of a state in which nothing is lost.
LEMMA NothingIsLost == ASSUME IInv, TypeOK, LinesAddUp PROVE CommissionsAddUp
<1> SUFFICES ASSUME NEW d \in Drivers, NEW cur \in Currencies
             PROVE  CommissionDue(DeliveredBy(d), cur) + Adjusted(d, cur) =
                      HandedOver(d, cur) + balances[d][cur]
                        + CommissionDue(UnsettledWhere(d, MaxTime), cur)
  BY DEF CommissionsAddUp
<1> DEFINE S == Settled(d)
           stamped == {o \in Orders : orders[o].settlementId \in S}
           due == [i \in S |-> settlements[i].lines[cur].commissionDue]
           adjusted == [i \in S |-> settlements[i].lines[cur].adjustmentsTotal]
           collected == [i \in S |-> settlements[i].lines[cur].amountCollected]
           added == [i \in S |-> settlements[i].lines[cur].carriedForward
                                   - settlements[i].lines[cur].broughtForward]
<1>1. IsFiniteSet(S) /\ S \subseteq DOMAIN settlements
  <2>1. /\ Len(settlements) \in Nat /\ DOMAIN settlements = 1 .. Len(settlements)
        /\ S \subseteq DOMAIN settlements
    BY SettlementIds DEF IInv, Shape
  <2>2. IsFiniteSet(1 .. Len(settlements))
    BY <2>1, FS_Interval
  <2> HIDE DEF S
  <2> QED BY ONLY <2>1, <2>2, FS_Subset
<1>2. ASSUME NEW i \in S
      PROVE  /\ due[i] \in Int /\ adjusted[i] \in Int /\ collected[i] \in Int /\ added[i] \in Int
             /\ due[i] + adjusted[i] = collected[i] + added[i]
  <2>1. settlements[i].lines[cur] \in LineRows
    <3>1. settlements[i] \in SettlementRows
      BY <1>1 DEF TypeOK
    <3> QED BY <3>1 DEF SettlementRows
  <2>2. LET line == settlements[i].lines[cur] IN
        line.carriedForward =
          line.commissionDue + line.adjustmentsTotal + line.broughtForward - line.amountCollected
    BY <1>1 DEF LinesAddUp
  <2> QED BY <2>1, <2>2 DEF LineRows
<1>3. Sum(due, S) + Sum(adjusted, S) = Sum(collected, S) + Sum(added, S)
  <2> HIDE DEF S, due, adjusted, collected, added
  <2> QED BY <1>1, <1>2, SumsBalance
<1>4. Sum(added, S) = balances[d][cur]
  <2>1. \A i \in S : added[i] = settlements[i].lines[cur].carriedForward
                                  - settlements[i].lines[cur].broughtForward
    OBVIOUS
  <2> HIDE DEF added
  <2> QED BY <2>1, ChainTelescopes
<1>5. Sum(due, S) = CommissionDue(stamped, cur)
  <2>1. \A i \in S : due[i] = settlements[i].lines[cur].commissionDue
    OBVIOUS
  <2> HIDE DEF due
  <2> QED BY <2>1, StampedWorkIsBilled
<1>6. CommissionDue(DeliveredBy(d), cur) =
        CommissionDue(stamped, cur) + CommissionDue(UnsettledWhere(d, MaxTime), cur)
  <2>1. stamped \in SUBSET Orders /\ UnsettledWhere(d, MaxTime) \in SUBSET Orders
    BY DEF UnsettledWhere
  <2>2. /\ DeliveredBy(d) = stamped \cup UnsettledWhere(d, MaxTime)
        /\ stamped \cap UnsettledWhere(d, MaxTime) = {}
    BY DeliveredIsStampedOrUnsettled
  <2>3. orders \in [Orders -> OrderRows]
    BY DEF TypeOK
  <2> HIDE DEF stamped
  <2> QED BY ONLY <2>1, <2>2, <2>3, DueOfUnion
<1>7. HandedOver(d, cur) = Sum(collected, S) /\ Adjusted(d, cur) = Sum(adjusted, S)
  <2>1. DOMAIN collected = S /\ DOMAIN adjusted = S
    OBVIOUS
  <2> QED BY <2>1, SumFunctionIsSum DEF HandedOver, Adjusted
<1>8. /\ Sum(due, S) \in Int /\ Sum(adjusted, S) \in Int /\ Sum(collected, S) \in Int
      /\ CommissionDue(UnsettledWhere(d, MaxTime), cur) \in Int /\ balances[d][cur] \in Int
  <2>1. /\ Sum(due, S) \in Int /\ Sum(adjusted, S) \in Int /\ Sum(collected, S) \in Int
    <3> HIDE DEF S, due, adjusted, collected, added
    <3> QED BY <1>1, <1>2, SumTyped
  <2>2. CommissionDue(UnsettledWhere(d, MaxTime), cur) \in Nat
    <3>1. UnsettledWhere(d, MaxTime) \in SUBSET Orders
      BY DEF UnsettledWhere
    <3> QED BY <3>1, GroupTyped DEF TypeOK
  <2>3. balances[d][cur] \in Int
    BY DEF TypeOK
  <2> QED BY <2>1, <2>2, <2>3
<1> HIDE DEF S, stamped, due, adjusted, collected, added
<1> QED BY ONLY <1>3, <1>4, <1>5, <1>6, <1>7, <1>8

\* The commission of all that a driver delivered, adjusted, is what he handed
\* over, what he carries and what nobody collected yet, to the last unit,
\* however previews, deliveries, settles and voids interleave.
THEOREM NoMoneyIsLost == Spec => []CommissionsAddUp
<1>1. Init => LinesAddUp
  BY DEF Init, LinesAddUp
<1>2. IInv /\ LinesAddUp /\ [Next]_vars => LinesAddUp'
  BY LinesStayTrue
<1>3. IInv /\ TypeOK /\ LinesAddUp => CommissionsAddUp
  BY NothingIsLost
<1> QED BY <1>1, <1>2, <1>3, Invariance, TypesHold, PTL DEF Spec

-----------------------------------------------------------------------------
(* A driver's settlements that stand, in their order, as a sequence.        *)

\* How many members of a finite set of numbers are at most i.
Rank(S, i) == Cardinality({j \in S : j <= i})

\* Ranks run from 1 to the number of members, and tell members apart.
LEMMA RankOrders ==
  ASSUME NEW S \in SUBSET Nat, IsFiniteSet(S)
  PROVE  /\ \A i \in S : Rank(S, i) \in 1 .. Cardinality(S)
         /\ \A i, j \in S : Rank(S, i) = Rank(S, j) => i = j
<1> DEFINE upto(i) == {j \in S : j <= i}
<1>1. \A i : upto(i) \in SUBSET S /\ IsFiniteSet(upto(i))
  BY FS_Subset
<1>2. \A i : /\ Cardinality(upto(i)) \in Nat /\ Cardinality(S) \in Nat
             /\ Cardinality(upto(i)) <= Cardinality(S)
             /\ Cardinality(upto(i)) = 0 => upto(i) = {}
  BY <1>1, FS_Subset, FS_CardinalityType, FS_EmptySet
<1>3. \A i \in S : i \in upto(i)
  OBVIOUS
<1>4. ASSUME NEW i \in S, NEW j \in S, i < j
      PROVE  Cardinality(upto(i)) < Cardinality(upto(j))
  <2>0. i \in Nat /\ j \in Nat /\ \A l \in S : l \in Nat
    OBVIOUS
  <2>1. upto(i) \subseteq upto(j) /\ j \in upto(j) /\ j \notin upto(i)
    <3>1. ~(j <= i) /\ j <= j
      BY <1>4, <2>0
    <3>2. \A l \in S : l <= i => l <= j
      BY <1>4, <2>0
    <3> QED BY <3>1, <3>2
  <2>2. upto(i) # upto(j)
    BY <2>1
  <2>3. Cardinality(upto(i)) <= Cardinality(upto(j))
          /\ Cardinality(upto(i)) # Cardinality(upto(j))
    <3> HIDE DEF upto
    <3> QED BY <1>1, <2>1, <2>2, FS_Subset
  <2> QED BY <1>2, <2>3
<1>5. ASSUME NEW i \in S PROVE Rank(S, i) \in 1 .. Cardinality(S)
  <2>1. Cardinality(upto(i)) # 0
    BY <1>2, <1>3
  <2> QED BY <1>2, <2>1 DEF Rank
<1>6. ASSUME NEW i \in S, NEW j \in S, Rank(S, i) = Rank(S, j) PROVE i = j
  <2>1. ~(i < j) /\ ~(j < i)
    BY <1>2, <1>4, <1>6 DEF Rank
  <2> QED BY <2>1
<1> QED BY <1>5, <1>6

\* There is a k-th member for each k up to the number of members.
LEMMA NthIsMember ==
  ASSUME NEW S \in SUBSET Nat, IsFiniteSet(S), NEW k \in 1 .. Cardinality(S)
  PROVE  Nth(S, k) \in S
<1> DEFINE n == Cardinality(S)
           rank == [i \in S |-> Rank(S, i)]
<1>1. n \in Nat /\ IsFiniteSet(1 .. n) /\ Cardinality(1 .. n) = n
  BY FS_CardinalityType, FS_Interval
<1>2. rank \in Injection(S, 1 .. n)
  BY RankOrders DEF Injection, IsInjective
<1>3. rank \in Surjection(S, 1 .. n)
  <2> HIDE DEF rank
  <2> QED BY <1>1, <1>2, FS_Injection
<1>4. PICK i \in S : rank[i] = k
  BY <1>3 DEF Surjection
<1> QED BY <1>4 DEF Nth, Rank

\* A number greater than all others comes after them.
LEMMA NthExtends ==
  ASSUME NEW S \in SUBSET Nat, IsFiniteSet(S), NEW m \in Nat, \A j \in S : j < m
  PROVE  LET T == S \cup {m} IN
         /\ Cardinality(S) \in Nat /\ Cardinality(T) = Cardinality(S) + 1
         /\ \A k \in 1 .. Cardinality(S) : Nth(T, k) = Nth(S, k)
         /\ Nth(T, Cardinality(S) + 1) = m
<1> DEFINE T == S \cup {m}
<1>1. /\ m \notin S /\ Cardinality(S) \in Nat /\ Cardinality(T) = Cardinality(S) + 1
      /\ T \in SUBSET Nat /\ IsFiniteSet(T)
  <2>1. m \notin S
    OBVIOUS
  <2> QED BY <2>1, FS_AddElement, FS_CardinalityType
<1>2. {j \in T : j <= m} = T /\ \A i \in S : {j \in T : j <= i} = {j \in S : j <= i}
  <2>1. \A i \in S : i \in Nat /\ i < m /\ ~(m <= i)
    OBVIOUS
  <2>2. m <= m
    OBVIOUS
  <2>3. {j \in T : j <= m} = T
    <3>1. \A j \in T : j <= m
      BY <2>1, <2>2
    <3> QED BY <3>1
  <2>4. ASSUME NEW i \in S PROVE {j \in T : j <= i} = {j \in S : j <= i}
    BY <2>1
  <2> QED BY <2>3, <2>4
<1>3. Rank(T, m) = Cardinality(S) + 1
  BY <1>1, <1>2 DEF Rank
<1>4. ASSUME NEW k \in 1 .. Cardinality(S) PROVE Nth(T, k) = Nth(S, k)
  <2>1. \A i : i \in T /\ Rank(T, i) = k <=> i \in S /\ Rank(S, i) = k
    <3>1. Rank(T, m) # k
      BY <1>1, <1>3
    <3>2. \A i \in S : Rank(T, i) = Rank(S, i)
      BY <1>2 DEF Rank
    <3> QED BY <3>1, <3>2
  <2>2. Nth(T, k) = (CHOOSE i : i \in T /\ Rank(T, i) = k)
        /\ Nth(S, k) = (CHOOSE i : i \in S /\ Rank(S, i) = k)
    BY DEF Nth, Rank
  <2> QED BY <2>1, <2>2
<1>5. Nth(T, Cardinality(S) + 1) = m
  <2>1. Nth(T, Cardinality(S) + 1) \in T /\ Rank(T, Nth(T, Cardinality(S) + 1)) = Cardinality(S) + 1
    <3>1. \E i \in T : Rank(T, i) = Cardinality(S) + 1
      BY <1>3
    <3> QED BY <3>1 DEF Nth, Rank
  <2>2. m \in T
    OBVIOUS
  <2> HIDE DEF T
  <2>3. \A i, j \in T : Rank(T, i) = Rank(T, j) => i = j
    BY <1>1, RankOrders
  <2> QED BY <1>3, <2>1, <2>2, <2>3
<1> QED BY <1>1, <1>4, <1>5

\* Of two sequences of which one says what the other does and one thing more.
LEMMA OneMore ==
  ASSUME NEW X, NEW n \in Nat, NEW a \in [1 .. n -> X], NEW b \in [1 .. n + 1 -> X],
         \A k \in 1 .. n : b[k] = a[k]
  PROVE  /\ b = Append(a, b[n + 1])
         /\ b # <<>> /\ a = SubSeq(b, 1, Len(b) - 1) /\ b[Len(b)] = b[n + 1]
         /\ (a = <<>> <=> n = 0) /\ (n # 0 => a[Len(a)] = a[n])
<1>1. a \in Seq(X) /\ b \in Seq(X) /\ Len(a) = n /\ Len(b) = n + 1 /\ b[n + 1] \in X
  OBVIOUS
<1>2. b = Append(a, b[n + 1])
  <2>1. /\ Append(a, b[n + 1]) \in Seq(X) /\ Len(Append(a, b[n + 1])) = n + 1
        /\ \A k \in 1 .. n : Append(a, b[n + 1])[k] = a[k]
        /\ Append(a, b[n + 1])[n + 1] = b[n + 1]
    BY <1>1, AppendProperties
  <2>2. \A k \in 1 .. n + 1 : k \in 1 .. n \/ k = n + 1
    OBVIOUS
  <2>3. \A k \in 1 .. n + 1 : b[k] = Append(a, b[n + 1])[k]
    BY <2>1, <2>2
  <2> QED BY <1>1, <2>1, <2>3, SeqEqual
<1>3. b # <<>> /\ b[Len(b)] = b[n + 1]
  BY <1>1
<1>4. a = SubSeq(b, 1, Len(b) - 1)
  <2>1. Len(b) - 1 = n
    BY <1>1
  <2>2. n \in 0 .. Len(b)
    BY <1>1
  <2>3. SubSeq(b, 1, n) = Restrict(b, 1 .. n)
    BY <1>1, <2>2, SubSeqRestrict
  <2>4. Restrict(b, 1 .. n) = a
    BY Zenon DEF Restrict
  <2> QED BY <2>1, <2>3, <2>4
<1>5. (a = <<>> <=> n = 0) /\ (n # 0 => a[Len(a)] = a[n])
  BY <1>1
<1> QED BY <1>2, <1>3, <1>4, <1>5

\* The greatest member is the last.
LEMMA LastIsMax ==
  ASSUME NEW S \in SUBSET Nat, IsFiniteSet(S), S # {}, HasMax(S)
  PROVE  Cardinality(S) \in Nat \ {0} /\ Nth(S, Cardinality(S)) = Max(S)
<1> DEFINE m == Max(S)
           R == S \ {m}
<1>1. m \in S /\ \A j \in S : m >= j
  BY MaxIsLast
<1>2. m \in Nat /\ (\A j \in S : j \in Nat)
  BY <1>1
<1>3. R \in SUBSET Nat /\ IsFiniteSet(R) /\ (\A j \in R : j < m) /\ S = R \cup {m}
  <2>1. R \in SUBSET S /\ S = R \cup {m}
    BY <1>1
  <2>2. \A j \in R : j < m
    BY <1>1, <1>2
  <2> QED BY <2>1, <2>2, FS_Subset
<1> HIDE DEF R, m
<1>4. /\ Cardinality(R) \in Nat /\ Cardinality(S) = Cardinality(R) + 1
      /\ Nth(S, Cardinality(R) + 1) = m
  BY <1>2, <1>3, NthExtends
<1> QED BY <1>4 DEF m

\* What e says of the members of a set, in their order.
Stack(S, e) == [k \in 1 .. Cardinality(S) |-> e[Nth(S, k)]]

\* The sequence b says what a does and then x.
Grown(b, a, x) == /\ b = Append(a, x) /\ b # <<>>
                    /\ a = SubSeq(b, 1, Len(b) - 1) /\ b[Len(b)] = x

\* What stacks have in common when one has a member more.
LEMMA StackGrows ==
  ASSUME NEW S \in SUBSET Nat, IsFiniteSet(S), NEW m \in Nat, \A j \in S : j < m,
         NEW T, T = S \cup {m}, NEW e, NEW f, \A i \in S : f[i] = e[i]
  PROVE  /\ Grown(Stack(T, f), Stack(S, e), f[m])
         /\ Stack(S, e) = <<>> <=> S = {}
         /\ S # {} /\ HasMax(S) => Stack(S, e)[Len(Stack(S, e))] = e[Max(S)]
<1> DEFINE n == Cardinality(S)
           a == Stack(S, e)
           b == Stack(T, f)
           X == {f[Nth(T, k)] : k \in 1 .. n + 1}
<1>1. /\ n \in Nat /\ Cardinality(T) = n + 1 /\ Nth(T, n + 1) = m
      /\ \A k \in 1 .. n : Nth(T, k) = Nth(S, k) /\ Nth(S, k) \in S
  BY NthExtends, NthIsMember
<1>2. \A k \in 1 .. n : k \in 1 .. n + 1 /\ e[Nth(S, k)] = f[Nth(T, k)]
  <2>1. \A k \in 1 .. n : k \in 1 .. n + 1
    BY <1>1
  <2>2. ASSUME NEW k \in 1 .. n PROVE e[Nth(S, k)] = f[Nth(T, k)]
    <3>1. Nth(T, k) = Nth(S, k) /\ Nth(S, k) \in S
      BY <1>1
    <3> QED BY <3>1
  <2> QED BY <2>1, <2>2
<1>3. /\ a = [k \in 1 .. n |-> e[Nth(S, k)]]
      /\ b = [k \in 1 .. n + 1 |-> f[Nth(T, k)]]
  BY <1>1 DEF Stack
<1> HIDE DEF n, a, b
<1>4. n + 1 \in 1 .. n + 1
  BY <1>1
<1>5. \A k \in 1 .. n : b[k] = a[k]
  BY <1>2, <1>3
<1>6. b[n + 1] = f[m]
  BY <1>1, <1>3, <1>4
<1>7. a \in [1 .. n -> X] /\ b \in [1 .. n + 1 -> X]
  <2>1. \A k \in 1 .. n + 1 : f[Nth(T, k)] \in X
    OBVIOUS
  <2> HIDE DEF X
  <2> QED BY <1>2, <1>3, <2>1
<1> HIDE DEF X
<1>8. /\ b = Append(a, f[m]) /\ b # <<>>
      /\ a = SubSeq(b, 1, Len(b) - 1) /\ b[Len(b)] = f[m]
      /\ (a = <<>> <=> n = 0) /\ (n # 0 => a[Len(a)] = a[n])
  BY <1>1, <1>5, <1>6, <1>7, OneMore
<1>9. n = 0 <=> S = {}
  BY FS_EmptySet DEF n
<1>10. S # {} /\ HasMax(S) => a[n] = e[Max(S)]
  <2> SUFFICES ASSUME S # {}, HasMax(S) PROVE a[n] = e[Max(S)]
    OBVIOUS
  <2>1. n \in 1 .. n /\ Nth(S, n) = Max(S)
    BY <1>1, <1>9, LastIsMax DEF n
  <2> QED BY <1>3, <2>1
<1> QED BY <1>8, <1>9, <1>10 DEF a, b, Grown

-----------------------------------------------------------------------------
(* The refinement of DriverAccount, action by action.                      *)

\* The settlements that stand are finitely many numbers.
LEMMA StandingIds ==
  ASSUME TablesShape, NEW d
  PROVE  /\ Settled(d) \in SUBSET Nat /\ IsFiniteSet(Settled(d))
         /\ Settled(d) \subseteq DOMAIN settlements
         /\ \A k \in 1 .. Cardinality(Settled(d)) : Nth(Settled(d), k) \in Settled(d)
<1>1. /\ Len(settlements) \in Nat /\ DOMAIN settlements = 1 .. Len(settlements)
      /\ Settled(d) \subseteq DOMAIN settlements
  BY SettlementIds
<1>2. IsFiniteSet(DOMAIN settlements)
  BY <1>1, FS_Interval
<1>3. Settled(d) \in SUBSET Nat /\ IsFiniteSet(Settled(d))
  BY <1>1, <1>2, FS_Subset
<1> QED BY <1>1, <1>3, NthIsMember

\* Steps that change neither orders, settlements nor balances are no steps of
\* the account.
LEMMA AccountStutters ==
  ASSUME UNCHANGED <<orders, settlements, balances>>
  PROVE  UNCHANGED <<Work, Handovers, balances>>
<1>1. Work' = Work
  BY DEF Work, UnsettledWhere, Delivered, Item
<1>2. Handovers' = Handovers
  BY DEF Handovers, Handover, Settled, Stamped, Item
<1> QED BY <1>1, <1>2

\* A driver's handovers, before and after a step.
LEMMA HandoversAre ==
  ASSUME TablesShape, NEW d \in Drivers
  PROVE  Handovers[d] = Stack(Settled(d), [i \in Settled(d) |-> Handover(i)])
BY StandingIds DEF Handovers, Stack

\* Afterwards they are the stack of the settlements that then stand.
LEMMA HandoversBecome ==
  ASSUME NEW d \in Drivers, NEW S \in SUBSET Nat, IsFiniteSet(S), Settled(d)' = S
  PROVE  Handovers[d]' = Stack(S, [i \in S |-> Handover(i)'])
<1>1. ASSUME NEW k \in 1 .. Cardinality(S)
      PROVE  Handover(Nth(S, k))' = [i \in S |-> Handover(i)'][Nth(S, k)]
  <2>1. PICK i \in S : i = Nth(S, k)
    BY NthIsMember
  <2>2. Nth(S, k)' = i
    BY <2>1 DEF Nth
  <2>3. Handover(Nth(S, k))' = Handover(i)'
    BY <2>2 DEF Handover, Stamped
  <2> QED BY <2>1, <2>3
<1>2. Handovers[d]' = [k \in 1 .. Cardinality(S) |-> Handover(Nth(S, k))']
  BY DEF Handovers
<1> QED BY <1>1, <1>2 DEF Stack

\* What stands, and what is stamped with it, decides the handovers.
LEMMA HandoversKept ==
  ASSUME TablesShape, NEW d \in Drivers, Settled(d)' = Settled(d),
         \A i \in Settled(d) : Handover(i)' = Handover(i)
  PROVE  Handovers[d]' = Handovers[d]
<1>1. [i \in Settled(d) |-> Handover(i)'] = [i \in Settled(d) |-> Handover(i)]
  OBVIOUS
<1>2. Handovers[d]' = Stack(Settled(d), [i \in Settled(d) |-> Handover(i)'])
  BY StandingIds, HandoversBecome
<1> QED BY <1>1, <1>2, HandoversAre

\* A delivery, and a deliver() in flight for it.
LEMMA DeliverRefines ==
  ASSUME IInv, TypeOK, NEW o \in Orders, NEW d \in Drivers, NEW cur \in Currencies,
         NEW commission \in Commissions, DeliverCommit(o, d, cur, commission)
  PROVE  Account!Next
<1> DEFINE item == [order |-> o, currency |-> cur, commission |-> commission]
<1>1. /\ orders[o] = NotDelivered /\ orders[o].settlementId = None /\ ~Delivered(o)
      /\ delivering[o] \in Times
  BY DEF DeliverCommit, IInv, DeliveringInv, NotDelivered, Delivered, TypeOK
<1>2. /\ orders'[o] = DeliveredRow(o, d, cur, commission)
      /\ \A p \in Orders \ {o} : orders'[p] = orders[p]
      /\ UNCHANGED <<settlements, balances>>
  BY DEF DeliverCommit, TypeOK
<1>3. Item(o)' = item /\ \A p \in Orders \ {o} : Item(p)' = Item(p)
  BY <1>2 DEF Item, DeliveredRow
<1>4. \A e, t : o \notin UnsettledWhere(e, t)
  BY <1>1 DEF UnsettledWhere
<1>5. /\ UnsettledWhere(d, MaxTime)' = UnsettledWhere(d, MaxTime) \cup {o}
      /\ \A e \in Drivers \ {d} : UnsettledWhere(e, MaxTime)' = UnsettledWhere(e, MaxTime)
  <2>1. delivering[o] <= MaxTime /\ delivering[o] # None
    BY <1>1, SettlementsAssumption DEF Times
  <2> QED BY <1>1, <1>2, <2>1 DEF UnsettledWhere, Delivered, DeliveredRow
<1>6. Work' = [Work EXCEPT ![d] = @ \cup {item}]
  <2>1. Work'[d] = Work[d] \cup {item}
    BY <1>3, <1>4, <1>5 DEF Work, UnsettledWhere
  <2>2. ASSUME NEW e \in Drivers \ {d} PROVE Work'[e] = Work[e]
    BY <1>3, <1>4, <1>5 DEF Work, UnsettledWhere
  <2>3. Work = [e \in Drivers |-> Work[e]] /\ Work' = [e \in Drivers |-> Work'[e]]
    BY DEF Work
  <2> QED BY <2>1, <2>2, <2>3
<1>7. \A i \in DOMAIN settlements : o \notin Stamped(i) /\ Stamped(i)' = Stamped(i)
  BY <1>1, <1>2, SettlementIds, SettlementsAssumption
     DEF Stamped, DeliveredRow, IInv, Shape
<1>8. ASSUME NEW i \in DOMAIN settlements PROVE Handover(i)' = Handover(i)
  <2>1. \A p \in Stamped(i) : Item(p)' = Item(p)
    BY <1>3, <1>7 DEF Stamped
  <2>2. {Item(p) : p \in Stamped(i)}' = {Item(p) : p \in Stamped(i)}
    BY <1>7, <2>1
  <2> QED BY <1>2, <2>2 DEF Handover
<1>9. Handovers' = Handovers
  <2>1. \A e \in Drivers : Handovers[e]' = Handovers[e]
    BY <1>2, <1>8, HandoversKept, StandingIds DEF IInv, Shape, Settled
  <2>2. Handovers = [e \in Drivers |-> Handovers[e]] /\ Handovers' = [e \in Drivers |-> Handovers'[e]]
    BY DEF Handovers
  <2> QED BY <2>1, <2>2
<1>10. ~Account!Known(o)
  <2>1. ASSUME NEW e \in Drivers, NEW it \in Work[e] PROVE it.order # o
    BY <1>4 DEF Work, Item, UnsettledWhere
  <2>2. ASSUME NEW e \in Drivers, NEW k \in DOMAIN Handovers[e], NEW it \in Handovers[e][k].items
        PROVE  it.order # o
    <3>1. PICK i \in DOMAIN settlements : Handovers[e][k] = Handover(i)
      BY StandingIds DEF Handovers, IInv, Shape
    <3> QED BY <1>7, <3>1 DEF Handover, Item, Stamped
  <2> QED BY <2>1, <2>2 DEF Account!Known
<1>11. item \in [order : Orders, currency : Currencies, commission : Commissions]
  OBVIOUS
<1>12. Account!Deliver(d, item)
  BY <1>2, <1>6, <1>9, <1>10 DEF Account!Deliver
<1> QED BY <1>11, <1>12 DEF Account!Next

\* What items are due is what their orders are.
LEMMA DueOfItems ==
  ASSUME orders \in [Orders -> OrderRows], NEW S \in SUBSET Orders, NEW cur
  PROVE  Account!Due({Item(o) : o \in S}, cur) = CommissionDue(S, cur)
<1> DEFINE G == InCurrency(S, cur)
           image == [o \in G |-> Item(o)]
           fun == [o \in G |-> orders[o].commission]
           I == {image[o] : o \in G}
           gun == [item \in I |-> item.commission]
<1>1. G \in SUBSET Orders /\ IsFiniteSet(G) /\ IsFiniteSet(I)
  <2>1. G \in SUBSET Orders
    BY DEF InCurrency
  <2>2. IsFiniteSet(G)
    BY <2>1, FS_Subset, SettlementsAssumption
  <2> HIDE DEF image, G
  <2> QED BY <2>1, <2>2, ImageIsFinite
<1>2. I = {item \in {Item(o) : o \in S} : item.currency = cur}
  <2>1. \A o : Item(o).currency = orders[o].currency
    BY DEF Item
  <2>2. \A o : o \in G <=> o \in S /\ Item(o).currency = cur
    BY <2>1 DEF InCurrency
  <2>3. \A o \in G : image[o] = Item(o)
    OBVIOUS
  <2> HIDE DEF G, image
  <2> QED BY <2>2, <2>3
<1>3. Account!Due({Item(o) : o \in S}, cur) = Sum(gun, I)
  <2>1. Account!Due({Item(o) : o \in S}, cur) = MapThenSumSet(LAMBDA item : item.commission, I)
    <3> HIDE DEF I
    <3> QED BY <1>2, Zenon DEF Account!Due, Account!MapThenSumSet, Account!MapThenFoldSet,
                                MapThenSumSet, MapThenFoldSet
  <2> HIDE DEF I
  <2> QED BY <1>1, <2>1, SumOfCommissions
<1>4. Sum(gun, I) = Sum(fun, G)
  <2>1. \A o, p \in G : image[o] = image[p] => o = p
    BY DEF Item
  <2>2. \A o \in G : fun[o] \in Int /\ gun[image[o]] = fun[o]
    <3>1. \A o \in G : orders[o].commission \in Nat
      BY <1>1, CommissionIsNat
    <3> QED BY <3>1 DEF Item
  <2> HIDE DEF image, fun, gun, G
  <2> QED BY <1>1, <2>1, <2>2, SumOfImage
<1>5. CommissionDue(S, cur) = Sum(fun, G)
  <2>1. DOMAIN fun = G
    OBVIOUS
  <2>2. SumFunction(fun) = Sum(fun, G)
    BY <2>1, SumFunctionIsSum
  <2>3. G = {} => Sum(fun, G) = 0
    <3> HIDE DEF fun, G
    <3> QED BY SumOfNone
  <2> QED BY <2>2, <2>3 DEF CommissionDue
<1> QED BY <1>3, <1>4, <1>5

\* Items of different orders are different.
LEMMA ItemsWithout ==
  ASSUME NEW S, NEW T
  PROVE  {Item(o) : o \in S \ T} = {Item(o) : o \in S} \ {Item(o) : o \in T}
<1>1. \A o, p : Item(o) = Item(p) => o = p
  BY DEF Item
<1> HIDE DEF Item
<1> QED BY <1>1

\* One settlement more that stands, later than the others.
LEMMA HandoverAdded ==
  ASSUME TablesShape, NEW d \in Drivers, NEW id \in Nat,
         \A j \in Settled(d) : j < id, Settled(d)' = Settled(d) \cup {id},
         \A i \in Settled(d) : Handover(i)' = Handover(i)
  PROVE  Handovers[d]' = Append(Handovers[d], Handover(id)')
<1> DEFINE S == Settled(d)
           T == S \cup {id}
           e == [i \in S |-> Handover(i)]
           f == [i \in T |-> Handover(i)']
<1>1. /\ S \in SUBSET Nat /\ IsFiniteSet(S) /\ \A j \in S : j < id
      /\ \A i \in S : f[i] = e[i]
      /\ f[id] = Handover(id)'
  BY StandingIds
<1>2. T \in SUBSET Nat /\ IsFiniteSet(T)
  BY <1>1, FS_AddElement
<1>3. Handovers[d] = Stack(S, e)
  BY HandoversAre
<1>4. Handovers[d]' = Stack(T, f)
  BY <1>2, HandoversBecome
<1>5. Grown(Stack(T, f), Stack(S, e), f[id])
  <2>1. T = S \cup {id}
    OBVIOUS
  <2> HIDE DEF e, f, S, T
  <2>2. id \in Nat
    OBVIOUS
  <2> QED BY <1>1, <2>1, <2>2, StackGrows
<1>6. Stack(T, f) = Append(Stack(S, e), f[id])
  BY <1>5 DEF Grown
<1> QED BY <1>1, <1>3, <1>4, <1>6

\* One less, the last of those that stood.
LEMMA HandoverUndone ==
  ASSUME TablesShape, NEW d \in Drivers, NEW m \in Settled(d),
         \A j \in Settled(d) : m >= j, Settled(d)' = Settled(d) \ {m},
         HasMax(Settled(d) \ {m}),
         \A i \in Settled(d) \ {m} : Handover(i)' = Handover(i)
  PROVE  /\ Grown(Handovers[d], Handovers[d]', Handover(m))
         /\ Handovers[d]' = <<>> <=> Settled(d) \ {m} = {}
         /\ Settled(d) \ {m} # {} =>
              Handovers[d]'[Len(Handovers[d]')] = Handover(Max(Settled(d) \ {m}))
<1> DEFINE T == Settled(d)
           S == T \ {m}
           e == [i \in S |-> Handover(i)']
           f == [i \in T |-> Handover(i)]
<1>1. T \in SUBSET Nat /\ IsFiniteSet(T)
  BY StandingIds
<1>2. S \in SUBSET Nat /\ IsFiniteSet(S) /\ m \in Nat /\ T = S \cup {m}
  BY <1>1, FS_Subset
<1>3. \A j \in S : j < m
  BY <1>1, <1>2
<1>4. (\A i \in S : f[i] = e[i] /\ e[i] = Handover(i)) /\ f[m] = Handover(m)
  OBVIOUS
<1>5. Handovers[d] = Stack(T, f)
  BY HandoversAre
<1>6. Handovers[d]' = Stack(S, e)
  BY <1>2, HandoversBecome
<1>7. /\ Grown(Stack(T, f), Stack(S, e), f[m])
      /\ Stack(S, e) = <<>> <=> S = {}
      /\ S # {} /\ HasMax(S) => Stack(S, e)[Len(Stack(S, e))] = e[Max(S)]
  <2> HIDE DEF e, f, S, T
  <2> QED BY <1>2, <1>3, <1>4, StackGrows
<1>8. S # {} => e[Max(S)] = Handover(Max(S))
  BY <1>2, <1>4, MaxIsLast
<1> QED BY <1>4, <1>5, <1>6, <1>7, <1>8

\* The orders once those of S are stamped, and what a settlement carries.
Stamping(S, id) ==
  [o \in Orders |-> IF o \in S THEN [orders[o] EXCEPT !.settlementId = id] ELSE orders[o]]

CarriedBy(row) == [cur \in Currencies |-> row.lines[cur].carriedForward]

\* A driver's items leave the pile and become his last handover.
Collected(d, items, carried) ==
  /\ items \in SUBSET Work[d]
  /\ Work' = [Work EXCEPT ![d] = @ \ items]
  /\ Handovers' = [Handovers EXCEPT ![d] = Append(@, [items |-> items, carried |-> carried])]

\* What a settle() that commits changes of what the account looks at.
LEMMA SettleMoves ==
  ASSUME IInv, TypeOK, NEW d \in Drivers, NEW cutoff \in Times, NEW id, NEW row,
         id = Len(settlements) + 1, id \in Ids,
         row.driver = d, row.status = "SETTLED",
         settlements' = Append(settlements, row),
         NEW stamped, stamped = UnsettledWhere(d, cutoff),
         NEW items, items = {Item(o) : o \in stamped},
         orders' = Stamping(stamped, id)
  PROVE  Collected(d, items, CarriedBy(row))
<1>1. /\ Len(settlements) \in Nat /\ id \in Nat /\ id # None
      /\ DOMAIN settlements = 1 .. Len(settlements)
      /\ (\A j \in DOMAIN settlements : j < id) /\ id \notin DOMAIN settlements
      /\ DOMAIN settlements \subseteq Nat
      /\ \A e : Settled(e) \subseteq DOMAIN settlements
  BY SettlementIds, SettlementsAssumption DEF IInv, Shape
<1>2. /\ DOMAIN settlements' = DOMAIN settlements \cup {id} /\ settlements'[id] = row
      /\ \A i \in DOMAIN settlements : settlements'[i] = settlements[i]
  <2>1. settlements \in Seq(SettlementRows)
    BY DEF TypeOK
  <2> QED BY <1>1, <2>1
<1>3. /\ Settled(d)' = Settled(d) \cup {id}
      /\ \A e \in Drivers \ {d} : Settled(e)' = Settled(e)
  BY <1>1, <1>2 DEF Settled
<1>4. \A o \in stamped : /\ o \in Orders /\ orders[o] # NotDelivered
                         /\ orders[o].driver = d /\ orders[o].settlementId = None
                         /\ orders[o].deliveredAt # None
  BY DEF UnsettledWhere, Delivered, NotDelivered
<1>5. ASSUME NEW o \in Orders
      PROVE  /\ orders'[o].driver = orders[o].driver
             /\ orders'[o].currency = orders[o].currency
             /\ orders'[o].commission = orders[o].commission
             /\ orders'[o].deliveredAt = orders[o].deliveredAt
             /\ orders'[o].settlementId = IF o \in stamped THEN id ELSE orders[o].settlementId
  <2>1. orders[o] \in OrderRows
    BY DEF TypeOK
  <2>2. CASE o \in stamped
    BY <1>4, <2>1, <2>2 DEF OrderRows, Stamping
  <2>3. CASE o \notin stamped
    BY <2>3 DEF Stamping
  <2> QED BY <2>2, <2>3
<1>6. \A o \in Orders : Item(o)' = Item(o)
  BY <1>5 DEF Item
<1>7. Stamped(id)' = stamped
  <2>1. \A o \in Orders : orders[o].settlementId # id
    BY <1>1 DEF IInv, StampsInv
  <2> QED BY <1>4, <1>5, <2>1 DEF Stamped
<1>8. \A i \in DOMAIN settlements : Stamped(i)' = Stamped(i)
  <2>1. ASSUME NEW i \in DOMAIN settlements, NEW o \in Orders
        PROVE  orders'[o].settlementId = i <=> orders[o].settlementId = i
    <3>1. i # id /\ i # None
      BY <1>1, SettlementsAssumption
    <3> QED BY <1>4, <1>5, <3>1
  <2> QED BY <2>1 DEF Stamped
<1>9. /\ stamped \subseteq UnsettledWhere(d, MaxTime)
      /\ UnsettledWhere(d, MaxTime)' = UnsettledWhere(d, MaxTime) \ stamped
      /\ \A e \in Drivers \ {d} : UnsettledWhere(e, MaxTime)' = UnsettledWhere(e, MaxTime)
  <2>1. stamped \subseteq UnsettledWhere(d, MaxTime)
    <3>1. ASSUME NEW o \in stamped PROVE o \in UnsettledWhere(d, MaxTime)
      <4>1. orders[o].deliveredAt \in Times /\ orders[o].deliveredAt <= cutoff
        BY <1>4 DEF TypeOK, OrderRows, UnsettledWhere
      <4>2. orders[o].deliveredAt <= MaxTime
        BY <4>1, SettlementsAssumption DEF Times
      <4> QED BY <1>4, <4>2 DEF UnsettledWhere, Delivered
    <3> QED BY <3>1
  <2> QED BY <1>1, <1>4, <1>5, <2>1 DEF UnsettledWhere, Delivered
<1>10. items \in SUBSET Work[d] /\ Work' = [Work EXCEPT ![d] = @ \ items]
  <2>1. Work[d] = {Item(o) : o \in UnsettledWhere(d, MaxTime)}
    BY DEF Work
  <2>2. ASSUME NEW e \in Drivers PROVE Work'[e] = {Item(o) : o \in UnsettledWhere(e, MaxTime)'}
    <3>1. \A o \in UnsettledWhere(e, MaxTime)' : Item(o)' = Item(o)
      BY <1>6 DEF UnsettledWhere
    <3> QED BY <3>1 DEF Work
  <2>3. Work'[d] = Work[d] \ items
    <3>1. Work'[d] = {Item(o) : o \in UnsettledWhere(d, MaxTime) \ stamped}
      BY <1>9, <2>2
    <3>2. {Item(o) : o \in UnsettledWhere(d, MaxTime) \ stamped}
            = {Item(o) : o \in UnsettledWhere(d, MaxTime)} \ items
      BY ItemsWithout
    <3> QED BY <2>1, <3>1, <3>2
  <2>4. ASSUME NEW e \in Drivers \ {d} PROVE Work'[e] = Work[e]
    BY <1>9, <2>2 DEF Work
  <2>5. Work = [e \in Drivers |-> Work[e]] /\ Work' = [e \in Drivers |-> Work'[e]]
    BY DEF Work
  <2>6. items \in SUBSET Work[d]
    BY <1>9, <2>1
  <2> QED BY <2>3, <2>4, <2>5, <2>6
<1>11. Handover(id)' = [items |-> items, carried |-> CarriedBy(row)]
  <2>1. \A o \in stamped : Item(o)' = Item(o)
    BY <1>4, <1>6
  <2>2. {Item(o) : o \in Stamped(id)}' = items
    BY <1>7, <2>1
  <2> QED BY <1>2, <2>2 DEF Handover, CarriedBy
<1>12. \A i \in DOMAIN settlements : Handover(i)' = Handover(i)
  <2>1. ASSUME NEW i \in DOMAIN settlements PROVE Handover(i)' = Handover(i)
    <3>1. \A o \in Stamped(i) : Item(o)' = Item(o)
      BY <1>6 DEF Stamped
    <3>2. {Item(o) : o \in Stamped(i)}' = {Item(o) : o \in Stamped(i)}
      BY <1>8, <3>1
    <3> QED BY <1>2, <3>2 DEF Handover
  <2> QED BY <2>1
<1>13. Handovers' = [Handovers EXCEPT ![d] = Append(@, Handover(id)')]
  <2>1. Handovers[d]' = Append(Handovers[d], Handover(id)')
    BY <1>1, <1>3, <1>12, HandoverAdded DEF IInv, Shape
  <2>2. \A e \in Drivers \ {d} : Handovers[e]' = Handovers[e]
    BY <1>1, <1>3, <1>12, HandoversKept DEF IInv, Shape
  <2>3. Handovers = [e \in Drivers |-> Handovers[e]] /\ Handovers' = [e \in Drivers |-> Handovers'[e]]
    BY DEF Handovers
  <2> QED BY <2>1, <2>2, <2>3
<1> QED BY <1>10, <1>11, <1>13 DEF Collected

\* A settle() that commits is a handover of what it stamped, for the cash
\* less the adjustments.
LEMMA SettleRefines ==
  ASSUME IInv, TypeOK, NEW c \in Calls, NEW adjusted \in Adjustments,
         NEW collected \in Collections, SettleCommit(c, adjusted, collected)
  PROVE  Account!Next \/ UNCHANGED <<Work, Handovers, balances>>
<1>a. PICK call : call = calls[c]
  OBVIOUS
<1>b. PICK d : d = call.driver
  OBVIOUS
<1>c. PICK id : id = Len(settlements) + 1
  OBVIOUS
<1>d. PICK lines : lines = [cur \in Currencies |-> Line(call.swept, cur, call.brought[cur],
                                                      adjusted[cur], collected[cur])]
  OBVIOUS
<1>e. PICK row : row = [driver |-> d, status |-> "SETTLED",
                        periodStart |-> PeriodEnd(call.previous),
                        periodEnd |-> call.cutoff, lines |-> lines,
                        expected |-> call.expected]
  OBVIOUS
<1>f. PICK stamped : stamped = UnsettledWhere(d, call.cutoff)
  OBVIOUS
<1>g. PICK items : items = {Item(o) : o \in stamped}
  OBVIOUS
<1>h. PICK paid : paid = [cur \in Currencies |-> collected[cur] - adjusted[cur]]
  OBVIOUS
<1>1. CASE UNCHANGED <<settlements, orders, balances>>
  BY <1>1, AccountStutters
<1>2. CASE /\ StampedAll(call.swept, stamped)
           /\ settlements' = Append(settlements, row)
           /\ orders' = [o \in Orders |->
                IF o \in stamped THEN [orders[o] EXCEPT !.settlementId = id] ELSE orders[o]]
           /\ balances' = [balances EXCEPT ![d] = [cur \in Currencies |->
                IF HasLine(lines[cur]) THEN lines[cur].carriedForward ELSE @[cur]]]
  <2>1. call.phase = "locked" /\ id \in Ids
    BY <1>a, <1>c DEF SettleCommit
  <2>2. d \in Drivers /\ call.cutoff \in Times /\ call.swept \in SUBSET Orders
    BY <1>a, <1>b, <2>1 DEF TypeOK, CallRows, NoCall, PreviewCalls, ShownCalls, LockedCalls
  <2>3. stamped = call.swept
    BY <1>a, <1>b, <1>f, <1>2, <2>1, StampedAreSwept
  <2>4. call.brought = balances[d]
    BY <1>a, <1>b, <2>1 DEF IInv, LockedInv, LockedCallInv
  <2>5. Collected(d, items, CarriedBy(row))
    <3>1. row.driver = d /\ row.status = "SETTLED"
      BY <1>e
    <3>2. orders' = Stamping(stamped, id)
      BY <1>2 DEF Stamping
    <3> QED BY <1>c, <1>f, <1>g, <1>2, <2>1, <2>2, <3>1, <3>2, SettleMoves
  <2>6. ASSUME NEW cur \in Currencies
        PROVE  /\ lines[cur].carriedForward
                    = balances[d][cur] + Account!Due(items, cur) - paid[cur]
               /\ ~HasLine(lines[cur]) => lines[cur].carriedForward = balances[d][cur]
    <3>1. /\ lines[cur].orderCount = Cardinality(InCurrency(stamped, cur))
          /\ lines[cur].commissionDue = CommissionDue(stamped, cur)
          /\ lines[cur].adjustmentsTotal = adjusted[cur]
          /\ lines[cur].broughtForward = balances[d][cur]
          /\ lines[cur].amountCollected = collected[cur]
          /\ lines[cur].carriedForward
               = CommissionDue(stamped, cur) + adjusted[cur] + balances[d][cur] - collected[cur]
      BY <1>d, <2>3, <2>4, LineFields
    <3>2. Account!Due(items, cur) = CommissionDue(stamped, cur)
      BY <1>g, <2>2, <2>3, DueOfItems DEF TypeOK
    <3>3. CommissionDue(stamped, cur) \in Nat
      BY <2>2, <2>3, GroupTyped DEF TypeOK
    <3>4. adjusted[cur] \in Int /\ collected[cur] \in Int /\ balances[d][cur] \in Int
      BY <2>2, SettlementsAssumption DEF TypeOK
    <3>5. ASSUME ~HasLine(lines[cur]) PROVE lines[cur].carriedForward = balances[d][cur]
      <4>1. /\ Cardinality(InCurrency(stamped, cur)) = 0
            /\ adjusted[cur] = 0 /\ collected[cur] = 0
        BY <3>1, <3>5 DEF HasLine
      <4>2. IsFiniteSet(InCurrency(stamped, cur))
        BY <2>2, <2>3, SettlementsAssumption, FS_Subset DEF InCurrency
      <4>3. CommissionDue(stamped, cur) = 0
        BY <4>1, <4>2, FS_EmptySet DEF CommissionDue
      <4> QED BY <3>1, <3>4, <4>1, <4>3
    <3> QED BY <1>h, <3>1, <3>2, <3>3, <3>4, <3>5
  <2>7. PICK carried : carried = [cur \in Currencies |->
                          balances[d][cur] + Account!Due(items, cur) - paid[cur]]
    OBVIOUS
  <2>8. CarriedBy(row) = carried
    BY <1>e, <2>6, <2>7 DEF CarriedBy
  <2>9. balances' = [balances EXCEPT ![d] = carried]
    <3>1. [cur \in Currencies |-> IF HasLine(lines[cur]) THEN lines[cur].carriedForward
                                  ELSE balances[d][cur]] = carried
      BY <2>6, <2>7
    <3>2. balances' = [balances EXCEPT ![d] = [cur \in Currencies |->
             IF HasLine(lines[cur]) THEN lines[cur].carriedForward ELSE balances[d][cur]]]
      BY <1>2, <2>2 DEF TypeOK
    <3> QED BY <3>1, <3>2
  <2>10. Collected(d, items, carried)
    BY <2>5, <2>8
  <2>11. Account!HandOver(d, items, paid)
    BY <2>7, <2>9, <2>10 DEF Account!HandOver, Collected
  <2>12. paid \in {[cur \in Currencies |-> k[cur] - a[cur]] : k \in Collections, a \in Adjustments}
    BY <1>h
  <2> QED BY <2>2, <2>10, <2>11, <2>12 DEF Account!Next, Collected
<1> QED BY <1>a, <1>b, <1>c, <1>d, <1>e, <1>f, <1>1, <1>2 DEF SettleCommit

\* A driver's last handover goes back on the pile.
TakenBack(d, handover) ==
  /\ Work' = [Work EXCEPT ![d] = @ \cup handover.items]
  /\ Handovers' = [Handovers EXCEPT ![d] = Handovers[d]']
  /\ Grown(Handovers[d], Handovers[d]', handover)

\* What a void changes of what the account looks at.
LEMMA VoidMoves ==
  ASSUME IInv, TypeOK, NEW i \in DOMAIN settlements, Void(i), NEW d, d = settlements[i].driver
  PROVE  /\ TakenBack(d, Handover(i))
         /\ Handovers[d]' = <<>> <=> Before(i) = None
         /\ Handovers[d]' # <<>> =>
              Handovers[d]'[Len(Handovers[d]')] = Handover(Before(i))
<1>1. /\ i \in Nat /\ i # None /\ d \in Drivers
      /\ None \notin DOMAIN settlements /\ DOMAIN settlements \subseteq Nat
      /\ \A e : Settled(e) \subseteq DOMAIN settlements
  BY SettlementIds, SettlementsAssumption DEF IInv, Shape
<1>2. /\ DOMAIN settlements' = DOMAIN settlements
      /\ \A j \in DOMAIN settlements :
           /\ settlements'[j].driver = settlements[j].driver
           /\ settlements'[j].lines = settlements[j].lines
           /\ settlements'[j].status = IF j = i THEN "VOIDED" ELSE settlements[j].status
  <2> DEFINE voided == [settlements[i] EXCEPT !.status = "VOIDED"]
  <2>1. settlements[i] \in SettlementRows /\ settlements \in Seq(SettlementRows)
    BY DEF TypeOK
  <2>2. /\ voided.driver = settlements[i].driver /\ voided.lines = settlements[i].lines
        /\ voided.status = "VOIDED"
    BY <2>1 DEF SettlementRows
  <2>3. settlements' = [settlements EXCEPT ![i] = voided]
    BY DEF Void
  <2> HIDE DEF voided
  <2> QED BY <2>1, <2>2, <2>3
<1>3. /\ i \in Settled(d) /\ (\A j \in Settled(d) : i >= j)
      /\ settlements[i].status = "SETTLED"
  <2>1. i = PreviousSettlement(d)
    BY DEF Void, Voidable
  <2>2. Settled(d) # {}
    BY <1>1, <2>1 DEF PreviousSettlement
  <2>3. i \in Settled(d) /\ (\A j \in Settled(d) : i >= j)
    BY <1>1, <2>1, <2>2, PreviousInIds DEF IInv, Shape
  <2> QED BY <2>3 DEF Settled
<1>4. /\ Settled(d)' = Settled(d) \ {i}
      /\ \A e \in Drivers \ {d} : i \notin Settled(e) /\ Settled(e)' = Settled(e)
  BY <1>2 DEF Settled
<1>5. /\ Stamped(i) \subseteq Orders
      /\ \A o \in Stamped(i) : /\ orders[o].driver = d /\ orders[o].deliveredAt \in Times
                               /\ orders[o].settlementId = i /\ orders[o] # NotDelivered
  <2>1. \A o \in Stamped(i) : orders[o].driver = d
    BY <1>3 DEF IInv, StampedMatchesLines
  <2>2. \A o \in Stamped(i) : o \in Orders /\ orders[o].settlementId = i
    BY DEF Stamped
  <2>3. \A o \in Orders : orders[o] \in OrderRows
    BY DEF TypeOK
  <2>4. \A o \in Stamped(i) : orders[o] # NotDelivered
    BY <1>1, <2>2 DEF NotDelivered
  <2> QED BY <2>1, <2>2, <2>3, <2>4 DEF OrderRows
<1>6. ASSUME NEW o \in Orders
      PROVE  /\ orders'[o].driver = orders[o].driver
             /\ orders'[o].currency = orders[o].currency
             /\ orders'[o].commission = orders[o].commission
             /\ orders'[o].deliveredAt = orders[o].deliveredAt
             /\ orders'[o].settlementId = IF o \in Stamped(i) THEN None ELSE orders[o].settlementId
  <2>1. orders[o] \in OrderRows
    BY DEF TypeOK
  <2>2. orders'[o] = IF o \in Stamped(i) THEN [orders[o] EXCEPT !.settlementId = None]
                     ELSE orders[o]
    BY DEF Void
  <2>3. CASE o \in Stamped(i)
    BY <1>5, <2>1, <2>2, <2>3 DEF OrderRows
  <2>4. CASE o \notin Stamped(i)
    BY <2>2, <2>4
  <2> QED BY <2>3, <2>4
<1>7. \A o \in Orders : Item(o)' = Item(o)
  BY <1>6 DEF Item
<1>8. \A j \in DOMAIN settlements \ {i} : Stamped(j)' = Stamped(j)
  BY <1>1, <1>5, <1>6 DEF Stamped
<1>9. /\ UnsettledWhere(d, MaxTime)' = UnsettledWhere(d, MaxTime) \cup Stamped(i)
      /\ \A e \in Drivers \ {d} : UnsettledWhere(e, MaxTime)' = UnsettledWhere(e, MaxTime)
  <2>1. \A o \in Stamped(i) : orders[o].deliveredAt <= MaxTime /\ orders[o].deliveredAt # None
    BY <1>5, SettlementsAssumption DEF Times
  <2>2. \A o \in Orders : o \notin Stamped(i) => orders'[o].settlementId = orders[o].settlementId
    BY <1>6
  <2>3. ASSUME NEW e \in Drivers, NEW o \in Orders
        PROVE  o \in UnsettledWhere(e, MaxTime)'
                 <=> o \in UnsettledWhere(e, MaxTime) \/ (e = d /\ o \in Stamped(i))
    <3>1. CASE o \in Stamped(i)
      BY <1>1, <1>5, <1>6, <2>1, <3>1 DEF UnsettledWhere, Delivered
    <3>2. CASE o \notin Stamped(i)
      BY <1>6, <3>2 DEF UnsettledWhere, Delivered
    <3> QED BY <3>1, <3>2
  <2>4. \A e : UnsettledWhere(e, MaxTime) \subseteq Orders /\ UnsettledWhere(e, MaxTime)' \subseteq Orders
    BY DEF UnsettledWhere
  <2>5. UnsettledWhere(d, MaxTime)' = UnsettledWhere(d, MaxTime) \cup Stamped(i)
    BY <1>1, <1>5, <2>3, <2>4
  <2>6. ASSUME NEW e \in Drivers \ {d}
        PROVE  UnsettledWhere(e, MaxTime)' = UnsettledWhere(e, MaxTime)
    BY <2>3, <2>4
  <2> QED BY <2>5, <2>6
<1>10. Work' = [Work EXCEPT ![d] = @ \cup Handover(i).items]
  <2>1. Work[d] = {Item(o) : o \in UnsettledWhere(d, MaxTime)}
    BY <1>1 DEF Work
  <2>2. ASSUME NEW e \in Drivers PROVE Work'[e] = {Item(o) : o \in UnsettledWhere(e, MaxTime)'}
    <3>1. \A o \in UnsettledWhere(e, MaxTime)' : Item(o)' = Item(o)
      BY <1>7 DEF UnsettledWhere
    <3> QED BY <3>1 DEF Work
  <2>3. Work'[d] = Work[d] \cup {Item(o) : o \in Stamped(i)}
    <3>1. Work'[d] = {Item(o) : o \in UnsettledWhere(d, MaxTime) \cup Stamped(i)}
      BY <1>1, <1>9, <2>2
    <3>2. {Item(o) : o \in UnsettledWhere(d, MaxTime) \cup Stamped(i)}
            = {Item(o) : o \in UnsettledWhere(d, MaxTime)} \cup {Item(o) : o \in Stamped(i)}
      OBVIOUS
    <3> QED BY <2>1, <3>1, <3>2
  <2>4. ASSUME NEW e \in Drivers \ {d} PROVE Work'[e] = Work[e]
    BY <1>9, <2>2 DEF Work
  <2>5. Work = [e \in Drivers |-> Work[e]] /\ Work' = [e \in Drivers |-> Work'[e]]
    BY DEF Work
  <2>6. Handover(i).items = {Item(o) : o \in Stamped(i)}
    BY DEF Handover
  <2> QED BY <2>3, <2>4, <2>5, <2>6
<1>11. \A j \in DOMAIN settlements \ {i} : Handover(j)' = Handover(j)
  <2>1. ASSUME NEW j \in DOMAIN settlements \ {i} PROVE Handover(j)' = Handover(j)
    <3>1. \A o \in Stamped(j) : Item(o)' = Item(o)
      BY <1>7 DEF Stamped
    <3>2. {Item(o) : o \in Stamped(j)}' = {Item(o) : o \in Stamped(j)}
      BY <1>8, <3>1
    <3> QED BY <1>2, <3>2 DEF Handover
  <2> QED BY <2>1
<1>12. /\ Below(i) = Settled(d) \ {i}
       /\ HasMax(Settled(d) \ {i})
  <2>1. Below(i) = Settled(d) \ {i}
    BY <1>1, <1>3 DEF Below
  <2> QED BY <1>1, <1>3, <2>1 DEF IInv, MaxInv
<1>13. /\ Grown(Handovers[d], Handovers[d]', Handover(i))
       /\ Handovers[d]' = <<>> <=> Settled(d) \ {i} = {}
       /\ Settled(d) \ {i} # {} =>
            Handovers[d]'[Len(Handovers[d]')] = Handover(Max(Settled(d) \ {i}))
  <2>1. \A j \in Settled(d) \ {i} : Handover(j)' = Handover(j)
    BY <1>1, <1>11
  <2> QED BY <1>1, <1>3, <1>4, <1>12, <2>1, HandoverUndone DEF IInv, Shape
<1>14. Handovers' = [Handovers EXCEPT ![d] = Handovers[d]']
  <2>1. \A e \in Drivers \ {d} : Handovers[e]' = Handovers[e]
    <3>1. ASSUME NEW e \in Drivers \ {d} PROVE Handovers[e]' = Handovers[e]
      <4>1. \A j \in Settled(e) : Handover(j)' = Handover(j)
        BY <1>1, <1>4, <1>11
      <4> QED BY <1>4, <4>1, HandoversKept DEF IInv, Shape
    <3> QED BY <3>1
  <2>2. Handovers = [e \in Drivers |-> Handovers[e]] /\ Handovers' = [e \in Drivers |-> Handovers'[e]]
    BY DEF Handovers
  <2> QED BY <2>1, <2>2
<1>15. Before(i) = IF Settled(d) \ {i} = {} THEN None ELSE Max(Settled(d) \ {i})
  BY <1>12 DEF Before, Below
<1>16. Settled(d) \ {i} # {} => Max(Settled(d) \ {i}) # None
  <2>1. Settled(d) \ {i} \in SUBSET Nat /\ Settled(d) \ {i} \subseteq DOMAIN settlements
    BY <1>1
  <2> QED BY <1>1, <1>12, <2>1, MaxIsLast
<1> QED BY <1>10, <1>13, <1>14, <1>15, <1>16 DEF TakenBack

\* A void undoes the driver's last handover.
LEMMA VoidRefines ==
  ASSUME IInv, TypeOK, NEW i \in DOMAIN settlements, Void(i)
  PROVE  Account!Next
<1>a. PICK d : d = settlements[i].driver
  OBVIOUS
<1>b. PICK after : after = Handovers[d]'
  OBVIOUS
<1>1. d \in Drivers /\ i # None /\ i = PreviousSettlement(d) /\ i \in Settled(d)
  <2>1. d \in Drivers /\ i \in Nat /\ i # None
    BY <1>a, SettlementIds, SettlementsAssumption DEF IInv, Shape
  <2> QED BY <1>a, <2>1, PreviousInIds DEF Void, Voidable, PreviousSettlement, IInv, Shape
<1>2. /\ TakenBack(d, Handover(i))
      /\ after = <<>> <=> Before(i) = None
      /\ after # <<>> => after[Len(after)] = Handover(Before(i))
  BY <1>a, <1>b, VoidMoves
<1>3. /\ Handovers[d] # <<>>
      /\ Account!Last(Handovers[d]) = Handover(i)
      /\ Account!Front(Handovers[d]) = after
  BY <1>b, <1>2 DEF TakenBack, Grown, Account!Last, Account!Front
<1>4. Work' = [Work EXCEPT ![d] = @ \cup Account!Last(Handovers[d]).items]
  BY <1>2, <1>3 DEF TakenBack
<1>5. Handovers' = [Handovers EXCEPT ![d] = Account!Front(@)]
  BY <1>b, <1>2, <1>3 DEF TakenBack
<1>6. ASSUME NEW cur \in Currencies
      PROVE  Account!Carried(after)[cur] = CarriedForward(Before(i), cur)
  <2>1. CASE after = <<>>
    BY <1>2, <2>1 DEF Account!Carried, Account!Nothing, CarriedForward
  <2>2. CASE after # <<>>
    <3>1. Account!Carried(after) = Handover(Before(i)).carried /\ Before(i) # None
      BY <1>2, <2>2 DEF Account!Carried, Account!Last
    <3> QED BY <3>1 DEF Handover, CarriedForward
  <2> QED BY <2>1, <2>2
<1>7. ASSUME NEW cur \in Currencies
      PROVE  (IF HasLine(settlements[i].lines[cur]) THEN settlements[i].lines[cur].broughtForward
              ELSE balances[d][cur]) = Account!Carried(after)[cur]
  <2>1. settlements[i].lines[cur].broughtForward = CarriedForward(Before(i), cur)
    BY <1>1 DEF IInv, BalanceIsChainEnd
  <2>2. CASE HasLine(settlements[i].lines[cur])
    BY <1>6, <2>1, <2>2
  <2>3. CASE ~HasLine(settlements[i].lines[cur])
    <3>1. balances[d][cur] = settlements[i].lines[cur].carriedForward
      BY <1>1 DEF IInv, BalanceIsChainEnd, CarriedForward
    <3>2. settlements[i].lines[cur].carriedForward = 0
      BY <2>3 DEF IInv, LinesInv
    <3>3. settlements[i].lines[cur].broughtForward = 0
      BY <2>3 DEF HasLine
    <3> QED BY <1>6, <2>1, <2>3, <3>1, <3>2, <3>3
  <2> QED BY <2>2, <2>3
<1>8. balances' = [balances EXCEPT ![d] = Account!Carried(after)]
  <2>1. Account!Carried(after) = [cur \in Currencies |-> Account!Carried(after)[cur]]
    <3>1. CASE after = <<>>
      BY <3>1 DEF Account!Carried, Account!Nothing
    <3>2. CASE after # <<>>
      BY <1>2, <3>2 DEF Account!Carried, Account!Last, Handover
    <3> QED BY <3>1, <3>2
  <2>2. [cur \in Currencies |->
           IF HasLine(settlements[i].lines[cur]) THEN settlements[i].lines[cur].broughtForward
           ELSE balances[d][cur]] = Account!Carried(after)
    BY <1>7, <2>1
  <2>3. balances' = [balances EXCEPT ![d] = [cur \in Currencies |->
           IF HasLine(settlements[i].lines[cur]) THEN settlements[i].lines[cur].broughtForward
           ELSE balances[d][cur]]]
    BY <1>a, <1>1 DEF Void, TypeOK
  <2> QED BY <2>2, <2>3
<1>9. Account!Undo(d)
  BY <1>3, <1>4, <1>5, <1>8 DEF Account!Undo
<1> QED BY <1>1, <1>9 DEF Account!Next

\* A step of the settlements is a step of the account or none.
LEMMA StepsRefine ==
  ASSUME IInv, TypeOK, [Next]_vars
  PROVE  [Account!Next]_<<Work, Handovers, balances>>
<1>1. CASE UNCHANGED <<orders, settlements, balances>>
  BY <1>1, AccountStutters
<1>2. CASE UNCHANGED vars
  BY <1>1, <1>2 DEF vars
<1>3. CASE Next
  <2>1. CASE Tick
    BY <1>1, <2>1 DEF Tick
  <2>2. ASSUME NEW o \in Orders, DeliverStamp(o) PROVE UNCHANGED <<orders, settlements, balances>>
    BY <2>2 DEF DeliverStamp
  <2>3. ASSUME NEW o \in Orders, NEW d \in Drivers, NEW cur \in Currencies,
               NEW commission \in Commissions, DeliverCommit(o, d, cur, commission)
        PROVE  Account!Next
    BY <2>3, DeliverRefines
  <2>4. ASSUME NEW c \in Calls,
               \/ \E d \in Drivers, cutoff \in 1 .. now : PreviewSweep(c, d, cutoff)
               \/ PreviewBalances(c) \/ SettleSweep(c) \/ Abort(c)
        PROVE  UNCHANGED <<orders, settlements, balances>>
    BY <2>4 DEF PreviewSweep, PreviewBalances, SettleSweep, Abort
  <2>5. ASSUME NEW c \in Calls, NEW adjusted \in Adjustments, NEW collected \in Collections,
               SettleCommit(c, adjusted, collected)
        PROVE  Account!Next \/ UNCHANGED <<Work, Handovers, balances>>
    BY <2>5, SettleRefines
  <2>6. ASSUME NEW i \in DOMAIN settlements, Void(i) PROVE Account!Next
    BY <2>6, VoidRefines
  <2> QED BY <1>1, <1>3, <2>1, <2>2, <2>3, <2>4, <2>5, <2>6 DEF Next
<1> QED BY <1>2, <1>3

\* Empty tables are empty accounts.
LEMMA InitRefines == Init => Account!Init
<1> SUFFICES ASSUME Init PROVE Account!Init
  OBVIOUS
<1>1. \A d, t : UnsettledWhere(d, t) = {}
  BY DEF Init, UnsettledWhere, Delivered, NotDelivered
<1>2. Work = [d \in Drivers |-> {}]
  BY <1>1 DEF Work
<1>3. ASSUME NEW d \in Drivers PROVE Handovers[d] = <<>>
  <2>1. Settled(d) = {}
    BY DEF Init, Settled
  <2>2. Cardinality(Settled(d)) = 0
    BY <2>1, FS_EmptySet
  <2>3. 1 .. Cardinality(Settled(d)) = {}
    BY <2>2
  <2> QED BY <2>3 DEF Handovers
<1>4. Handovers = [d \in Drivers |-> <<>>]
  BY <1>3 DEF Handovers
<1>5. balances = [d \in Drivers |-> Account!Nothing]
  BY DEF Init, Account!Nothing
<1> QED BY <1>2, <1>4, <1>5 DEF Account!Init

\* The settlements implement each driver's account: however dialogs,
\* deliveries, settles and voids interleave, a step puts one delivery on a
\* driver's pile, or takes off it exactly what a handover bills and moves the
\* balance by that less the cash, or undoes his last handover, or is unseen.
THEOREM Refinement == Spec => ImplementsAccount
<1>1. IInv /\ TypeOK /\ [Next]_vars => [Account!Next]_<<Work, Handovers, balances>>
  BY StepsRefine
<1> QED BY <1>1, InitRefines, Invariance, TypesHold, PTL DEF Spec, ImplementsAccount, Account!Spec
=============================================================================

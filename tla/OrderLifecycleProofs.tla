------------------------ MODULE OrderLifecycleProofs ------------------------
(***************************************************************************)
(* Theorems about OrderLifecycle, for every set of orders, drivers, calls, *)
(* charges and rates.                                                      *)
(***************************************************************************)
EXTENDS OrderLifecycle, TLAPS

\* calcCommission never exceeds the charge, so calcDriverEarnings never throws.
LEMMA CommissionBounds ==
  ASSUME NEW charge \in Nat, NEW bps \in Bps
  PROVE  CalcCommission(charge, bps) \in 0 .. charge
<1>1. charge * bps \in Nat /\ charge * bps <= charge * 10000
  BY DEF Bps, MAX_COMMISSION_BPS
<1>2. QED
  BY <1>1 DEF CalcCommission

\* calcCommission is the exact share of the charge, rounded half up: whatever the
\* charge and the rate, the platform takes at most half a unit more than its rate
\* says and less than half a unit less; nothing at no rate, the whole charge at the
\* highest.
THEOREM CommissionIsNearest ==
  ASSUME NEW charge \in Nat, NEW bps \in Bps
  PROVE  LET over == 10000 * CalcCommission(charge, bps) - charge * bps
         IN  /\ -5000 < over /\ over <= 5000
             /\ bps = 0 => CalcCommission(charge, bps) = 0
             /\ bps = MAX_COMMISSION_BPS => CalcCommission(charge, bps) = charge
<1> DEFINE share == charge * bps
<1>1. share \in Nat /\ (bps = 0 => share = 0) /\ (bps = 10000 => share = charge * 10000)
  BY DEF Bps, MAX_COMMISSION_BPS
<1>2. CalcCommission(charge, bps) = (share + 5000) \div 10000
  BY DEF CalcCommission
<1> HIDE DEF share
<1>3. PICK c \in Nat : /\ c = CalcCommission(charge, bps)
                       /\ 10000 * c <= share + 5000 /\ share + 5000 < 10000 * c + 10000
  BY <1>1, <1>2
<1>4. -5000 < 10000 * c - share /\ 10000 * c - share <= 5000
  BY <1>1, <1>3
<1>5. (bps = 0 => c = 0) /\ (bps = 10000 => c = charge)
  BY <1>1, <1>3
<1> QED BY <1>3, <1>4, <1>5 DEF share, MAX_COMMISSION_BPS

\* The split computeSnapshot freezes is exact and has no negative part.
LEMMA SnapshotSplit ==
  ASSUME NEW charge \in Nat, NEW bps \in Bps
  PROVE  /\ ComputeSnapshot(charge, bps) \in Snapshots
         /\ ComputeSnapshot(charge, bps).platformCommissionAmount
              + ComputeSnapshot(charge, bps).driverEarnings = charge
<1>1. CalcCommission(charge, bps) \in 0 .. charge
  BY CommissionBounds
<1>2. QED
  BY <1>1 DEF ComputeSnapshot, CalcDriverEarnings, Snapshots

-----------------------------------------------------------------------------
(* The inductive invariant.  DbConstraints is not inductive: that PENDING   *)
(* carries no timestamp and DRIVER_ASSIGNED no pickedUpAt is what makes     *)
(* release() and pickup() keep the CHECKs.                                  *)

\* What each status says of the rest of the row.
RowInv(row) ==
  /\ row.status = "ABSENT" => row = Absent
  /\ row.status # "ABSENT" => row.deliveryCharge \in Charges
  /\ row.snapshot # None =>
       row.snapshot.platformCommissionAmount + row.snapshot.driverEarnings
         = row.deliveryCharge
  /\ row.status = "PENDING" =>
       /\ row.driver = None /\ row.snapshot = None
       /\ ~row.assignedAt /\ ~row.pickedUpAt /\ ~row.deliveredAt
  /\ row.status \in {"DRIVER_ASSIGNED", "PICKED_UP", "DELIVERED", "FAILED"} =>
       /\ row.driver # None /\ row.snapshot # None /\ row.assignedAt
       /\ row.pickedUpAt = (row.status # "DRIVER_ASSIGNED")
       /\ row.deliveredAt = (row.status = "DELIVERED")
  /\ row.status = "CANCELLED" =>
       (row.pickedUpAt => row.assignedAt) /\ ~row.deliveredAt

RowsInv == \A o \in Orders : RowInv(orders[o])

\* A command in flight is about an order that exists.
CallsInv == \A c \in Calls :
              calls[c].phase # "idle" => orders[calls[c].order].status # "ABSENT"

IInv == TypeOK /\ RowsInv /\ CallsInv

\* Every write is a Commit of a row and a history row of the right shape.
LEMMA CommitKeepsTypes ==
  ASSUME TypeOK, RowsInv, NEW o \in Orders, NEW row \in OrderRows,
         NEW entry \in HistoryRows, RowInv(row), Commit(o, row, entry)
  PROVE  /\ orders' \in [Orders -> OrderRows]
         /\ history' \in [Orders -> Seq(HistoryRows)]
         /\ RowsInv'
<1>1. orders' \in [Orders -> OrderRows]
  BY DEF TypeOK, Commit
<1>2. history' \in [Orders -> Seq(HistoryRows)]
  BY DEF TypeOK, Commit
<1>3. RowsInv'
  BY DEF RowsInv, TypeOK, Commit
<1>4. QED
  BY <1>1, <1>2, <1>3

\* The phase of a call says which kind it is, hence what its fields hold.
LEMMA CallKinds ==
  ASSUME TypeOK, NEW c \in Calls
  PROVE  /\ calls[c].phase \in {"accept", "accept locked"} => calls[c] \in AcceptCalls
         /\ calls[c].phase \in {"release", "cancel"} => calls[c] \in ReadCalls
         /\ calls[c].phase = "reassign" => calls[c] \in ReassignCalls
         /\ calls[c].phase = "reassign locked" => calls[c] \in ReassignLockedCalls
         /\ \/ calls[c].phase = "idle"
            \/ calls[c] \in AcceptCalls \cup ReadCalls
                              \cup ReassignCalls \cup ReassignLockedCalls
<1>1. \/ calls[c] = NoCall
      \/ calls[c] \in AcceptCalls \/ calls[c] \in ReadCalls
      \/ calls[c] \in ReassignCalls \/ calls[c] \in ReassignLockedCalls
  BY DEF TypeOK, CallRows
<1>2. CASE calls[c] = NoCall
  BY <1>2 DEF NoCall
<1>3. CASE calls[c] \in AcceptCalls
  BY <1>3 DEF AcceptCalls
<1>4. CASE calls[c] \in ReadCalls
  BY <1>4 DEF ReadCalls
<1>5. CASE calls[c] \in ReassignCalls
  BY <1>5 DEF ReassignCalls
<1>6. CASE calls[c] \in ReassignLockedCalls
  BY <1>6 DEF ReassignLockedCalls
<1>7. QED
  BY <1>1, <1>2, <1>3, <1>4, <1>5, <1>6

\* What the record of a call holds, by its phase.
LEMMA CallFields ==
  ASSUME TypeOK, NEW c \in Calls, calls[c].phase # "idle"
  PROVE  /\ calls[c].order \in Orders
         /\ calls[c].by \in Drivers \cup {Admin}
         /\ calls[c].phase \in {"accept", "accept locked", "reassign", "reassign locked"}
              => calls[c].driver \in Drivers /\ calls[c].bps \in Bps
         /\ calls[c].phase \in {"release", "cancel", "reassign locked"}
              => calls[c].before \in Befores
         /\ calls[c].phase \in {"reassign", "reassign locked"} => calls[c].by = Admin
<1>1. \/ calls[c] \in AcceptCalls \/ calls[c] \in ReadCalls
      \/ calls[c] \in ReassignCalls \/ calls[c] \in ReassignLockedCalls
  BY CallKinds
<1>2. CASE calls[c] \in AcceptCalls
  BY <1>2 DEF AcceptCalls
<1>3. CASE calls[c] \in ReadCalls
  BY <1>3 DEF ReadCalls
<1>4. CASE calls[c] \in ReassignCalls
  BY <1>4 DEF ReassignCalls
<1>5. CASE calls[c] \in ReassignLockedCalls
  BY <1>5 DEF ReassignLockedCalls
<1>6. QED
  BY <1>1, <1>2, <1>3, <1>4, <1>5

\* A call whose order exists keeps it: no write makes an order absent.
LEMMA CommitKeepsCalls ==
  ASSUME TypeOK, CallsInv, NEW o \in Orders, NEW row, NEW entry,
         row.status # "ABSENT", Commit(o, row, entry)
  PROVE  \A c \in Calls : calls[c].phase # "idle" =>
           orders'[calls[c].order].status # "ABSENT"
BY CallFields DEF CallsInv, TypeOK, Commit

\* Ending a call keeps the type of the calls.
LEMMA EndType ==
  ASSUME TypeOK, NEW c \in Calls, End(c)
  PROVE  /\ calls' \in [Calls -> CallRows]
         /\ calls'[c].phase = "idle"
         /\ \A x \in Calls : x # c => calls'[x] = calls[x]
BY DEF TypeOK, End, CallRows, NoCall

\* The row of an order given to a driver, by accept() or by reassignment.
LEMMA AssignedRow ==
  ASSUME IInv, NEW o \in Orders, NEW d \in Drivers, NEW bps \in Bps,
         orders[o].status \in {"PENDING", "DRIVER_ASSIGNED", "PICKED_UP"}
  PROVE  /\ Assigned(o, d, bps) \in OrderRows
         /\ Reassigned(o, d, bps) \in OrderRows
         /\ orders[o].status = "PENDING" => RowInv(Assigned(o, d, bps))
         /\ RowInv(Reassigned(o, d, bps))
<1> DEFINE s == ComputeSnapshot(orders[o].deliveryCharge, bps)
<1>1. orders[o] \in OrderRows /\ RowInv(orders[o])
  BY DEF IInv, TypeOK, RowsInv
<1>2. orders[o].deliveryCharge \in Charges /\ orders[o].deliveryCharge \in Nat
  BY <1>1, MoneyAssumption DEF RowInv
<1>3. /\ s \in Snapshots
      /\ s.platformCommissionAmount + s.driverEarnings = orders[o].deliveryCharge
  BY <1>2, SnapshotSplit
<1>4. s # None /\ d # None
  BY <1>3, SnapshotAssumption, ActorsAssumption
<1> HIDE DEF s
<1>5. Assigned(o, d, bps) = [orders[o] EXCEPT !.status = "DRIVER_ASSIGNED", !.driver = d,
                                             !.snapshot = s, !.assignedAt = TRUE]
  BY DEF Assigned, s
<1>6. Assigned(o, d, bps) \in OrderRows
  BY <1>1, <1>3, <1>5 DEF OrderRows, OrderStatus
<1>7. Reassigned(o, d, bps) \in OrderRows
  BY <1>6 DEF OrderRows, Reassigned
<1>8. orders[o].status = "PENDING" => RowInv(Assigned(o, d, bps))
  BY <1>1, <1>2, <1>3, <1>4, <1>5 DEF OrderRows, RowInv
<1>9. RowInv(Reassigned(o, d, bps))
  BY <1>1, <1>2, <1>3, <1>4, <1>5 DEF OrderRows, RowInv, Reassigned
<1>10. QED
  BY <1>6, <1>7, <1>8, <1>9
-----------------------------------------------------------------------------
(* One lemma per group of actions: each keeps the inductive invariant.      *)

\* The empty tables satisfy the inductive invariant.
LEMMA InitIInv == Init => IInv
<1> SUFFICES ASSUME Init PROVE IInv
  OBVIOUS
<1>1. TypeOK
  <2>1. orders \in [Orders -> OrderRows]
    BY DEF Init, Absent, OrderRows
  <2>2. history \in [Orders -> Seq(HistoryRows)]
    BY DEF Init
  <2>3. drivers \in [Drivers -> DriverRows]
    BY DEF Init, DriverRows
  <2>4. calls \in [Calls -> CallRows]
    BY DEF Init, CallRows
  <2>5. QED
    BY <2>1, <2>2, <2>3, <2>4 DEF TypeOK
<1>2. RowsInv
  BY DEF Init, RowsInv, RowInv, Absent
<1>3. CallsInv
  BY DEF Init, CallsInv, NoCall
<1>4. QED
  BY <1>1, <1>2, <1>3 DEF IInv

\* Commands of one statement: a Commit with no call involved.
LEMMA CommitKeepsIInv ==
  ASSUME IInv, NEW o \in Orders, NEW row \in OrderRows, NEW entry \in HistoryRows,
         RowInv(row), row.status # "ABSENT", Commit(o, row, entry),
         UNCHANGED <<drivers, calls>>
  PROVE  IInv'
<1>1. TypeOK' /\ RowsInv'
  BY CommitKeepsTypes DEF IInv, TypeOK
<1>2. CallsInv'
  BY CommitKeepsCalls DEF IInv, CallsInv
<1>3. QED
  BY <1>1, <1>2 DEF IInv

\* A new order keeps the inductive invariant.
LEMMA CreateKeepsIInv ==
  ASSUME IInv, NEW o \in Orders, NEW v \in Vendors, NEW charge \in Charges,
         Create(o, v, charge)
  PROVE  IInv'
<1> DEFINE row == [Absent EXCEPT !.status = "PENDING", !.vendor = v,
                                 !.deliveryCharge = charge]
<1>1. row \in OrderRows
  BY DEF Absent, OrderRows, OrderStatus
<1>2. RowInv(row) /\ row.status # "ABSENT"
  BY DEF Absent, RowInv
<1>3. Row(None, "PENDING", v, None) \in HistoryRows
  BY DEF Row, HistoryRows, OrderStatus
<1> HIDE DEF row
<1>4. Commit(o, row, Row(None, "PENDING", v, None)) /\ UNCHANGED <<drivers, calls>>
  BY DEF Create, row
<1>5. QED
  BY <1>1, <1>2, <1>3, <1>4, CommitKeepsIInv

\* pickup, deliver and fail share driverTransition().
LEMMA TransitionKeepsIInv ==
  ASSUME IInv, NEW o \in Orders, NEW by \in Drivers \cup {Admin},
         Pickup(o, by) \/ Deliver(o, by) \/ Fail(o, by)
  PROVE  IInv'
<1>1. orders[o] \in OrderRows /\ RowInv(orders[o])
  BY DEF IInv, TypeOK, RowsInv
<1>2. CASE Pickup(o, by)
  <2> DEFINE row == [orders[o] EXCEPT !.status = "PICKED_UP", !.pickedUpAt = TRUE]
  <2>1. row \in OrderRows
    BY <1>1 DEF OrderRows, OrderStatus
  <2>2. orders[o].status = "DRIVER_ASSIGNED"
    BY <1>2 DEF Pickup, DriverTransition
  <2>3. RowInv(row) /\ row.status # "ABSENT" /\ row.status = "PICKED_UP"
    BY <1>1, <2>2 DEF OrderRows, RowInv
  <2>4. Row("DRIVER_ASSIGNED", row.status, by, None) \in HistoryRows
    BY <2>3 DEF Row, HistoryRows, OrderStatus
  <2> HIDE DEF row
  <2>5. Commit(o, row, Row("DRIVER_ASSIGNED", row.status, by, None))
          /\ UNCHANGED <<drivers, calls>>
    BY <1>2 DEF Pickup, DriverTransition, row
  <2>6. QED
    BY <2>1, <2>3, <2>4, <2>5, CommitKeepsIInv
<1>3. CASE Deliver(o, by)
  <2> DEFINE row == [orders[o] EXCEPT !.status = "DELIVERED", !.deliveredAt = TRUE]
  <2>1. row \in OrderRows
    BY <1>1 DEF OrderRows, OrderStatus
  <2>2. orders[o].status = "PICKED_UP"
    BY <1>3 DEF Deliver, DriverTransition
  <2>3. RowInv(row) /\ row.status # "ABSENT" /\ row.status = "DELIVERED"
    BY <1>1, <2>2 DEF OrderRows, RowInv
  <2>4. Row("PICKED_UP", row.status, by, None) \in HistoryRows
    BY <2>3 DEF Row, HistoryRows, OrderStatus
  <2> HIDE DEF row
  <2>5. Commit(o, row, Row("PICKED_UP", row.status, by, None))
          /\ UNCHANGED <<drivers, calls>>
    BY <1>3 DEF Deliver, DriverTransition, row
  <2>6. QED
    BY <2>1, <2>3, <2>4, <2>5, CommitKeepsIInv
<1>4. CASE Fail(o, by)
  <2> DEFINE row == [orders[o] EXCEPT !.status = "FAILED"]
  <2>1. row \in OrderRows
    BY <1>1 DEF OrderRows, OrderStatus
  <2>2. orders[o].status = "PICKED_UP"
    BY <1>4 DEF Fail, DriverTransition
  <2>3. RowInv(row) /\ row.status # "ABSENT" /\ row.status = "FAILED"
    BY <1>1, <2>2 DEF OrderRows, RowInv
  <2>4. Row("PICKED_UP", row.status, by, None) \in HistoryRows
    BY <2>3 DEF Row, HistoryRows, OrderStatus
  <2> HIDE DEF row
  <2>5. Commit(o, row, Row("PICKED_UP", row.status, by, None))
          /\ UNCHANGED <<drivers, calls>>
    BY <1>4 DEF Fail, DriverTransition, row
  <2>6. QED
    BY <2>1, <2>3, <2>4, <2>5, CommitKeepsIInv
<1>5. QED
  BY <1>2, <1>3, <1>4

\* So does a vendor who cancels a pending order.
LEMMA VendorCancelKeepsIInv ==
  ASSUME IInv, NEW o \in Orders, NEW v \in Vendors, VendorCancel(o, v)
  PROVE  IInv'
<1> DEFINE row == [orders[o] EXCEPT !.status = "CANCELLED"]
<1>1. orders[o] \in OrderRows /\ RowInv(orders[o]) /\ orders[o].status = "PENDING"
  BY DEF IInv, TypeOK, RowsInv, VendorCancel
<1>2. row \in OrderRows
  BY <1>1 DEF OrderRows, OrderStatus
<1>3. RowInv(row) /\ row.status # "ABSENT"
  BY <1>1 DEF OrderRows, RowInv
<1>4. Row("PENDING", "CANCELLED", v, None) \in HistoryRows
  BY DEF Row, HistoryRows, OrderStatus
<1> HIDE DEF row
<1>5. Commit(o, row, Row("PENDING", "CANCELLED", v, None)) /\ UNCHANGED <<drivers, calls>>
  BY DEF VendorCancel, row
<1>6. QED
  BY <1>2, <1>3, <1>4, <1>5, CommitKeepsIInv

\* The last step of a command that committed.
LEMMA CommitEndKeepsIInv ==
  ASSUME IInv, NEW c \in Calls, NEW o \in Orders, NEW row \in OrderRows,
         NEW entry \in HistoryRows, RowInv(row), row.status # "ABSENT",
         Commit(o, row, entry), End(c), UNCHANGED drivers
  PROVE  IInv'
<1>1. TypeOK /\ RowsInv /\ CallsInv
  BY DEF IInv
<1>2. TypeOK' /\ RowsInv'
  BY <1>1, CommitKeepsTypes, EndType DEF TypeOK
<1>3. CallsInv'
  BY <1>1, CommitKeepsCalls, EndType DEF CallsInv
<1>4. QED
  BY <1>2, <1>3 DEF IInv

\* The last step of a command that was refused, timed out or lost.
LEMMA EndKeepsIInv ==
  ASSUME IInv, NEW c \in Calls, End(c), UNCHANGED <<orders, history, drivers>>
  PROVE  IInv'
<1>1. TypeOK /\ RowsInv /\ CallsInv
  BY DEF IInv
<1>2. TypeOK'
  BY <1>1, EndType DEF TypeOK
<1>3. RowsInv' /\ CallsInv'
  BY <1>1, EndType DEF CallsInv, RowsInv
<1>4. QED
  BY <1>2, <1>3 DEF IInv

\* A step that only fills in the record of a call.
LEMMA CallStepKeepsIInv ==
  ASSUME IInv, NEW c \in Calls, NEW call \in CallRows,
         calls' = [calls EXCEPT ![c] = call],
         call.phase # "idle" => orders[call.order].status # "ABSENT",
         UNCHANGED <<orders, history, drivers>>
  PROVE  IInv'
BY DEF IInv, TypeOK, RowsInv, CallsInv

\* So does the first statement of a longer command.
LEMMA StartKeepsIInv ==
  ASSUME IInv, NEW c \in Calls, NEW o \in Orders, Start(c, o)
  PROVE  IInv'
<1>1. orders[o] \in OrderRows /\ TypeOK
  BY DEF IInv, TypeOK
<1>2. ASSUME NEW d \in Drivers
      PROVE  ResolveCommissionBps(d) \in Bps
  BY <1>1, MoneyAssumption DEF TypeOK, DriverRows, ResolveCommissionBps
<1>3. orders[o].status # "ABSENT" => Before(o) \in Befores
  BY <1>1 DEF OrderRows, Before, Befores
<1>4. ASSUME NEW d \in Drivers, NEW by \in {d, Admin}, AcceptCheck(c, o, d, by)
      PROVE  IInv'
  <2> DEFINE call == [NoCall EXCEPT !.phase = "accept", !.order = o, !.driver = d,
                                    !.by = by, !.bps = ResolveCommissionBps(d)]
  <2>1. call \in CallRows /\ call.order = o
    BY <1>2 DEF CallRows, NoCall, AcceptCalls, ReassignCalls
  <2> HIDE DEF call
  <2>2. /\ orders[o].status # "ABSENT"
        /\ calls' = [calls EXCEPT ![c] = call]
        /\ UNCHANGED <<orders, history, drivers>>
    BY <1>4 DEF AcceptCheck, Begin, call
  <2>3. QED
    BY <2>1, <2>2, CallStepKeepsIInv
<1>5. ASSUME NEW by \in Drivers \cup {Admin}, ReleaseRead(c, o, by)
      PROVE  IInv'
  <2> DEFINE call == [NoCall EXCEPT !.phase = "release", !.order = o, !.by = by,
                                    !.before = Before(o)]
  <2>1. orders[o].status # "ABSENT"
    BY <1>5 DEF ReleaseRead
  <2>2. call \in CallRows /\ call.order = o
    BY <1>3, <2>1 DEF CallRows, NoCall, ReadCalls
  <2> HIDE DEF call
  <2>3. calls' = [calls EXCEPT ![c] = call] /\ UNCHANGED <<orders, history, drivers>>
    BY <1>5 DEF ReleaseRead, Begin, call
  <2>4. QED
    BY <2>1, <2>2, <2>3, CallStepKeepsIInv
<1>6. ASSUME AdminCancelRead(c, o)
      PROVE  IInv'
  <2> DEFINE call == [NoCall EXCEPT !.phase = "cancel", !.order = o, !.by = Admin,
                                    !.before = Before(o)]
  <2>1. orders[o].status # "ABSENT"
    BY <1>6 DEF AdminCancelRead
  <2>2. call \in CallRows /\ call.order = o
    BY <1>3, <2>1 DEF CallRows, NoCall, ReadCalls
  <2> HIDE DEF call
  <2>3. calls' = [calls EXCEPT ![c] = call] /\ UNCHANGED <<orders, history, drivers>>
    BY <1>6 DEF AdminCancelRead, Begin, call
  <2>4. QED
    BY <2>1, <2>2, <2>3, CallStepKeepsIInv
<1>7. ASSUME NEW d \in Drivers, ReassignCheck(c, o, d)
      PROVE  IInv'
  <2> DEFINE call == [NoCall EXCEPT !.phase = "reassign", !.order = o, !.driver = d,
                                    !.by = Admin, !.bps = ResolveCommissionBps(d)]
  <2>1. call \in CallRows /\ call.order = o
    BY <1>2 DEF CallRows, NoCall, AcceptCalls, ReassignCalls
  <2> HIDE DEF call
  <2>2. /\ orders[o].status # "ABSENT"
        /\ calls' = [calls EXCEPT ![c] = call]
        /\ UNCHANGED <<orders, history, drivers>>
    BY <1>7 DEF ReassignCheck, Begin, call
  <2>3. QED
    BY <2>1, <2>2, CallStepKeepsIInv
<1>8. QED
  BY <1>4, <1>5, <1>6, <1>7 DEF Start

\* accept(), under the lock and at its UPDATE.
LEMMA AcceptKeepsIInv ==
  ASSUME IInv, NEW c \in Calls, AcceptLock(c) \/ AcceptCommit(c)
  PROVE  IInv'
<1> DEFINE call == calls[c]
           o == call.order
<1>1. TypeOK /\ RowsInv /\ CallsInv
  BY DEF IInv
<1>2. CASE AcceptLock(c)
  <2>1. call.phase = "accept"
    BY <1>2 DEF AcceptLock
  <2>2. call \in AcceptCalls
    BY <1>1, <2>1, CallKinds
  <2>3. [call EXCEPT !.phase = "accept locked"] \in CallRows
    <3>1. [call EXCEPT !.phase = "accept locked"] \in AcceptCalls
      BY <2>2 DEF AcceptCalls
    <3>2. QED
      BY <3>1 DEF CallRows
  <2>4. orders[o].status # "ABSENT"
    BY <1>1, <2>1 DEF CallsInv
  <2>5. \/ calls' = [calls EXCEPT ![c] = [call EXCEPT !.phase = "accept locked"]]
        \/ End(c)
    BY <1>2 DEF AcceptLock
  <2>6. UNCHANGED <<orders, history, drivers>>
    BY <1>2 DEF AcceptLock
  <2>7. [call EXCEPT !.phase = "accept locked"].order = o
    BY <2>2 DEF AcceptCalls
  <2> HIDE DEF call
  <2>8. QED
    BY <2>3, <2>4, <2>5, <2>6, <2>7, CallStepKeepsIInv, EndKeepsIInv
<1>3. CASE AcceptCommit(c)
  <2>1. call.phase = "accept locked" /\ End(c) /\ UNCHANGED drivers
    BY <1>3 DEF AcceptCommit
  <2>2. o \in Orders /\ call.driver \in Drivers /\ call.bps \in Bps
          /\ call.by \in Drivers \cup {Admin}
    BY <1>1, <2>1, CallFields
  <2>3. CASE AcceptGuard(o)
    <3>1. orders[o].status = "PENDING"
      BY <2>3 DEF AcceptGuard
    <3>2. Assigned(o, call.driver, call.bps) \in OrderRows
            /\ RowInv(Assigned(o, call.driver, call.bps))
      BY <2>2, <3>1, AssignedRow
    <3>3. Assigned(o, call.driver, call.bps).status # "ABSENT"
      BY <1>1, <2>2 DEF Assigned, TypeOK, OrderRows
    <3>4. Row("PENDING", "DRIVER_ASSIGNED", call.by, call.driver) \in HistoryRows
      BY <2>2 DEF Row, HistoryRows, OrderStatus
    <3>5. Commit(o, Assigned(o, call.driver, call.bps),
                 Row("PENDING", "DRIVER_ASSIGNED", call.by, call.driver))
      BY <1>3, <2>3 DEF AcceptCommit
    <3>6. QED
      BY <2>1, <2>2, <3>2, <3>3, <3>4, <3>5, CommitEndKeepsIInv
  <2>4. CASE ~AcceptGuard(o)
    BY <1>3, <2>1, <2>4, EndKeepsIInv DEF AcceptCommit
  <2>5. QED
    BY <2>3, <2>4
<1>4. QED
  BY <1>2, <1>3

\* release(), at its UPDATE.
LEMMA ReleaseKeepsIInv ==
  ASSUME IInv, NEW c \in Calls, ReleaseCommit(c)
  PROVE  IInv'
<1> DEFINE call == calls[c]
           o == call.order
<1>1. TypeOK /\ RowsInv /\ CallsInv
  BY DEF IInv
<1>2. call.phase = "release" /\ End(c) /\ UNCHANGED drivers
  BY DEF ReleaseCommit
<1>3. o \in Orders /\ call.before \in Befores /\ call.by \in Drivers \cup {Admin}
  BY <1>1, <1>2, CallFields
<1>4. CASE ReleaseGuard(o, call.by)
  <2>1. /\ orders[o] \in OrderRows /\ RowInv(orders[o])
        /\ orders[o].status = "DRIVER_ASSIGNED"
    BY <1>1, <1>3, <1>4 DEF TypeOK, RowsInv, ReleaseGuard
  <2>2. Released(o) \in OrderRows
    BY <2>1 DEF Released, OrderRows, OrderStatus
  <2>3. RowInv(Released(o)) /\ Released(o).status # "ABSENT"
    BY <2>1 DEF Released, OrderRows, RowInv
  <2>4. Row("DRIVER_ASSIGNED", "PENDING", call.by, call.before.driver) \in HistoryRows
    BY <1>3 DEF Row, HistoryRows, OrderStatus, Befores
  <2>5. Commit(o, Released(o), Row("DRIVER_ASSIGNED", "PENDING", call.by,
                                   call.before.driver))
    BY <1>4 DEF ReleaseCommit
  <2>6. QED
    BY <1>2, <1>3, <2>2, <2>3, <2>4, <2>5, CommitEndKeepsIInv
<1>5. CASE ~ReleaseGuard(o, call.by)
  BY <1>2, <1>5, EndKeepsIInv DEF ReleaseCommit
<1>6. QED
  BY <1>4, <1>5

\* adminCancel(), at its UPDATE.
LEMMA AdminCancelKeepsIInv ==
  ASSUME IInv, NEW c \in Calls, AdminCancelCommit(c)
  PROVE  IInv'
<1> DEFINE call == calls[c]
           o == call.order
           row == [orders[o] EXCEPT !.status = "CANCELLED"]
<1>1. TypeOK /\ RowsInv /\ CallsInv
  BY DEF IInv
<1>2. call.phase = "cancel" /\ End(c) /\ UNCHANGED drivers
  BY DEF AdminCancelCommit
<1>3. o \in Orders /\ call.before \in Befores
  BY <1>1, <1>2, CallFields
<1>4. CASE CancelGuard(o)
  <2>1. /\ orders[o] \in OrderRows /\ RowInv(orders[o])
        /\ orders[o].status \in {"PENDING", "DRIVER_ASSIGNED", "PICKED_UP"}
    BY <1>1, <1>3, <1>4 DEF TypeOK, RowsInv, CancelGuard
  <2>2. row \in OrderRows
    BY <2>1 DEF OrderRows, OrderStatus
  <2>3. RowInv(row) /\ row.status # "ABSENT"
    BY <2>1 DEF OrderRows, RowInv
  <2>4. Row(call.before.status, "CANCELLED", Admin, None) \in HistoryRows
    BY <1>3 DEF Row, HistoryRows, OrderStatus, Befores
  <2>5. Commit(o, row, Row(call.before.status, "CANCELLED", Admin, None))
    BY <1>4 DEF AdminCancelCommit
  <2> HIDE DEF row
  <2>6. QED
    BY <1>2, <1>3, <2>2, <2>3, <2>4, <2>5, CommitEndKeepsIInv
<1>5. CASE ~CancelGuard(o)
  BY <1>2, <1>5, EndKeepsIInv DEF AdminCancelCommit
<1>6. QED
  BY <1>4, <1>5

\* adminReassign(), under the lock and at its UPDATE.
LEMMA ReassignKeepsIInv ==
  ASSUME IInv, NEW c \in Calls, ReassignLock(c) \/ ReassignCommit(c)
  PROVE  IInv'
<1> DEFINE call == calls[c]
           o == call.order
<1>1. TypeOK /\ RowsInv /\ CallsInv
  BY DEF IInv
<1>2. CASE ReassignLock(c)
  <2> DEFINE next == [call EXCEPT !.phase = "reassign locked", !.before = Before(o)]
  <2>1. call.phase = "reassign" /\ UNCHANGED <<orders, history, drivers>>
    BY <1>2 DEF ReassignLock
  <2>2. call \in ReassignCalls /\ o \in Orders
    BY <1>1, <2>1, CallKinds, CallFields
  <2>3. orders[o].status # "ABSENT"
    BY <1>1, <2>1 DEF CallsInv
  <2>4. Before(o) \in Befores
    <3>1. orders[o] \in OrderRows
      BY <1>1, <2>2 DEF TypeOK
    <3>2. QED
      BY <2>3, <3>1 DEF OrderRows, Before, Befores
  <2>5. next \in ReassignLockedCalls /\ next.order = o
    BY <2>2, <2>4 DEF ReassignCalls, ReassignLockedCalls
  <2>6. next \in CallRows
    BY <2>5 DEF CallRows
  <2>7. calls' = [calls EXCEPT ![c] = next] \/ End(c)
    BY <1>2 DEF ReassignLock
  <2> HIDE DEF next, call
  <2>8. QED
    BY <2>1, <2>3, <2>5, <2>6, <2>7, CallStepKeepsIInv, EndKeepsIInv
<1>3. CASE ReassignCommit(c)
  <2>1. call.phase = "reassign locked" /\ End(c) /\ UNCHANGED drivers
    BY <1>3 DEF ReassignCommit
  <2>2. o \in Orders /\ call.driver \in Drivers /\ call.bps \in Bps
          /\ call.before \in Befores
    BY <1>1, <2>1, CallFields
  <2>3. CASE ReassignGuard(o, call.before)
    <3>1. orders[o].status \in {"DRIVER_ASSIGNED", "PICKED_UP"}
      BY <2>3 DEF ReassignGuard
    <3>2. Reassigned(o, call.driver, call.bps) \in OrderRows
            /\ RowInv(Reassigned(o, call.driver, call.bps))
      BY <2>2, <3>1, AssignedRow
    <3>3. Reassigned(o, call.driver, call.bps).status # "ABSENT"
      BY <1>1, <2>2 DEF Reassigned, Assigned, TypeOK, OrderRows
    <3>4. Row(call.before.status, "DRIVER_ASSIGNED", Admin, call.driver) \in HistoryRows
      BY <2>2 DEF Row, HistoryRows, OrderStatus, Befores
    <3>5. Commit(o, Reassigned(o, call.driver, call.bps),
                 Row(call.before.status, "DRIVER_ASSIGNED", Admin, call.driver))
      BY <1>3, <2>3 DEF ReassignCommit
    <3>6. QED
      BY <2>1, <2>2, <3>2, <3>3, <3>4, <3>5, CommitEndKeepsIInv
  <2>4. CASE ~ReassignGuard(o, call.before)
    BY <1>3, <2>1, <2>4, EndKeepsIInv DEF ReassignCommit
  <2>5. QED
    BY <2>3, <2>4
<1>4. QED
  BY <1>2, <1>3

\* An update of a driver touches no order and no call.
LEMMA DriverChangeKeepsIInv ==
  ASSUME IInv, NEW d \in Drivers, DriverChange(d)
  PROVE  IInv'
<1>1. drivers' \in [Drivers -> DriverRows]
  <2>1. drivers \in [Drivers -> DriverRows]
    BY DEF IInv, TypeOK
  <2>2. ASSUME NEW input \in DriverInputs, UpdateDriver(d, input)
        PROVE  drivers' \in [Drivers -> DriverRows]
    <3>1. /\ input.status \in {"ACTIVE", "SUSPENDED"}
          /\ input.commissionOverrideBps \in Rates \cup {None}
      BY MoneyAssumption
    <3>2. QED
      BY <2>1, <2>2, <3>1 DEF UpdateDriver, DriverRows
  <2>3. ASSUME NEW s \in {"ON_DUTY", "OFF_DUTY"}, SetDuty(d, s)
        PROVE  drivers' \in [Drivers -> DriverRows]
    BY <2>1, <2>3 DEF SetDuty, DriverRows
  <2>4. QED
    BY <2>2, <2>3 DEF DriverChange
<1>2. UNCHANGED <<orders, history, calls>>
  BY DEF DriverChange, UpdateDriver, SetDuty
<1>3. QED
  BY <1>1, <1>2 DEF IInv, TypeOK, RowsInv, CallsInv

\* Every step of the system keeps the inductive invariant.
LEMMA NextKeepsIInv == IInv /\ [Next]_vars => IInv'
<1> SUFFICES ASSUME IInv, [Next]_vars PROVE IInv'
  OBVIOUS
<1>1. ASSUME NEW o \in Orders, Command(o)
      PROVE  IInv'
  BY <1>1, CreateKeepsIInv, TransitionKeepsIInv, VendorCancelKeepsIInv DEF Command
<1>2. ASSUME NEW c \in Calls, NEW o \in Orders, Start(c, o)
      PROVE  IInv'
  BY <1>2, StartKeepsIInv
<1>3. ASSUME NEW c \in Calls, Continue(c)
      PROVE  IInv'
  BY <1>3, AcceptKeepsIInv, ReleaseKeepsIInv, AdminCancelKeepsIInv, ReassignKeepsIInv
     DEF Continue
<1>4. ASSUME NEW c \in Calls, Abort(c)
      PROVE  IInv'
  BY <1>4, EndKeepsIInv DEF Abort
<1>5. ASSUME NEW d \in Drivers, DriverChange(d)
      PROVE  IInv'
  BY <1>5, DriverChangeKeepsIInv
<1>6. CASE UNCHANGED vars
  BY <1>6 DEF vars, IInv, TypeOK, RowsInv, CallsInv
<1>7. QED
  BY <1>1, <1>2, <1>3, <1>4, <1>5, <1>6 DEF Next

\* The tables and the calls in flight keep their types.
THEOREM Typing == Spec => []TypeOK
<1>1. IInv => TypeOK
  BY DEF IInv
<1>2. QED
  BY <1>1, InitIInv, NextKeepsIInv, PTL DEF Spec

\* No command ever writes a row that a CHECK constraint of the orders table
\* refuses: the database guards never turn a legal command into a 500.
THEOREM DbConstraintsHold == Spec => []DbConstraints
<1>1. IInv => DbConstraints
  <2> SUFFICES ASSUME IInv, NEW o \in Orders, orders[o].status # "ABSENT"
               PROVE  /\ SnapshotConsistent(orders[o])
                      /\ StatusDriverCoupling(orders[o])
                      /\ TsOrdering(orders[o])
    BY DEF DbConstraints
  <2>1. orders[o] \in OrderRows /\ RowInv(orders[o])
    BY DEF IInv, TypeOK, RowsInv
  <2>2. SnapshotConsistent(orders[o])
    BY <2>1 DEF OrderRows, RowInv, SnapshotConsistent, Snapshots
  <2>3. StatusDriverCoupling(orders[o])
    BY <2>1 DEF OrderRows, OrderStatus, RowInv, StatusDriverCoupling
  <2>4. TsOrdering(orders[o])
    BY <2>1 DEF OrderRows, OrderStatus, RowInv, TsOrdering
  <2>5. QED
    BY <2>2, <2>3, <2>4
<1>2. QED
  BY <1>1, InitIInv, NextKeepsIInv, PTL DEF Spec

-----------------------------------------------------------------------------
(* What the commands do to an order: who it is given to, what happens to    *)
(* its split, what its history tells, and that every change is one of the   *)
(* shared transition table.  Each step of the system either leaves orders   *)
(* and history alone or commits one row and one history row, of one of      *)
(* seven kinds.  The theorems follow from the kinds.                        *)

(* The inductive invariant beyond IInv.                                    *)

\* A driver stays as the row lock found him while his order is assigned.
AvailableInv == \A c \in Calls :
  calls[c].phase \in Locking => Available(calls[c].driver, calls[c].by)

\* adminReassign() goes on only with another driver than the order's.
OtherDriverInv == \A c \in Calls :
  calls[c].phase = "reassign locked" =>
    /\ calls[c].before.driver \notin {None, calls[c].driver}
    /\ calls[c].before.status \in {"DRIVER_ASSIGNED", "PICKED_UP"}

\* Who acts: a driver accepts for himself, an admin for anyone, and only an
\* admin cancels from any status.
CallerInv == \A c \in Calls :
  /\ calls[c].phase \in {"accept", "accept locked"} =>
       calls[c].by \in {calls[c].driver, Admin}
  /\ calls[c].phase = "cancel" => calls[c].by = Admin

KInv == IInv /\ AvailableInv /\ OtherDriverInv /\ CallerInv

-----------------------------------------------------------------------------
(* The kinds of change, each with the history row it writes.                *)

Created(o, row, entry) ==
  \E v \in Vendors :
    /\ orders[o] = Absent
    /\ row.status = "PENDING" /\ row.driver = None /\ row.vendor = v
    /\ entry = Row(None, "PENDING", v, None)

Given(o, row, entry) ==
  \E d \in Drivers : \E by \in {d, Admin} :
    /\ orders[o].status = "PENDING" /\ orders[o].driver = None
    /\ Available(d, by)
    /\ row.status = "DRIVER_ASSIGNED" /\ row.driver = d
    /\ row.vendor = orders[o].vendor
    /\ entry = Row("PENDING", "DRIVER_ASSIGNED", by, d)

Moves == {<<"DRIVER_ASSIGNED", "PICKED_UP">>, <<"PICKED_UP", "DELIVERED">>,
          <<"PICKED_UP", "FAILED">>}

Moved(o, row, entry) ==
  \E by \in Drivers \cup {Admin} :
    /\ <<orders[o].status, row.status>> \in Moves
    /\ DriverScope(o, by)
    /\ row.driver = orders[o].driver /\ row.snapshot = orders[o].snapshot
    /\ row.vendor = orders[o].vendor
    /\ entry = Row(orders[o].status, row.status, by, None)

GivenUp(o, row, entry) ==
  \E by \in Drivers \cup {Admin}, previous \in Drivers \cup {None} :
    /\ orders[o].status = "DRIVER_ASSIGNED"
    /\ DriverScope(o, by)
    /\ row.status = "PENDING" /\ row.driver = None
    /\ row.vendor = orders[o].vendor
    /\ entry = Row("DRIVER_ASSIGNED", "PENDING", by, previous)

Withdrawn(o, row, entry) ==
  /\ orders[o].status = "PENDING" /\ orders[o].vendor \in Vendors
  /\ row.status = "CANCELLED" /\ row.driver = orders[o].driver
  /\ row.snapshot = orders[o].snapshot /\ row.vendor = orders[o].vendor
  /\ entry = Row("PENDING", "CANCELLED", orders[o].vendor, None)

Cancelled(o, row, entry) ==
  \E from \in OrderStatus :
    /\ CancelGuard(o)
    /\ row.status = "CANCELLED" /\ row.driver = orders[o].driver
    /\ row.snapshot = orders[o].snapshot /\ row.vendor = orders[o].vendor
    /\ entry = Row(from, "CANCELLED", Admin, None)

Swapped(o, row, entry) ==
  \E d \in Drivers, from \in {"DRIVER_ASSIGNED", "PICKED_UP"} :
    /\ orders[o].status \in {"DRIVER_ASSIGNED", "PICKED_UP"}
    /\ orders[o].driver # d
    /\ Available(d, Admin)
    /\ row.status = "DRIVER_ASSIGNED" /\ row.driver = d
    /\ row.vendor = orders[o].vendor
    /\ entry = Row(from, "DRIVER_ASSIGNED", Admin, d)

Change(o, row, entry) ==
  /\ Commit(o, row, entry)
  /\ entry \in HistoryRows
  /\ \/ Created(o, row, entry) \/ Given(o, row, entry) \/ Moved(o, row, entry)
     \/ GivenUp(o, row, entry) \/ Withdrawn(o, row, entry)
     \/ Cancelled(o, row, entry) \/ Swapped(o, row, entry)

Changed == \E o \in Orders : \E row, entry : Change(o, row, entry)

-----------------------------------------------------------------------------
\* No call is in flight at the start.
LEMMA InitKInv == Init => KInv
<1> SUFFICES ASSUME Init PROVE KInv
  OBVIOUS
<1>1. \A c \in Calls : calls[c].phase = "idle"
  BY DEF Init, NoCall
<1>2. QED
  BY <1>1, InitIInv DEF KInv, AvailableInv, OtherDriverInv, CallerInv, Locking

\* A step that replaces one call's record and leaves the drivers alone.
LEMMA CallStepKeepsKInv ==
  ASSUME KInv, IInv', NEW c \in Calls, NEW call,
         calls' = [calls EXCEPT ![c] = call], UNCHANGED drivers,
         call.phase \in Locking => Available(call.driver, call.by),
         call.phase = "reassign locked" =>
           /\ call.before.driver \notin {None, call.driver}
           /\ call.before.status \in {"DRIVER_ASSIGNED", "PICKED_UP"},
         call.phase \in {"accept", "accept locked"} => call.by \in {call.driver, Admin},
         call.phase = "cancel" => call.by = Admin
  PROVE  KInv'
<1>1. \A x \in Calls : calls'[x] = IF x = c THEN call ELSE calls[x]
  BY DEF KInv, IInv, TypeOK
<1>2. AvailableInv'
  BY <1>1 DEF KInv, AvailableInv, Available
<1>3. OtherDriverInv'
  BY <1>1 DEF KInv, OtherDriverInv
<1>4. CallerInv'
  BY <1>1 DEF KInv, CallerInv
<1>5. QED
  BY <1>2, <1>3, <1>4 DEF KInv

\* The first statement of a longer command.
LEMMA StartKeepsKInv ==
  ASSUME KInv, IInv', NEW c \in Calls, NEW o \in Orders, Start(c, o)
  PROVE  KInv'
<1>1. UNCHANGED drivers
  BY DEF Start, AcceptCheck, ReleaseRead, AdminCancelRead, ReassignCheck
<1>2. ASSUME NEW call, Begin(c, call), call.phase \in {"accept", "release", "cancel", "reassign"},
             call.phase = "accept" => call.by \in {call.driver, Admin},
             call.phase = "cancel" => call.by = Admin
      PROVE  KInv'
  BY <1>1, <1>2, CallStepKeepsKInv DEF Begin, Locking
<1>3. ASSUME NEW d \in Drivers, NEW by \in {d, Admin}, AcceptCheck(c, o, d, by)
      PROVE  KInv'
  BY <1>2, <1>3 DEF AcceptCheck, NoCall
<1>4. ASSUME NEW by \in Drivers \cup {Admin}, ReleaseRead(c, o, by)
      PROVE  KInv'
  BY <1>2, <1>4 DEF ReleaseRead, NoCall
<1>5. ASSUME AdminCancelRead(c, o)
      PROVE  KInv'
  BY <1>2, <1>5 DEF AdminCancelRead, NoCall
<1>6. ASSUME NEW d \in Drivers, ReassignCheck(c, o, d)
      PROVE  KInv'
  BY <1>2, <1>6 DEF ReassignCheck, NoCall
<1>7. QED
  BY <1>3, <1>4, <1>5, <1>6 DEF Start

\* A call that ends takes what it held with it.
LEMMA EndKeepsKInv ==
  ASSUME KInv, IInv', NEW c \in Calls, End(c), UNCHANGED drivers
  PROVE  KInv'
<1>1. NoCall.phase = "idle"
  BY DEF NoCall
<1>2. QED
  BY <1>1, CallStepKeepsKInv DEF End, Locking

\* Every step of the system keeps the stronger invariant.
LEMMA NextKeepsKInv == KInv /\ [Next]_vars => KInv'
<1> SUFFICES ASSUME KInv, [Next]_vars PROVE KInv'
  OBVIOUS
<1>1. IInv'
  BY NextKeepsIInv DEF KInv
<1>2. ASSUME NEW o \in Orders, Command(o)
      PROVE  KInv'
  <2>1. UNCHANGED <<drivers, calls>>
    BY <1>2 DEF Command, Create, Pickup, Deliver, Fail, DriverTransition, VendorCancel
  <2>2. QED
    BY <1>1, <2>1 DEF KInv, AvailableInv, Available, OtherDriverInv, CallerInv
<1>3. ASSUME NEW c \in Calls, NEW o \in Orders, Start(c, o)
      PROVE  KInv'
  BY <1>1, <1>3, StartKeepsKInv
<1>4. ASSUME NEW c \in Calls, AcceptLock(c)
      PROVE  KInv'
  <2>1. CASE End(c)
    BY <1>1, <1>4, <2>1, EndKeepsKInv DEF AcceptLock
  <2>2. CASE ~End(c)
    <3> DEFINE call == [calls[c] EXCEPT !.phase = "accept locked"]
    <3>1. calls[c] \in AcceptCalls
      BY <1>4, CallKinds DEF KInv, IInv, AcceptLock
    <3>2. /\ call.phase = "accept locked"
          /\ call.driver = calls[c].driver /\ call.by = calls[c].by
          /\ calls[c].by \in {calls[c].driver, Admin}
      BY <3>1, <1>4 DEF AcceptCalls, AcceptLock, KInv, CallerInv
    <3>3. /\ calls' = [calls EXCEPT ![c] = call] /\ UNCHANGED drivers
          /\ Available(calls[c].driver, calls[c].by)
      BY <1>4, <2>2 DEF AcceptLock
    <3> HIDE DEF call
    <3>4. QED
      BY <1>1, <3>2, <3>3, CallStepKeepsKInv
  <2>3. QED
    BY <2>1, <2>2
<1>5. ASSUME NEW c \in Calls, ReassignLock(c)
      PROVE  KInv'
  <2>1. CASE End(c)
    BY <1>1, <1>5, <2>1, EndKeepsKInv DEF ReassignLock
  <2>2. CASE ~End(c)
    <3> DEFINE o == calls[c].order
               call == [calls[c] EXCEPT !.phase = "reassign locked", !.before = Before(o)]
    <3>1. calls[c] \in ReassignCalls
      BY <1>5, CallKinds DEF KInv, IInv, ReassignLock
    <3>2. /\ call.phase = "reassign locked"
          /\ call.driver = calls[c].driver /\ call.by = Admin /\ call.before = Before(o)
      BY <3>1 DEF ReassignCalls
    <3>3. /\ calls' = [calls EXCEPT ![c] = call] /\ UNCHANGED drivers
          /\ Available(calls[c].driver, Admin)
          /\ orders[o].driver \notin {None, calls[c].driver}
          /\ orders[o].status \in {"DRIVER_ASSIGNED", "PICKED_UP"}
      BY <1>5, <2>2 DEF ReassignLock
    <3>4. Before(o).driver = orders[o].driver /\ Before(o).status = orders[o].status
      BY DEF Before
    <3> HIDE DEF call
    <3>5. QED
      BY <1>1, <3>2, <3>3, <3>4, CallStepKeepsKInv
  <2>3. QED
    BY <2>1, <2>2
<1>6. ASSUME NEW c \in Calls,
             AcceptCommit(c) \/ ReleaseCommit(c) \/ AdminCancelCommit(c) \/ ReassignCommit(c)
      PROVE  KInv'
  <2>1. End(c) /\ UNCHANGED drivers
    BY <1>6 DEF AcceptCommit, ReleaseCommit, AdminCancelCommit, ReassignCommit
  <2>2. QED
    BY <1>1, <2>1, EndKeepsKInv
<1>7. ASSUME NEW c \in Calls, Abort(c)
      PROVE  KInv'
  BY <1>1, <1>7, EndKeepsKInv DEF Abort
<1>8. ASSUME NEW d \in Drivers, DriverChange(d)
      PROVE  KInv'
  <2>1. /\ ~Locked(d) /\ UNCHANGED calls
        /\ \A e \in Drivers : e # d => drivers'[e] = drivers[e]
    BY <1>8 DEF DriverChange, UpdateDriver, SetDuty, KInv, IInv, TypeOK
  <2>2. ASSUME NEW c \in Calls, calls[c].phase \in Locking
        PROVE  Available(calls[c].driver, calls[c].by)'
    <3>1. calls[c].driver \in Drivers /\ calls[c].driver # d
      BY <2>1, <2>2, CallFields DEF Locked, Locking, KInv, IInv
    <3>2. QED
      BY <2>1, <2>2, <3>1 DEF KInv, AvailableInv, Available
  <2>3. QED
    BY <1>1, <2>1, <2>2 DEF KInv, AvailableInv, OtherDriverInv, CallerInv
<1>9. CASE UNCHANGED vars
  BY <1>1, <1>9 DEF vars, KInv, AvailableInv, Available, OtherDriverInv, CallerInv
<1>10. QED
  BY <1>2, <1>3, <1>4, <1>5, <1>6, <1>7, <1>8, <1>9 DEF Next, Continue

\* The stronger invariant holds in every reachable state.
LEMMA KInvariance == Spec => []KInv
  BY InitKInv, NextKeepsKInv, PTL DEF Spec

-----------------------------------------------------------------------------
\* Commands of one statement change one order, in one of the seven ways.
LEMMA CommandKinds ==
  ASSUME KInv, NEW o \in Orders, Command(o)
  PROVE  Changed
<1>1. orders[o] \in OrderRows /\ RowInv(orders[o])
  BY DEF KInv, IInv, TypeOK, RowsInv
<1>2. ASSUME NEW v \in Vendors, NEW charge \in Charges, Create(o, v, charge)
      PROVE  Changed
  <2> DEFINE row == [Absent EXCEPT !.status = "PENDING", !.vendor = v,
                                   !.deliveryCharge = charge]
             entry == Row(None, "PENDING", v, None)
  <2>1. Commit(o, row, entry) /\ orders[o] = Absent
    BY <1>1, <1>2 DEF Create, RowInv
  <2>2. row.status = "PENDING" /\ row.driver = None /\ row.vendor = v
    BY DEF Absent
  <2>3. entry \in HistoryRows
    BY DEF Row, HistoryRows, OrderStatus
  <2> HIDE DEF row
  <2>4. Created(o, row, entry)
    BY <2>1, <2>2 DEF Created
  <2>5. QED
    BY <2>1, <2>3, <2>4 DEF Changed, Change
<1>3. ASSUME NEW by \in Drivers \cup {Admin}, NEW from, NEW row,
             DriverTransition(o, by, from, row),
             <<from, row.status>> \in Moves,
             row.driver = orders[o].driver, row.snapshot = orders[o].snapshot,
             row.vendor = orders[o].vendor
      PROVE  Changed
  <2> DEFINE entry == Row(from, row.status, by, None)
  <2>1. /\ Commit(o, row, entry)
        /\ orders[o].status = from /\ DriverScope(o, by)
    BY <1>3 DEF DriverTransition
  <2>2. entry \in HistoryRows
    BY <1>3 DEF Row, HistoryRows, OrderStatus, Moves
  <2>3. Moved(o, row, entry)
    BY <1>3, <2>1 DEF Moved
  <2>4. QED
    BY <2>1, <2>2, <2>3 DEF Changed, Change
<1>4. ASSUME NEW by \in Drivers \cup {Admin}, Pickup(o, by)
      PROVE  Changed
  <2> DEFINE row == [orders[o] EXCEPT !.status = "PICKED_UP", !.pickedUpAt = TRUE]
  <2>1. /\ row.status = "PICKED_UP" /\ row.driver = orders[o].driver
        /\ row.snapshot = orders[o].snapshot /\ row.vendor = orders[o].vendor
    BY <1>1 DEF OrderRows
  <2>2. DriverTransition(o, by, "DRIVER_ASSIGNED", row)
    BY <1>4 DEF Pickup
  <2>3. <<"DRIVER_ASSIGNED", row.status>> \in Moves
    BY <2>1 DEF Moves
  <2> HIDE DEF row
  <2>4. QED
    BY <1>3, <2>1, <2>2, <2>3
<1>5. ASSUME NEW by \in Drivers \cup {Admin}, Deliver(o, by)
      PROVE  Changed
  <2> DEFINE row == [orders[o] EXCEPT !.status = "DELIVERED", !.deliveredAt = TRUE]
  <2>1. /\ row.status = "DELIVERED" /\ row.driver = orders[o].driver
        /\ row.snapshot = orders[o].snapshot /\ row.vendor = orders[o].vendor
    BY <1>1 DEF OrderRows
  <2>2. DriverTransition(o, by, "PICKED_UP", row)
    BY <1>5 DEF Deliver
  <2>3. <<"PICKED_UP", row.status>> \in Moves
    BY <2>1 DEF Moves
  <2> HIDE DEF row
  <2>4. QED
    BY <1>3, <2>1, <2>2, <2>3
<1>6. ASSUME NEW by \in Drivers \cup {Admin}, Fail(o, by)
      PROVE  Changed
  <2> DEFINE row == [orders[o] EXCEPT !.status = "FAILED"]
  <2>1. /\ row.status = "FAILED" /\ row.driver = orders[o].driver
        /\ row.snapshot = orders[o].snapshot /\ row.vendor = orders[o].vendor
    BY <1>1 DEF OrderRows
  <2>2. DriverTransition(o, by, "PICKED_UP", row)
    BY <1>6 DEF Fail
  <2>3. <<"PICKED_UP", row.status>> \in Moves
    BY <2>1 DEF Moves
  <2> HIDE DEF row
  <2>4. QED
    BY <1>3, <2>1, <2>2, <2>3
<1>7. ASSUME NEW v \in Vendors, VendorCancel(o, v)
      PROVE  Changed
  <2> DEFINE row == [orders[o] EXCEPT !.status = "CANCELLED"]
             entry == Row("PENDING", "CANCELLED", v, None)
  <2>1. /\ row.status = "CANCELLED" /\ row.driver = orders[o].driver
        /\ row.snapshot = orders[o].snapshot /\ row.vendor = orders[o].vendor
    BY <1>1 DEF OrderRows
  <2>2. /\ Commit(o, row, entry)
        /\ orders[o].status = "PENDING" /\ orders[o].vendor = v
    BY <1>7 DEF VendorCancel
  <2>3. entry \in HistoryRows
    BY DEF Row, HistoryRows, OrderStatus
  <2> HIDE DEF row
  <2>4. Withdrawn(o, row, entry)
    BY <2>1, <2>2 DEF Withdrawn
  <2>5. QED
    BY <2>2, <2>3, <2>4 DEF Changed, Change
<1>8. QED
  BY <1>2, <1>4, <1>5, <1>6, <1>7 DEF Command

\* The last statement of the longer commands changes one order or none.
LEMMA ContinueKinds ==
  ASSUME KInv, NEW c \in Calls, Continue(c)
  PROVE  Changed \/ UNCHANGED <<orders, history>>
<1> DEFINE call == calls[c]
           o == call.order
<1>1. ASSUME call.phase # "idle"
      PROVE  /\ o \in Orders /\ call.by \in Drivers \cup {Admin}
             /\ orders[o] \in OrderRows
  BY <1>1, CallFields DEF KInv, IInv, TypeOK
<1>2. CASE AcceptLock(c) \/ ReassignLock(c)
  BY <1>2 DEF AcceptLock, ReassignLock
<1>3. CASE AcceptCommit(c)
  <2>1. call.phase = "accept locked"
    BY <1>3 DEF AcceptCommit
  <2>2. call \in AcceptCalls
    BY <2>1, CallKinds DEF KInv, IInv
  <2>3. CASE AcceptGuard(o)
    <3> DEFINE row == Assigned(o, call.driver, call.bps)
               entry == Row("PENDING", "DRIVER_ASSIGNED", call.by, call.driver)
    <3>1. Commit(o, row, entry)
      BY <1>3, <2>3 DEF AcceptCommit
    <3>2. /\ row.status = "DRIVER_ASSIGNED" /\ row.driver = call.driver
          /\ row.vendor = orders[o].vendor
      BY <1>1, <2>1 DEF Assigned, OrderRows
    <3>3. Available(call.driver, call.by)
      BY <2>1 DEF KInv, AvailableInv, Locking
    <3>4. call.driver \in Drivers /\ call.by \in Drivers \cup {Admin}
      BY <2>2 DEF AcceptCalls
    <3>5. call.by \in {call.driver, Admin}
      BY <2>1 DEF KInv, CallerInv
    <3>6. entry \in HistoryRows
      BY <3>4 DEF Row, HistoryRows, OrderStatus
    <3> HIDE DEF row
    <3>7. Given(o, row, entry)
      BY <2>3, <3>2, <3>3, <3>4, <3>5 DEF Given, AcceptGuard
    <3>8. QED
      BY <1>1, <2>1, <3>1, <3>6, <3>7 DEF Changed, Change
  <2>4. QED
    BY <1>3, <2>3 DEF AcceptCommit
<1>4. CASE ReleaseCommit(c)
  <2>1. call.phase = "release"
    BY <1>4 DEF ReleaseCommit
  <2>2. call.before \in Befores
    BY <2>1, CallFields DEF KInv, IInv
  <2>3. CASE ReleaseGuard(o, call.by)
    <3> DEFINE row == Released(o)
               entry == Row("DRIVER_ASSIGNED", "PENDING", call.by, call.before.driver)
    <3>1. Commit(o, row, entry)
      BY <1>4, <2>3 DEF ReleaseCommit
    <3>2. row.status = "PENDING" /\ row.driver = None /\ row.vendor = orders[o].vendor
      BY <1>1, <2>1 DEF Released, OrderRows
    <3>3. call.before.driver \in Drivers \cup {None}
      BY <2>2 DEF Befores
    <3>4. entry \in HistoryRows
      BY <1>1, <2>1, <3>3 DEF Row, HistoryRows, OrderStatus
    <3> HIDE DEF row
    <3>5. GivenUp(o, row, entry)
      BY <1>1, <2>1, <2>3, <3>2, <3>3 DEF GivenUp, ReleaseGuard
    <3>6. QED
      BY <1>1, <2>1, <3>1, <3>4, <3>5 DEF Changed, Change
  <2>4. QED
    BY <1>4, <2>3 DEF ReleaseCommit
<1>5. CASE AdminCancelCommit(c)
  <2>1. call.phase = "cancel"
    BY <1>5 DEF AdminCancelCommit
  <2>2. call.before \in Befores
    BY <2>1, CallFields DEF KInv, IInv
  <2>3. CASE CancelGuard(o)
    <3> DEFINE row == [orders[o] EXCEPT !.status = "CANCELLED"]
               entry == Row(call.before.status, "CANCELLED", Admin, None)
    <3>1. Commit(o, row, entry)
      BY <1>5, <2>3 DEF AdminCancelCommit
    <3>2. /\ row.status = "CANCELLED" /\ row.driver = orders[o].driver
          /\ row.snapshot = orders[o].snapshot /\ row.vendor = orders[o].vendor
      BY <1>1, <2>1 DEF OrderRows
    <3>3. call.before.status \in OrderStatus
      BY <2>2 DEF Befores
    <3>4. entry \in HistoryRows
      BY <3>3 DEF Row, HistoryRows, OrderStatus
    <3> HIDE DEF row
    <3>5. Cancelled(o, row, entry)
      BY <2>3, <3>2, <3>3 DEF Cancelled
    <3>6. QED
      BY <1>1, <2>1, <3>1, <3>4, <3>5 DEF Changed, Change
  <2>4. QED
    BY <1>5, <2>3 DEF AdminCancelCommit
<1>6. CASE ReassignCommit(c)
  <2>1. call.phase = "reassign locked"
    BY <1>6 DEF ReassignCommit
  <2>2. /\ call.driver \in Drivers /\ call.by = Admin
        /\ call.before.driver # call.driver
        /\ call.before.status \in {"DRIVER_ASSIGNED", "PICKED_UP"}
    BY <2>1, CallFields DEF KInv, IInv, OtherDriverInv
  <2>3. CASE ReassignGuard(o, call.before)
    <3> DEFINE row == Reassigned(o, call.driver, call.bps)
               entry == Row(call.before.status, "DRIVER_ASSIGNED", Admin, call.driver)
    <3>1. Commit(o, row, entry)
      BY <1>6, <2>3 DEF ReassignCommit
    <3>2. /\ row.status = "DRIVER_ASSIGNED" /\ row.driver = call.driver
          /\ row.vendor = orders[o].vendor
      BY <1>1, <2>1 DEF Reassigned, Assigned, OrderRows
    <3>3. Available(call.driver, Admin)
      BY <2>1, <2>2 DEF KInv, AvailableInv, Locking
    <3>4. entry \in HistoryRows
      BY <2>2 DEF Row, HistoryRows, OrderStatus
    <3> HIDE DEF row
    <3>5. Swapped(o, row, entry)
      BY <2>2, <2>3, <3>2, <3>3 DEF Swapped, ReassignGuard
    <3>6. QED
      BY <1>1, <2>1, <3>1, <3>4, <3>5 DEF Changed, Change
  <2>4. QED
    BY <1>6, <2>3 DEF ReassignCommit
<1>7. QED
  BY <1>2, <1>3, <1>4, <1>5, <1>6 DEF Continue

\* Every step changes one order, in one of the seven ways, or none.
LEMMA StepKinds ==
  ASSUME KInv, [Next]_vars
  PROVE  Changed \/ UNCHANGED <<orders, history>>
<1>1. ASSUME NEW c \in Calls, NEW o \in Orders, Start(c, o)
      PROVE  UNCHANGED <<orders, history>>
  BY <1>1 DEF Start, AcceptCheck, ReleaseRead, AdminCancelRead, ReassignCheck
<1>2. ASSUME NEW c \in Calls, Abort(c)
      PROVE  UNCHANGED <<orders, history>>
  BY <1>2 DEF Abort
<1>3. ASSUME NEW d \in Drivers, DriverChange(d)
      PROVE  UNCHANGED <<orders, history>>
  BY <1>3 DEF DriverChange, UpdateDriver, SetDuty
<1>4. CASE UNCHANGED vars
  BY <1>4 DEF vars
<1>5. QED
  BY <1>1, <1>2, <1>3, <1>4, CommandKinds, ContinueKinds DEF Next

\* What a commit leaves in the two tables.
LEMMA CommitEffect ==
  ASSUME KInv, NEW o \in Orders, NEW row, NEW entry, Commit(o, row, entry),
         entry \in HistoryRows
  PROVE  /\ orders'[o] = row
         /\ Len(history[o]) \in Nat
         /\ Len(history'[o]) = Len(history[o]) + 1
         /\ history'[o][Len(history[o]) + 1] = entry
         /\ \A i \in 1 .. Len(history[o]) : history'[o][i] = history[o][i]
         /\ \A x \in Orders : x # o => orders'[x] = orders[x] /\ history'[x] = history[x]
<1>1. /\ orders'[o] = row /\ history'[o] = Append(history[o], entry)
      /\ \A x \in Orders : x # o => orders'[x] = orders[x] /\ history'[x] = history[x]
  BY DEF Commit, KInv, IInv, TypeOK
<1>2. history[o] \in Seq(HistoryRows)
  BY DEF KInv, IInv, TypeOK
<1>3. QED
  BY <1>1, <1>2

-----------------------------------------------------------------------------
\* The driver an order is given to is ACTIVE at that moment, and ON_DUTY when
\* he took it himself: the row lock in accept() and adminReassign() is enough.
THEOREM AvailabilityAtAssignment == Spec => AssignedOnlyWhenAvailable
<1>1. ASSUME KInv, [Next]_vars, NEW o \in Orders,
             orders'[o].driver \notin {None, orders[o].driver}
      PROVE  Available(orders'[o].driver, history'[o][Len(history'[o])].by)
  <2>1. PICK x \in Orders : \E row, entry : Change(x, row, entry)
    BY <1>1, StepKinds DEF Changed
  <2>2. PICK row, entry : Change(x, row, entry)
    BY <2>1
  <2>3. /\ x = o /\ orders'[o] = row
        /\ history'[o][Len(history'[o])] = entry
    BY <1>1, <2>2, CommitEffect DEF Change
  <2>4. Given(o, row, entry) \/ Swapped(o, row, entry)
    BY <1>1, <2>2, <2>3
       DEF Change, Created, Moved, GivenUp, Withdrawn, Cancelled
  <2>5. QED
    BY <2>3, <2>4 DEF Given, Swapped, Row
<1>2. KInv /\ [Next]_vars =>
        [\A o \in Orders :
           orders'[o].driver \notin {None, orders[o].driver} =>
             Available(orders'[o].driver, history'[o][Len(history'[o])].by)]_vars
  BY <1>1
<1>3. QED
  BY <1>2, KInvariance, PTL DEF Spec, AssignedOnlyWhenAvailable

\* The split frozen at acceptance stays as it is while the driver does.
THEOREM SplitStaysFrozen == Spec => SnapshotFrozen
<1>1. ASSUME KInv, [Next]_vars, NEW o \in Orders,
             orders[o].snapshot # None, orders'[o].driver = orders[o].driver
      PROVE  orders'[o].snapshot = orders[o].snapshot
  <2>1. CASE UNCHANGED <<orders, history>>
    BY <2>1
  <2>2. CASE Changed
    <3>1. PICK x \in Orders : \E row, entry : Change(x, row, entry)
      BY <2>2 DEF Changed
    <3>2. PICK row, entry : Change(x, row, entry)
      BY <3>1
    <3>3. CASE x # o
      BY <1>1, <3>2, <3>3, CommitEffect DEF Change
    <3>4. CASE x = o
      <4>1. orders'[o] = row
        BY <1>1, <3>2, <3>4, CommitEffect DEF Change
      <4>2. /\ orders[o].status = "ABSENT" => orders[o].snapshot = None
            /\ orders[o].status = "PENDING" => orders[o].snapshot = None
            /\ orders[o].status = "DRIVER_ASSIGNED" => orders[o].driver # None
        BY <1>1 DEF KInv, IInv, RowsInv, RowInv, Absent
      <4>3. ~Created(o, row, entry) /\ ~Given(o, row, entry) /\ ~Withdrawn(o, row, entry)
        BY <1>1, <4>2 DEF Created, Given, Withdrawn, Absent
      <4>4. ~GivenUp(o, row, entry) /\ ~Swapped(o, row, entry)
        BY <1>1, <4>1, <4>2 DEF GivenUp, Swapped
      <4>5. QED
        BY <3>2, <3>4, <4>1, <4>3, <4>4 DEF Change, Moved, Cancelled
    <3>5. QED
      BY <3>3, <3>4
  <2>3. QED
    BY <1>1, <2>1, <2>2, StepKinds
<1>2. KInv /\ [Next]_vars =>
        [\A o \in Orders :
           orders[o].snapshot # None /\ orders'[o].driver = orders[o].driver
             => orders'[o].snapshot = orders[o].snapshot]_vars
  BY <1>1
<1>3. QED
  BY <1>2, KInvariance, PTL DEF Spec, SnapshotFrozen

-----------------------------------------------------------------------------
(* What the history tells.  Both properties are inductive once an order     *)
(* that does not exist is known to have no history.                         *)

AbsentHasNoHistory == \A o \in Orders : orders[o].status = "ABSENT" => history[o] = <<>>

HInv == KInv /\ AbsentHasNoHistory /\ HistoryMatchesOrder /\ HistoryChains

\* The tables start empty.
LEMMA InitHInv == Init => HInv
  BY InitKInv DEF Init, HInv, AbsentHasNoHistory, HistoryMatchesOrder, HistoryChains, Absent

\* The row of each kind says the new status, and who holds the order now.
LEMMA EntryTells ==
  ASSUME KInv, NEW o \in Orders, NEW row, NEW entry, Change(o, row, entry)
  PROVE  /\ entry.to = row.status /\ row.status # "ABSENT"
         /\ HandOver(entry) =>
              row.driver = IF entry.to = "PENDING" THEN None ELSE entry.driver
         /\ ~HandOver(entry) =>
              orders[o].status # "ABSENT" /\ row.driver = orders[o].driver
         /\ \/ orders[o].status = "ABSENT" /\ entry.from = None
            \/ orders[o].status # "ABSENT" /\ entry.from = orders[o].status
            \/ orders[o].status # "ABSENT" /\ FromEarlierRead(entry)
<1>1. CASE Created(o, row, entry)
  BY <1>1 DEF Created, Row, HandOver, Absent
<1>2. CASE Given(o, row, entry)
  BY <1>2 DEF Given, Row, HandOver
<1>3. CASE Moved(o, row, entry)
  BY <1>3 DEF Moved, Moves, Row, HandOver
<1>4. CASE GivenUp(o, row, entry)
  BY <1>4 DEF GivenUp, Row, HandOver
<1>5. CASE Withdrawn(o, row, entry)
  BY <1>5 DEF Withdrawn, Row, HandOver
<1>6. CASE Cancelled(o, row, entry)
  BY <1>6 DEF Cancelled, CancelGuard, Row, HandOver, FromEarlierRead
<1>7. CASE Swapped(o, row, entry)
  BY <1>7 DEF Swapped, Row, HandOver, FromEarlierRead
<1>8. QED
  BY <1>1, <1>2, <1>3, <1>4, <1>5, <1>6, <1>7 DEF Change

\* A new row keeps the history telling, if it did before.
LEMMA ChangeKeepsHistory ==
  ASSUME HInv, KInv', NEW o \in Orders, NEW row, NEW entry, Change(o, row, entry)
  PROVE  HInv'
<1> DEFINE h == history[o]
           n == Len(history[o])
<1>1. /\ orders'[o] = row
      /\ n \in Nat
      /\ Len(history'[o]) = n + 1
      /\ history'[o][n + 1] = entry
      /\ \A i \in 1 .. n : history'[o][i] = h[i]
      /\ \A x \in Orders : x # o => orders'[x] = orders[x] /\ history'[x] = history[x]
  BY CommitEffect DEF HInv, Change
<1>2. h \in Seq(HistoryRows) /\ history'[o] \in Seq(HistoryRows)
  BY DEF HInv, KInv, IInv, TypeOK
<1>3. /\ entry.to = row.status /\ row.status # "ABSENT"
      /\ HandOver(entry) =>
           row.driver = IF entry.to = "PENDING" THEN None ELSE entry.driver
      /\ ~HandOver(entry) =>
           orders[o].status # "ABSENT" /\ row.driver = orders[o].driver
      /\ \/ orders[o].status = "ABSENT" /\ entry.from = None
         \/ orders[o].status # "ABSENT" /\ entry.from = orders[o].status
         \/ orders[o].status # "ABSENT" /\ FromEarlierRead(entry)
  BY EntryTells DEF HInv
<1>4. /\ orders[o].status = "ABSENT" => n = 0
      /\ orders[o].status # "ABSENT" => n > 0 /\ h[n].to = orders[o].status
  BY <1>1, <1>2 DEF HInv, AbsentHasNoHistory, HistoryMatchesOrder
<1>5. AbsentHasNoHistory'
  BY <1>1, <1>3 DEF HInv, AbsentHasNoHistory
<1>6. HistoryMatchesOrder'
  <2>1. history'[o] # <<>> /\ history'[o][Len(history'[o])].to = orders'[o].status
    BY <1>1, <1>2, <1>3
  <2>2. \E i \in 1 .. n + 1 :
           /\ HandOver(history'[o][i])
           /\ \A j \in i + 1 .. n + 1 : ~HandOver(history'[o][j])
           /\ orders'[o].driver =
                IF history'[o][i].to = "PENDING" THEN None ELSE history'[o][i].driver
    <3>1. CASE HandOver(entry)
      <4>1. n + 1 \in 1 .. n + 1 /\ (n + 1) + 1 .. n + 1 = {}
        BY <1>1
      <4>2. QED
        BY <1>1, <1>3, <3>1, <4>1
    <3>2. CASE ~HandOver(entry)
      <4>1. PICK i \in 1 .. n :
              /\ HandOver(h[i])
              /\ \A j \in i + 1 .. n : ~HandOver(h[j])
              /\ orders[o].driver = IF h[i].to = "PENDING" THEN None ELSE h[i].driver
        BY <1>3, <3>2 DEF HInv, HistoryMatchesOrder
      <4>2. i \in 1 .. n + 1 /\ history'[o][i] = h[i]
        BY <1>1
      <4>3. \A j \in i + 1 .. n + 1 : ~HandOver(history'[o][j])
        <5>1. \A j \in i + 1 .. n + 1 : j = n + 1 \/ (j \in i + 1 .. n /\ j \in 1 .. n)
          BY <1>1
        <5>2. QED
          BY <1>1, <3>2, <4>1, <5>1
      <4>4. QED
        BY <1>1, <1>3, <3>2, <4>1, <4>2, <4>3
    <3>3. QED
      BY <3>1, <3>2
  <2> SUFFICES ASSUME NEW x \in Orders, orders'[x].status # "ABSENT"
               PROVE  /\ history'[x] # <<>>
                      /\ history'[x][Len(history'[x])].to = orders'[x].status
                      /\ \E i \in 1 .. Len(history'[x]) :
                           /\ HandOver(history'[x][i])
                           /\ \A j \in i + 1 .. Len(history'[x]) : ~HandOver(history'[x][j])
                           /\ orders'[x].driver = IF history'[x][i].to = "PENDING" THEN None
                                                  ELSE history'[x][i].driver
    BY DEF HistoryMatchesOrder, HandOver
  <2>3. CASE x = o
    BY <1>1, <2>1, <2>2, <2>3
  <2>4. CASE x # o
    <3>1. orders'[x] = orders[x] /\ history'[x] = history[x]
      BY <1>1, <2>4
    <3>2. QED
      BY <3>1 DEF HInv, HistoryMatchesOrder
  <2>5. QED
    BY <2>3, <2>4
<1>7. HistoryChains'
  <2>1. ASSUME NEW i \in 1 .. n
        PROVE  Chained(history'[o], i) \/ FromEarlierRead(history'[o][i])
    <3>1. history'[o][i] = h[i] /\ (i # 1 => history'[o][i - 1] = h[i - 1])
      BY <1>1
    <3>2. QED
      BY <3>1 DEF HInv, HistoryChains, Chained
  <2>2. Chained(history'[o], n + 1) \/ FromEarlierRead(history'[o][n + 1])
    <3>1. CASE n = 0
      BY <1>1, <1>3, <1>4, <3>1 DEF Chained
    <3>2. CASE n > 0
      <4>1. n + 1 # 1 /\ history'[o][(n + 1) - 1] = h[n]
        BY <1>1, <3>2
      <4>2. QED
        BY <1>1, <1>3, <1>4, <3>2, <4>1 DEF Chained
    <3>3. QED
      BY <1>1, <3>1, <3>2
  <2>3. \A i \in 1 .. n + 1 : Chained(history'[o], i) \/ FromEarlierRead(history'[o][i])
    <3>1. \A i \in 1 .. n + 1 : i \in 1 .. n \/ i = n + 1
      BY <1>1
    <3>2. QED
      BY <2>1, <2>2, <3>1
  <2>4. QED
    BY <1>1, <2>3 DEF HInv, HistoryChains, Chained, FromEarlierRead
<1>8. QED
  BY <1>5, <1>6, <1>7 DEF HInv

\* Every step of the system keeps the history telling.
LEMMA NextKeepsHInv == HInv /\ [Next]_vars => HInv'
<1> SUFFICES ASSUME HInv, [Next]_vars PROVE HInv'
  OBVIOUS
<1>1. KInv'
  BY NextKeepsKInv DEF HInv
<1>2. CASE UNCHANGED <<orders, history>>
  BY <1>1, <1>2
     DEF HInv, AbsentHasNoHistory, HistoryMatchesOrder, HistoryChains
<1>3. CASE Changed
  BY <1>1, <1>3, ChangeKeepsHistory DEF Changed
<1>4. QED
  BY <1>2, <1>3, StepKinds DEF HInv

\* The history tells the order, in every reachable state.
LEMMA HInvariance == Spec => []HInv
  BY InitHInv, NextKeepsHInv, PTL DEF Spec

\* The history alone gives an order's status and the driver who holds it, and
\* every row but those of admin cancel and reassign names the status that its
\* predecessor gave the order.
THEOREM HistoryTells == Spec => []HistoryTellsOrder
<1>1. HInv => HistoryTellsOrder
  BY DEF HInv, HistoryTellsOrder
<1>2. QED
  BY <1>1, HInvariance, PTL

-----------------------------------------------------------------------------
(* The lifecycle implements the transition table.                          *)

LastBy(o) == IF history[o] = <<>> THEN None ELSE history[o][Len(history[o])].by

\* What one change is to the abstract machine's variables.
LEMMA Mapped ==
  ASSUME HInv, NEW o \in Orders, NEW row, NEW entry, Change(o, row, entry)
  PROVE  /\ [x \in Orders |-> orders[x].status]'
              = [[x \in Orders |-> orders[x].status] EXCEPT ![o] = row.status]
         /\ [x \in Orders |-> orders[x].driver]'
              = [[x \in Orders |-> orders[x].driver] EXCEPT ![o] = row.driver]
         /\ [x \in Orders |-> orders[x].vendor]'
              = [[x \in Orders |-> orders[x].vendor] EXCEPT ![o] = row.vendor]
         /\ [x \in Orders |-> LastBy(x)]'
              = [[x \in Orders |-> LastBy(x)] EXCEPT ![o] = entry.by]
<1>1. /\ orders'[o] = row
      /\ Len(history[o]) \in Nat
      /\ Len(history'[o]) = Len(history[o]) + 1
      /\ history'[o][Len(history[o]) + 1] = entry
      /\ \A x \in Orders : x # o => orders'[x] = orders[x] /\ history'[x] = history[x]
  BY CommitEffect DEF HInv, Change
<1>2. LastBy(o)' = entry.by /\ (\A x \in Orders : x # o => LastBy(x)' = LastBy(x))
  <2>1. history'[o] # <<>>
    BY <1>1
  <2>2. QED
    BY <1>1, <2>1 DEF LastBy
<1>3. QED
  BY <1>1, <1>2

\* When a change is a step of the abstract machine.
LEMMA AbstractStep ==
  ASSUME HInv, NEW o \in Orders, NEW row, NEW entry, Change(o, row, entry)
  PROVE  /\ \A t \in StatusMachine!ORDER_TRANSITIONS :
              /\ orders[o].status \in t.from /\ row.status = t.to
              /\ StatusMachine!Role(entry.by) \in t.actors
              /\ entry.by \in Drivers \cup Vendors \cup {Admin}
              /\ entry.by \in Vendors => orders[o].vendor = entry.by
              /\ t.assignedDriverOnly /\ entry.by \in Drivers => orders[o].driver = entry.by
              /\ row.driver \in StatusMachine!DriverAfter(o, t, entry.by)
              /\ row.vendor = orders[o].vendor
              => StatusMachine!Next
         /\ /\ entry.by \in Vendors /\ row.vendor = entry.by
            /\ orders[o].status = "ABSENT" /\ row.status = "PENDING"
            /\ row.driver = orders[o].driver
            => StatusMachine!Next
         /\ /\ orders[o].status \in {"DRIVER_ASSIGNED", "PICKED_UP"}
            /\ row.driver \in Drivers /\ orders[o].driver # row.driver
            /\ row.status = "DRIVER_ASSIGNED" /\ entry.by = Admin
            /\ row.vendor = orders[o].vendor
            => StatusMachine!Next
<1> DEFINE s == row.status
           d == row.driver
           v == row.vendor
           a == entry.by
<1>0. /\ [x \in Orders |-> orders[x].status]'
           = [[x \in Orders |-> orders[x].status] EXCEPT ![o] = s]
      /\ [x \in Orders |-> orders[x].driver]'
           = [[x \in Orders |-> orders[x].driver] EXCEPT ![o] = d]
      /\ [x \in Orders |-> orders[x].vendor]'
           = [[x \in Orders |-> orders[x].vendor] EXCEPT ![o] = v]
      /\ [x \in Orders |-> LastBy(x)]'
           = [[x \in Orders |-> LastBy(x)] EXCEPT ![o] = a]
  BY Mapped
<1> HIDE DEF s, d, v, a
<1>1. v = orders[o].vendor => UNCHANGED [x \in Orders |-> orders[x].vendor]
  BY <1>0
<1>2. d = orders[o].driver => UNCHANGED [x \in Orders |-> orders[x].driver]
  BY <1>0
<1>3. ASSUME NEW t \in StatusMachine!ORDER_TRANSITIONS,
             orders[o].status \in t.from, s = t.to,
             StatusMachine!Role(a) \in t.actors,
             a \in Drivers \cup Vendors \cup {Admin},
             a \in Vendors => orders[o].vendor = a,
             t.assignedDriverOnly /\ a \in Drivers => orders[o].driver = a,
             d \in StatusMachine!DriverAfter(o, t, a),
             v = orders[o].vendor
      PROVE  StatusMachine!Next
  <2>1. StatusMachine!Take(o, t, a)
    BY <1>0, <1>1, <1>3 DEF StatusMachine!Take, LastBy
  <2>2. QED
    BY <1>3, <2>1 DEF StatusMachine!Next
<1>4. ASSUME a \in Vendors, v = a, orders[o].status = "ABSENT", s = "PENDING",
             d = orders[o].driver
      PROVE  StatusMachine!Next
  <2>1. StatusMachine!Create(o, a)
    BY <1>0, <1>2, <1>4 DEF StatusMachine!Create, LastBy
  <2>2. QED
    BY <1>4, <2>1 DEF StatusMachine!Next
<1>5. ASSUME orders[o].status \in {"DRIVER_ASSIGNED", "PICKED_UP"}, d \in Drivers,
             orders[o].driver # d, s = "DRIVER_ASSIGNED", a = Admin, v = orders[o].vendor
      PROVE  StatusMachine!Next
  <2>1. StatusMachine!Reassign(o, d)
    BY <1>0, <1>1, <1>5 DEF StatusMachine!Reassign, LastBy
  <2>2. QED
    BY <1>5, <2>1 DEF StatusMachine!Next
<1>6. QED
  BY <1>3, <1>4, <1>5 DEF s, d, v, a

\* Drivers act as DRIVER, vendors as VENDOR, an admin as ADMIN.
LEMMA Roles ==
  /\ \A d \in Drivers : StatusMachine!Role(d) = "DRIVER" /\ d \notin Vendors
  /\ \A v \in Vendors : StatusMachine!Role(v) = "VENDOR" /\ v \notin Drivers
  /\ StatusMachine!Role(Admin) = "ADMIN" /\ Admin \notin Drivers \cup Vendors
BY ActorsAssumption DEF StatusMachine!Role

\* Each kind of change is a transition of the table, a creation or a swap.
LEMMA ChangeRefines ==
  ASSUME HInv, NEW o \in Orders, NEW row, NEW entry, Change(o, row, entry)
  PROVE  StatusMachine!Next
<1> DEFINE T(action, from, to, actors, own) ==
             StatusMachine!Transition(action, from, to, actors, own)
<1>1. ASSUME NEW t \in StatusMachine!ORDER_TRANSITIONS, NEW a \in Drivers \cup Vendors \cup {Admin},
             orders[o].status \in t.from, row.status = t.to, entry.by = a,
             StatusMachine!Role(a) \in t.actors,
             a \in Vendors => orders[o].vendor = a,
             t.assignedDriverOnly /\ a \in Drivers => orders[o].driver = a,
             row.driver \in StatusMachine!DriverAfter(o, t, a),
             row.vendor = orders[o].vendor
      PROVE  StatusMachine!Next
  BY <1>1, AbstractStep
<1>2. CASE Created(o, row, entry)
  <2>1. PICK v \in Vendors :
          /\ orders[o] = Absent
          /\ row.status = "PENDING" /\ row.driver = None /\ row.vendor = v
          /\ entry = Row(None, "PENDING", v, None)
    BY <1>2 DEF Created
  <2>2. entry.by = v /\ orders[o].status = "ABSENT" /\ orders[o].driver = None
    BY <2>1 DEF Row, Absent
  <2>3. QED
    BY <2>1, <2>2, AbstractStep
<1>3. CASE Given(o, row, entry)
  <2> DEFINE t == T("accept", {"PENDING"}, "DRIVER_ASSIGNED", {"DRIVER", "ADMIN"}, FALSE)
  <2>1. PICK d \in Drivers : \E by \in {d, Admin} :
          /\ orders[o].status = "PENDING"
          /\ row.status = "DRIVER_ASSIGNED" /\ row.driver = d
          /\ row.vendor = orders[o].vendor
          /\ entry = Row("PENDING", "DRIVER_ASSIGNED", by, d)
    BY <1>3 DEF Given
  <2>2. PICK by \in {d, Admin} :
          /\ orders[o].status = "PENDING"
          /\ row.status = "DRIVER_ASSIGNED" /\ row.driver = d
          /\ row.vendor = orders[o].vendor
          /\ entry = Row("PENDING", "DRIVER_ASSIGNED", by, d)
    BY <2>1
  <2>3. /\ t \in StatusMachine!ORDER_TRANSITIONS
        /\ t.action = "accept" /\ t.from = {"PENDING"} /\ t.to = "DRIVER_ASSIGNED"
        /\ t.actors = {"DRIVER", "ADMIN"} /\ t.assignedDriverOnly = FALSE
    BY DEF StatusMachine!ORDER_TRANSITIONS, StatusMachine!Transition
  <2> HIDE DEF t
  <2>4. row.driver \in StatusMachine!DriverAfter(o, t, by)
    BY <2>2, <2>3, Roles DEF StatusMachine!DriverAfter
  <2>5. entry.by = by /\ StatusMachine!Role(by) \in t.actors /\ by \notin Vendors
    BY <2>2, <2>3, Roles DEF Row
  <2>6. QED
    BY <1>1, <2>2, <2>3, <2>4, <2>5
<1>4. CASE Moved(o, row, entry)
  <2>1. PICK by \in Drivers \cup {Admin} :
          /\ <<orders[o].status, row.status>> \in Moves
          /\ DriverScope(o, by)
          /\ row.driver = orders[o].driver
          /\ row.vendor = orders[o].vendor
          /\ entry = Row(orders[o].status, row.status, by, None)
    BY <1>4 DEF Moved
  <2>2. entry.by = by /\ StatusMachine!Role(by) \in {"DRIVER", "ADMIN"} /\ by \notin Vendors
          /\ (by \in Drivers => orders[o].driver = by)
    BY <2>1, Roles DEF Row, DriverScope
  <2>3. PICK t \in StatusMachine!ORDER_TRANSITIONS :
          /\ t.action \notin {"accept", "release"}
          /\ t.from = {orders[o].status} /\ t.to = row.status
          /\ t.actors = {"DRIVER", "ADMIN"}
    <3> DEFINE pickup  == T("pickup", {"DRIVER_ASSIGNED"}, "PICKED_UP", {"DRIVER", "ADMIN"}, TRUE)
               deliver == T("deliver", {"PICKED_UP"}, "DELIVERED", {"DRIVER", "ADMIN"}, TRUE)
               fail    == T("fail", {"PICKED_UP"}, "FAILED", {"DRIVER", "ADMIN"}, TRUE)
    <3>1. {pickup, deliver, fail} \subseteq StatusMachine!ORDER_TRANSITIONS
      BY DEF StatusMachine!ORDER_TRANSITIONS
    <3>2. /\ pickup.action = "pickup" /\ pickup.from = {"DRIVER_ASSIGNED"}
          /\ pickup.to = "PICKED_UP" /\ pickup.actors = {"DRIVER", "ADMIN"}
          /\ deliver.action = "deliver" /\ deliver.from = {"PICKED_UP"}
          /\ deliver.to = "DELIVERED" /\ deliver.actors = {"DRIVER", "ADMIN"}
          /\ fail.action = "fail" /\ fail.from = {"PICKED_UP"}
          /\ fail.to = "FAILED" /\ fail.actors = {"DRIVER", "ADMIN"}
      BY DEF StatusMachine!Transition
    <3> HIDE DEF pickup, deliver, fail
    <3>3. \/ orders[o].status = "DRIVER_ASSIGNED" /\ row.status = "PICKED_UP"
          \/ orders[o].status = "PICKED_UP" /\ row.status = "DELIVERED"
          \/ orders[o].status = "PICKED_UP" /\ row.status = "FAILED"
      BY <2>1 DEF Moves
    <3>4. QED
      BY <3>1, <3>2, <3>3
  <2>4. row.driver \in StatusMachine!DriverAfter(o, t, by)
    BY <2>1, <2>3 DEF StatusMachine!DriverAfter
  <2>5. QED
    BY <1>1, <2>1, <2>2, <2>3, <2>4
<1>5. CASE GivenUp(o, row, entry)
  <2> DEFINE t == T("release", {"DRIVER_ASSIGNED"}, "PENDING", {"DRIVER", "ADMIN"}, TRUE)
  <2>1. PICK by \in Drivers \cup {Admin}, previous \in Drivers \cup {None} :
          /\ orders[o].status = "DRIVER_ASSIGNED"
          /\ DriverScope(o, by)
          /\ row.status = "PENDING" /\ row.driver = None
          /\ row.vendor = orders[o].vendor
          /\ entry = Row("DRIVER_ASSIGNED", "PENDING", by, previous)
    BY <1>5 DEF GivenUp
  <2>2. /\ t \in StatusMachine!ORDER_TRANSITIONS
        /\ t.action = "release" /\ t.from = {"DRIVER_ASSIGNED"} /\ t.to = "PENDING"
        /\ t.actors = {"DRIVER", "ADMIN"}
    BY DEF StatusMachine!ORDER_TRANSITIONS, StatusMachine!Transition
  <2> HIDE DEF t
  <2>3. row.driver \in StatusMachine!DriverAfter(o, t, by)
    BY <2>1, <2>2 DEF StatusMachine!DriverAfter
  <2>4. entry.by = by /\ StatusMachine!Role(by) \in t.actors /\ by \notin Vendors
          /\ (by \in Drivers => orders[o].driver = by)
    BY <2>1, <2>2, Roles DEF Row, DriverScope
  <2>5. QED
    BY <1>1, <2>1, <2>2, <2>3, <2>4
<1>6. CASE Withdrawn(o, row, entry)
  <2> DEFINE t == T("cancel", {"PENDING"}, "CANCELLED", {"VENDOR", "ADMIN"}, FALSE)
             v == orders[o].vendor
  <2>1. /\ t \in StatusMachine!ORDER_TRANSITIONS
        /\ t.action = "cancel" /\ t.from = {"PENDING"} /\ t.to = "CANCELLED"
        /\ t.actors = {"VENDOR", "ADMIN"} /\ t.assignedDriverOnly = FALSE
    BY DEF StatusMachine!ORDER_TRANSITIONS, StatusMachine!Transition
  <2> HIDE DEF t
  <2>2. row.driver \in StatusMachine!DriverAfter(o, t, v)
    BY <1>6, <2>1 DEF StatusMachine!DriverAfter, Withdrawn
  <2>3. entry.by = v /\ v \in Vendors /\ StatusMachine!Role(v) \in t.actors
    BY <1>6, <2>1, Roles DEF Row, Withdrawn
  <2>4. QED
    BY <1>1, <1>6, <2>1, <2>2, <2>3 DEF Withdrawn
<1>7. CASE Cancelled(o, row, entry)
  <2>1. PICK t \in StatusMachine!ORDER_TRANSITIONS :
          /\ t.action = "cancel" /\ orders[o].status \in t.from /\ t.to = "CANCELLED"
          /\ "ADMIN" \in t.actors
    <3> DEFINE before == T("cancel", {"PENDING"}, "CANCELLED", {"VENDOR", "ADMIN"}, FALSE)
               after  == T("cancel", {"DRIVER_ASSIGNED", "PICKED_UP"}, "CANCELLED", {"ADMIN"}, FALSE)
    <3>1. {before, after} \subseteq StatusMachine!ORDER_TRANSITIONS
      BY DEF StatusMachine!ORDER_TRANSITIONS
    <3>2. /\ before.action = "cancel" /\ before.from = {"PENDING"}
          /\ before.to = "CANCELLED" /\ before.actors = {"VENDOR", "ADMIN"}
          /\ after.action = "cancel" /\ after.from = {"DRIVER_ASSIGNED", "PICKED_UP"}
          /\ after.to = "CANCELLED" /\ after.actors = {"ADMIN"}
      BY DEF StatusMachine!Transition
    <3> HIDE DEF before, after
    <3>3. QED
      BY <1>7, <3>1, <3>2 DEF Cancelled, CancelGuard
  <2>2. row.driver \in StatusMachine!DriverAfter(o, t, Admin)
    BY <1>7, <2>1 DEF StatusMachine!DriverAfter, Cancelled
  <2>3. entry.by = Admin
    BY <1>7 DEF Row, Cancelled
  <2>4. QED
    BY <1>1, <1>7, <2>1, <2>2, <2>3, Roles DEF Cancelled
<1>8. CASE Swapped(o, row, entry)
  <2>1. /\ orders[o].status \in {"DRIVER_ASSIGNED", "PICKED_UP"}
        /\ row.driver \in Drivers /\ orders[o].driver # row.driver
        /\ row.status = "DRIVER_ASSIGNED" /\ row.vendor = orders[o].vendor
        /\ entry.by = Admin
    BY <1>8 DEF Swapped, Row
  <2>2. QED
    BY <2>1, AbstractStep
<1>9. QED
  BY <1>2, <1>3, <1>4, <1>5, <1>6, <1>7, <1>8 DEF Change

\* The lifecycle implements the shared transition table: whatever commands run
\* at once, each change of an order is one the table allows its actor.
THEOREM LifecycleRefinesTable == Spec => ImplementsStatusMachine
<1>1. Init => StatusMachine!Init
  BY DEF Init, StatusMachine!Init, Absent
<1>2. HInv /\ [Next]_vars => [StatusMachine!Next]_(StatusMachine!vars)
  <2> SUFFICES ASSUME HInv, [Next]_vars
               PROVE  StatusMachine!Next \/ UNCHANGED StatusMachine!vars
    OBVIOUS
  <2>1. CASE UNCHANGED <<orders, history>>
    BY <2>1 DEF StatusMachine!vars
  <2>2. CASE Changed
    BY <2>2, ChangeRefines DEF Changed
  <2>3. QED
    BY <2>1, <2>2, StepKinds DEF HInv
<1>3. QED
  BY <1>1, <1>2, HInvariance, PTL DEF Spec, ImplementsStatusMachine, StatusMachine!Spec
=============================================================================

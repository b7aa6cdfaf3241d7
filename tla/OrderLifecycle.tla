--------------------------- MODULE OrderLifecycle ---------------------------
(***************************************************************************)
(* apps/api/src/orders/order-lifecycle.service.ts, statement by statement: *)
(* the commands that move an order, running concurrently under Postgres'   *)
(* READ COMMITTED, with the driver updates they race.                      *)
(*                                                                         *)
(* A command is a call: what it read before its transaction, or in an      *)
(* earlier statement of it, stays in its record while other calls commit.  *)
(* Its conditional UPDATE and the history row of the same transaction are  *)
(* one step, since the UPDATE re-evaluates its WHERE on the latest         *)
(* committed row.  SELECT ... FOR UPDATE on a driver is a lock held until  *)
(* that step.  A command the code refuses changes nothing and ends.        *)
(***************************************************************************)
EXTENDS Money, Sequences

CONSTANTS Orders, Vendors, Drivers, Calls,
          Charges,      \* delivery charges vendors enter, in minor units
          Rates,        \* commission rates, in basis points
          DefaultBps,   \* the platform default, as SettingsService answers
          DriverInputs, \* what an admin saves in a driver's form
          Admin, None,
          MaxHistory    \* no call starts on an order with this many rows

ASSUME ActorsAssumption ==
  /\ Drivers \cap Vendors = {}
  /\ Admin \notin Drivers \cup Vendors
  /\ None \notin Drivers \cup Vendors \cup {Admin}

ASSUME MoneyAssumption ==
  /\ Charges \subseteq Nat \ {0}    \* create() refuses chargeMinor <= 0
  /\ Rates \subseteq Bps
  /\ DefaultBps \in Bps
  /\ None \notin Bps
  /\ DriverInputs \subseteq [status : {"ACTIVE", "SUSPENDED"},
                             commissionOverrideBps : Rates \cup {None}]

Snapshots == [commissionBps : Bps, platformCommissionAmount : Nat, driverEarnings : Nat]

ASSUME SnapshotAssumption == None \notin Snapshots

ASSUME BoundAssumption == MaxHistory \in Nat

VARIABLES orders,    \* the orders table
          history,   \* order -> its order_status_history rows, oldest first
          drivers,   \* the drivers table
          calls      \* the commands in flight

vars == <<orders, history, drivers, calls>>
-----------------------------------------------------------------------------
OrderStatus == {"PENDING", "DRIVER_ASSIGNED", "PICKED_UP",
                "DELIVERED", "FAILED", "CANCELLED"}

Absent == [status |-> "ABSENT", vendor |-> None, deliveryCharge |-> None,
           driver |-> None, snapshot |-> None,
           assignedAt |-> FALSE, pickedUpAt |-> FALSE, deliveredAt |-> FALSE]

\* A history row; driver is the one its metadata names, if any.
Row(from, to, by, driver) ==
  [from |-> from, to |-> to, by |-> by, driver |-> driver]

NoCall == [phase |-> "idle", order |-> None, driver |-> None, by |-> None,
           bps |-> None, before |-> None]

Locking == {"accept locked", "reassign locked"}

MutLocked(d) == \E c \in Calls : calls[c].phase = "reassign locked" /\ calls[c].driver = d

\* A transaction holds the driver's row FOR UPDATE.
Locked(d) == \E c \in Calls : calls[c].phase \in Locking /\ calls[c].driver = d

\* driver.status and, for a driver acting for himself, driver.dutyStatus.
Available(d, by) == /\ drivers[d].status = "ACTIVE"
                    /\ by \in Drivers => drivers[d].dutyStatus = "ON_DUTY"

ResolveCommissionBps(d) ==
  IF drivers[d].commissionOverrideBps = None
  THEN DefaultBps ELSE drivers[d].commissionOverrideBps

MutDriverScope(o, by) == by \in Drivers => orders[o].driver # None

\* The WHERE fragment driverScope: an admin may act on any driver's order.
DriverScope(o, by) == by \in Drivers => orders[o].driver = by

MutCommit(o, row, entry) ==
  /\ orders' = [orders EXCEPT ![o] = row]
  /\ history' = IF row.status = orders[o].status THEN history
                ELSE [history EXCEPT ![o] = Append(@, entry)]

\* The conditional updateMany found its row: the new row and its history
\* row commit together.
Commit(o, row, entry) == /\ orders' = [orders EXCEPT ![o] = row]
                         /\ history' = [history EXCEPT ![o] = Append(@, entry)]

Begin(c, call) == /\ calls[c].phase = "idle"
                  /\ Len(history[call.order]) < MaxHistory
                  /\ calls' = [calls EXCEPT ![c] = call]

End(c) == calls' = [calls EXCEPT ![c] = NoCall]
-----------------------------------------------------------------------------
Init == /\ orders = [o \in Orders |-> Absent]
        /\ history = [o \in Orders |-> <<>>]
        /\ drivers \in [Drivers -> [status : {"ACTIVE"}, dutyStatus : {"OFF_DUTY"},
                                    commissionOverrideBps : {None}]]
        /\ calls = [c \in Calls |-> NoCall]

\* OrdersService.create; the customer it upserts is modelled elsewhere.
Create(o, v, charge) ==
  /\ orders[o].status = "ABSENT"
  /\ Commit(o, [Absent EXCEPT !.status = "PENDING", !.vendor = v,
                              !.deliveryCharge = charge],
               Row(None, "PENDING", v, None))
  /\ UNCHANGED <<drivers, calls>>

\* accept(), before its transaction: availability and the rate are read.
AcceptCheck(c, o, d, by) ==
  /\ orders[o].status # "ABSENT"
  /\ by \in {d, Admin}
  /\ Available(d, by)
  /\ Begin(c, [NoCall EXCEPT !.phase = "accept", !.order = o, !.driver = d,
                             !.by = by, !.bps = ResolveCommissionBps(d)])
  /\ UNCHANGED <<orders, history, drivers>>

\* SELECT ... FOR UPDATE on the driver, and the same checks once more.
AcceptLock(c) ==
  /\ calls[c].phase = "accept"
  /\ ~Locked(calls[c].driver)
  /\ IF Available(calls[c].driver, calls[c].by)
     THEN calls' = [calls EXCEPT ![c].phase = "accept locked"]
     ELSE End(c)
  /\ UNCHANGED <<orders, history, drivers>>

\* The row accept() writes for a pending order, snapshot included.
Assigned(o, d, bps) ==
  [orders[o] EXCEPT !.status = "DRIVER_ASSIGNED", !.driver = d,
                    !.snapshot = ComputeSnapshot(orders[o].deliveryCharge, bps),
                    !.assignedAt = TRUE]

MutAcceptGuard(o) == orders[o].status \in {"PENDING", "DRIVER_ASSIGNED"}

AcceptGuard(o) == orders[o].status = "PENDING" /\ orders[o].driver = None

AcceptCommit(c) ==
  LET call == calls[c]
      o == call.order
  IN  /\ call.phase = "accept locked"
      /\ IF AcceptGuard(o)
         THEN Commit(o, Assigned(o, call.driver, call.bps),
                     Row("PENDING", "DRIVER_ASSIGNED", call.by, call.driver))
         ELSE UNCHANGED <<orders, history>>   \* someone else won the race
      /\ End(c)
      /\ UNCHANGED drivers

\* driverTransition(): a repeat that finds the order already in `to` answers
\* success and a wrong state answers 409, both without a change.
DriverTransition(o, by, from, row) ==
  /\ orders[o].status = from
  /\ DriverScope(o, by)
  /\ Commit(o, row, Row(from, row.status, by, None))
  /\ UNCHANGED <<drivers, calls>>

Pickup(o, by) ==
  DriverTransition(o, by, "DRIVER_ASSIGNED",
    [orders[o] EXCEPT !.status = "PICKED_UP", !.pickedUpAt = TRUE])

Deliver(o, by) ==
  DriverTransition(o, by, "PICKED_UP",
    [orders[o] EXCEPT !.status = "DELIVERED", !.deliveredAt = TRUE])

Fail(o, by) ==
  DriverTransition(o, by, "PICKED_UP", [orders[o] EXCEPT !.status = "FAILED"])

\* The first statement of release(), adminCancel() and adminReassign().
Before(o) == [status |-> orders[o].status, driver |-> orders[o].driver]

ReleaseRead(c, o, by) ==
  /\ orders[o].status # "ABSENT"
  /\ DriverScope(o, by)
  /\ Begin(c, [NoCall EXCEPT !.phase = "release", !.order = o, !.by = by,
                             !.before = Before(o)])
  /\ UNCHANGED <<orders, history, drivers>>

Released(o) ==
  [orders[o] EXCEPT !.status = "PENDING", !.driver = None,
                    !.snapshot = None, !.assignedAt = FALSE]

ReleaseGuard(o, by) == orders[o].status = "DRIVER_ASSIGNED" /\ DriverScope(o, by)

ReleaseCommit(c) ==
  LET call == calls[c]
      o == call.order
  IN  /\ call.phase = "release"
      /\ IF ReleaseGuard(o, call.by)
         THEN Commit(o, Released(o), Row("DRIVER_ASSIGNED", "PENDING", call.by,
                                         call.before.driver))
         ELSE UNCHANGED <<orders, history>>
      /\ End(c)
      /\ UNCHANGED drivers

VendorCancel(o, v) ==
  /\ orders[o].status = "PENDING"
  /\ orders[o].vendor = v
  /\ Commit(o, [orders[o] EXCEPT !.status = "CANCELLED"],
            Row("PENDING", "CANCELLED", v, None))
  /\ UNCHANGED <<drivers, calls>>

AdminCancelRead(c, o) ==
  /\ orders[o].status # "ABSENT"
  /\ Begin(c, [NoCall EXCEPT !.phase = "cancel", !.order = o, !.by = Admin,
                             !.before = Before(o)])
  /\ UNCHANGED <<orders, history, drivers>>

CancelGuard(o) == orders[o].status \in {"PENDING", "DRIVER_ASSIGNED", "PICKED_UP"}

AdminCancelCommit(c) ==
  LET call == calls[c]
      o == call.order
  IN  /\ call.phase = "cancel"
      /\ IF CancelGuard(o)
         THEN Commit(o, [orders[o] EXCEPT !.status = "CANCELLED"],
                     Row(call.before.status, "CANCELLED", Admin, None))
         ELSE UNCHANGED <<orders, history>>
      /\ End(c)
      /\ UNCHANGED drivers

ReassignCheck(c, o, d) ==
  /\ orders[o].status # "ABSENT"
  /\ Available(d, Admin)
  /\ Begin(c, [NoCall EXCEPT !.phase = "reassign", !.order = o, !.driver = d,
                             !.by = Admin, !.bps = ResolveCommissionBps(d)])
  /\ UNCHANGED <<orders, history, drivers>>

\* FOR UPDATE on the new driver, then the read of the order.  What commits
\* between the two statements could as well have committed before both.
ReassignLock(c) ==
  LET call == calls[c]
      o == call.order
  IN  /\ call.phase = "reassign"
      /\ ~Locked(call.driver)
      /\ IF /\ Available(call.driver, Admin)
            /\ orders[o].driver \notin {None, call.driver}
            /\ orders[o].status \in {"DRIVER_ASSIGNED", "PICKED_UP"}
         THEN calls' = [calls EXCEPT ![c] = [call EXCEPT !.phase = "reassign locked",
                                                         !.before = Before(o)]]
         ELSE End(c)
      /\ UNCHANGED <<orders, history, drivers>>

ReassignGuard(o, before) == /\ orders[o].status \in {"DRIVER_ASSIGNED", "PICKED_UP"}
                            /\ orders[o].driver = before.driver

MutReassigned(o, d, bps) == Assigned(o, d, bps)

Reassigned(o, d, bps) == [Assigned(o, d, bps) EXCEPT !.pickedUpAt = FALSE]

ReassignCommit(c) ==
  LET call == calls[c]
      o == call.order
  IN  /\ call.phase = "reassign locked"
      /\ IF ReassignGuard(o, call.before)
         THEN Commit(o, Reassigned(o, call.driver, call.bps),
                     Row(call.before.status, "DRIVER_ASSIGNED", Admin, call.driver))
         ELSE UNCHANGED <<orders, history>>
      /\ End(c)
      /\ UNCHANGED drivers

\* DriversService.update: waits for whoever holds the row.
UpdateDriver(d, input) ==
  /\ ~Locked(d)
  /\ drivers' = [drivers EXCEPT ![d].status = input.status,
                                ![d].commissionOverrideBps = input.commissionOverrideBps]
  /\ UNCHANGED <<orders, history, calls>>

\* DriversService.setDuty: no check of the driver's status.
SetDuty(d, dutyStatus) ==
  /\ ~Locked(d)
  /\ drivers' = [drivers EXCEPT ![d].dutyStatus = dutyStatus]
  /\ UNCHANGED <<orders, history, calls>>

\* The transaction times out, or its process or connection dies: Postgres
\* rolls back, and whatever the call had read is gone with it.
Abort(c) == /\ calls[c].phase # "idle"
            /\ End(c)
            /\ UNCHANGED <<orders, history, drivers>>

\* What a call does after its first statement.
Continue(c) == \/ AcceptLock(c) \/ AcceptCommit(c)
               \/ ReleaseCommit(c)
               \/ AdminCancelCommit(c)
               \/ ReassignLock(c) \/ ReassignCommit(c)

\* Commands of one statement, and the first statement of the others.
Command(o) ==
  \/ \E v \in Vendors, charge \in Charges : Create(o, v, charge)
  \/ \E by \in Drivers \cup {Admin} : Pickup(o, by) \/ Deliver(o, by) \/ Fail(o, by)
  \/ \E v \in Vendors : VendorCancel(o, v)

Start(c, o) ==
  \/ \E d \in Drivers : \E by \in {d, Admin} : AcceptCheck(c, o, d, by)
  \/ \E by \in Drivers \cup {Admin} : ReleaseRead(c, o, by)
  \/ AdminCancelRead(c, o)
  \/ \E d \in Drivers : ReassignCheck(c, o, d)

DriverChange(d) ==
  \/ \E input \in DriverInputs : UpdateDriver(d, input)
  \/ \E s \in {"ON_DUTY", "OFF_DUTY"} : SetDuty(d, s)

Next == \/ \E o \in Orders : Command(o)
        \/ \E c \in Calls, o \in Orders : Start(c, o)
        \/ \E c \in Calls : Continue(c) \/ Abort(c)
        \/ \E d \in Drivers : DriverChange(d)

Spec == Init /\ [][Next]_vars

-----------------------------------------------------------------------------
OrderRows ==
  [status : OrderStatus \cup {"ABSENT"}, vendor : Vendors \cup {None},
   deliveryCharge : Charges \cup {None}, driver : Drivers \cup {None},
   snapshot : Snapshots \cup {None},
   assignedAt : BOOLEAN, pickedUpAt : BOOLEAN, deliveredAt : BOOLEAN]

HistoryRows ==
  [from : OrderStatus \cup {None}, to : OrderStatus,
   by : Drivers \cup Vendors \cup {Admin}, driver : Drivers \cup {None}]

DriverRows == [status : {"ACTIVE", "SUSPENDED"}, dutyStatus : {"ON_DUTY", "OFF_DUTY"},
               commissionOverrideBps : Rates \cup {None}]

Befores == [status : OrderStatus, driver : Drivers \cup {None}]

\* What each kind of call has in its record.
AcceptCalls == [phase : {"accept", "accept locked"}, order : Orders, driver : Drivers,
                by : Drivers \cup {Admin}, bps : Bps, before : {None}]

ReadCalls == [phase : {"release", "cancel"}, order : Orders, driver : {None},
              by : Drivers \cup {Admin}, bps : {None}, before : Befores]

ReassignCalls == [phase : {"reassign"}, order : Orders, driver : Drivers,
                  by : {Admin}, bps : Bps, before : {None}]

ReassignLockedCalls == [phase : {"reassign locked"}, order : Orders, driver : Drivers,
                        by : {Admin}, bps : Bps, before : Befores]

CallRows == {NoCall} \cup AcceptCalls \cup ReadCalls
              \cup ReassignCalls \cup ReassignLockedCalls

\* Types of the tables and of what a call carries between its statements.
TypeOK == /\ orders \in [Orders -> OrderRows]
          /\ history \in [Orders -> Seq(HistoryRows)]
          /\ drivers \in [Drivers -> DriverRows]
          /\ calls \in [Calls -> CallRows]

\* The CHECK constraints on orders, which abort a transaction that would
\* break them.  No command does: a guarded write never ends in a 500.
SnapshotConsistent(row) ==
  row.snapshot # None =>
    /\ row.snapshot.platformCommissionAmount >= 0
    /\ row.snapshot.driverEarnings >= 0
    /\ row.snapshot.platformCommissionAmount + row.snapshot.driverEarnings
         = row.deliveryCharge

StatusDriverCoupling(row) ==
  \/ row.status = "PENDING" /\ row.driver = None /\ row.snapshot = None
  \/ /\ row.status \in {"DRIVER_ASSIGNED", "PICKED_UP", "DELIVERED", "FAILED"}
     /\ row.driver # None
     /\ row.snapshot # None
  \/ row.status = "CANCELLED"

TsOrdering(row) == /\ row.pickedUpAt => row.assignedAt
                   /\ row.deliveredAt => row.pickedUpAt
                   /\ row.status = "DELIVERED" => row.deliveredAt

DbConstraints ==
  \A o \in Orders : orders[o].status # "ABSENT" =>
    /\ SnapshotConsistent(orders[o])
    /\ StatusDriverCoupling(orders[o])
    /\ TsOrdering(orders[o])

\* The comment in accept(): suspending a driver and giving him an order take
\* turns.  At the moment an order goes to a driver his row says ACTIVE, and
\* ON_DUTY when he took it himself.
AssignedOnlyWhenAvailable ==
  [][\A o \in Orders :
       orders'[o].driver \notin {None, orders[o].driver} =>
         Available(orders'[o].driver, history'[o][Len(history'[o])].by)]_vars

\* The last history row gives the order's status; the last hand-over
\* (assignment, or return to PENDING) gives its driver.
HandOver(row) == row.to \in {"DRIVER_ASSIGNED", "PENDING"}

HistoryMatchesOrder ==
  \A o \in Orders : orders[o].status # "ABSENT" =>
    LET h == history[o] IN
      /\ h # <<>>
      /\ h[Len(h)].to = orders[o].status
      /\ \E i \in 1 .. Len(h) :
           /\ HandOver(h[i])
           /\ \A j \in i + 1 .. Len(h) : ~HandOver(h[j])
           /\ orders[o].driver = IF h[i].to = "PENDING" THEN None ELSE h[i].driver

Chained(h, i) == h[i].from = IF i = 1 THEN None ELSE h[i - 1].to

\* Rows written from a read of an earlier statement: admin cancel, reassign.
FromEarlierRead(row) ==
  /\ row.by = Admin
  /\ \/ row.to = "CANCELLED"
     \/ row.to = "DRIVER_ASSIGNED" /\ row.from # "PENDING"

\* Every row but those says the status the order had when it was written.
HistoryChains == \A o \in Orders : \A i \in 1 .. Len(history[o]) :
                   Chained(history[o], i) \/ FromEarlierRead(history[o][i])

\* The history alone tells the order: who holds it in which status, and how it
\* came there, although release, cancel and reassign write their rows from
\* what an earlier statement read.
HistoryTellsOrder == HistoryMatchesOrder /\ HistoryChains

\* The header of the service: the WHERE clause carries the full guard,
\* current status included, so every row's from is the status it replaced.
FullGuard == \A o \in Orders : \A i \in 1 .. Len(history[o]) : Chained(history[o], i)

\* OrderFinancialsService: the snapshot is frozen at acceptance; neither a
\* rate change nor any later command touches it while the driver stays.
SnapshotFrozen ==
  [][\A o \in Orders :
       orders[o].snapshot # None /\ orders'[o].driver = orders[o].driver
         => orders'[o].snapshot = orders[o].snapshot]_vars

\* SettingsService on commission resolution: it "reads THROUGH the
\* transaction for the driver row".  The rate a call will apply would then be
\* that of the row it holds.
RateReadInTransaction ==
  \A c \in Calls : calls[c].phase = "accept locked" =>
    calls[c].bps = ResolveCommissionBps(calls[c].driver)

\* The lifecycle implements the shared transition table, each change taken
\* by an actor the table and the ownership checks entitle.
StatusMachine ==
  INSTANCE OrderStatusMachine
    WITH status <- [o \in Orders |-> orders[o].status],
         driver <- [o \in Orders |-> orders[o].driver],
         owner  <- [o \in Orders |-> orders[o].vendor],
         by     <- [o \in Orders |-> IF history[o] = <<>> THEN None
                                     ELSE history[o][Len(history[o])].by]

ImplementsStatusMachine == StatusMachine!Spec
=============================================================================

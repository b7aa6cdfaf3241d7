------------------------- MODULE OrderStatusMachine -------------------------
(***************************************************************************)
(* What the order lifecycle promises: the table ORDER_TRANSITIONS that     *)
(* packages/shared/src/order-transitions.ts gives the API and the web      *)
(* client alike, plus creation and the admin's driver swap, which the      *)
(* table leaves out on purpose.  Nothing here knows of transactions, locks *)
(* or requests: every change is one step, taken by an entitled actor.      *)
(***************************************************************************)
CONSTANTS Orders, Drivers, Vendors, Admin, None

VARIABLES status,   \* order -> its status, "ABSENT" before it is created
          driver,   \* order -> the driver who holds it, or None
          owner,    \* order -> the vendor it belongs to
          by        \* order -> who made its last change

vars == <<status, driver, owner, by>>

Role(actor) == IF actor \in Drivers THEN "DRIVER"
               ELSE IF actor \in Vendors THEN "VENDOR" ELSE "ADMIN"

Transition(action, from, to, actors, assignedDriverOnly) ==
  [action |-> action, from |-> from, to |-> to, actors |-> actors,
   assignedDriverOnly |-> assignedDriverOnly]

ORDER_TRANSITIONS ==
  { Transition("accept",  {"PENDING"}, "DRIVER_ASSIGNED", {"DRIVER", "ADMIN"}, FALSE),
    Transition("pickup",  {"DRIVER_ASSIGNED"}, "PICKED_UP", {"DRIVER", "ADMIN"}, TRUE),
    Transition("deliver", {"PICKED_UP"}, "DELIVERED", {"DRIVER", "ADMIN"}, TRUE),
    Transition("release", {"DRIVER_ASSIGNED"}, "PENDING", {"DRIVER", "ADMIN"}, TRUE),
    Transition("cancel",  {"PENDING"}, "CANCELLED", {"VENDOR", "ADMIN"}, FALSE),
    Transition("cancel",  {"DRIVER_ASSIGNED", "PICKED_UP"}, "CANCELLED", {"ADMIN"}, FALSE),
    Transition("fail",    {"PICKED_UP"}, "FAILED", {"DRIVER", "ADMIN"}, TRUE) }

Init == /\ status = [o \in Orders |-> "ABSENT"]
        /\ driver = [o \in Orders |-> None]
        /\ owner = [o \in Orders |-> None]
        /\ by = [o \in Orders |-> None]

Create(o, v) == /\ status[o] = "ABSENT"
                /\ status' = [status EXCEPT ![o] = "PENDING"]
                /\ owner' = [owner EXCEPT ![o] = v]
                /\ by' = [by EXCEPT ![o] = v]
                /\ UNCHANGED driver

\* A driver accepts for himself, an admin for any driver; release gives the
\* order up; every other transition leaves the driver on it.
DriverAfter(o, t, actor) ==
  CASE t.action = "accept"  -> IF actor \in Drivers THEN {actor} ELSE Drivers
    [] t.action = "release" -> {None}
    [] OTHER                -> {driver[o]}

Take(o, t, actor) ==
  /\ status[o] \in t.from
  /\ Role(actor) \in t.actors
  /\ actor \in Vendors => owner[o] = actor
  /\ t.assignedDriverOnly /\ actor \in Drivers => driver[o] = actor
  /\ status' = [status EXCEPT ![o] = t.to]
  /\ \E d \in DriverAfter(o, t, actor) : driver' = [driver EXCEPT ![o] = d]
  /\ by' = [by EXCEPT ![o] = actor]
  /\ UNCHANGED owner

\* "not a status change but an atomic driver swap performed by admin while
\* status stays DRIVER_ASSIGNED (or moves back from PICKED_UP)".
Reassign(o, d) == /\ status[o] \in {"DRIVER_ASSIGNED", "PICKED_UP"}
                  /\ driver[o] # d
                  /\ status' = [status EXCEPT ![o] = "DRIVER_ASSIGNED"]
                  /\ driver' = [driver EXCEPT ![o] = d]
                  /\ by' = [by EXCEPT ![o] = Admin]
                  /\ UNCHANGED owner

Next == \E o \in Orders :
          \/ \E v \in Vendors : Create(o, v)
          \/ \E t \in ORDER_TRANSITIONS, actor \in Drivers \cup Vendors \cup {Admin} :
               Take(o, t, actor)
          \/ \E d \in Drivers : Reassign(o, d)

Spec == Init /\ [][Next]_vars
=============================================================================

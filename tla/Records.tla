------------------------------ MODULE Records ------------------------------
(***************************************************************************)
(* The people an order names, from creation to deletion: create(),         *)
(* update() and remove() of drivers/ and vendors/*.service.ts, the names   *)
(* and phones of customers/customers.service.ts, and the vendor-customer   *)
(* links that triggers keep.                                               *)
(*                                                                         *)
(* A removal counts what names the record, and deletes it in a transaction *)
(* of its own; between the two orders are placed, taken and called off.    *)
(* The foreign keys and CHECKs of the migrations decide at the commit.     *)
(***************************************************************************)
EXTENDS Integers, FiniteSets

CONSTANTS Tabs,  \* the console's tabs
          Drivers, Vendors, Customers, Orders,
          Phones, Names,
          None

People == Drivers \cup Vendors

ASSUME RecordsAssumption ==
  /\ IsFiniteSet(Orders) /\ IsFiniteSet(Vendors)
  /\ Drivers \cap Vendors = {} /\ People \cap Customers = {}
  /\ None \notin People \cup Customers \cup Phones \cup Names \cup {"order", "alias"}

VARIABLES people,    \* driver or vendor -> its row
          customers, \* customer -> its row
          lastNamed, \* customer -> the name customer_change_history ends with
          orders,    \* order -> whom it names, and its status
          settled,   \* the drivers with a driver_settlements row
          links,     \* customer_vendors
          tabs,      \* tab -> the request it waits for
          shops      \* vendor -> the request he waits for

vars == <<people, customers, lastNamed, orders, settled, links, tabs, shops>>
dbVars == <<people, customers, lastNamed, orders, settled, links>>
-----------------------------------------------------------------------------
MutNewPerson == [state |-> "there", active |-> None]

\* An id is used once.
NewPerson == [state |-> "there", active |-> TRUE]
NoPerson(state) == [state |-> state, active |-> FALSE]
NoCustomer(state) == [state |-> state, phone |-> None, name |-> None]
NoOrder == [status |-> "ABSENT", vendor |-> None, customer |-> None, driver |-> None]
NoLink == [there |-> FALSE, orders |-> 0, alias |-> FALSE]

Idle == [phase |-> "idle", target |-> None, name |-> None, phone |-> None]
NoShopping == [op |-> None, customer |-> None, phone |-> None, name |-> None]

There(x) == IF x \in People THEN people[x].state = "there"
            ELSE x \in Customers /\ customers[x].state = "there"
Working(x) == There(x) /\ people[x].active
Known(phone) == {c \in Customers : There(c) /\ customers[c].phone = phone}
Naming(x) == {o \in Orders : x \in {orders[o].vendor, orders[o].customer, orders[o].driver}}

Machine == INSTANCE OrderStatusMachine
  WITH Admin <- None, status <- [o \in Orders |-> orders[o].status],
       driver <- [o \in Orders |-> orders[o].driver],
       owner <- [o \in Orders |-> orders[o].vendor], by <- [o \in Orders |-> None]

Go(t, tab) == tabs' = [tabs EXCEPT ![t] = tab]
Shop(v, call) == shops' = [shops EXCEPT ![v] = call]
-----------------------------------------------------------------------------
Init == /\ people = [x \in People |-> NoPerson("new")]
        /\ customers = [c \in Customers |-> NoCustomer("new")]
        /\ lastNamed = [c \in Customers |-> None]
        /\ orders = [o \in Orders |-> NoOrder]
        /\ settled = {}
        /\ links = [p \in Customers \X Vendors |-> NoLink]
        /\ tabs = [t \in Tabs |-> Idle]
        /\ shops = [v \in Vendors |-> NoShopping]

\* create(): the account and the profile in one transaction.
CreatePerson(x) ==
  /\ people[x].state = "new"
  /\ people' = [people EXCEPT ![x] = NewPerson]
  /\ UNCHANGED <<customers, lastNamed, orders, settled, links, tabs, shops>>

CreateDriver(d) == CreatePerson(d)
CreateVendor(v) == CreatePerson(v)

\* update(): a status, whatever the driver or vendor is doing.
UpdatePerson(x, active) ==
  /\ There(x) /\ people[x].active # active
  /\ people' = [people EXCEPT ![x].active = active]
  /\ UNCHANGED <<customers, lastNamed, orders, settled, links, tabs, shops>>

UpdateDriver(d, active) == UpdatePerson(d, active)
UpdateVendor(v, active) == UpdatePerson(v, active)

\* The forms: a new account is active, an edited one has the status chosen
\* there.
DriverForm(d) == CreateDriver(d) \/ \E active \in BOOLEAN : UpdateDriver(d, active)
VendorForm(v) == CreateVendor(v) \/ \E active \in BOOLEAN : UpdateVendor(v, active)

\* What the dialog offers once a deletion is refused.
SuspendInstead(x) == Naming(x) # {} /\ UpdatePerson(x, FALSE)
-----------------------------------------------------------------------------
\* The orders that name the record are counted.  If there are any the request
\* is refused, and the dialog says so.
CountOrders(t, x, next) ==
  /\ tabs[t] = Idle
  /\ There(x) /\ Naming(x) = {}
  /\ Go(t, [Idle EXCEPT !.phase = next, !.target = x])
  /\ UNCHANGED <<dbVars, shops>>

RemoveVendor(t, v) == CountOrders(t, v, "delete")
RemoveCustomer(t, c) == CountOrders(t, c, "delete")
RemoveDriver(t, d) == CountOrders(t, d, "settlements")

\* A driver's settlements are counted after his orders.
CountSettlements(t) ==
  /\ tabs[t].phase = "settlements"
  /\ Go(t, IF tabs[t].target \in settled THEN Idle ELSE [tabs[t] EXCEPT !.phase = "delete"])
  /\ UNCHANGED <<dbVars, shops>>

MutMustKeep(o, x) == x = orders[o].driver /\ orders[o].status # "CANCELLED"

\* orders.vendor_id and customer_id restrict a deletion; driver_id becomes
\* NULL, where order_status_driver_coupling lets it.
MustKeep(o, x) ==
  \/ x \in {orders[o].vendor, orders[o].customer}
  \/ x = orders[o].driver /\ orders[o].status # "CANCELLED"

\* The transaction: what belongs to the record goes with it, or nothing does.
Delete(t) ==
  LET x == tabs[t].target IN
  /\ tabs[t].phase = "delete"
  /\ Go(t, Idle)
  /\ IF ~There(x) \/ x \in settled \/ \E o \in Orders : MustKeep(o, x)
     THEN UNCHANGED dbVars
     ELSE /\ people' = [y \in People |-> IF y = x THEN NoPerson("gone") ELSE people[y]]
          /\ customers' = [c \in Customers |-> IF c = x THEN NoCustomer("gone") ELSE customers[c]]
          /\ lastNamed' = [c \in Customers |-> IF c = x THEN None ELSE lastNamed[c]]
          /\ links' = [p \in Customers \X Vendors |->
               IF x \in {p[1], p[2]} THEN NoLink ELSE links[p]]
          /\ orders' = [o \in Orders |-> IF orders[o].driver # x THEN orders[o]
                                         ELSE [orders[o] EXCEPT !.driver = None]]
          /\ UNCHANGED settled
  /\ UNCHANGED shops
-----------------------------------------------------------------------------
\* A vendor's link to a customer, which he has from adding or naming him and
\* which counts what he orders for him.
Linked(c, v, orderCount) ==
  LET row == links[<<c, v>>]
  IN  [links EXCEPT ![<<c, v>>] = [row EXCEPT !.there = TRUE, !.orders = row.orders + orderCount]]

AddRow(c, phone, name) ==
  customers' = [customers EXCEPT ![c] = [state |-> "there", phone |-> phone, name |-> name]]

\* createOrReuse for a phone nobody has: the customer, the history's first
\* entry and, for a vendor, the link; v is None for an admin.
CreateCustomer(v, c, phone, name) ==
  /\ v # None => shops[v] = NoShopping /\ Working(v)
  /\ customers[c].state = "new" /\ Known(phone) = {}
  /\ AddRow(c, phone, name)
  /\ lastNamed' = [lastNamed EXCEPT ![c] = name]
  /\ links' = IF v = None THEN links ELSE Linked(c, v, 0)
  /\ UNCHANGED <<people, orders, settled, tabs, shops>>

\* orders.create(): upsertInTx looks for the phone ...
PlaceOrder(v, phone, name) ==
  /\ shops[v] = NoShopping /\ Working(v)
  /\ Known(phone) # {} => name = None
  /\ Known(phone) = {} => name # None
  /\ \E c \in IF Known(phone) = {} THEN {None} ELSE Known(phone) :
       Shop(v, [op |-> "order", phone |-> phone, name |-> name, customer |-> c])
  /\ UNCHANGED <<dbVars, tabs>>

MutOrdered(c, v) == Linked(c, v, IF links[<<c, v>>].there THEN 0 ELSE 1)

\* link_customer_vendor_on_order: a first order, or one more.
Ordered(c, v) == Linked(c, v, 1)

\* ... and the order is inserted, with the customer if there was none, while
\* the vendor and the customer are there and a new phone is still free.
InsertOrder(v, o, c) ==
  LET call == shops[v] IN
  /\ call.op = "order" /\ orders[o] = NoOrder
  /\ There(v)
  /\ \/ /\ call.customer = None /\ customers[c].state = "new" /\ Known(call.phone) = {}
        /\ AddRow(c, call.phone, call.name)
     \/ /\ call.customer = c /\ There(c)
        /\ UNCHANGED customers
  /\ orders' = [orders EXCEPT ![o] = [status |-> "PENDING", vendor |-> v, customer |-> c,
                                      driver |-> None]]
  /\ links' = Ordered(c, v)
  /\ Shop(v, NoShopping)
  /\ UNCHANGED <<people, lastNamed, settled, tabs>>

\* Otherwise, or if anything else of it fails, nothing of it stays.
OrderFails(v) ==
  /\ shops[v].op = "order"
  /\ Shop(v, NoShopping)
  /\ UNCHANGED <<dbVars, tabs>>

\* setDisplayName(): the customer is read, ...
SetDisplayName(v, c) ==
  /\ shops[v] = NoShopping /\ Working(v) /\ There(c)
  /\ Shop(v, [NoShopping EXCEPT !.op = "alias", !.customer = c])
  /\ UNCHANGED <<dbVars, tabs>>

\* ... and the link upserted, which the foreign keys refuse once either of
\* the two is gone.  A name that was the customer's own is no alias.
WriteAlias(v) ==
  LET c == shops[v].customer IN
  /\ shops[v].op = "alias"
  /\ IF There(v) /\ There(c)
     THEN \E own \in BOOLEAN : links' = [Linked(c, v, 0) EXCEPT ![<<c, v>>].alias = own]
     ELSE UNCHANGED links
  /\ Shop(v, NoShopping)
  /\ UNCHANGED <<people, customers, lastNamed, orders, settled, tabs>>

\* clearDisplayName(): a link there is loses its alias.
ClearDisplayName(v, c) ==
  /\ shops[v] = NoShopping /\ Working(v)
  /\ links[<<c, v>>].alias
  /\ links' = [links EXCEPT ![<<c, v>>].alias = FALSE]
  /\ UNCHANGED <<people, customers, lastNamed, orders, settled, tabs, shops>>
-----------------------------------------------------------------------------
\* An order goes its way; whoever accepts it is an active driver.  Passing it
\* on to another driver is a release and an accept here.
Move(o, transition, d) ==
  LET order == orders[o] IN
  /\ order.status \in transition.from
  /\ IF transition.action = "accept" THEN d \in Drivers /\ Working(d)
     ELSE d = (IF transition.action = "release" THEN None ELSE order.driver)
  /\ orders' = [orders EXCEPT ![o].status = transition.to, ![o].driver = d]
  /\ UNCHANGED <<people, customers, lastNamed, settled, links, tabs, shops>>

\* settle(): a driver's delivered work.
SettleDriver(d) ==
  /\ \E o \in Orders : orders[o].driver = d /\ orders[o].status = "DELIVERED"
  /\ settled' = settled \cup {d}
  /\ UNCHANGED <<people, customers, lastNamed, orders, links, tabs, shops>>
-----------------------------------------------------------------------------
\* An edit compares with the row it read, and keeps the fields that differ;
\* phone is None where only a name is sent.
Edit(t, c, name, phone) ==
  LET row == customers[c]
      differs(new, old) == IF new = old THEN None ELSE new
  IN  /\ tabs[t] = Idle /\ There(c)
      /\ name # row.name \/ phone \notin {None, row.phone}
      /\ Go(t, [phase |-> "edit", target |-> c, name |-> differs(name, row.name),
                phone |-> differs(phone, row.phone)])
      /\ UNCHANGED <<dbVars, shops>>

Update(t, c, name) == Edit(t, c, name, None)
AdminUpdate(t, c, name, phone) == Edit(t, c, name, phone)

MutFits(tab) == There(tab.target)

\* The row is there, and nobody else has its new phone.
Fits(tab) == There(tab.target) /\ (tab.phone # None => Known(tab.phone) \subseteq {tab.target})

\* The row and the history entry of those fields, or neither.
WriteCustomer(t) ==
  LET tab == tabs[t]
      c == tab.target
      name == IF tab.name = None THEN customers[c].name ELSE tab.name
      phone == IF tab.phone = None THEN customers[c].phone ELSE tab.phone
  IN  /\ tab.phase = "edit"
      /\ Go(t, Idle)
      /\ IF Fits(tab)
         THEN /\ customers' = [customers EXCEPT ![c] = [@ EXCEPT !.name = name, !.phone = phone]]
              /\ lastNamed' = [lastNamed EXCEPT ![c] = IF tab.name = None THEN @ ELSE name]
         ELSE UNCHANGED <<customers, lastNamed>>
      /\ UNCHANGED <<people, orders, settled, links, shops>>
-----------------------------------------------------------------------------
\* What the console's pages send, from any tab ...
DriversPage ==
  \E d \in Drivers : DriverForm(d) \/ SuspendInstead(d) \/ \E t \in Tabs : RemoveDriver(t, d)
VendorsPage ==
  \E v \in Vendors : VendorForm(v) \/ SuspendInstead(v) \/ \E t \in Tabs : RemoveVendor(t, v)

CustomerCreateDialog(v) ==
  \E c \in Customers, phone \in Phones, name \in Names : CreateCustomer(v, c, phone, name)

\* Both fields are sent, whichever was touched.
CustomerManageDialog(t, c) ==
  \E name \in Names, phone \in Phones : AdminUpdate(t, c, name, phone)

CustomersPage ==
  \/ CustomerCreateDialog(None)
  \/ \E t \in Tabs, c \in Customers : CustomerManageDialog(t, c) \/ RemoveCustomer(t, c)

\* ... a route no page uses ...
Routes == \E t \in Tabs, c \in Customers, name \in Names : Update(t, c, name)

\* ... and what is left of the requests they sent.
Requests(t) == CountSettlements(t) \/ Delete(t) \/ WriteCustomer(t)

\* A vendor's: his name for the customer on the screen, ...
IdentityHeader(v, c) == SetDisplayName(v, c) \/ ClearDisplayName(v, c)

VendorCustomersPage(v) ==
  CustomerCreateDialog(v) \/ \E c \in Customers : IdentityHeader(v, c)

\* ... and his orders.
NewOrderPage(v) == \E phone \in Phones, name \in Names \cup {None} : PlaceOrder(v, phone, name)

Vending(v) ==
  \/ VendorCustomersPage(v) \/ NewOrderPage(v)
  \/ \E o \in Orders, c \in Customers : InsertOrder(v, o, c)
  \/ OrderFails(v) \/ WriteAlias(v)

Deliveries ==
  \/ \E o \in Orders, t \in Machine!ORDER_TRANSITIONS, d \in Drivers \cup {None} : Move(o, t, d)
  \/ \E d \in Drivers : SettleDriver(d)

Next ==
  \/ DriversPage \/ VendorsPage \/ CustomersPage \/ Routes
  \/ \E t \in Tabs : Requests(t)
  \/ \E v \in Vendors : Vending(v)
  \/ Deliveries

Spec == Init /\ [][Next]_vars
-----------------------------------------------------------------------------
\* What the readers make of it.  A vendor's list: his links, with their count.
myCustomers(v) ==
  [c \in {x \in Customers : There(x) /\ links[<<x, v>>].there} |-> links[<<c, v>>].orders]

\* Whoever has one of the numbers typed so far, and whether he is the caller's.
platformLookup(v, phones) ==
  [c \in {x \in Customers : There(x) /\ customers[x].phone \in phones} |-> links[<<c, v>>].there]

\* The two on a vendor's page, for no number or some: his own, then the rest.
MyCustomersList(v, phones) ==
  {c \in DOMAIN myCustomers(v) : phones = {} \/ customers[c].phone \in phones}
PlatformMatches(v, phones) ==
  LET found == platformLookup(v, phones) IN {c \in DOMAIN found : ~found[c]}

\* A profile counts orders: the vendor's with the customer, or everyone's.
customerOrderScope(v, c) ==
  {o \in Orders : orders[o].customer = c /\ v \in {None, orders[o].vendor}}
profile(v, c) == Cardinality(customerOrderScope(v, c))

\* The directory, of all customers or of one vendor's.
adminVendorLinkFilter(v) ==
  {c \in Customers : There(c) /\ (v = None \/ links[<<c, v>>].there)}
adminList(v) ==
  [c \in adminVendorLinkFilter(v) |->
     [orders |-> Cardinality(Naming(c)),
      vendorLinks |-> Cardinality({w \in Vendors : links[<<c, w>>].there})]]
-----------------------------------------------------------------------------
States == {"new", "there", "gone"}
Statuses == {"ABSENT", "PENDING", "DRIVER_ASSIGNED", "PICKED_UP", "DELIVERED", "CANCELLED",
             "FAILED"}

\* Types of the rows and the requests.
TypeOK ==
  /\ people \in [People -> [state : States, active : BOOLEAN]]
  /\ customers \in [Customers -> [state : States, phone : Phones \cup {None},
                                  name : Names \cup {None}]]
  /\ lastNamed \in [Customers -> Names \cup {None}]
  /\ orders \in [Orders -> [status : Statuses, vendor : Vendors \cup {None},
                            customer : Customers \cup {None}, driver : Drivers \cup {None}]]
  /\ settled \subseteq Drivers
  /\ links \in [Customers \X Vendors -> [there : BOOLEAN, orders : Nat, alias : BOOLEAN]]
  /\ tabs \in [Tabs -> [phase : {"idle", "settlements", "delete", "edit"},
                        target : People \cup Customers \cup {None},
                        name : Names \cup {None}, phone : Phones \cup {None}]]
  /\ shops \in [Vendors -> [op : {None, "order", "alias"}, customer : Customers \cup {None},
                            phone : Phones \cup {None}, name : Names \cup {None}]]

\* customer_vendor_relationship/migration.sql: '"an order exists" IMPLIES "a
\* relationship exists"', and the repair of its counters "should never be
\* needed".  The count on a vendor's list is that of the orders his profile of
\* the customer counts, whoever is added, named and deleted meanwhile; nobody
\* whose number he types is missing there or shown twice; and the directory
\* has nobody with orders and no vendor.
LinksCountOrders ==
  /\ \A v \in Vendors :
       LET own == myCustomers(v) IN
       /\ \A c \in Customers : profile(v, c) = (IF c \in DOMAIN own THEN own[c] ELSE 0)
       /\ MyCustomersList(v, Phones) \cap PlatformMatches(v, Phones) = {}
       /\ adminVendorLinkFilter(None) \subseteq
            MyCustomersList(v, Phones) \cup PlatformMatches(v, Phones)
  /\ LET directory == adminList(None) IN
     \A c \in DOMAIN directory : directory[c].orders > 0 => directory[c].vendorLinks > 0

\* remove(): earnings are never "attached to nobody".  However a deletion
\* interleaves with placing and taking orders, whoever an order names exists,
\* and a driver is named wherever one must be.
NobodysOrder ==
  \A o \in Orders :
    LET order == orders[o] IN
    order.status # "ABSENT" =>
      /\ There(order.vendor) /\ There(order.customer)
      /\ order.driver # None => There(order.driver)
      /\ order.driver = None => order.status \in {"PENDING", "CANCELLED"}

\* adminUpdate() is "uniqueness-safe" and both editors record their changes:
\* of two admins who edit customers at once, and the vendors who add them,
\* none leaves two with one phone or a name the history does not end with.
OnePhoneLastName ==
  \A c \in Customers :
    There(c) => /\ Known(customers[c].phone) = {c}
                /\ lastNamed[c] \in {None, customers[c].name}
=============================================================================

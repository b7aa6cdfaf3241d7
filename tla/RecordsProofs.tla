---------------------------- MODULE RecordsProofs ----------------------------
(***************************************************************************)
(* Whoever an order names exists, phones stay unique, the history of names *)
(* is up to date, and the links count the orders: for any number of people, *)
(* orders, tabs and vendors at work.  Neither a removal's count nor what an *)
(* editor read is relied on anywhere: the constraints decide at the commit. *)
(***************************************************************************)
EXTENDS Records, FiniteSetTheorems, TLAPS

\* An id without an order names nobody.
Unplaced ==
  \A o \in Orders : orders[o].status = "ABSENT" =>
    orders[o].vendor = None /\ orders[o].customer = None /\ orders[o].driver = None

\* A customer has a phone, and one who is not there no name in the history.
Registered ==
  \A c \in Customers : IF There(c) THEN customers[c].phone \in Phones ELSE lastNamed[c] = None

Placed(c, v) == {o \in Orders : orders[o].customer = c /\ orders[o].vendor = v}

LinkCounts ==
  \A c \in Customers, v \in Vendors :
    /\ links[<<c, v>>].orders = Cardinality(Placed(c, v))
    /\ ~links[<<c, v>>].there => links[<<c, v>>].orders = 0

\* An order that is being placed has a number, and a name for a customer who
\* was not found.
Called ==
  \A v \in Vendors : shops[v].op = "order" =>
    shops[v].phone \in Phones /\ (shops[v].customer = None => shops[v].name \in Names)

Facts == NobodysOrder /\ Unplaced /\ OnePhoneLastName /\ Registered /\ LinkCounts

IInv == TypeOK /\ Called /\ Facts
-----------------------------------------------------------------------------
LEMMA IdleTyped ==
  /\ Idle \in [phase : {"idle", "settlements", "delete", "edit"},
               target : People \cup Customers \cup {None}, name : Names \cup {None},
               phone : Phones \cup {None}]
  /\ NoShopping \in [op : {None, "order", "alias"}, customer : Customers \cup {None},
                     phone : Phones \cup {None}, name : Names \cup {None}]
BY DEF Idle, NoShopping

LEMMA NobodyThere ==
  /\ ~There(None)
  /\ \A c \in Customers : c \notin People /\ (There(c) <=> customers[c].state = "there")
  /\ \A x \in People : There(x) <=> people[x].state = "there"
BY RecordsAssumption DEF There

\* Whom an order names.
LEMMA Named ==
  ASSUME IInv, NEW o \in Orders, orders[o].status # "ABSENT"
  PROVE  /\ orders[o].vendor \in Vendors /\ people[orders[o].vendor].state = "there"
         /\ orders[o].customer \in Customers /\ orders[o].customer \notin People
         /\ customers[orders[o].customer].state = "there"
         /\ IF orders[o].driver = None THEN orders[o].status \in {"PENDING", "CANCELLED"}
            ELSE orders[o].driver \in Drivers /\ people[orders[o].driver].state = "there"
<1>1. orders[o] \in [status : Statuses, vendor : Vendors \cup {None},
                    customer : Customers \cup {None}, driver : Drivers \cup {None}]
  BY DEF IInv, TypeOK
<1>2. /\ There(orders[o].vendor) /\ There(orders[o].customer)
      /\ orders[o].driver # None => There(orders[o].driver)
      /\ orders[o].driver = None => orders[o].status \in {"PENDING", "CANCELLED"}
  BY DEF IInv, Facts, NobodysOrder
<1>3. orders[o].vendor \in Vendors /\ orders[o].customer \in Customers
  BY <1>1, <1>2, NobodyThere
<1> QED BY <1>1, <1>2, <1>3, NobodyThere DEF People

\* Steps that leave customers, orders and links as they are, and delete nobody.
LEMMA SameRecords ==
  ASSUME IInv, UNCHANGED <<customers, lastNamed, orders, links>>,
         \A x \in People : people[x].state = "there" => people'[x].state = "there"
  PROVE  Facts'
<1>1. \A x \in People \cup Customers \cup {None} : There(x) => There(x)'
  BY NobodyThere DEF There
<1>2. \A c \in Customers : There(c) <=> There(c)'
  BY NobodyThere DEF There
<1>3. NobodysOrder'
  BY RecordsAssumption DEF IInv, TypeOK, Facts, NobodysOrder, There
<1>4. Unplaced' /\ LinkCounts'
  BY DEF IInv, Facts, Unplaced, LinkCounts, Placed
<1>5. OnePhoneLastName' /\ Registered'
  BY <1>2 DEF IInv, Facts, OnePhoneLastName, Registered, Known
<1> QED BY <1>3, <1>4, <1>5 DEF Facts

LEMMA PeopleKeep ==
  ASSUME IInv, NEW x \in People,
         CreatePerson(x) \/ \E active \in BOOLEAN : UpdatePerson(x, active)
  PROVE  IInv'
<1>1. CASE CreatePerson(x)
  <2>1. TypeOK'
    BY <1>1 DEF CreatePerson, NewPerson, IInv, TypeOK, States
  <2>2. \A y \in People : people[y].state = "there" => people'[y].state = "there"
    BY <1>1 DEF CreatePerson, NewPerson, IInv, TypeOK
  <2> QED BY <1>1, <2>1, <2>2, SameRecords DEF CreatePerson, IInv, Called
<1>2. CASE \E active \in BOOLEAN : UpdatePerson(x, active)
  <2>1. PICK active \in BOOLEAN : UpdatePerson(x, active)
    BY <1>2
  <2>2. TypeOK'
    BY <2>1 DEF UpdatePerson, IInv, TypeOK
  <2>3. \A y \in People : people[y].state = "there" => people'[y].state = "there"
    BY <2>1 DEF UpdatePerson, IInv, TypeOK
  <2> QED BY <2>1, <2>2, <2>3, SameRecords DEF UpdatePerson, IInv, Called
<1> QED BY <1>1, <1>2

LEMMA TabsKeep ==
  ASSUME IInv, NEW t \in Tabs,
         \/ \E x \in People \cup Customers, next \in {"settlements", "delete"} : CountOrders(t, x, next)
         \/ CountSettlements(t)
         \/ \E c \in Customers, name \in Names, phone \in Phones \cup {None} : Edit(t, c, name, phone)
  PROVE  IInv'
<1>1. UNCHANGED <<dbVars, shops>>
  BY DEF CountOrders, CountSettlements, Edit
<1> DEFINE TabRows == [phase : {"idle", "settlements", "delete", "edit"},
                       target : People \cup Customers \cup {None}, name : Names \cup {None},
                       phone : Phones \cup {None}]
<1>2. tabs \in [Tabs -> TabRows] /\ Idle \in TabRows
  BY IdleTyped DEF IInv, TypeOK
<1>3. tabs' \in [Tabs -> TabRows]
  <2>1. ASSUME NEW x \in People \cup Customers, NEW next \in {"settlements", "delete"},
               CountOrders(t, x, next)
        PROVE  tabs' \in [Tabs -> TabRows]
    BY <1>2, <2>1 DEF CountOrders, Go, Idle
  <2>2. CASE CountSettlements(t)
    BY <1>2, <2>2 DEF CountSettlements, Go
  <2>3. ASSUME NEW c \in Customers, NEW name \in Names, NEW phone \in Phones \cup {None},
               Edit(t, c, name, phone)
        PROVE  tabs' \in [Tabs -> TabRows]
    BY <1>2, <2>3 DEF Edit, Go
  <2> QED BY <2>1, <2>2, <2>3
<1>4. TypeOK'
  BY <1>1, <1>3 DEF IInv, TypeOK, dbVars
<1> QED BY <1>1, <1>4, SameRecords DEF IInv, dbVars, Called

LEMMA ShopsKeep ==
  ASSUME IInv, NEW v \in Vendors,
         \/ \E phone \in Phones, name \in Names \cup {None} : PlaceOrder(v, phone, name)
         \/ OrderFails(v)
         \/ \E c \in Customers : SetDisplayName(v, c)
  PROVE  IInv'
<1>1. UNCHANGED <<dbVars, tabs>>
  BY DEF PlaceOrder, OrderFails, SetDisplayName
<1> DEFINE ShopRows == [op : {None, "order", "alias"}, customer : Customers \cup {None},
                        phone : Phones \cup {None}, name : Names \cup {None}]
<1>2. shops \in [Vendors -> ShopRows] /\ NoShopping \in ShopRows
  BY IdleTyped DEF IInv, TypeOK
<1>3. shops' \in [Vendors -> ShopRows]
  <2>1. ASSUME NEW phone \in Phones, NEW name \in Names \cup {None}, PlaceOrder(v, phone, name)
        PROVE  shops' \in [Vendors -> ShopRows]
    BY <1>2, <2>1 DEF PlaceOrder, Shop, Known
  <2>2. CASE OrderFails(v)
    BY <1>2, <2>2 DEF OrderFails, Shop
  <2>3. ASSUME NEW c \in Customers, SetDisplayName(v, c)
        PROVE  shops' \in [Vendors -> ShopRows]
    BY <1>2, <2>3 DEF SetDisplayName, Shop
  <2> QED BY <2>1, <2>2, <2>3
<1>4. TypeOK'
  BY <1>1, <1>3 DEF IInv, TypeOK, dbVars
<1>5. Called'
  <2>1. ASSUME NEW phone \in Phones, NEW name \in Names \cup {None}, PlaceOrder(v, phone, name)
        PROVE  Called'
    BY <1>2, <2>1, RecordsAssumption DEF PlaceOrder, Shop, Known, IInv, Called
  <2>2. CASE OrderFails(v)
    BY <1>2, <2>2, RecordsAssumption DEF OrderFails, Shop, NoShopping, IInv, Called
  <2>3. ASSUME NEW c \in Customers, SetDisplayName(v, c)
        PROVE  Called'
    BY <1>2, <2>3 DEF SetDisplayName, Shop, IInv, Called
  <2> QED BY <2>1, <2>2, <2>3
<1> QED BY <1>1, <1>4, <1>5, SameRecords DEF IInv, dbVars

LEMMA SettleKeeps ==
  ASSUME IInv, NEW d \in Drivers, SettleDriver(d)
  PROVE  IInv'
<1>1. TypeOK'
  BY DEF SettleDriver, IInv, TypeOK
<1> QED BY <1>1, SameRecords DEF SettleDriver, IInv, Called
-----------------------------------------------------------------------------
\* A removal: nobody it takes away is named by an order that would mind.
LEMMA DeleteKeeps ==
  ASSUME IInv, NEW t \in Tabs, Delete(t)
  PROVE  IInv'
<1> DEFINE x == tabs[t].target
<1>1. tabs' \in [Tabs -> [phase : {"idle", "settlements", "delete", "edit"},
                         target : People \cup Customers \cup {None}, name : Names \cup {None},
                         phone : Phones \cup {None}]]
      /\ shops' = shops /\ x \in People \cup Customers \cup {None}
  BY IdleTyped DEF IInv, TypeOK, Delete, Go
<1>2. CASE UNCHANGED dbVars
  <2>1. TypeOK'
    BY <1>1, <1>2 DEF IInv, TypeOK, dbVars
  <2> QED BY <1>1, <1>2, <2>1, SameRecords DEF IInv, dbVars, Called
<1>3. CASE ~UNCHANGED dbVars
  <2>1. /\ There(x) /\ \A o \in Orders : ~MustKeep(o, x)
        /\ people' = [y \in People |-> IF y = x THEN NoPerson("gone") ELSE people[y]]
        /\ customers' = [c \in Customers |-> IF c = x THEN NoCustomer("gone") ELSE customers[c]]
        /\ lastNamed' = [c \in Customers |-> IF c = x THEN None ELSE lastNamed[c]]
        /\ links' = [p \in Customers \X Vendors |-> IF x \in {p[1], p[2]} THEN NoLink ELSE links[p]]
        /\ orders' = [o \in Orders |-> IF orders[o].driver # x THEN orders[o]
                                       ELSE [orders[o] EXCEPT !.driver = None]]
        /\ settled' = settled
    BY <1>3 DEF Delete
  <2> HIDE DEF x
  <2>2. TypeOK'
    <3>1. NoPerson("gone") \in [state : States, active : BOOLEAN]
          /\ NoCustomer("gone") \in [state : States, phone : Phones \cup {None}, name : Names \cup {None}]
          /\ NoLink \in [there : BOOLEAN, orders : Nat, alias : BOOLEAN]
      BY DEF NoPerson, NoCustomer, NoLink, States
    <3>2. people' \in [People -> [state : States, active : BOOLEAN]]
          /\ customers' \in [Customers -> [state : States, phone : Phones \cup {None},
                                           name : Names \cup {None}]]
          /\ lastNamed' \in [Customers -> Names \cup {None}]
          /\ links' \in [Customers \X Vendors -> [there : BOOLEAN, orders : Nat, alias : BOOLEAN]]
      BY <2>1, <3>1 DEF IInv, TypeOK
    <3> DEFINE OrderRows == [status : Statuses, vendor : Vendors \cup {None},
                             customer : Customers \cup {None}, driver : Drivers \cup {None}]
    <3>3. orders' \in [Orders -> OrderRows]
      <4>1. orders \in [Orders -> OrderRows]
        BY DEF IInv, TypeOK
      <4>2. \A row \in OrderRows : [row EXCEPT !.driver = None] \in OrderRows
        OBVIOUS
      <4> HIDE DEF OrderRows
      <4> QED BY <2>1, <4>1, <4>2
    <3> QED BY <1>1, <2>1, <3>2, <3>3 DEF IInv, TypeOK
  <2>3. \A y \in People \cup Customers : There(y)' <=> There(y) /\ y # x
    BY <2>1 DEF There, NoPerson, NoCustomer, IInv, TypeOK
  <2>4. x \in People \cup Customers
    BY <1>1, <2>1, NobodyThere
  <2>5. \A o \in Orders :
          /\ orders'[o].status = orders[o].status /\ orders'[o].vendor = orders[o].vendor
          /\ orders'[o].customer = orders[o].customer
          /\ orders'[o].driver = (IF orders[o].driver # x THEN orders[o].driver ELSE None)
          /\ x # orders[o].vendor /\ x # orders[o].customer
          /\ x = orders[o].driver => orders[o].status = "CANCELLED"
    BY <2>1 DEF IInv, TypeOK, MustKeep
  <2>6. NobodysOrder'
    <3>1. /\ \A y \in People : people[y].state = "there" /\ y # x => people'[y].state = "there"
          /\ \A c \in Customers : customers[c].state = "there" /\ c # x => customers'[c].state = "there"
      BY <2>1 DEF IInv, TypeOK
    <3> QED BY <2>5, <3>1, Named DEF NobodysOrder, There, People
  <2>7. Unplaced'
    BY <2>5 DEF IInv, Facts, Unplaced
  <2>8. OnePhoneLastName'
    BY <2>1, NobodyThere DEF IInv, Facts, OnePhoneLastName, Known, TypeOK, There, NoCustomer
  <2>9. Registered'
    BY <2>1, NobodyThere DEF IInv, Facts, Registered, TypeOK, There, NoCustomer
  <2>10. LinkCounts'
    <3> SUFFICES ASSUME NEW c \in Customers, NEW v \in Vendors
                 PROVE  /\ links'[<<c, v>>].orders = Cardinality(Placed(c, v)')
                        /\ ~links'[<<c, v>>].there => links'[<<c, v>>].orders = 0
      BY DEF LinkCounts
    <3>1. Placed(c, v)' = Placed(c, v)
      BY <2>5 DEF Placed
    <3>2. links[<<c, v>>].orders = Cardinality(Placed(c, v))
          /\ (~links[<<c, v>>].there => links[<<c, v>>].orders = 0)
      BY DEF IInv, Facts, LinkCounts
    <3>3. CASE x \in {c, v}
      <4>1. Placed(c, v) = {}
        BY <2>5, <3>3 DEF Placed
      <4>2. links'[<<c, v>>] = NoLink
        BY <2>1, <3>3
      <4> QED BY <3>1, <4>1, <4>2, FS_EmptySet DEF NoLink
    <3>4. CASE x \notin {c, v}
      <4>1. links'[<<c, v>>] = links[<<c, v>>]
        BY <2>1, <3>4
      <4> QED BY <3>1, <3>2, <4>1
    <3> QED BY <3>3, <3>4
  <2> QED BY <1>1, <2>2, <2>6, <2>7, <2>8, <2>9, <2>10 DEF IInv, Facts, Called
<1> QED BY <1>2, <1>3
-----------------------------------------------------------------------------
\* A customer is added under a number nobody has.
LEMMA AddedCustomer ==
  ASSUME IInv, NEW c \in Customers, NEW phone \in Phones, NEW name \in Names,
         customers[c].state = "new", Known(phone) = {}, AddRow(c, phone, name), UNCHANGED people,
         lastNamed' = [lastNamed EXCEPT ![c] = name] \/ lastNamed' = lastNamed
  PROVE  /\ customers' \in [Customers -> [state : States, phone : Phones \cup {None},
                                          name : Names \cup {None}]]
         /\ lastNamed' \in [Customers -> Names \cup {None}]
         /\ \A x \in People : people'[x].state = people[x].state
         /\ \A x \in Customers : customers'[x].state = (IF x = c THEN "there" ELSE customers[x].state)
         /\ OnePhoneLastName' /\ Registered'
<1>1. /\ customers' \in [Customers -> [state : States, phone : Phones \cup {None},
                                       name : Names \cup {None}]]
      /\ lastNamed' \in [Customers -> Names \cup {None}]
      /\ \A x \in Customers : customers'[x].state = (IF x = c THEN "there" ELSE customers[x].state)
      /\ \A x \in Customers : customers'[x].phone = (IF x = c THEN phone ELSE customers[x].phone)
      /\ \A x \in Customers : customers'[x].name = (IF x = c THEN name ELSE customers[x].name)
  BY DEF IInv, TypeOK, AddRow, States
<1>2. /\ \A x \in Customers : There(x) <=> customers[x].state = "there"
      /\ \A x \in Customers : There(x)' <=> customers'[x].state = "there"
  BY RecordsAssumption DEF There
<1>3. \A x \in Customers \ {c} : lastNamed'[x] = lastNamed[x]
  BY DEF IInv, TypeOK
<1>4. lastNamed[c] = None /\ lastNamed'[c] \in {None, name}
  BY <1>2 DEF IInv, TypeOK, Facts, Registered
<1>5. \A x \in Customers : There(x) =>
        lastNamed[x] \in {None, customers[x].name} /\ Known(customers[x].phone) = {x}
        /\ customers[x].phone # phone
  BY DEF IInv, Facts, OnePhoneLastName, Known
<1>6. OnePhoneLastName'
  <2> SUFFICES ASSUME NEW x \in Customers, There(x)'
               PROVE  Known(customers[x].phone)' = {x} /\ lastNamed'[x] \in {None, customers'[x].name}
    BY DEF OnePhoneLastName
  <2>1. lastNamed'[x] \in {None, customers'[x].name}
    BY <1>1, <1>2, <1>3, <1>4, <1>5
  <2>2. \A y \in Customers : There(y)' /\ customers'[y].phone = customers'[x].phone => y = x
    <3>1. \A y \in Customers : There(x) /\ There(y) /\ customers[y].phone = customers[x].phone => y = x
      BY <1>5 DEF Known
    <3> QED BY <1>1, <1>2, <1>5, <3>1
  <2>3. Known(customers[x].phone)' = {x}
    BY <2>2 DEF Known
  <2> QED BY <2>1, <2>3
<1>7. Registered'
  BY <1>1, <1>2, <1>3 DEF IInv, Facts, Registered
<1> QED BY <1>1, <1>6, <1>7

\* A link is given, and counts more orders.
LEMMA LinkWritten ==
  ASSUME IInv, NEW c \in Customers, NEW v \in Vendors, NEW n \in {0, 1}
  PROVE  /\ Linked(c, v, n) \in [Customers \X Vendors -> [there : BOOLEAN, orders : Nat, alias : BOOLEAN]]
         /\ Linked(c, v, n)[<<c, v>>].there
         /\ Linked(c, v, n)[<<c, v>>].orders = links[<<c, v>>].orders + n
         /\ \A p \in (Customers \X Vendors) \ {<<c, v>>} : Linked(c, v, n)[p] = links[p]
<1> DEFINE row == links[<<c, v>>]
           count == row.orders + n
           new == [row EXCEPT !.there = TRUE, !.orders = count]
<1>1. row \in [there : BOOLEAN, orders : Nat, alias : BOOLEAN] /\ <<c, v>> \in Customers \X Vendors
  BY DEF IInv, TypeOK
<1>2. Linked(c, v, n) = [links EXCEPT ![<<c, v>>] = new]
  BY DEF Linked
<1>3. /\ new \in [there : BOOLEAN, orders : Nat, alias : BOOLEAN] /\ new.there
      /\ new.orders = count
  <2> HIDE DEF row
  <2>1. count \in Nat
    BY <1>1
  <2> HIDE DEF count
  <2> QED BY <1>1, <2>1
<1> HIDE DEF new
<1> QED BY <1>1, <1>2, <1>3 DEF IInv, TypeOK

\* A link that is only given.
LEMMA LinkGiven ==
  ASSUME IInv, NEW c \in Customers, NEW v \in Vendors
  PROVE  /\ Linked(c, v, 0) \in [Customers \X Vendors -> [there : BOOLEAN, orders : Nat, alias : BOOLEAN]]
         /\ Linked(c, v, 0)[<<c, v>>].there
         /\ Linked(c, v, 0)[<<c, v>>].orders = links[<<c, v>>].orders
         /\ \A p \in (Customers \X Vendors) \ {<<c, v>>} : Linked(c, v, 0)[p] = links[p]
<1>1. links[<<c, v>>].orders \in Nat /\ 0 \in Nat
  BY DEF IInv, TypeOK
<1>2. /\ Linked(c, v, 0) \in [Customers \X Vendors -> [there : BOOLEAN, orders : Nat, alias : BOOLEAN]]
      /\ Linked(c, v, 0)[<<c, v>>].there
      /\ Linked(c, v, 0)[<<c, v>>].orders = links[<<c, v>>].orders + 0
      /\ \A p \in (Customers \X Vendors) \ {<<c, v>>} : Linked(c, v, 0)[p] = links[p]
  BY <1>1, LinkWritten
<1>3. links[<<c, v>>].orders + 0 = links[<<c, v>>].orders
  BY <1>1
<1> QED BY <1>2, <1>3

\* Steps that write links but not their counts.
LEMMA CountsStay ==
  ASSUME IInv, UNCHANGED orders,
         \A p \in Customers \X Vendors :
           links'[p].orders = links[p].orders /\ (links[p].there => links'[p].there)
  PROVE  LinkCounts'
<1> SUFFICES ASSUME NEW c \in Customers, NEW v \in Vendors
             PROVE  /\ links'[<<c, v>>].orders = Cardinality(Placed(c, v)')
                    /\ ~links'[<<c, v>>].there => links'[<<c, v>>].orders = 0
  BY DEF LinkCounts
<1>1. Placed(c, v)' = Placed(c, v)
  BY DEF Placed
<1>2. <<c, v>> \in Customers \X Vendors
  OBVIOUS
<1> QED BY <1>1, <1>2 DEF IInv, Facts, LinkCounts

LEMMA CreateKeeps ==
  ASSUME IInv, NEW v \in Vendors \cup {None}, NEW c \in Customers, NEW phone \in Phones,
         NEW name \in Names, CreateCustomer(v, c, phone, name)
  PROVE  IInv'
<1>1. /\ customers' \in [Customers -> [state : States, phone : Phones \cup {None},
                                       name : Names \cup {None}]]
      /\ lastNamed' \in [Customers -> Names \cup {None}]
      /\ \A x \in People : people'[x].state = people[x].state
      /\ \A x \in Customers : customers'[x].state = (IF x = c THEN "there" ELSE customers[x].state)
      /\ OnePhoneLastName' /\ Registered'
  BY AddedCustomer DEF CreateCustomer
<1>2. /\ links' \in [Customers \X Vendors -> [there : BOOLEAN, orders : Nat, alias : BOOLEAN]]
      /\ \A p \in Customers \X Vendors :
           links'[p].orders = links[p].orders /\ (links[p].there => links'[p].there)
  <2>1. CASE links' = links
    BY <2>1 DEF IInv, TypeOK
  <2>2. CASE v \in Vendors /\ links' = Linked(c, v, 0)
    <3> DEFINE written == Linked(c, v, 0)
    <3>1. /\ written \in [Customers \X Vendors -> [there : BOOLEAN, orders : Nat, alias : BOOLEAN]]
          /\ written[<<c, v>>].there /\ written[<<c, v>>].orders = links[<<c, v>>].orders
          /\ \A p \in (Customers \X Vendors) \ {<<c, v>>} : written[p] = links[p]
      BY <2>2, LinkGiven
    <3>2. links' = written
      BY <2>2
    <3> HIDE DEF written
    <3> QED BY <3>1, <3>2
  <2> QED BY <2>1, <2>2 DEF CreateCustomer
<1>3. UNCHANGED <<people, orders, settled, tabs, shops>>
  BY DEF CreateCustomer
<1>4. TypeOK'
  BY <1>1, <1>2, <1>3 DEF IInv, TypeOK
<1>5. NobodysOrder'
  BY <1>1, <1>3, Named DEF NobodysOrder, There, People
<1>6. LinkCounts' /\ Unplaced'
  BY <1>2, <1>3, CountsStay DEF IInv, Facts, Unplaced
<1> QED BY <1>1, <1>3, <1>4, <1>5, <1>6 DEF IInv, Facts, Called

LEMMA AliasKeeps ==
  ASSUME IInv, NEW v \in Vendors, WriteAlias(v) \/ \E c \in Customers : ClearDisplayName(v, c)
  PROVE  IInv'
<1> DEFINE LinkRows == [there : BOOLEAN, orders : Nat, alias : BOOLEAN]
<1>1. /\ links' \in [Customers \X Vendors -> LinkRows]
      /\ \A p \in Customers \X Vendors :
           links'[p].orders = links[p].orders /\ (links[p].there => links'[p].there)
  <2>1. links \in [Customers \X Vendors -> LinkRows]
    BY DEF IInv, TypeOK
  <2>2. CASE links' = links
    BY <2>1, <2>2
  <2>3. ASSUME NEW c \in Customers, ClearDisplayName(v, c)
        PROVE  <1>1
    <3>1. \A row \in LinkRows : LET new == [row EXCEPT !.alias = FALSE] IN
            new \in LinkRows /\ new.orders = row.orders /\ new.there = row.there
      OBVIOUS
    <3>2. links' = [links EXCEPT ![<<c, v>>] = [links[<<c, v>>] EXCEPT !.alias = FALSE]]
      BY <2>3 DEF ClearDisplayName
    <3> HIDE DEF LinkRows
    <3> QED BY <2>1, <3>1, <3>2
  <2>4. CASE WriteAlias(v) /\ links' # links
    <3> DEFINE c == shops[v].customer
               written == Linked(c, v, 0)
    <3>1. PICK own \in BOOLEAN : links' = [written EXCEPT ![<<c, v>>].alias = own]
      BY <2>4 DEF WriteAlias
    <3>2. c \in Customers
      BY <2>4, NobodyThere DEF WriteAlias, IInv, TypeOK
    <3>3. /\ written \in [Customers \X Vendors -> LinkRows]
          /\ written[<<c, v>>].there /\ written[<<c, v>>].orders = links[<<c, v>>].orders
          /\ \A p \in (Customers \X Vendors) \ {<<c, v>>} : written[p] = links[p]
      BY <3>2, LinkGiven
    <3>4. \A row \in LinkRows : LET new == [row EXCEPT !.alias = own] IN
            new \in LinkRows /\ new.orders = row.orders /\ new.there = row.there
      OBVIOUS
    <3> HIDE DEF written, c, LinkRows
    <3> QED BY <2>1, <3>1, <3>2, <3>3, <3>4
  <2> QED BY <2>2, <2>3, <2>4 DEF WriteAlias
<1>2. UNCHANGED <<people, customers, lastNamed, orders, settled, tabs>>
  BY DEF WriteAlias, ClearDisplayName
<1>3. shops' \in [Vendors -> [op : {None, "order", "alias"}, customer : Customers \cup {None},
                             phone : Phones \cup {None}, name : Names \cup {None}]]
  BY IdleTyped DEF IInv, TypeOK, WriteAlias, ClearDisplayName, Shop
<1>4. TypeOK' /\ Called'
  <2>1. TypeOK'
    BY <1>1, <1>2, <1>3 DEF IInv, TypeOK
  <2>2. Called'
    <3>1. CASE WriteAlias(v)
      BY <3>1, RecordsAssumption DEF IInv, TypeOK, Called, WriteAlias, Shop, NoShopping
    <3>2. CASE shops' = shops
      BY <3>2 DEF IInv, Called
    <3> QED BY <3>1, <3>2 DEF ClearDisplayName
  <2> QED BY <2>1, <2>2
<1>5. LinkCounts'
  BY <1>1, <1>2, CountsStay
<1>6. NobodysOrder' /\ Unplaced' /\ OnePhoneLastName' /\ Registered'
  BY <1>2 DEF IInv, Facts, NobodysOrder, Unplaced, OnePhoneLastName, Registered, Known, There
<1> QED BY <1>4, <1>5, <1>6 DEF IInv, Facts
-----------------------------------------------------------------------------
\* The order is inserted, with its customer if need be, and counted.
LEMMA InsertKeeps ==
  ASSUME IInv, NEW v \in Vendors, NEW o \in Orders, NEW c \in Customers, InsertOrder(v, o, c)
  PROVE  IInv'
<1> DEFINE row == [status |-> "PENDING", vendor |-> v, customer |-> c, driver |-> None]
           written == Linked(c, v, 1)
<1>1. /\ orders' = [orders EXCEPT ![o] = row] /\ links' = written
      /\ UNCHANGED <<people, lastNamed, settled, tabs>>
      /\ orders[o] = NoOrder /\ There(v)
  BY DEF InsertOrder, Ordered
<1>2. /\ customers' \in [Customers -> [state : States, phone : Phones \cup {None},
                                       name : Names \cup {None}]]
      /\ \A x \in Customers : customers[x].state = "there" => customers'[x].state = "there"
      /\ customers'[c].state = "there"
      /\ OnePhoneLastName' /\ Registered'
  <2>1. CASE customers' = customers /\ There(c)
    BY <1>1, <2>1, NobodyThere DEF IInv, TypeOK, Facts, OnePhoneLastName, Registered, Known, There
  <2>2. CASE /\ shops[v].customer = None /\ customers[c].state = "new" /\ Known(shops[v].phone) = {}
             /\ AddRow(c, shops[v].phone, shops[v].name)
    <3>1. shops[v].phone \in Phones /\ shops[v].name \in Names
      BY <2>2 DEF IInv, Called, InsertOrder
    <3> QED BY <1>1, <2>2, <3>1, AddedCustomer
  <2> QED BY <2>1, <2>2 DEF InsertOrder
<1>3. shops' \in [Vendors -> [op : {None, "order", "alias"}, customer : Customers \cup {None},
                             phone : Phones \cup {None}, name : Names \cup {None}]]
  BY IdleTyped DEF IInv, TypeOK, InsertOrder, Shop
<1>4. /\ written \in [Customers \X Vendors -> [there : BOOLEAN, orders : Nat, alias : BOOLEAN]]
      /\ written[<<c, v>>].there
      /\ written[<<c, v>>].orders = links[<<c, v>>].orders + 1
      /\ \A p \in (Customers \X Vendors) \ {<<c, v>>} : written[p] = links[p]
  BY LinkWritten
<1> HIDE DEF written
<1>5. TypeOK'
  BY <1>1, <1>2, <1>3, <1>4 DEF IInv, TypeOK, Statuses
<1>6. \A p \in Orders : orders'[p] = (IF p = o THEN row ELSE orders[p])
  BY <1>1 DEF IInv, TypeOK
<1>7. NobodysOrder'
  BY <1>1, <1>2, <1>6, Named, NobodyThere DEF NobodysOrder, There, People
<1>8. Unplaced'
  BY <1>6 DEF IInv, Facts, Unplaced
<1>9. LinkCounts'
  <2> SUFFICES ASSUME NEW x \in Customers, NEW w \in Vendors
               PROVE  /\ links'[<<x, w>>].orders = Cardinality(Placed(x, w)')
                      /\ ~links'[<<x, w>>].there => links'[<<x, w>>].orders = 0
    BY DEF LinkCounts
  <2>1. /\ links[<<x, w>>].orders = Cardinality(Placed(x, w))
        /\ ~links[<<x, w>>].there => links[<<x, w>>].orders = 0
    BY DEF IInv, Facts, LinkCounts
  <2>2. CASE x = c /\ w = v
    <3>1. Placed(x, w)' = Placed(x, w) \cup {o} /\ o \notin Placed(x, w)
      BY <1>1, <1>6, <2>2, RecordsAssumption DEF Placed, NoOrder
    <3>2. IsFiniteSet(Placed(x, w))
      BY FS_Subset, RecordsAssumption DEF Placed
    <3>3. Cardinality(Placed(x, w)') = Cardinality(Placed(x, w)) + 1
      BY <3>1, <3>2, FS_AddElement
    <3> QED BY <1>1, <1>4, <2>1, <2>2, <3>3
  <2>3. CASE ~(x = c /\ w = v)
    <3>1. Placed(x, w)' = Placed(x, w)
      BY <1>1, <1>6, <2>3, RecordsAssumption DEF Placed, NoOrder
    <3>2. links'[<<x, w>>] = links[<<x, w>>]
      BY <1>1, <1>4, <2>3
    <3> QED BY <2>1, <3>1, <3>2
  <2> QED BY <2>2, <2>3
<1>10. Called'
  BY RecordsAssumption DEF IInv, TypeOK, Called, InsertOrder, Shop, NoShopping
<1> QED BY <1>2, <1>5, <1>7, <1>8, <1>9, <1>10 DEF IInv, Facts

\* An order that moves keeps its vendor and customer, and has a driver while
\* it must.
LEMMA MoveKeeps ==
  ASSUME IInv, NEW o \in Orders, NEW t \in Machine!ORDER_TRANSITIONS, NEW d \in Drivers \cup {None},
         Move(o, t, d)
  PROVE  IInv'
<1> DEFINE order == orders[o]
           row == [order EXCEPT !.status = t.to, !.driver = d]
           OrderRows == [status : Statuses, vendor : Vendors \cup {None},
                         customer : Customers \cup {None}, driver : Drivers \cup {None}]
<1>1. orders' = [[orders EXCEPT ![o].status = t.to] EXCEPT ![o].driver = d]
      /\ UNCHANGED <<people, customers, lastNamed, settled, links, tabs, shops>>
  BY DEF Move
<1>2. orders \in [Orders -> OrderRows] /\ order \in OrderRows
  BY DEF IInv, TypeOK
<1>3. /\ t.to \in Statuses \ {"ABSENT"} /\ order.status \in t.from /\ "ABSENT" \notin t.from
      /\ t.action = "accept" => d \in Drivers /\ There(d)
      /\ t.action # "accept" =>
           d = (IF t.action = "release" THEN None ELSE order.driver)
      /\ t.action = "release" => t.to = "PENDING"
      /\ t.action \notin {"accept", "release"} /\ t.from \cap {"PENDING", "CANCELLED"} # {} =>
           t.to = "CANCELLED"
  BY DEF Move, Machine!ORDER_TRANSITIONS, Machine!Transition, Statuses, Working
<1>4. orders' = [orders EXCEPT ![o] = row]
  BY <1>1, <1>2
<1>5. /\ row \in OrderRows /\ row.status = t.to /\ row.driver = d
      /\ row.vendor = order.vendor /\ row.customer = order.customer
  <2> HIDE DEF order
  <2> QED BY <1>2, <1>3
<1> HIDE DEF row
<1>6. \A p \in Orders : orders'[p] = (IF p = o THEN row ELSE orders[p])
  BY <1>2, <1>4
<1>7. TypeOK'
  <2>1. orders' \in [Orders -> OrderRows]
    <3> HIDE DEF OrderRows
    <3> QED BY <1>2, <1>4, <1>5
  <2> QED BY <1>1, <2>1 DEF IInv, TypeOK
<1>8. NobodysOrder'
  <2>1. /\ row.vendor \in Vendors /\ people[row.vendor].state = "there"
        /\ row.customer \in Customers /\ row.customer \notin People
        /\ customers[row.customer].state = "there"
        /\ IF row.driver = None THEN row.status \in {"PENDING", "CANCELLED"}
           ELSE row.driver \in Drivers /\ people[row.driver].state = "there"
    BY <1>3, <1>5, Named, NobodyThere, RecordsAssumption DEF People
  <2>2. \A p \in Orders : orders'[p].status # "ABSENT" =>
          /\ orders'[p].vendor \in People /\ people[orders'[p].vendor].state = "there"
          /\ orders'[p].customer \in Customers /\ orders'[p].customer \notin People
          /\ customers[orders'[p].customer].state = "there"
          /\ orders'[p].driver = None => orders'[p].status \in {"PENDING", "CANCELLED"}
          /\ orders'[p].driver # None =>
               orders'[p].driver \in People /\ people[orders'[p].driver].state = "there"
    <3> TAKE p \in Orders
    <3>1. CASE p = o
      BY <1>6, <2>1, <3>1 DEF People
    <3>2. CASE p # o
      BY <1>6, <3>2, Named DEF People
    <3> QED BY <3>1, <3>2
  <2> QED BY <1>1, <2>2 DEF NobodysOrder, There
<1>9. Unplaced'
  BY <1>3, <1>5, <1>6 DEF IInv, Facts, Unplaced
<1>10. LinkCounts'
  <2>1. \A c \in Customers, v \in Vendors : Placed(c, v)' = Placed(c, v)
    BY <1>5, <1>6 DEF Placed
  <2> QED BY <1>1, <2>1 DEF IInv, Facts, LinkCounts
<1>11. OnePhoneLastName' /\ Registered'
  BY <1>1 DEF IInv, Facts, OnePhoneLastName, Registered, Known, There
<1> QED BY <1>1, <1>7, <1>8, <1>9, <1>10, <1>11 DEF IInv, Facts, Called
-----------------------------------------------------------------------------
\* A customer who is there gets the name, and a phone nobody else has.
LEMMA EditedCustomer ==
  ASSUME IInv, NEW c \in Customers, There(c),
         NEW phone \in Phones, NEW name \in Names \cup {None}, NEW last \in Names \cup {None},
         \A x \in Customers : There(x) /\ customers[x].phone = phone => x = c,
         last \in {None, name}, UNCHANGED people,
         customers' = [customers EXCEPT ![c] = [customers[c] EXCEPT !.name = name, !.phone = phone]],
         lastNamed' = [lastNamed EXCEPT ![c] = last]
  PROVE  /\ customers' \in [Customers -> [state : States, phone : Phones \cup {None},
                                          name : Names \cup {None}]]
         /\ lastNamed' \in [Customers -> Names \cup {None}]
         /\ \A x \in Customers : customers'[x].state = customers[x].state
         /\ OnePhoneLastName' /\ Registered'
<1> DEFINE row == [customers[c] EXCEPT !.name = name, !.phone = phone]
           CustomerRows == [state : States, phone : Phones \cup {None}, name : Names \cup {None}]
<1>1. customers \in [Customers -> CustomerRows] /\ lastNamed \in [Customers -> Names \cup {None}]
  BY DEF IInv, TypeOK
<1>2. /\ row \in CustomerRows /\ row.state = customers[c].state
      /\ row.phone = phone /\ row.name = name
  <2>1. customers[c] \in CustomerRows
    BY <1>1
  <2> QED BY <2>1
<1>3. /\ customers' = [customers EXCEPT ![c] = row]
  OBVIOUS
<1> HIDE DEF row
<1>4. \A x \in Customers : customers'[x] = (IF x = c THEN row ELSE customers[x])
                         /\ lastNamed'[x] = (IF x = c THEN last ELSE lastNamed[x])
  BY <1>1, <1>3
<1>5. customers' \in [Customers -> CustomerRows] /\ lastNamed' \in [Customers -> Names \cup {None}]
  <2> HIDE DEF CustomerRows
  <2> QED BY <1>1, <1>2, <1>3
<1>6. \A x \in Customers : /\ There(x) <=> customers[x].state = "there"
                           /\ There(x)' <=> customers'[x].state = "there"
  BY RecordsAssumption DEF There
<1>7. \A x \in Customers : There(x)' <=> There(x)
  BY <1>2, <1>4, <1>6
<1>8. \A x \in Customers : There(x) =>
        /\ \A y \in Customers : There(y) /\ customers[y].phone = customers[x].phone => y = x
        /\ lastNamed[x] \in {None, customers[x].name}
  BY DEF IInv, Facts, OnePhoneLastName, Known
<1>9. OnePhoneLastName'
  <2> SUFFICES ASSUME NEW x \in Customers, There(x)'
               PROVE  Known(customers[x].phone)' = {x} /\ lastNamed'[x] \in {None, customers'[x].name}
    BY DEF OnePhoneLastName
  <2>1. lastNamed'[x] \in {None, customers'[x].name}
    BY <1>2, <1>4, <1>7, <1>8
  <2>2. \A y \in Customers : There(y)' /\ customers'[y].phone = customers'[x].phone => y = x
    BY <1>2, <1>4, <1>7, <1>8
  <2> QED BY <2>1, <2>2 DEF Known
<1>10. Registered'
  BY <1>2, <1>4, <1>7 DEF IInv, Facts, Registered
<1> QED BY <1>2, <1>4, <1>5, <1>9, <1>10

\* An edit is written while its customer is there and its number is free.
LEMMA EditKeeps ==
  ASSUME IInv, NEW t \in Tabs, WriteCustomer(t)
  PROVE  IInv'
<1>1. tabs' \in [Tabs -> [phase : {"idle", "settlements", "delete", "edit"},
                         target : People \cup Customers \cup {None}, name : Names \cup {None},
                         phone : Phones \cup {None}]]
      /\ UNCHANGED <<people, orders, settled, links, shops>>
  BY IdleTyped DEF IInv, TypeOK, WriteCustomer, Go
<1>2. CASE UNCHANGED <<customers, lastNamed>>
  <2>1. TypeOK'
    BY <1>1, <1>2 DEF IInv, TypeOK
  <2> QED BY <1>1, <1>2, <2>1, SameRecords DEF IInv, Called
<1>3. ASSUME NEW c \in People \cup Customers \cup {None},
             NEW newName \in Names \cup {None}, NEW newPhone \in Phones \cup {None}, There(c),
             newPhone # None => Known(newPhone) \subseteq {c},
             customers' = [customers EXCEPT ![c] =
               [customers[c] EXCEPT !.name = IF newName = None THEN customers[c].name ELSE newName,
                                    !.phone = IF newPhone = None THEN customers[c].phone ELSE newPhone]],
             lastNamed' = [lastNamed EXCEPT ![c] = IF newName = None THEN lastNamed[c] ELSE newName],
             c \in Customers
      PROVE  IInv'
  <2> DEFINE name == IF newName = None THEN customers[c].name ELSE newName
             phone == IF newPhone = None THEN customers[c].phone ELSE newPhone
             last == IF newName = None THEN lastNamed[c] ELSE newName
  <2>1. /\ customers[c].name \in Names \cup {None} /\ customers[c].phone \in Phones
        /\ lastNamed[c] \in {None, customers[c].name} /\ lastNamed[c] \in Names \cup {None}
        /\ Known(customers[c].phone) = {c}
    BY <1>3 DEF IInv, TypeOK, Facts, Registered, OnePhoneLastName
  <2>2. /\ phone \in Phones /\ name \in Names \cup {None} /\ last \in Names \cup {None}
        /\ last \in {None, name}
    BY <2>1
  <2>3. \A x \in Customers : There(x) /\ customers[x].phone = phone => x = c
    BY <1>3, <2>1 DEF Known
  <2>4. /\ customers' = [customers EXCEPT ![c] = [customers[c] EXCEPT !.name = name, !.phone = phone]]
        /\ lastNamed' = [lastNamed EXCEPT ![c] = last]
    BY <1>3
  <2> HIDE DEF name, phone, last
  <2>5. /\ customers' \in [Customers -> [state : States, phone : Phones \cup {None},
                                         name : Names \cup {None}]]
        /\ lastNamed' \in [Customers -> Names \cup {None}]
        /\ \A x \in Customers : customers'[x].state = customers[x].state
        /\ OnePhoneLastName' /\ Registered'
    BY <1>1, <1>3, <2>2, <2>3, <2>4, EditedCustomer
  <2>6. TypeOK'
    BY <1>1, <2>5 DEF IInv, TypeOK
  <2>7. NobodysOrder'
    BY <1>1, <2>5, Named DEF NobodysOrder, There, People
  <2>8. Unplaced' /\ LinkCounts' /\ Called'
    BY <1>1 DEF IInv, Facts, Unplaced, LinkCounts, Placed, Called
  <2> QED BY <2>5, <2>6, <2>7, <2>8 DEF IInv, Facts
<1>4. CASE ~UNCHANGED <<customers, lastNamed>>
  <2>1. tabs[t] \in [phase : {"idle", "settlements", "delete", "edit"},
                     target : People \cup Customers \cup {None}, name : Names \cup {None},
                     phone : Phones \cup {None}]
    BY DEF IInv, TypeOK
  <2>2. Fits(tabs[t])
    BY <1>4 DEF WriteCustomer
  <2>3. tabs[t].target \in Customers
    <3>1. CASE tabs[t].target \in Customers
      BY <3>1
    <3>2. CASE tabs[t].target \notin Customers
      <4>1. \A D, S, f, x, y : f \in [D -> S] /\ x \notin D => [f EXCEPT ![x] = y] = f
        OBVIOUS
      <4>2. /\ customers \in [Customers -> [state : States, phone : Phones \cup {None},
                                           name : Names \cup {None}]]
            /\ lastNamed \in [Customers -> Names \cup {None}]
        BY DEF IInv, TypeOK
      <4>3. \E row : customers' = [customers EXCEPT ![tabs[t].target] = row]
        BY <2>2 DEF WriteCustomer
      <4>4. \E name : lastNamed' = [lastNamed EXCEPT ![tabs[t].target] = name]
        BY <2>2 DEF WriteCustomer
      <4>5. customers' = customers
        BY <3>2, <4>1, <4>2, <4>3
      <4>6. lastNamed' = lastNamed
        BY <3>2, <4>1, <4>2, <4>4
      <4> QED BY <1>4, <4>5, <4>6
    <3> QED BY <3>1, <3>2
  <2> QED BY <1>3, <2>1, <2>2, <2>3 DEF WriteCustomer, Fits
<1> QED BY <1>2, <1>4
-----------------------------------------------------------------------------
LEMMA InitIInv == Init => IInv
<1> SUFFICES ASSUME Init PROVE IInv
  OBVIOUS
<1>1. TypeOK
  BY IdleTyped DEF Init, TypeOK, NoPerson, NoCustomer, NoOrder, NoLink, States, Statuses
<1>2. Called
  BY RecordsAssumption DEF Init, Called, NoShopping
<1>3. NobodysOrder /\ Unplaced
  BY DEF Init, NobodysOrder, Unplaced, NoOrder
<1>4. OnePhoneLastName /\ Registered
  BY RecordsAssumption DEF Init, OnePhoneLastName, Registered, There, NoCustomer
<1>5. LinkCounts
  <2>1. \A c \in Customers, v \in Vendors : Placed(c, v) = {}
    BY RecordsAssumption DEF Init, Placed, NoOrder
  <2>2. \A p \in Customers \X Vendors : links[p].orders = 0
    BY DEF Init, NoLink
  <2> QED BY <2>1, <2>2, FS_EmptySet DEF LinkCounts
<1> QED BY <1>1, <1>2, <1>3, <1>4, <1>5 DEF IInv, Facts

LEMMA Inductive == IInv /\ [Next]_vars => IInv'
<1> SUFFICES ASSUME IInv, [Next]_vars PROVE IInv'
  OBVIOUS
<1>1. CASE DriversPage
  BY <1>1, PeopleKeep, TabsKeep DEF DriversPage, DriverForm, SuspendInstead, CreateDriver, UpdateDriver,
     RemoveDriver, People
<1>2. CASE VendorsPage
  BY <1>2, PeopleKeep, TabsKeep DEF VendorsPage, VendorForm, SuspendInstead, CreateVendor, UpdateVendor,
     RemoveVendor, People
<1>3. CASE CustomersPage
  BY <1>3, CreateKeeps, TabsKeep DEF CustomersPage, CustomerCreateDialog, CustomerManageDialog, AdminUpdate,
     RemoveCustomer
<1>4. CASE Routes
  BY <1>4, TabsKeep DEF Routes, Update
<1>5. ASSUME NEW t \in Tabs, Requests(t) PROVE IInv'
  BY <1>5, TabsKeep, DeleteKeeps, EditKeeps DEF Requests
<1>6. ASSUME NEW v \in Vendors, Vending(v) PROVE IInv'
  BY <1>6, CreateKeeps, ShopsKeep, InsertKeeps, AliasKeeps DEF Vending, VendorCustomersPage, NewOrderPage,
     CustomerCreateDialog, IdentityHeader
<1>7. CASE Deliveries
  BY <1>7, MoveKeeps, SettleKeeps DEF Deliveries
<1>8. CASE UNCHANGED vars
  <2>1. TypeOK'
    BY <1>8 DEF vars, IInv, TypeOK
  <2> QED BY <1>8, <2>1, SameRecords DEF vars, IInv, Called
<1> QED BY <1>1, <1>2, <1>3, <1>4, <1>5, <1>6, <1>7, <1>8 DEF Next

\* What the screens read follows from the counts.
LEMMA ReadersAgree == IInv => LinksCountOrders
<1> SUFFICES ASSUME IInv PROVE LinksCountOrders
  OBVIOUS
<1>1. ASSUME NEW v \in Vendors, NEW c \in Customers
      PROVE  /\ profile(v, c) = links[<<c, v>>].orders
             /\ ~(There(c) /\ links[<<c, v>>].there) => profile(v, c) = 0
  <2>1. customerOrderScope(v, c) = Placed(c, v)
    BY RecordsAssumption DEF customerOrderScope, Placed, People
  <2>2. /\ links[<<c, v>>].orders = Cardinality(Placed(c, v))
        /\ ~links[<<c, v>>].there => links[<<c, v>>].orders = 0
    BY DEF IInv, Facts, LinkCounts
  <2>3. ~There(c) => Placed(c, v) = {}
    BY Named, NobodyThere, RecordsAssumption DEF Placed, IInv, Facts, Unplaced
  <2> QED BY <2>1, <2>2, <2>3, FS_EmptySet DEF profile
<1>2. ASSUME NEW v \in Vendors
      PROVE  LET own == myCustomers(v) IN
             /\ \A c \in Customers : profile(v, c) = (IF c \in DOMAIN own THEN own[c] ELSE 0)
             /\ MyCustomersList(v, Phones) \cap PlatformMatches(v, Phones) = {}
             /\ adminVendorLinkFilter(None) \subseteq
                  MyCustomersList(v, Phones) \cup PlatformMatches(v, Phones)
  <2>1. \A c \in Customers : profile(v, c) = (IF c \in DOMAIN myCustomers(v) THEN myCustomers(v)[c] ELSE 0)
    BY <1>1 DEF myCustomers
  <2>2. MyCustomersList(v, Phones) \cap PlatformMatches(v, Phones) = {}
    BY DEF MyCustomersList, PlatformMatches, myCustomers, platformLookup
  <2>3. \A c \in Customers : There(c) => customers[c].phone \in Phones
    BY DEF IInv, Facts, Registered
  <2>4. adminVendorLinkFilter(None) \subseteq MyCustomersList(v, Phones) \cup PlatformMatches(v, Phones)
    BY <2>3 DEF adminVendorLinkFilter, MyCustomersList, PlatformMatches, myCustomers, platformLookup
  <2> QED BY <2>1, <2>2, <2>4
<1>3. ASSUME NEW c \in Customers, There(c), Cardinality(Naming(c)) > 0
      PROVE  Cardinality({w \in Vendors : links[<<c, w>>].there}) > 0
  <2>1. PICK o \in Orders : o \in Naming(c)
    <3>1. Naming(c) # {}
      BY <1>3, FS_EmptySet
    <3> QED BY <3>1 DEF Naming
  <2>2. orders[o].customer = c /\ orders[o].vendor \in Vendors /\ o \in Placed(c, orders[o].vendor)
    BY <2>1, Named, NobodyThere, RecordsAssumption DEF Naming, Placed, IInv, Facts, Unplaced, People
  <2> DEFINE v == orders[o].vendor
             linked == {w \in Vendors : links[<<c, w>>].there}
  <2>3. links[<<c, v>>].there
    <3>1. IsFiniteSet(Placed(c, v))
      BY FS_Subset, RecordsAssumption DEF Placed
    <3>2. Cardinality(Placed(c, v)) # 0
      BY <2>2, <3>1, FS_EmptySet
    <3> QED BY <2>2, <3>2 DEF IInv, Facts, LinkCounts
  <2>4. IsFiniteSet(linked) /\ linked # {}
    BY <2>2, <2>3, FS_Subset, RecordsAssumption
  <2>5. Cardinality(linked) > 0
    <3> HIDE DEF linked
    <3>1. Cardinality(linked) \in Nat /\ Cardinality(linked) # 0
      BY <2>4, FS_EmptySet, FS_CardinalityType
    <3> QED BY <3>1
  <2> QED BY <2>5
<1> QED BY <1>2, <1>3 DEF LinksCountOrders, adminList, adminVendorLinkFilter

\* The tables hold what their types say, for any number of people and orders.
THEOREM TypesHold == Spec => []TypeOK
<1>1. IInv => TypeOK
  BY DEF IInv
<1> QED BY <1>1, InitIInv, Inductive, PTL DEF Spec

\* However removals interleave with the placing and taking of orders, whoever
\* an order names exists (the removals' counts and the foreign keys behind).
THEOREM EarningsHaveAnOwner == Spec => []NobodysOrder
<1>1. IInv => NobodysOrder
  BY DEF IInv, Facts
<1> QED BY <1>1, InitIInv, Inductive, PTL DEF Spec

\* However edits, additions and removals interleave, a phone has one customer
\* and the history of his names ends with the one he has.
THEOREM PhonesAndNamesAgree == Spec => []OnePhoneLastName
<1>1. IInv => OnePhoneLastName
  BY DEF IInv, Facts
<1> QED BY <1>1, InitIInv, Inductive, PTL DEF Spec

\* The counters the triggers keep are those of the orders, and so what a
\* vendor's list, a profile, the lookup and the directory say agrees.
THEOREM CountersNeedNoRepair == Spec => []LinksCountOrders
<1> QED BY ReadersAgree, InitIInv, Inductive, PTL DEF Spec
=============================================================================

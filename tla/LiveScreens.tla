---------------------------- MODULE LiveScreens ----------------------------
(***************************************************************************)
(* From a committed change to the screens that show it: the events of      *)
(* order-lifecycle, orders, drivers and settlements services, the rooms of *)
(* realtime.gateway.ts, and the tab's RealtimeProvider with the React      *)
(* Query caches it invalidates.                                            *)
(*                                                                         *)
(* A handler commits, emits and answers in separate steps.  The events     *)
(* carry nothing the screens read: a tab that hears one starts a timer of  *)
(* 400 ms, and then asks the API again.  A tab's queries are one here: the *)
(* console's drivers and settlements, invalidated without the timer, are a *)
(* timer that fires at once.                                               *)
(***************************************************************************)
EXTENDS Integers, Sequences

CONSTANTS Tabs, TabUsers, \* the tabs, and who may be signed in in one
          Drivers, Vendor, Admin,
          Null,
          OtherDevices, \* whether those with a tab also work with other devices
          MaxChanges, \* bound on the commits
          MaxDrops    \* bound on the connections lost

Users == Drivers \cup {Vendor, Admin}

ASSUME LiveAssumption ==
  /\ TabUsers \subseteq Users
  /\ OtherDevices \in BOOLEAN
  /\ MaxChanges \in Nat /\ MaxDrops \in Nat
  /\ Null \notin Users \cup Tabs
  /\ Vendor # Admin /\ {Vendor, Admin} \cap Drivers = {}
  /\ Users \cap {"available-orders", "join", "leave"} = {}

VARIABLES user,     \* tab -> who is signed in there
          order,    \* one order: its status, driver, and whether it is settled
          duty,     \* the drivers on duty
          changes,  \* how many commits there were
          handlers, \* requests that committed: what they still emit, and for whom
          sockets,  \* tab -> its connection and the rooms it is in
          drops,    \* how many connections were lost
          heard,    \* the tabs with an event to receive
          timers,   \* the tabs whose timer runs
          fetches,  \* tab -> the requests for its queries
          shown     \* tab -> what its queries hold

liveVars == <<user, order, duty, changes, handlers, sockets, drops, heard, timers, fetches, shown>>
dbVars == <<user, order, duty, changes>>
tabVars == <<heard, timers, fetches, shown>>
-----------------------------------------------------------------------------
Machine == INSTANCE OrderStatusMachine
  WITH Orders <- {1}, Vendors <- {Vendor}, status <- [o \in {1} |-> order.status],
       driver <- [o \in {1} |-> order.driver], owner <- [o \in {1} |-> Vendor],
       by <- [o \in {1} |-> Null], None <- Null

Feed == "available-orders"
DriverTab(t) == user[t] \in Drivers

\* driverList, and what the driver owes for it.
Mine(d) == IF order.driver = d THEN order
           ELSE [status |-> "ABSENT", driver |-> Null, settled |-> FALSE]

\* The queries of a tab: the platform's orders and drivers, a vendor's
\* orders, a driver's orders and, on duty, the feed.
Screen(t) ==
  LET u == user[t] IN
  CASE u = Admin -> <<order, duty>>
    [] u = Vendor -> <<[order EXCEPT !.settled = FALSE], {}>>
    [] OTHER -> <<Mine(u), IF u \in duty /\ order.status = "PENDING" THEN {"offer"} ELSE {}>>

Fetched(t) == [at |-> changes, screen |-> Screen(t)]

\* A query that is invalidated while it is fetched is fetched anew: the
\* running request is cancelled.
MutInvalidated(t) == fetches[t] \cup {Null}
Invalidated(t) == {Null}

Invalidate(t) == fetches' = [fetches EXCEPT ![t] = Invalidated(t)]
-----------------------------------------------------------------------------
\* Everybody is connected, in his rooms, before the order.
Home(t) == {user[t]}

\* No order yet, or one that somebody with a tab delivered.
Starts == {[status |-> "ABSENT", driver |-> Null, settled |-> FALSE]} \cup
          {[status |-> "DELIVERED", driver |-> d, settled |-> FALSE] : d \in Drivers \cap TabUsers}

LiveInit ==
  /\ user \in [Tabs -> TabUsers]
  /\ order \in Starts
  /\ duty \in {{}, Drivers}
  /\ changes = 0 /\ drops = 0
  /\ handlers = {}
  /\ sockets = [t \in Tabs |->
       [phase |-> "on", rooms |-> Home(t) \cup IF user[t] \in duty THEN {Feed} ELSE {}]]
  /\ heard = {} /\ timers = {}
  /\ fetches = [t \in Tabs |-> {}]
  /\ shown = [t \in Tabs |-> Fetched(t)]

\* A commit, whose handler has these emits before it, each a set of rooms.
\* The request came from a tab, or from a device that is not modelled: Null.
Commit(tab, emits) ==
  /\ changes < MaxChanges
  /\ changes' = changes + 1
  /\ handlers' = handlers \cup {[id |-> changes, tab |-> tab, emits |-> emits]}
  /\ UNCHANGED <<user, sockets, drops, tabVars>>

From(t, u) == IF t # Null THEN user[t] = u
              ELSE OtherDevices \/ \A tab \in Tabs : user[tab] # u

Create(t) ==
  /\ From(t, Vendor) /\ order.status = "ABSENT"
  /\ order' = [order EXCEPT !.status = "PENDING"]
  /\ Commit(t, <<{Feed, Admin}>>)
  /\ UNCHANGED duty

\* The buttons of the pages a tab may be on, by what it shows: the admin's
\* and the vendor's page of the order, a driver's own and his feed.
AdminButtons(shownOrder) ==
  CASE shownOrder.status = "PENDING" -> {"accept", "cancel"}
    [] shownOrder.status \in {"DRIVER_ASSIGNED", "PICKED_UP"} -> {"reassign", "cancel"}
    [] OTHER -> {}

VendorButtons(shownOrder) == IF shownOrder.status = "PENDING" THEN {"cancel"} ELSE {}

DriverButtons(shownOrder) ==
  CASE shownOrder.status = "DRIVER_ASSIGNED" -> {"pickup", "release"}
    [] shownOrder.status = "PICKED_UP" -> {"deliver", "fail"}
    [] OTHER -> {}

FeedButtons(feed) == IF "offer" \in feed THEN {"accept"} ELSE {}

Buttons(t) ==
  LET screen == shown[t].screen IN
  CASE user[t] = Admin -> AdminButtons(screen[1])
    [] user[t] = Vendor -> VendorButtons(screen[1])
    [] OTHER -> DriverButtons(screen[1]) \cup FeedButtons(screen[2])

\* Whether the API does what the tab's button asks for, and for which driver.
Pressed(t, action, d) ==
  /\ action \in Buttons(t)
  /\ DriverTab(t) => user[t] = IF d = Null THEN order.driver ELSE d
  /\ user[t] = Vendor => order.status = "PENDING"

MutSomeone(d) == {d}
Someone(d) == IF d = Null THEN {} ELSE {d}

MutEmits(transition, d) ==
  IF transition.action = "release" THEN <<{Vendor, Admin} \cup Someone(d), {Feed, Admin}>>
  ELSE <<{Vendor, Admin} \cup Someone(d) \cup {Feed}>>

\* The events of a transition that leaves the order with driver d.
Emits(transition, d) ==
  CASE transition.action = "accept" -> <<{Vendor, Admin, Feed, d}>>
    [] transition.action = "release" -> <<{Vendor, Admin, order.driver}, {Feed, Admin}>>
    [] transition.action = "cancel" ->
         <<{Vendor, Admin} \cup Someone(d) \cup IF order.status = "PENDING" THEN {Feed} ELSE {}>>
    [] OTHER -> <<{Vendor, Admin, d}>>

\* A transition asked for from a tab, or by others.
Transition(transition, d, t) ==
  /\ order.status \in transition.from
  /\ IF transition.action = "accept" THEN d \in Drivers
     ELSE d = (IF transition.action = "release" THEN Null ELSE order.driver)
  /\ t # Null => Pressed(t, transition.action, d)
  /\ order' = [order EXCEPT !.status = transition.to, !.driver = d]
  /\ Commit(t, Emits(transition, d))
  /\ UNCHANGED duty

\* reassign(): the old driver hears of a release, and the feed of nothing new.
Reassign(d, t) ==
  /\ order.status \in {"DRIVER_ASSIGNED", "PICKED_UP"} /\ order.driver # d
  /\ t # Null => Pressed(t, "reassign", d)
  /\ order' = [order EXCEPT !.status = "DRIVER_ASSIGNED", !.driver = d]
  /\ Commit(t, <<{Vendor, Admin, order.driver}, {Vendor, Admin, Feed, d}>>)
  /\ UNCHANGED duty

\* A button that outlived its state: the API refuses, and the driver's and
\* the admin's hooks refetch, the button waiting until that is over; the
\* vendor's waits for an event.
Refused(t) ==
  /\ user[t] # Vendor /\ fetches[t] = {}
  /\ \E action \in Buttons(t) :
       /\ action = "reassign" => order.status \notin {"DRIVER_ASSIGNED", "PICKED_UP"}
       /\ \A transition \in Machine!ORDER_TRANSITIONS :
            transition.action = action /\ order.status \in transition.from =>
              DriverTab(t) /\ transition.assignedDriverOnly /\ order.driver # user[t]
  /\ Invalidate(t)
  /\ UNCHANGED <<dbVars, handlers, sockets, drops, heard, timers, shown>>

\* A handover, or its void.
Handover ==
  /\ order.status = "DELIVERED"
  /\ order' = [order EXCEPT !.settled = ~@]
  /\ Commit(Null, <<{Admin, order.driver}>>)
  /\ UNCHANGED duty

\* setDuty(): the driver's sockets move once it is committed.
SetDuty(d, on, t) ==
  /\ From(t, d) /\ on # (d \in duty)
  /\ duty' = IF on THEN duty \cup {d} ELSE duty \ {d}
  /\ Commit(t, <<{IF on THEN "join" ELSE "leave", d}, {Admin}>>)
  /\ UNCHANGED order
-----------------------------------------------------------------------------
Hears(t, rooms) == sockets[t].phase # "off" /\ sockets[t].rooms \cap rooms # {}

\* onDutyChanged: the sockets in the driver's own room change theirs.
Moved(t, h) ==
  IF ~Hears(t, Head(h.emits)) THEN sockets[t]
  ELSE [sockets[t] EXCEPT !.rooms = IF "join" \in Head(h.emits) THEN @ \cup {Feed} ELSE @ \ {Feed}]

\* Nobody modelled waits for the answer of a device that is not.
Unanswered(h) == {h} \ [id : 0 .. changes, tab : {Null}, emits : {<<>>}]

\* A handler's next event reaches the sockets in its rooms at this moment.
Emit(h) ==
  /\ h.emits # <<>>
  /\ handlers' = (handlers \ {h}) \cup Unanswered([h EXCEPT !.emits = Tail(@)])
  /\ IF Head(h.emits) \cap {"join", "leave"} # {}
     THEN sockets' = [t \in Tabs |-> Moved(t, h)] /\ UNCHANGED heard
     ELSE heard' = heard \cup {t \in Tabs : Hears(t, Head(h.emits))} /\ UNCHANGED sockets
  /\ UNCHANGED <<dbVars, drops, timers, fetches, shown>>

\* The tab that asked reads its answer and invalidates its own queries.
Answer(h) ==
  /\ h.emits = <<>>
  /\ handlers' = handlers \ {h}
  /\ Invalidate(h.tab)
  /\ UNCHANGED <<dbVars, sockets, drops, heard, timers, shown>>
-----------------------------------------------------------------------------
\* An event arrives: the timer is started unless it runs.
Receive(t) ==
  /\ t \in heard
  /\ heard' = heard \ {t}
  /\ timers' = timers \cup {t}
  /\ UNCHANGED <<dbVars, handlers, sockets, drops, fetches, shown>>

\* The trailing edge.
Fire(t) ==
  /\ t \in timers
  /\ timers' = timers \ {t}
  /\ Invalidate(t)
  /\ UNCHANGED <<dbVars, handlers, sockets, drops, heard, shown>>

\* The API reads the database for a request of the tab's ...
Read(t) ==
  /\ Null \in fetches[t]
  /\ fetches' = [fetches EXCEPT ![t] = (@ \ {Null}) \cup {Fetched(t)}]
  /\ UNCHANGED <<dbVars, handlers, sockets, drops, heard, timers, shown>>

\* ... and the answer replaces what the queries hold.
Display(t, fetched) ==
  /\ fetched \in fetches[t] \ {Null}
  /\ shown' = [shown EXCEPT ![t] = fetched]
  /\ fetches' = [fetches EXCEPT ![t] = @ \ {fetched}]
  /\ UNCHANGED <<dbVars, handlers, sockets, drops, heard, timers>>

\* The window gets the focus, and its queries are stale.
Focus(t) ==
  /\ fetches[t] = {} /\ shown[t].at # changes
  /\ Invalidate(t)
  /\ UNCHANGED <<dbVars, handlers, sockets, drops, heard, timers, shown>>
-----------------------------------------------------------------------------
\* A connection is lost, and with it what was on its way.
Drop(t) ==
  /\ sockets[t].phase # "off" /\ drops < MaxDrops
  /\ drops' = drops + 1
  /\ sockets' = [sockets EXCEPT ![t] = [phase |-> "off", rooms |-> {}]]
  /\ heard' = heard \ {t}
  /\ UNCHANGED <<dbVars, handlers, timers, fetches, shown>>

\* The API restarts: no handler emits or answers any more.
Restart ==
  /\ drops < MaxDrops
  /\ drops' = drops + 1
  /\ handlers' = {}
  /\ sockets' = [t \in Tabs |-> [phase |-> "off", rooms |-> {}]]
  /\ heard' = {}
  /\ UNCHANGED <<dbVars, timers, fetches, shown>>

\* The client's "connect": everything on screen is fetched again, while the
\* gateway has yet to authenticate the socket.
Connect(t) ==
  /\ sockets[t].phase = "off"
  /\ sockets' = [sockets EXCEPT ![t].phase = "connected"]
  /\ Invalidate(t)
  /\ UNCHANGED <<dbVars, handlers, drops, heard, timers, shown>>

\* handleConnection: the rooms of the account, ...
Join(t) ==
  /\ sockets[t].phase = "connected"
  /\ sockets' = [sockets EXCEPT ![t] = [phase |-> IF DriverTab(t) THEN "joined" ELSE "on",
                                        rooms |-> Home(t)]]
  /\ UNCHANGED <<dbVars, handlers, drops, tabVars>>

\* ... the driver's duty ...
ReadDuty(t) ==
  /\ sockets[t].phase = "joined"
  /\ sockets' = [sockets EXCEPT ![t].phase = IF user[t] \in duty THEN "offered" ELSE "on"]
  /\ UNCHANGED <<dbVars, handlers, drops, tabVars>>

\* ... and the feed's room for one who was on duty.
JoinFeed(t) ==
  /\ sockets[t].phase = "offered"
  /\ sockets' = [sockets EXCEPT ![t] = [phase |-> "on", rooms |-> @.rooms \cup {Feed}]]
  /\ UNCHANGED <<dbVars, handlers, drops, tabVars>>
-----------------------------------------------------------------------------
Work ==
  \/ \E t \in Tabs \cup {Null} :
       \/ Create(t)
       \/ \E d \in Drivers, on \in BOOLEAN : SetDuty(d, on, t)
       \/ \E transition \in Machine!ORDER_TRANSITIONS, d \in Drivers \cup {Null} :
            Transition(transition, d, t)
       \/ \E d \in Drivers : Reassign(d, t)
  \/ Handover

\* What the API and the tabs do on their own.
Serve == \E h \in handlers : Emit(h) \/ Answer(h)
Fetch(t) == Read(t) \/ \E fetched \in fetches[t] \ {Null} : Display(t, fetched)
Handshake(t) == Connect(t) \/ Join(t) \/ ReadDuty(t) \/ JoinFeed(t)

LiveNext ==
  \/ Work \/ Serve \/ Restart
  \/ \E t \in Tabs : \/ Receive(t) \/ Fire(t) \/ Fetch(t) \/ Handshake(t)
                     \/ Focus(t) \/ Refused(t) \/ Drop(t)

\* Handlers run to their end, packets arrive, timers fire, requests are
\* answered and a client reconnects; nobody has to work, or to look.
Fairness ==
  /\ WF_liveVars(Serve)
  /\ \A t \in Tabs : /\ WF_liveVars(Receive(t)) /\ WF_liveVars(Fire(t))
                     /\ WF_liveVars(Fetch(t)) /\ WF_liveVars(Handshake(t))

LiveSpec == LiveInit /\ [][LiveNext]_liveVars /\ Fairness
-----------------------------------------------------------------------------
Rooms == Users \cup {Feed}
Statuses == {"ABSENT", "PENDING", "DRIVER_ASSIGNED", "PICKED_UP", "DELIVERED", "CANCELLED",
             "FAILED"}
OrderRows == [status : Statuses, driver : Drivers \cup {Null}, settled : BOOLEAN]
Screens == [at : 0 .. MaxChanges, screen : OrderRows \X SUBSET (Drivers \cup {"offer"})]

\* Types of the database, the connections and the tabs.
LiveTypeOK ==
  /\ user \in [Tabs -> Users] /\ order \in OrderRows /\ duty \subseteq Drivers
  /\ changes \in 0 .. MaxChanges /\ drops \in 0 .. MaxDrops
  /\ \A h \in handlers : /\ h.id \in 0 .. MaxChanges /\ h.tab \in Tabs \cup {Null}
                         /\ h.emits \in Seq(SUBSET (Rooms \cup {"join", "leave"}))
  /\ sockets \in [Tabs -> [phase : {"off", "connected", "joined", "offered", "on"},
                           rooms : SUBSET Rooms]]
  /\ heard \subseteq Tabs /\ timers \subseteq Tabs
  /\ fetches \in [Tabs -> SUBSET (Screens \cup {Null})]
  /\ shown \in [Tabs -> Screens]

\* Answers of the API are applied in the order it gave them: a refetch never
\* puts an older state of the platform back on a screen.
NeverBackwards == [][\A t \in Tabs : shown'[t].at >= shown[t].at]_liveVars

Joined(t) == sockets[t].phase = "on"
FeedFollowsDuty(t) == DriverTab(t) => (Feed \in sockets[t].rooms <=> user[t] \in duty)
Fresh(t) == shown[t].screen = Screen(t)

\* Whoever has the tab works with no other device.  The admin may: he hears of
\* everything.
Alone(t) == user[t] # Admin => ~OtherDevices /\ \A other \in Tabs \ {t} : user[other] # user[t]

\* Something will make the tab ask again: a request, a timer, an event, the
\* answer to what it asked for.
Prompted(t) ==
  \/ Null \in fetches[t] \/ t \in heard \cup timers
  \/ \E h \in handlers : h.tab = t \/ \E k \in 1 .. Len(h.emits) : Hears(t, h.emits[k])

\* What it shows next, if it is not prompted, is what the database holds.
Current(t) == IF fetches[t] = {} THEN Fresh(t) ELSE \A f \in fetches[t] : f.screen = Screen(t)

InTouch(t) == Prompted(t) \/ Current(t)

\* Its socket stays in its rooms, and in the feed's when its driver's duty does,
\* unless the answer to his own switch is still to come.
StaysIn(t) == Joined(t) /\ (FeedFollowsDuty(t) \/ \E h \in handlers : h.tab = t)

\* The events are enough: no commit, and no event that overtakes another or an
\* answer, leaves a tab that stays in its rooms with something stale and nothing
\* on its way that will make it ask again.
MissesNothing ==
  [][\A t \in Tabs : InTouch(t) /\ Alone(t) /\ StaysIn(t) /\ StaysIn(t)' => InTouch(t)']_liveVars

\* realtime-provider.tsx: a burst costs one refresh, and "the trailing edge
\* means the screen still settles on the truth".  A tab whose socket stays in
\* its rooms ends up with what the database holds, though nobody looks at it,
\* whatever overtakes the events and the answers, as long as whoever is signed
\* in there works with no other device.
SettlesOnTruth ==
  \A t \in Tabs : []Joined(t) /\ <>[]FeedFollowsDuty(t) => <>[]Fresh(t)
=============================================================================

---------------------------- MODULE OrderReports ----------------------------
(***************************************************************************)
(* What the lists, the export and the counts say about orders that move    *)
(* while they are read: orders.service's four lists, a customer's orders   *)
(* and their counts in customer-profile.service, the cursor pages of       *)
(* common/pagination.ts, the infinite queries of the screens, the batches  *)
(* of orders-csv.service, analytics.service's counts, and the Beirut days  *)
(* of packages/shared/src/business-day.ts they are filtered by.            *)
(*                                                                         *)
(* An instant is a whole number of hours, UTC; "the last instant of a day" *)
(* is one unit, not one millisecond, before the next.  A zone is a UTC     *)
(* offset that changes once.                                               *)
(***************************************************************************)
EXTENDS Integers, Sequences, FiniteSets, SequencesExt

CONSTANTS Drivers, Vendors, Customers, Admin, None,
          PlacedBy, PlacedFor, \* order -> its vendor, its customer
          Zones,    \* offsets: [before, after, at]
          Stamps,   \* the createdAt the orders may have, one function each
          Dates,    \* days a date field may hold
          Searches, \* the filters that are tried
          Limit,    \* rows of a screen's page
          BATCH_SIZE, MAX_ROWS, \* of the export
          MaxMoves  \* bound on the changes while a list is read

Orders == DOMAIN PlacedBy

\* Ids are ordered.  Beirut is ahead of UTC by less than a day, and its clock
\* changes by an hour at midnight: to one o'clock, or back to 23:00.
ASSUME ReportsAssumption ==
  /\ IsFiniteSet(Orders) /\ Orders \subseteq Int /\ None \notin Orders \cup Drivers \cup Dates
  /\ PlacedBy \in [Orders -> Vendors] /\ PlacedFor \in [Orders -> Customers]
  /\ \A z \in Zones : /\ z.before \in 0 .. 23 /\ z.after \in 0 .. 23 /\ z.at \in Int
                      /\ z.after # z.before => /\ z.after - z.before \in {-1, 1}
                                               /\ (z.at + z.before) % 24 = 0
  /\ \A stamp \in Stamps : DOMAIN stamp = Orders /\ \A o \in Orders : stamp[o] \in Nat
  /\ IsFiniteSet(Dates) /\ Dates # {} /\ Dates \subseteq Nat \ {0}
  /\ Limit \in Nat \ {0} /\ BATCH_SIZE \in Nat \ {0} /\ MAX_ROWS \in Nat \ {0}
  /\ MaxMoves \in Nat
  /\ \A f \in Searches : {f.from, f.to} \subseteq Dates \cup {None}

VARIABLES zone,      \* the zone in force
          createdAt, \* order -> when it was stamped
          status, driver,
          moves,     \* how many changes there were
          walk       \* the list being read page after page, or None

vars == <<zone, createdAt, status, driver, moves, walk>>
-----------------------------------------------------------------------------
\* The business day.

beirutOffset(z, at) == IF at < z.at THEN z.before ELSE z.after
beirutWallClock(z, at) == at + beirutOffset(z, at)
Date(z, at) == beirutWallClock(z, at) \div 24

\* The offset of the reference instant taken for that of the boundary.
MutMidnight(z, naive, near) == naive - beirutOffset(z, near)

\* Of two guesses the first that reads back as midnight; when neither does,
\* midnight was skipped and the day began when the clock jumped.
beirutMidnight(z, naive, near) ==
  LET first == naive - beirutOffset(z, near)
      second == naive - beirutOffset(z, first)
      genuine == {c \in {first, second} : beirutWallClock(z, c) = naive}
  IN  IF genuine # {} THEN Min(genuine) ELSE Max({first, second})

beirutDayStart(z, at) == beirutMidnight(z, 24 * Date(z, at), at)
beirutDayEnd(z, at) == beirutMidnight(z, 24 * (Date(z, at) + 1), at) - 1

\* A date field sends a date, which is parsed as its UTC midnight.
Picked(date) == 24 * date

Instants == 0 .. 24 * (Max(Dates) + 2)

beirutRange ==
  [z \in Zones |-> [from \in Dates \cup {None} |-> [to \in Dates \cup {None} |->
     {at \in Instants : /\ from # None => at >= beirutDayStart(z, Picked(from))
                        /\ to # None => at <= beirutDayEnd(z, Picked(to))}]]]

\* What a driver's "Today" and the range he picked count, from deliveredAt.
Today(z, now, at) == at >= beirutDayStart(z, now)
Earned(z, from, to, at) == from # None /\ at \in beirutRange[z][from][to]
-----------------------------------------------------------------------------
\* The lists.

ACTIVE == {"DRIVER_ASSIGNED", "PICKED_UP"}
HISTORY == {"DELIVERED", "FAILED"}
Statuses == {"PENDING", "CANCELLED"} \cup ACTIVE \cup HISTORY

\* A filter; "ALL" and None are the fields left open.
Filter(s, v, d, from, to) ==
  [status |-> s, vendor |-> v, customer |-> None, driver |-> d, from |-> from, to |-> to]
Unfiltered == Filter("ALL", None, None, None, None)

Created(f, o) == /\ status[o] # "ABSENT"
                 /\ createdAt[o] \in beirutRange[zone][f.from][f.to]

adminList(f, o) == /\ Created(f, o)
                   /\ f.status \in {"ALL", status[o]}
                   /\ f.vendor \in {None, PlacedBy[o]}
                   /\ f.driver \in {None, driver[o]}

vendorList(v, f, o) == /\ Created(f, o)
                       /\ f.status \in {"ALL", status[o]}
                       /\ v = PlacedBy[o]

availableFeed(o) == status[o] = "PENDING"
driverList(d, scope, o) == driver[o] = d /\ status[o] \in scope

\* The export, with a where of its own that must be adminList's.
stream(f, o) == /\ Created(f, o)
                /\ f.status \in {"ALL", status[o]}
                /\ f.vendor \in {None, PlacedBy[o]}
                /\ f.driver \in {None, driver[o]}

\* A customer's orders: all of them for an admin, for a vendor his own.
customerOrderScope(f, o) == /\ status[o] # "ABSENT"
                            /\ PlacedFor[o] = f.customer
                            /\ f.vendor \in {None, PlacedBy[o]}

Listed(reader, f, o) ==
  CASE reader = "vendor"  -> vendorList(f.vendor, f, o)
    [] reader = "feed"    -> availableFeed(o)
    [] reader = "active"  -> driverList(f.driver, ACTIVE, o)
    [] reader = "history" -> driverList(f.driver, HISTORY, o)
    [] reader = "admin"   -> adminList(f, o)
    [] reader = "csv"     -> stream(f, o)
    [] reader = "customer" -> customerOrderScope(f, o)

Matching(reader, f) == {o \in Orders : Listed(reader, f, o)}

\* The counts on the vendor's statistics page for a range of dates.
vendorStats(v, from, to) ==
  [s \in Statuses |->
     Cardinality({o \in Orders : /\ PlacedBy[o] = v /\ status[o] = s
                                 /\ createdAt[o] \in beirutRange[zone][from][to]})]

\* A customer's profile: counts by status, and what is made of them.
build(f) ==
  LET scoped == Matching("customer", f)
      countOf(s) == Cardinality({o \in scoped : status[o] = s})
      created == {createdAt[o] : o \in scoped}
  IN  [ordersInScope |-> Cardinality(scoped),
       delivered |-> countOf("DELIVERED"), cancelled |-> countOf("CANCELLED"),
       failed |-> countOf("FAILED"),
       inProgress |-> countOf("PENDING") + countOf("DRIVER_ASSIGNED") + countOf("PICKED_UP"),
       lastOrderAt |-> IF created = {} THEN None ELSE Max(created)]
-----------------------------------------------------------------------------
\* The pages.

\* Orders placed in one instant ordered as they happen to lie.
MutPrecedes(a, b) == createdAt[a] > createdAt[b]

\* [createdAt desc, id desc]
Precedes(a, b) == \/ createdAt[a] > createdAt[b]
                  \/ createdAt[a] = createdAt[b] /\ a > b

\* The rows in that order.
OrderBy(rows) == CHOOSE sorted \in SetToSeqs(rows) :
                   \A i, j \in DOMAIN sorted : i < j => ~Precedes(sorted[j], sorted[i])

\* findMany with a cursor: the rows from the cursor's row on, whether or not
\* that one still matches, and then skip: 1.
findMany(reader, f, cursor, take) ==
  LET from == {o \in Matching(reader, f) : cursor # None => ~Precedes(o, cursor)}
      rows == OrderBy(from)
      skip == IF cursor = None THEN 0 ELSE 1
  IN  SubSeq(rows, skip + 1, Min({Len(rows), skip + take}))

cursorResult(rows) ==
  LET items == SubSeq(rows, 1, Min({Len(rows), Limit}))
  IN  [data |-> items,
       nextCursor |-> IF Len(rows) > Limit THEN Last(items) ELSE None]

\* A list from its first page on: "rows" so far, the "cursor" of the next
\* page, "target" pages to load.  For the properties: the orders that matched
\* all along ("steady"), the pages whose cursor's row no longer matched
\* ("orphans"), and whether nothing changed ("still").
Begin(reader, f, target) ==
  [reader |-> reader, filter |-> f, target |-> target, pages |-> 0,
   rows |-> <<>>, cursor |-> None, done |-> FALSE, truncated |-> FALSE,
   steady |-> Matching(reader, f), orphans |-> 0, still |-> TRUE]

Screens == {"vendor", "feed", "active", "history", "admin", "customer"}

\* The filters a reader's page has.
Offered(reader) ==
  CASE reader \in {"admin", "csv"} -> Searches
    [] reader = "vendor" -> {[f EXCEPT !.vendor = v] :
                               f \in {g \in Searches : g.driver = None}, v \in Vendors}
    [] reader = "customer" -> {[Unfiltered EXCEPT !.customer = c, !.vendor = v] :
                                 c \in Customers, v \in Vendors \cup {None}}
    [] reader = "feed" -> {Unfiltered}
    [] OTHER -> {[Unfiltered EXCEPT !.driver = d] : d \in Drivers}

Init == /\ zone \in Zones
        /\ createdAt \in Stamps
        /\ \E seen \in [Orders -> {"ABSENT", "PENDING", "PICKED_UP"}] :
             /\ Cardinality({o \in Orders : seen[o] = "ABSENT"}) <= 1
             /\ status = seen
             /\ driver \in [Orders -> Drivers \cup {None}]
             /\ \A o \in Orders : driver[o] # None <=> status[o] = "PICKED_UP"
        /\ moves = 0
        /\ walk = None

dbVars == <<zone, createdAt, status, driver, moves>>

Open(reader) ==
  /\ walk = None
  /\ \E f \in Offered(reader) : walk' = Begin(reader, f, 1)
  /\ UNCHANGED dbVars

Orphaned == walk.cursor # None /\ ~Listed(walk.reader, walk.filter, walk.cursor)

\* A page joins the walk; "next" is the cursor of the one after it.
Turn(data, next) ==
  [walk EXCEPT !.pages = @ + 1, !.rows = @ \o data, !.cursor = next,
               !.orphans = @ + IF Orphaned THEN 1 ELSE 0]

FetchPage ==
  /\ walk # None /\ walk.reader \in Screens
  /\ walk.pages < walk.target /\ ~walk.done
  /\ LET page == cursorResult(findMany(walk.reader, walk.filter, walk.cursor, Limit + 1))
     IN  walk' = [Turn(page.data, page.nextCursor) EXCEPT !.done = page.nextCursor = None]
  /\ UNCHANGED dbVars

\* "Load more", shown while there is a next page.
LoadMore ==
  /\ walk # None /\ walk.reader \in Screens
  /\ walk.pages = walk.target /\ ~walk.done
  /\ walk' = [walk EXCEPT !.target = @ + 1]
  /\ UNCHANGED dbVars

\* An invalidation or a focus: as many pages as there are, from the first on;
\* a fetch that runs is cancelled.
Refetch ==
  /\ walk # None /\ walk.reader \in Screens
  /\ walk.pages > 0
  /\ walk' = Begin(walk.reader, walk.filter, walk.target)
  /\ UNCHANGED dbVars

\* One round of the export's loop.
WriteBatch ==
  /\ walk # None /\ walk.reader = "csv" /\ ~walk.done
  /\ LET rows == findMany("csv", walk.filter, walk.cursor, BATCH_SIZE)
         after == Turn(rows, IF rows = <<>> THEN walk.cursor ELSE Last(rows))
         short == Len(rows) < BATCH_SIZE
         full == ~short /\ Len(after.rows) >= MAX_ROWS
     IN  walk' = [after EXCEPT !.done = short \/ full, !.truncated = full]
  /\ UNCHANGED dbVars
-----------------------------------------------------------------------------
\* The orders move meanwhile, by the table the lifecycle implements.
Machine == INSTANCE OrderStatusMachine
  WITH owner <- PlacedBy, by <- [o \in Orders |-> None]

\* What a change leaves of the walk's record of it.
Unsettle ==
  IF walk = None THEN UNCHANGED walk
  ELSE \E reader \in {walk.reader}, f \in {walk.filter} :
         walk' = [walk EXCEPT !.still = FALSE, !.steady = @ \cap Matching(reader, f)']

Change(o, to, d) ==
  /\ moves < MaxMoves
  /\ moves' = moves + 1
  /\ status' = [status EXCEPT ![o] = to]
  /\ driver' = [driver EXCEPT ![o] = d]
  /\ UNCHANGED <<zone, createdAt>>
  /\ Unsettle

\* createdAt is stamped before the commit, so an order may turn up behind
\* rows that were read already.
Place(o) == status[o] = "ABSENT" /\ Change(o, "PENDING", None)

\* A release that leaves its driver on the order.
MutMove(o, t) == status[o] \in t.from /\ Change(o, t.to, driver[o])

Move(o, t) == /\ status[o] \in t.from
              /\ \E d \in Machine!DriverAfter(o, t, Admin) : Change(o, t.to, d)

Reassign(o, d) == /\ status[o] \in ACTIVE /\ driver[o] # d
                  /\ Change(o, "DRIVER_ASSIGNED", d)

Next == \/ \E reader \in Screens \cup {"csv"} : Open(reader)
        \/ FetchPage \/ LoadMore \/ Refetch \/ WriteBatch
        \/ \E o \in Orders : \/ Place(o)
                             \/ \E t \in Machine!ORDER_TRANSITIONS : Move(o, t)
                             \/ \E d \in Drivers : Reassign(o, d)

Spec == Init /\ [][Next]_vars
-----------------------------------------------------------------------------
TypeOK ==
  /\ zone \in Zones /\ createdAt \in Stamps
  /\ status \in [Orders -> Statuses \cup {"ABSENT"}]
  /\ driver \in [Orders -> Drivers \cup {None}]
  /\ moves \in 0 .. MaxMoves
  /\ \A o \in Orders : status[o] \in {"ABSENT", "PENDING"} => driver[o] = None
  /\ walk # None =>
       /\ walk.reader \in Screens \cup {"csv"} /\ walk.filter \in Offered(walk.reader)
       /\ walk.rows \in Seq(Orders) /\ walk.cursor \in Orders \cup {None}
       /\ walk.pages \in 0 .. Max({walk.target, MAX_ROWS + 1})
       /\ walk.truncated => walk.reader = "csv"

\* The orders a walk is past: all of them when there is no page left.
Passed == {o \in Orders : \/ walk.done /\ ~walk.truncated
                          \/ \E i \in 1 .. Len(walk.rows) : Precedes(o, walk.rows[i])}

\* A list read page by page while its orders move never shows one twice, and
\* misses at most one of those that matched all along for each page whose
\* cursor had left the list by then (pagination.ts's skip: 1).  Read to its
\* end with nothing moving it is complete: the vendor's list is what his
\* statistics count, a customer's what his profile counts, the admin's export
\* what his screen lists.
ListedOnce ==
  walk # None =>
    LET rows == {walk.rows[i] : i \in 1 .. Len(walk.rows)}
    IN  /\ Cardinality(rows) = Len(walk.rows)
        /\ Cardinality((walk.steady \cap Passed) \ rows) <= walk.orphans
        /\ walk.still /\ walk.done /\ ~walk.truncated =>
             /\ walk.reader = "vendor" =>
                  \A s \in Statuses : walk.filter.status \in {"ALL", s} =>
                    Cardinality({o \in rows : status[o] = s})
                      = vendorStats(walk.filter.vendor, walk.filter.from, walk.filter.to)[s]
             /\ walk.reader = "csv" => rows = Matching("admin", walk.filter)
             /\ walk.reader = "customer" =>
                  LET stats == build(walk.filter)
                  IN  /\ Cardinality(rows) = stats.ordersInScope
                      /\ stats.ordersInScope =
                           stats.delivered + stats.cancelled + stats.failed + stats.inProgress
                      /\ rows # {} => createdAt[Head(walk.rows)] = stats.lastOrderAt

Tiles ==
  [z \in Zones |->
     \A date \in Dates :
       LET day == {at \in Instants : Date(z, at) = date}
       IN  /\ beirutRange[z][date][date] = day
           /\ \A at \in day : /\ beirutDayStart(z, at) = Min(day)
                              /\ beirutDayEnd(z, at) = Max(day)
           /\ \A now \in day : \A at \in 0 .. now :
                Today(z, now, at) <=> at \in day
           /\ \A at \in day, from, to \in Dates :
                Earned(z, from, to, at) <=> from <= date /\ date <= to]

\* Whatever the clock does, a Beirut day is the instants that read as its
\* date: the screens' range of one date, the driver's "Today" and the range
\* he picks, and the settlement's cutoff all cut there, so that no delivery
\* is in two days or in none.
BusinessDays == Tiles[zone]
=============================================================================

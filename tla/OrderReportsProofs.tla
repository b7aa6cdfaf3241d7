------------------------- MODULE OrderReportsProofs -------------------------
(***************************************************************************)
(* Lists read page after page while orders move, for any number of orders, *)
(* pages, batches, dates and changes, and every zone that turns its clock  *)
(* by an hour at midnight.                                                 *)
(*                                                                         *)
(* The invariant ReportsInv has two parts.  DbInv types the orders.        *)
(* WalkInv is about the list that is being read: its rows are in the order *)
(* of cursorArgs() and end at the cursor, and of the orders that belonged  *)
(* to it from the first page on it is past no more than it shows and, for  *)
(* each cursor that had left the list, one (ReadInv).  That it shows each  *)
(* of them once is not inductive without the order: a page continues the   *)
(* rows because everything on it lies behind the cursor (IsPage).          *)
(*                                                                         *)
(* The parts: days and zones; rows in order; a page; a walk and its next   *)
(* page; each action; the theorems.                                        *)
(***************************************************************************)
EXTENDS OrderReports, Sums, SequenceTheorems, TLAPS

\* A zone as Lebanon has them.
IsZone(z) == /\ z.before \in 0 .. 23 /\ z.after \in 0 .. 23 /\ z.at \in Int
             /\ z.after # z.before => /\ z.after - z.before \in {-1, 1}
                                      /\ (z.at + z.before) % 24 = 0

\* The change, if there is one, is at a midnight.
LEMMA ZoneIs ==
  ASSUME NEW z, IsZone(z)
  PROVE  /\ z.before \in 0 .. 23 /\ z.after \in 0 .. 23 /\ z.at \in Int
         /\ \/ z.after = z.before
            \/ \E k \in Int : z.at + z.before = 24 * k
                                 /\ (z.after = z.before + 1 \/ z.after = z.before - 1)
<1>1. CASE z.after = z.before
  BY <1>1 DEF IsZone
<1>2. CASE z.after # z.before
  <2> PICK m \in Int : m = z.at + z.before
    BY DEF IsZone
  <2>1. m % 24 = 0
    BY <1>2 DEF IsZone
  <2>2. m = 24 * (m \div 24) /\ m \div 24 \in Int
    BY <2>1
  <2>3. z.after - z.before \in {-1, 1}
    BY <1>2 DEF IsZone
  <2>4. z.before \in 0 .. 23 /\ z.after \in 0 .. 23 /\ z.at \in Int
    BY DEF IsZone
  <2>5. z.after = z.before + 1 \/ z.after = z.before - 1
    BY <2>3, <2>4
  <2> QED BY <2>2, <2>4, <2>5
<1> QED BY <1>1, <1>2

\* A date is the day of 24 hours the wall clock is in.
LEMMA DateIs ==
  ASSUME NEW z, IsZone(z), NEW at \in Int, NEW date \in Int
  PROVE  /\ beirutWallClock(z, at) \in Int /\ Date(z, at) \in Int
         /\ Date(z, at) >= date <=> beirutWallClock(z, at) >= 24 * date
         /\ beirutWallClock(z, at) >= at /\ beirutWallClock(z, at) < at + 24
<1>1. beirutOffset(z, at) \in 0 .. 23
  BY DEF IsZone, beirutOffset
<1> PICK wall \in Int : wall = beirutWallClock(z, at)
  BY <1>1 DEF beirutWallClock
<1>2. wall >= at /\ wall < at + 24
  BY <1>1 DEF beirutWallClock
<1>3. (wall \div 24) >= date <=> wall >= 24 * date
  OBVIOUS
<1> QED BY <1>2, <1>3 DEF Date

LEMMA MinOfSome ==
  ASSUME NEW a \in Int, NEW b \in Int, NEW S, S \subseteq {a, b}, S # {}
  PROVE  Min(S) \in S /\ \A x \in S : Min(S) <= x
<1>1. \E x \in S : \A y \in S : x <= y
  <2>1. S = {a} \/ S = {b} \/ S = {a, b}
    OBVIOUS
  <2>2. CASE S = {a, b}
    BY <2>2
  <2> QED BY <2>1, <2>2
<1> QED BY <1>1 DEF Min

LEMMA MaxOfBoth ==
  ASSUME NEW a \in Int, NEW b \in Int
  PROVE  Max({a, b}) = IF a >= b THEN a ELSE b
<1>1. \E x \in {a, b} : \A y \in {a, b} : x >= y
  OBVIOUS
<1>2. Max({a, b}) \in {a, b} /\ \A y \in {a, b} : Max({a, b}) >= y
  BY <1>1 DEF Max
<1> QED BY <1>2

\* The wall clock shows midnight once, and passes a midnight where it shows
\* it, or where it skips it.
LEMMA WallClockPasses ==
  ASSUME NEW z, IsZone(z), NEW date \in Int, NEW m \in Int, NEW at \in Int,
         \/ beirutWallClock(z, m) = 24 * date
         \/ m = z.at /\ z.at + z.before = 24 * date /\ z.after = z.before + 1
  PROVE  at >= m <=> beirutWallClock(z, at) >= 24 * date
<1>1. CASE z.after = z.before
  BY <1>1, ZoneIs DEF beirutWallClock, beirutOffset
<1>2. CASE \E k \in Int : z.at + z.before = 24 * k /\ z.after = z.before + 1
  BY <1>2, ZoneIs DEF beirutWallClock, beirutOffset
<1>3. CASE \E k \in Int : z.at + z.before = 24 * k /\ z.after = z.before - 1
  BY <1>3, ZoneIs DEF beirutWallClock, beirutOffset
<1> QED BY <1>1, <1>2, <1>3, ZoneIs

\* Whatever instant the offset is first taken from, beirutMidnight is where
\* the wall clock passes that midnight.
LEMMA MidnightIs ==
  ASSUME NEW z, IsZone(z), NEW date \in Int, NEW near \in Int, NEW at \in Int
  PROVE  /\ beirutMidnight(z, 24 * date, near) \in Int
         /\ at >= beirutMidnight(z, 24 * date, near) <=> beirutWallClock(z, at) >= 24 * date
<1> PICK first \in Int : first = 24 * date - beirutOffset(z, near)
  BY DEF IsZone, beirutOffset
<1> PICK second \in Int : second = 24 * date - beirutOffset(z, first)
  BY DEF IsZone, beirutOffset
<1> DEFINE genuine == {c \in {first, second} : beirutWallClock(z, c) = 24 * date}
           midnight == beirutMidnight(z, 24 * date, near)
<1>1. midnight = IF genuine # {} THEN Min(genuine) ELSE Max({first, second})
  BY DEF beirutMidnight
<1>2. CASE genuine # {}
  <2>1. midnight \in genuine
    <3>1. genuine \subseteq {first, second}
      OBVIOUS
    <3> HIDE DEF genuine, midnight
    <3>2. Min(genuine) \in genuine
      <4>1. first \in Int /\ second \in Int
        OBVIOUS
      <4> QED BY ONLY <1>2, <3>1, <4>1, MinOfSome, Zenon
    <3> QED BY <1>1, <1>2, <3>2
  <2> QED BY <2>1, WallClockPasses
<1>3. CASE genuine = {}
  <2>1. midnight = IF first >= second THEN first ELSE second
    <3> HIDE DEF genuine, midnight
    <3> QED BY <1>1, <1>3, MaxOfBoth
  <2>2. beirutWallClock(z, first) # 24 * date /\ beirutWallClock(z, second) # 24 * date
    BY <1>3
  <2>3. midnight = z.at /\ z.at + z.before = 24 * date /\ z.after = z.before + 1
    <3> HIDE DEF midnight, genuine
    <3>1. CASE z.after = z.before
      BY <2>2, <3>1, ZoneIs DEF beirutWallClock, beirutOffset
    <3>2. CASE \E k \in Int : z.at + z.before = 24 * k /\ z.after = z.before + 1
      BY <2>1, <2>2, <3>2, ZoneIs DEF beirutWallClock, beirutOffset
    <3>3. CASE \E k \in Int : z.at + z.before = 24 * k /\ z.after = z.before - 1
      BY <2>2, <3>3, ZoneIs DEF beirutWallClock, beirutOffset
    <3> QED BY <3>1, <3>2, <3>3, ZoneIs
  <2> QED BY <2>3, ZoneIs, WallClockPasses
<1> QED BY <1>2, <1>3

\* An instant is past the start of another's day when its date is that day's
\* or later, and past the end when it is later.
LEMMA DayBegins ==
  ASSUME NEW z, IsZone(z), NEW at \in Int, NEW other \in Int
  PROVE  /\ beirutDayStart(z, at) \in Int /\ beirutDayEnd(z, at) \in Int
         /\ other >= beirutDayStart(z, at) <=> Date(z, other) >= Date(z, at)
         /\ other <= beirutDayEnd(z, at) <=> Date(z, other) <= Date(z, at)
<1> PICK date \in Int : date = Date(z, at)
  BY DateIs
<1>1. date + 1 \in Int
  OBVIOUS
<1>2. /\ beirutMidnight(z, 24 * date, at) \in Int
      /\ other >= beirutMidnight(z, 24 * date, at) <=> Date(z, other) >= date
  BY MidnightIs, DateIs
<1>3. /\ beirutMidnight(z, 24 * (date + 1), at) \in Int
      /\ other >= beirutMidnight(z, 24 * (date + 1), at) <=> Date(z, other) >= date + 1
  BY <1>1, MidnightIs, DateIs
<1>4. Date(z, other) \in Int
  BY DateIs
<1> QED BY <1>2, <1>3, <1>4 DEF beirutDayStart, beirutDayEnd
-----------------------------------------------------------------------------
\* A finite set has a last member, in whatever order there is on it.
LEMMA LastExists ==
  ASSUME NEW S, IsFiniteSet(S), S # {}, NEW R,
         \A x, y \in S : x = y \/ <<x, y>> \in R \/ <<y, x>> \in R,
         \A x, y, w \in S : <<x, y>> \in R /\ <<y, w>> \in R => <<x, w>> \in R
  PROVE  \E last \in S : \A x \in S : x = last \/ <<x, last>> \in R
<1> DEFINE P == {s \in SUBSET S : s # {} =>
                   \E last \in s : \A x \in s : x = last \/ <<x, last>> \in R}
<1>1. {} \in P
  OBVIOUS
<1>2. ASSUME NEW s \in SUBSET S, s # {}, \A x \in s : s \ {x} \in P
      PROVE  s \in P
  <2>1. PICK x \in s : TRUE
    BY <1>2
  <2>2. CASE s \ {x} = {}
    <3>1. \A y \in s : y = x
      BY <2>2
    <3> QED BY <2>1, <3>1
  <2>3. CASE s \ {x} # {}
    <3>1. PICK last \in s \ {x} : \A y \in s \ {x} : y = last \/ <<y, last>> \in R
      BY <1>2, <2>3
    <3>2. CASE <<x, last>> \in R
      <4>1. \A y \in s : y = last \/ <<y, last>> \in R
        BY <3>1, <3>2
      <4> QED BY <4>1
    <3>3. CASE <<last, x>> \in R
      <4>1. \A y \in s : y = x \/ <<y, x>> \in R
        BY <3>1, <3>3
      <4> QED BY <4>1
    <3> QED BY <2>1, <3>1, <3>2, <3>3
  <2> QED BY <2>2, <2>3
<1>3. S \in P
  <2> HIDE DEF P
  <2> QED BY <1>1, <1>2, SubsetInduction
<1> QED BY <1>3

LEMMA MaxOfFinite ==
  ASSUME NEW S \in SUBSET Int, IsFiniteSet(S), S # {}
  PROVE  Max(S) \in S /\ \A x \in S : Max(S) >= x
<1> DEFINE R == {p \in Int \X Int : p[1] <= p[2]}
<1>1. \A x, y \in Int : <<x, y>> \in R <=> x <= y
  OBVIOUS
<1>2. \A x \in S : x \in Int
  OBVIOUS
<1>3. \E last \in S : \A x \in S : x = last \/ <<x, last>> \in R
  <2>1. \A x, y \in S : x = y \/ <<x, y>> \in R \/ <<y, x>> \in R
    <3> SUFFICES ASSUME NEW x \in S, NEW y \in S PROVE x = y \/ <<x, y>> \in R \/ <<y, x>> \in R
      OBVIOUS
    <3>1. x \in Int /\ y \in Int /\ (x <= y \/ y <= x)
      BY <1>2
    <3> HIDE DEF R
    <3> QED BY <1>1, <3>1
  <2>2. \A x, y, w \in S : <<x, y>> \in R /\ <<y, w>> \in R => <<x, w>> \in R
    <3> HIDE DEF R
    <3> QED BY <1>1, <1>2
  <2> HIDE DEF R
  <2> QED BY <2>1, <2>2, LastExists
<1>4. \E x \in S : \A y \in S : x >= y
  <2>1. PICK last \in S : \A x \in S : x = last \/ <<x, last>> \in R
    BY <1>3
  <2>2. ASSUME NEW x \in S PROVE last >= x
    <3>1. x \in Int /\ last \in Int /\ (x = last \/ <<x, last>> \in R)
      BY <1>2, <2>1
    <3> HIDE DEF R
    <3> QED BY <1>1, <3>1
  <2> HIDE DEF R
  <2> QED BY <2>1, <2>2
<1> QED BY <1>4 DEF Max

LEMMA ExtremeIs ==
  ASSUME NEW S \in SUBSET Int, NEW m \in S
  PROVE  /\ (\A x \in S : m <= x) => Min(S) = m
         /\ (\A x \in S : m >= x) => Max(S) = m
<1>1. ASSUME \A x \in S : m <= x PROVE Min(S) = m
  <2>1. Min(S) \in S /\ \A x \in S : Min(S) <= x
    BY <1>1 DEF Min
  <2>2. m \in Int /\ Min(S) \in Int
    BY <2>1
  <2> QED BY <1>1, <2>1, <2>2
<1>2. ASSUME \A x \in S : m >= x PROVE Max(S) = m
  <2>1. Max(S) \in S /\ \A x \in S : Max(S) >= x
    BY <1>2 DEF Max
  <2>2. m \in Int /\ Max(S) \in Int
    BY <2>1
  <2> QED BY <1>2, <2>1, <2>2
<1> QED BY <1>1, <1>2

\* What a range of dates holds, by the dates of its instants.
LEMMA RangeIs ==
  ASSUME ReportsAssumption, NEW z \in Zones,
         NEW from \in Dates \cup {None}, NEW to \in Dates \cup {None}, NEW at \in Instants
  PROVE  /\ at \in Int /\ IsZone(z)
         /\ at \in beirutRange[z][from][to] <=> /\ from # None => Date(z, at) >= from
                                                /\ to # None => Date(z, at) <= to
<1>1. at \in Int /\ IsZone(z)
  BY DEF ReportsAssumption, IsZone, Instants
<1>2. ASSUME NEW date \in Dates
      PROVE  /\ Picked(date) \in Int /\ Date(z, Picked(date)) = date
             /\ at >= beirutDayStart(z, Picked(date)) <=> Date(z, at) >= date
             /\ at <= beirutDayEnd(z, Picked(date)) <=> Date(z, at) <= date
  <2>1. date \in Int /\ date + 1 \in Int
    BY DEF ReportsAssumption
  <2>2. PICK noon \in Int : noon = Picked(date)
    BY <2>1 DEF Picked
  <2>3. Date(z, noon) = date
    <3>1. /\ Date(z, noon) \in Int
          /\ Date(z, noon) >= date
          /\ ~(Date(z, noon) >= date + 1)
      BY <1>1, <2>1, <2>2, DateIs DEF Picked
    <3> QED BY <2>1, <3>1
  <2> QED BY <1>1, <2>2, <2>3, DayBegins
<1>3. at \in beirutRange[z][from][to] <=> /\ from # None => at >= beirutDayStart(z, Picked(from))
                                          /\ to # None => at <= beirutDayEnd(z, Picked(to))
  BY DEF beirutRange
<1> QED BY <1>1, <1>2, <1>3

\* The instants looked at reach past every date's day.
LEMMA InstantsAre ==
  ASSUME ReportsAssumption
  PROVE  \E last \in Int : (\A date \in Dates : date <= last) /\ Instants = 0 .. 24 * (last + 2)
<1>1. Dates \in SUBSET Int /\ IsFiniteSet(Dates) /\ Dates # {}
  BY DEF ReportsAssumption
<1>2. Max(Dates) \in Int /\ \A date \in Dates : date <= Max(Dates)
  BY <1>1, MaxOfFinite
<1> QED BY <1>2 DEF Instants

\* The day a date is, for an instant of it.
LEMMA DayIs ==
  ASSUME ReportsAssumption, NEW z \in Zones, NEW date \in Dates, NEW at \in Instants,
         Date(z, at) = date
  PROVE  LET day == {other \in Instants : Date(z, other) = date}
         IN  beirutDayStart(z, at) = Min(day) /\ beirutDayEnd(z, at) = Max(day)
<1> DEFINE day == {other \in Instants : Date(z, other) = date}
<1> PICK last \in Int : (\A d \in Dates : d <= last) /\ Instants = 0 .. 24 * (last + 2)
  BY InstantsAre
<1> PICK top \in Int : top = 24 * (last + 2)
  OBVIOUS
<1>1. Instants = 0 .. top /\ date <= last
  OBVIOUS
<1>2. IsZone(z) /\ at \in Int /\ date \in Int /\ date >= 1
  BY <1>1 DEF ReportsAssumption, IsZone
<1>3. Date(z, 0) \in Int /\ Date(z, 0) < date
  <2>1. Date(z, 0) \in Int /\ ~(Date(z, 0) >= 1)
    <3>1. 0 \in Int /\ 1 \in Int
      OBVIOUS
    <3>2. /\ beirutWallClock(z, 0) \in Int /\ beirutWallClock(z, 0) < 0 + 24
          /\ Date(z, 0) \in Int /\ (Date(z, 0) >= 1 <=> beirutWallClock(z, 0) >= 24 * 1)
      BY <1>2, <3>1, DateIs
    <3> QED BY <3>2
  <2> QED BY <1>2, <2>1
<1>4. Date(z, top) \in Int /\ Date(z, top) > date
  <2>1. beirutWallClock(z, top) >= top /\ beirutWallClock(z, top) \in Int
    BY <1>2, DateIs
  <2>2. last + 2 \in Int /\ beirutWallClock(z, top) >= 24 * (last + 2)
    BY <2>1
  <2>3. Date(z, top) \in Int /\ Date(z, top) >= last + 2
    BY <1>2, <2>2, DateIs
  <2> QED BY <1>1, <1>2, <2>3
<1> PICK start \in Int : start = beirutDayStart(z, at)
  BY <1>2, DayBegins
<1> PICK end \in Int : end = beirutDayEnd(z, at)
  BY <1>2, DayBegins
<1>5. ASSUME NEW other \in Int
      PROVE  /\ Date(z, other) \in Int
             /\ other >= start <=> Date(z, other) >= date
             /\ other <= end <=> Date(z, other) <= date
  BY <1>2, DayBegins, DateIs
<1>6. 0 < start /\ start <= at /\ at <= end /\ end < top
  <2>1. ~(0 >= start)
    BY <1>2, <1>3, <1>5
  <2>2. ~(top <= end)
    BY <1>2, <1>4, <1>5
  <2>3. start <= at /\ at <= end
    BY <1>2, <1>5
  <2> QED BY <2>1, <2>2, <2>3
<1>7. start \in day /\ end \in day
  <2>1. Date(z, start) = date /\ Date(z, end) = date
    <3>1. start <= end /\ start >= start /\ end <= end
      BY <1>2, <1>6
    <3>2. Date(z, start) >= date /\ Date(z, start) <= date /\ Date(z, start) \in Int
      BY <1>5, <1>6, <3>1
    <3>3. Date(z, end) >= date /\ Date(z, end) <= date /\ Date(z, end) \in Int
      BY <1>2, <1>5, <1>6, <3>1
    <3> QED BY <1>2, <3>2, <3>3
  <2>2. start \in Instants /\ end \in Instants
    BY <1>1, <1>2, <1>6
  <2> QED BY <2>1, <2>2
<1>8. day \in SUBSET Int /\ \A other \in day : start <= other /\ end >= other
  BY <1>1, <1>2, <1>5
<1> HIDE DEF day
<1>9. start = Min(day) /\ end = Max(day)
  BY <1>7, <1>8, ExtremeIs
<1> QED BY <1>9 DEF day

LEMMA ZoneTiles == ASSUME ReportsAssumption, NEW z \in Zones PROVE Tiles[z]
<1> SUFFICES ASSUME NEW date \in Dates
    PROVE  LET day == {at \in Instants : Date(z, at) = date}
           IN  /\ beirutRange[z][date][date] = day
               /\ \A at \in day : /\ beirutDayStart(z, at) = Min(day)
                                  /\ beirutDayEnd(z, at) = Max(day)
               /\ \A now \in day : \A at \in 0 .. now :
                    Today(z, now, at) <=> at \in day
               /\ \A at \in day, from, to \in Dates :
                    Earned(z, from, to, at) <=> from <= date /\ date <= to
  BY DEF Tiles
<1> DEFINE day == {at \in Instants : Date(z, at) = date}
<1>1. Dates \subseteq Int /\ None \notin Dates
  BY DEF ReportsAssumption
<1>2. beirutRange[z][date][date] = day
  <2>1. \A at \in Instants : at \in beirutRange[z][date][date] <=> at \in day
    <3> TAKE at \in Instants
    <3>1. IsZone(z) /\ at \in Int /\ Date(z, at) \in Int
      BY RangeIs, DateIs
    <3> QED BY <1>1, <3>1, RangeIs
  <2>2. beirutRange[z][date][date] \subseteq Instants
    BY DEF beirutRange
  <2> QED BY <2>1, <2>2
<1>3. ASSUME NEW at \in day
      PROVE  beirutDayStart(z, at) = Min(day) /\ beirutDayEnd(z, at) = Max(day)
  BY DayIs
<1>4. ASSUME NEW now \in day, NEW at \in 0 .. now
      PROVE  Today(z, now, at) <=> at \in day
  <2>1. now \in Int /\ at \in Int /\ at \in Instants /\ IsZone(z)
    <3>1. now \in Int /\ IsZone(z)
      BY RangeIs
    <3>2. PICK top \in Int : Instants = 0 .. top
      BY InstantsAre
    <3>3. now \in 0 .. top
      BY <3>2
    <3>4. at \in Int /\ at \in 0 .. top
      BY <3>1, <3>3
    <3> QED BY <3>1, <3>2, <3>4
  <2>2. Date(z, at) \in Int /\ (at >= beirutDayStart(z, now) <=> Date(z, at) >= date)
    BY <2>1, DayBegins, DateIs
  <2>3. Date(z, at) <= date
    <3>1. now <= beirutDayEnd(z, now) /\ beirutDayEnd(z, now) \in Int
      BY <1>1, <2>1, DayBegins
    <3>2. at <= beirutDayEnd(z, now)
      BY <2>1, <3>1
    <3> QED BY <2>1, <3>2, DayBegins
  <2> QED BY <1>1, <2>1, <2>2, <2>3 DEF Today
<1>5. ASSUME NEW at \in day, NEW from \in Dates, NEW to \in Dates
      PROVE  Earned(z, from, to, at) <=> from <= date /\ date <= to
  BY <1>1, RangeIs DEF Earned
<1> HIDE DEF day
<1>6. /\ beirutRange[z][date][date] = day
      /\ \A at \in day : /\ beirutDayStart(z, at) = Min(day)
                         /\ beirutDayEnd(z, at) = Max(day)
      /\ \A now \in day : \A at \in 0 .. now : Today(z, now, at) <=> at \in day
      /\ \A at \in day, from, to \in Dates : Earned(z, from, to, at) <=> from <= date /\ date <= to
  BY <1>2, <1>3, <1>4, <1>5
<1> QED BY <1>6, Zenon DEF day

-----------------------------------------------------------------------------
\* Ids and stamps are numbers.
Stamped == /\ IsFiniteSet(Orders) /\ Orders \subseteq Int /\ None \notin Orders
           /\ \A o \in Orders : createdAt[o] \in Nat

\* Rows in the order of a list, and which they are.
Ordered(rows) ==
  /\ rows \in Seq(Orders)
  /\ \A i, j \in 1 .. Len(rows) : i < j => Precedes(rows[i], rows[j])

RowsOf(rows) == {rows[i] : i \in 1 .. Len(rows)}

\* Newest first, and by id, is a total order.
LEMMA PrecedesOrders ==
  ASSUME Stamped
  PROVE  /\ \A a, b \in Orders : /\ a = b \/ Precedes(a, b) \/ Precedes(b, a)
                                 /\ ~(Precedes(a, b) /\ Precedes(b, a))
                                 /\ ~Precedes(a, a)
         /\ \A a, b, c \in Orders : Precedes(a, b) /\ Precedes(b, c) => Precedes(a, c)
<1>1. \A a \in Orders : a \in Int /\ createdAt[a] \in Int
  BY DEF Stamped
<1> QED BY <1>1 DEF Precedes

\* A sequence orderBy may return.
IsSort(sorted, S) ==
  /\ sorted \in [1 .. Cardinality(S) -> S]
  /\ \A i, j \in 1 .. Cardinality(S) :
       /\ i # j => sorted[i] # sorted[j]
       /\ i < j => ~Precedes(sorted[j], sorted[i])

LEMMA SortExists ==
  ASSUME Stamped, NEW S \in SUBSET Orders
  PROVE  \E sorted : IsSort(sorted, S)
<1> DEFINE P == {s \in SUBSET S : \E sorted : IsSort(sorted, s)}
<1>1. IsFiniteSet(S)
  BY FS_Subset DEF Stamped
<1>2. {} \in P
  <2> DEFINE none == [i \in 1 .. 0 |-> 0]
  <2>1. IsSort(none, {})
    <3>1. Cardinality({}) = 0
      BY FS_EmptySet
    <3> QED BY <3>1 DEF IsSort
  <2> QED BY <2>1
<1>3. ASSUME NEW s \in SUBSET S, s # {}, \A x \in s : s \ {x} \in P
      PROVE  s \in P
  <2> DEFINE R == {p \in Orders \X Orders : Precedes(p[1], p[2])}
  <2>1. \A a, b \in Orders : <<a, b>> \in R <=> Precedes(a, b)
    OBVIOUS
  <2>2. PICK last \in s : \A x \in s : x = last \/ <<x, last>> \in R
    <3>1. IsFiniteSet(s) /\ s \subseteq Orders
      BY <1>1, FS_Subset
    <3> HIDE DEF R
    <3>2. \A x, y \in s : x = y \/ <<x, y>> \in R \/ <<y, x>> \in R
      BY <2>1, <3>1, PrecedesOrders
    <3>3. \A x, y, w \in s : <<x, y>> \in R /\ <<y, w>> \in R => <<x, w>> \in R
      BY <2>1, <3>1, PrecedesOrders
    <3> QED BY <1>3, <3>1, <3>2, <3>3, LastExists
  <2> PICK rest : rest = s \ {last}
    OBVIOUS
  <2>3. PICK sorted : IsSort(sorted, rest)
    BY <1>3, <2>2
  <2> PICK n \in Nat : n = Cardinality(s) /\ Cardinality(rest) = n - 1 /\ n # 0
    <3>1. IsFiniteSet(s) /\ Cardinality(s) \in Nat
      BY <1>1, FS_Subset, FS_CardinalityType
    <3> QED BY <1>3, <3>1, FS_RemoveElement, FS_EmptySet
  <2>4. /\ sorted \in [1 .. n - 1 -> rest]
        /\ \A i, j \in 1 .. n - 1 : /\ i # j => sorted[i] # sorted[j]
                                    /\ i < j => ~Precedes(sorted[j], sorted[i])
    BY <2>3 DEF IsSort
  <2> DEFINE longer == [i \in 1 .. n |-> IF i = n THEN last ELSE sorted[i]]
  <2>5. ASSUME NEW i \in 1 .. n
        PROVE  longer[i] \in s /\ (i = n => longer[i] = last)
               /\ (i # n => longer[i] = sorted[i] /\ longer[i] \in rest /\ i \in 1 .. n - 1)
    BY <2>4
  <2>6. \A x \in rest : ~Precedes(last, x) /\ x # last
    <3> TAKE x \in rest
    <3>1. Precedes(x, last) /\ x \in Orders /\ last \in Orders
      <4>1. <<x, last>> \in R /\ x # last
        BY <2>2
      <4> HIDE DEF R
      <4> QED BY <2>1, <4>1
    <3> QED BY <3>1, PrecedesOrders
  <2>7. longer \in [1 .. n -> s]
    <3>1. \A i \in 1 .. n : longer[i] \in s
      BY <2>5
    <3> QED BY <3>1
  <2>8. ASSUME NEW i \in 1 .. n, NEW j \in 1 .. n
        PROVE  /\ i # j => longer[i] # longer[j]
               /\ i < j => ~Precedes(longer[j], longer[i])
    <3>1. CASE i # n /\ j # n
      <4> HIDE DEF longer
      <4> QED BY <2>4, <2>5, <3>1
    <3>2. CASE i = n \/ j = n
      <4> HIDE DEF longer
      <4> QED BY <2>5, <2>6, <3>2
    <3> QED BY <3>1, <3>2
  <2>9. IsSort(longer, s)
    <3> HIDE DEF longer
    <3> QED BY <2>7, <2>8 DEF IsSort
  <2> QED BY <2>9
<1>4. S \in P
  <2> HIDE DEF P
  <2> QED BY <1>1, <1>2, <1>3, SubsetInduction
<1> QED BY <1>4

\* orderBy returns the rows, each once, in order.
LEMMA OrderByIs ==
  ASSUME Stamped, NEW S \in SUBSET Orders
  PROVE  Ordered(OrderBy(S)) /\ RowsOf(OrderBy(S)) = S
<1>1. PICK sorted : sorted = OrderBy(S)
  OBVIOUS
<1>2. IsSort(sorted, S)
  <2>1. \A s : IsSort(s, S) <=> /\ s \in SetToSeqs(S)
                                /\ \A i, j \in DOMAIN s : i < j => ~Precedes(s[j], s[i])
    BY DEF IsSort, SetToSeqs
  <2>2. \E s : IsSort(s, S)
    BY SortExists
  <2> QED BY <1>1, <2>1, <2>2 DEF OrderBy
<1>3. IsFiniteSet(S)
  BY FS_Subset DEF Stamped
<1> PICK n \in Nat : n = Cardinality(S)
  BY <1>3, FS_CardinalityType
<1>4. sorted \in [1 .. n -> S] /\ sorted \in Seq(Orders) /\ Len(sorted) = n
  <2>1. sorted \in [1 .. n -> S]
    BY <1>2 DEF IsSort
  <2> QED BY <2>1
<1>5. \A i, j \in 1 .. n : /\ i # j => sorted[i] # sorted[j]
                           /\ i < j => ~Precedes(sorted[j], sorted[i])
  BY <1>2 DEF IsSort
<1>6. ASSUME NEW i \in 1 .. n, NEW j \in 1 .. n, i < j
      PROVE  Precedes(sorted[i], sorted[j])
  <2>1. sorted[i] \in Orders /\ sorted[j] \in Orders
        /\ sorted[i] # sorted[j] /\ ~Precedes(sorted[j], sorted[i])
    BY <1>4, <1>5, <1>6
  <2> QED BY <2>1, PrecedesOrders
<1>7. ASSUME NEW o \in S, \A i \in 1 .. n : sorted[i] # o
      PROVE  FALSE
  <2>1. sorted \in [1 .. n -> S \ {o}]
    BY <1>4, <1>7
  <2>2. IsFiniteSet(S \ {o}) /\ Cardinality(S \ {o}) = n - 1
    BY <1>3, FS_RemoveElement
  <2>3. IsFiniteSet(1 .. n) /\ Cardinality(1 .. n) = n
    BY FS_Interval
  <2>4. n - 1 < n
    OBVIOUS
  <2>5. \E i, j \in 1 .. n : i # j /\ sorted[i] = sorted[j]
    BY <2>1, <2>2, <2>3, <2>4, FS_PigeonHole
  <2> QED BY <1>5, <2>5
<1>8. RowsOf(sorted) = S
  BY <1>4, <1>7 DEF RowsOf
<1> QED BY <1>1, <1>4, <1>6, <1>8 DEF Ordered

-----------------------------------------------------------------------------
\* What lies behind a cursor.
Ahead(cursor, o) == cursor # None => Precedes(cursor, o)

\* A page of the orders in M: what of M lies behind the cursor is on it, or
\* behind it when there is "more", but for one when the cursor has left M.
IsPage(data, M, cursor, more) ==
  /\ Ordered(data)
  /\ \A o \in RowsOf(data) : o \in M /\ Ahead(cursor, o)
  /\ \E lost \in SUBSET Orders :
       /\ \A x, y \in lost : x = y
       /\ cursor = None \/ cursor \in M => lost = {}
       /\ \A o \in M : Ahead(cursor, o) =>
            \/ o \in lost \/ o \in RowsOf(data)
            \/ more /\ \A x \in RowsOf(data) : Precedes(x, o)

LEMMA MinOfBoth ==
  ASSUME NEW a \in Int, NEW b \in Int
  PROVE  Min({a, b}) = IF a <= b THEN a ELSE b
<1>1. Min({a, b}) \in {a, b} /\ \A x \in {a, b} : Min({a, b}) <= x
  BY MinOfSome
<1> QED BY <1>1

\* A part of the rows in order is in order.
LEMMA PartOrdered ==
  ASSUME NEW rows, Ordered(rows), NEW m \in Nat \ {0}, NEW n \in 0 .. Len(rows)
  PROVE  /\ Ordered(SubSeq(rows, m, n))
         /\ Len(SubSeq(rows, m, n)) = IF m <= n THEN n - m + 1 ELSE 0
         /\ \A i \in 1 .. Len(SubSeq(rows, m, n)) :
              SubSeq(rows, m, n)[i] = rows[m + i - 1] /\ m + i - 1 \in 1 .. n
<1>1. rows \in Seq(Orders) /\ Len(rows) \in Nat /\ m \in Int /\ n \in Int
      /\ \A i \in 1 .. Len(rows) : rows[i] \in Orders
  BY DEF Ordered
<1>2. \A i \in m .. n : rows[i] \in Orders
  BY <1>1
<1> PICK part : part = SubSeq(rows, m, n)
  OBVIOUS
<1>3. /\ part \in Seq(Orders)
      /\ Len(part) = IF m <= n THEN n - m + 1 ELSE 0
      /\ \A i \in 1 .. n - m + 1 : part[i] = rows[m + i - 1]
  BY <1>1, <1>2, SubSeqProperties
<1>4. \A i \in 1 .. Len(part) : part[i] = rows[m + i - 1] /\ m + i - 1 \in 1 .. n
  BY <1>1, <1>3
<1>5. ASSUME NEW i \in 1 .. Len(part), NEW j \in 1 .. Len(part), i < j
      PROVE  Precedes(part[i], part[j])
  <2>1. /\ m + i - 1 \in 1 .. Len(rows) /\ m + j - 1 \in 1 .. Len(rows)
        /\ m + i - 1 < m + j - 1
    BY <1>1, <1>4, <1>5
  <2> QED BY <1>4, <2>1 DEF Ordered
<1> QED BY <1>3, <1>4, <1>5 DEF Ordered

\* The rows of M from the cursor's on.
FromCursor(rows, M, cursor) ==
  \A o \in Orders : o \in RowsOf(rows) <=> o \in M /\ (cursor # None => ~Precedes(o, cursor))

\* "take" of them after the first "skip", which is the cursor's row.
IsWindow(rows, M, cursor, take, skip, stop) ==
  /\ Ordered(rows) /\ FromCursor(rows, M, cursor)
  /\ skip \in Nat /\ stop \in Nat
  /\ IF cursor = None THEN skip = 0 ELSE skip = 1
  /\ IF Len(rows) <= skip + take THEN stop = Len(rows) ELSE stop = skip + take

\* What the window holds.
LEMMA WindowIs ==
  ASSUME Stamped, NEW M \in SUBSET Orders, NEW cursor \in Orders \cup {None}, NEW rows,
         NEW take \in Nat \ {0}, NEW skip, NEW stop, IsWindow(rows, M, cursor, take, skip, stop),
         NEW data, data = SubSeq(rows, skip + 1, stop),
         NEW more \in BOOLEAN, Len(data) = take => more
  PROVE  Len(data) <= take /\ IsPage(data, M, cursor, more)
<1> PICK n \in Nat : n = Len(rows)
  BY DEF IsWindow, Ordered
<1>a. /\ Ordered(rows) /\ FromCursor(rows, M, cursor)
      /\ skip \in Nat /\ stop \in Nat /\ stop <= n
      /\ cursor = None => skip = 0
      /\ cursor # None => skip = 1
      /\ n <= skip + take => stop = n
      /\ ~(n <= skip + take) => stop = skip + take
  BY DEF IsWindow
<1> PICK size \in Nat : size = Len(data)
  <2>1. skip + 1 \in Nat \ {0} /\ stop \in 0 .. Len(rows)
    BY <1>a
  <2>2. data \in Seq(Orders)
    BY <1>a, <2>1, PartOrdered DEF Ordered
  <2>3. Len(data) \in Nat
    BY <1>a, <2>2, LenProperties, Zenon
  <2> QED BY <1>a, <2>3, Zenon
<1>1. /\ Ordered(data)
      /\ skip + 1 <= stop => size = stop - skip
      /\ ~(skip + 1 <= stop) => size = 0
      /\ \A i \in 1 .. size : data[i] = rows[skip + i] /\ skip + i \in 1 .. stop
  <2>1. skip + 1 \in Nat \ {0} /\ stop \in 0 .. Len(rows)
    BY <1>a
  <2>2. stop - (skip + 1) + 1 = stop - skip /\ \A i \in Nat : skip + 1 + i - 1 = skip + i
    BY <1>a
  <2>3. size = IF skip + 1 <= stop THEN stop - (skip + 1) + 1 ELSE 0
    BY <1>a, <2>1, PartOrdered
  <2>4. \A i \in 1 .. size : data[i] = rows[skip + 1 + i - 1] /\ skip + 1 + i - 1 \in 1 .. stop
    BY <1>a, <2>1, PartOrdered
  <2>5. Ordered(data)
    BY <1>a, <2>1, PartOrdered
  <2> QED BY <1>a, <2>2, <2>3, <2>4, <2>5
<1>2. /\ \A i \in 1 .. n : rows[i] \in Orders /\ rows[i] \in RowsOf(rows)
      /\ \A o \in RowsOf(rows) : \E i \in 1 .. n : rows[i] = o
      /\ \A i, j \in 1 .. n : i < j => Precedes(rows[i], rows[j])
      /\ \A o \in Orders : o \in RowsOf(rows) <=> o \in M /\ (cursor # None => ~Precedes(o, cursor))
  <2>1. \A i \in 1 .. n : rows[i] \in Orders
    BY <1>a DEF Ordered
  <2> QED BY <1>a, <2>1 DEF RowsOf, Ordered, FromCursor
<1>3. \A i \in 1 .. n : rows[i] \in M /\ (cursor # None => ~Precedes(rows[i], cursor))
  BY <1>a, <1>2
<1>4. \A o \in M : (cursor # None => ~Precedes(o, cursor)) => \E i \in 1 .. n : rows[i] = o
  BY <1>a, <1>2
<1>5. ASSUME NEW i \in 1 .. size
      PROVE  data[i] \in M /\ Ahead(cursor, data[i])
  <2>1. skip + i \in 1 .. n /\ data[i] = rows[skip + i]
    BY <1>a, <1>1
  <2>2. data[i] \in M /\ (cursor # None => ~Precedes(data[i], cursor))
    BY <1>a, <1>3, <2>1
  <2>3. ASSUME cursor # None PROVE Precedes(cursor, data[i])
    <3>1. 1 \in 1 .. n /\ 1 < skip + i
      BY <1>a, <2>1, <2>3
    <3>2. Precedes(rows[1], data[i]) /\ rows[1] \in M /\ ~Precedes(rows[1], cursor)
      BY <1>a, <1>2, <1>3, <2>1, <2>3, <3>1
    <3> QED BY <1>a, <2>2, <2>3, <3>2, PrecedesOrders
  <2> QED BY <1>a, <2>2, <2>3 DEF Ahead
<1> DEFINE lost == IF cursor # None /\ n # 0 THEN {rows[1]} \ {cursor} ELSE {}
<1>6. \A o \in lost : o \in Orders /\ cursor # None /\ n # 0 /\ o = rows[1] /\ o # cursor
  <2>1. n # 0 => 1 \in 1 .. n
    OBVIOUS
  <2> QED BY <1>a, <1>2, <2>1
<1>7. ASSUME cursor \in M, NEW o \in lost PROVE FALSE
  <2>1. PICK i \in 1 .. n : rows[i] = cursor
    BY <1>a, <1>4, <1>7, PrecedesOrders
  <2>2. i # 1 /\ 1 \in 1 .. n /\ 1 < i
    BY <1>a, <1>6, <2>1
  <2>3. Precedes(rows[1], cursor) /\ ~Precedes(rows[1], cursor)
    BY <1>a, <1>2, <1>3, <1>6, <2>1, <2>2
  <2> QED BY <1>a, <2>3
<1>8. ASSUME NEW o \in M, Ahead(cursor, o)
      PROVE  \/ o \in lost \/ o \in RowsOf(data)
             \/ more /\ \A x \in RowsOf(data) : Precedes(x, o)
  <2>1. (cursor # None => ~Precedes(o, cursor)) /\ o # cursor
    BY <1>a, <1>8, PrecedesOrders DEF Ahead, Stamped
  <2>2. PICK i \in 1 .. n : rows[i] = o
    BY <1>a, <1>4, <2>1
  <2>3. CASE i <= skip
    <3>1. cursor # None /\ n # 0 /\ i = 1
      BY <1>a, <2>3
    <3> QED BY <1>a, <2>1, <2>2, <3>1
  <2>4. CASE i > skip /\ i <= stop
    <3>1. i - skip \in 1 .. size
      BY <1>a, <1>1, <2>4
    <3>2. skip + (i - skip) = i
      BY <1>a
    <3>3. data[i - skip] = o
      BY <1>a, <1>1, <2>2, <3>1, <3>2
    <3> QED BY <1>a, <3>1, <3>3 DEF RowsOf
  <2>5. CASE i > stop
    <3>1. stop = skip + take /\ size = take
      BY <1>a, <1>1, <2>5
    <3>2. ASSUME NEW j \in 1 .. size PROVE Precedes(data[j], o)
      <4>1. data[j] = rows[skip + j] /\ skip + j \in 1 .. n /\ skip + j < i
        BY <1>a, <1>1, <2>5
      <4> QED BY <1>a, <1>2, <2>2, <4>1
    <3>3. \A x \in RowsOf(data) : Precedes(x, o)
      BY <1>a, <3>2 DEF RowsOf
    <3> QED BY <1>a, <3>1, <3>3
  <2> QED BY <1>a, <2>3, <2>4, <2>5
<1>9. IsPage(data, M, cursor, more)
  <2>1. \A o \in RowsOf(data) : o \in M /\ Ahead(cursor, o)
    BY <1>a, <1>5 DEF RowsOf
  <2> HIDE DEF lost
  <2>2. lost \in SUBSET Orders /\ \A x, y \in lost : x = y
    BY <1>a, <1>6
  <2>3. cursor = None \/ cursor \in M => lost = {}
    BY <1>a, <1>6, <1>7
  <2> QED BY <1>a, <1>1, <1>8, <2>1, <2>2, <2>3 DEF IsPage
<1>10. size <= take
  BY <1>a, <1>1
<1> QED BY <1>a, <1>9, <1>10

LEMMA FindManyIs ==
  ASSUME Stamped, NEW reader, NEW f, NEW cursor \in Orders \cup {None}, NEW take \in Nat \ {0},
         NEW data, data = findMany(reader, f, cursor, take),
         NEW more \in BOOLEAN, Len(data) = take => more
  PROVE  Len(data) <= take /\ IsPage(data, Matching(reader, f), cursor, more)
<1> PICK M \in SUBSET Orders : M = Matching(reader, f)
  BY DEF Matching
<1> DEFINE from == {o \in M : cursor # None => ~Precedes(o, cursor)}
<1> PICK rows : rows = OrderBy(from)
  OBVIOUS
<1>1. Ordered(rows) /\ RowsOf(rows) = from
  <2>1. from \in SUBSET Orders
    OBVIOUS
  <2> HIDE DEF from
  <2> QED BY <2>1, OrderByIs
<1>2. FromCursor(rows, M, cursor)
  BY <1>1 DEF FromCursor
<1>3. data = LET skip == IF cursor = None THEN 0 ELSE 1
             IN  SubSeq(rows, skip + 1, Min({Len(rows), skip + take}))
  BY DEF findMany
<1> HIDE DEF from
<1> PICK n \in Nat : n = Len(rows)
  BY <1>1 DEF Ordered
<1> PICK skip \in Nat : skip = IF cursor = None THEN 0 ELSE 1
  OBVIOUS
<1> PICK end \in Nat : end = skip + take
  OBVIOUS
<1> PICK stop \in Nat : stop = IF n <= end THEN n ELSE end
  OBVIOUS
<1>4. data = SubSeq(rows, skip + 1, stop)
  <2>1. n \in Int /\ end \in Int
    OBVIOUS
  <2>2. Min({n, end}) = stop
    BY <2>1, MinOfBoth
  <2> QED BY <1>3, <2>2
<1>5. IsWindow(rows, M, cursor, take, skip, stop)
  BY <1>1, <1>2 DEF IsWindow
<1>6. Len(data) <= take /\ IsPage(data, M, cursor, more)
  <2>1. /\ Stamped /\ M \in SUBSET Orders /\ cursor \in Orders \cup {None} /\ take \in Nat \ {0}
        /\ more \in BOOLEAN /\ (Len(data) = take => more)
    OBVIOUS
  <2> QED BY ONLY <1>4, <1>5, <2>1, WindowIs, Zenon
<1> QED BY <1>6

\* A screen's page: one row more than it shows tells whether there is a next.
LEMMA CursorResultIs ==
  ASSUME ReportsAssumption, Stamped, NEW M \in SUBSET Orders, NEW cursor, NEW rows,
         Len(rows) <= Limit + 1,
         NEW full \in BOOLEAN, full <=> Len(rows) = Limit + 1, IsPage(rows, M, cursor, full)
  PROVE  \E data, next :
           /\ cursorResult(rows) = [data |-> data, nextCursor |-> next]
           /\ IsPage(data, M, cursor, full)
           /\ IF full THEN data # <<>> /\ next = data[Len(data)] /\ next \in Orders ELSE next = None
<1> PICK n \in Nat : n = Len(rows)
  BY DEF IsPage, Ordered
<1> PICK limit \in Nat \ {0} : limit = Limit
  BY DEF ReportsAssumption
<1> PICK stop \in Nat : stop = IF n <= limit THEN n ELSE limit
  OBVIOUS
<1> PICK data : data = SubSeq(rows, 1, stop)
  OBVIOUS
<1> PICK next : next = IF n > limit THEN data[Len(data)] ELSE None
  OBVIOUS
<1>1. cursorResult(rows) = [data |-> data, nextCursor |-> next]
  <2>1. n \in Int /\ limit \in Int
    OBVIOUS
  <2>2. Min({n, limit}) = stop
    BY <2>1, MinOfBoth
  <2>3. cursorResult(rows) =
          LET items == SubSeq(rows, 1, Min({n, limit}))
          IN  [data |-> items, nextCursor |-> IF n > limit THEN items[Len(items)] ELSE None]
    BY DEF cursorResult, Last
  <2> QED BY <2>2, <2>3
<1>2. Ordered(rows) /\ Ordered(data) /\ Len(data) = stop /\ \A i \in 1 .. stop : data[i] = rows[i]
  <2>1. Ordered(rows) /\ 1 \in Nat \ {0} /\ stop \in 0 .. Len(rows)
    BY DEF IsPage
  <2>2. /\ Ordered(data) /\ Len(data) = IF 1 <= stop THEN stop - 1 + 1 ELSE 0
        /\ \A i \in 1 .. Len(data) : data[i] = rows[1 + i - 1]
    BY <2>1, PartOrdered
  <2> QED BY <2>1, <2>2
<1>3. data \in Seq(Orders) /\ \A i \in 1 .. n : rows[i] \in Orders
  BY <1>2 DEF Ordered
<1>4. RowsOf(data) \subseteq RowsOf(rows)
  BY <1>2 DEF RowsOf
<1>5. CASE n <= limit
  <2>1. data = rows /\ ~full
    <3>1. stop = n /\ rows \in Seq(Orders)
      BY <1>2, <1>5 DEF Ordered
    <3> QED BY <1>5, <3>1, SubSeqFull
  <2>2. next = None /\ IsPage(data, M, cursor, full)
    <3>1. next = None
      BY <1>5
    <3>2. IsPage(data, M, cursor, full)
      BY <2>1, Zenon
    <3> QED BY <3>1, <3>2
  <2> QED BY <1>1, <2>1, <2>2, Zenon
<1>6. CASE n > limit
  <2>1. n = limit + 1 /\ stop = limit /\ full
    BY <1>6
  <2>2. data # <<>> /\ next = data[Len(data)] /\ next \in Orders
    <3>1. Len(data) = limit /\ limit \in 1 .. limit /\ next = data[limit]
      BY <1>2, <1>6, <2>1
    <3>2. data # <<>>
      BY <3>1, EmptySeq
    <3>3. data[limit] \in Orders
      BY <1>3, <3>1, ElementOfSeq
    <3> QED BY <3>1, <3>2, <3>3
  <2>3. PICK lost \in SUBSET Orders :
          /\ \A x, y \in lost : x = y
          /\ cursor = None \/ cursor \in M => lost = {}
          /\ \A o \in M : Ahead(cursor, o) =>
               \/ o \in lost \/ o \in RowsOf(rows)
               \/ full /\ \A x \in RowsOf(rows) : Precedes(x, o)
    BY DEF IsPage
  <2>4. ASSUME NEW o \in M, Ahead(cursor, o), o \notin lost, o \notin RowsOf(data),
               NEW x \in RowsOf(data)
        PROVE  Precedes(x, o)
    <3>1. PICK i \in 1 .. stop : x = rows[i]
      BY <1>2 DEF RowsOf
    <3>2. CASE o \in RowsOf(rows)
      <4>1. PICK j \in 1 .. n : o = rows[j]
        BY <3>2 DEF RowsOf
      <4>2. j > stop
        <5>1. SUFFICES ASSUME j \in 1 .. stop PROVE FALSE
          BY <4>1
        <5> QED BY <1>2, <2>4, <4>1, <5>1 DEF RowsOf
      <4> QED BY <1>2, <3>1, <4>1, <4>2 DEF Ordered
    <3>3. CASE o \notin RowsOf(rows)
      <4>1. x \in RowsOf(rows)
        BY <1>4
      <4> QED BY <2>3, <2>4, <3>3, <4>1
    <3> QED BY <3>2, <3>3
  <2>5. IsPage(data, M, cursor, full)
    <3>1. \A o \in RowsOf(data) : o \in M /\ Ahead(cursor, o)
      BY <1>4 DEF IsPage
    <3>2. \A o \in M : Ahead(cursor, o) =>
            \/ o \in lost \/ o \in RowsOf(data)
            \/ full /\ \A x \in RowsOf(data) : Precedes(x, o)
      BY <2>1, <2>4
    <3> QED BY <1>2, <2>3, <3>1, <3>2 DEF IsPage
  <2> QED BY <1>1, <2>1, <2>2, <2>5
<1> QED BY <1>5, <1>6

-----------------------------------------------------------------------------
Readers == Screens \cup {"csv"}

Walks == [reader : Readers, filter : UNION {Offered(reader) : reader \in Readers},
          target : Nat, pages : Nat, rows : Seq(Orders), cursor : Orders \cup {None},
          done : BOOLEAN, truncated : BOOLEAN,
          steady : SUBSET Orders, orphans : Nat, still : BOOLEAN]

\* What a walk is past and does not show although it belonged there all along.
Behind(w, o) == \/ w.done /\ ~w.truncated
                \/ \E i \in 1 .. Len(w.rows) : Precedes(o, w.rows[i])
Missed(w) == {o \in w.steady : Behind(w, o) /\ o \notin RowsOf(w.rows)}

\* What has been read of the orders in M: rows in order, up to the cursor, with
\* no more of them missed than cursors have left M.
ReadInv(w, M) ==
  /\ Ordered(w.rows)
  /\ ~w.done => IF w.rows = <<>> THEN w.cursor = None ELSE w.cursor = w.rows[Len(w.rows)]
  /\ w.steady \subseteq M
  /\ Cardinality(Missed(w)) <= w.orphans
  /\ w.still => w.steady = M /\ w.orphans = 0 /\ RowsOf(w.rows) \subseteq M

\* The rows of a list and of the page after it.
LEMMA Joined ==
  ASSUME Stamped, NEW rows, Ordered(rows), NEW data, Ordered(data),
         NEW cursor, IF rows = <<>> THEN cursor = None ELSE cursor = rows[Len(rows)],
         \A o \in RowsOf(data) : Ahead(cursor, o)
  PROVE  /\ Ordered(rows \o data)
         /\ RowsOf(rows \o data) = RowsOf(rows) \cup RowsOf(data)
         /\ \A o \in RowsOf(rows) : cursor \in Orders /\ (o = cursor \/ Precedes(o, cursor))
         /\ rows # <<>> => cursor \in RowsOf(rows)
<1> PICK m \in Nat : m = Len(rows)
  <2>1. Len(rows) \in Nat
    BY LenProperties, Zenon DEF Ordered
  <2> QED BY <2>1, Zenon
<1> PICK n \in Nat : n = Len(data)
  <2>1. Len(data) \in Nat
    BY LenProperties, Zenon DEF Ordered
  <2> QED BY <2>1, Zenon
<1>1. /\ \A i \in 1 .. m : rows[i] \in Orders
      /\ \A i \in 1 .. n : data[i] \in Orders
      /\ \A i, j \in 1 .. m : i < j => Precedes(rows[i], rows[j])
      /\ \A i, j \in 1 .. n : i < j => Precedes(data[i], data[j])
  BY ElementOfSeq DEF Ordered
<1>2. rows = <<>> <=> m = 0
  BY EmptySeq DEF Ordered
<1>3. m # 0 => cursor = rows[m] /\ m \in 1 .. m
  BY <1>2
<1>4. ASSUME NEW i \in 1 .. m
      PROVE  cursor \in Orders /\ (rows[i] = cursor \/ Precedes(rows[i], cursor))
  <2>1. m # 0 /\ (i = m \/ i < m)
    OBVIOUS
  <2> QED BY <1>1, <1>3, <2>1
<1>5. ASSUME NEW i \in 1 .. m, NEW j \in 1 .. n PROVE Precedes(rows[i], data[j])
  <2>1. Precedes(cursor, data[j])
    <3>1. cursor # None
      BY <1>4 DEF Stamped
    <3> QED BY <3>1 DEF Ahead, RowsOf
  <2> QED BY <1>1, <1>4, <2>1, PrecedesOrders
<1> PICK both : both = rows \o data
  OBVIOUS
<1>6. /\ both \in Seq(Orders) /\ Len(both) = m + n
      /\ \A i \in 1 .. m : both[i] = rows[i]
      /\ \A i \in 1 .. n : both[m + i] = data[i]
      /\ \A i \in 1 .. m + n : i \in 1 .. m \/ (\E j \in 1 .. n : i = m + j)
  <2>1. /\ both \in Seq(Orders) /\ Len(both) = m + n
        /\ \A i \in 1 .. m + n : both[i] = IF i <= m THEN rows[i] ELSE data[i - m]
    BY ConcatProperties DEF Ordered
  <2>2. ASSUME NEW i \in 1 .. n PROVE both[m + i] = data[i]
    <3>1. m + i \in 1 .. m + n /\ ~(m + i <= m) /\ (m + i) - m = i
      OBVIOUS
    <3> QED BY <2>1, <3>1
  <2>3. ASSUME NEW i \in 1 .. m + n, i \notin 1 .. m PROVE \E j \in 1 .. n : i = m + j
    <3>1. i - m \in 1 .. n /\ i = m + (i - m)
      BY <2>3
    <3> QED BY <3>1
  <2> QED BY <2>1, <2>2, <2>3
<1>7. ASSUME NEW i \in 1 .. m + n, NEW j \in 1 .. m + n, i < j
      PROVE  Precedes(both[i], both[j])
  <2>1. CASE i \in 1 .. m /\ j \in 1 .. m
    BY <1>1, <1>6, <1>7, <2>1
  <2>2. CASE i \in 1 .. m /\ (\E k \in 1 .. n : j = m + k)
    BY <1>5, <1>6, <2>2
  <2>3. CASE (\E k \in 1 .. n : i = m + k) /\ (\E k \in 1 .. n : j = m + k)
    <3>1. PICK k \in 1 .. n : i = m + k
      BY <2>3
    <3>2. PICK l \in 1 .. n : j = m + l
      BY <2>3
    <3>3. k < l
      BY <1>7, <3>1, <3>2
    <3> QED BY <1>1, <1>6, <3>1, <3>2, <3>3
  <2>4. CASE (\E k \in 1 .. n : i = m + k) /\ j \in 1 .. m
    BY <1>7, <2>4
  <2> QED BY <1>6, <2>1, <2>2, <2>3, <2>4
<1>8. RowsOf(both) = RowsOf(rows) \cup RowsOf(data)
  <2>1. ASSUME NEW o \in RowsOf(both) PROVE o \in RowsOf(rows) \cup RowsOf(data)
    <3>1. PICK i \in 1 .. m + n : o = both[i]
      BY <1>6 DEF RowsOf
    <3>2. CASE i \in 1 .. m
      <4>1. o = rows[i]
        BY <1>6, <3>1, <3>2
      <4> QED BY <3>2, <4>1 DEF RowsOf
    <3>3. CASE \E j \in 1 .. n : i = m + j
      <4>1. PICK j \in 1 .. n : i = m + j
        BY <3>3
      <4>2. o = data[j]
        BY <1>6, <3>1, <4>1
      <4> QED BY <4>2 DEF RowsOf
    <3> QED BY <1>6, <3>2, <3>3
  <2>2. ASSUME NEW o \in RowsOf(rows) PROVE o \in RowsOf(both)
    <3>1. PICK i \in 1 .. m : o = rows[i]
      BY DEF RowsOf
    <3>2. i \in 1 .. m + n
      OBVIOUS
    <3> QED BY <1>6, <3>1, <3>2 DEF RowsOf
  <2>3. ASSUME NEW o \in RowsOf(data) PROVE o \in RowsOf(both)
    <3>1. PICK i \in 1 .. n : o = data[i]
      BY DEF RowsOf
    <3>2. m + i \in 1 .. m + n
      OBVIOUS
    <3> QED BY <1>6, <3>1, <3>2 DEF RowsOf
  <2> QED BY <2>1, <2>2, <2>3
<1>9. \A o \in RowsOf(rows) : cursor \in Orders /\ (o = cursor \/ Precedes(o, cursor))
  BY <1>4 DEF RowsOf
<1>10. rows # <<>> => cursor \in RowsOf(rows)
  BY <1>2, <1>3 DEF RowsOf
<1> QED BY <1>6, <1>7, <1>8, <1>9, <1>10 DEF Ordered

\* Reading a page keeps to that.
LEMMA TurnKeeps ==
  ASSUME Stamped, NEW M \in SUBSET Orders, NEW w \in Walks, ReadInv(w, M), ~w.done,
         NEW data, NEW more \in BOOLEAN, IsPage(data, M, w.cursor, more),
         NEW next \in Walks, next.rows = w.rows \o data,
         next.steady = w.steady, next.still = w.still,
         next.orphans = w.orphans + (IF w.cursor # None /\ w.cursor \notin M THEN 1 ELSE 0),
         ~next.done => IF next.rows = <<>> THEN next.cursor = None
                       ELSE next.cursor = next.rows[Len(next.rows)],
         next.done /\ ~next.truncated => ~more
  PROVE  ReadInv(next, M)
<1> PICK rows : rows = w.rows
  OBVIOUS
<1> PICK cursor : cursor = w.cursor
  OBVIOUS
<1> PICK steady \in SUBSET M : steady = w.steady
  BY DEF ReadInv
<1> PICK orphans \in Nat : orphans = w.orphans
  BY DEF Walks
<1>1. Ordered(rows) /\ IF rows = <<>> THEN cursor = None ELSE cursor = rows[Len(rows)]
  BY DEF ReadInv
<1>2. Ordered(data) /\ \A o \in RowsOf(data) : o \in M /\ Ahead(cursor, o)
  BY DEF IsPage
<1>3. /\ Ordered(next.rows)
      /\ RowsOf(next.rows) = RowsOf(rows) \cup RowsOf(data)
      /\ \A o \in RowsOf(rows) : cursor \in Orders /\ (o = cursor \/ Precedes(o, cursor))
      /\ rows # <<>> => cursor \in RowsOf(rows)
  BY <1>1, <1>2, Joined
<1> PICK lost \in SUBSET Orders :
      /\ \A x, y \in lost : x = y
      /\ cursor = None \/ cursor \in M => lost = {}
      /\ \A o \in M : Ahead(cursor, o) =>
           \/ o \in lost \/ o \in RowsOf(data)
           \/ more /\ \A x \in RowsOf(data) : Precedes(x, o)
  BY DEF IsPage
<1>4. ASSUME NEW o \in Missed(next) PROVE o \in Missed(w) \cup lost
  <2>1. o \in steady /\ o \in M /\ o \in Orders /\ o \notin RowsOf(rows)
        /\ o \notin RowsOf(data) /\ Behind(next, o)
    BY <1>3 DEF Missed
  <2>2. (next.done /\ ~next.truncated) \/ \E x \in RowsOf(next.rows) : Precedes(o, x)
    BY <2>1 DEF Behind, RowsOf
  <2>3. CASE Ahead(cursor, o)
    <3> SUFFICES ASSUME more /\ \A x \in RowsOf(data) : Precedes(x, o) PROVE FALSE
      BY <2>1, <2>3
    <3>1. PICK x \in RowsOf(rows) \cup RowsOf(data) : Precedes(o, x)
      BY <1>3, <2>2
    <3>2. CASE x \in RowsOf(data)
      <4>1. Precedes(x, o) /\ x \in Orders
        BY <1>2, <3>2
      <4> QED BY <2>1, <3>1, <4>1, PrecedesOrders
    <3>3. CASE x \in RowsOf(rows)
      <4>1. cursor \in Orders /\ (x = cursor \/ Precedes(x, cursor))
            /\ cursor # None /\ Precedes(cursor, o)
        BY <1>3, <2>3, <3>3 DEF Ahead, Stamped
      <4>2. x \in Orders
        BY <1>1, <3>3, ElementOfSeq DEF Ordered, RowsOf
      <4> QED BY <2>1, <3>1, <4>1, <4>2, PrecedesOrders
    <3> QED BY <3>1, <3>2, <3>3
  <2>4. CASE ~Ahead(cursor, o)
    <3>1. cursor # None /\ ~Precedes(cursor, o)
      BY <2>4 DEF Ahead
    <3>2. rows # <<>> /\ cursor \in RowsOf(rows) /\ cursor \in Orders
      BY <1>1, <1>3, <3>1
    <3>3. Precedes(o, cursor)
      BY <2>1, <3>1, <3>2, PrecedesOrders
    <3>4. o \in Missed(w)
      BY <2>1, <3>2, <3>3 DEF Missed, Behind, RowsOf
    <3> QED BY <3>4
  <2> QED BY <2>3, <2>4
<1>5. Cardinality(Missed(next)) <= next.orphans
  <2>1. IsFiniteSet(Missed(w)) /\ Cardinality(Missed(w)) \in Nat
        /\ Cardinality(Missed(w)) <= orphans
    <3>1. Missed(w) \in SUBSET Orders
      BY DEF Missed
    <3> QED BY <3>1, FS_Subset, FS_CardinalityType DEF Stamped, ReadInv
  <2>2. CASE lost = {}
    <3>1. Missed(next) \in SUBSET Missed(w)
      BY <1>4, <2>2
    <3>2. IsFiniteSet(Missed(next)) /\ Cardinality(Missed(next)) <= Cardinality(Missed(w))
          /\ Cardinality(Missed(next)) \in Nat
      BY <2>1, <3>1, FS_Subset, FS_CardinalityType
    <3>3. orphans <= next.orphans /\ next.orphans \in Nat
      OBVIOUS
    <3> QED BY <2>1, <3>2, <3>3
  <2>3. CASE lost # {}
    <3>1. next.orphans = orphans + 1
      BY <2>3
    <3>2. PICK x \in lost : \A y \in lost : y = x
      BY <2>3
    <3>3. Missed(next) \in SUBSET (Missed(w) \cup {x})
      BY <1>4, <3>2
    <3>4. IsFiniteSet(Missed(w) \cup {x})
          /\ Cardinality(Missed(w) \cup {x}) <= Cardinality(Missed(w)) + 1
          /\ Cardinality(Missed(w) \cup {x}) \in Nat
      <4> PICK missed : missed = Missed(w)
        OBVIOUS
      <4>1. IsFiniteSet(missed \cup {x}) /\ Cardinality(missed \cup {x}) \in Nat
        BY <2>1, FS_AddElement, FS_CardinalityType
      <4>2. Cardinality(missed \cup {x})
              = IF x \in missed THEN Cardinality(missed) ELSE Cardinality(missed) + 1
        BY <2>1, FS_AddElement
      <4> QED BY <2>1, <4>1, <4>2
    <3>5. Cardinality(Missed(next)) <= Cardinality(Missed(w) \cup {x})
          /\ Cardinality(Missed(next)) \in Nat
      BY <3>3, <3>4, FS_Subset, FS_CardinalityType
    <3> QED BY <2>1, <3>1, <3>4, <3>5
  <2> QED BY <2>2, <2>3
<1>6. ASSUME next.still
      PROVE  next.steady = M /\ next.orphans = 0 /\ RowsOf(next.rows) \subseteq M
  <2>1. w.steady = M /\ w.orphans = 0 /\ RowsOf(rows) \subseteq M
    BY <1>6 DEF ReadInv
  <2>2. cursor = None \/ cursor \in M
    BY <1>1, <1>3, <2>1
  <2> QED BY <1>2, <1>3, <2>1, <2>2
<1> QED BY <1>3, <1>5, <1>6 DEF ReadInv

-----------------------------------------------------------------------------
\* How many pages a walk has: as many as were asked for, or an export's, which
\* has a row for each, up to its limit.
PagesInv(w) ==
  IF w.reader = "csv" THEN IF w.done THEN w.pages <= MAX_ROWS
                           ELSE w.pages <= Len(w.rows) /\ Len(w.rows) < MAX_ROWS
  ELSE w.pages <= w.target /\ ~w.truncated

WalkIs(w, M) == /\ w \in Walks /\ w.filter \in Offered(w.reader)
                /\ ReadInv(w, M) /\ PagesInv(w)

DbInv ==
  /\ zone \in Zones /\ createdAt \in Stamps
  /\ status \in [Orders -> Statuses \cup {"ABSENT"}]
  /\ driver \in [Orders -> Drivers \cup {None}]
  /\ moves \in 0 .. MaxMoves
  /\ \A o \in Orders : status[o] \in {"ABSENT", "PENDING"} => driver[o] = None

WalkInv == walk # None => WalkIs(walk, Matching(walk.reader, walk.filter))

LEMMA StampsAre == ASSUME ReportsAssumption, createdAt \in Stamps PROVE Stamped
BY DEF ReportsAssumption, Stamped

\* A walk that has fewer orders to account for.
LEMMA FewerKeeps ==
  ASSUME Stamped, NEW M \in SUBSET Orders, NEW N \in SUBSET Orders,
         NEW w \in Walks, ReadInv(w, M),
         NEW next \in Walks, next.rows = w.rows, next.cursor = w.cursor, next.done = w.done,
         next.truncated = w.truncated, next.orphans = w.orphans,
         next.steady \subseteq w.steady, next.steady \subseteq N,
         next.still => w.still /\ N = M /\ next.steady = w.steady
  PROVE  ReadInv(next, N)
<1>1. Cardinality(Missed(next)) <= next.orphans
  <2>1. Missed(w) \in SUBSET Orders /\ Missed(next) \in SUBSET Missed(w)
    BY DEF Missed, Behind, Walks
  <2>2. IsFiniteSet(Missed(w)) /\ Cardinality(Missed(w)) \in Nat
    BY <2>1, FS_Subset, FS_CardinalityType DEF Stamped
  <2>3. Cardinality(Missed(next)) <= Cardinality(Missed(w)) /\ Cardinality(Missed(next)) \in Nat
    BY <2>1, <2>2, FS_Subset, FS_CardinalityType
  <2>4. Cardinality(Missed(w)) <= w.orphans /\ w.orphans \in Nat
    BY DEF ReadInv, Walks
  <2> QED BY <2>2, <2>3, <2>4
<1>2. next.still => next.steady = N /\ next.orphans = 0 /\ RowsOf(next.rows) \subseteq N
  BY DEF ReadInv
<1> QED BY <1>1, <1>2 DEF ReadInv

LEMMA BeginIs ==
  ASSUME ReportsAssumption, NEW reader \in Readers, NEW f \in Offered(reader), NEW target \in Nat,
         NEW w, w = Begin(reader, f, target)
  PROVE  WalkIs(w, Matching(reader, f))
<1> PICK M \in SUBSET Orders : M = Matching(reader, f)
  BY DEF Matching
<1>1. w = [reader |-> reader, filter |-> f, target |-> target, pages |-> 0,
           rows |-> <<>>, cursor |-> None, done |-> FALSE, truncated |-> FALSE,
           steady |-> M, orphans |-> 0, still |-> TRUE]
  BY DEF Begin
<1>2. w \in Walks
  <2>1. f \in UNION {Offered(r) : r \in Readers}
    OBVIOUS
  <2>2. <<>> \in Seq(Orders)
    OBVIOUS
  <2> QED BY <1>1, <2>1, <2>2 DEF Walks
<1>3. w.rows = <<>> /\ Len(w.rows) = 0 /\ RowsOf(w.rows) = {}
  BY <1>1 DEF RowsOf
<1>4. Missed(w) = {}
  BY <1>1, <1>3 DEF Missed, Behind
<1>5. ReadInv(w, M)
  <2>1. Ordered(w.rows)
    BY <1>2, <1>3 DEF Walks, Ordered
  <2>2. Cardinality(Missed(w)) = 0
    BY <1>4, FS_EmptySet, Zenon
  <2>3. w.orphans = 0 /\ Cardinality(Missed(w)) <= w.orphans
    <3>1. w.orphans = 0
      BY <1>1
    <3> QED BY <2>2, <3>1
  <2>4. w.cursor = None /\ w.steady = M
    BY <1>1
  <2> QED BY <1>3, <2>1, <2>2, <2>3, <2>4 DEF ReadInv
<1>6. PagesInv(w) /\ w.filter \in Offered(w.reader)
  BY <1>1, <1>3 DEF PagesInv, ReportsAssumption
<1> QED BY <1>2, <1>5, <1>6 DEF WalkIs

\* A page and the cursor after it join the walk.
Turned(next, data, cursor, done, truncated) ==
  next = [Turn(data, cursor) EXCEPT !.done = done, !.truncated = truncated]

IsTurned(w, next, M, data, cursor, done, truncated) ==
  /\ next \in Walks
  /\ next.reader = w.reader /\ next.filter = w.filter /\ next.target = w.target
  /\ next.pages = w.pages + 1 /\ next.rows = w.rows \o data /\ next.cursor = cursor
  /\ next.done = done /\ next.truncated = truncated
  /\ next.steady = w.steady /\ next.still = w.still
  /\ next.orphans = w.orphans + (IF w.cursor # None /\ w.cursor \notin M THEN 1 ELSE 0)

LEMMA TurnIs ==
  ASSUME NEW w \in Walks, walk = w, NEW data \in Seq(Orders), NEW cursor \in Orders \cup {None},
         NEW done \in BOOLEAN, NEW truncated \in BOOLEAN,
         NEW next, Turned(next, data, cursor, done, truncated)
  PROVE  IsTurned(w, next, Matching(w.reader, w.filter), data, cursor, done, truncated)
<1> PICK one \in {0, 1} : one = IF Orphaned THEN 1 ELSE 0
  OBVIOUS
<1>1. one = IF w.cursor # None /\ w.cursor \notin Matching(w.reader, w.filter) THEN 1 ELSE 0
  BY DEF Orphaned, Matching, Walks
<1>2. next = [w EXCEPT !.pages = w.pages + 1, !.rows = w.rows \o data, !.cursor = cursor,
                       !.orphans = w.orphans + one, !.done = done, !.truncated = truncated]
  BY DEF Turn, Walks, Turned
<1>3. w.pages + 1 \in Nat /\ w.rows \o data \in Seq(Orders) /\ w.orphans + one \in Nat
  BY ConcatProperties DEF Walks
<1>4. next \in Walks
  BY <1>2, <1>3 DEF Walks
<1> QED BY <1>1, <1>2, <1>4 DEF Walks, IsTurned

-----------------------------------------------------------------------------
LEMMA SameOrder ==
  ASSUME createdAt' = createdAt, NEW w, NEW M
  PROVE  ReadInv(w, M)' <=> ReadInv(w, M)
<1>1. \A a, b : Precedes(a, b)' <=> Precedes(a, b)
  BY DEF Precedes
<1>2. Missed(w)' = Missed(w)
  BY <1>1 DEF Missed, Behind, RowsOf
<1>3. Ordered(w.rows)' <=> Ordered(w.rows)
  BY <1>1 DEF Ordered
<1> QED BY <1>2, <1>3 DEF ReadInv, RowsOf

LEMMA SameLists ==
  ASSUME UNCHANGED dbVars, NEW reader, NEW f
  PROVE  Matching(reader, f)' = Matching(reader, f)
BY DEF dbVars, Matching, Listed, vendorList, availableFeed, driverList, adminList, stream,
       customerOrderScope, Created

\* While the orders stay as they are.
LEMMA WalkFollows ==
  ASSUME UNCHANGED dbVars, NEW w, walk' = w, WalkIs(w, Matching(w.reader, w.filter))
  PROVE  WalkInv'
<1> PICK M : M = Matching(w.reader, w.filter)
  OBVIOUS
<1>1. Matching(w.reader, w.filter)' = M
  BY SameLists
<1>2. ReadInv(w, M)'
  BY SameOrder DEF WalkIs, dbVars
<1>3. WalkIs(w, M)'
  BY <1>2 DEF WalkIs
<1> QED BY <1>1, <1>3 DEF WalkInv

LEMMA OpenKeeps ==
  ASSUME ReportsAssumption, NEW reader \in Readers, Open(reader)
  PROVE  WalkInv'
<1>1. PICK f \in Offered(reader) : walk' = Begin(reader, f, 1)
  BY DEF Open
<1>2. PICK w : w = Begin(reader, f, 1)
  OBVIOUS
<1>3. WalkIs(w, Matching(reader, f)) /\ w.reader = reader /\ w.filter = f
  BY <1>2, BeginIs DEF Begin
<1> QED BY <1>1, <1>2, <1>3, WalkFollows DEF Open

LEMMA RefetchKeeps ==
  ASSUME ReportsAssumption, WalkInv, Refetch
  PROVE  WalkInv'
<1> PICK reader, f, target : reader = walk.reader /\ f = walk.filter /\ target = walk.target
  OBVIOUS
<1>1. reader \in Readers /\ f \in Offered(reader) /\ target \in Nat
  BY DEF Refetch, WalkInv, WalkIs, Walks, Readers
<1> PICK w : w = Begin(reader, f, target)
  OBVIOUS
<1>2. WalkIs(w, Matching(reader, f)) /\ w.reader = reader /\ w.filter = f
  BY <1>1, BeginIs DEF Begin
<1> QED BY <1>2, WalkFollows DEF Refetch

LEMMA LoadMoreKeeps ==
  ASSUME ReportsAssumption, Stamped, WalkInv, LoadMore
  PROVE  WalkInv'
<1> PICK w, M : w = walk /\ M = Matching(w.reader, w.filter)
  OBVIOUS
<1> PICK next : next = [w EXCEPT !.target = w.target + 1]
  OBVIOUS
<1>1. w \in Walks /\ WalkIs(w, M) /\ ReadInv(w, M) /\ w.reader # "csv" /\ M \in SUBSET Orders
  BY DEF LoadMore, WalkInv, WalkIs, Screens, Matching
<1>2. /\ next \in Walks /\ next.reader = w.reader /\ next.filter = w.filter
      /\ next.rows = w.rows /\ next.cursor = w.cursor /\ next.done = w.done
      /\ next.truncated = w.truncated /\ next.orphans = w.orphans
      /\ next.steady = w.steady /\ next.still = w.still /\ next.pages = w.pages
      /\ next.target = w.target + 1
  <2>1. w.target + 1 \in Nat
    BY <1>1 DEF Walks
  <2> QED BY <1>1, <2>1 DEF Walks
<1>3. ReadInv(next, M)
  <2>1. /\ next.steady \subseteq w.steady /\ next.steady \subseteq M
        /\ next.still => w.still /\ M = M /\ next.steady = w.steady
    BY <1>1, <1>2 DEF ReadInv
  <2>2. Stamped
    OBVIOUS
  <2> QED BY ONLY <1>1, <1>2, <2>1, <2>2, FewerKeeps, Zenon
<1>4. PagesInv(next)
  BY <1>1, <1>2 DEF WalkIs, PagesInv, Walks
<1>5. WalkIs(next, M)
  BY <1>1, <1>2, <1>3, <1>4 DEF WalkIs
<1>6. walk' = next /\ UNCHANGED dbVars
  BY DEF LoadMore
<1> QED BY <1>2, <1>5, <1>6, WalkFollows

\* The last row of a list and of the page after it.
LEMMA LastOfBoth ==
  ASSUME NEW rows \in Seq(Orders), NEW data \in Seq(Orders), data # <<>>
  PROVE  /\ rows \o data # <<>> /\ Len(rows \o data) = Len(rows) + Len(data)
         /\ Len(data) \in Nat \ {0}
         /\ (rows \o data)[Len(rows \o data)] = data[Len(data)]
<1> PICK both : both = rows \o data
  OBVIOUS
<1> PICK m \in Nat : m = Len(rows)
  BY LenProperties
<1> PICK n \in Nat \ {0} : n = Len(data)
  BY LenProperties, EmptySeq
<1>1. /\ both \in Seq(Orders) /\ Len(both) = m + n
      /\ \A i \in 1 .. m + n : both[i] = IF i <= m THEN rows[i] ELSE data[i - m]
  BY ConcatProperties
<1>2. both # <<>>
  BY <1>1, EmptySeq
<1>3. m + n \in 1 .. m + n /\ ~(m + n <= m) /\ m + n - m = n
  OBVIOUS
<1>4. both[m + n] = data[n]
  BY <1>1, <1>3
<1> QED BY <1>1, <1>2, <1>4

LEMMA FetchKeeps ==
  ASSUME ReportsAssumption, Stamped, WalkInv, FetchPage
  PROVE  WalkInv'
<1> PICK w, M : w = walk /\ M = Matching(w.reader, w.filter)
  OBVIOUS
<1>1. w \in Walks /\ WalkIs(w, M) /\ ReadInv(w, M) /\ w.reader # "csv" /\ M \in SUBSET Orders
      /\ ~w.done /\ w.pages < w.target /\ ~w.truncated
  BY DEF FetchPage, WalkInv, WalkIs, Screens, Matching, PagesInv
<1> PICK take \in Nat \ {0} : take = Limit + 1
  BY DEF ReportsAssumption
<1> PICK rows : rows = findMany(w.reader, w.filter, w.cursor, take)
  OBVIOUS
<1> PICK full \in BOOLEAN : full <=> Len(rows) = take
  OBVIOUS
<1> PICK cursor \in Orders \cup {None} : cursor = w.cursor
  BY <1>1 DEF Walks
<1>2. Len(rows) <= take /\ IsPage(rows, M, cursor, full)
  BY FindManyIs
<1>3. PICK data, after :
        /\ cursorResult(rows) = [data |-> data, nextCursor |-> after]
        /\ IsPage(data, M, cursor, full)
        /\ IF full THEN data # <<>> /\ after = data[Len(data)] /\ after \in Orders ELSE after = None
  <2>1. /\ ReportsAssumption /\ Stamped /\ Len(rows) <= Limit + 1
        /\ full \in BOOLEAN /\ (full <=> Len(rows) = Limit + 1)
    BY <1>2
  <2>2. M \in SUBSET Orders /\ IsPage(rows, M, cursor, full)
    BY <1>1, <1>2
  <2> QED BY ONLY <2>1, <2>2, CursorResultIs
<1>4. data \in Seq(Orders) /\ after \in Orders \cup {None}
  BY <1>3 DEF IsPage, Ordered
<1> PICK done \in BOOLEAN : done <=> after = None
  OBVIOUS
<1> PICK turn : turn = Turn(data, after)
  OBVIOUS
<1> PICK next : next = [turn EXCEPT !.done = done, !.truncated = FALSE]
  OBVIOUS
<1>a. IsTurned(w, next, M, data, after, done, FALSE)
  <2>1. walk = w /\ w \in Walks /\ done \in BOOLEAN /\ FALSE \in BOOLEAN
        /\ Turned(next, data, after, done, FALSE)
    BY <1>1 DEF Turned
  <2>2. IsTurned(w, next, Matching(w.reader, w.filter), data, after, done, FALSE)
    BY ONLY <1>4, <2>1, TurnIs, Zenon
  <2> QED BY <2>2
<1>5. /\ next \in Walks
      /\ next.reader = w.reader /\ next.filter = w.filter /\ next.target = w.target
      /\ next.pages = w.pages + 1 /\ next.rows = w.rows \o data /\ next.cursor = after
      /\ next.done = done /\ next.truncated = FALSE
      /\ next.steady = w.steady /\ next.still = w.still
      /\ next.orphans = w.orphans + (IF w.cursor # None /\ w.cursor \notin M THEN 1 ELSE 0)
  BY <1>a DEF IsTurned
<1>6. walk' = next /\ UNCHANGED dbVars
  <2> PICK page : page = cursorResult(rows)
    OBVIOUS
  <2>1. page.data = data /\ page.nextCursor = after
    BY <1>3
  <2>2. walk' = [Turn(page.data, page.nextCursor) EXCEPT !.done = (page.nextCursor = None)]
        /\ UNCHANGED dbVars
    <3>1. page = cursorResult(findMany(walk.reader, walk.filter, walk.cursor, Limit + 1))
      BY <1>1
    <3> QED BY <3>1 DEF FetchPage
  <2>3. walk' = [turn EXCEPT !.done = (after = None)]
    BY <2>1, <2>2, Zenon
  <2>4. turn = [w EXCEPT !.pages = w.pages + 1, !.rows = w.rows \o data, !.cursor = after,
                         !.orphans = w.orphans + IF Orphaned THEN 1 ELSE 0]
    BY <1>1 DEF Turn, Walks
  <2>5. [turn EXCEPT !.done = (after = None)] = next
    BY <1>1, <2>4 DEF Walks
  <2> QED BY <2>2, <2>3, <2>5
<1>7. ReadInv(next, M)
  <2>1. ~next.done => IF next.rows = <<>> THEN next.cursor = None
                      ELSE next.cursor = next.rows[Len(next.rows)]
    <3> SUFFICES ASSUME ~done
                 PROVE  w.rows \o data # <<>> /\ after = (w.rows \o data)[Len(w.rows \o data)]
      BY <1>5
    <3>1. data # <<>> /\ after = data[Len(data)]
      BY <1>3
    <3> QED BY <1>1, <1>4, <3>1, LastOfBoth DEF Walks
  <2>2. next.done /\ ~next.truncated => ~full
    <3> SUFFICES ASSUME done, full PROVE FALSE
      BY <1>5
    <3> QED BY <1>3 DEF Stamped
  <2>3. IsPage(data, M, w.cursor, full)
    BY <1>3
  <2>4. /\ next.rows = w.rows \o data /\ next.steady = w.steady /\ next.still = w.still
        /\ next.orphans = w.orphans + (IF w.cursor # None /\ w.cursor \notin M THEN 1 ELSE 0)
    BY <1>5
  <2>5. /\ Stamped /\ M \in SUBSET Orders /\ w \in Walks /\ ReadInv(w, M) /\ ~w.done
        /\ full \in BOOLEAN /\ next \in Walks
    BY <1>1, <1>5
  <2> QED BY ONLY <2>1, <2>2, <2>3, <2>4, <2>5, TurnKeeps, Zenon
<1>8. PagesInv(next)
  BY <1>1, <1>5 DEF PagesInv, Walks
<1>9. WalkIs(next, M)
  BY <1>1, <1>5, <1>7, <1>8 DEF WalkIs
<1> QED BY <1>5, <1>6, <1>9, WalkFollows

-----------------------------------------------------------------------------
LEMMA BatchKeeps ==
  ASSUME ReportsAssumption, Stamped, WalkInv, WriteBatch
  PROVE  WalkInv'
<1> PICK w, M : w = walk /\ M = Matching(w.reader, w.filter)
  OBVIOUS
<1>1. w \in Walks /\ WalkIs(w, M) /\ ReadInv(w, M) /\ w.reader = "csv" /\ M \in SUBSET Orders
      /\ ~w.done
  BY DEF WriteBatch, WalkInv, WalkIs, Matching
<1> PICK take \in Nat \ {0} : take = BATCH_SIZE
  BY DEF ReportsAssumption
<1> PICK limit \in Nat \ {0} : limit = MAX_ROWS
  BY DEF ReportsAssumption
<1> PICK data : data = findMany(w.reader, w.filter, w.cursor, take)
  OBVIOUS
<1> PICK more \in BOOLEAN : more <=> Len(data) = take
  OBVIOUS
<1> PICK cursor \in Orders \cup {None} : cursor = w.cursor
  BY <1>1 DEF Walks
<1>2. Len(data) <= take /\ IsPage(data, M, cursor, more)
  BY FindManyIs
<1>3. data \in Seq(Orders) /\ w.rows \in Seq(Orders)
  BY <1>1, <1>2 DEF IsPage, Ordered, Walks
<1> PICK n \in Nat : n = Len(data)
  BY <1>3, LenProperties
<1> PICK m \in Nat : m = Len(w.rows)
  BY <1>3, LenProperties
<1> PICK after : after = IF data = <<>> THEN cursor ELSE data[n]
  OBVIOUS
<1>4. after \in Orders \cup {None} /\ Len(w.rows \o data) = m + n /\ (data = <<>> <=> n = 0)
  <2>1. Len(w.rows \o data) = m + n
    BY <1>3, ConcatProperties
  <2>2. data = <<>> <=> n = 0
    BY <1>3, EmptySeq
  <2>3. CASE n # 0
    <3>1. n \in 1 .. n
      BY <2>3
    <3>2. data[n] \in Orders
      BY <1>3, <3>1, ElementOfSeq
    <3> QED BY <2>1, <2>2, <3>2
  <2> QED BY <2>1, <2>2, <2>3
<1> PICK truncated \in BOOLEAN : truncated <=> more /\ m + n >= limit
  OBVIOUS
<1> PICK done \in BOOLEAN : done <=> ~more \/ truncated
  OBVIOUS
<1> PICK turn : turn = Turn(data, after)
  OBVIOUS
<1> PICK next : next = [turn EXCEPT !.done = done, !.truncated = truncated]
  OBVIOUS
<1>a. IsTurned(w, next, M, data, after, done, truncated)
  <2>1. walk = w /\ w \in Walks /\ done \in BOOLEAN /\ truncated \in BOOLEAN
        /\ Turned(next, data, after, done, truncated)
    BY <1>1 DEF Turned
  <2>2. IsTurned(w, next, Matching(w.reader, w.filter), data, after, done, truncated)
    BY ONLY <1>3, <1>4, <2>1, TurnIs, Zenon
  <2> QED BY <2>2
<1>5. /\ next \in Walks
      /\ next.reader = w.reader /\ next.filter = w.filter /\ next.target = w.target
      /\ next.pages = w.pages + 1 /\ next.rows = w.rows \o data /\ next.cursor = after
      /\ next.done = done /\ next.truncated = truncated
      /\ next.steady = w.steady /\ next.still = w.still
      /\ next.orphans = w.orphans + (IF w.cursor # None /\ w.cursor \notin M THEN 1 ELSE 0)
  BY <1>a DEF IsTurned
<1>6. walk' = next /\ UNCHANGED dbVars
  <2>1. turn = [w EXCEPT !.pages = w.pages + 1, !.rows = w.rows \o data, !.cursor = after,
                         !.orphans = w.orphans + IF Orphaned THEN 1 ELSE 0]
    BY <1>1 DEF Turn, Walks
  <2>2. turn.rows = w.rows \o data
    BY <1>1, <2>1 DEF Walks
  <2>3. (Len(data) < take <=> ~more) /\ (Len(turn.rows) >= limit <=> m + n >= limit)
    <3>1. n <= take /\ (n < take <=> ~more)
      BY <1>2
    <3>2. Len(turn.rows) = m + n
      BY <1>4, <2>2
    <3> QED BY <3>1, <3>2
  <2>4. data = findMany("csv", walk.filter, walk.cursor, BATCH_SIZE)
        /\ turn = Turn(data, IF data = <<>> THEN walk.cursor ELSE data[Len(data)])
    BY <1>1
  <2>5. walk' = [turn EXCEPT !.done =
                    (Len(data) < take \/ (~(Len(data) < take) /\ Len(turn.rows) >= limit)),
                             !.truncated = (~(Len(data) < take) /\ Len(turn.rows) >= limit)]
        /\ UNCHANGED dbVars
    BY <2>4 DEF WriteBatch, Last
  <2>6. /\ (Len(data) < take \/ (~(Len(data) < take) /\ Len(turn.rows) >= limit)) = done
        /\ (~(Len(data) < take) /\ Len(turn.rows) >= limit) = truncated
    BY <2>3
  <2> QED BY <2>5, <2>6
<1>b. ~done => /\ n >= 1 /\ m + n < limit
               /\ data # <<>> /\ after = data[Len(data)]
  <2> SUFFICES ASSUME ~done PROVE n >= 1 /\ m + n < limit /\ data # <<>> /\ after = data[n]
    OBVIOUS
  <2>1. n = take /\ ~(m + n >= limit)
    OBVIOUS
  <2>2. n >= 1 /\ m + n < limit
    BY <2>1
  <2> QED BY <1>4, <2>2
<1>7. ReadInv(next, M)
  <2>1. ~next.done => IF next.rows = <<>> THEN next.cursor = None
                      ELSE next.cursor = next.rows[Len(next.rows)]
    <3>1. CASE done
      BY <1>5, <3>1
    <3>2. CASE ~done
      <4>1. data # <<>> /\ after = data[Len(data)]
        BY <1>b, <3>2
      <4>2. w.rows \o data # <<>> /\ (w.rows \o data)[Len(w.rows \o data)] = data[Len(data)]
        BY ONLY <1>3, <4>1, LastOfBoth, Zenon
      <4>3. next.rows # <<>> /\ next.cursor = next.rows[Len(next.rows)]
        BY ONLY <1>5, <4>1, <4>2, Zenon
      <4> QED BY ONLY <4>3
    <3> QED BY <3>1, <3>2
  <2>2. next.done /\ ~next.truncated => ~more
    BY <1>5
  <2>3. IsPage(data, M, w.cursor, more)
    BY <1>2
  <2>4. /\ next.rows = w.rows \o data /\ next.steady = w.steady /\ next.still = w.still
        /\ next.orphans = w.orphans + (IF w.cursor # None /\ w.cursor \notin M THEN 1 ELSE 0)
    BY <1>5
  <2>5. /\ Stamped /\ M \in SUBSET Orders /\ w \in Walks /\ ReadInv(w, M) /\ ~w.done
        /\ more \in BOOLEAN /\ next \in Walks
    BY <1>1, <1>5
  <2> QED BY ONLY <2>1, <2>2, <2>3, <2>4, <2>5, TurnKeeps, Zenon
<1>8. PagesInv(next)
  <2> PICK pages \in Nat : pages = w.pages
    BY <1>1 DEF Walks
  <2>1. pages <= m /\ m < limit
    BY <1>1 DEF WalkIs, PagesInv
  <2>2. next.reader = "csv" /\ next.done = done /\ next.pages = pages + 1 /\ Len(next.rows) = m + n
    BY <1>1, <1>4, <1>5
  <2>3. pages + 1 <= limit /\ (~done => pages + 1 <= m + n /\ m + n < limit)
    <3>1. pages \in Nat /\ m \in Nat /\ n \in Nat /\ limit \in Nat
      OBVIOUS
    <3> QED BY ONLY <1>b, <2>1, <3>1
  <2>4. limit = MAX_ROWS
    OBVIOUS
  <2> QED BY ONLY <2>2, <2>3, <2>4 DEF PagesInv
<1>9. WalkIs(next, M)
  BY <1>1, <1>5, <1>7, <1>8 DEF WalkIs
<1> QED BY <1>5, <1>6, <1>9, WalkFollows

\* An order changes while a list is read.
LEMMA ChangeKeeps ==
  ASSUME ReportsAssumption, DbInv, WalkInv, NEW o \in Orders, NEW to \in Statuses,
         NEW d \in Drivers \cup {None}, to = "PENDING" => d = None, Change(o, to, d)
  PROVE  DbInv' /\ WalkInv'
<1>1. DbInv'
  <2>1. /\ status' \in [Orders -> Statuses \cup {"ABSENT"}]
        /\ driver' \in [Orders -> Drivers \cup {None}]
    BY DEF Change, DbInv
  <2>2. ASSUME NEW p \in Orders, status'[p] \in {"ABSENT", "PENDING"} PROVE driver'[p] = None
    <3>1. CASE p = o
      BY <2>2, <3>1 DEF Change, DbInv, Statuses, ACTIVE, HISTORY
    <3>2. CASE p # o
      BY <2>2, <3>2 DEF Change, DbInv
    <3> QED BY <3>1, <3>2
  <2>3. moves' \in 0 .. MaxMoves
    BY DEF Change, DbInv, ReportsAssumption
  <2> QED BY <2>1, <2>2, <2>3 DEF Change, DbInv
<1>2. ASSUME walk = None PROVE WalkInv'
  <2>1. walk' = None
    BY <1>2 DEF Change, Unsettle
  <2> QED BY <2>1 DEF WalkInv
<1>3. ASSUME walk # None PROVE WalkInv'
  <2> PICK w, M : w = walk /\ M = Matching(w.reader, w.filter)
    OBVIOUS
  <2>1. w \in Walks /\ WalkIs(w, M) /\ ReadInv(w, M) /\ M \in SUBSET Orders /\ Stamped
    BY <1>3, StampsAre DEF WalkInv, WalkIs, Matching, DbInv
  <2> PICK reader, f : reader = w.reader /\ f = w.filter
    OBVIOUS
  <2> PICK N \in SUBSET Orders : N = Matching(reader, f)'
    BY DEF Matching
  <2> PICK next : next = [w EXCEPT !.still = FALSE, !.steady = w.steady \cap N]
    OBVIOUS
  <2>2. walk' = next
    BY <1>3, <2>1 DEF Change, Unsettle, Walks
  <2>3. /\ next \in Walks /\ next.reader = reader /\ next.filter = f
        /\ next.rows = w.rows /\ next.cursor = w.cursor /\ next.done = w.done
        /\ next.truncated = w.truncated /\ next.orphans = w.orphans
        /\ next.steady = w.steady \cap N /\ ~next.still /\ next.pages = w.pages
        /\ next.target = w.target
    BY <2>1 DEF Walks
  <2>4. ReadInv(next, N)
    <3>1. /\ next.steady \subseteq w.steady /\ next.steady \subseteq N
          /\ next.still => w.still /\ N = M /\ next.steady = w.steady
      BY <2>3
    <3>2. N \in SUBSET Orders
      OBVIOUS
    <3> QED BY ONLY <2>1, <2>3, <3>1, <3>2, FewerKeeps, Zenon
  <2>5. ReadInv(next, N)'
    <3>1. createdAt' = createdAt
      BY DEF Change
    <3> QED BY <2>4, <3>1, SameOrder
  <2>6. PagesInv(next)
    BY <2>1, <2>3 DEF WalkIs, PagesInv
  <2>7. WalkIs(next, N)'
    BY <2>1, <2>3, <2>5, <2>6 DEF WalkIs
  <2>8. Matching(next.reader, next.filter)' = N
    BY <2>3
  <2>9. WalkIs(next, Matching(next.reader, next.filter))'
    BY <2>7, <2>8
  <2> QED BY <2>2, <2>9 DEF WalkInv
<1> QED BY <1>1, <1>2, <1>3

-----------------------------------------------------------------------------
ReportsInv == DbInv /\ WalkInv

LEMMA ReportsInit == ASSUME ReportsAssumption, Init PROVE ReportsInv
<1>1. status \in [Orders -> {"ABSENT", "PENDING", "PICKED_UP"}]
      /\ driver \in [Orders -> Drivers \cup {None}] /\ moves = 0 /\ walk = None
      /\ zone \in Zones /\ createdAt \in Stamps
      /\ \A o \in Orders : driver[o] # None <=> status[o] = "PICKED_UP"
  BY DEF Init
<1>2. status \in [Orders -> Statuses \cup {"ABSENT"}]
  BY <1>1 DEF Statuses, ACTIVE, HISTORY
<1>3. moves \in 0 .. MaxMoves
  BY <1>1 DEF ReportsAssumption
<1> QED BY <1>1, <1>2, <1>3 DEF ReportsInv, DbInv, WalkInv

\* What a move makes of an order and its driver.
LEMMA MoveIs ==
  ASSUME DbInv, NEW o \in Orders, NEW t \in Machine!ORDER_TRANSITIONS,
         NEW d \in Machine!DriverAfter(o, t, Admin)
  PROVE  t.to \in Statuses /\ d \in Drivers \cup {None} /\ (t.to = "PENDING" => d = None)
<1>1. t.to \in Statuses /\ (t.to = "PENDING" => t.action = "release")
  BY DEF Machine!ORDER_TRANSITIONS, Machine!Transition, Statuses, ACTIVE, HISTORY
<1>2. driver[o] \in Drivers \cup {None}
  BY DEF DbInv
<1>3. d \in Drivers \cup {None} /\ (t.action = "release" => d = None)
  BY <1>2 DEF Machine!DriverAfter
<1> QED BY <1>1, <1>3

LEMMA ReportsNext ==
  ASSUME ReportsAssumption, ReportsInv, [Next]_vars
  PROVE  ReportsInv'
<1>1. ReportsInv /\ DbInv /\ WalkInv /\ Stamped
  BY StampsAre DEF ReportsInv, DbInv
<1>2. ASSUME UNCHANGED dbVars, WalkInv' PROVE ReportsInv'
  BY <1>1, <1>2 DEF dbVars, DbInv, ReportsInv
<1>3. ASSUME NEW reader \in Readers, Open(reader) PROVE ReportsInv'
  <2>1. UNCHANGED dbVars
    BY <1>3 DEF Open
  <2> QED BY <1>2, <1>3, <2>1, OpenKeeps
<1>4. CASE FetchPage
  <2>1. UNCHANGED dbVars
    BY <1>4 DEF FetchPage
  <2> QED BY <1>1, <1>2, <1>4, <2>1, FetchKeeps
<1>5. CASE LoadMore
  <2>1. UNCHANGED dbVars
    BY <1>5 DEF LoadMore
  <2> QED BY <1>1, <1>2, <1>5, <2>1, LoadMoreKeeps
<1>6. CASE Refetch
  <2>1. UNCHANGED dbVars
    BY <1>6 DEF Refetch
  <2> QED BY <1>1, <1>2, <1>6, <2>1, RefetchKeeps
<1>7. CASE WriteBatch
  <2>1. UNCHANGED dbVars
    BY <1>7 DEF WriteBatch
  <2> QED BY <1>1, <1>2, <1>7, <2>1, BatchKeeps
<1>8. ASSUME NEW o \in Orders, Place(o) PROVE ReportsInv'
  <2>1. "PENDING" \in Statuses /\ None \in Drivers \cup {None}
    BY DEF Statuses
  <2>2. Change(o, "PENDING", None)
    BY <1>8 DEF Place
  <2> QED BY <1>1, <2>1, <2>2, ChangeKeeps DEF ReportsInv
<1>9. ASSUME NEW o \in Orders, NEW t \in Machine!ORDER_TRANSITIONS, Move(o, t) PROVE ReportsInv'
  <2>1. PICK d \in Machine!DriverAfter(o, t, Admin) : Change(o, t.to, d)
    BY <1>9 DEF Move
  <2>2. t.to \in Statuses /\ d \in Drivers \cup {None} /\ (t.to = "PENDING" => d = None)
    BY <1>1, MoveIs
  <2> QED BY <1>1, <2>1, <2>2, ChangeKeeps DEF ReportsInv
<1>10. ASSUME NEW o \in Orders, NEW d \in Drivers, Reassign(o, d) PROVE ReportsInv'
  <2>1. "DRIVER_ASSIGNED" \in Statuses /\ d \in Drivers \cup {None}
    BY DEF Statuses, ACTIVE
  <2>2. Change(o, "DRIVER_ASSIGNED", d)
    BY <1>10 DEF Reassign
  <2> QED BY <1>1, <2>1, <2>2, ChangeKeeps DEF ReportsInv
<1>11. CASE UNCHANGED vars
  <2>1. UNCHANGED dbVars /\ walk' = walk
    BY <1>11 DEF vars, dbVars
  <2>2. WalkInv'
    BY <1>1, <2>1, WalkFollows DEF WalkInv
  <2> QED BY <1>2, <2>1, <2>2
<1> QED BY <1>3, <1>4, <1>5, <1>6, <1>7, <1>8, <1>9, <1>10, <1>11 DEF Next, Readers

LEMMA ReportsHold == ASSUME ReportsAssumption PROVE Spec => []ReportsInv
<1>1. Init => ReportsInv
  BY ReportsInit
<1>2. ReportsInv /\ [Next]_vars => ReportsInv'
  BY ReportsNext
<1> QED BY <1>1, <1>2, PTL DEF Spec

\* The orders, the clock and the list that is being read (the screens'
\* useInfiniteQuery pages, the export's batches) hold what their types say.
THEOREM ReportsTypes == Spec => []TypeOK
<1> USE ReportsAssumption
<1>1. ReportsInv => TypeOK
  <2> SUFFICES ASSUME ReportsInv PROVE TypeOK
    OBVIOUS
  <2>1. ASSUME walk # None
        PROVE  /\ walk.reader \in Screens \cup {"csv"} /\ walk.filter \in Offered(walk.reader)
               /\ walk.rows \in Seq(Orders) /\ walk.cursor \in Orders \cup {None}
               /\ walk.pages \in 0 .. Max({walk.target, MAX_ROWS + 1})
               /\ walk.truncated => walk.reader = "csv"
    <3>1. walk \in Walks /\ walk.filter \in Offered(walk.reader) /\ PagesInv(walk)
      BY <2>1 DEF ReportsInv, WalkInv, WalkIs
    <3> PICK target \in Nat, pages \in Nat : target = walk.target /\ pages = walk.pages
      BY <3>1 DEF Walks
    <3> PICK limit \in Nat : limit = MAX_ROWS + 1
      BY DEF ReportsAssumption
    <3>2. Max({target, limit}) = IF target >= limit THEN target ELSE limit
      <4>1. target \in Int /\ limit \in Int
        OBVIOUS
      <4> QED BY <4>1, MaxOfBoth
    <3>3. (pages <= target \/ pages <= limit) /\ (walk.truncated => walk.reader = "csv")
      <4>1. CASE walk.reader = "csv"
        <5>1. pages <= MAX_ROWS \/ (\E n \in Nat : pages <= n /\ n < MAX_ROWS)
          BY <3>1, <4>1, LenProperties DEF PagesInv, Walks
        <5> QED BY <4>1, <5>1 DEF ReportsAssumption
      <4>2. CASE walk.reader # "csv"
        BY <3>1, <4>2 DEF PagesInv
      <4> QED BY <4>1, <4>2
    <3>4. pages \in 0 .. Max({target, limit})
      BY <3>2, <3>3
    <3> QED BY <3>1, <3>3, <3>4 DEF Walks, Readers
  <2> QED BY <2>1 DEF ReportsInv, DbInv, TypeOK
<1>2. Spec => []ReportsInv
  BY ReportsHold
<1> QED BY <1>1, <1>2, PTL

\* beirutDayStart() and beirutDayEnd(): whatever hour the clock gains or loses
\* that day, every instant belongs to the days its calendar date says and to no
\* other, so that no order is in two days' figures or in none's.
THEOREM DaysAreWhole == Spec => []BusinessDays
<1> USE ReportsAssumption
<1>1. ReportsInv => BusinessDays
  BY ZoneTiles DEF ReportsInv, DbInv, BusinessDays
<1>2. Spec => []ReportsInv
  BY ReportsHold
<1> QED BY <1>1, <1>2, PTL

-----------------------------------------------------------------------------
\* Rows in order are different.
LEMMA RowsDiffer ==
  ASSUME Stamped, NEW rows, Ordered(rows)
  PROVE  /\ Cardinality(RowsOf(rows)) = Len(rows) /\ IsFiniteSet(RowsOf(rows))
         /\ RowsOf(rows) \subseteq Orders
<1> PICK n \in Nat : n = Len(rows)
  <2>1. Len(rows) \in Nat
    BY LenProperties, Zenon DEF Ordered
  <2> QED BY <2>1, Zenon
<1>1. \A i \in 1 .. n : rows[i] \in Orders /\ rows[i] \in RowsOf(rows)
  <2>1. \A i \in 1 .. n : rows[i] \in Orders
    BY ElementOfSeq DEF Ordered
  <2> QED BY <2>1 DEF RowsOf
<1>2. \A i, j \in 1 .. n : i # j => rows[i] # rows[j]
  <2>1. ASSUME NEW i \in 1 .. n, NEW j \in 1 .. n, i < j PROVE rows[i] # rows[j]
    BY <1>1, <2>1, PrecedesOrders DEF Ordered
  <2> QED BY <2>1
<1> DEFINE at == [i \in 1 .. n |-> rows[i]]
<1>3. at \in [1 .. n -> RowsOf(rows)]
  BY <1>1
<1>4. \A i, j \in 1 .. n : at[i] = at[j] => i = j
  BY <1>2
<1>5. \A o \in RowsOf(rows) : \E i \in 1 .. n : at[i] = o
  BY DEF RowsOf
<1>6. ExistsBijection(1 .. n, RowsOf(rows))
  <2> HIDE DEF at
  <2>1. at \in Injection(1 .. n, RowsOf(rows))
    BY <1>3, <1>4 DEF Injection, IsInjective
  <2>2. at \in Surjection(1 .. n, RowsOf(rows))
    BY <1>3, <1>5 DEF Surjection
  <2> QED BY <2>1, <2>2 DEF ExistsBijection, Bijection
<1> HIDE DEF at
<1>7. IsFiniteSet(1 .. n) /\ Cardinality(1 .. n) = n
  <2>1. 1 \in Int /\ n \in Int /\ n - 1 + 1 = n /\ (1 > n => n = 0)
    OBVIOUS
  <2> QED BY <2>1, FS_Interval
<1>8. IsFiniteSet(RowsOf(rows)) /\ Cardinality(RowsOf(rows)) = n
  BY <1>6, <1>7, FS_Bijection
<1>9. RowsOf(rows) \subseteq Orders
  BY <1>1 DEF RowsOf
<1> QED BY <1>8, <1>9

\* The counts by status add up.
LEMMA CountsAdd ==
  ASSUME Stamped, NEW S \in SUBSET Orders, \A o \in S : status[o] \in Statuses,
         NEW count, \A s \in Statuses : count[s] = Cardinality({o \in S : status[o] = s})
  PROVE  Cardinality(S) = count["DELIVERED"] + count["CANCELLED"] + count["FAILED"]
                            + (count["PENDING"] + count["DRIVER_ASSIGNED"] + count["PICKED_UP"])
<1> DEFINE Of(T) == {o \in S : status[o] \in T}
<1>1. \A T : IsFiniteSet(Of(T)) /\ Cardinality(Of(T)) \in Nat
  <2> SUFFICES ASSUME NEW T PROVE IsFiniteSet(Of(T)) /\ Cardinality(Of(T)) \in Nat
    OBVIOUS
  <2>1. Of(T) \in SUBSET Orders
    OBVIOUS
  <2> HIDE DEF Of
  <2> QED BY <2>1, FS_Subset, FS_CardinalityType DEF Stamped
<1>2. ASSUME NEW T, NEW s \in Statuses, s \notin T
      PROVE  Cardinality(Of(T \cup {s})) = Cardinality(Of(T)) + count[s]
  <2>1. Of(T \cup {s}) = Of(T) \cup Of({s}) /\ Of(T) \cap Of({s}) = {}
    BY <1>2
  <2>2. count[s] = Cardinality(Of({s}))
    <3>1. Of({s}) = {o \in S : status[o] = s}
      OBVIOUS
    <3> QED BY <3>1
  <2> HIDE DEF Of
  <2>3. Cardinality(Of(T) \cap Of({s})) = 0
    BY <2>1, FS_EmptySet
  <2>4. Cardinality(Of(T) \cup Of({s}))
          = Cardinality(Of(T)) + Cardinality(Of({s})) - Cardinality(Of(T) \cap Of({s}))
    BY <1>1, FS_Union
  <2>5. Cardinality(Of(T)) \in Nat /\ Cardinality(Of({s})) \in Nat
    BY <1>1
  <2> PICK a \in Nat, b \in Nat : a = Cardinality(Of(T)) /\ b = Cardinality(Of({s}))
    BY <2>5
  <2>6. Cardinality(Of(T \cup {s})) = a + b - 0
    BY <2>1, <2>3, <2>4, Zenon
  <2>7. a + b - 0 = a + b
    OBVIOUS
  <2> QED BY <2>2, <2>6, <2>7, Zenon
<1>3. Cardinality(Of({})) = 0
  <2>1. Of({}) = {}
    OBVIOUS
  <2> HIDE DEF Of
  <2> QED BY <2>1, FS_EmptySet
<1>4. Of(Statuses) = S
  OBVIOUS
<1> HIDE DEF Of
<1>5. \A s \in Statuses : count[s] \in Nat
  <2> SUFFICES ASSUME NEW s \in Statuses PROVE count[s] \in Nat
    OBVIOUS
  <2>1. {o \in S : status[o] = s} \in SUBSET Orders
    OBVIOUS
  <2>2. Cardinality({o \in S : status[o] = s}) \in Nat
    BY <2>1, FS_Subset, FS_CardinalityType DEF Stamped
  <2> QED BY <2>2
<1>6. {"DELIVERED", "CANCELLED", "FAILED", "PENDING", "DRIVER_ASSIGNED", "PICKED_UP"} = Statuses
  BY DEF Statuses, ACTIVE, HISTORY
<1>7. Cardinality(Of({"DELIVERED"})) = count["DELIVERED"]
  <2>1. {} \cup {"DELIVERED"} = {"DELIVERED"}
    OBVIOUS
  <2>2. Cardinality(Of({} \cup {"DELIVERED"})) = Cardinality(Of({})) + count["DELIVERED"]
    BY <1>2, <1>6
  <2> QED BY <1>3, <1>5, <1>6, <2>1, <2>2
<1>8. Cardinality(Of({"DELIVERED", "CANCELLED"})) = count["DELIVERED"] + count["CANCELLED"]
  <2>1. {"DELIVERED"} \cup {"CANCELLED"} = {"DELIVERED", "CANCELLED"}
    OBVIOUS
  <2> QED BY <1>2, <1>6, <1>7, <2>1
<1>9. Cardinality(Of({"DELIVERED", "CANCELLED", "FAILED"}))
        = count["DELIVERED"] + count["CANCELLED"] + count["FAILED"]
  <2>1. {"DELIVERED", "CANCELLED"} \cup {"FAILED"} = {"DELIVERED", "CANCELLED", "FAILED"}
    OBVIOUS
  <2>2. Cardinality(Of({"DELIVERED", "CANCELLED", "FAILED"}))
          = Cardinality(Of({"DELIVERED", "CANCELLED"})) + count["FAILED"]
    <3>1. {"DELIVERED", "CANCELLED"} \in SUBSET Statuses
          /\ "FAILED" \in Statuses \ {"DELIVERED", "CANCELLED"}
      BY <1>6
    <3>2. Cardinality(Of({"DELIVERED", "CANCELLED"} \cup {"FAILED"}))
            = Cardinality(Of({"DELIVERED", "CANCELLED"})) + count["FAILED"]
      BY ONLY <1>2, <3>1, Zenon
    <3> QED BY ONLY <2>1, <3>2, Zenon
  <2> QED BY <1>8, <2>2, Zenon
<1>10. Cardinality(Of({"DELIVERED", "CANCELLED", "FAILED", "PENDING"}))
         = count["DELIVERED"] + count["CANCELLED"] + count["FAILED"] + count["PENDING"]
  <2>1. {"DELIVERED", "CANCELLED", "FAILED"} \cup {"PENDING"}
          = {"DELIVERED", "CANCELLED", "FAILED", "PENDING"}
    OBVIOUS
  <2>2. Cardinality(Of({"DELIVERED", "CANCELLED", "FAILED", "PENDING"}))
          = Cardinality(Of({"DELIVERED", "CANCELLED", "FAILED"})) + count["PENDING"]
    <3>1. {"DELIVERED", "CANCELLED", "FAILED"} \in SUBSET Statuses
          /\ "PENDING" \in Statuses \ {"DELIVERED", "CANCELLED", "FAILED"}
      BY <1>6
    <3>2. Cardinality(Of({"DELIVERED", "CANCELLED", "FAILED"} \cup {"PENDING"}))
            = Cardinality(Of({"DELIVERED", "CANCELLED", "FAILED"})) + count["PENDING"]
      BY ONLY <1>2, <3>1, Zenon
    <3> QED BY ONLY <2>1, <3>2, Zenon
  <2> QED BY <1>9, <2>2, Zenon
<1>11. Cardinality(Of({"DELIVERED", "CANCELLED", "FAILED", "PENDING", "DRIVER_ASSIGNED"}))
         = count["DELIVERED"] + count["CANCELLED"] + count["FAILED"] + count["PENDING"]
             + count["DRIVER_ASSIGNED"]
  <2>1. {"DELIVERED", "CANCELLED", "FAILED", "PENDING"} \cup {"DRIVER_ASSIGNED"}
          = {"DELIVERED", "CANCELLED", "FAILED", "PENDING", "DRIVER_ASSIGNED"}
    OBVIOUS
  <2>2. Cardinality(Of({"DELIVERED", "CANCELLED", "FAILED", "PENDING", "DRIVER_ASSIGNED"}))
          = Cardinality(Of({"DELIVERED", "CANCELLED", "FAILED", "PENDING"}))
              + count["DRIVER_ASSIGNED"]
    <3>1. {"DELIVERED", "CANCELLED", "FAILED", "PENDING"} \in SUBSET Statuses
          /\ "DRIVER_ASSIGNED" \in Statuses \ {"DELIVERED", "CANCELLED", "FAILED", "PENDING"}
      BY <1>6
    <3>2. Cardinality(Of({"DELIVERED", "CANCELLED", "FAILED", "PENDING"} \cup {"DRIVER_ASSIGNED"}))
            = Cardinality(Of({"DELIVERED", "CANCELLED", "FAILED", "PENDING"}))
                + count["DRIVER_ASSIGNED"]
      BY ONLY <1>2, <3>1, Zenon
    <3> QED BY ONLY <2>1, <3>2, Zenon
  <2> QED BY <1>10, <2>2, Zenon
<1>12. Cardinality(Of(Statuses))
         = count["DELIVERED"] + count["CANCELLED"] + count["FAILED"] + count["PENDING"]
             + count["DRIVER_ASSIGNED"] + count["PICKED_UP"]
  <2>1. {"DELIVERED", "CANCELLED", "FAILED", "PENDING", "DRIVER_ASSIGNED"} \cup {"PICKED_UP"}
          = Statuses
    BY <1>6
  <2>2. Cardinality(Of(Statuses))
          = Cardinality(Of({"DELIVERED", "CANCELLED", "FAILED", "PENDING", "DRIVER_ASSIGNED"}))
              + count["PICKED_UP"]
    <3>1. {"DELIVERED", "CANCELLED", "FAILED", "PENDING", "DRIVER_ASSIGNED"} \in SUBSET Statuses
          /\ "PICKED_UP" \in Statuses \
                {"DELIVERED", "CANCELLED", "FAILED", "PENDING", "DRIVER_ASSIGNED"}
      BY <1>6
    <3>2. Cardinality(Of({"DELIVERED", "CANCELLED", "FAILED", "PENDING", "DRIVER_ASSIGNED"}
                    \cup {"PICKED_UP"}))
            = Cardinality(Of({"DELIVERED", "CANCELLED", "FAILED", "PENDING", "DRIVER_ASSIGNED"}))
                + count["PICKED_UP"]
      BY ONLY <1>2, <3>1, Zenon
    <3> QED BY ONLY <2>1, <3>2, Zenon
  <2> QED BY <1>11, <2>2, Zenon
<1> QED BY <1>4, <1>5, <1>6, <1>12

\* A list that was read to its end while nothing moved is complete.
LEMMA StillIsComplete ==
  ASSUME Stamped, NEW M \in SUBSET Orders, NEW w \in Walks, ReadInv(w, M),
         w.still, w.done, ~w.truncated
  PROVE  RowsOf(w.rows) = M
<1>1. w.steady = M /\ w.orphans = 0 /\ RowsOf(w.rows) \subseteq M /\ Cardinality(Missed(w)) <= 0
  <2>1. w.steady = M /\ w.orphans = 0 /\ RowsOf(w.rows) \subseteq M
    BY DEF ReadInv
  <2> QED BY <2>1 DEF ReadInv
<1>2. IsFiniteSet(Missed(w)) /\ Cardinality(Missed(w)) \in Nat
  <2>1. Missed(w) \in SUBSET Orders
    BY <1>1 DEF Missed
  <2> QED BY <2>1, FS_Subset, FS_CardinalityType DEF Stamped
<1>3. Missed(w) = {}
  <2>1. Cardinality(Missed(w)) = 0
    BY <1>1, <1>2
  <2> QED BY <1>2, <2>1, FS_EmptySet
<1>4. ASSUME NEW o \in M PROVE o \in RowsOf(w.rows)
  BY <1>1, <1>3 DEF Missed, Behind
<1> QED BY <1>1, <1>4

\* What the counts of the vendor's statistics are, and of a customer's profile.
LEMMA VendorCounts ==
  ASSUME NEW f, NEW s \in Statuses, f.status \in {"ALL", s}
  PROVE  Cardinality({o \in Matching("vendor", f) : status[o] = s})
           = vendorStats(f.vendor, f.from, f.to)[s]
<1>1. {o \in Matching("vendor", f) : status[o] = s}
        = {o \in Orders : /\ PlacedBy[o] = f.vendor /\ status[o] = s
                          /\ createdAt[o] \in beirutRange[zone][f.from][f.to]}
  BY DEF Matching, Listed, vendorList, Created, Statuses, ACTIVE, HISTORY
<1> QED BY <1>1 DEF vendorStats

LEMMA ExportIsTheList ==
  ASSUME NEW f
  PROVE  Matching("csv", f) = Matching("admin", f)
BY DEF Matching, Listed, stream, adminList

LEMMA ProfileCounts ==
  ASSUME Stamped, DbInv, NEW f, NEW rows, Ordered(rows), RowsOf(rows) = Matching("customer", f)
  PROVE  /\ Cardinality(RowsOf(rows)) = build(f).ordersInScope
         /\ build(f).ordersInScope = build(f).delivered + build(f).cancelled + build(f).failed
                                       + build(f).inProgress
         /\ RowsOf(rows) # {} => createdAt[Head(rows)] = build(f).lastOrderAt
<1> PICK M \in SUBSET Orders : M = Matching("customer", f)
  BY DEF Matching
<1> PICK count : count = [s \in Statuses |-> Cardinality({o \in M : status[o] = s})]
  OBVIOUS
<1>1. \A o \in M : status[o] \in Statuses
  BY DEF Matching, Listed, customerOrderScope, DbInv
<1>2. \A s \in Statuses : count[s] = Cardinality({o \in M : status[o] = s})
  OBVIOUS
<1>3. Cardinality(M) = count["DELIVERED"] + count["CANCELLED"] + count["FAILED"]
                         + (count["PENDING"] + count["DRIVER_ASSIGNED"] + count["PICKED_UP"])
  BY <1>1, <1>2, CountsAdd
<1> DEFINE created == {createdAt[o] : o \in M}
<1>4. /\ build(f).ordersInScope = Cardinality(M)
      /\ build(f).delivered = count["DELIVERED"] /\ build(f).cancelled = count["CANCELLED"]
      /\ build(f).failed = count["FAILED"]
      /\ build(f).inProgress = count["PENDING"] + count["DRIVER_ASSIGNED"] + count["PICKED_UP"]
      /\ build(f).lastOrderAt = IF created = {} THEN None ELSE Max(created)
  <2>1. "DELIVERED" \in Statuses /\ "CANCELLED" \in Statuses /\ "FAILED" \in Statuses
        /\ "PENDING" \in Statuses /\ "DRIVER_ASSIGNED" \in Statuses /\ "PICKED_UP" \in Statuses
    BY DEF Statuses, ACTIVE, HISTORY
  <2> QED BY <1>2, <2>1 DEF build
<1>5. ASSUME M # {} PROVE createdAt[Head(rows)] = Max(created) /\ created # {}
  <2>1. Len(rows) \in Nat /\ 1 \in 1 .. Len(rows) /\ Head(rows) = rows[1]
    <3>1. Len(rows) \in Nat
      BY LenProperties, Zenon DEF Ordered
    <3>2. Len(rows) # 0
      BY <1>5 DEF RowsOf
    <3>3. rows \in Seq(Orders) /\ rows # <<>>
      BY <3>2, EmptySeq DEF Ordered
    <3> QED BY <3>1, <3>2, <3>3
  <2>2. rows[1] \in M
    BY <2>1 DEF RowsOf
  <2>3. ASSUME NEW o \in M PROVE createdAt[rows[1]] >= createdAt[o]
    <3>1. PICK i \in 1 .. Len(rows) : o = rows[i]
      BY DEF RowsOf
    <3>2. o = rows[1] \/ Precedes(rows[1], o)
      BY <2>1, <3>1 DEF Ordered
    <3>3. createdAt[rows[1]] \in Nat /\ createdAt[o] \in Nat
      BY <2>2 DEF Stamped
    <3> QED BY <3>2, <3>3 DEF Precedes
  <2>4. created \in SUBSET Int /\ createdAt[rows[1]] \in created
        /\ \A x \in created : createdAt[rows[1]] >= x
    <3>1. \A x \in created : \E o \in M : x = createdAt[o]
      OBVIOUS
    <3>2. createdAt[rows[1]] \in created
      BY <2>2
    <3>3. \A o \in M : createdAt[o] \in Int
      BY DEF Stamped
    <3> HIDE DEF created
    <3> QED BY <2>3, <3>1, <3>2, <3>3
  <2> HIDE DEF created
  <2>5. Max(created) = createdAt[rows[1]]
    BY <2>4, ExtremeIs
  <2> QED BY <2>1, <2>4, <2>5
<1> HIDE DEF created
<1>6. M # {} => createdAt[Head(rows)] = build(f).lastOrderAt
  BY <1>4, <1>5
<1> QED BY <1>3, <1>4, <1>6

\* cursorArgs() and cursorResult(): while orders are placed, moved and
\* reassigned between the pages, no list shows an order twice, and it misses no
\* more of those that belonged to it all along than cursors had left it.
THEOREM ListsAreWhole == Spec => []ListedOnce
<1> USE ReportsAssumption
<1>1. ReportsInv => ListedOnce
  <2> SUFFICES ASSUME ReportsInv, walk # None PROVE ListedOnce
    BY DEF ListedOnce
  <2> PICK w, M : w = walk /\ M = Matching(w.reader, w.filter)
    OBVIOUS
  <2>1. DbInv /\ Stamped /\ w \in Walks /\ ReadInv(w, M) /\ M \in SUBSET Orders
    BY StampsAre DEF ReportsInv, DbInv, WalkInv, WalkIs, Matching
  <2>2. Cardinality(RowsOf(w.rows)) = Len(w.rows) /\ RowsOf(w.rows) \subseteq Orders
    BY <2>1, RowsDiffer DEF ReadInv
  <2>3. Cardinality((w.steady \cap Passed) \ RowsOf(w.rows)) <= w.orphans
    <3>1. (w.steady \cap Passed) \ RowsOf(w.rows) = Missed(w)
      <4>1. w.steady \subseteq Orders
        BY <2>1 DEF ReadInv
      <4> QED BY <4>1 DEF Passed, Missed, Behind
    <3> QED BY <2>1, <3>1 DEF ReadInv
  <2>4. ASSUME w.still, w.done, ~w.truncated PROVE RowsOf(w.rows) = M
    BY <2>1, <2>4, StillIsComplete
  <2>5. ASSUME w.still, w.done, ~w.truncated, w.reader = "vendor",
               NEW s \in Statuses, w.filter.status \in {"ALL", s}
        PROVE  Cardinality({o \in RowsOf(w.rows) : status[o] = s})
                 = vendorStats(w.filter.vendor, w.filter.from, w.filter.to)[s]
    <3>1. RowsOf(w.rows) = Matching("vendor", w.filter)
      BY <2>4, <2>5
    <3>2. Cardinality({o \in Matching("vendor", w.filter) : status[o] = s})
            = vendorStats(w.filter.vendor, w.filter.from, w.filter.to)[s]
      BY <2>5, VendorCounts
    <3> QED BY <3>1, <3>2
  <2>6. ASSUME w.still, w.done, ~w.truncated, w.reader = "csv"
        PROVE  RowsOf(w.rows) = Matching("admin", w.filter)
    BY <2>4, <2>6, ExportIsTheList
  <2>7. ASSUME w.still, w.done, ~w.truncated, w.reader = "customer"
        PROVE  /\ Cardinality(RowsOf(w.rows)) = build(w.filter).ordersInScope
               /\ build(w.filter).ordersInScope
                    = build(w.filter).delivered + build(w.filter).cancelled
                        + build(w.filter).failed + build(w.filter).inProgress
               /\ RowsOf(w.rows) # {} => createdAt[Head(w.rows)] = build(w.filter).lastOrderAt
    <3>1. RowsOf(w.rows) = Matching("customer", w.filter) /\ Ordered(w.rows)
      BY <2>1, <2>4, <2>7 DEF ReadInv
    <3> QED BY <2>1, <3>1, ProfileCounts
  <2> DEFINE Whole(rows) ==
        /\ Cardinality(rows) = Len(walk.rows)
        /\ Cardinality((walk.steady \cap Passed) \ rows) <= walk.orphans
        /\ walk.still /\ walk.done /\ ~walk.truncated =>
             /\ walk.reader = "vendor" =>
                  \A s \in Statuses : walk.filter.status \in {"ALL", s} =>
                    Cardinality({o \in rows : status[o] = s})
                      = vendorStats(walk.filter.vendor, walk.filter.from, walk.filter.to)[s]
             /\ walk.reader = "csv" => rows = Matching("admin", walk.filter)
             /\ walk.reader = "customer" =>
                  LET stats == build(walk.filter)
                  IN  /\ Cardinality(rows) = stats.ordersInScope
                      /\ stats.ordersInScope =
                           stats.delivered + stats.cancelled + stats.failed + stats.inProgress
                      /\ rows # {} => createdAt[Head(walk.rows)] = stats.lastOrderAt
  <2>8. Whole(RowsOf(w.rows))
    BY <2>2, <2>3, <2>5, <2>6, <2>7
  <2>9. Whole({walk.rows[i] : i \in 1 .. Len(walk.rows)})
    <3> HIDE DEF Whole
    <3>1. RowsOf(w.rows) = {walk.rows[i] : i \in 1 .. Len(walk.rows)}
      BY DEF RowsOf
    <3> QED BY <2>8, <3>1, Zenon
  <2> QED BY <2>9, Zenon DEF ListedOnce
<1>2. Spec => []ReportsInv
  BY ReportsHold
<1> QED BY <1>1, <1>2, PTL
=============================================================================

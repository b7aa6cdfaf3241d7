----------------------------- MODULE SettleDesk -----------------------------
(***************************************************************************)
(* The counter: settle-dialog.tsx, the worklist that opens it and the      *)
(* driver's OwedPanel, over the account that settlements.service.ts keeps  *)
(* (DriverAccount, which Settlements implements).                          *)
(*                                                                         *)
(* The figures on a screen are the answer of some moment.  The dialog asks *)
(* for them again at every settlement event and whenever its window gets   *)
(* the focus, while the admin types, and what he submits may be recorded,  *)
(* refused, lost, or recorded without his ever being told.                 *)
(***************************************************************************)
EXTENDS Integers, Sequences, FiniteSets, FiniteSetsExt

CONSTANTS Currencies,
          Items,      \* [order, currency, commission]: one delivery each
          Driver,     \* whose account it is
          Desks,      \* admins' screens
          Typed,      \* what can be in an amount box: a number, or one of the next two
          Blank, Bad, \* nothing, and what toMinorUnits refuses
          Forms,      \* the sets of adjustments an admin drafts
          None,
          ListLimit,   \* SETTLEMENT_ORDER_LIST_LIMIT
          Tries,       \* bound on a desk's requests on their way at once
          MaxClock,    \* bound on the moments told apart
          MaxHandovers \* bound on the handovers that stand

ASSUME DeskAssumption ==
  /\ IsFiniteSet(Items)
  /\ Items \subseteq [order : {item.order : item \in Items}, currency : Currencies,
                      commission : Nat]
  /\ Typed \subseteq Int \cup {Blank, Bad}
  /\ Forms \subseteq SUBSET [currency : Currencies, direction : {"DEBIT", "CREDIT"},
                             amount : Int \cup {Blank, Bad}]
  /\ {} \in Forms /\ \A adjustments \in Forms : IsFiniteSet(adjustments)
  /\ None \notin Int /\ Blank \notin Int /\ Bad \notin Int
  /\ ListLimit \in Nat \ {0}
  /\ Tries \subseteq Nat /\ MaxClock \in Nat \ {0} /\ MaxHandovers \in Nat

VARIABLES work, handovers, balance, \* the account
          since,    \* item -> its deliveredAt
          clock,    \* the API's
          receipts, \* handovers as recorded: periodEnd, what was on the screen, the cash
          views,    \* screen -> the figures it shows
          forms,    \* desk -> its dialog
          sent,     \* requests the API has not served
          waiting   \* desk -> the request it waits for

account == <<work, handovers, balance, since, clock, receipts>>
screens == <<views, forms>>
requests == <<sent, waiting>>
vars == <<account, screens, requests>>
-----------------------------------------------------------------------------
Account == INSTANCE DriverAccount WITH Drivers <- {Driver}, Payments <- [Currencies -> Int]

Pile == work[Driver]

\* unsettledWhere: delivered, nobody collected on it, and not after the cutoff.
Unsettled(cutoff) == {item \in Pile : since[item] <= cutoff}

Count(items, cur) == Cardinality({item \in items : item.currency = cur})

\* The lines of a preview, and of what a driver owes: one per currency with
\* work or debt.
Lines(swept, carried) ==
  LET owed == {cur \in Currencies : Count(swept, cur) # 0 \/ carried[cur] # 0} IN
  [cur \in owed |-> [orderCount |-> Count(swept, cur),
                     commissionDue |-> Account!Due(swept, cur),
                     broughtForward |-> carried[cur],
                     totalDue |-> Account!Due(swept, cur) + carried[cur]]]

\* assertNoDrift compares these.
Expected(lines) == [cur \in DOMAIN lines |->
                      [orderCount |-> lines[cur].orderCount, totalDue |-> lines[cur].totalDue]]

MutPeriodOpen(cutoff) == TRUE

PeriodOpen(cutoff) == \A i \in DOMAIN receipts : cutoff > receipts[i].periodEnd

\* toMinorUnits of what a box holds.
Parsed(typed) == IF typed \in {Blank, Bad} \/ typed < 0 THEN None ELSE typed

Signed(adjustment) ==
  IF adjustment.direction = "DEBIT" THEN Parsed(adjustment.amount) ELSE -Parsed(adjustment.amount)

Adjusted(adjustments, cur) ==
  MapThenSumSet(Signed, {adjustment \in adjustments : adjustment.currency = cur})
-----------------------------------------------------------------------------
NoForm == [open |-> FALSE, seeded |-> FALSE, boxes |-> [cur \in Currencies |-> Blank],
           adjustments |-> {}]

\* fromMinorUnits of the total due: nobody hands over a negative amount.
Seed(due) == IF due > 0 THEN due ELSE 0

MutSeeded(form, view) ==
  [form EXCEPT !.seeded = TRUE, !.adjustments = {},
     !.boxes = [cur \in Currencies |->
                  IF cur \in DOMAIN view.lines THEN Seed(view.lines[cur].totalDue) ELSE Blank]]

\* The form is filled once per opening, when the first figures arrive.
Seeded(form, view) ==
  IF form.seeded THEN form
  ELSE [open |-> TRUE, seeded |-> TRUE, adjustments |-> {},
        boxes |-> [cur \in Currencies |->
                     IF cur \in DOMAIN view.lines THEN Seed(view.lines[cur].totalDue) ELSE Blank]]

InvalidAmount(form, lines) == \E cur \in DOMAIN lines : Parsed(form.boxes[cur]) = None

AdjustmentError(adjustment) == Parsed(adjustment.amount) \in {None, 0}

\* Boxes on the screen: the lines' and those of currencies only adjusted.
Boxes(form, lines) == DOMAIN lines \cup {adjustment.currency : adjustment \in form.adjustments}

\* "Record payment" can be pressed.
Recordable(form, lines) ==
  /\ DOMAIN lines # {} \/ form.adjustments # {}
  /\ ~InvalidAmount(form, lines)
  /\ ~\E adjustment \in form.adjustments : AdjustmentError(adjustment)
-----------------------------------------------------------------------------
Init == /\ Account!Init
        /\ since = [item \in Items |-> 0]
        /\ clock = 1
        /\ receipts = <<>>
        /\ views = [a \in Desks |-> None]
        /\ forms = [a \in Desks |-> NoForm]
        /\ sent = {}
        /\ waiting = [a \in Desks |-> None]

\* deliver() of an order stamped now, or stamped a while ago.
Deliver(item, at) ==
  /\ Account!Deliver(Driver, item)
  /\ at <= MaxClock
  /\ since' = [since EXCEPT ![item] = at]
  /\ clock' = Max({clock, at})
  /\ UNCHANGED <<receipts, screens, requests>>

\* A handover of what is unsettled at a cutoff, and its receipt.
Record(cutoff, paid, receipt) ==
  /\ Len(receipts) < MaxHandovers /\ cutoff < MaxClock
  /\ Account!HandOver(Driver, Unsettled(cutoff), paid)
  /\ receipts' = Append(receipts, receipt)
  /\ clock' = Max({clock, cutoff + 1})
  /\ UNCHANGED since

\* Another admin, on a device that is not modelled, settles in full.
SettleElsewhere ==
  LET lines == Lines(Unsettled(clock), balance[Driver])
      paid == [cur \in Currencies |-> IF cur \in DOMAIN lines THEN Seed(lines[cur].totalDue) ELSE 0]
  IN  /\ DOMAIN lines # {} /\ PeriodOpen(clock)
      /\ Record(clock, paid, [periodEnd |-> clock, shown |-> Expected(lines), adjusted |-> {},
                              cash |-> paid])
      /\ UNCHANGED <<screens, requests>>

\* The Void button of a receipt's page: only the last that stands gives way.
Void == /\ Account!Undo(Driver)
        /\ receipts' = SubSeq(receipts, 1, Len(receipts) - 1)
        /\ UNCHANGED <<since, clock, screens, requests>>
-----------------------------------------------------------------------------
\* outstanding(): the worklist has a row, with its Settle button.  The first
\* figures may arrive when there is nothing owed any more.
Worklist == {cur \in Currencies : Count(Pile, cur) # 0 \/ balance[Driver][cur] # 0}

Open(a) == /\ Worklist # {} /\ ~forms[a].open
           /\ forms' = [forms EXCEPT ![a] = [NoForm EXCEPT !.open = TRUE]]
           /\ UNCHANGED <<account, views, requests>>

\* Nothing of a preview is kept beyond the dialog being open.
Shut(a) == /\ forms' = [forms EXCEPT ![a] = NoForm]
           /\ views' = [views EXCEPT ![a] = None]

Close(a) == /\ forms[a].open
            /\ Shut(a)
            /\ UNCHANGED <<account, requests>>

\* A page of the newest deliveries.
Page(items) ==
  IF Cardinality(items) <= ListLimit THEN items
  ELSE CHOOSE page \in SUBSET items :
    /\ Cardinality(page) = ListLimit
    /\ \A item \in page, older \in items \ page : since[item] >= since[older]

MutItemised(items) == Page(items)

\* itemisedByCurrency: a page of each, for one page of both might hold nothing
\* of one of them.
Itemised(items) == UNION {Page({item \in items : item.currency = cur}) : cur \in Currencies}

MutView == [cutoff |-> clock + 1, lines |-> Lines(Pile, balance[Driver]),
            orders |-> Itemised(Pile)]

\* preview() and owedByDriver(): the lines, and the deliveries under them.
View == [cutoff |-> clock, lines |-> Lines(Unsettled(clock), balance[Driver]),
         orders |-> Itemised(Unsettled(clock))]

Show(a) ==
  /\ forms[a].open
  /\ views' = [views EXCEPT ![a] = View]
  /\ forms' = [forms EXCEPT ![a] = Seeded(@, View)]
  /\ UNCHANGED <<account, requests>>

\* The admin types into a box on the screen, or edits his adjustments.
Type(a, cur, typed) ==
  /\ views[a] # None /\ cur \in Boxes(forms[a], views[a].lines)
  /\ forms' = [forms EXCEPT ![a].boxes[cur] = typed]
  /\ UNCHANGED <<account, views, requests>>

Adjust(a, adjustments) ==
  /\ views[a] # None
  /\ DOMAIN views[a].lines # {} \/ forms[a].adjustments # {}
  /\ forms' = [forms EXCEPT ![a].adjustments = adjustments]
  /\ UNCHANGED <<account, views, requests>>
-----------------------------------------------------------------------------
\* onSubmit: every box that is not blank goes, on the screen or not.
Request(a, try) ==
  [desk |-> a, try |-> try, cutoff |-> views[a].cutoff, expected |-> Expected(views[a].lines),
   collections |-> [cur \in {c \in Currencies : forms[a].boxes[c] # Blank} |-> forms[a].boxes[cur]],
   adjustments |-> forms[a].adjustments,
   visible |-> Boxes(forms[a], views[a].lines)]

Submit(a) ==
  LET free == Tries \ {request.try : request \in {r \in sent : r.desk = a}} IN
  /\ views[a] # None /\ Recordable(forms[a], views[a].lines)
  /\ waiting[a] = None /\ free # {}
  /\ sent' = sent \cup {Request(a, Min(free))}
  /\ waiting' = [waiting EXCEPT ![a] = Request(a, Min(free))]
  /\ UNCHANGED <<account, screens>>

\* createSettlementSchema: cash only where a line can come of it.
Valid(request) ==
  \A cur \in DOMAIN request.collections :
    /\ Parsed(request.collections[cur]) # None
    /\ cur \in DOMAIN request.expected \cup
                 {adjustment.currency : adjustment \in request.adjustments}

Collected(request, cur) ==
  IF cur \in DOMAIN request.collections THEN request.collections[cur] ELSE 0

Paid(request) ==
  [cur \in Currencies |-> Collected(request, cur) - Adjusted(request.adjustments, cur)]

MutAgreed(request) ==
  /\ PeriodOpen(request.cutoff)
  /\ DOMAIN request.expected = DOMAIN Lines(Unsettled(request.cutoff), balance[Driver])

Agreed(request) ==
  /\ PeriodOpen(request.cutoff)
  /\ request.expected = Expected(Lines(Unsettled(request.cutoff), balance[Driver]))

\* An adjustment that nets to nothing, with no work, debt or cash.
NothingToSettle(request) ==
  /\ DOMAIN request.expected = {}
  /\ \A cur \in Currencies : Collected(request, cur) = 0 /\ Adjusted(request.adjustments, cur) = 0

Receipt(request) ==
  [periodEnd |-> request.cutoff, shown |-> request.expected, adjusted |-> request.adjustments,
   cash |-> [cur \in Currencies |-> IF cur \in request.visible THEN Collected(request, cur) ELSE 0]]

\* settle() records the handover, and the answer closes the dialog, be it
\* another one by now, ...
Settle(request) ==
  LET a == request.desk IN
  /\ Valid(request) /\ Agreed(request) /\ ~NothingToSettle(request)
  /\ Record(request.cutoff, Paid(request), Receipt(request))
  /\ sent' = sent \ {request}
  /\ IF waiting[a] = request THEN Shut(a) /\ waiting' = [waiting EXCEPT ![a] = None]
     ELSE UNCHANGED <<views, forms, waiting>>

\* ... or refuses: the form stays as it is, and the admin is told.
Refuse(request) ==
  LET a == request.desk IN
  /\ ~(Valid(request) /\ Agreed(request)) \/ NothingToSettle(request)
  /\ sent' = sent \ {request}
  /\ waiting' = IF waiting[a] = request THEN [waiting EXCEPT ![a] = None] ELSE waiting
  /\ UNCHANGED <<account, screens>>

\* A request is lost on its way, ...
Lose(request) == /\ sent' = sent \ {request}
                 /\ UNCHANGED <<account, screens, waiting>>

\* ... and the dialog is left with an error, whether it was lost or not.
GiveUp(a) == /\ waiting[a] # None
             /\ waiting' = [waiting EXCEPT ![a] = None]
             /\ UNCHANGED <<account, screens, sent>>
-----------------------------------------------------------------------------
Next ==
  \/ \E item \in Items, at \in {clock, clock + 1} : Deliver(item, at)
  \/ SettleElsewhere
  \/ Void
  \/ \E a \in Desks :
       \/ Open(a) \/ Show(a) \/ Close(a) \/ Submit(a) \/ GiveUp(a)
       \/ \E cur \in Currencies, typed \in Typed : Type(a, cur, typed)
       \/ \E adjustments \in Forms : Adjust(a, adjustments)
  \/ \E request \in sent : Settle(request) \/ Refuse(request) \/ Lose(request)

Spec == Init /\ [][Next]_vars
-----------------------------------------------------------------------------
Figures == [orderCount : Nat, totalDue : Int]
LineRows == [orderCount : Nat, commissionDue : Nat, broughtForward : Int, totalDue : Int]
IsPartial(f, S) == DOMAIN f \subseteq Currencies /\ \A cur \in DOMAIN f : f[cur] \in S

\* Types of the account, the screens and the requests.
TypeOK ==
  /\ Pile \subseteq Items /\ balance \in [{Driver} -> [Currencies -> Int]]
  /\ Len(handovers[Driver]) = Len(receipts) /\ clock \in 1 .. MaxClock
  /\ since \in [Items -> 0 .. clock]
  /\ \A i \in DOMAIN receipts : /\ receipts[i].periodEnd \in 1 .. MaxClock
                               /\ IsPartial(receipts[i].shown, Figures)
                               /\ receipts[i].adjusted \in Forms
                               /\ receipts[i].cash \in [Currencies -> Nat]
  /\ \A a \in Desks :
       /\ views[a] # None => /\ views[a].cutoff \in 1 .. clock
                             /\ IsPartial(views[a].lines, LineRows)
                             /\ views[a].orders \subseteq Items
  /\ forms \in [Desks -> [open : BOOLEAN, seeded : BOOLEAN,
                          boxes : [Currencies -> Int \cup {Blank, Bad}], adjustments : Forms]]
  /\ \A request \in sent : /\ request.desk \in Desks /\ request.try \in Tries
                            /\ request.cutoff \in 1 .. clock
                            /\ IsPartial(request.expected, Figures)
                            /\ request.adjustments \in Forms

\* The comment on seededFor: figures that arrive while the dialog is open
\* wipe nothing the admin typed, and the first ones leave him a form he can
\* submit as it is, also when the driver is in credit.
AnswersSpareTheForm ==
  [][\A a \in Desks :
       views'[a] # views[a] /\ forms'[a].open =>
         IF forms[a].seeded THEN forms'[a] = forms[a]
         ELSE ~InvalidAmount(forms'[a], views'[a].lines)]_vars

\* What the two counted is what is on record: per currency the deliveries and
\* the total that were on the screen when the button was pressed, less the
\* cash in the boxes that were there, plus the adjustments.
CarriedInto(i, cur) == IF i = 1 THEN 0 ELSE handovers[Driver][i - 1].carried[cur]

RecordedAsAgreed ==
  \A i \in DOMAIN receipts : \A cur \in Currencies :
    LET shown == IF cur \in DOMAIN receipts[i].shown THEN receipts[i].shown[cur]
                 ELSE [orderCount |-> 0, totalDue |-> 0]
        handover == handovers[Driver][i]
    IN  /\ shown.orderCount = Count(handover.items, cur)
        /\ shown.totalDue = Account!Due(handover.items, cur) + CarriedInto(i, cur)
        /\ handover.carried[cur] =
             shown.totalDue + Adjusted(receipts[i].adjusted, cur) - receipts[i].cash[cur]

\* The dialog is left open when the answer is lost, and pressed again, it
\* sends the same cutoff: no two handovers that stand come of one preview,
\* though the totals may agree with both.
OneHandoverPerPreview ==
  \A i, j \in DOMAIN receipts : i # j => receipts[i].periodEnd # receipts[j].periodEnd

\* OwedPanel's three lists.
OwedLines(lines) == {cur \in DOMAIN lines : lines[cur].totalDue > 0}
CreditLines(lines) == {cur \in DOMAIN lines : lines[cur].totalDue < 0}
CoveredByCredit(lines) ==
  {cur \in DOMAIN lines : lines[cur].totalDue = 0 /\ lines[cur].orderCount > 0}

\* What OrderBreakdown says of the deliveries behind a line: nothing without a
\* row, that there are more, or that they add up.
Breakdown(view, cur) ==
  LET rows == {item \in view.orders : item.currency = cur} IN
  CASE rows = {} -> "nothing"
    [] Cardinality(rows) < view.lines[cur].orderCount -> "truncated"
    [] Account!Due(rows, cur) = view.lines[cur].commissionDue -> "reconciles"
    [] OTHER -> "mismatch"

\* The comments on coveredByCredit and itemisedByCurrency: no currency with
\* deliveries or a balance disappears from the screen the driver checks before
\* walking in to pay, and no figure for deliveries is without its list, whole
\* or said to be part of it.
PanelTellsAll ==
  LET view == View
      lines == view.lines
  IN
  /\ OwedLines(lines) \cup CreditLines(lines) \cup CoveredByCredit(lines) = DOMAIN lines
  /\ \A cur \in DOMAIN lines : lines[cur].orderCount # 0 =>
       Breakdown(view, cur) \in {"truncated", "reconciles"}
=============================================================================

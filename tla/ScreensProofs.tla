---------------------------- MODULE ScreensProofs ----------------------------
(***************************************************************************)
(* What the screens show and send, in two parts.                           *)
(*                                                                         *)
(* The counter (SettleDesk), for any number of desks, deliveries,          *)
(* currencies, moments, handovers and requests on their way, of which the  *)
(* runs check a few.  IInv is about moments: a cutoff is used up by the    *)
(* handover that swept with it, since it must be later than every period   *)
(* that stands.  TInv is about what the figures say: every handover that   *)
(* stands carries what its receipt shows less the cash plus the            *)
(* adjustments, what is on a screen was read by now, and what was          *)
(* submitted had no error in it.                                           *)
(*                                                                         *)
(* The live screens (LiveScreens), for any number of tabs.  AnswersInv: a  *)
(* tab has one request for its queries on its way, which was read no       *)
(* earlier than what the tab shows.  LiveInv: an event about an order that *)
(* is taken has its driver to go to.  EventsInv: who is in which room, and *)
(* who moves whose socket; with it, a commit that changes what a tab sees  *)
(* is told it, by an event or by its own answer, and InTouch is kept by    *)
(* every step of a tab that stays in its rooms.                            *)
(***************************************************************************)
EXTENDS SettleDesk, LiveScreens, Sums, SequenceTheorems, TLAPS

\* Moments are numbers, on the clock, the screens and the requests.
Moments ==
  /\ clock \in Nat
  /\ \A a \in Desks : views[a] # None => views[a].cutoff \in Nat
  /\ \A request \in sent : request.desk \in Desks /\ request.cutoff \in Nat

\* The receipts are in the order of their cutoffs.
Increasing ==
  /\ \A i \in DOMAIN receipts : receipts[i].periodEnd \in Nat
  /\ \A i, j \in DOMAIN receipts : i < j => receipts[i].periodEnd < receipts[j].periodEnd

IInv == /\ Moments /\ Increasing
        /\ views = [a \in Desks |-> views[a]]
        /\ \E S : receipts \in Seq(S)
-----------------------------------------------------------------------------
\* The later of two moments is a moment.
LEMMA MaxOfTwo == ASSUME NEW m \in Nat, NEW n \in Nat PROVE Max({m, n}) \in Nat
<1>1. \E x \in {m, n} : \A y \in {m, n} : x >= y
  OBVIOUS
<1> QED BY <1>1 DEF Max

\* A sequence over a set is one over any larger set.
LEMMA InAnyLarger == ASSUME NEW S, NEW T, S \subseteq T, NEW s \in Seq(S) PROVE s \in Seq(T)
OBVIOUS

\* A handover whose cutoff is later than every period that stands.
LEMMA Recorded ==
  ASSUME IInv, NEW cutoff \in Nat, NEW paid, NEW receipt, receipt.periodEnd = cutoff,
         PeriodOpen(cutoff), Record(cutoff, paid, receipt)
  PROVE  clock' \in Nat /\ Increasing' /\ \E S : receipts' \in Seq(S)
<1>1. PICK S : receipts \in Seq(S)
  BY DEF IInv
<1> DEFINE T == S \cup {receipt}
<1>2. receipts \in Seq(T) /\ receipt \in T
  BY <1>1, InAnyLarger
<1>3. receipts' = Append(receipts, receipt) /\ clock' = Max({clock, cutoff + 1})
  BY DEF Record
<1> HIDE DEF T
<1>4. /\ receipts' \in Seq(T) /\ Len(receipts) \in Nat
      /\ DOMAIN receipts = 1 .. Len(receipts) /\ DOMAIN receipts' = 1 .. Len(receipts) + 1
      /\ \A i \in DOMAIN receipts : receipts'[i] = receipts[i]
      /\ receipts'[Len(receipts) + 1] = receipt
  BY <1>2, <1>3
<1>5. Increasing'
  <2>1. \A i \in DOMAIN receipts : receipts[i].periodEnd \in Nat /\ receipts[i].periodEnd < cutoff
    BY DEF IInv, Increasing, PeriodOpen
  <2>2. \A i \in DOMAIN receipts' : receipts'[i].periodEnd \in Nat
    BY <1>4, <2>1
  <2>3. \A i, j \in DOMAIN receipts' : i < j => receipts'[i].periodEnd < receipts'[j].periodEnd
    <3> SUFFICES ASSUME NEW i \in DOMAIN receipts', NEW j \in DOMAIN receipts', i < j
                 PROVE  receipts'[i].periodEnd < receipts'[j].periodEnd
      OBVIOUS
    <3>1. i \in DOMAIN receipts
      BY <1>4
    <3>2. CASE j \in DOMAIN receipts
      BY <1>4, <3>1, <3>2 DEF IInv, Increasing
    <3>3. CASE j = Len(receipts) + 1
      BY <1>4, <2>1, <3>1, <3>3
    <3> QED BY <1>4, <3>2, <3>3
  <2> QED BY <2>2, <2>3 DEF Increasing
<1>6. clock' \in Nat
  <2>1. clock \in Nat /\ cutoff + 1 \in Nat
    BY DEF IInv, Moments
  <2> QED BY <1>3, <2>1, MaxOfTwo
<1> QED BY <1>4, <1>5, <1>6

\* The last handover is undone.
LEMMA Undone ==
  ASSUME IInv, Void
  PROVE  Increasing' /\ \E S : receipts' \in Seq(S)
<1>1. PICK S : receipts \in Seq(S)
  BY DEF IInv
<1>2. receipts' = SubSeq(receipts, 1, Len(receipts) - 1)
  BY DEF Void
<1>3. /\ receipts' \in Seq(S) /\ Len(receipts) \in Nat
      /\ DOMAIN receipts' \subseteq DOMAIN receipts
      /\ \A i \in DOMAIN receipts' : receipts'[i] = receipts[i]
  <2>1. CASE Len(receipts) = 0
    BY <1>1, <1>2, <2>1
  <2>2. CASE Len(receipts) # 0
    BY <1>1, <1>2, <2>2, SubSeqProperties
  <2> QED BY <2>1, <2>2
<1>4. Increasing'
  BY <1>3 DEF IInv, Increasing
<1> QED BY <1>3, <1>4

\* A dialog that is shut shows no moment any more.
LEMMA ShutKeeps ==
  ASSUME IInv, NEW a \in Desks, Shut(a)
  PROVE  /\ views' = [b \in Desks |-> views'[b]]
         /\ \A b \in Desks : views'[b] # None => views'[b].cutoff \in Nat
<1>1. views' = [views EXCEPT ![a] = None] /\ views = [b \in Desks |-> views[b]]
  BY DEF Shut, IInv
<1> QED BY <1>1 DEF IInv, Moments
-----------------------------------------------------------------------------
\* Deliveries, handovers made elsewhere and voids keep the order of the receipts.
LEMMA AccountKeeps ==
  ASSUME IInv,
         \/ \E item \in Items, at \in {clock, clock + 1} : Deliver(item, at)
         \/ SettleElsewhere \/ Void
  PROVE  IInv'
<1>1. UNCHANGED <<views, sent>>
  BY DEF Deliver, SettleElsewhere, Void, screens, requests
<1>2. clock' \in Nat /\ Increasing' /\ \E S : receipts' \in Seq(S)
  <2>1. ASSUME NEW item \in Items, NEW at \in {clock, clock + 1}, Deliver(item, at)
        PROVE  clock' \in Nat /\ UNCHANGED receipts
    <3>1. clock \in Nat /\ at \in Nat
      BY DEF IInv, Moments
    <3>2. clock' = Max({clock, at}) /\ UNCHANGED receipts
      BY <2>1 DEF Deliver
    <3> QED BY <3>1, <3>2, MaxOfTwo
  <2>2. CASE SettleElsewhere
    BY <2>2, Recorded DEF SettleElsewhere, IInv, Moments
  <2>3. CASE Void
    BY <2>3, Undone DEF Void, IInv, Moments
  <2>4. CASE clock' \in Nat /\ UNCHANGED receipts
    BY <2>4 DEF IInv, Increasing
  <2> QED BY <2>1, <2>2, <2>3, <2>4
<1> QED BY <1>1, <1>2 DEF IInv, Moments

\* What an admin does at his screen touches no account.
LEMMA ScreensKeep ==
  ASSUME IInv, NEW a \in Desks,
         \/ Open(a) \/ Show(a) \/ Close(a) \/ Submit(a) \/ GiveUp(a)
         \/ \E cur \in Currencies, typed \in Typed : Type(a, cur, typed)
         \/ \E adjustments \in Forms : Adjust(a, adjustments)
  PROVE  IInv'
<1>1. UNCHANGED <<clock, receipts>>
  BY DEF Open, Show, Close, Submit, GiveUp, Type, Adjust, account
<1>2. Increasing' /\ \E S : receipts' \in Seq(S)
  BY <1>1 DEF IInv, Increasing
<1>3. /\ views' = [b \in Desks |-> views'[b]]
      /\ \A b \in Desks : views'[b] # None => views'[b].cutoff \in Nat
  <2>1. CASE Show(a)
    <3>1. views' = [views EXCEPT ![a] = View] /\ View.cutoff = clock
      BY <2>1 DEF Show, View
    <3> QED BY <3>1 DEF IInv, Moments
  <2>2. CASE Close(a)
    BY <2>2, ShutKeeps DEF Close
  <2>3. CASE UNCHANGED views
    BY <2>3 DEF IInv, Moments
  <2> QED BY <2>1, <2>2, <2>3 DEF Open, Submit, GiveUp, Type, Adjust, screens
<1>4. \A request \in sent' : request.desk \in Desks /\ request.cutoff \in Nat
  <2>1. CASE Submit(a)
    <3>1. PICK try : sent' = sent \cup {Request(a, try)}
      BY <2>1 DEF Submit
    <3>2. Request(a, try).desk = a /\ Request(a, try).cutoff \in Nat
      BY <2>1 DEF Submit, Request, IInv, Moments
    <3> QED BY <3>1, <3>2 DEF IInv, Moments
  <2>2. CASE UNCHANGED sent
    BY <2>2 DEF IInv, Moments
  <2> QED BY <2>1, <2>2 DEF Open, Show, Close, GiveUp, Type, Adjust, requests
<1> QED BY <1>1, <1>2, <1>3, <1>4 DEF IInv, Moments

\* A request that is served, refused or lost: what is recorded comes last.
LEMMA RequestsKeep ==
  ASSUME IInv, NEW request \in sent,
         Settle(request) \/ Refuse(request) \/ Lose(request)
  PROVE  IInv'
<1>1. sent' \subseteq sent /\ request.desk \in Desks /\ request.cutoff \in Nat
  BY DEF Settle, Refuse, Lose, IInv, Moments
<1>2. CASE Settle(request)
  <2>1. clock' \in Nat /\ Increasing' /\ \E S : receipts' \in Seq(S)
    BY <1>1, <1>2, Recorded DEF Settle, Agreed, Receipt
  <2>2. /\ views' = [b \in Desks |-> views'[b]]
        /\ \A b \in Desks : views'[b] # None => views'[b].cutoff \in Nat
    <3>1. CASE Shut(request.desk)
      BY <1>1, <3>1, ShutKeeps
    <3>2. CASE UNCHANGED views
      BY <3>2 DEF IInv, Moments
    <3> QED BY <1>2, <3>1, <3>2 DEF Settle
  <2> QED BY <1>1, <2>1, <2>2 DEF IInv, Moments
<1>3. CASE Refuse(request) \/ Lose(request)
  <2>1. UNCHANGED <<views, clock, receipts>>
    BY <1>3 DEF Refuse, Lose, account, screens
  <2> QED BY <1>1, <2>1 DEF IInv, Moments, Increasing
<1> QED BY <1>2, <1>3

\* Every step keeps the order of the receipts.
LEMMA Inductive == IInv /\ [Next]_vars => IInv'
<1> SUFFICES ASSUME IInv, [Next]_vars PROVE IInv'
  OBVIOUS
<1>1. CASE UNCHANGED vars
  BY <1>1 DEF vars, account, screens, requests, IInv, Moments, Increasing
<1> QED BY <1>1, AccountKeeps, ScreensKeep, RequestsKeep DEF Next

\* There are no receipts to begin with.
LEMMA InitIInv == Init => IInv
BY DEF Init, IInv, Moments, Increasing

\* The dialog is left open when an answer is lost and sends the same cutoff
\* again: however often, and whatever happens in between, at most one of those
\* requests is on record (settle()'s check of the period).
THEOREM PreviewIsUsedOnce == Spec => []OneHandoverPerPreview
<1>1. IInv => OneHandoverPerPreview
  <2> SUFFICES ASSUME IInv, NEW i \in DOMAIN receipts, NEW j \in DOMAIN receipts, i # j
               PROVE  receipts[i].periodEnd # receipts[j].periodEnd
    BY DEF OneHandoverPerPreview
  <2>1. i \in Nat /\ j \in Nat /\ receipts[i].periodEnd \in Nat /\ receipts[j].periodEnd \in Nat
    BY DEF IInv, Increasing
  <2> QED BY <2>1 DEF IInv, Increasing
<1> QED BY <1>1, InitIInv, Inductive, PTL DEF Spec
-----------------------------------------------------------------------------
\* What deliveries are due is a sum; deliveries and dues are counted in naturals.
LEMMA GroupTyped ==
  ASSUME NEW S \in SUBSET Items, NEW cur
  PROVE  /\ Count(S, cur) \in Nat /\ Account!Due(S, cur) \in Nat
         /\ Count(S, cur) = 0 => Account!Due(S, cur) = 0
<1> DEFINE G == {item \in S : item.currency = cur}
           fun == [item \in G |-> item.commission]
<1>1. G \in SUBSET Items /\ IsFiniteSet(G) /\ Cardinality(G) \in Nat
  <2>1. G \in SUBSET Items
    OBVIOUS
  <2> HIDE DEF G
  <2> QED BY <2>1, FS_Subset, FS_CardinalityType, DeskAssumption
<1>2. Account!Due(S, cur) = Sum(fun, G)
  <2>1. Account!Due(S, cur) = MapThenSumSet(LAMBDA item : item.commission, G)
    BY Zenon DEF Account!Due, Account!MapThenSumSet, Account!MapThenFoldSet,
                 MapThenSumSet, MapThenFoldSet
  <2> HIDE DEF G
  <2> QED BY <1>1, <2>1, SumOfCommissions
<1>3. \A item \in G : fun[item] \in Nat
  <2>1. \A item \in Items : item.commission \in Nat
    BY DeskAssumption
  <2> QED BY <2>1
<1>4. Count(S, cur) = Cardinality(G)
  BY DEF Count
<1> HIDE DEF G, fun
<1>5. Sum(fun, G) \in Nat
  BY <1>1, <1>3, SumTyped
<1>6. Cardinality(G) = 0 => Sum(fun, G) = 0
  BY <1>1, FS_EmptySet, SumOfNone
<1> QED BY <1>1, <1>2, <1>4, <1>5, <1>6

\* The lines of a preview, as they are sent back.
LEMMA LinesTyped ==
  ASSUME NEW S \in SUBSET Items, NEW carried \in [Currencies -> Int]
  PROVE  /\ IsPartial(Lines(S, carried), LineRows)
         /\ IsPartial(Expected(Lines(S, carried)), Figures)
         /\ DOMAIN Expected(Lines(S, carried)) = DOMAIN Lines(S, carried)
<1> DEFINE lines == Lines(S, carried)
           owed == {cur \in Currencies : Count(S, cur) # 0 \/ carried[cur] # 0}
<1>1. lines = [cur \in owed |-> [orderCount |-> Count(S, cur),
                                 commissionDue |-> Account!Due(S, cur),
                                 broughtForward |-> carried[cur],
                                 totalDue |-> Account!Due(S, cur) + carried[cur]]]
  BY DEF Lines
<1>2. ASSUME NEW cur \in owed
      PROVE  /\ lines[cur] \in LineRows
             /\ [orderCount |-> lines[cur].orderCount, totalDue |-> lines[cur].totalDue] \in Figures
  <2>1. Count(S, cur) \in Nat /\ Account!Due(S, cur) \in Nat /\ carried[cur] \in Int
    BY GroupTyped
  <2>2. lines[cur] = [orderCount |-> Count(S, cur), commissionDue |-> Account!Due(S, cur),
                      broughtForward |-> carried[cur],
                      totalDue |-> Account!Due(S, cur) + carried[cur]]
    BY <1>1
  <2> HIDE DEF lines, owed
  <2> QED BY <2>1, <2>2 DEF LineRows, Figures
<1>3. DOMAIN lines = owed /\ owed \subseteq Currencies
  BY <1>1
<1> HIDE DEF lines, owed
<1> QED BY <1>2, <1>3 DEF IsPartial, Expected, lines

\* What a preview says of each currency, with a line or without.
LEMMA LinesTell ==
  ASSUME NEW S \in SUBSET Items, NEW carried \in [Currencies -> Int], NEW cur \in Currencies
  PROVE  LET onScreen == Expected(Lines(S, carried)) IN
         /\ cur \in DOMAIN onScreen =>
              onScreen[cur] = [orderCount |-> Count(S, cur),
                            totalDue |-> Account!Due(S, cur) + carried[cur]]
         /\ cur \notin DOMAIN onScreen =>
              Count(S, cur) = 0 /\ Account!Due(S, cur) = 0 /\ carried[cur] = 0
<1>1. cur \notin DOMAIN Expected(Lines(S, carried)) => Count(S, cur) = 0 /\ carried[cur] = 0
  BY DEF Expected, Lines
<1>2. cur \in DOMAIN Expected(Lines(S, carried)) =>
        Expected(Lines(S, carried))[cur] = [orderCount |-> Count(S, cur),
                                            totalDue |-> Account!Due(S, cur) + carried[cur]]
  BY DEF Expected, Lines
<1> QED BY <1>1, <1>2, GroupTyped

\* The adjustments of a form net to a sum.
LEMMA SumOfSigned ==
  ASSUME NEW S, IsFiniteSet(S)
  PROVE  MapThenSumSet(Signed, S) = Sum([item \in S |-> Signed(item)], S)
<1> DEFINE fun == [item \in S |-> Signed(item)]
           Folds(g) == g = [s \in SUBSET S |-> IF s = {} THEN 0
                              ELSE Signed(First(s)) + g[s \ {First(s)}]]
<1>1. MapThenSumSet(Signed, S) = (CHOOSE g : Folds(g))[S]
  BY Zenon DEF MapThenSumSet, MapThenFoldSet, First
<1>2. ASSUME NEW g PROVE Folds(g) <=> IsSum(fun, S, g)
  <2>1. ASSUME NEW s \in SUBSET S, s # {} PROVE fun[First(s)] = Signed(First(s))
    BY <2>1, FirstIsMember
  <2> HIDE DEF fun
  <2> QED BY <2>1 DEF IsSum
<1>3. PICK h : IsSum(fun, S, h) /\ h[S] = Sum(fun, S)
  BY SumOf
<1>4. PICK f : Folds(f) /\ f = CHOOSE g : Folds(g)
  BY <1>2, <1>3
<1>5. f[S] = h[S]
  <2> HIDE DEF fun, Folds
  <2> QED BY <1>2, <1>3, <1>4, SumUnique
<1> QED BY <1>1, <1>3, <1>4, <1>5

\* A number in a box is read as itself, anything else as None.
LEMMA ParsedIs ==
  ASSUME NEW typed
  PROVE  /\ typed \in Nat => Parsed(typed) = typed /\ Parsed(typed) # None
         /\ typed \in Int \cup {Blank, Bad} /\ Parsed(typed) # None => typed \in Nat
BY DeskAssumption DEF Parsed

\* Adjustments without an error net to an integer, none to 0.
LEMMA AdjustedTyped ==
  ASSUME NEW adjustments \in Forms, NEW cur,
         \A adjustment \in adjustments : ~AdjustmentError(adjustment)
  PROVE  Adjusted(adjustments, cur) \in Int /\ Adjusted({}, cur) = 0
<1> DEFINE G(S) == {adjustment \in S : adjustment.currency = cur}
           fun(S) == [adjustment \in G(S) |-> Signed(adjustment)]
<1>1. ASSUME NEW S \in SUBSET adjustments
      PROVE  /\ IsFiniteSet(G(S)) /\ Adjusted(S, cur) = Sum(fun(S), G(S))
  <2>1. IsFiniteSet(G(S))
    <3>1. IsFiniteSet(adjustments) /\ G(S) \in SUBSET adjustments
      BY DeskAssumption
    <3> HIDE DEF G
    <3> QED BY <3>1, FS_Subset
  <2>2. MapThenSumSet(Signed, G(S)) = Sum(fun(S), G(S))
    <3> HIDE DEF G
    <3> QED BY <2>1, SumOfSigned
  <2> QED BY <2>1, <2>2 DEF Adjusted
<1>2. \A adjustment \in adjustments : Signed(adjustment) \in Int
  <2> SUFFICES ASSUME NEW adjustment \in adjustments PROVE Signed(adjustment) \in Int
    OBVIOUS
  <2>1. adjustment.amount \in Int \cup {Blank, Bad}
    BY DeskAssumption
  <2>2. Parsed(adjustment.amount) # None
    BY DEF AdjustmentError
  <2>3. Parsed(adjustment.amount) \in Nat
    BY <2>1, <2>2, ParsedIs
  <2> QED BY <2>3 DEF Signed
<1>3. Sum(fun(adjustments), G(adjustments)) \in Int
  <2>1. IsFiniteSet(G(adjustments))
    BY <1>1
  <2>2. \A adjustment \in G(adjustments) : fun(adjustments)[adjustment] \in Int
    BY <1>2
  <2> HIDE DEF G, fun
  <2> QED BY <2>1, <2>2, SumTyped
<1>4. Adjusted({}, cur) = 0
  <2>1. G({}) = {}
    OBVIOUS
  <2> HIDE DEF fun, G
  <2> QED BY <1>1, <2>1, SumOfNone
<1> QED BY <1>1, <1>3, <1>4
-----------------------------------------------------------------------------
\* The account's types; receipts and handovers go together, and the balance is
\* what the last handover carried.
AccountInv ==
  /\ work \in [{Driver} -> SUBSET Items]
  /\ balance \in [{Driver} -> [Currencies -> Int]]
  /\ \E stack \in Seq([items : SUBSET Items, carried : [Currencies -> Int]]) :
       /\ handovers = [d \in {Driver} |-> stack]
       /\ Len(stack) = Len(receipts)
       /\ balance[Driver] = Account!Carried(stack)

\* What a receipt says of its handover.
AsAgreed(receipt, handover, brought) ==
  /\ receipt.adjusted \in Forms
  /\ receipt.cash \in [Currencies -> Nat]
  /\ IsPartial(receipt.shown, Figures)
  /\ \A cur \in Currencies :
       LET onScreen == IF cur \in DOMAIN receipt.shown THEN receipt.shown[cur]
                    ELSE [orderCount |-> 0, totalDue |-> 0]
       IN  /\ onScreen.orderCount = Count(handover.items, cur)
           /\ onScreen.totalDue = Account!Due(handover.items, cur) + brought[cur]
           /\ handover.carried[cur] =
                onScreen.totalDue + Adjusted(receipt.adjusted, cur) - receipt.cash[cur]

ReceiptsInv ==
  \A i \in DOMAIN receipts :
    AsAgreed(receipts[i], handovers[Driver][i],
             IF i = 1 THEN Account!Nothing ELSE handovers[Driver][i - 1].carried)

\* The receipts' invariant is the property, spelt out for a proof.
LEMMA ReceiptsAgree == ReceiptsInv => RecordedAsAgreed
<1> SUFFICES ASSUME ReceiptsInv, NEW i \in DOMAIN receipts, NEW cur \in Currencies
             PROVE  LET onScreen == IF cur \in DOMAIN receipts[i].shown
                                    THEN receipts[i].shown[cur]
                                 ELSE [orderCount |-> 0, totalDue |-> 0]
                        handover == handovers[Driver][i]
                    IN  /\ onScreen.orderCount = Count(handover.items, cur)
                        /\ onScreen.totalDue = Account!Due(handover.items, cur) + CarriedInto(i, cur)
                        /\ handover.carried[cur] =
                             onScreen.totalDue + Adjusted(receipts[i].adjusted, cur) - receipts[i].cash[cur]
  BY DEF RecordedAsAgreed
<1> DEFINE brought == IF i = 1 THEN Account!Nothing ELSE handovers[Driver][i - 1].carried
<1>1. AsAgreed(receipts[i], handovers[Driver][i], brought)
  BY DEF ReceiptsInv
<1>2. CarriedInto(i, cur) = brought[cur]
  BY DEF CarriedInto, Account!Nothing
<1> HIDE DEF brought
<1> QED BY <1>1, <1>2 DEF AsAgreed

\* What a cutoff sweeps is the driver's.
LEMMA SweptAreItems == ASSUME AccountInv, NEW cutoff PROVE Unsettled(cutoff) \in SUBSET Items
BY DEF AccountInv, Unsettled, Pile

\* A handover of what was shown, for the cash and the adjustments agreed.
LEMMA RecordAgrees ==
  ASSUME IInv, AccountInv, ReceiptsInv, NEW cutoff \in Nat, NEW paid, NEW receipt,
         Record(cutoff, paid, receipt),
         receipt.shown = Expected(Lines(Unsettled(cutoff), balance[Driver])),
         receipt.adjusted \in Forms, receipt.cash \in [Currencies -> Nat],
         \A adjustment \in receipt.adjusted : ~AdjustmentError(adjustment),
         \A cur \in Currencies :
           paid[cur] = receipt.cash[cur] - Adjusted(receipt.adjusted, cur)
  PROVE  AccountInv' /\ ReceiptsInv'
<1> DEFINE swept == Unsettled(cutoff)
           T == [items : SUBSET Items, carried : [Currencies -> Int]]
<1>a. PICK R : receipts \in Seq(R)
  BY DEF IInv
<1>b. PICK stack \in Seq(T) : /\ handovers = [d \in {Driver} |-> stack]
                             /\ Len(stack) = Len(receipts)
                             /\ balance[Driver] = Account!Carried(stack)
  BY DEF AccountInv
<1>c. PICK carried : carried = [cur \in Currencies |->
                       balance[Driver][cur] + Account!Due(swept, cur) - paid[cur]]
  OBVIOUS
<1>d. PICK handover : handover = [items |-> swept, carried |-> carried]
  OBVIOUS
<1>1. swept \in SUBSET Items /\ balance[Driver] \in [Currencies -> Int]
  BY SweptAreItems DEF AccountInv
<1>2. \A cur \in Currencies :
        /\ Adjusted(receipt.adjusted, cur) \in Int /\ receipt.cash[cur] \in Nat
        /\ Account!Due(swept, cur) \in Nat /\ balance[Driver][cur] \in Int
  BY <1>1, AdjustedTyped, GroupTyped
<1>3. carried \in [Currencies -> Int]
  BY <1>2, <1>c
<1>4. handover \in T
  BY <1>1, <1>3, <1>d
<1>5. /\ work' = [work EXCEPT ![Driver] = @ \ swept]
      /\ balance' = [balance EXCEPT ![Driver] = carried]
      /\ handovers' = [handovers EXCEPT ![Driver] = Append(@, handover)]
      /\ receipts' = Append(receipts, receipt)
  BY <1>c, <1>d DEF Record, Account!HandOver
<1>6. /\ work' \in [{Driver} -> SUBSET Items]
      /\ balance' \in [{Driver} -> [Currencies -> Int]] /\ balance'[Driver] = carried
      /\ handovers' = [d \in {Driver} |-> Append(stack, handover)]
  BY <1>3, <1>5, <1>b DEF AccountInv
<1>7. /\ Append(stack, handover) \in Seq(T) /\ Len(Append(stack, handover)) = Len(stack) + 1
      /\ Append(stack, handover)[Len(stack) + 1] = handover
      /\ \A i \in DOMAIN stack : Append(stack, handover)[i] = stack[i]
      /\ Len(stack) \in Nat /\ DOMAIN stack = 1 .. Len(stack) /\ Append(stack, handover) # <<>>
  <2> HIDE DEF T
  <2>1. /\ Append(stack, handover) \in Seq(T) /\ Len(Append(stack, handover)) = Len(stack) + 1
        /\ Append(stack, handover)[Len(stack) + 1] = handover
        /\ \A i \in 1 .. Len(stack) : Append(stack, handover)[i] = stack[i]
    BY <1>4, AppendProperties
  <2>2. Len(stack) \in Nat /\ DOMAIN stack = 1 .. Len(stack)
    OBVIOUS
  <2>3. Append(stack, handover) # <<>>
    BY <2>1, <2>2
  <2> QED BY <2>1, <2>2, <2>3
<1>8. /\ Len(receipts') = Len(receipts) + 1 /\ DOMAIN receipts' = 1 .. Len(receipts) + 1
      /\ receipts'[Len(receipts) + 1] = receipt
      /\ DOMAIN receipts = 1 .. Len(receipts)
      /\ \A i \in DOMAIN receipts : receipts'[i] = receipts[i]
  <2>1. receipts \in Seq(R \cup {receipt})
    BY <1>a, InAnyLarger
  <2> QED BY <1>5, <2>1
<1>9. AccountInv'
  <2>1. Account!Carried(Append(stack, handover)) = carried
    BY <1>7, <1>d DEF Account!Carried, Account!Last
  <2> QED BY <1>6, <1>7, <1>8, <1>b, <2>1 DEF AccountInv, Account!Carried
<1>10. AsAgreed(receipt, handover, balance[Driver])
  <2>1. ASSUME NEW cur \in Currencies
        PROVE  LET onScreen == IF cur \in DOMAIN receipt.shown THEN receipt.shown[cur]
                            ELSE [orderCount |-> 0, totalDue |-> 0]
               IN  /\ onScreen.orderCount = Count(handover.items, cur)
                   /\ onScreen.totalDue = Account!Due(handover.items, cur) + balance[Driver][cur]
                   /\ handover.carried[cur] =
                        onScreen.totalDue + Adjusted(receipt.adjusted, cur) - receipt.cash[cur]
    <3>1. IF cur \in DOMAIN receipt.shown
          THEN receipt.shown[cur] = [orderCount |-> Count(swept, cur),
                                     totalDue |-> Account!Due(swept, cur) + balance[Driver][cur]]
          ELSE Count(swept, cur) = 0 /\ Account!Due(swept, cur) = 0 /\ balance[Driver][cur] = 0
      BY <1>1, LinesTell
    <3>2. carried[cur] = Account!Due(swept, cur) + balance[Driver][cur]
                           + Adjusted(receipt.adjusted, cur) - receipt.cash[cur]
      BY <1>2, <1>c
    <3> HIDE DEF swept
    <3> QED BY <1>2, <1>d, <3>1, <3>2
  <2>2. IsPartial(receipt.shown, Figures)
    BY <1>1, LinesTyped
  <2> QED BY <2>1, <2>2 DEF AsAgreed
<1>11. ReceiptsInv'
  <2>1. balance[Driver] = IF Len(receipts) + 1 = 1 THEN Account!Nothing ELSE stack[Len(receipts)].carried
    BY <1>7, <1>b DEF Account!Carried, Account!Last
  <2>2. ASSUME NEW i \in DOMAIN receipts'
        PROVE  AsAgreed(receipts'[i], Append(stack, handover)[i],
                        IF i = 1 THEN Account!Nothing ELSE Append(stack, handover)[i - 1].carried)
    <3>1. CASE i \in DOMAIN receipts
      <4>1. /\ receipts'[i] = receipts[i] /\ Append(stack, handover)[i] = stack[i]
            /\ i # 1 => Append(stack, handover)[i - 1] = stack[i - 1]
        BY <1>7, <1>8, <1>b, <3>1
      <4>2. AsAgreed(receipts[i], stack[i], IF i = 1 THEN Account!Nothing ELSE stack[i - 1].carried)
        BY <1>b, <3>1 DEF ReceiptsInv
      <4> QED BY <4>1, <4>2
    <3>2. CASE i = Len(receipts) + 1
      <4>1. /\ receipts'[i] = receipt /\ Append(stack, handover)[i] = handover
            /\ i # 1 => Append(stack, handover)[i - 1] = stack[Len(receipts)]
        <5>1. i - 1 = Len(stack) /\ (i # 1 => i - 1 \in DOMAIN stack)
          BY <1>7, <1>b, <3>2
        <5> QED BY <1>7, <1>8, <1>b, <3>2, <5>1
      <4> QED BY <1>10, <2>1, <3>2, <4>1
    <3>3. i \in DOMAIN receipts \/ i = Len(receipts) + 1
      BY <1>7, <1>8, <1>b
    <3> QED BY <3>1, <3>2, <3>3
  <2>3. handovers'[Driver] = Append(stack, handover)
    BY <1>6
  <2> QED BY <2>2, <2>3 DEF ReceiptsInv
<1> QED BY <1>9, <1>11

\* The last handover and its receipt go together.
LEMMA VoidAgrees ==
  ASSUME IInv, AccountInv, ReceiptsInv, Void
  PROVE  AccountInv' /\ ReceiptsInv'
<1> DEFINE T == [items : SUBSET Items, carried : [Currencies -> Int]]
<1>a. PICK R : receipts \in Seq(R)
  BY DEF IInv
<1>b. PICK stack \in Seq(T) : /\ handovers = [d \in {Driver} |-> stack]
                             /\ Len(stack) = Len(receipts)
                             /\ balance[Driver] = Account!Carried(stack)
  BY DEF AccountInv
<1>c. PICK n : n = Len(stack) - 1
  OBVIOUS
<1>d. PICK rest : rest = SubSeq(stack, 1, n)
  OBVIOUS
<1>1. /\ stack # <<>>
      /\ work' = [work EXCEPT ![Driver] = @ \cup stack[Len(stack)].items]
      /\ handovers' = [handovers EXCEPT ![Driver] = rest]
      /\ balance' = [balance EXCEPT ![Driver] = Account!Carried(rest)]
      /\ receipts' = SubSeq(receipts, 1, n)
  BY <1>b, <1>c, <1>d DEF Void, Account!Undo, Account!Last, Account!Front
<1>2. n \in Nat /\ Len(stack) = n + 1 /\ DOMAIN stack = 1 .. n + 1
  BY <1>1, <1>c
<1>3. /\ rest \in Seq(T) /\ Len(rest) = n /\ \A i \in 1 .. n : rest[i] = stack[i]
      /\ rest # <<>> => n \in 1 .. n
  <2> HIDE DEF T
  <2>1. stack \in Seq(T) /\ 1 \in 1 .. Len(stack) + 1 /\ n \in 1 - 1 .. Len(stack)
    BY <1>2
  <2>2. /\ SubSeq(stack, 1, n) \in Seq(T) /\ Len(SubSeq(stack, 1, n)) = n - 1 + 1
        /\ \A i \in 1 .. n - 1 + 1 : SubSeq(stack, 1, n)[i] = stack[1 + i - 1]
    BY <2>1, SubSeqProperties
  <2>3. n - 1 + 1 = n /\ \A i \in 1 .. n : 1 + i - 1 = i
    BY <1>2
  <2>4. /\ rest \in Seq(T) /\ Len(rest) = n /\ \A i \in 1 .. n : rest[i] = stack[i]
    BY <1>d, <2>2, <2>3
  <2>5. rest # <<>> => n \in 1 .. n
    BY <1>2, <2>4
  <2> QED BY <2>4, <2>5
<1>4. /\ Len(receipts') = n /\ DOMAIN receipts' = 1 .. n
      /\ \A i \in 1 .. n : receipts'[i] = receipts[i] /\ i \in DOMAIN receipts
  BY <1>1, <1>2, <1>a, <1>b, SubSeqProperties
<1>5. Account!Carried(rest) \in [Currencies -> Int]
  <2>1. CASE rest = <<>>
    BY <2>1 DEF Account!Carried, Account!Nothing
  <2>2. CASE rest # <<>>
    <3>1. rest[Len(rest)] \in T
      <4> HIDE DEF T
      <4> QED BY <1>3, <2>2
    <3> QED BY <2>2, <3>1 DEF Account!Carried, Account!Last
  <2> QED BY <2>1, <2>2
<1>6. /\ work' \in [{Driver} -> SUBSET Items]
      /\ balance' \in [{Driver} -> [Currencies -> Int]] /\ balance'[Driver] = Account!Carried(rest)
      /\ handovers' = [d \in {Driver} |-> rest]
  <2>1. stack[Len(stack)] \in T
    <3> HIDE DEF T
    <3> QED BY <1>2
  <2> QED BY <1>1, <1>5, <1>b, <2>1 DEF AccountInv
<1>7. AccountInv'
  BY <1>3, <1>4, <1>6 DEF AccountInv, Account!Carried
<1>8. ASSUME NEW i \in 1 .. n
      PROVE  AsAgreed(receipts'[i], rest[i], IF i = 1 THEN Account!Nothing ELSE rest[i - 1].carried)
  <2>1. /\ receipts'[i] = receipts[i] /\ rest[i] = stack[i] /\ i \in DOMAIN receipts
        /\ i # 1 => rest[i - 1] = stack[i - 1]
    BY <1>2, <1>3, <1>4
  <2>2. AsAgreed(receipts[i], stack[i], IF i = 1 THEN Account!Nothing ELSE stack[i - 1].carried)
    BY <1>b, <2>1 DEF ReceiptsInv
  <2> QED BY <2>1, <2>2
<1>9. ReceiptsInv'
  <2>1. handovers'[Driver] = rest
    BY <1>6
  <2> QED BY <1>4, <1>8, <2>1 DEF ReceiptsInv
<1> QED BY <1>7, <1>9
-----------------------------------------------------------------------------
\* Of finitely many deliveries one is the newest.
LEMMA NewestExists ==
  ASSUME NEW S \in SUBSET Items, S # {}, \A item \in S : since[item] \in Nat
  PROVE  \E newest \in S : \A item \in S : since[newest] >= since[item]
<1> DEFINE P == {s \in SUBSET S : s = {} \/ \E newest \in s : \A item \in s : since[newest] >= since[item]}
<1>1. {} \in P /\ IsFiniteSet(S)
  BY DeskAssumption, FS_Subset
<1>2. ASSUME NEW s \in SUBSET S, s # {}, \A x \in s : s \ {x} \in P
      PROVE  s \in P
  <2>1. PICK x \in s : TRUE
    BY <1>2
  <2>2. since[x] \in Nat /\ \A item \in s : since[item] \in Nat
    OBVIOUS
  <2>3. CASE s \ {x} = {}
    <3>1. \A item \in s : since[x] >= since[item]
      BY <2>2, <2>3
    <3> QED BY <3>1
  <2>4. CASE \E newest \in s \ {x} : \A item \in s \ {x} : since[newest] >= since[item]
    <3>1. PICK newest \in s \ {x} : \A item \in s \ {x} : since[newest] >= since[item]
      BY <2>4
    <3>2. CASE since[newest] >= since[x]
      <4>1. \A item \in s : since[newest] >= since[item]
        BY <3>1, <3>2
      <4> QED BY <4>1
    <3>3. CASE since[x] >= since[newest]
      <4>1. \A item \in s : since[x] >= since[item]
        BY <2>2, <3>1, <3>3
      <4> QED BY <4>1
    <3> QED BY <2>2, <3>2, <3>3
  <2> QED BY <1>2, <2>1, <2>3, <2>4
<1>3. S \in P
  <2> HIDE DEF P
  <2> QED BY <1>1, <1>2, SubsetInduction
<1> QED BY <1>3

\* The n newest, of any set that has so many.
IsPage(page, S, n) ==
  /\ page \in SUBSET S /\ Cardinality(page) = n
  /\ \A item \in page, older \in S \ page : since[item] >= since[older]

\* Of any n of a set's deliveries there is a page: add the newest of the others,
\* one at a time.
LEMMA PageExists ==
  ASSUME NEW S \in SUBSET Items, \A item \in S : since[item] \in Nat,
         NEW n \in Nat, n <= Cardinality(S)
  PROVE  \E page : IsPage(page, S, n)
<1> DEFINE P == {k \in Nat : k <= Cardinality(S) => \E page : IsPage(page, S, k)}
<1>1. IsFiniteSet(S) /\ Cardinality(S) \in Nat
  BY DeskAssumption, FS_Subset, FS_CardinalityType
<1>2. 0 \in P
  <2>1. IsPage({}, S, 0)
    BY FS_EmptySet DEF IsPage
  <2> QED BY <2>1
<1>3. ASSUME NEW k \in Nat, k \in P PROVE k + 1 \in P
  <2> SUFFICES ASSUME k + 1 <= Cardinality(S) PROVE \E page : IsPage(page, S, k + 1)
    OBVIOUS
  <2>1. PICK page : IsPage(page, S, k)
    BY <1>1, <1>3
  <2>2. page \in SUBSET S /\ IsFiniteSet(page) /\ Cardinality(page) = k
    BY <1>1, <2>1, FS_Subset DEF IsPage
  <2>3. S \ page # {}
    <3>1. SUFFICES ASSUME S = page PROVE FALSE
      BY <2>2
    <3> QED BY <1>1, <2>2, <3>1
  <2>4. PICK newest \in S \ page : \A item \in S \ page : since[newest] >= since[item]
    <3>1. S \ page \in SUBSET Items /\ \A item \in S \ page : since[item] \in Nat
      OBVIOUS
    <3> QED BY <2>3, <3>1, NewestExists
  <2> DEFINE larger == page \cup {newest}
  <2>5. larger \in SUBSET S /\ Cardinality(larger) = k + 1
    BY <2>2, FS_AddElement
  <2>6. ASSUME NEW item \in larger, NEW older \in S \ larger PROVE since[item] >= since[older]
    BY <2>1, <2>4 DEF IsPage
  <2>7. IsPage(larger, S, k + 1)
    <3> HIDE DEF larger
    <3> QED BY <2>5, <2>6 DEF IsPage
  <2> QED BY <2>7
<1>4. Nat \subseteq P
  <2> HIDE DEF P
  <2> QED BY <1>2, <1>3, NaturalInduction
<1> QED BY <1>4

\* A page is the whole, or as many as the limit says.
LEMMA PageIs ==
  ASSUME NEW S \in SUBSET Items, \A item \in S : since[item] \in Nat
  PROVE  /\ Page(S) \in SUBSET S
         /\ Cardinality(S) <= ListLimit => Page(S) = S
         /\ ~(Cardinality(S) <= ListLimit) => Cardinality(Page(S)) = ListLimit
<1>1. CASE Cardinality(S) <= ListLimit
  BY <1>1 DEF Page
<1>2. CASE ~(Cardinality(S) <= ListLimit)
  <2>1. Cardinality(S) \in Nat /\ ListLimit \in Nat
    BY DeskAssumption, FS_Subset, FS_CardinalityType
  <2>2. \E page \in SUBSET S : /\ Cardinality(page) = ListLimit
                               /\ \A item \in page, older \in S \ page : since[item] >= since[older]
    <3>1. \E page : IsPage(page, S, ListLimit)
      BY <1>2, <2>1, PageExists
    <3> QED BY <3>1 DEF IsPage
  <2>3. Page(S) = CHOOSE page \in SUBSET S :
          /\ Cardinality(page) = ListLimit
          /\ \A item \in page, older \in S \ page : since[item] >= since[older]
    BY <1>2 DEF Page
  <2> QED BY <1>2, <2>2, <2>3
<1> QED BY <1>1, <1>2

\* The list under a currency's line is its page.
LEMMA ItemisedIs ==
  ASSUME NEW S \in SUBSET Items, \A item \in S : since[item] \in Nat
  PROVE  /\ Itemised(S) \in SUBSET S
         /\ \A cur \in Currencies :
              {item \in Itemised(S) : item.currency = cur}
                = Page({item \in S : item.currency = cur})
<1>1. ASSUME NEW cur
      PROVE  Page({item \in S : item.currency = cur}) \subseteq {item \in S : item.currency = cur}
  <2>1. /\ {item \in S : item.currency = cur} \in SUBSET Items
        /\ \A item \in {item \in S : item.currency = cur} : since[item] \in Nat
    OBVIOUS
  <2> QED BY <2>1, PageIs
<1>2. Itemised(S) \in SUBSET S
  BY <1>1 DEF Itemised
<1>3. ASSUME NEW cur \in Currencies
      PROVE  {item \in Itemised(S) : item.currency = cur} = Page({item \in S : item.currency = cur})
  <2> DEFINE page(c) == Page({item \in S : item.currency = c})
  <2>1. \A c : \A item \in page(c) : item.currency = c
    BY <1>1
  <2>2. Itemised(S) = UNION {page(c) : c \in Currencies}
    BY DEF Itemised
  <2> HIDE DEF page
  <2>3. {item \in Itemised(S) : item.currency = cur} = page(cur)
    BY <2>1, <2>2
  <2> QED BY <2>3 DEF page
<1> QED BY <1>2, <1>3
-----------------------------------------------------------------------------
Boxed == Int \cup {Blank, Bad}

FormRows == [open : BOOLEAN, seeded : BOOLEAN, boxes : [Currencies -> Boxed], adjustments : Forms]

\* What a dialog shows was read by now.
ViewInv(view) == /\ view.cutoff \in 1 .. clock
                 /\ IsPartial(view.lines, LineRows)
                 /\ view.orders \subseteq Items

\* What was submitted: no adjustment had an error, and the boxes on the screen
\* were those of the lines and the adjustments.
RequestInv(request) ==
  /\ request.desk \in Desks /\ request.try \in Tries /\ request.cutoff \in 1 .. clock
  /\ IsPartial(request.expected, Figures)
  /\ request.adjustments \in Forms
  /\ \A adjustment \in request.adjustments : ~AdjustmentError(adjustment)
  /\ DOMAIN request.collections \subseteq Currencies
  /\ \A cur \in DOMAIN request.collections : request.collections[cur] \in Boxed
  /\ request.visible = DOMAIN request.expected \cup
                         {adjustment.currency : adjustment \in request.adjustments}

ClockInv == /\ clock \in 1 .. MaxClock
            /\ since \in [Items -> 0 .. clock]
            /\ \A i \in DOMAIN receipts : receipts[i].periodEnd \in 1 .. MaxClock

ScreensInv == /\ \A a \in Desks : views[a] # None => ViewInv(views[a])
              /\ forms \in [Desks -> FormRows]
              /\ \A request \in sent : RequestInv(request)

TInv == AccountInv /\ ReceiptsInv /\ ClockInv /\ ScreensInv

\* The type invariant is a part of the inductive one.
LEMMA TypesFollow == TInv => TypeOK
<1> SUFFICES ASSUME TInv PROVE TypeOK
  OBVIOUS
<1>1. /\ Pile \subseteq Items /\ balance \in [{Driver} -> [Currencies -> Int]]
      /\ Len(handovers[Driver]) = Len(receipts)
  BY DEF TInv, AccountInv, Pile
<1>2. \A i \in DOMAIN receipts : /\ receipts[i].periodEnd \in 1 .. MaxClock
                                 /\ IsPartial(receipts[i].shown, Figures)
                                 /\ receipts[i].adjusted \in Forms
                                 /\ receipts[i].cash \in [Currencies -> Nat]
  BY DEF TInv, ClockInv, ReceiptsInv, AsAgreed
<1>3. \A request \in sent : /\ request.desk \in Desks /\ request.try \in Tries
                            /\ request.cutoff \in 1 .. clock
                            /\ IsPartial(request.expected, Figures)
                            /\ request.adjustments \in Forms
  BY DEF TInv, ScreensInv, RequestInv
<1>4. \A a \in Desks : views[a] # None => /\ views[a].cutoff \in 1 .. clock
                                          /\ IsPartial(views[a].lines, LineRows)
                                          /\ views[a].orders \subseteq Items
  BY DEF TInv, ScreensInv, ViewInv
<1>5. forms \in [Desks -> [open : BOOLEAN, seeded : BOOLEAN,
                           boxes : [Currencies -> Int \cup {Blank, Bad}], adjustments : Forms]]
  BY DEF TInv, ScreensInv, FormRows, Boxed
<1>6. clock \in 1 .. MaxClock /\ since \in [Items -> 0 .. clock]
  BY DEF TInv, ClockInv
<1> QED BY <1>1, <1>2, <1>3, <1>4, <1>5, <1>6 DEF TypeOK

\* Nothing is on record or on a screen to begin with.
LEMMA InitTInv == Init => TInv /\ IInv
<1> SUFFICES ASSUME Init PROVE TInv
  BY InitIInv
<1>1. AccountInv
  <2>1. <<>> \in Seq([items : SUBSET Items, carried : [Currencies -> Int]]) /\ Len(<<>>) = 0
    OBVIOUS
  <2>2. /\ work = [d \in {Driver} |-> {}] /\ balance = [d \in {Driver} |-> Account!Nothing]
        /\ handovers = [d \in {Driver} |-> <<>>] /\ Len(<<>>) = Len(receipts)
    BY DEF Init, Account!Init
  <2>3. Account!Nothing \in [Currencies -> Int] /\ Account!Carried(<<>>) = Account!Nothing
    BY DEF Account!Carried, Account!Nothing
  <2>4. /\ work \in [{Driver} -> SUBSET Items]
        /\ balance \in [{Driver} -> [Currencies -> Int]] /\ balance[Driver] = Account!Nothing
    BY <2>2, <2>3
  <2> QED BY <2>1, <2>2, <2>3, <2>4 DEF AccountInv
<1>2. NoForm \in FormRows
  BY DeskAssumption DEF NoForm, FormRows, Boxed
<1> QED BY <1>1, <1>2, DeskAssumption
        DEF Init, TInv, ReceiptsInv, ClockInv, ScreensInv

\* Views and requests survive the clock.
LEMMA ClockMoves ==
  ASSUME ScreensInv, clock \in Nat, clock' \in Nat, clock <= clock', UNCHANGED <<views, forms, sent>>
  PROVE  ScreensInv'
<1>1. \A n : n \in 1 .. clock => n \in 1 .. clock'
  OBVIOUS
<1>2. \A view : ViewInv(view) => ViewInv(view)'
  BY <1>1 DEF ViewInv, IsPartial, LineRows
<1>3. \A request : RequestInv(request) => RequestInv(request)'
  BY <1>1 DEF RequestInv
<1> QED BY <1>2, <1>3 DEF ScreensInv, FormRows, Boxed

\* The maximum of two moments.
LEMMA MaxIs ==
  ASSUME NEW m \in Nat, NEW n \in Nat
  PROVE  Max({m, n}) = IF m <= n THEN n ELSE m
<1>1. \A x \in {m, n} : (\A y \in {m, n} : x >= y) => x = IF m <= n THEN n ELSE m
  OBVIOUS
<1>2. \E x \in {m, n} : \A y \in {m, n} : x >= y
  OBVIOUS
<1> QED BY <1>1, <1>2 DEF Max

\* A delivery.
LEMMA DeliverTyped ==
  ASSUME IInv, TInv, NEW item \in Items, NEW at \in {clock, clock + 1}, Deliver(item, at)
  PROVE  TInv'
<1>1. clock \in Nat /\ clock >= 1 /\ at \in Nat /\ clock <= at /\ at <= MaxClock /\ MaxClock \in Nat
  BY DeskAssumption DEF TInv, ClockInv, Deliver
<1>2. clock' = at
  BY <1>1, MaxIs DEF Deliver
<1>3. /\ work' = [work EXCEPT ![Driver] = @ \cup {item}]
      /\ UNCHANGED <<handovers, balance, receipts, views, forms, sent>>
      /\ since' = [since EXCEPT ![item] = at]
  BY DEF Deliver, Account!Deliver, screens, requests
<1>4. AccountInv'
  BY <1>3 DEF TInv, AccountInv, Account!Carried
<1>5. ReceiptsInv'
  BY <1>3 DEF TInv, ReceiptsInv
<1>6. ClockInv'
  <2>1. since \in [Items -> 0 .. at]
    <3>1. \A i \in Items : since[i] \in 0 .. at
      BY <1>1 DEF TInv, ClockInv
    <3> QED BY <3>1 DEF TInv, ClockInv
  <2>2. since' \in [Items -> 0 .. at]
    BY <1>1, <1>3, <2>1
  <2> QED BY <1>1, <1>2, <1>3, <2>2 DEF TInv, ClockInv
<1>7. ScreensInv'
  BY <1>1, <1>2, <1>3, ClockMoves DEF TInv
<1> QED BY <1>4, <1>5, <1>6, <1>7 DEF TInv

\* What a handover does to the clock and the receipts.
LEMMA RecordTicks ==
  ASSUME IInv, ClockInv, NEW cutoff \in 1 .. clock, NEW paid, NEW receipt,
         Record(cutoff, paid, receipt), receipt.periodEnd = cutoff
  PROVE  ClockInv' /\ clock' \in Nat /\ clock <= clock' /\ clock \in Nat
<1>1. clock \in Nat /\ clock >= 1 /\ clock <= MaxClock /\ cutoff \in Nat /\ MaxClock \in Nat
      /\ cutoff >= 1 /\ cutoff < MaxClock
  BY DeskAssumption DEF ClockInv, Record
<1>2. clock' = IF clock <= cutoff + 1 THEN cutoff + 1 ELSE clock
  BY <1>1, MaxIs DEF Record
<1>3. clock' \in 1 .. MaxClock /\ clock <= clock'
  BY <1>1, <1>2
<1>4. since' \in [Items -> 0 .. clock']
  <2>1. \A i \in Items : since[i] \in 0 .. clock'
    BY <1>1, <1>3 DEF ClockInv
  <2> QED BY <2>1 DEF ClockInv, Record
<1>5. \A i \in DOMAIN receipts' : receipts'[i].periodEnd \in 1 .. MaxClock
  <2>1. PICK R : receipts \in Seq(R)
    BY DEF IInv
  <2>2. receipts \in Seq(R \cup {receipt}) /\ receipts' = Append(receipts, receipt)
    BY <2>1, InAnyLarger DEF Record
  <2>3. /\ DOMAIN receipts' = 1 .. Len(receipts) + 1 /\ DOMAIN receipts = 1 .. Len(receipts)
        /\ Len(receipts) \in Nat
        /\ receipts'[Len(receipts) + 1] = receipt
        /\ \A i \in 1 .. Len(receipts) : receipts'[i] = receipts[i]
    BY <2>2
  <2>4. cutoff \in 1 .. MaxClock
    BY <1>1
  <2>5. \A i \in DOMAIN receipts' : i \in DOMAIN receipts \/ i = Len(receipts) + 1
    BY <2>3
  <2> QED BY <2>3, <2>4, <2>5 DEF ClockInv
<1> QED BY <1>1, <1>3, <1>4, <1>5 DEF ClockInv
-----------------------------------------------------------------------------
\* A set of naturals has a least one.
LEMMA LeastMember ==
  ASSUME NEW S, S \subseteq Nat, S # {}
  PROVE  \E x \in S : \A y \in S : x <= y
<1>1. PICK x \in S : \A y \in S : ~(<<y, x>> \in OpToRel(<, Nat))
  BY NatLessThanWellFounded, WFMin
<1>2. \A a, b \in Nat : a < b => <<a, b>> \in OpToRel(<, Nat)
  BY DEF OpToRel
<1>3. \A y \in S : ~(y < x)
  BY <1>1, <1>2
<1> QED BY <1>3

\* What a dialog is shown next.
LEMMA ViewTyped == ASSUME TInv PROVE ViewInv(View) /\ IsPartial(View.lines, LineRows)
<1> DEFINE swept == Unsettled(clock)
<1>1. swept \in SUBSET Items /\ balance[Driver] \in [Currencies -> Int]
  BY SweptAreItems DEF TInv, AccountInv
<1>2. Itemised(swept) \in SUBSET swept
  <2>1. \A item \in swept : since[item] \in Nat
    BY <1>1 DEF TInv, ClockInv
  <2> HIDE DEF swept
  <2> QED BY <1>1, <2>1, ItemisedIs
<1>3. IsPartial(Lines(swept, balance[Driver]), LineRows)
  <2> HIDE DEF swept
  <2> QED BY <1>1, LinesTyped
<1>4. /\ View.cutoff = clock /\ View.orders = Itemised(swept)
      /\ View.lines = Lines(swept, balance[Driver])
  BY DEF View
<1>5. clock \in 1 .. clock
  BY DEF TInv, ClockInv
<1> HIDE DEF swept
<1> QED BY <1>1, <1>2, <1>3, <1>4, <1>5 DEF ViewInv

\* What an amount box is filled with can be read.
LEMMA SeedsTyped ==
  ASSUME NEW lines, IsPartial(lines, LineRows), NEW cur \in DOMAIN lines
  PROVE  Seed(lines[cur].totalDue) \in Nat
<1>1. lines[cur].totalDue \in Int
  BY DEF IsPartial, LineRows
<1> QED BY <1>1 DEF Seed

\* A form is filled with amounts that can be submitted as they are.
LEMMA SeededTyped ==
  ASSUME NEW form \in FormRows, NEW view, IsPartial(view.lines, LineRows)
  PROVE  /\ Seeded(form, view) \in FormRows
         /\ ~form.seeded => ~InvalidAmount(Seeded(form, view), view.lines)
<1> DEFINE boxes == [cur \in Currencies |->
                      IF cur \in DOMAIN view.lines THEN Seed(view.lines[cur].totalDue) ELSE Blank]
<1>1. boxes \in [Currencies -> Boxed]
  BY SeedsTyped DEF Boxed
<1>2. CASE form.seeded
  BY <1>2 DEF Seeded
<1>3. CASE ~form.seeded
  <2>1. Seeded(form, view) = [open |-> TRUE, seeded |-> TRUE, adjustments |-> {}, boxes |-> boxes]
    BY <1>3 DEF Seeded
  <2>2. \A cur \in DOMAIN view.lines : Parsed(boxes[cur]) # None
    <3>1. \A cur \in DOMAIN view.lines : boxes[cur] = Seed(view.lines[cur].totalDue)
      BY DEF IsPartial
    <3>2. \A cur \in DOMAIN view.lines : boxes[cur] \in Nat
      BY <3>1, SeedsTyped
    <3> QED BY <3>2, ParsedIs
  <2> HIDE DEF boxes
  <2>3. Seeded(form, view) \in FormRows
    BY <1>1, <2>1, DeskAssumption DEF FormRows
  <2>4. ~InvalidAmount(Seeded(form, view), view.lines)
    BY <2>1, <2>2 DEF InvalidAmount
  <2> QED BY <2>3, <2>4
<1> QED BY <1>2, <1>3

\* A step on the screens alone.
LEMMA FormsTyped ==
  ASSUME IInv, TInv, UNCHANGED account,
         forms' \in [Desks -> FormRows],
         \A b \in Desks : views'[b] # None => ViewInv(views'[b]),
         \A request \in sent' : RequestInv(request)
  PROVE  TInv'
<1>1. UNCHANGED <<work, handovers, balance, since, clock, receipts>>
  BY DEF account
<1>2. AccountInv' /\ ReceiptsInv' /\ ClockInv'
  BY <1>1 DEF TInv, AccountInv, ReceiptsInv, ClockInv, Account!Carried
<1>3. ScreensInv'
  BY <1>1 DEF ScreensInv, ViewInv, RequestInv, FormRows, Boxed
<1> QED BY <1>2, <1>3 DEF TInv

\* A dialog that is shut has the empty form.
LEMMA ShutTyped ==
  ASSUME IInv, TInv, NEW a \in Desks, Shut(a)
  PROVE  /\ forms' \in [Desks -> FormRows] /\ ~forms'[a].open
         /\ \A b \in Desks : views'[b] # None => ViewInv(views'[b])
<1>1. NoForm \in FormRows /\ ~NoForm.open
  BY DeskAssumption DEF NoForm, FormRows, Boxed
<1>2. forms \in [Desks -> FormRows] /\ views = [b \in Desks |-> views[b]]
  BY DEF TInv, ScreensInv, IInv
<1>3. forms' \in [Desks -> FormRows] /\ ~forms'[a].open
  BY <1>1, <1>2 DEF Shut
<1>4. \A b \in Desks : views'[b] = IF b = a THEN None ELSE views[b]
  BY <1>2 DEF Shut
<1> QED BY <1>3, <1>4 DEF TInv, ScreensInv

\* What an admin does at his screen.  A request is submitted only when no
\* adjustment has an error.
LEMMA ScreensTyped ==
  ASSUME IInv, TInv, NEW a \in Desks,
         \/ Open(a) \/ Show(a) \/ Close(a) \/ Submit(a) \/ GiveUp(a)
         \/ \E cur \in Currencies, typed \in Typed : Type(a, cur, typed)
         \/ \E adjustments \in Forms : Adjust(a, adjustments)
  PROVE  TInv'
<1>1. UNCHANGED account
  BY DEF Open, Show, Close, Submit, GiveUp, Type, Adjust
<1>2. /\ forms \in [Desks -> FormRows] /\ forms[a] \in FormRows
      /\ views = [b \in Desks |-> views[b]]
      /\ \A b \in Desks : views[b] # None => ViewInv(views[b])
      /\ \A request \in sent : RequestInv(request)
  BY DEF TInv, ScreensInv, IInv
<1>3. forms' \in [Desks -> FormRows]
  <2>1. CASE Open(a)
    <3>1. [NoForm EXCEPT !.open = TRUE] \in FormRows
      BY DeskAssumption DEF NoForm, FormRows, Boxed
    <3> QED BY <1>2, <2>1, <3>1 DEF Open
  <2>2. CASE Show(a)
    <3>1. Seeded(forms[a], View) \in FormRows
      BY <1>2, ViewTyped, SeededTyped
    <3> QED BY <1>2, <2>2, <3>1 DEF Show
  <2>3. CASE Close(a)
    BY <2>3, ShutTyped DEF Close
  <2>4. CASE Submit(a) \/ GiveUp(a)
    BY <1>2, <2>4 DEF Submit, GiveUp, screens
  <2>5. ASSUME NEW cur \in Currencies, NEW typed \in Typed, Type(a, cur, typed)
        PROVE  forms' \in [Desks -> FormRows]
    <3>1. typed \in Boxed
      BY DeskAssumption DEF Boxed
    <3>2. [forms[a] EXCEPT !.boxes = [forms[a].boxes EXCEPT ![cur] = typed]] \in FormRows
      BY <1>2, <3>1 DEF FormRows
    <3>3. forms' = [forms EXCEPT ![a] = [forms[a] EXCEPT !.boxes = [forms[a].boxes EXCEPT ![cur] = typed]]]
      BY <1>2, <2>5 DEF Type
    <3> QED BY <1>2, <3>2, <3>3
  <2>6. ASSUME NEW adjustments \in Forms, Adjust(a, adjustments)
        PROVE  forms' \in [Desks -> FormRows]
    <3>1. [forms[a] EXCEPT !.adjustments = adjustments] \in FormRows
      BY <1>2 DEF FormRows
    <3> QED BY <1>2, <2>6, <3>1 DEF Adjust
  <2> QED BY <2>1, <2>2, <2>3, <2>4, <2>5, <2>6
<1>4. \A b \in Desks : views'[b] # None => ViewInv(views'[b])
  <2>1. CASE Show(a)
    <3>1. \A b \in Desks : views'[b] = IF b = a THEN View ELSE views[b]
      BY <1>2, <2>1 DEF Show
    <3> QED BY <1>2, <3>1, ViewTyped
  <2>2. CASE Close(a)
    BY <2>2, ShutTyped DEF Close
  <2>3. CASE UNCHANGED views
    BY <1>2, <2>3
  <2> QED BY <2>1, <2>2, <2>3 DEF Open, Submit, GiveUp, Type, Adjust, screens
<1>5. \A request \in sent' : RequestInv(request)
  <2>1. CASE Submit(a)
    <3> DEFINE free == Tries \ {request.try : request \in {r \in sent : r.desk = a}}
               view == views[a]
               form == forms[a]
               request == Request(a, Min(free))
    <3>1. /\ sent' = sent \cup {request} /\ free # {} /\ free \subseteq Nat /\ free \subseteq Tries
          /\ view # None /\ Recordable(form, view.lines)
      BY <2>1, DeskAssumption DEF Submit
    <3>2. Min(free) \in Tries
      <4>1. \E x \in free : \A y \in free : x <= y
        <5> HIDE DEF free
        <5> QED BY <3>1, LeastMember
      <4> QED BY <3>1, <4>1 DEF Min
    <3>3. ViewInv(view)
      BY <1>2, <3>1
    <3>4. /\ request.desk = a /\ request.try = Min(free) /\ request.cutoff = view.cutoff
          /\ request.expected = Expected(view.lines)
          /\ request.collections = [cur \in {c \in Currencies : form.boxes[c] # Blank} |-> form.boxes[cur]]
          /\ request.adjustments = form.adjustments
          /\ request.visible = Boxes(form, view.lines)
      BY DEF Request
    <3>5. form.adjustments \in Forms /\ form.boxes \in [Currencies -> Boxed]
      BY <1>2 DEF FormRows
    <3>6. \A adjustment \in form.adjustments : ~AdjustmentError(adjustment)
      BY <3>1 DEF Recordable
    <3>7. IsPartial(Expected(view.lines), Figures) /\ DOMAIN Expected(view.lines) = DOMAIN view.lines
      <4>1. \A cur \in DOMAIN view.lines :
              [orderCount |-> view.lines[cur].orderCount, totalDue |-> view.lines[cur].totalDue] \in Figures
        BY <3>3 DEF ViewInv, IsPartial, LineRows, Figures
      <4>2. DOMAIN view.lines \subseteq Currencies
        BY <3>3 DEF ViewInv, IsPartial
      <4> HIDE DEF view
      <4> QED BY <4>1, <4>2 DEF Expected, IsPartial
    <3>8. RequestInv(request)
      <4>1. /\ DOMAIN request.collections \subseteq Currencies
            /\ \A cur \in DOMAIN request.collections : request.collections[cur] \in Boxed
        <5> HIDE DEF form, request
        <5> QED BY <3>4, <3>5
      <4>2. request.visible = DOMAIN request.expected \cup
                                {adjustment.currency : adjustment \in request.adjustments}
        <5> HIDE DEF form, view, request
        <5> QED BY <3>4, <3>7 DEF Boxes
      <4>3. request.cutoff \in 1 .. clock
        BY <3>3, <3>4 DEF ViewInv
      <4> HIDE DEF form, view, request, free
      <4> QED BY <3>2, <3>4, <3>5, <3>6, <3>7, <4>1, <4>2, <4>3 DEF RequestInv
    <3> HIDE DEF request
    <3> QED BY <1>2, <3>1, <3>8
  <2>2. CASE UNCHANGED sent
    BY <1>2, <2>2
  <2> QED BY <2>1, <2>2 DEF Open, Show, Close, GiveUp, Type, Adjust, requests
<1> QED BY <1>1, <1>3, <1>4, <1>5, FormsTyped
-----------------------------------------------------------------------------
\* Another admin settles in full: there are no adjustments, and the cash is what
\* the lines ask for.
LEMMA ElsewhereTyped == ASSUME IInv, TInv, SettleElsewhere PROVE TInv'
<1> DEFINE swept == Unsettled(clock)
           lines == Lines(swept, balance[Driver])
<1>c. PICK paid : paid = [cur \in Currencies |->
                            IF cur \in DOMAIN lines THEN Seed(lines[cur].totalDue) ELSE 0]
  OBVIOUS
<1>r. PICK receipt : receipt = [periodEnd |-> clock, shown |-> Expected(lines),
                                adjusted |-> {}, cash |-> paid]
  OBVIOUS
<1>1. Record(clock, paid, receipt) /\ UNCHANGED <<views, forms, sent>>
  BY <1>c, <1>r DEF SettleElsewhere, screens, requests
<1>2. clock \in Nat /\ clock \in 1 .. clock
  BY DeskAssumption DEF TInv, ClockInv
<1>3. paid \in [Currencies -> Nat]
  <2>1. IsPartial(lines, LineRows)
    BY SweptAreItems, LinesTyped DEF TInv, AccountInv
  <2> HIDE DEF lines
  <2> QED BY <1>c, <2>1, SeedsTyped
<1>4. receipt.adjusted \in Forms /\ receipt.adjusted = {}
  BY <1>r, DeskAssumption
<1>5. \A cur \in Currencies : paid[cur] = receipt.cash[cur] - Adjusted(receipt.adjusted, cur)
  <2> TAKE cur \in Currencies
  <2>1. receipt.cash = paid /\ paid[cur] \in Nat
    BY <1>r, <1>3
  <2>2. Adjusted(receipt.adjusted, cur) = 0
    BY <1>4, AdjustedTyped
  <2> QED BY <2>1, <2>2
<1>6. AccountInv' /\ ReceiptsInv'
  <2>1. receipt.shown = Expected(lines) /\ receipt.cash \in [Currencies -> Nat]
    BY <1>r, <1>3
  <2> QED BY <1>1, <1>2, <1>4, <1>5, <2>1, RecordAgrees DEF TInv
<1>7. ClockInv' /\ clock' \in Nat /\ clock <= clock'
  BY <1>1, <1>2, <1>r, RecordTicks DEF TInv
<1>8. ScreensInv'
  BY <1>1, <1>2, <1>7, ClockMoves DEF TInv
<1> QED BY <1>6, <1>7, <1>8 DEF TInv

\* A void.
LEMMA VoidTyped == ASSUME IInv, TInv, Void PROVE TInv'
<1>1. AccountInv' /\ ReceiptsInv'
  BY VoidAgrees DEF TInv
<1>2. UNCHANGED <<since, clock, views, forms, sent>> /\ receipts' = SubSeq(receipts, 1, Len(receipts) - 1)
  BY DEF Void, screens, requests
<1>3. clock \in Nat
  BY DeskAssumption DEF TInv, ClockInv
<1>4. \A i \in DOMAIN receipts' : i \in DOMAIN receipts /\ receipts'[i] = receipts[i]
  <2>1. PICK S : receipts \in Seq(S)
    BY DEF IInv
  <2>2. CASE Len(receipts) = 0
    BY <1>2, <2>1, <2>2
  <2>3. CASE Len(receipts) # 0
    BY <1>2, <2>1, <2>3, SubSeqProperties
  <2> QED BY <2>2, <2>3
<1>5. ClockInv'
  BY <1>2, <1>4 DEF TInv, ClockInv
<1>6. ScreensInv'
  BY <1>2, <1>3, ClockMoves DEF TInv
<1> QED BY <1>1, <1>5, <1>6 DEF TInv

\* What a valid request says was collected is a natural, and all of it was in
\* boxes on the screen.
LEMMA CollectedTyped ==
  ASSUME NEW request, RequestInv(request), Valid(request), NEW cur \in Currencies
  PROVE  /\ Collected(request, cur) \in Nat
         /\ cur \notin request.visible => Collected(request, cur) = 0
<1>1. CASE cur \in DOMAIN request.collections
  <2>1. /\ request.collections[cur] \in Int \cup {Blank, Bad}
        /\ Parsed(request.collections[cur]) # None
        /\ cur \in request.visible
    BY <1>1 DEF RequestInv, Boxed, Valid
  <2>2. request.collections[cur] \in Nat
    BY <2>1, ParsedIs
  <2> QED BY <1>1, <2>1, <2>2 DEF Collected
<1>2. CASE cur \notin DOMAIN request.collections
  BY <1>2 DEF Collected
<1> QED BY <1>1, <1>2

\* A request is recorded as it was submitted.
LEMMA SettleTyped ==
  ASSUME IInv, TInv, NEW request \in sent, Settle(request)
  PROVE  TInv'
<1>r. PICK receipt : receipt = Receipt(request)
  OBVIOUS
<1>p. PICK paid : paid = Paid(request)
  OBVIOUS
<1>1. RequestInv(request) /\ Valid(request) /\ request.desk \in Desks
  BY DEF TInv, ScreensInv, RequestInv, Settle
<1>2. /\ Record(request.cutoff, paid, receipt) /\ sent' \subseteq sent
      /\ request.expected = Expected(Lines(Unsettled(request.cutoff), balance[Driver]))
  BY <1>r, <1>p DEF Settle, Agreed
<1>3. request.cutoff \in 1 .. clock /\ request.cutoff \in Nat
  BY <1>1, DeskAssumption DEF RequestInv, TInv, ClockInv
<1>4. /\ receipt.periodEnd = request.cutoff /\ receipt.shown = request.expected
      /\ receipt.adjusted = request.adjustments
      /\ receipt.cash = [cur \in Currencies |-> IF cur \in request.visible
                                                THEN Collected(request, cur) ELSE 0]
  BY <1>r DEF Receipt
<1>5. receipt.cash = [cur \in Currencies |-> Collected(request, cur)]
      /\ receipt.cash \in [Currencies -> Nat]
  BY <1>1, <1>4, CollectedTyped
<1>6. AccountInv' /\ ReceiptsInv'
  <2>1. /\ receipt.adjusted \in Forms
        /\ \A adjustment \in receipt.adjusted : ~AdjustmentError(adjustment)
    BY <1>1, <1>4 DEF RequestInv
  <2>2. \A cur \in Currencies : paid[cur] = receipt.cash[cur] - Adjusted(receipt.adjusted, cur)
    BY <1>p, <1>4, <1>5 DEF Paid
  <2>3. receipt.shown = Expected(Lines(Unsettled(request.cutoff), balance[Driver]))
    BY <1>2, <1>4
  <2> QED BY <1>2, <1>3, <1>5, <2>1, <2>2, <2>3, RecordAgrees DEF TInv
<1>7. ClockInv' /\ clock' \in Nat /\ clock <= clock' /\ clock \in Nat
  BY <1>2, <1>3, <1>4, RecordTicks DEF TInv
<1>8. ScreensInv'
  <2>1. \A n : n \in 1 .. clock => n \in 1 .. clock'
    BY <1>7
  <2>2. \A r : RequestInv(r) => RequestInv(r)'
    BY <2>1 DEF RequestInv
  <2>3. /\ forms' \in [Desks -> FormRows]
        /\ \A b \in Desks : views'[b] # None => ViewInv(views'[b])
    <3>1. CASE Shut(request.desk)
      BY <1>1, <3>1, ShutTyped
    <3>2. CASE UNCHANGED <<views, forms>>
      BY <3>2 DEF TInv, ScreensInv
    <3> QED BY <3>1, <3>2 DEF Settle
  <2>4. \A r \in sent' : RequestInv(r)
    BY <1>2 DEF TInv, ScreensInv
  <2>5. \A b \in Desks : views'[b] # None =>
          /\ views'[b].cutoff \in 1 .. clock'
          /\ IsPartial(views'[b].lines, LineRows)
          /\ views'[b].orders \subseteq Items
    BY <2>1, <2>3 DEF ViewInv
  <2>6. \A r \in sent' : RequestInv(r)'
    BY <2>2, <2>4
  <2> QED BY <2>3, <2>5, <2>6 DEF ScreensInv, ViewInv, IsPartial, LineRows, FormRows, Boxed
<1> QED BY <1>6, <1>7, <1>8 DEF TInv

\* Every step keeps what the figures say.
LEMMA TInductive == IInv /\ TInv /\ [Next]_vars => TInv'
<1> SUFFICES ASSUME IInv, TInv, [Next]_vars PROVE TInv'
  OBVIOUS
<1>1. ASSUME UNCHANGED account, forms' \in [Desks -> FormRows],
             \A b \in Desks : views'[b] # None => ViewInv(views'[b]), sent' \subseteq sent
      PROVE  TInv'
  BY <1>1, FormsTyped DEF TInv, ScreensInv
<1>2. ASSUME UNCHANGED <<account, views, forms>>, sent' \subseteq sent PROVE TInv'
  BY <1>1, <1>2 DEF TInv, ScreensInv
<1>3. CASE UNCHANGED vars
  BY <1>2, <1>3 DEF vars, screens, requests
<1>4. ASSUME NEW request \in sent, Refuse(request) \/ Lose(request) PROVE TInv'
  BY <1>2, <1>4 DEF Refuse, Lose, screens
<1> QED BY <1>3, <1>4, DeliverTyped, ElsewhereTyped, VoidTyped, ScreensTyped, SettleTyped DEF Next
-----------------------------------------------------------------------------
\* The account, the screens and the requests have their types.
THEOREM TypesHold == Spec => []TypeOK
BY InitTInv, Inductive, TInductive, TypesFollow, PTL DEF Spec

\* assertNoDrift: what is on record for a handover is what the admin and the
\* driver had before them when the button was pressed, per currency, however
\* late the request was served and whatever happened in between.
THEOREM RecordsAgree == Spec => []RecordedAsAgreed
<1>1. TInv => RecordedAsAgreed
  BY ReceiptsAgree DEF TInv
<1> QED BY <1>1, InitTInv, Inductive, TInductive, PTL DEF Spec
-----------------------------------------------------------------------------
\* Figures that arrive while the dialog is open, and the closing of a dialog:
\* the only steps that change what a screen shows.
LEMMA ViewsChange ==
  ASSUME IInv, TInv, [Next]_vars, NEW a \in Desks, views'[a] # views[a], forms'[a].open
  PROVE  IF forms[a].seeded THEN forms'[a] = forms[a]
         ELSE ~InvalidAmount(forms'[a], views'[a].lines)
<1>1. views = [b \in Desks |-> views[b]] /\ forms \in [Desks -> FormRows]
  BY DEF IInv, TInv, ScreensInv
<1>2. ASSUME NEW b \in Desks, Shut(b) PROVE b # a
  <2>1. b = a => views'[a] = None /\ ~forms'[a].open
    BY <1>2, ShutTyped
  <2> QED BY <2>1
<1>3. ASSUME NEW b \in Desks, Shut(b) PROVE FALSE
  BY <1>1, <1>2, <1>3 DEF Shut
<1>4. ASSUME NEW b \in Desks, Show(b)
      PROVE  /\ views'[a] = View /\ forms'[a] = Seeded(forms[a], View)
  <2>1. b = a
    BY <1>1, <1>4 DEF Show
  <2> QED BY <1>1, <1>4, <2>1 DEF Show
<1>5. views' # views
  OBVIOUS
<1>6. ~(UNCHANGED vars \/ SettleElsewhere \/ Void
        \/ \E item \in Items, at \in {clock, clock + 1} : Deliver(item, at))
  BY <1>5 DEF vars, SettleElsewhere, Void, Deliver, screens
<1>7. ~\E b \in Desks :
         \/ Open(b) \/ Close(b) \/ Submit(b) \/ GiveUp(b)
         \/ \E cur \in Currencies, typed \in Typed : Type(b, cur, typed)
         \/ \E adjustments \in Forms : Adjust(b, adjustments)
  BY <1>3, <1>5 DEF Open, Close, Submit, GiveUp, Type, Adjust, screens
<1>8. ~\E request \in sent : Settle(request) \/ Refuse(request) \/ Lose(request)
  <2>1. \A request \in sent : request.desk \in Desks
    BY DEF IInv, Moments
  <2> QED BY <1>3, <1>5, <2>1 DEF Settle, Refuse, Lose, screens
<1>9. PICK b \in Desks : Show(b)
  BY <1>6, <1>7, <1>8 DEF Next
<1>10. /\ forms[a].seeded => Seeded(forms[a], View) = forms[a]
       /\ ~forms[a].seeded => ~InvalidAmount(Seeded(forms[a], View), View.lines)
  BY <1>1, ViewTyped, SeededTyped DEF Seeded
<1> QED BY <1>4, <1>9, <1>10

\* Figures that arrive while a dialog is open change nothing in a form the admin
\* has, and the first ones leave him a form he can submit (seededFor).
THEOREM FormIsSpared == Spec => AnswersSpareTheForm
<1>1. IInv /\ TInv /\ [Next]_vars =>
        [\A a \in Desks :
           views'[a] # views[a] /\ forms'[a].open =>
             IF forms[a].seeded THEN forms'[a] = forms[a]
             ELSE ~InvalidAmount(forms'[a], views'[a].lines)]_vars
  BY ViewsChange
<1> QED BY <1>1, InitTInv, Inductive, TInductive, PTL DEF Spec, AnswersSpareTheForm

\* The list under a line is all its deliveries, or as many as the limit says.
LEMMA LineIsListed ==
  ASSUME TInv, NEW cur \in DOMAIN View.lines, View.lines[cur].orderCount # 0
  PROVE  Breakdown(View, cur) \in {"truncated", "reconciles"}
<1> DEFINE swept == Unsettled(clock)
           behind == {item \in swept : item.currency = cur}
           rows == {item \in View.orders : item.currency = cur}
<1>1. /\ cur \in Currencies /\ View.lines[cur].orderCount = Count(swept, cur)
      /\ View.lines[cur].commissionDue = Account!Due(swept, cur)
  BY DEF View, Lines
<1>2. swept \in SUBSET Items /\ \A item \in swept : since[item] \in Nat
  <2>1. swept \in SUBSET Items
    BY SweptAreItems DEF TInv
  <2>2. since \in [Items -> 0 .. clock] /\ clock \in Nat
    BY DeskAssumption DEF TInv, ClockInv
  <2> HIDE DEF swept
  <2> QED BY <2>1, <2>2
<1>3. rows = Page(behind)
  <2>1. View.orders = Itemised(swept)
    BY DEF View
  <2> HIDE DEF swept
  <2> QED BY <1>1, <1>2, <2>1, ItemisedIs
<1>4. /\ behind \in SUBSET Items /\ \A item \in behind : since[item] \in Nat
      /\ Cardinality(behind) \in Nat /\ Cardinality(behind) # 0
      /\ Count(swept, cur) = Cardinality(behind)
  <2>1. behind \in SUBSET Items /\ \A item \in behind : since[item] \in Nat
    BY <1>2
  <2>2. Count(swept, cur) = Cardinality(behind)
    BY DEF Count
  <2>3. Cardinality(behind) \in Nat
    BY <2>1, DeskAssumption, FS_Subset, FS_CardinalityType
  <2> QED BY <1>1, <2>1, <2>2, <2>3
<1>5. /\ rows # {}
      /\ \/ Account!Due(rows, cur) = Account!Due(swept, cur)
         \/ Cardinality(rows) < Cardinality(behind)
  <2>1. CASE Cardinality(behind) <= ListLimit
    <3>1. rows = behind /\ rows # {}
      <4>1. rows = behind
        <5> HIDE DEF behind, rows
        <5> QED BY <1>3, <1>4, <2>1, PageIs
      <4>2. behind # {}
        BY <1>4, FS_EmptySet
      <4> QED BY <4>1, <4>2
    <3>2. {item \in behind : item.currency = cur} = behind
      OBVIOUS
    <3>3. Account!Due(behind, cur) = Account!Due(swept, cur)
      BY <3>2, Zenon DEF Account!Due
    <3> QED BY <3>1, <3>3
  <2>2. CASE ~(Cardinality(behind) <= ListLimit)
    <3> HIDE DEF behind, rows
    <3>1. Cardinality(rows) = ListLimit
      BY <1>3, <1>4, <2>2, PageIs
    <3>2. rows # {} /\ ListLimit \in Nat
      BY <3>1, DeskAssumption, FS_EmptySet
    <3> QED BY <1>4, <2>2, <3>1, <3>2
  <2> QED BY <2>1, <2>2
<1>6. /\ rows # {}
      /\ Cardinality(rows) < View.lines[cur].orderCount
           \/ Account!Due(rows, cur) = View.lines[cur].commissionDue
  <2> HIDE DEF rows, behind, swept
  <2> QED BY <1>1, <1>4, <1>5
<1> QED BY <1>6 DEF Breakdown

\* Every line a driver is shown is owed, in credit or covered by credit, and none
\* of its deliveries is missing without the list saying so (coveredByCredit and
\* itemisedByCurrency).
THEOREM PanelIsWhole == Spec => []PanelTellsAll
<1>1. TInv => PanelTellsAll
  <2> SUFFICES ASSUME TInv PROVE PanelTellsAll
    OBVIOUS
  <2>1. OwedLines(View.lines) \cup CreditLines(View.lines) \cup CoveredByCredit(View.lines)
          = DOMAIN View.lines
    <3> DEFINE swept == Unsettled(clock)
    <3>1. swept \in SUBSET Items /\ balance[Driver] \in [Currencies -> Int]
      BY SweptAreItems DEF TInv, AccountInv
    <3>2. ASSUME NEW cur \in DOMAIN View.lines
          PROVE  /\ View.lines[cur].totalDue \in Int /\ View.lines[cur].orderCount \in Nat
                 /\ View.lines[cur].orderCount = 0 => View.lines[cur].totalDue # 0
      <4>1. /\ cur \in Currencies /\ View.lines[cur].orderCount = Count(swept, cur)
            /\ View.lines[cur].totalDue = Account!Due(swept, cur) + balance[Driver][cur]
            /\ Count(swept, cur) # 0 \/ balance[Driver][cur] # 0
        BY DEF View, Lines
      <4>2. /\ Count(swept, cur) \in Nat /\ Account!Due(swept, cur) \in Nat
            /\ Count(swept, cur) = 0 => Account!Due(swept, cur) = 0
        <5> HIDE DEF swept
        <5> QED BY <3>1, GroupTyped
      <4>3. balance[Driver][cur] \in Int
        BY <3>1, <4>1
      <4> HIDE DEF swept
      <4> QED BY <4>1, <4>2, <4>3
    <3> QED BY <3>2 DEF OwedLines, CreditLines, CoveredByCredit
  <2>2. \A cur \in DOMAIN View.lines : View.lines[cur].orderCount # 0 =>
          Breakdown(View, cur) \in {"truncated", "reconciles"}
    BY LineIsListed
  <2> QED BY <2>1, <2>2 DEF PanelTellsAll
<1> QED BY <1>1, InitTInv, Inductive, TInductive, PTL DEF Spec
-----------------------------------------------------------------------------
\* A tab has one request for its queries on its way, and what it is answered
\* with was read no earlier than what it shows.
InOrder(t) ==
  /\ \A f, g \in fetches[t] : f = g
  /\ shown[t].at \in Nat /\ shown[t].at <= changes
  /\ \A f \in fetches[t] \ {Null} : f.at \in Nat /\ shown[t].at <= f.at /\ f.at <= changes

AnswersInv ==
  /\ changes \in Nat
  /\ shown = [t \in Tabs |-> shown[t]] /\ fetches = [t \in Tabs |-> fetches[t]]
  /\ \A t \in Tabs : InOrder(t)

\* What happens to a tab's queries: nothing, they are invalidated, the API
\* reads them, or its answer is shown.
QueryStep(t) ==
  \/ shown'[t] = shown[t] /\ fetches'[t] \in {fetches[t], {Null}}
  \/ shown'[t] = shown[t] /\ fetches'[t] = (fetches[t] \ {Null}) \cup {Fetched(t)}
       /\ Null \in fetches[t]
  \/ \E fetched \in fetches[t] \ {Null} :
       shown'[t] = fetched /\ fetches'[t] = fetches[t] \ {fetched}

\* No request is on its way to begin with.
LEMMA InitAnswers == LiveInit => AnswersInv
BY DEF LiveInit, AnswersInv, InOrder, Fetched

\* None of these puts an older state on the screen.
LEMMA QueryStaysInOrder ==
  ASSUME NEW t \in Tabs, InOrder(t), changes \in Nat, changes' \in Nat, changes <= changes',
         QueryStep(t)
  PROVE  InOrder(t)' /\ shown'[t].at >= shown[t].at
<1>1. CASE shown'[t] = shown[t] /\ fetches'[t] \in {fetches[t], {Null}}
  BY <1>1 DEF InOrder
<1>2. CASE /\ shown'[t] = shown[t] /\ fetches'[t] = (fetches[t] \ {Null}) \cup {Fetched(t)}
           /\ Null \in fetches[t]
  <2>1. fetches'[t] = {Fetched(t)}
    BY <1>2 DEF InOrder
  <2>2. Fetched(t).at = changes
    BY DEF Fetched
  <2> QED BY <1>2, <2>1, <2>2 DEF InOrder
<1>3. ASSUME NEW fetched \in fetches[t] \ {Null},
             shown'[t] = fetched, fetches'[t] = fetches[t] \ {fetched}
      PROVE  InOrder(t)' /\ shown'[t].at >= shown[t].at
  <2>1. fetches'[t] = {}
    BY <1>3 DEF InOrder
  <2> QED BY <1>3, <2>1 DEF InOrder
<1> QED BY <1>1, <1>2, <1>3 DEF QueryStep

\* Every step of the API and of any tab is one of these to a tab, and the count
\* of commits never falls.
LEMMA StepsAreQuerySteps ==
  ASSUME AnswersInv, [LiveNext]_liveVars
  PROVE  /\ changes' \in Nat /\ changes <= changes'
         /\ shown' = [t \in Tabs |-> shown'[t]] /\ fetches' = [t \in Tabs |-> fetches'[t]]
         /\ \A t \in Tabs : QueryStep(t)
<1> DEFINE Goal == /\ changes' \in Nat /\ changes <= changes'
                   /\ shown' = [t \in Tabs |-> shown'[t]] /\ fetches' = [t \in Tabs |-> fetches'[t]]
                   /\ \A t \in Tabs : QueryStep(t)
<1>1. changes \in Nat /\ changes + 1 \in Nat /\ changes <= changes + 1
  BY DEF AnswersInv
<1>2. ASSUME changes' \in {changes, changes + 1}, UNCHANGED <<fetches, shown>> PROVE Goal
  BY <1>1, <1>2 DEF AnswersInv, QueryStep
<1>3. ASSUME NEW t, Invalidate(t), UNCHANGED <<changes, shown>> PROVE Goal
  <2>1. fetches' = [fetches EXCEPT ![t] = {Null}] /\ changes' = changes /\ shown' = shown
    BY <1>3 DEF Invalidate, Invalidated
  <2>2. fetches' = [u \in Tabs |-> fetches'[u]] /\ \A u \in Tabs : fetches'[u] \in {fetches[u], {Null}}
    BY <2>1 DEF AnswersInv
  <2> QED BY <1>1, <2>1, <2>2 DEF AnswersInv, QueryStep
<1>4. ASSUME NEW t \in Tabs, Fetch(t) PROVE Goal
  <2>1. UNCHANGED changes
    BY <1>4 DEF Fetch, Read, Display, dbVars
  <2>2. /\ shown' = [u \in Tabs |-> shown'[u]] /\ fetches' = [u \in Tabs |-> fetches'[u]]
        /\ \A u \in Tabs \ {t} : shown'[u] = shown[u] /\ fetches'[u] = fetches[u]
    BY <1>4 DEF Fetch, Read, Display, AnswersInv
  <2>3. QueryStep(t)
    BY <1>4 DEF Fetch, Read, Display, AnswersInv, QueryStep
  <2>4. \A u \in Tabs \ {t} : QueryStep(u)
    BY <2>2 DEF QueryStep
  <2> QED BY <1>1, <2>1, <2>2, <2>3, <2>4
<1>5. ASSUME NEW tab, NEW emits, Commit(tab, emits) PROVE Goal
  BY <1>2, <1>5 DEF Commit, tabVars
<1>6. CASE Work
  BY <1>5, <1>6 DEF Work, Create, SetDuty, Transition, Reassign,
                    Handover
<1>7. CASE Serve
  BY <1>2, <1>3, <1>7 DEF Serve, Emit, Answer, dbVars
<1>8. CASE Restart
  BY <1>2, <1>8 DEF Restart, dbVars
<1>9. ASSUME NEW t \in Tabs,
             \/ Receive(t) \/ Fire(t) \/ Handshake(t)
             \/ Focus(t) \/ Refused(t) \/ Drop(t)
      PROVE  Goal
  BY <1>2, <1>3, <1>9
     DEF Receive, Fire, Handshake, Connect, Join, ReadDuty,
         JoinFeed, Focus, Refused, Drop, dbVars, tabVars
<1>10. CASE UNCHANGED liveVars
  BY <1>2, <1>10 DEF liveVars
<1> QED BY <1>4, <1>6, <1>7, <1>8, <1>9, <1>10 DEF LiveNext

\* Every step keeps the answers in order.
LEMMA AnswersStep ==
  AnswersInv /\ [LiveNext]_liveVars => AnswersInv' /\ \A t \in Tabs : shown'[t].at >= shown[t].at
<1> SUFFICES ASSUME AnswersInv, [LiveNext]_liveVars
             PROVE  AnswersInv' /\ \A t \in Tabs : shown'[t].at >= shown[t].at
  OBVIOUS
<1>1. \A t \in Tabs : InOrder(t)' /\ shown'[t].at >= shown[t].at
  BY StepsAreQuerySteps, QueryStaysInOrder DEF AnswersInv
<1> QED BY <1>1, StepsAreQuerySteps DEF AnswersInv

\* A refetch never puts an older state of the platform back on a screen, on any
\* number of tabs: a query that is invalidated while it is fetched is fetched anew,
\* so that one request at most is on its way (NeverBackwards of LiveScreens).
THEOREM AnswersInOrder == LiveSpec => NeverBackwards
<1>1. AnswersInv /\ [LiveNext]_liveVars =>
          [\A t \in Tabs : shown'[t].at >= shown[t].at]_liveVars
  BY AnswersStep
<1> QED BY <1>1, InitAnswers, AnswersStep, PTL DEF LiveSpec, NeverBackwards

\* Who has an order: a driver from the assignment to the delivery.
OrderInv == /\ order \in OrderRows
            /\ order.status \in {"DRIVER_ASSIGNED", "PICKED_UP", "DELIVERED"} => order.driver \in Drivers

Marks == Rooms \cup {"join", "leave"}
Emissions == Seq(SUBSET Marks)
HandlerRows == [id : 0 .. MaxChanges, tab : Tabs \cup {Null}, emits : Emissions]
SocketRows == [phase : {"off", "connected", "joined", "offered", "on"}, rooms : SUBSET Rooms]

DbInv == /\ user \in [Tabs -> Users] /\ OrderInv /\ duty \subseteq Drivers
         /\ changes \in 0 .. MaxChanges /\ drops \in 0 .. MaxDrops
SocketInv == /\ handlers \subseteq HandlerRows /\ sockets \in [Tabs -> SocketRows]
             /\ heard \subseteq Tabs /\ timers \subseteq Tabs
QueryInv == /\ fetches \in [Tabs -> SUBSET (Screens \cup {Null})]
            /\ shown \in [Tabs -> Screens]

LiveInv == DbInv /\ SocketInv /\ QueryInv

\* The type invariant is a part of the inductive one.
LEMMA LiveTypesFollow == LiveInv => LiveTypeOK
<1> SUFFICES ASSUME LiveInv PROVE LiveTypeOK
  OBVIOUS
<1>1. \A h \in handlers : /\ h.id \in 0 .. MaxChanges /\ h.tab \in Tabs \cup {Null}
                          /\ h.emits \in Seq(SUBSET (Rooms \cup {"join", "leave"}))
  BY DEF LiveInv, SocketInv, HandlerRows, Emissions, Marks
<1> QED BY <1>1 DEF LiveInv, DbInv, OrderInv, SocketInv, QueryInv, SocketRows, LiveTypeOK

\* What the API answers a tab with.
LEMMA FetchedTyped ==
  ASSUME DbInv, NEW t \in Tabs PROVE Fetched(t) \in Screens
<1>1. order \in OrderRows /\ duty \subseteq Drivers /\ changes \in 0 .. MaxChanges
  BY DEF DbInv, OrderInv
<1>2. Mine(user[t]) \in OrderRows /\ [order EXCEPT !.settled = FALSE] \in OrderRows
  BY <1>1 DEF Mine, OrderRows, Statuses
<1>3. Screen(t) \in OrderRows \X SUBSET (Drivers \cup {"offer"})
  BY <1>1, <1>2 DEF Screen
<1> QED BY <1>1, <1>3 DEF Fetched, Screens

\* Everybody is connected in his rooms to begin with.
LEMMA InitLiveInv == ASSUME LiveInit PROVE LiveInv
<1> USE LiveAssumption
<1>1. DbInv
  <2>1. user \in [Tabs -> Users] /\ changes = 0 /\ drops = 0 /\ duty \subseteq Drivers
        /\ MaxChanges \in Nat /\ MaxDrops \in Nat
    BY DEF LiveInit, LiveAssumption
  <2>2. OrderInv
    <3>1. CASE order = [status |-> "ABSENT", driver |-> Null, settled |-> FALSE]
      BY <3>1 DEF OrderInv, OrderRows, Statuses
    <3>2. ASSUME NEW d \in Drivers, order = [status |-> "DELIVERED", driver |-> d, settled |-> FALSE]
          PROVE  OrderInv
      BY <3>2 DEF OrderInv, OrderRows, Statuses
    <3> QED BY <3>1, <3>2 DEF LiveInit, Starts
  <2> QED BY <2>1, <2>2 DEF DbInv
<1>2. SocketInv
  <2>1. \A t \in Tabs :
          [phase |-> "on",
           rooms |-> Home(t) \cup IF user[t] \in duty THEN {Feed} ELSE {}] \in SocketRows
    BY <1>1 DEF DbInv, Home, SocketRows, Rooms
  <2> QED BY <2>1 DEF LiveInit, SocketInv
<1>3. QueryInv
  BY <1>1, FetchedTyped DEF LiveInit, QueryInv
<1> QED BY <1>1, <1>2, <1>3 DEF LiveInv

\* The tabs' queries.
LEMMA QueriesTyped ==
  ASSUME LiveInv, AnswersInv, [LiveNext]_liveVars PROVE QueryInv'
<1>1. ASSUME NEW t \in Tabs
      PROVE  shown'[t] \in Screens /\ fetches'[t] \in SUBSET (Screens \cup {Null})
  <2>1. QueryStep(t) /\ Fetched(t) \in Screens
    BY StepsAreQuerySteps, FetchedTyped DEF LiveInv
  <2>2. shown[t] \in Screens /\ fetches[t] \in SUBSET (Screens \cup {Null})
    BY DEF LiveInv, QueryInv
  <2> QED BY <2>1, <2>2 DEF QueryStep
<1>2. shown' = [t \in Tabs |-> shown'[t]] /\ fetches' = [t \in Tabs |-> fetches'[t]]
  BY StepsAreQuerySteps
<1> QED BY <1>1, <1>2 DEF QueryInv, Screens, OrderRows, Statuses

\* A commit leaves a handler with marks to emit.
LEMMA CommitTyped ==
  ASSUME LiveInv, NEW t \in Tabs \cup {Null}, NEW emits \in Emissions,
         Commit(t, emits), OrderInv', duty' \subseteq Drivers
  PROVE  DbInv' /\ SocketInv'
<1> USE LiveAssumption
<1>1. changes' \in 0 .. MaxChanges
  BY DEF LiveInv, DbInv, Commit, LiveAssumption
<1>2. [id |-> changes, tab |-> t, emits |-> emits] \in HandlerRows
  BY DEF HandlerRows, LiveInv, DbInv
<1>3. UNCHANGED <<user, sockets, drops, heard, timers>>
  BY DEF Commit, tabVars
<1> QED BY <1>1, <1>2, <1>3 DEF LiveInv, DbInv, SocketInv, Commit, HandlerRows,
                                SocketRows, Emissions, Marks

\* A handler with one event to emit, and one with two.
LEMMA OneEmit == ASSUME NEW rooms \in SUBSET Marks PROVE <<rooms>> \in Emissions
BY DEF Emissions

LEMMA TwoEmits ==
  ASSUME NEW rooms \in SUBSET Marks, NEW others \in SUBSET Marks
  PROVE  <<rooms, others>> \in Emissions
BY DEF Emissions

\* A transition has a driver wherever its event goes to one.
LEMMA TransitionTyped ==
  ASSUME LiveInv, NEW t \in Tabs \cup {Null}, NEW d \in Drivers \cup {Null},
         NEW transition \in Machine!ORDER_TRANSITIONS, Transition(transition, d, t)
  PROVE  DbInv' /\ SocketInv'
<1> USE LiveAssumption
<1>1. /\ order.status \in transition.from /\ order \in OrderRows
      /\ order' = [order EXCEPT !.status = transition.to, !.driver = d]
      /\ UNCHANGED duty /\ duty \subseteq Drivers
      /\ Commit(t, Emits(transition, d))
  BY DEF Transition, LiveInv, DbInv, OrderInv
<1>2. /\ transition.to \in Statuses /\ transition.to # "ABSENT"
      /\ transition.to \in {"DRIVER_ASSIGNED", "PICKED_UP", "DELIVERED"} => d \in Drivers
      /\ transition.action \notin {"accept", "cancel"} => order.driver \in Drivers
      /\ transition.action \notin {"accept", "cancel", "release"} => d \in Drivers
      /\ transition.action = "accept" => d \in Drivers
  BY <1>1 DEF Transition, LiveInv, DbInv, OrderInv, Machine!ORDER_TRANSITIONS,
              Machine!Transition, Statuses
<1>3. OrderInv'
  BY <1>1, <1>2 DEF OrderInv, OrderRows, Statuses
<1>4. Emits(transition, d) \in Emissions
  <2>1. {Vendor, Admin, Feed} \subseteq Marks /\ Drivers \subseteq Marks
    BY DEF Marks, Rooms, Users
  <2>2. CASE transition.action = "release"
    <3>1. {Vendor, Admin, order.driver} \in SUBSET Marks /\ {Feed, Admin} \in SUBSET Marks
      BY <1>2, <2>1, <2>2
    <3>2. Emits(transition, d) = <<{Vendor, Admin, order.driver}, {Feed, Admin}>>
      BY <2>2 DEF Emits
    <3> QED BY <3>1, <3>2, TwoEmits
  <2>3. CASE transition.action = "accept"
    <3>1. {Vendor, Admin, Feed, d} \in SUBSET Marks
      BY <1>2, <2>1, <2>3
    <3> QED BY <2>3, <3>1, OneEmit DEF Emits
  <2>4. CASE transition.action = "cancel"
    <3>1. PICK feed \in SUBSET {Feed} :
            Emits(transition, d) = <<{Vendor, Admin} \cup Someone(d) \cup feed>>
      BY <2>4 DEF Emits
    <3>2. {Vendor, Admin} \cup Someone(d) \cup feed \in SUBSET Marks
      BY <2>1 DEF Someone
    <3> QED BY <3>1, <3>2, OneEmit
  <2>5. CASE transition.action \notin {"accept", "cancel", "release"}
    <3>1. {Vendor, Admin, d} \in SUBSET Marks
      BY <1>2, <2>1, <2>5
    <3> QED BY <2>5, <3>1, OneEmit DEF Emits
  <2> QED BY <2>2, <2>3, <2>4, <2>5
<1> QED BY <1>1, <1>3, <1>4, CommitTyped

\* What people do.
LEMMA WorkTyped == ASSUME LiveInv, Work PROVE DbInv' /\ SocketInv'
<1> USE LiveAssumption
<1>1. {Vendor, Admin, Feed, "join", "leave"} \subseteq Marks /\ Drivers \subseteq Marks
  BY DEF Marks, Rooms, Users
<1>2. OrderInv /\ order \in OrderRows /\ duty \subseteq Drivers
  BY DEF LiveInv, DbInv, OrderInv
<1>3. ASSUME NEW t \in Tabs \cup {Null}, Create(t) PROVE DbInv' /\ SocketInv'
  <2>1. order' = [order EXCEPT !.status = "PENDING"] /\ UNCHANGED duty
        /\ Commit(t, <<{Feed, Admin}>>)
    BY <1>3 DEF Create
  <2>2. OrderInv'
    BY <1>2, <2>1 DEF OrderInv, OrderRows, Statuses
  <2>3. <<{Feed, Admin}>> \in Emissions
    BY <1>1, OneEmit
  <2> QED BY <1>2, <2>1, <2>2, <2>3, CommitTyped
<1>4. ASSUME NEW t \in Tabs \cup {Null}, NEW d \in Drivers, NEW on \in BOOLEAN, SetDuty(d, on, t)
      PROVE  DbInv' /\ SocketInv'
  <2>1. PICK move \in {"join", "leave"} : Commit(t, <<{move, d}, {Admin}>>)
    BY <1>4 DEF SetDuty
  <2>2. duty' \subseteq Drivers /\ UNCHANGED order
    BY <1>2, <1>4 DEF SetDuty
  <2>3. OrderInv'
    BY <1>2, <2>2 DEF OrderInv, OrderRows, Statuses
  <2>4. <<{move, d}, {Admin}>> \in Emissions
    <3>1. {move, d} \in SUBSET Marks /\ {Admin} \in SUBSET Marks
      BY <1>1
    <3> QED BY <3>1, TwoEmits
  <2> QED BY <2>1, <2>2, <2>3, <2>4, CommitTyped
<1>5. ASSUME NEW t \in Tabs \cup {Null}, NEW d \in Drivers, Reassign(d, t)
      PROVE  DbInv' /\ SocketInv'
  <2>1. /\ order' = [order EXCEPT !.status = "DRIVER_ASSIGNED", !.driver = d]
        /\ UNCHANGED duty /\ order.driver \in Drivers
        /\ Commit(t, <<{Vendor, Admin, order.driver}, {Vendor, Admin, Feed, d}>>)
    BY <1>2, <1>5 DEF Reassign, OrderInv
  <2>2. OrderInv'
    BY <1>2, <2>1 DEF OrderInv, OrderRows, Statuses
  <2>3. <<{Vendor, Admin, order.driver}, {Vendor, Admin, Feed, d}>> \in Emissions
    <3>1. {Vendor, Admin, order.driver} \in SUBSET Marks /\ {Vendor, Admin, Feed, d} \in SUBSET Marks
      BY <1>1, <2>1
    <3> QED BY <3>1, TwoEmits
  <2> QED BY <1>2, <2>1, <2>2, <2>3, CommitTyped
<1>6. CASE Handover
  <2>1. /\ order' = [order EXCEPT !.settled = ~@] /\ UNCHANGED duty
        /\ order.driver \in Drivers /\ Commit(Null, <<{Admin, order.driver}>>)
    BY <1>2, <1>6 DEF Handover, OrderInv
  <2>2. OrderInv'
    <3>1. (~order.settled) \in BOOLEAN
      OBVIOUS
    <3> QED BY <1>2, <2>1, <3>1 DEF OrderInv, OrderRows, Statuses
  <2>3. <<{Admin, order.driver}>> \in Emissions
    BY <1>1, <2>1, OneEmit
  <2> QED BY <1>2, <2>1, <2>2, <2>3, CommitTyped
<1> QED BY <1>3, <1>4, <1>5, <1>6, TransitionTyped DEF Work

\* What a handler does once it committed.
LEMMA ServeTyped ==
  ASSUME LiveInv, NEW h \in handlers, Emit(h) \/ Answer(h)
  PROVE  DbInv' /\ SocketInv'
<1>1. UNCHANGED <<user, order, duty, changes, drops, timers>>
  BY DEF Emit, Answer, dbVars
<1>2. DbInv'
  BY <1>1 DEF LiveInv, DbInv, OrderInv, OrderRows, Statuses
<1>3. handlers' \subseteq HandlerRows
  <2>1. CASE Answer(h)
    BY <2>1 DEF Answer, LiveInv, SocketInv
  <2>2. CASE Emit(h)
    <3>1. h \in HandlerRows /\ h.emits \in Emissions /\ h.emits # <<>>
      BY <2>2 DEF Emit, LiveInv, SocketInv, HandlerRows
    <3>2. Tail(h.emits) \in Emissions
      BY <3>1 DEF Emissions
    <3>3. [h EXCEPT !.emits = Tail(h.emits)] \in HandlerRows
      BY <3>1, <3>2 DEF HandlerRows
    <3>4. handlers' \subseteq handlers \cup {[h EXCEPT !.emits = Tail(h.emits)]}
      BY <2>2 DEF Emit, Unanswered
    <3> QED BY <3>3, <3>4 DEF LiveInv, SocketInv
  <2> QED BY <2>1, <2>2
<1>4. sockets' \in [Tabs -> SocketRows] /\ heard' \subseteq Tabs
  <2>1. sockets \in [Tabs -> SocketRows] /\ heard \subseteq Tabs
    BY DEF LiveInv, SocketInv
  <2>2. \A t \in Tabs : Moved(t, h) \in SocketRows
    BY <2>1 DEF Moved, SocketRows, Rooms
  <2> QED BY <2>1, <2>2 DEF Emit, Answer
<1> QED BY <1>1, <1>2, <1>3, <1>4 DEF LiveInv, SocketInv, HandlerRows, SocketRows, Emissions,
                                      Marks

\* What a tab does.
LEMMA TabsTyped ==
  ASSUME LiveInv, NEW t \in Tabs,
         \/ Receive(t) \/ Fire(t) \/ Fetch(t) \/ Handshake(t)
         \/ Focus(t) \/ Refused(t) \/ Drop(t)
  PROVE  DbInv' /\ SocketInv'
<1> USE LiveAssumption
<1>1. UNCHANGED <<user, order, duty, changes, handlers>>
  BY DEF Receive, Fire, Fetch, Read, Display, Handshake,
         Connect, Join, ReadDuty, JoinFeed, Focus, Refused,
         Drop, dbVars
<1>2. drops' \in 0 .. MaxDrops
  BY DEF Receive, Fire, Fetch, Read, Display, Handshake,
         Connect, Join, ReadDuty, JoinFeed, Focus, Refused,
         Drop, LiveInv, DbInv, LiveAssumption
<1>3. heard' \subseteq Tabs /\ timers' \subseteq Tabs
  BY DEF Receive, Fire, Fetch, Read, Display, Handshake,
         Connect, Join, ReadDuty, JoinFeed, Focus, Refused,
         Drop, LiveInv, SocketInv, tabVars
<1>4. sockets' \in [Tabs -> SocketRows]
  <2>1. sockets \in [Tabs -> SocketRows] /\ sockets[t] \in SocketRows
    BY DEF LiveInv, SocketInv
  <2>2. CASE UNCHANGED sockets
    BY <2>1, <2>2
  <2>3. ASSUME NEW socket \in SocketRows, sockets' = [sockets EXCEPT ![t] = socket]
        PROVE  sockets' \in [Tabs -> SocketRows]
    BY <2>1, <2>3
  <2>4. CASE Drop(t)
    <3>1. [phase |-> "off", rooms |-> {}] \in SocketRows
      BY DEF SocketRows
    <3> QED BY <2>3, <2>4, <3>1 DEF Drop
  <2>5. CASE Connect(t)
    <3>1. [sockets[t] EXCEPT !.phase = "connected"] \in SocketRows
      BY <2>1 DEF SocketRows
    <3> QED BY <2>1, <2>3, <2>5, <3>1 DEF Connect
  <2>6. CASE Join(t)
    <3>1. [phase |-> IF DriverTab(t) THEN "joined" ELSE "on", rooms |-> Home(t)] \in SocketRows
      BY DEF SocketRows, Home, Rooms, LiveInv, DbInv
    <3> QED BY <2>3, <2>6, <3>1 DEF Join
  <2>7. CASE ReadDuty(t)
    <3>1. [sockets[t] EXCEPT !.phase = IF user[t] \in duty THEN "offered" ELSE "on"] \in SocketRows
      BY <2>1 DEF SocketRows
    <3> QED BY <2>1, <2>3, <2>7, <3>1 DEF ReadDuty
  <2>8. CASE JoinFeed(t)
    <3>1. [phase |-> "on", rooms |-> sockets[t].rooms \cup {Feed}] \in SocketRows
      BY <2>1 DEF SocketRows, Rooms
    <3> QED BY <2>1, <2>3, <2>8, <3>1 DEF JoinFeed
  <2> QED BY <2>2, <2>4, <2>5, <2>6, <2>7, <2>8
          DEF Receive, Fire, Fetch, Read, Display, Handshake,
              Focus, Refused
<1> QED BY <1>1, <1>2, <1>3, <1>4
        DEF LiveInv, DbInv, OrderInv, OrderRows, Statuses, SocketInv, HandlerRows,
            SocketRows, Emissions, Marks

\* Every step keeps the types.
LEMMA LiveInvStep ==
  ASSUME LiveInv, AnswersInv, [LiveNext]_liveVars
  PROVE  LiveInv'
<1> USE LiveAssumption
<1>1. DbInv' /\ SocketInv'
  <2>1. CASE UNCHANGED liveVars
    BY <2>1 DEF liveVars, LiveInv, DbInv, OrderInv, OrderRows, Statuses, SocketInv,
                HandlerRows, SocketRows, Emissions, Marks
  <2>2. CASE Restart
    <3>1. UNCHANGED <<user, order, duty, changes, timers>>
          /\ drops < MaxDrops /\ drops' = drops + 1 /\ handlers' = {} /\ heard' = {}
          /\ sockets' = [t \in Tabs |-> [phase |-> "off", rooms |-> {}]]
      BY <2>2 DEF Restart, dbVars
    <3> QED BY <3>1 DEF LiveInv, DbInv, OrderInv, OrderRows, Statuses, SocketInv,
                        HandlerRows, SocketRows, LiveAssumption
  <2> QED BY <2>1, <2>2, WorkTyped, ServeTyped, TabsTyped DEF LiveNext, Serve
<1> QED BY <1>1, QueriesTyped DEF LiveInv

\* Types of the database, the connections and the tabs; every event has a room to
\* go to, since a driver is on the order whenever one is to hear of it.
THEOREM LiveTypesHold == LiveSpec => []LiveTypeOK
<1>1. LiveInv => LiveTypeOK
  BY LiveTypesFollow
<1>2. LiveInit => LiveInv /\ AnswersInv
  BY InitLiveInv, InitAnswers
<1>3. LiveInv /\ AnswersInv /\ [LiveNext]_liveVars => (LiveInv /\ AnswersInv)'
  BY LiveInvStep, AnswersStep
<1> QED BY <1>1, <1>2, <1>3, PTL DEF LiveSpec
-----------------------------------------------------------------------------
(* The events are enough.                                                  *)

\* The rooms a socket may be in: its user's own, from when it joined, and the
\* feed's.
InRooms(t, socket) ==
  /\ socket.rooms \subseteq {user[t], Feed}
  /\ socket.phase = "off" => socket.rooms = {}
  /\ socket.phase \in {"joined", "offered", "on"} => user[t] \in socket.rooms

RoomsInv == \A t \in Tabs : InRooms(t, sockets[t])

Moves(rooms) == rooms \cap {"join", "leave"} # {}

\* Who moves a driver's sockets asked for it as that driver.
MoveInv == \A h \in handlers : \A k \in 1 .. Len(h.emits) :
  Moves(h.emits[k]) => \E d \in Drivers : h.emits[k] \subseteq {"join", "leave", d} /\ From(h.tab, d)

\* An order that waits is nobody's.
WaitingInv == order.status \in {"ABSENT", "PENDING"} => order.driver = Null

EventsInv == RoomsInv /\ MoveInv /\ WaitingInv

\* What each of the three kinds of user sees.
LEMMA Screens3 ==
  ASSUME NEW t \in Tabs, user \in [Tabs -> Users]
  PROVE  /\ user[t] = Admin => Screen(t) = <<order, duty>>
         /\ user[t] = Vendor => Screen(t) = <<[order EXCEPT !.settled = FALSE], {}>>
         /\ user[t] \in Drivers =>
              Screen(t) = <<Mine(user[t]), IF user[t] \in duty /\ order.status = "PENDING"
                                           THEN {"offer"} ELSE {}>>
         /\ user[t] \in Drivers \/ user[t] = Admin \/ user[t] = Vendor
<1> USE LiveAssumption
<1>1. user[t] \in Drivers \cup {Vendor, Admin}
  BY DEF Users
<1>2. Vendor # Admin /\ (user[t] \in Drivers => user[t] # Admin /\ user[t] # Vendor)
  BY DEF LiveAssumption
<1> QED BY <1>1, <1>2 DEF Screen

\* A commit that says nothing to a driver: neither his order nor his feed
\* changes.
LEMMA NothingForDriver ==
  ASSUME NEW t \in Tabs, user \in [Tabs -> Users], UNCHANGED user, user[t] \in Drivers,
         order.driver # user[t], order'.driver # user[t],
         user[t] \in duty' <=> user[t] \in duty,
         user[t] \in duty => (order.status = "PENDING" <=> order'.status = "PENDING")
  PROVE  Screen(t)' = Screen(t)
<1>1. Screen(t) = <<Mine(user[t]), IF user[t] \in duty /\ order.status = "PENDING"
                                   THEN {"offer"} ELSE {}>>
  BY Screens3
<1>2. Screen(t)' = <<Mine(user[t])', IF user[t] \in duty' /\ order'.status = "PENDING"
                                     THEN {"offer"} ELSE {}>>
  <2>1. user[t] # Admin /\ user[t] # Vendor
    BY LiveAssumption DEF LiveAssumption
  <2> QED BY <2>1 DEF Screen
<1>3. Mine(user[t])' = Mine(user[t])
  BY DEF Mine
<1> QED BY <1>1, <1>2, <1>3

\* Whom a commit's events tell, or its answer.
Told(t, by, emits) == by = t \/ \E k \in 1 .. Len(emits) : Hears(t, emits[k])

LEMMA ToldByOne ==
  ASSUME NEW t, NEW by, NEW rooms, Hears(t, rooms) PROVE Told(t, by, <<rooms>>)
<1>1. Len(<<rooms>>) = 1 /\ <<rooms>>[1] = rooms
  OBVIOUS
<1> QED BY <1>1 DEF Told

LEMMA ToldByEither ==
  ASSUME NEW t, NEW by, NEW rooms, NEW others, Hears(t, rooms) \/ Hears(t, others)
  PROVE  Told(t, by, <<rooms, others>>)
<1>1. /\ Len(<<rooms, others>>) = 2
      /\ <<rooms, others>>[1] = rooms /\ <<rooms, others>>[2] = others
  OBVIOUS
<1> QED BY <1>1 DEF Told

\* Where a tab that stays in its rooms, and was not prompted, hears.
LEMMA HearsHome ==
  ASSUME LiveInv, RoomsInv, NEW t \in Tabs, StaysIn(t), ~Prompted(t), NEW rooms
  PROVE  /\ user[t] \in rooms => Hears(t, rooms)
         /\ user[t] \in Drivers /\ user[t] \in duty /\ Feed \in rooms => Hears(t, rooms)
<1>1. Joined(t) /\ FeedFollowsDuty(t)
  BY DEF StaysIn, Prompted
<1>2. sockets[t].phase = "on" /\ user[t] \in sockets[t].rooms
  BY <1>1 DEF Joined, RoomsInv, InRooms
<1> QED BY <1>1, <1>2 DEF Hears, FeedFollowsDuty, DriverTab

\* Who asked as the one who has the tab asked from it.
LEMMA FromHere ==
  ASSUME NEW t \in Tabs, NEW by \in Tabs \cup {Null}, Alone(t), user[t] # Admin, From(by, user[t])
  PROVE  by = t
BY DEF Alone, From

\* A commit tells whoever sees what it changes.
LEMMA TransitionTells ==
  ASSUME LiveInv, EventsInv, NEW t \in Tabs, Alone(t), StaysIn(t), ~Prompted(t),
         NEW by, NEW d \in Drivers \cup {Null},
         NEW transition \in Machine!ORDER_TRANSITIONS, Transition(transition, d, by)
  PROVE  Screen(t)' = Screen(t) \/ Told(t, by, Emits(transition, d))
<1> USE LiveAssumption
<1>1. /\ order.status \in transition.from /\ order \in OrderRows
      /\ order' = [order EXCEPT !.status = transition.to, !.driver = d]
      /\ UNCHANGED <<duty, user>> /\ user \in [Tabs -> Users]
  BY DEF Transition, Commit, LiveInv, DbInv, OrderInv
<1>2. order'.driver = d /\ order'.status = transition.to
  BY <1>1 DEF OrderRows
<1>3. /\ transition.action = "accept" => order.status = "PENDING" /\ order'.status # "PENDING"
      /\ transition.action = "release" => d = Null
      /\ transition.action \notin {"accept", "release"} => d = order.driver
      /\ transition.action = "cancel" => order'.status # "PENDING"
      /\ transition.action \notin {"accept", "release", "cancel"} =>
           order.status # "PENDING" /\ order'.status # "PENDING"
  BY <1>1, <1>2 DEF Transition, Machine!ORDER_TRANSITIONS, Machine!Transition
<1>4. \A rooms : /\ user[t] \in rooms => Hears(t, rooms)
                 /\ user[t] \in Drivers /\ user[t] \in duty /\ Feed \in rooms => Hears(t, rooms)
  BY HearsHome DEF EventsInv
<1>5. CASE user[t] \in {Vendor, Admin}
  <2>1. CASE transition.action = "release"
    BY <1>4, <1>5, <2>1, ToldByEither DEF Emits
  <2>2. CASE transition.action # "release"
    <3>1. PICK rooms : Emits(transition, d) = <<rooms>> /\ {Vendor, Admin} \subseteq rooms
      BY <2>2 DEF Emits
    <3> QED BY <1>4, <1>5, <3>1, ToldByOne
  <2> QED BY <2>1, <2>2
<1>6. CASE user[t] \in Drivers
  <2>1. CASE transition.action = "release"
    <3>1. Emits(transition, d) = <<{Vendor, Admin, order.driver}, {Feed, Admin}>>
      BY <2>1 DEF Emits
    <3>2. CASE user[t] = order.driver \/ user[t] \in duty
      BY <1>4, <1>6, <3>1, <3>2, ToldByEither
    <3>3. CASE user[t] # order.driver /\ user[t] \notin duty
      <4>1. order'.driver # user[t]
        BY <1>2, <1>3, <1>6, <2>1 DEF LiveAssumption, Users
      <4> QED BY <1>1, <1>6, <3>3, <4>1, NothingForDriver
    <3> QED BY <3>2, <3>3
  <2>2. CASE transition.action = "accept"
    <3>1. Emits(transition, d) = <<{Vendor, Admin, Feed, d}>>
      BY <2>2 DEF Emits
    <3>2. CASE user[t] = d \/ user[t] \in duty
      BY <1>4, <1>6, <3>1, <3>2, ToldByOne
    <3>3. CASE user[t] # d /\ user[t] \notin duty
      <4>1. order.driver # user[t]
        BY <1>3, <1>6, <2>2 DEF EventsInv, WaitingInv, LiveAssumption, Users
      <4> QED BY <1>1, <1>2, <1>6, <3>3, <4>1, NothingForDriver
    <3> QED BY <3>2, <3>3
  <2>3. CASE transition.action = "cancel"
    <3>1. PICK rooms : /\ Emits(transition, d) = <<rooms>> /\ Someone(d) \subseteq rooms
                       /\ order.status = "PENDING" => Feed \in rooms
      BY <2>3 DEF Emits
    <3>2. CASE user[t] = d \/ (user[t] \in duty /\ order.status = "PENDING")
      <4>1. d # Null => d \in rooms
        BY <3>1 DEF Someone
      <4> QED BY <1>4, <1>6, <3>1, <3>2, <4>1, ToldByOne DEF LiveAssumption, Users
    <3>3. CASE user[t] # d /\ ~(user[t] \in duty /\ order.status = "PENDING")
      <4>1. order.driver # user[t] /\ order'.driver # user[t] /\ order'.status # "PENDING"
        BY <1>2, <1>3, <2>3, <3>3
      <4>2. user[t] \in duty => (order.status = "PENDING" <=> order'.status = "PENDING")
        BY <3>3, <4>1
      <4> QED BY <1>1, <1>6, <4>1, <4>2, NothingForDriver
    <3> QED BY <3>2, <3>3
  <2>4. CASE transition.action \notin {"release", "accept", "cancel"}
    <3>1. Emits(transition, d) = <<{Vendor, Admin, d}>>
      BY <2>4 DEF Emits
    <3>2. CASE user[t] = d
      BY <1>4, <3>1, <3>2, ToldByOne
    <3>3. CASE user[t] # d
      BY <1>1, <1>2, <1>3, <1>6, <2>4, <3>3, NothingForDriver
    <3> QED BY <3>2, <3>3
  <2> QED BY <2>1, <2>2, <2>3, <2>4
<1> QED BY <1>1, <1>5, <1>6, Screens3

\* All work is a commit.
LEMMA WorkCommits == ASSUME Work PROVE \E by, emits : Commit(by, emits)
<1>1. ASSUME NEW by, NEW transition, NEW d, Transition(transition, d, by)
      PROVE  Commit(by, Emits(transition, d))
  BY <1>1 DEF Transition
<1>2. CASE Handover
  BY <1>2 DEF Handover
<1>3. ASSUME NEW by, NEW d, NEW on, SetDuty(d, on, by)
      PROVE  \E emits : Commit(by, emits)
  BY <1>3 DEF SetDuty
<1>4. ASSUME NEW by, Create(by) PROVE \E emits : Commit(by, emits)
  BY <1>4 DEF Create
<1>5. ASSUME NEW by, NEW d, Reassign(d, by) PROVE \E emits : Commit(by, emits)
  BY <1>5 DEF Reassign
<1> QED BY <1>1, <1>2, <1>3, <1>4, <1>5 DEF Work

\* Whatever people do, a tab that is not prompted is: or sees what it saw.
LEMMA WorkPrompts ==
  ASSUME LiveInv, EventsInv, NEW t \in Tabs, Alone(t), StaysIn(t), InTouch(t), Work
  PROVE  InTouch(t)'
<1> USE LiveAssumption
<1>1. ASSUME NEW by, NEW emits, Commit(by, emits)
      PROVE  /\ Prompted(t) \/ Told(t, by, emits) => Prompted(t)'
             /\ ~Prompted(t) /\ Screen(t)' = Screen(t) => Current(t)'
  <2>1. UNCHANGED <<fetches, shown, heard, timers, sockets>> /\ handlers \subseteq handlers'
    BY <1>1 DEF Commit, tabVars
  <2>a. \A rooms : Hears(t, rooms)' <=> Hears(t, rooms)
    BY <2>1 DEF Hears
  <2>2. Prompted(t) => Prompted(t)'
    BY <2>1, <2>a DEF Prompted
  <2>3. Told(t, by, emits) => Prompted(t)'
    <3>1. PICK h \in handlers' : h.tab = by /\ h.emits = emits
      <4>1. [id |-> changes, tab |-> by, emits |-> emits] \in handlers'
        BY <1>1 DEF Commit
      <4> QED BY <4>1
    <3> QED BY <2>a, <3>1 DEF Told, Prompted
  <2>4. ~Prompted(t) /\ Screen(t)' = Screen(t) => Current(t)'
    BY <2>1 DEF InTouch, Current, Fresh
  <2> QED BY <2>2, <2>3, <2>4
<1>2. ASSUME NEW by, NEW emits, Commit(by, emits),
             ~Prompted(t) => Screen(t)' = Screen(t) \/ Told(t, by, emits)
      PROVE  InTouch(t)'
  BY <1>1, <1>2 DEF InTouch
<1> DEFINE Goal == \E by, emits : Commit(by, emits) /\
                     (Screen(t)' = Screen(t) \/ Told(t, by, emits))
<1>x. ASSUME NEW by, NEW emits, Commit(by, emits),
             Screen(t)' = Screen(t) \/ Told(t, by, emits)
      PROVE  Goal
  BY <1>x
<1> HIDE DEF Goal
<1> SUFFICES ASSUME ~Prompted(t) PROVE Goal
  <2>1. CASE Prompted(t)
    BY <1>2, <2>1, WorkCommits
  <2>2. CASE ~Prompted(t) /\ Goal
    BY <1>2, <2>2 DEF Goal
  <2> QED BY <2>1, <2>2
<1>3. /\ OrderInv /\ order \in OrderRows /\ duty \subseteq Drivers /\ user \in [Tabs -> Users]
      /\ WaitingInv
  BY DEF LiveInv, DbInv, OrderInv, EventsInv
<1>4. \A rooms : /\ user[t] \in rooms => Hears(t, rooms)
                 /\ user[t] \in Drivers /\ user[t] \in duty /\ Feed \in rooms => Hears(t, rooms)
  BY HearsHome DEF EventsInv
<1>5. user[t] \in Drivers \/ user[t] = Admin \/ user[t] = Vendor
  BY <1>3, Screens3
<1>6. ASSUME NEW by \in Tabs \cup {Null}, Create(by)
      PROVE  Screen(t)' = Screen(t) \/ Told(t, by, <<{Feed, Admin}>>)
  <2>1. CASE user[t] = Admin \/ user[t] \in duty
    <3>1. user[t] \in duty => user[t] \in Drivers
      BY <1>3
    <3> QED BY <1>4, <2>1, <3>1, ToldByOne
  <2>2. CASE user[t] = Vendor
    <3>1. by = t
      BY <1>6, <2>2, FromHere DEF Create, LiveAssumption
    <3> QED BY <3>1 DEF Told
  <2>3. CASE user[t] \in Drivers /\ user[t] \notin duty
    <3>1. /\ order' = [order EXCEPT !.status = "PENDING"] /\ order.status = "ABSENT"
          /\ UNCHANGED <<duty, user>>
      BY <1>6 DEF Create, Commit
    <3>2. order.driver # user[t] /\ order'.driver # user[t]
      BY <1>3, <2>3, <3>1 DEF WaitingInv, OrderRows, LiveAssumption, Users
    <3> QED BY <1>3, <2>3, <3>1, <3>2, NothingForDriver
  <2> QED BY <1>5, <2>1, <2>2, <2>3
<1>7. ASSUME NEW by \in Tabs \cup {Null}, NEW d \in Drivers, NEW on \in BOOLEAN, SetDuty(d, on, by)
      PROVE  Screen(t)' = Screen(t) \/
             Told(t, by, <<{IF on THEN "join" ELSE "leave", d}, {Admin}>>)
  <2>1. CASE user[t] = Admin
    BY <1>4, <2>1, ToldByEither
  <2>2. CASE user[t] = d
    <3>1. by = t
      BY <1>7, <2>2, FromHere DEF SetDuty, LiveAssumption
    <3> QED BY <3>1 DEF Told
  <2>3. CASE user[t] # Admin /\ user[t] # d
    <3>1. UNCHANGED <<order, user>> /\ (user[t] \in duty' <=> user[t] \in duty)
      BY <1>7, <2>3 DEF SetDuty, Commit
    <3>2. Screen(t)' = Screen(t)
      <4>1. CASE user[t] = Vendor
        BY <1>3, <3>1, <4>1 DEF Screen, LiveAssumption
      <4>2. CASE user[t] \in Drivers
        BY <1>3, <2>3, <3>1, <4>2 DEF Screen, Mine, LiveAssumption
      <4> QED BY <1>5, <2>3, <4>1, <4>2
    <3> QED BY <3>2
  <2> QED BY <2>1, <2>2, <2>3
<1>8. ASSUME NEW by \in Tabs \cup {Null}, NEW d \in Drivers, Reassign(d, by)
      PROVE  Screen(t)' = Screen(t) \/
             Told(t, by, <<{Vendor, Admin, order.driver}, {Vendor, Admin, Feed, d}>>)
  <2>1. CASE user[t] \in {Vendor, Admin, order.driver, d}
    BY <1>4, <2>1, ToldByEither
  <2>2. CASE user[t] \notin {Vendor, Admin, order.driver, d}
    <3>1. /\ order' = [order EXCEPT !.status = "DRIVER_ASSIGNED", !.driver = d]
          /\ order.status # "PENDING" /\ UNCHANGED <<duty, user>>
      BY <1>8 DEF Reassign, Commit
    <3>2. order'.driver # user[t] /\ order'.status # "PENDING"
      BY <1>3, <2>2, <3>1 DEF OrderRows
    <3> QED BY <1>3, <1>5, <2>2, <3>1, <3>2, NothingForDriver
  <2> QED BY <2>1, <2>2
<1>9. ASSUME Handover
      PROVE  Screen(t)' = Screen(t) \/ Told(t, Null, <<{Admin, order.driver}>>)
  <2>1. order' = [order EXCEPT !.settled = ~@] /\ UNCHANGED <<duty, user>>
    BY <1>9 DEF Handover, Commit
  <2>2. CASE user[t] \in {Admin, order.driver}
    BY <1>4, <2>2, ToldByOne
  <2>3. CASE user[t] = Vendor
    <3>1. [order' EXCEPT !.settled = FALSE] = [order EXCEPT !.settled = FALSE]
      BY <1>3, <2>1 DEF OrderRows
    <3>2. Screen(t) = <<[order EXCEPT !.settled = FALSE], {}>>
      BY <1>3, <2>3, Screens3
    <3>3. Screen(t)' = <<[order' EXCEPT !.settled = FALSE], {}>>
      BY <2>1, <2>3 DEF Screen, LiveAssumption
    <3> QED BY <3>1, <3>2, <3>3
  <2>4. CASE user[t] \notin {Admin, Vendor, order.driver}
    <3>1. order'.driver = order.driver /\ order'.status = order.status
      BY <1>3, <2>1 DEF OrderRows
    <3> QED BY <1>3, <1>5, <2>1, <2>4, <3>1, NothingForDriver
  <2> QED BY <2>2, <2>3, <2>4
<1>10. ASSUME NEW by \in Tabs \cup {Null}, NEW transition \in Machine!ORDER_TRANSITIONS,
              NEW d \in Drivers \cup {Null}, Transition(transition, d, by)
       PROVE  Screen(t)' = Screen(t) \/ Told(t, by, Emits(transition, d))
  BY <1>10, TransitionTells
<1>11. ASSUME NEW by \in Tabs \cup {Null}, Create(by) PROVE Goal
  <2>1. Commit(by, <<{Feed, Admin}>>)
    BY <1>11 DEF Create
  <2> QED BY <1>x, <1>6, <1>11, <2>1
<1>12. ASSUME NEW by \in Tabs \cup {Null}, NEW d \in Drivers, NEW on \in BOOLEAN,
              SetDuty(d, on, by)
       PROVE  Goal
  <2>1. Commit(by, <<{IF on THEN "join" ELSE "leave", d}, {Admin}>>)
    BY <1>12 DEF SetDuty
  <2> QED BY <1>x, <1>7, <1>12, <2>1
<1>13. ASSUME NEW by \in Tabs \cup {Null}, NEW transition \in Machine!ORDER_TRANSITIONS,
              NEW d \in Drivers \cup {Null}, Transition(transition, d, by)
       PROVE  Goal
  <2>1. Commit(by, Emits(transition, d))
    BY <1>13 DEF Transition
  <2> QED BY <1>x, <1>10, <1>13, <2>1
<1>14. ASSUME NEW by \in Tabs \cup {Null}, NEW d \in Drivers, Reassign(d, by) PROVE Goal
  <2>1. Commit(by, <<{Vendor, Admin, order.driver}, {Vendor, Admin, Feed, d}>>)
    BY <1>14 DEF Reassign
  <2> QED BY <1>x, <1>8, <1>14, <2>1
<1>15. CASE Handover
  <2>1. Commit(Null, <<{Admin, order.driver}>>)
    BY <1>15 DEF Handover
  <2> QED BY <1>x, <1>9, <1>15, <2>1
<1> QED BY <1>11, <1>12, <1>13, <1>14, <1>15 DEF Work

\* What moves a tab's socket is the answer to its own switch.
LEMMA MovedFromHere ==
  ASSUME LiveInv, EventsInv, NEW t \in Tabs, Alone(t), NEW h \in handlers, NEW k \in 1 .. Len(h.emits),
         Moves(h.emits[k]), Hears(t, h.emits[k])
  PROVE  h.tab = t
<1> USE LiveAssumption
<1>1. PICK d \in Drivers : h.emits[k] \subseteq {"join", "leave", d} /\ From(h.tab, d)
  BY DEF EventsInv, MoveInv
<1>2. sockets[t].rooms \subseteq {user[t], Feed} /\ user[t] \in Users
  BY DEF EventsInv, RoomsInv, InRooms, LiveInv, DbInv
<1>3. user[t] = d
  BY <1>1, <1>2 DEF Hears, LiveAssumption, Users, Feed
<1>4. user[t] # Admin /\ h.tab \in Tabs \cup {Null}
  BY <1>3 DEF LiveAssumption, LiveInv, SocketInv, HandlerRows
<1> QED BY <1>1, <1>3, <1>4, FromHere

LEMMA StillToCome ==
  ASSUME NEW S, NEW s \in Seq(S), NEW k \in 1 .. Len(s), k # 1
  PROVE  k - 1 \in 1 .. Len(Tail(s)) /\ Tail(s)[k - 1] = s[k] /\ Tail(s) # <<>>
<1>1. s # <<>> /\ Len(s) \in Nat
  OBVIOUS
<1>2. /\ Len(Tail(s)) = Len(s) - 1
      /\ \A i \in 1 .. Len(Tail(s)) : Tail(s)[i] = s[i + 1]
  BY <1>1, HeadTailProperties
<1>3. k - 1 \in 1 .. Len(Tail(s)) /\ (k - 1) + 1 = k
  BY <1>1, <1>2
<1>4. Tail(s)[k - 1] = s[k]
  BY <1>2, <1>3
<1>5. Tail(s) # <<>>
  <2>1. Len(Tail(s)) # 0
    BY <1>1, <1>2, k # 1
  <2> QED BY <2>1, Len(<<>>) = 0
<1> QED BY <1>3, <1>4, <1>5

\* An event that is emitted reaches the tab that is in its room.
LEMMA EmitPrompts ==
  ASSUME LiveInv, EventsInv, NEW t \in Tabs, Alone(t), InTouch(t), NEW h \in handlers, Emit(h)
  PROVE  InTouch(t)'
<1> USE LiveAssumption
<1> DEFINE rest == [h EXCEPT !.emits = Tail(h.emits)]
<1>1. /\ UNCHANGED <<user, order, duty, fetches, shown, timers>>
      /\ h.emits # <<>> /\ handlers \ {h} \subseteq handlers'
  BY DEF Emit, dbVars
<1>2. h \in HandlerRows /\ h.emits \in Emissions
  BY DEF LiveInv, SocketInv, HandlerRows
<1>3. rest.tab = h.tab /\ rest.emits = Tail(h.emits)
  BY <1>2 DEF HandlerRows
<1>4. h.tab # Null \/ Tail(h.emits) # <<>> => rest \in handlers'
  BY <1>3 DEF Emit, Unanswered
<1>5. Head(h.emits) = h.emits[1] /\ 1 \in 1 .. Len(h.emits)
  BY <1>1, <1>2 DEF Emissions
<1>6. ~Prompted(t) => Current(t)'
  BY <1>1 DEF InTouch, Current, Fresh, Screen, Mine
<1>7. CASE h.tab = t
  <2>1. rest \in handlers' /\ rest.tab = t
    BY <1>3, <1>4, <1>7 DEF LiveAssumption
  <2> HIDE DEF rest
  <2> QED BY <2>1 DEF InTouch, Prompted
<1>8. CASE h.tab # t
  <2>1. Moves(Head(h.emits)) => ~Hears(t, Head(h.emits))
    BY <1>5, <1>8, MovedFromHere
  <2>2. /\ heard \subseteq heard'
        /\ Hears(t, Head(h.emits)) => t \in heard'
    BY <2>1 DEF Emit, Moves
  <2>3. sockets'[t] = sockets[t]
    BY <2>1 DEF Emit, Moves, Moved
  <2>4. \A rooms : Hears(t, rooms)' <=> Hears(t, rooms)
    BY <2>3 DEF Hears
  <2>5. ASSUME NEW k \in 1 .. Len(h.emits), Hears(t, h.emits[k]) PROVE Prompted(t)'
    <3>1. CASE k = 1
      BY <1>5, <2>2, <2>5, <3>1 DEF Prompted
    <3>2. CASE k # 1
      <4>1. /\ k - 1 \in 1 .. Len(Tail(h.emits)) /\ Tail(h.emits)[k - 1] = h.emits[k]
            /\ Tail(h.emits) # <<>>
        BY <1>2, <3>2, StillToCome DEF Emissions
      <4>2. rest \in handlers'
        BY <1>4, <4>1
      <4> HIDE DEF rest
      <4> QED BY <1>3, <2>4, <2>5, <4>1, <4>2 DEF Prompted
    <3> QED BY <3>1, <3>2
  <2>6. ASSUME NEW g \in handlers \ {h},
               g.tab = t \/ \E k \in 1 .. Len(g.emits) : Hears(t, g.emits[k])
        PROVE  Prompted(t)'
    BY <1>1, <2>4, <2>6 DEF Prompted
  <2>7. Null \in fetches[t] \/ t \in heard \cup timers => Prompted(t)'
    BY <1>1, <2>2 DEF Prompted
  <2>8. Prompted(t) => Prompted(t)'
    BY <1>8, <2>5, <2>6, <2>7 DEF Prompted
  <2> QED BY <1>6, <2>8 DEF InTouch
<1> QED BY <1>7, <1>8

\* Who has his answer asks again.
LEMMA AnswerPrompts ==
  ASSUME LiveInv, NEW t \in Tabs, InTouch(t), NEW h \in handlers, Answer(h)
  PROVE  InTouch(t)'
<1>1. /\ UNCHANGED <<user, order, duty, shown, heard, timers, sockets>>
      /\ h.emits = <<>> /\ handlers' = handlers \ {h}
      /\ fetches' = [fetches EXCEPT ![h.tab] = {Null}]
      /\ fetches \in [Tabs -> SUBSET (Screens \cup {Null})]
  BY DEF Answer, dbVars, Invalidate, Invalidated, LiveInv, QueryInv
<1>2. CASE h.tab = t
  <2>1. Null \in fetches'[t]
    BY <1>1, <1>2
  <2> QED BY <2>1 DEF InTouch, Prompted
<1>3. CASE h.tab # t
  <2>1. fetches'[t] = fetches[t]
    BY <1>1, <1>3
  <2>2. \A rooms : Hears(t, rooms)' <=> Hears(t, rooms)
    BY <1>1 DEF Hears
  <2>3. ~Prompted(t) => Current(t)'
    BY <1>1, <2>1 DEF InTouch, Current, Fresh, Screen, Mine
  <2>4. \A k \in 1 .. Len(h.emits) : FALSE
    BY <1>1
  <2>5. \A g \in handlers :
          g.tab = t \/ (\E k \in 1 .. Len(g.emits) : Hears(t, g.emits[k])) => g \in handlers'
    BY <1>1, <1>3, <2>4
  <2>6. Prompted(t) => Prompted(t)'
    BY <1>1, <2>1, <2>2, <2>5 DEF Prompted
  <2> QED BY <2>3, <2>6 DEF InTouch
<1> QED BY <1>2, <1>3

\* What a tab does: its own queries move on, another's are its own.
LEMMA TabsPrompt ==
  ASSUME LiveInv, AnswersInv, NEW t \in Tabs, StaysIn(t), StaysIn(t)', InTouch(t), NEW u \in Tabs,
         \/ Receive(u) \/ Fire(u) \/ Fetch(u) \/ Handshake(u)
         \/ Focus(u) \/ Refused(u) \/ Drop(u)
  PROVE  InTouch(t)'
<1>1. UNCHANGED <<user, order, duty, changes, handlers>>
  BY DEF Receive, Fire, Fetch, Read, Display, Handshake,
         Connect, Join, ReadDuty, JoinFeed, Focus, Refused,
         Drop, dbVars
<1>2. Screen(t)' = Screen(t)
  BY <1>1 DEF Screen, Mine
<1>3. /\ sockets = [x \in Tabs |-> sockets[x]] /\ fetches = [x \in Tabs |-> fetches[x]]
      /\ shown = [x \in Tabs |-> shown[x]] /\ InOrder(t)
  BY DEF LiveInv, SocketInv, AnswersInv
<1>4. sockets[t].phase = "on" /\ sockets'[t].phase = "on"
  BY DEF StaysIn, Joined
<1>5. sockets'[t] = sockets[t]
  <2>1. ASSUME NEW socket, sockets[u].phase # "on" \/ socket.phase # "on",
               sockets' = [sockets EXCEPT ![u] = socket]
        PROVE  sockets'[t] = sockets[t]
    BY <1>3, <1>4, <2>1
  <2>2. CASE UNCHANGED sockets
    BY <2>2
  <2>3. CASE Handshake(u)
    BY <1>3, <1>4, <2>3 DEF Handshake, Connect, Join, ReadDuty, JoinFeed
  <2>4. CASE Drop(u)
    BY <1>3, <1>4, <2>4 DEF Drop
  <2> QED BY <2>2, <2>3, <2>4 DEF Receive, Fire, Fetch, Read, Display, Focus, Refused
<1>6. \A rooms : Hears(t, rooms)' <=> Hears(t, rooms)
  BY <1>5 DEF Hears
<1>7. ASSUME Prompted(t), Null \in fetches[t] => Null \in fetches'[t],
             t \in heard \cup timers => t \in heard' \cup timers'
      PROVE  Prompted(t)'
  BY <1>1, <1>6, <1>7 DEF Prompted
<1>8. ASSUME ~Prompted(t), UNCHANGED <<fetches[t], shown[t]>> PROVE Current(t)'
  BY <1>2, <1>8 DEF InTouch, Current, Fresh
<1>9. CASE u # t
  <2>1. UNCHANGED <<fetches[t], shown[t]>>
    BY <1>3, <1>9 DEF Receive, Fire, Fetch, Read, Display, Handshake, Connect, Join, ReadDuty,
       JoinFeed, Focus, Refused, Drop, Invalidate, tabVars
  <2>2. t \in heard \cup timers => t \in heard' \cup timers'
    BY <1>9 DEF Receive, Fire, Fetch, Read, Display, Handshake, Connect, Join, ReadDuty,
       JoinFeed, Focus, Refused, Drop, tabVars
  <2> QED BY <1>7, <1>8, <2>1, <2>2 DEF InTouch
<1>10. CASE u = t
  <2>1. CASE Receive(t)
    BY <2>1 DEF Receive, InTouch, Prompted
  <2>2. CASE Fire(t) \/ Focus(t) \/ Refused(t)
    <3>1. fetches'[t] = {Null}
      BY <1>3, <2>2 DEF Fire, Focus, Refused, Invalidate, Invalidated
    <3> QED BY <3>1 DEF InTouch, Prompted
  <2>3. CASE Read(t)
    <3>1. fetches'[t] = {Fetched(t)}
      BY <1>3, <2>3 DEF Read, InOrder
    <3>2. Fetched(t).screen = Screen(t)'
      BY <1>2 DEF Fetched
    <3> QED BY <3>1, <3>2 DEF InTouch, Current
  <2>4. ASSUME NEW fetched \in fetches[t] \ {Null}, Display(t, fetched) PROVE InTouch(t)'
    <3>1. fetches[t] = {fetched} /\ Null \notin fetches[t]
      BY <1>3, <2>4 DEF InOrder
    <3>2. fetches'[t] = {} /\ shown'[t] = fetched /\ UNCHANGED <<heard, timers>>
      BY <1>3, <2>4, <3>1 DEF Display
    <3>3. CASE Prompted(t)
      BY <1>7, <3>1, <3>2, <3>3 DEF InTouch
    <3>4. CASE ~Prompted(t)
      BY <1>2, <3>1, <3>2, <3>4 DEF InTouch, Current, Fresh
    <3> QED BY <3>3, <3>4
  <2>5. CASE Handshake(t) \/ Drop(t)
    <3>1. FALSE
      BY <1>3, <1>4, <2>5 DEF Handshake, Connect, Join, ReadDuty, JoinFeed, Drop
    <3> QED BY <3>1
  <2> QED BY <1>10, <2>1, <2>2, <2>3, <2>4, <2>5 DEF Fetch
<1> QED BY <1>9, <1>10

\* A tab in touch that stays in its rooms stays in touch, whatever is done.
LEMMA TouchStep ==
  ASSUME LiveInv, AnswersInv, EventsInv, NEW t \in Tabs, Alone(t), StaysIn(t), StaysIn(t)',
         InTouch(t), [LiveNext]_liveVars
  PROVE  InTouch(t)'
<1>1. CASE UNCHANGED liveVars
  <2>1. UNCHANGED <<user, order, duty, handlers, sockets, heard, timers, fetches, shown>>
    BY <1>1 DEF liveVars
  <2>2. \A rooms : Hears(t, rooms)' <=> Hears(t, rooms)
    BY <2>1 DEF Hears
  <2>3. (Prompted(t) => Prompted(t)') /\ (Current(t) => Current(t)')
    BY <2>1, <2>2 DEF Prompted, Current, Fresh, Screen, Mine
  <2> QED BY <2>3 DEF InTouch
<1>2. CASE Work
  BY <1>2, WorkPrompts
<1>3. CASE Serve
  BY <1>3, EmitPrompts, AnswerPrompts DEF Serve
<1>4. CASE Restart
  <2>1. sockets'[t].phase = "off"
    BY <1>4 DEF Restart
  <2> QED BY <2>1 DEF StaysIn, Joined
<1>5. ASSUME NEW u \in Tabs, \/ Receive(u) \/ Fire(u) \/ Fetch(u) \/ Handshake(u)
                             \/ Focus(u) \/ Refused(u) \/ Drop(u)
      PROVE  InTouch(t)'
  BY <1>5, TabsPrompt
<1> QED BY <1>1, <1>2, <1>3, <1>4, <1>5 DEF LiveNext

-----------------------------------------------------------------------------
\* Rooms, moves and waiting orders as they should be, to begin with ...
LEMMA InitEvents == ASSUME LiveInit PROVE EventsInv
<1> USE LiveAssumption
<1>1. RoomsInv
  <2>1. ASSUME NEW t \in Tabs PROVE InRooms(t, sockets[t])
    <3>1. /\ sockets[t].phase = "on"
          /\ sockets[t].rooms = {user[t]} \cup IF user[t] \in duty THEN {Feed} ELSE {}
      BY DEF LiveInit, Home
    <3> QED BY <3>1 DEF InRooms
  <2> QED BY <2>1 DEF RoomsInv
<1>2. MoveInv
  BY DEF LiveInit, MoveInv
<1>3. WaitingInv
  BY DEF LiveInit, Starts, WaitingInv
<1> QED BY <1>1, <1>2, <1>3 DEF EventsInv

\* Nobody signs in, or out, in a tab.
LEMMA SameUsers == ASSUME [LiveNext]_liveVars PROVE UNCHANGED user
<1>1. CASE Work
  <2>1. PICK by, emits : Commit(by, emits)
    BY <1>1, WorkCommits
  <2> QED BY <2>1 DEF Commit
<1>2. ASSUME NEW h, Emit(h) \/ Answer(h) PROVE UNCHANGED user
  BY <1>2 DEF Emit, Answer, dbVars
<1>3. CASE Restart
  BY <1>3 DEF Restart, dbVars
<1>4. CASE UNCHANGED liveVars
  BY <1>4 DEF liveVars
<1>5. ASSUME NEW t, \/ Receive(t) \/ Fire(t) \/ Fetch(t) \/ Handshake(t)
                    \/ Focus(t) \/ Refused(t) \/ Drop(t)
      PROVE  UNCHANGED user
  BY <1>5 DEF Receive, Fire, Fetch, Read, Display, Handshake, Connect, Join, ReadDuty,
              JoinFeed, Focus, Refused, Drop, dbVars
<1> QED BY <1>1, <1>2, <1>3, <1>4, <1>5 DEF LiveNext, Serve

\* ... when a connection is made or lost, ...
LEMMA RoomsKept ==
  ASSUME LiveInv, RoomsInv, [LiveNext]_liveVars PROVE RoomsInv'
<1>1. sockets = [t \in Tabs |-> sockets[t]] /\ user' = user
  <2>1. sockets \in [Tabs -> SocketRows]
    BY DEF LiveInv, SocketInv
  <2> QED BY <2>1, SameUsers
<1>2. ASSUME \A t \in Tabs : InRooms(t, sockets'[t]) PROVE RoomsInv'
  BY <1>1, <1>2 DEF RoomsInv, InRooms
<1>3. CASE UNCHANGED sockets
  BY <1>2, <1>3 DEF RoomsInv
<1>4. CASE Work
  <2>1. ASSUME NEW by, NEW emits, Commit(by, emits) PROVE UNCHANGED sockets
    BY <2>1 DEF Commit
  <2> QED BY <1>3, <1>4, <2>1, WorkCommits
<1>5. ASSUME NEW h \in handlers, Emit(h) PROVE RoomsInv'
  <2>1. CASE sockets' = [t \in Tabs |-> Moved(t, h)]
    <3>1. ASSUME NEW t \in Tabs PROVE InRooms(t, sockets'[t])
      <4>1. sockets'[t] = Moved(t, h) /\ sockets[t] \in SocketRows /\ user[t] # Feed
        BY <2>1, LiveAssumption DEF LiveInv, SocketInv, DbInv, LiveAssumption, Feed
      <4>2. CASE ~Hears(t, Head(h.emits))
        BY <4>1, <4>2 DEF RoomsInv, Moved
      <4>3. CASE Hears(t, Head(h.emits))
        <5>1. /\ sockets'[t].phase = sockets[t].phase /\ sockets[t].phase # "off"
              /\ sockets'[t].rooms \in {sockets[t].rooms \cup {Feed}, sockets[t].rooms \ {Feed}}
          BY <4>1, <4>3 DEF Moved, Hears, SocketRows
        <5> QED BY <4>1, <5>1 DEF RoomsInv, InRooms
      <4> QED BY <4>2, <4>3
    <3> QED BY <1>2, <3>1
  <2> QED BY <1>3, <1>5, <2>1 DEF Emit
<1>6. CASE Serve
  BY <1>3, <1>5, <1>6 DEF Serve, Answer
<1>7. CASE Restart
  <2>1. \A t \in Tabs : sockets'[t].phase = "off" /\ sockets'[t].rooms = {}
    BY <1>7 DEF Restart
  <2> QED BY <1>2, <2>1 DEF InRooms
<1>8. ASSUME NEW u \in Tabs, Handshake(u) \/ Drop(u) PROVE RoomsInv'
  <2>1. sockets[u] \in SocketRows /\ \A t \in Tabs : InRooms(t, sockets[t])
    BY DEF LiveInv, SocketInv, RoomsInv
  <2>2. InRooms(u, sockets'[u])
    <3>1. CASE Connect(u)
      <4>1. sockets'[u].phase = "connected" /\ sockets'[u].rooms = sockets[u].rooms
        BY <1>1, <2>1, <3>1 DEF Connect, SocketRows
      <4> QED BY <2>1, <4>1 DEF InRooms
    <3>2. CASE Join(u)
      <4>1. sockets'[u].phase \in {"joined", "on"} /\ sockets'[u].rooms = {user[u]}
        BY <1>1, <3>2 DEF Join, Home
      <4> QED BY <4>1 DEF InRooms
    <3>3. CASE ReadDuty(u)
      <4>1. /\ sockets[u].phase = "joined"
            /\ sockets'[u].phase \in {"offered", "on"} /\ sockets'[u].rooms = sockets[u].rooms
        BY <1>1, <2>1, <3>3 DEF ReadDuty, SocketRows
      <4> QED BY <2>1, <4>1 DEF InRooms
    <3>4. CASE JoinFeed(u)
      <4>1. /\ sockets[u].phase = "offered"
            /\ sockets'[u].phase = "on" /\ sockets'[u].rooms = sockets[u].rooms \cup {Feed}
        BY <1>1, <2>1, <3>4 DEF JoinFeed
      <4> QED BY <2>1, <4>1 DEF InRooms
    <3>5. CASE Drop(u)
      <4>1. sockets'[u].phase = "off" /\ sockets'[u].rooms = {}
        BY <1>1, <3>5 DEF Drop
      <4> QED BY <4>1 DEF InRooms
    <3> QED BY <1>8, <3>1, <3>2, <3>3, <3>4, <3>5 DEF Handshake
  <2>3. \A t \in Tabs \ {u} : sockets'[t] = sockets[t]
    BY <1>1, <1>8 DEF Handshake, Connect, Join, ReadDuty, JoinFeed, Drop
  <2>4. \A t \in Tabs : InRooms(t, sockets'[t])
    BY <2>1, <2>2, <2>3
  <2> QED BY <1>2, <2>4
<1>9. ASSUME NEW t, Receive(t) \/ Fire(t) \/ Fetch(t) \/ Focus(t) \/ Refused(t)
       PROVE  UNCHANGED sockets
  BY <1>9 DEF Receive, Fire, Fetch, Read, Display, Focus, Refused
<1>10. CASE UNCHANGED liveVars
  BY <1>3, <1>10 DEF liveVars
<1> QED BY <1>3, <1>4, <1>6, <1>7, <1>8, <1>9, <1>10 DEF LiveNext

\* ... when a handler starts, with what it will emit, or emits it, ...
LEMMA MovesKept ==
  ASSUME LiveInv, MoveInv, [LiveNext]_liveVars PROVE MoveInv'
<1> USE LiveAssumption
<1> DEFINE Sound(by, emits) ==
             \A k \in 1 .. Len(emits) : Moves(emits[k]) =>
               \E d \in Drivers : emits[k] \subseteq {"join", "leave", d} /\ From(by, d)
<1>1. \A by, d : From(by, d)' <=> From(by, d)
  BY SameUsers DEF From
<1>2. ASSUME \A h \in handlers' : Sound(h.tab, h.emits) PROVE MoveInv'
  BY <1>1, <1>2 DEF MoveInv
<1>3. \A h \in handlers : Sound(h.tab, h.emits)
  BY DEF MoveInv
<1> HIDE DEF Sound
<1>4. ASSUME NEW by, NEW emits, Commit(by, emits), Sound(by, emits) PROVE MoveInv'
  <2>1. handlers' = handlers \cup {[id |-> changes, tab |-> by, emits |-> emits]}
    BY <1>4 DEF Commit
  <2>2. \A h \in handlers' : Sound(h.tab, h.emits)
    <3>1. ASSUME NEW h \in handlers', h \notin handlers PROVE Sound(h.tab, h.emits)
      <4>1. h.tab = by /\ h.emits = emits
        BY <2>1, <3>1
      <4> QED BY <1>4, <4>1
    <3> QED BY <1>3, <3>1
  <2> QED BY <1>2, <2>2
<1>5. ASSUME NEW by, NEW rooms, ~Moves(rooms) PROVE Sound(by, <<rooms>>)
  <2>1. \A k \in 1 .. Len(<<rooms>>) : <<rooms>>[k] = rooms
    OBVIOUS
  <2> QED BY <1>5, <2>1 DEF Sound
<1>6. ASSUME NEW by, NEW rooms, NEW others, ~Moves(others),
             ~Moves(rooms) \/ \E d \in Drivers : rooms \subseteq {"join", "leave", d} /\ From(by, d)
      PROVE  Sound(by, <<rooms, others>>)
  <2>1. \A k \in 1 .. Len(<<rooms, others>>) : <<rooms, others>>[k] \in {rooms, others}
    OBVIOUS
  <2> QED BY <1>6, <2>1 DEF Sound
<1>7. \A rooms \in SUBSET (Users \cup {Feed}) : ~Moves(rooms)
  BY DEF LiveAssumption, Moves, Feed
<1>8. /\ {Vendor, Admin} \subseteq Users /\ Drivers \subseteq Users
      /\ OrderInv
  BY DEF Users, LiveInv, DbInv
<1>9. CASE Work
  <2>1. ASSUME NEW by, Create(by) PROVE MoveInv'
    <3>1. {Feed, Admin} \in SUBSET (Users \cup {Feed})
      BY <1>8
    <3>2. Sound(by, <<{Feed, Admin}>>)
      BY <1>5, <1>7, <3>1
    <3>3. Commit(by, <<{Feed, Admin}>>)
      BY <2>1 DEF Create
    <3> QED BY <1>4, <3>2, <3>3
  <2>2. ASSUME NEW by, NEW d \in Drivers, NEW on, SetDuty(d, on, by) PROVE MoveInv'
    <3>1. PICK move \in {"join", "leave"} : Commit(by, <<{move, d}, {Admin}>>)
      BY <2>2 DEF SetDuty
    <3>2. ~Moves({Admin})
      BY <1>7, <1>8
    <3>3. {move, d} \subseteq {"join", "leave", d} /\ From(by, d)
      BY <2>2 DEF SetDuty
    <3>4. Sound(by, <<{move, d}, {Admin}>>)
      BY <1>6, <3>2, <3>3
    <3> QED BY <1>4, <3>1, <3>4
  <2>3. ASSUME NEW by, NEW d \in Drivers, Reassign(d, by) PROVE MoveInv'
    <3>1. /\ Commit(by, <<{Vendor, Admin, order.driver}, {Vendor, Admin, Feed, d}>>)
          /\ order.driver \in Drivers
      BY <1>8, <2>3 DEF Reassign, OrderInv
    <3>2. /\ {Vendor, Admin, order.driver} \in SUBSET (Users \cup {Feed})
          /\ {Vendor, Admin, Feed, d} \in SUBSET (Users \cup {Feed})
      BY <1>8, <3>1
    <3>3. ~Moves({Vendor, Admin, order.driver}) /\ ~Moves({Vendor, Admin, Feed, d})
      BY <1>7, <3>2
    <3>4. Sound(by, <<{Vendor, Admin, order.driver}, {Vendor, Admin, Feed, d}>>)
      BY <1>6, <3>3
    <3> QED BY <1>4, <3>1, <3>4
  <2>4. CASE Handover
    <3>1. Commit(Null, <<{Admin, order.driver}>>) /\ order.driver \in Drivers
      BY <1>8, <2>4 DEF Handover, OrderInv
    <3>2. {Admin, order.driver} \in SUBSET (Users \cup {Feed})
      BY <1>8, <3>1
    <3>3. Sound(Null, <<{Admin, order.driver}>>)
      BY <1>5, <1>7, <3>2
    <3> QED BY <1>4, <3>1, <3>3
  <2>5. ASSUME NEW by, NEW transition \in Machine!ORDER_TRANSITIONS, NEW d \in Drivers \cup {Null},
               Transition(transition, d, by)
        PROVE  MoveInv'
    <3>1. /\ Commit(by, Emits(transition, d))
          /\ transition.action = "release" => order.driver \in Drivers
          /\ transition.action \notin {"release", "cancel"} => d \in Drivers
      BY <1>8, <2>5 DEF Transition, OrderInv, Machine!ORDER_TRANSITIONS, Machine!Transition
    <3>2. CASE transition.action = "release"
      <4>1. /\ {Vendor, Admin, order.driver} \in SUBSET (Users \cup {Feed})
            /\ {Feed, Admin} \in SUBSET (Users \cup {Feed})
        BY <1>8, <3>1, <3>2
      <4>2. ~Moves({Vendor, Admin, order.driver}) /\ ~Moves({Feed, Admin})
        BY <1>7, <4>1
      <4>3. Emits(transition, d) = <<{Vendor, Admin, order.driver}, {Feed, Admin}>>
        BY <3>2 DEF Emits
      <4>4. Sound(by, <<{Vendor, Admin, order.driver}, {Feed, Admin}>>)
        BY <1>6, <4>2
      <4>5. Commit(by, <<{Vendor, Admin, order.driver}, {Feed, Admin}>>)
        BY <3>1, <4>3
      <4> QED BY <1>4, <4>4, <4>5
    <3>3. CASE transition.action # "release"
      <4>1. PICK rooms \in SUBSET (Users \cup {Feed}) : Emits(transition, d) = <<rooms>>
        <5>1. CASE transition.action = "accept"
          <6>1. {Vendor, Admin, Feed, d} \in SUBSET (Users \cup {Feed})
            BY <1>8, <3>1, <5>1
          <6> QED BY <5>1, <6>1 DEF Emits
        <5>2. CASE transition.action = "cancel"
          <6>1. PICK feed \in SUBSET {Feed} :
                  Emits(transition, d) = <<{Vendor, Admin} \cup Someone(d) \cup feed>>
            BY <5>2 DEF Emits
          <6>2. {Vendor, Admin} \cup Someone(d) \cup feed \in SUBSET (Users \cup {Feed})
            BY <1>8 DEF Someone
          <6> QED BY <6>1, <6>2
        <5>3. CASE transition.action \notin {"accept", "cancel"}
          <6>1. {Vendor, Admin, d} \in SUBSET (Users \cup {Feed})
            BY <1>8, <3>1, <3>3, <5>3
          <6> QED BY <3>3, <5>3, <6>1 DEF Emits
        <5> QED BY <5>1, <5>2, <5>3
      <4>2. Sound(by, Emits(transition, d))
        BY <1>5, <1>7, <4>1
      <4> QED BY <1>4, <3>1, <4>2
    <3> QED BY <3>2, <3>3
  <2> QED BY <1>9, <2>1, <2>2, <2>3, <2>4, <2>5 DEF Work
<1>10. ASSUME NEW h \in handlers, Emit(h) PROVE MoveInv'
  <2>1. h \in HandlerRows /\ h.emits \in Emissions /\ h.emits # <<>>
    BY <1>10 DEF Emit, LiveInv, SocketInv, HandlerRows
  <2>2. handlers' \subseteq handlers \cup {[h EXCEPT !.emits = Tail(h.emits)]}
    BY <1>10 DEF Emit, Unanswered
  <2>3. /\ Len(h.emits) \in Nat /\ Len(Tail(h.emits)) = Len(h.emits) - 1
        /\ \A k \in 1 .. Len(Tail(h.emits)) : Tail(h.emits)[k] = h.emits[k + 1]
    BY <2>1, HeadTailProperties DEF Emissions
  <2>4. \A k \in 1 .. Len(Tail(h.emits)) : k + 1 \in 1 .. Len(h.emits)
    BY <2>3
  <2>5. Sound(h.tab, Tail(h.emits))
    BY <1>3, <2>3, <2>4 DEF Sound
  <2>6. ASSUME NEW g \in handlers', g \notin handlers PROVE Sound(g.tab, g.emits)
    <3>1. g.tab = h.tab /\ g.emits = Tail(h.emits)
      BY <2>1, <2>2, <2>6 DEF HandlerRows
    <3> QED BY <2>5, <3>1
  <2> QED BY <1>2, <1>3, <2>6
<1>11. CASE handlers' \subseteq handlers
  BY <1>2, <1>3, <1>11
<1>12. CASE Serve
  <2>1. ASSUME NEW h, Answer(h) PROVE handlers' \subseteq handlers
    BY <2>1 DEF Answer
  <2> QED BY <1>10, <1>11, <1>12, <2>1 DEF Serve
<1>13. ASSUME NEW t, \/ Receive(t) \/ Fire(t) \/ Fetch(t) \/ Handshake(t)
                     \/ Focus(t) \/ Refused(t) \/ Drop(t)
       PROVE  handlers' \subseteq handlers
  BY <1>13 DEF Receive, Fire, Fetch, Read, Display, Handshake, Connect, Join, ReadDuty,
               JoinFeed, Focus, Refused, Drop
<1>14. CASE Restart \/ UNCHANGED liveVars
  BY <1>11, <1>14 DEF Restart, liveVars
<1> QED BY <1>9, <1>11, <1>12, <1>13, <1>14 DEF LiveNext

\* ... and when an order is given up.
LEMMA WaitingKept ==
  ASSUME LiveInv, WaitingInv, [LiveNext]_liveVars PROVE WaitingInv'
<1>1. order \in OrderRows
  BY DEF LiveInv, DbInv, OrderInv
<1>2. CASE UNCHANGED order
  BY <1>2 DEF WaitingInv
<1>3. ASSUME NEW by, Create(by) PROVE WaitingInv'
  BY <1>1, <1>3 DEF Create, WaitingInv, OrderRows
<1>4. ASSUME NEW by, NEW d, Reassign(d, by) PROVE WaitingInv'
  BY <1>1, <1>4 DEF Reassign, WaitingInv, OrderRows
<1>5. CASE Handover
  BY <1>1, <1>5 DEF Handover, WaitingInv, OrderRows
<1>6. ASSUME NEW by, NEW transition \in Machine!ORDER_TRANSITIONS, NEW d,
             Transition(transition, d, by)
      PROVE  WaitingInv'
  <2>1. order'.status = transition.to /\ order'.driver = d
    BY <1>1, <1>6 DEF Transition, OrderRows
  <2>2. transition.to \in {"ABSENT", "PENDING"} => transition.action = "release"
    BY DEF Machine!ORDER_TRANSITIONS, Machine!Transition
  <2> QED BY <1>6, <2>1, <2>2 DEF Transition, WaitingInv
<1>7. ASSUME NEW by, NEW d, NEW on, SetDuty(d, on, by) PROVE UNCHANGED order
  BY <1>7 DEF SetDuty
<1>8. CASE Work
  BY <1>2, <1>3, <1>4, <1>5, <1>6, <1>7, <1>8 DEF Work
<1>9. ASSUME NEW h, Emit(h) \/ Answer(h) PROVE UNCHANGED order
  BY <1>9 DEF Emit, Answer, dbVars
<1>10. CASE Restart \/ UNCHANGED liveVars
  BY <1>2, <1>10 DEF Restart, dbVars, liveVars
<1>11. ASSUME NEW t, \/ Receive(t) \/ Fire(t) \/ Fetch(t) \/ Handshake(t)
                     \/ Focus(t) \/ Refused(t) \/ Drop(t)
       PROVE  UNCHANGED order
  BY <1>11 DEF Receive, Fire, Fetch, Read, Display, Handshake, Connect, Join, ReadDuty,
               JoinFeed, Focus, Refused, Drop, dbVars
<1> QED BY <1>2, <1>8, <1>9, <1>10, <1>11 DEF LiveNext, Serve

\* All that the events' argument rests on, in every reachable state.
LEMMA EventsInvariance == LiveSpec => [](LiveInv /\ AnswersInv /\ EventsInv)
<1>1. LiveInit => LiveInv /\ AnswersInv /\ EventsInv
  BY InitLiveInv, InitAnswers, InitEvents
<1>2. LiveInv /\ AnswersInv /\ EventsInv /\ [LiveNext]_liveVars
        => (LiveInv /\ AnswersInv /\ EventsInv)'
  <2> SUFFICES ASSUME LiveInv, AnswersInv, EventsInv, [LiveNext]_liveVars
               PROVE  (LiveInv /\ AnswersInv /\ EventsInv)'
    OBVIOUS
  <2>1. LiveInv' /\ AnswersInv'
    BY LiveInvStep, AnswersStep
  <2>2. RoomsInv' /\ MoveInv' /\ WaitingInv'
    BY RoomsKept, MovesKept, WaitingKept DEF EventsInv
  <2> QED BY <2>1, <2>2 DEF EventsInv
<1> QED BY <1>1, <1>2, PTL DEF LiveSpec

\* The events are enough (MissesNothing of LiveScreens), on any number of tabs,
\* whoever is signed in there: a tab in its rooms that will not ask again shows what
\* the database holds, and no commit, nor any order of commits, events, answers and
\* requests, changes that.  It rests on which rooms the services emit to, on who is
\* in them, and on the handler's events coming before its answer.
THEOREM EventsAreEnough == LiveSpec => MissesNothing
<1>1. LiveInv /\ AnswersInv /\ EventsInv /\ [LiveNext]_liveVars =>
        [\A t \in Tabs : InTouch(t) /\ Alone(t) /\ StaysIn(t) /\ StaysIn(t)' => InTouch(t)']_liveVars
  BY TouchStep
<1> QED BY <1>1, EventsInvariance, PTL DEF LiveSpec, MissesNothing

\* So a tab that stays in its rooms from the start shows, whenever nothing is on
\* its way that will make it ask again and no answer is awaited, exactly what the
\* database holds: the safety half of SettlesOnTruth, without its fairness.
THEOREM QuietTabsAreRight ==
  ASSUME NEW CONSTANT t \in Tabs
  PROVE  LiveSpec /\ Alone(t) /\ []StaysIn(t) => [](~Prompted(t) /\ fetches[t] = {} => Fresh(t))
<1>1. LiveInit => InTouch(t)
  BY DEF LiveInit, InTouch, Current, Fresh, Fetched
<1>2. LiveInv /\ AnswersInv /\ EventsInv /\ Alone(t) /\ StaysIn(t) /\ StaysIn(t)' /\ InTouch(t)
        /\ [LiveNext]_liveVars => InTouch(t)'
  BY TouchStep
<1>3. Alone(t) /\ [LiveNext]_liveVars => Alone(t)'
  BY SameUsers DEF Alone
<1>4. InTouch(t) => (~Prompted(t) /\ fetches[t] = {} => Fresh(t))
  BY DEF InTouch, Current
<1> QED BY <1>1, <1>2, <1>3, <1>4, EventsInvariance, PTL DEF LiveSpec
=============================================================================

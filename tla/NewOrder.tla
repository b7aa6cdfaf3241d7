------------------------------ MODULE NewOrder ------------------------------
(***************************************************************************)
(* The vendor's order form over the address book: orders/new/page.tsx with *)
(* deliver-to-step.tsx and phone-search.tsx.  What is typed is looked up   *)
(* only once it has settled, the lookup answers later and again whenever   *)
(* the window is focused, and the form selects an address by itself.       *)
(***************************************************************************)
EXTENDS AddressBook

CONSTANT Vendors  \* the tabs with an order form open

ASSUME FormAssumption == Vendors \subseteq Clients /\ Vendors \cap Admins = {}

VARIABLE forms  \* vendor -> the form

vars == <<known, book, calls, forms>>

\* initialDeliverState
Nowhere == [row |-> None, key |-> None, link |-> None, save |-> FALSE]

\* The page as it opens; seen are the addresses the last lookup brought.
Blank == [typed |-> None, phone |-> None, seen |-> {}, picked |-> FALSE,
          deliver |-> Nowhere]

Fill(v, form) == forms' = [forms EXCEPT ![v] = form]
Deliver(v, deliver) == Fill(v, [forms[v] EXCEPT !.deliver = deliver])
-----------------------------------------------------------------------------
Init == AddressInit /\ forms = [v \in Vendors |-> Blank]

Type(v, phone) ==
  /\ phone # forms[v].typed
  /\ Fill(v, [forms[v] EXCEPT !.typed = phone])
  /\ UNCHANGED addressVars

MutFresh(form) == form.deliver

\* A different customer means a fresh location decision.
Fresh(form) == Nowhere

\* The typing has settled: another number, another customer.
Settle(v) ==
  LET form == forms[v] IN
  /\ form.typed # form.phone
  /\ Fill(v, [form EXCEPT !.phone = form.typed, !.seen = {}, !.picked = FALSE,
                          !.deliver = Fresh(form)])
  /\ UNCHANGED addressVars

Selected(r) == [row |-> r, key |-> book[r].key, link |-> book[r].link, save |-> FALSE]

\* What the auto-selection may take: the usual address of the vendor's
\* orders if the book has it, and otherwise an only one.
Usual(rows) == {{r} : r \in {x \in rows : book[x].key # None}}
               \cup {IF \E r \in rows : rows = {r} THEN rows ELSE {}}

\* The lookup answers, or is repeated; new data may select an address.
Look(v) ==
  LET form == forms[v]
      rows == Rows(form.phone)
      seen == {[id |-> r, key |-> book[r].key, link |-> book[r].link] : r \in rows}
  IN  /\ form.phone # None /\ form.seen # seen
      /\ \E pick \in IF form.picked THEN {{}} ELSE Usual(rows) :
           Fill(v, [form EXCEPT !.seen = seen, !.picked = @ \/ pick # {},
                     !.deliver = IF pick = {} THEN @ ELSE Selected(CHOOSE r \in pick : TRUE)])
      /\ UNCHANGED addressVars

\* selectSaved, from the list on the screen.
SelectSaved(v, a) ==
  /\ a \in forms[v].seen
  /\ Deliver(v, [row |-> a.id, key |-> a.key, link |-> a.link, save |-> FALSE])
  /\ UNCHANGED addressVars

\* somewhereElse: what is typed stays.
SomewhereElse(v) ==
  /\ Deliver(v, [forms[v].deliver EXCEPT !.row = None, !.save = FALSE])
  /\ UNCHANGED addressVars

\* The text is typed, and with it the choice of a saved address is gone.
TypeAddress(v, key) ==
  /\ Deliver(v, [forms[v].deliver EXCEPT !.row = None, !.key = key])
  /\ UNCHANGED addressVars

TypeLink(v, link) ==
  /\ Deliver(v, [forms[v].deliver EXCEPT !.link = link])
  /\ UNCHANGED addressVars

ToggleSave(v) ==
  /\ forms[v].deliver.key # None
  /\ Deliver(v, [forms[v].deliver EXCEPT !.save = ~@])
  /\ UNCHANGED addressVars

\* submit(): with the number that has settled, whatever is being typed, and
\* never without a text.  An unknown customer goes with the name beside it.
Submit(v) ==
  LET form == forms[v]
      deliver == form.deliver
  IN  /\ form.phone # None /\ deliver.key # None
      /\ Order(v, form.phone, [key |-> deliver.key, link |-> deliver.link],
               deliver.save /\ deliver.row = None)
      /\ UNCHANGED forms

\* The answer: an order opens its own page, an error leaves the form as it is.
Answer(v) ==
  /\ Close(v)
  /\ IF calls[v].phase = "done" THEN Fill(v, Blank) ELSE UNCHANGED forms
-----------------------------------------------------------------------------
\* Everybody else's pages.
Elsewhere(c) ==
  /\ \/ \E p \in Phones, place \in Places : CreateCustomer(c, p, place) \/ AddAddress(c, p, place)
     \/ c \in Admins /\ \E r \in DOMAIN book :
          ArchiveAddress(c, r) \/ \E place \in Places : EditAddress(c, r, place)
     \/ Close(c)
  /\ UNCHANGED forms

Form(v) ==
  \/ \E p \in Phones \cup {None} : Type(v, p)
  \/ \E a \in forms[v].seen : SelectSaved(v, a)
  \/ SomewhereElse(v) \/ ToggleSave(v) \/ Submit(v)
  \/ \E key \in Keys \cup {None} : TypeAddress(v, key)
  \/ \E link \in Links \cup {None} : TypeLink(v, link)

Server(c) == (Statement(c) \/ Dies(c)) /\ UNCHANGED forms

Next == \/ \E c \in Clients : Server(c)
        \/ \E c \in Clients \ Vendors : Elsewhere(c)
        \/ \E v \in Vendors : Form(v) \/ Settle(v) \/ Look(v) \/ Answer(v)

Spec == Init /\ [][Next]_vars
-----------------------------------------------------------------------------
Seen == [id : DOMAIN book, key : Keys \cup {None}, link : Links \cup {None}]

Forms == [typed : Phones \cup {None}, phone : Phones \cup {None}, seen : SUBSET Seen,
          picked : BOOLEAN,
          deliver : [row : DOMAIN book \cup {None}, key : Keys \cup {None},
                     link : Links \cup {None}, save : BOOLEAN]]

\* Types of the book, the requests and the forms.
TypeOK == AddressTypeOK /\ forms \in [Vendors -> Forms]

\* customer_360/migration.sql: "Application-level dedupe cannot survive two
\* concurrent orders for the same customer+address; a unique index can", and
\* location_text_or_link on the same pin: whatever is saved, edited, enriched
\* and archived at once, a book never holds one place twice.
OneCopy ==
  \A r, s \in DOMAIN book :
    /\ ~book[r].archived /\ ~book[s].archived
    /\ book[r].phone = book[s].phone
    /\ \/ book[r].key # None /\ book[r].key = book[s].key
       \/ book[r].link # None /\ book[r].link = book[s].link
    => r = s

\* useCustomerSearch: a "wrong-person error on a live call".  The saved
\* address a form has selected, by itself or by hand, is one of the customer
\* it would order for, however the typing, the lookups and the edits of the
\* book interleave.
RightDoor ==
  \A v \in Vendors :
    LET deliver == forms[v].deliver IN
    deliver.row # None => book[deliver.row].phone = forms[v].phone
=============================================================================

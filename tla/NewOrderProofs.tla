--------------------------- MODULE NewOrderProofs ---------------------------
(***************************************************************************)
(* A book holds a place once and a form never selects another customer's   *)
(* address: for any number of vendors, admins, customers and places.  What *)
(* a saver read of the book is not relied on; that a row keeps its phone   *)
(* and that the indexes look at the commit is.                             *)
(***************************************************************************)
EXTENDS NewOrder, SequenceTheorems, TLAPS

\* A row's customer has been created.
Owned == \A r \in DOMAIN book : book[r].phone \in known

\* What a request carries by the time a statement needs it.
Asks(call) ==
  /\ call.phase \in {"find", "create", "match", "insert", "reread"} => call.phone \in Phones
  /\ call.phase \in {"match", "insert", "reread"} => call.phone \in known
  /\ call.phase \in {"update", "archive"} => call.row \in DOMAIN book

Asked == \A c \in Clients : Asks(calls[c])

\* The list on a form's screen is of its customer.
SeenHere == \A v \in Vendors : \A a \in forms[v].seen : book[a.id].phone = forms[v].phone

Books == book \in Seq(BookRows) /\ known \subseteq Phones /\ Owned /\ OneCopy
Requests == calls \in [Clients -> AddressCalls] /\ Asked
Screens == forms \in [Vendors -> Forms] /\ SeenHere /\ RightDoor

IInv == Books /\ Requests /\ Screens

\* Rows are added and keep their phone.
Grows == /\ DOMAIN book \subseteq DOMAIN book' /\ known \subseteq known'
         /\ \A r \in DOMAIN book : book'[r].phone = book[r].phone
-----------------------------------------------------------------------------
LEMMA Domain == ASSUME Books
                PROVE  /\ DOMAIN book \subseteq Nat
                       /\ \A r \in DOMAIN book : book[r] \in BookRows
BY DEF Books

\* Screens that nobody touches while the book grows.
LEMMA ScreensStay ==
  ASSUME IInv, Grows, UNCHANGED forms
  PROVE  Screens'
<1>1. \A f \in Forms : f \in Forms'
  BY DEF Grows, Forms, Seen
<1>2. \A v \in Vendors : forms[v] \in Forms /\ forms[v].seen \subseteq Seen
                        /\ forms[v].deliver.row \in DOMAIN book \cup {None}
  BY DEF IInv, Screens, Forms
<1>3. \A a \in Seen : a.id \in DOMAIN book
  BY DEF Seen
<1>4. forms' \in [Vendors -> Forms']
  BY <1>1 DEF IInv, Screens
<1>5. SeenHere'
  BY <1>2, <1>3 DEF IInv, Screens, SeenHere, Grows
<1>6. RightDoor'
  BY <1>2 DEF IInv, Screens, RightDoor, Grows
<1> QED BY <1>4, <1>5, <1>6 DEF Screens

\* A request goes on while the book grows.
LEMMA RequestGoesOn ==
  ASSUME IInv, Grows, NEW c \in Clients, NEW call \in AddressCalls', Asks(call)', Go(c, call)
  PROVE  Requests'
<1>1. \A x \in AddressCalls : x \in AddressCalls' /\ (Asks(x) => Asks(x)')
  BY DEF Grows, AddressCalls, Asks
<1>2. \A d \in Clients : calls'[d] = (IF d = c THEN call ELSE calls[d])
  BY DEF IInv, Requests, Go
<1>3. calls' \in [Clients -> AddressCalls']
  BY <1>1 DEF IInv, Requests, Go
<1> QED BY <1>1, <1>2, <1>3 DEF IInv, Requests, Asked

LEMMA Unchanged ==
  ASSUME IInv, UNCHANGED <<known, book>>
  PROVE  Grows /\ Books' /\ AddressCalls' = AddressCalls /\ (UNCHANGED forms => Screens')
<1>1. Grows
  BY DEF Grows
<1>2. Books'
  BY DEF IInv, Books, Owned, OneCopy
<1>3. AddressCalls' = AddressCalls
  BY DEF AddressCalls
<1> QED BY <1>1, <1>2, <1>3, ScreensStay

\* A request that ends, however it does.
LEMMA RequestEnds ==
  ASSUME IInv, Grows, NEW c \in Clients, Answered(c) \/ Refused(c) \/ Go(c, NoCall)
  PROVE  Requests'
<1>1. ASSUME NEW call, Go(c, call),
             call.phase \in {"idle", "done", "failed"}, call \in AddressCalls'
      PROVE  Requests'
  <2>1. Asks(call)'
    BY <1>1 DEF Asks
  <2> QED BY <1>1, <2>1, RequestGoesOn
<1>2. NoCall \in AddressCalls' /\ NoCall.phase = "idle"
  BY DEF NoCall, AddressCalls
<1>3. ASSUME NEW phase \in {"done", "failed"}, Go(c, [NoCall EXCEPT !.phase = phase])
      PROVE  Requests'
  <2> DEFINE call == [NoCall EXCEPT !.phase = phase]
  <2>1. call \in AddressCalls' /\ call.phase = phase
    BY DEF NoCall, AddressCalls
  <2>2. Go(c, call)
    BY <1>3
  <2> HIDE DEF call
  <2> QED BY <1>1, <2>1, <2>2
<1> QED BY <1>1, <1>2, <1>3 DEF Answered, Refused
-----------------------------------------------------------------------------
\* A row is appended for a place the indexes do not have.
LEMMA RowInserted ==
  ASSUME IInv, NEW row \in BookRows, book' = Append(book, row),
         known \subseteq known', known' \subseteq Phones, row.phone \in known',
         ~row.archived,
         \A r \in Rows(row.phone) : /\ row.key # None => book[r].key # row.key
                                    /\ row.link # None => book[r].link # row.link
  PROVE  Books' /\ Grows
<1>1. /\ book' \in Seq(BookRows) /\ Len(book) \in Nat
      /\ DOMAIN book = 1 .. Len(book) /\ DOMAIN book' = 1 .. Len(book) + 1
      /\ \A r \in DOMAIN book : book'[r] = book[r]
      /\ book'[Len(book) + 1] = row
  BY DEF IInv, Books
<1>2. DOMAIN book' = DOMAIN book \cup {Len(book) + 1} /\ Len(book) + 1 \notin DOMAIN book
  BY <1>1
<1> DEFINE new == Len(book) + 1
<1> HIDE DEF new
<1>3. /\ DOMAIN book' = DOMAIN book \cup {new} /\ new \notin DOMAIN book /\ book'[new] = row
  BY <1>1, <1>2 DEF new
<1>4. Owned'
  BY <1>1, <1>3 DEF IInv, Books, Owned
<1>5. OneCopy'
  <2> SUFFICES ASSUME NEW r \in DOMAIN book', NEW s \in DOMAIN book', ~book'[r].archived,
                      ~book'[s].archived, book'[r].phone = book'[s].phone,
                      \/ book'[r].key # None /\ book'[r].key = book'[s].key
                      \/ book'[r].link # None /\ book'[r].link = book'[s].link
               PROVE  r = s
    BY DEF OneCopy
  <2>1. CASE r \in DOMAIN book /\ s \in DOMAIN book
    BY <1>1, <2>1 DEF IInv, Books, OneCopy
  <2>2. CASE r = new /\ s \in DOMAIN book
    BY <1>1, <1>3, <2>2 DEF Rows
  <2>3. CASE s = new /\ r \in DOMAIN book
    BY <1>1, <1>3, <2>3 DEF Rows
  <2> QED BY <1>3, <2>1, <2>2, <2>3
<1>6. Grows
  BY <1>1, <1>3 DEF Grows
<1> QED BY <1>1, <1>4, <1>5, <1>6 DEF Books

\* A row is changed, keeps its phone and stays alone with its place.
LEMMA RowChanged ==
  ASSUME IInv, NEW r \in DOMAIN book, NEW row \in BookRows, row.phone = book[r].phone,
         book' = [book EXCEPT ![r] = row], UNCHANGED known,
         ~row.archived => \A s \in Rows(row.phone) \ {r} : /\ row.key # None => book[s].key # row.key
                                                           /\ row.link # None => book[s].link # row.link
  PROVE  Books' /\ Grows
<1>1. /\ book' \in Seq(BookRows) /\ DOMAIN book' = DOMAIN book
      /\ \A s \in DOMAIN book : book'[s] = (IF s = r THEN row ELSE book[s])
  BY ExceptSeq DEF IInv, Books
<1>2. Owned' /\ Grows
  BY <1>1 DEF IInv, Books, Owned, Grows
<1>3. OneCopy'
  BY <1>1 DEF IInv, Books, OneCopy, Rows
<1> QED BY <1>1, <1>2, <1>3 DEF IInv, Books
-----------------------------------------------------------------------------
Served == Books' /\ Requests' /\ Grows

\* A request is made.
LEMMA RequestMade ==
  ASSUME IInv, NEW c \in Clients, UNCHANGED <<known, book>>,
         NEW call \in AddressCalls, Asks(call), Go(c, call)
  PROVE  Served
<1>1. Asks(call)'
  BY DEF Asks
<1> QED BY <1>1, Unchanged, RequestGoesOn DEF Served

\* A request goes into another phase.
LEMMA PhaseSet ==
  ASSUME IInv, NEW c \in Clients, UNCHANGED <<known, book>>,
         NEW phase \in {"create", "match", "insert", "reread"}, To(c, phase),
         calls[c].phone \in Phones, phase # "create" => calls[c].phone \in known
  PROVE  Served
<1> DEFINE call == [calls[c] EXCEPT !.phase = phase]
<1>1. calls[c] \in AddressCalls
  BY DEF IInv, Requests
<1>2. call \in AddressCalls /\ call.phase = phase /\ call.phone = calls[c].phone
  BY <1>1 DEF AddressCalls
<1>3. Go(c, call)
  BY DEF To
<1> HIDE DEF call
<1>4. Asks(call)
  BY <1>2 DEF Asks
<1> QED BY <1>2, <1>3, <1>4, RequestMade

LEMMA Ended ==
  ASSUME IInv, NEW c \in Clients, UNCHANGED <<known, book>>,
         Answered(c) \/ Refused(c) \/ Go(c, NoCall)
  PROVE  Served
BY Unchanged, RequestEnds DEF Served

LEMMA NewRowTyped ==
  ASSUME IInv, NEW c \in Clients, calls[c].phone \in Phones
  PROVE  /\ NewRow(c) \in BookRows /\ NewRow(c).phone = calls[c].phone /\ ~NewRow(c).archived
         /\ NewRow(c).key = calls[c].key /\ NewRow(c).link = calls[c].link
<1>1. calls[c].key \in Keys \cup {None} /\ calls[c].link \in Links \cup {None}
  BY DEF IInv, Requests, AddressCalls
<1> QED BY <1>1 DEF NewRow, BookRows

LEMMA FindKeeps ==
  ASSUME IInv, NEW c \in Clients, Find(c)
  PROVE  Served
<1>1. calls[c].phone \in Phones
  BY DEF Find, IInv, Requests, Asked, Asks
<1> QED BY <1>1, PhaseSet, Ended DEF Find

LEMMA CreateKeeps ==
  ASSUME IInv, NEW c \in Clients, Create(c)
  PROVE  Served
<1>1. calls[c].phone \in Phones
  BY DEF Create, IInv, Requests, Asked, Asks
<1>2. CASE calls[c].phone \in known
  BY <1>2, Ended DEF Create
<1>3. CASE calls[c].phone \notin known
  <2>1. known' = known \cup {calls[c].phone} /\ Answered(c)
        /\ book' = IF calls[c].save THEN Append(book, NewRow(c)) ELSE book
    BY <1>3 DEF Create
  <2>2. CASE calls[c].save
    <3>1. Rows(calls[c].phone) = {}
      BY <1>3 DEF Rows, IInv, Books, Owned
    <3>2. known' \subseteq Phones
      BY <1>1, <2>1 DEF IInv, Books
    <3>3. Books' /\ Grows
      BY <1>1, <2>1, <2>2, <3>1, <3>2, NewRowTyped, RowInserted
    <3> QED BY <2>1, <3>3, RequestEnds DEF Served
  <2>3. CASE ~calls[c].save
    <3>1. Books' /\ Grows
      BY <1>1, <2>1, <2>3 DEF IInv, Books, Owned, OneCopy, Grows
    <3> QED BY <2>1, <3>1, RequestEnds DEF Served
  <2> QED BY <2>2, <2>3
<1> QED BY <1>2, <1>3

LEMMA MatchKeeps ==
  ASSUME IInv, NEW c \in Clients, Match(c)
  PROVE  Served
<1> DEFINE found == Matches(Rows(calls[c].phone), [key |-> calls[c].key, link |-> calls[c].link])
<1>1. calls[c] \in AddressCalls /\ calls[c].phone \in Phones /\ calls[c].phone \in known
  BY DEF Match, IInv, Requests, Asked, Asks
<1>2. found \subseteq DOMAIN book
  BY DEF Matches, ByLink, ByKey, Rows
<1>3. UNCHANGED <<known, book>>
  BY DEF Match
<1>4. CASE To(c, "insert")
  BY <1>1, <1>3, <1>4, PhaseSet
<1>5. ASSUME NEW r \in found, Go(c, [calls[c] EXCEPT !.phase = "update", !.row = r, !.diff = {"link"}])
      PROVE  Served
  <2> DEFINE call == [calls[c] EXCEPT !.phase = "update", !.row = r, !.diff = {"link"}]
  <2>1. call \in AddressCalls /\ call.phase = "update" /\ call.row = r
    BY <1>1, <1>2 DEF AddressCalls
  <2>2. Go(c, call)
    BY <1>5
  <2> HIDE DEF call
  <2>3. Asks(call)
    BY <1>2, <2>1 DEF Asks
  <2> QED BY <1>3, <2>1, <2>2, <2>3, RequestMade
<1>6. CASE Answered(c)
  BY <1>3, <1>6, Ended
<1> QED BY <1>4, <1>5, <1>6 DEF Match

LEMMA InsertKeeps ==
  ASSUME IInv, NEW c \in Clients, Insert(c)
  PROVE  Served
<1>1. calls[c].phone \in Phones /\ calls[c].phone \in known
  BY DEF Insert, IInv, Requests, Asked, Asks
<1> DEFINE place == [key |-> calls[c].key, link |-> calls[c].link]
<1>2. CASE Taken(calls[c].phone, place)
  BY <1>1, <1>2, PhaseSet DEF Insert
<1>3. CASE ~Taken(calls[c].phone, place)
  <2>1. known' = known /\ Answered(c) /\ book' = Append(book, NewRow(c))
    BY <1>3 DEF Insert
  <2>2. \A r \in Rows(calls[c].phone) : /\ calls[c].key # None => book[r].key # calls[c].key
                                        /\ calls[c].link # None => book[r].link # calls[c].link
    BY <1>3 DEF Taken, ByLink, ByKey
  <2>3. known' \subseteq Phones
    BY <2>1 DEF IInv, Books
  <2>4. Books' /\ Grows
    BY <1>1, <2>1, <2>2, <2>3, NewRowTyped, RowInserted
  <2> QED BY <2>1, <2>4, RequestEnds DEF Served
<1> QED BY <1>2, <1>3

LEMMA RereadKeeps ==
  ASSUME IInv, NEW c \in Clients, Reread(c) \/ Dies(c) \/ Close(c)
  PROVE  Served
BY Ended DEF Reread, Dies, Close

\* The UPDATE writes one of the two, or both, over the row it finds.
LEMMA UpdateKeeps ==
  ASSUME IInv, NEW c \in Clients, Update(c)
  PROVE  Served
<1> DEFINE call == calls[c]
           r == call.row
           key == IF "key" \in call.diff THEN call.key ELSE book[r].key
           link == IF "link" \in call.diff THEN call.link ELSE book[r].link
           row == [book[r] EXCEPT !.key = key, !.link = link]
           others == Rows(book[r].phone) \ {r}
<1>1. /\ call.key \in Keys \cup {None} /\ call.link \in Links \cup {None}
      /\ r \in DOMAIN book /\ book[r] \in BookRows
  BY Domain DEF Update, IInv, Requests, Asked, Asks, AddressCalls
<1>2. /\ row \in BookRows /\ row.phone = book[r].phone /\ row.archived = book[r].archived
      /\ row.key = key /\ row.link = link
  BY <1>1 DEF BookRows
<1>3. CASE UNCHANGED book
  BY <1>3, Ended DEF Update
<1>4. CASE ~UNCHANGED book
  <2>1. /\ book' = [book EXCEPT ![r] = row] /\ known' = known /\ Answered(c)
        /\ ~(ByLink(others, row.link) \cup ByKey(others, row.key) # {} /\ ~book[r].archived)
    BY <1>4 DEF Update
  <2>2. ~row.archived => \A s \in Rows(row.phone) \ {r} :
          /\ row.key # None => book[s].key # row.key
          /\ row.link # None => book[s].link # row.link
    <3> HIDE DEF row
    <3> QED BY <1>2, <2>1 DEF ByLink, ByKey
  <2> HIDE DEF row, r
  <2>3. Books' /\ Grows
    BY <1>1, <1>2, <2>1, <2>2, RowChanged
  <2> QED BY <2>1, <2>3, RequestEnds DEF Served
<1> QED BY <1>3, <1>4

LEMMA ArchiveKeeps ==
  ASSUME IInv, NEW c \in Clients, Archive(c)
  PROVE  Served
<1> DEFINE r == calls[c].row
           row == [book[r] EXCEPT !.archived = TRUE]
<1>1. r \in DOMAIN book /\ book[r] \in BookRows
  BY Domain DEF Archive, IInv, Requests, Asked, Asks
<1>2. row \in BookRows /\ row.phone = book[r].phone /\ row.archived
  BY <1>1 DEF BookRows
<1>3. CASE UNCHANGED book
  BY <1>3, Ended DEF Archive
<1>4. CASE ~UNCHANGED book
  <2>1. book' = [book EXCEPT ![r] = row] /\ known' = known /\ Answered(c)
    BY <1>4 DEF Archive
  <2> HIDE DEF row, r
  <2>2. Books' /\ Grows
    BY <1>1, <1>2, <2>1, RowChanged
  <2> QED BY <2>1, <2>2, RequestEnds DEF Served
<1> QED BY <1>3, <1>4
-----------------------------------------------------------------------------
DeliverTo == [row : DOMAIN book \cup {None}, key : Keys \cup {None},
              link : Links \cup {None}, save : BOOLEAN]

\* A form changes while the book stays.
LEMMA FormFilled ==
  ASSUME IInv, NEW v \in Vendors, NEW form \in Forms, Fill(v, form), UNCHANGED <<known, book>>,
         \A a \in form.seen : book[a.id].phone = form.phone,
         form.deliver.row # None => book[form.deliver.row].phone = form.phone
  PROVE  Screens'
<1>1. Forms' = Forms
  BY DEF Forms, Seen
<1>2. forms' \in [Vendors -> Forms] /\ \A w \in Vendors : forms'[w] = (IF w = v THEN form ELSE forms[w])
  BY DEF IInv, Screens, Fill
<1> QED BY <1>1, <1>2 DEF IInv, Screens, SeenHere, RightDoor

\* Another place on the form.
LEMMA PlaceFilled ==
  ASSUME IInv, NEW v \in Vendors, NEW deliver \in DeliverTo, Deliver(v, deliver),
         UNCHANGED <<known, book>>,
         deliver.row # None => book[deliver.row].phone = forms[v].phone
  PROVE  Screens'
<1> DEFINE form == [forms[v] EXCEPT !.deliver = deliver]
<1>1. forms[v] \in Forms /\ \A a \in forms[v].seen : book[a.id].phone = forms[v].phone
  BY DEF IInv, Screens, SeenHere
<1>2. form \in Forms /\ form.seen = forms[v].seen /\ form.phone = forms[v].phone /\ form.deliver = deliver
  BY <1>1 DEF Forms, DeliverTo
<1>3. Fill(v, form)
  BY DEF Deliver
<1> HIDE DEF form
<1> QED BY <1>1, <1>2, <1>3, FormFilled

\* A form that has let go of its address, whatever it now says.
LEMMA Emptied ==
  ASSUME IInv, NEW v \in Vendors, NEW form \in Forms, Fill(v, form), UNCHANGED <<known, book>>,
         form.seen = {}, form.deliver.row = None
  PROVE  Screens'
BY FormFilled

LEMMA BlankTyped == Blank \in Forms /\ Blank.seen = {} /\ Blank.deliver.row = None /\ Nowhere \in DeliverTo
BY DEF Blank, Nowhere, Forms, DeliverTo

LEMMA Current ==
  ASSUME IInv, NEW v \in Vendors
  PROVE  /\ forms[v] \in Forms /\ forms[v].deliver \in DeliverTo
         /\ \A a \in forms[v].seen : a \in Seen /\ book[a.id].phone = forms[v].phone
         /\ forms[v].deliver.row # None => book[forms[v].deliver.row].phone = forms[v].phone
         /\ forms[v].phone \in Phones \cup {None} /\ forms[v].typed \in Phones \cup {None}
BY DEF IInv, Screens, Forms, DeliverTo, SeenHere, RightDoor

LEMMA TypeKeeps ==
  ASSUME IInv, NEW v \in Vendors, NEW phone \in Phones \cup {None}, Type(v, phone)
  PROVE  Screens'
<1> DEFINE form == [forms[v] EXCEPT !.typed = phone]
<1>1. form \in Forms /\ form.seen = forms[v].seen /\ form.phone = forms[v].phone
      /\ form.deliver = forms[v].deliver
  BY Current DEF Forms
<1>2. Fill(v, form) /\ UNCHANGED <<known, book>>
  BY DEF Type, addressVars
<1> HIDE DEF form
<1> QED BY <1>1, <1>2, Current, FormFilled

LEMMA SettleKeeps ==
  ASSUME IInv, NEW v \in Vendors, Settle(v)
  PROVE  Screens'
<1> DEFINE form == [forms[v] EXCEPT !.phone = forms[v].typed, !.seen = {}, !.picked = FALSE,
                                    !.deliver = Nowhere]
<1>1. form \in Forms /\ form.seen = {} /\ form.deliver = Nowhere
  BY Current, BlankTyped DEF Forms, DeliverTo
<1>2. Fill(v, form) /\ UNCHANGED <<known, book>>
  BY DEF Settle, Fresh, addressVars
<1> HIDE DEF form
<1> QED BY <1>1, <1>2, Emptied DEF Nowhere

\* The lookup brings rows of the form's customer, and selects one of them.
LEMMA LookKeeps ==
  ASSUME IInv, NEW v \in Vendors, Look(v)
  PROVE  Screens'
<1> DEFINE rows == Rows(forms[v].phone)
           seen == {[id |-> r, key |-> book[r].key, link |-> book[r].link] : r \in rows}
<1>1. \A r \in rows : r \in DOMAIN book /\ book[r] \in BookRows /\ book[r].phone = forms[v].phone
  BY Domain DEF Rows, IInv
<1>2. seen \in SUBSET Seen /\ \A a \in seen : book[a.id].phone = forms[v].phone
  BY <1>1 DEF Seen, BookRows
<1> HIDE DEF seen
<1>3. UNCHANGED <<known, book>>
  BY DEF Look, addressVars
<1>4. PICK pick \in {{}} \cup Usual(rows) :
        forms' = [forms EXCEPT ![v] = [forms[v] EXCEPT !.seen = seen,
          !.picked = forms[v].picked \/ pick # {},
          !.deliver = IF pick = {} THEN forms[v].deliver ELSE Selected(CHOOSE r \in pick : TRUE)]]
  BY DEF Look, Fill, seen
<1>5. pick \subseteq rows
  BY <1>4 DEF Usual
<1> DEFINE place == IF pick = {} THEN forms[v].deliver ELSE Selected(CHOOSE r \in pick : TRUE)
           form == [forms[v] EXCEPT !.seen = seen, !.picked = forms[v].picked \/ pick # {},
                                    !.deliver = place]
<1>6. place \in DeliverTo /\ (place.row # None => book[place.row].phone = forms[v].phone)
  <2>1. CASE pick = {}
    BY <2>1, Current
  <2>2. CASE pick # {}
    <3>1. PICK r \in rows : place = Selected(r)
      BY <1>5, <2>2
    <3>2. r \in DOMAIN book /\ book[r] \in BookRows /\ book[r].phone = forms[v].phone
      BY <1>1
    <3>3. Selected(r) \in DeliverTo /\ Selected(r).row = r
      BY <3>2 DEF Selected, DeliverTo, BookRows
    <3> HIDE DEF place, rows
    <3> QED BY <3>1, <3>2, <3>3
  <2> QED BY <2>1, <2>2
<1> HIDE DEF place
<1>7. form \in Forms /\ form.seen = seen /\ form.phone = forms[v].phone /\ form.deliver = place
  <2>1. (forms[v].picked \/ pick # {}) \in BOOLEAN
    OBVIOUS
  <2> QED BY <1>2, <1>6, <2>1, Current DEF Forms, DeliverTo
<1>8. Fill(v, form)
  BY <1>4 DEF Fill, place
<1> HIDE DEF form
<1> QED BY <1>2, <1>3, <1>6, <1>7, <1>8, FormFilled

LEMMA PlacesKeep ==
  ASSUME IInv, NEW v \in Vendors,
         \/ \E a \in forms[v].seen : SelectSaved(v, a)
         \/ SomewhereElse(v) \/ ToggleSave(v)
         \/ \E key \in Keys \cup {None} : TypeAddress(v, key)
         \/ \E link \in Links \cup {None} : TypeLink(v, link)
  PROVE  Screens'
<1> DEFINE deliver == forms[v].deliver
<1>1. UNCHANGED <<known, book>>
  BY DEF SelectSaved, SomewhereElse, ToggleSave, TypeAddress, TypeLink, addressVars
<1>2. ASSUME NEW a \in forms[v].seen, SelectSaved(v, a)
      PROVE  Screens'
  <2> DEFINE place == [row |-> a.id, key |-> a.key, link |-> a.link, save |-> FALSE]
  <2>1. place \in DeliverTo /\ book[place.row].phone = forms[v].phone
    BY <1>2, Current DEF Seen, DeliverTo
  <2>2. Deliver(v, place)
    BY <1>2 DEF SelectSaved
  <2> HIDE DEF place
  <2> QED BY <1>1, <2>1, <2>2, PlaceFilled
<1>3. CASE SomewhereElse(v)
  <2> DEFINE place == [deliver EXCEPT !.row = None, !.save = FALSE]
  <2>1. place \in DeliverTo /\ place.row = None
    BY Current DEF DeliverTo
  <2>2. Deliver(v, place)
    BY <1>3 DEF SomewhereElse
  <2> HIDE DEF place
  <2> QED BY <1>1, <2>1, <2>2, PlaceFilled
<1>4. ASSUME NEW key \in Keys \cup {None}, TypeAddress(v, key)
      PROVE  Screens'
  <2> DEFINE place == [deliver EXCEPT !.row = None, !.key = key]
  <2>1. place \in DeliverTo /\ place.row = None
    BY Current DEF DeliverTo
  <2>2. Deliver(v, place)
    BY <1>4 DEF TypeAddress
  <2> HIDE DEF place
  <2> QED BY <1>1, <2>1, <2>2, PlaceFilled
<1>5. ASSUME NEW link \in Links \cup {None}, TypeLink(v, link)
      PROVE  Screens'
  <2> DEFINE place == [deliver EXCEPT !.link = link]
  <2>1. place \in DeliverTo /\ place.row = deliver.row
    BY Current DEF DeliverTo
  <2>2. Deliver(v, place)
    BY <1>5 DEF TypeLink
  <2> HIDE DEF place
  <2> QED BY <1>1, <2>1, <2>2, Current, PlaceFilled
<1>6. CASE ToggleSave(v)
  <2> DEFINE place == [deliver EXCEPT !.save = ~deliver.save]
  <2>1. place \in DeliverTo /\ place.row = deliver.row
    BY Current DEF DeliverTo
  <2>2. Deliver(v, place)
    BY <1>6 DEF ToggleSave
  <2> HIDE DEF place
  <2> QED BY <1>1, <2>1, <2>2, Current, PlaceFilled
<1> QED BY <1>2, <1>3, <1>4, <1>5, <1>6
-----------------------------------------------------------------------------
\* The requests of the form and of everybody else's pages.
LEMMA Asking ==
  ASSUME IInv, NEW c \in Clients, NEW phone \in Phones, NEW key \in Keys \cup {None},
         NEW link \in Links \cup {None}, NEW save \in BOOLEAN,
         Request(c, phone, [key |-> key, link |-> link], save)
  PROVE  Served
<1> DEFINE call == [NoCall EXCEPT !.phase = "find", !.phone = phone, !.key = key, !.link = link,
                                  !.save = save]
<1>1. call \in AddressCalls /\ call.phase = "find" /\ call.phone = phone
  BY DEF NoCall, AddressCalls
<1>2. Go(c, call) /\ UNCHANGED <<known, book>>
  BY DEF Request
<1> HIDE DEF call
<1>3. Asks(call)
  BY <1>1 DEF Asks
<1> QED BY <1>1, <1>2, <1>3, RequestMade

LEMMA EditsKeep ==
  ASSUME IInv, NEW c \in Clients, NEW r \in DOMAIN book,
         ArchiveAddress(c, r) \/ \E place \in Places : EditAddress(c, r, place)
  PROVE  Served
<1>1. UNCHANGED <<known, book>> /\ book[r] \in BookRows
  BY Domain DEF IInv, ArchiveAddress, EditAddress
<1>2. CASE ArchiveAddress(c, r)
  <2> DEFINE call == [NoCall EXCEPT !.phase = "archive", !.row = r]
  <2>1. call \in AddressCalls /\ call.phase = "archive" /\ call.row = r
    BY DEF NoCall, AddressCalls
  <2>2. Go(c, call)
    BY <1>2 DEF ArchiveAddress
  <2> HIDE DEF call
  <2>3. Asks(call)
    BY <2>1 DEF Asks
  <2> QED BY <1>1, <2>1, <2>2, <2>3, RequestMade
<1>3. ASSUME NEW place \in Places, EditAddress(c, r, place)
      PROVE  Served
  <2> DEFINE diff == {f \in {"key", "link"} : place[f] # book[r][f]}
             call == [NoCall EXCEPT !.phase = "update", !.phone = book[r].phone, !.key = place.key,
                                    !.link = place.link, !.row = r, !.diff = diff]
  <2>1. diff \in SUBSET {"key", "link"}
    OBVIOUS
  <2>2. Go(c, call)
    BY <1>3 DEF EditAddress
  <2> HIDE DEF diff
  <2>3. call \in AddressCalls /\ call.phase = "update" /\ call.row = r
    BY <1>1, <2>1 DEF NoCall, AddressCalls, BookRows, Places
  <2> HIDE DEF call
  <2>4. Asks(call)
    BY <2>3 DEF Asks
  <2> QED BY <1>1, <2>2, <2>3, <2>4, RequestMade
<1> QED BY <1>2, <1>3

LEMMA ElsewhereKeeps ==
  ASSUME IInv, NEW c \in Clients, Elsewhere(c)
  PROVE  IInv'
<1>1. ASSUME NEW phone \in Phones, NEW place \in Places,
             CreateCustomer(c, phone, place) \/ AddAddress(c, phone, place)
      PROVE  Served
  <2>1. PICK key \in Keys \cup {None}, link \in Links \cup {None} :
          place = [key |-> key, link |-> link]
    BY DEF Places
  <2> QED BY <1>1, <2>1, Asking DEF CreateCustomer, AddAddress
<1>2. Served
  BY <1>1, EditsKeep, Ended DEF Elsewhere, Close
<1> QED BY <1>2, ScreensStay DEF Elsewhere, Served, IInv

LEMMA SubmitKeeps ==
  ASSUME IInv, NEW v \in Vendors, Submit(v)
  PROVE  IInv'
<1> DEFINE deliver == forms[v].deliver
           saves == deliver.save /\ deliver.row = None
<1>1. forms[v].phone \in Phones /\ deliver.key \in Keys \cup {None}
      /\ deliver.link \in Links \cup {None} /\ saves \in BOOLEAN
  BY Current DEF Submit, DeliverTo
<1>2. Request(v, forms[v].phone, [key |-> deliver.key, link |-> deliver.link], saves)
      /\ UNCHANGED forms
  BY DEF Submit, Order
<1>3. v \in Clients
  BY FormAssumption
<1> HIDE DEF deliver, saves
<1>4. Served
  BY <1>1, <1>2, <1>3, Asking
<1> QED BY <1>2, <1>4, ScreensStay DEF Served, IInv

\* A form that is typed, looked up, filled and answered.
LEMMA FormKeeps ==
  ASSUME IInv, NEW v \in Vendors, Form(v) \/ Settle(v) \/ Look(v) \/ Answer(v)
  PROVE  IInv'
<1>1. CASE Submit(v)
  BY <1>1, SubmitKeeps
<1>2. CASE Answer(v)
  <2>1. v \in Clients /\ Served /\ UNCHANGED <<known, book>>
    BY <1>2, Ended, FormAssumption DEF Answer, Close
  <2>2. Screens'
    BY <1>2, <2>1, BlankTyped, Emptied, Unchanged DEF Answer
  <2> QED BY <2>1, <2>2 DEF Served, IInv
<1>3. CASE ~Submit(v) /\ ~Answer(v)
  <2>1. Screens'
    BY <1>3, TypeKeeps, SettleKeeps, LookKeeps, PlacesKeep DEF Form
  <2>2. UNCHANGED addressVars
    BY <1>3 DEF Form, Type, Settle, Look, SelectSaved, SomewhereElse, ToggleSave, TypeAddress, TypeLink
  <2>3. Books' /\ Requests'
    BY <2>2, Unchanged DEF addressVars, IInv, Requests, Asked, Asks
  <2> QED BY <2>1, <2>3 DEF IInv
<1> QED BY <1>1, <1>2, <1>3

LEMMA Inductive == IInv /\ [Next]_vars => IInv'
<1> SUFFICES ASSUME IInv, [Next]_vars PROVE IInv'
  OBVIOUS
<1>1. ASSUME NEW c \in Clients, Server(c)
      PROVE  IInv'
  <2>1. Served
    BY <1>1, FindKeeps, CreateKeeps, MatchKeeps, InsertKeeps, RereadKeeps, UpdateKeeps, ArchiveKeeps
    DEF Server, Statement
  <2> QED BY <1>1, <2>1, ScreensStay DEF Server, Served, IInv
<1>2. CASE UNCHANGED vars
  BY <1>2, Unchanged DEF vars, IInv, Requests, Asked, Asks
<1> QED BY <1>1, <1>2, ElsewhereKeeps, FormKeeps DEF Next

LEMMA InitIInv == Init => IInv
<1> SUFFICES ASSUME Init PROVE IInv
  OBVIOUS
<1>1. Books
  BY DEF Init, AddressInit, Books, Owned, OneCopy
<1>2. Requests
  <2>1. NoCall \in AddressCalls /\ NoCall.phase = "idle"
    BY DEF NoCall, AddressCalls
  <2>2. calls = [c \in Clients |-> NoCall]
    BY DEF Init, AddressInit
  <2> QED BY <2>1, <2>2 DEF Requests, Asked, Asks
<1>3. Screens
  BY BlankTyped DEF Init, Screens, SeenHere, RightDoor
<1> QED BY <1>1, <1>2, <1>3 DEF IInv

\* The book, the requests and the forms hold what their types say.
THEOREM TypesHold == Spec => []TypeOK
<1>1. IInv => TypeOK
  BY DEF IInv, Books, Requests, Screens, TypeOK, AddressTypeOK
<1> QED BY <1>1, InitIInv, Inductive, PTL DEF Spec

\* Whoever saves, edits, enriches and archives at once, a book never holds one
\* place twice: the partial unique indexes decide, not what was read before.
THEOREM IndexesKeepOneCopy == Spec => []OneCopy
<1>1. IInv => OneCopy
  BY DEF IInv, Books
<1> QED BY <1>1, InitIInv, Inductive, PTL DEF Spec

\* However typing, lookups and edits interleave, an address a form has
\* selected is one of the customer it would order for.
THEOREM OrdersGoToTheirOwnDoor == Spec => []RightDoor
<1>1. IInv => RightDoor
  BY DEF IInv, Screens
<1> QED BY <1>1, InitIInv, Inductive, PTL DEF Spec
=============================================================================

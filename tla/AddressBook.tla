----------------------------- MODULE AddressBook -----------------------------
(***************************************************************************)
(* The address books of the customers vendors share, one per phone:        *)
(* customers/customers.service.ts with the partial unique indexes of its   *)
(* migrations, and the part of orders.service.ts create() that reaches it. *)
(*                                                                         *)
(* Saving an address reads the book and then inserts, so two savers meet   *)
(* at the index; the loser looks again for the row it lost to.  A place is *)
(* a text, by its dedupe key, a maps link, or both.  An insert that waits  *)
(* for another transaction's is the insert after that one's commit.        *)
(***************************************************************************)
EXTENDS Integers, Sequences

CONSTANTS Clients, Admins, \* tabs that send requests; those of the platform's own
          Phones, Keys, Links, None,
          MaxRows  \* bound on the rows when a save may start

ASSUME AddressAssumption ==
  /\ Admins \subseteq Clients
  /\ MaxRows \in Nat
  /\ None \notin Phones \cup Keys \cup Links \cup Nat

VARIABLES known, \* the phones that have a customer
          book,  \* customer_addresses, by order of insertion
          calls  \* requests in flight

addressVars == <<known, book, calls>>
-----------------------------------------------------------------------------
NoCall == [phase |-> "idle", phone |-> None, key |-> None, link |-> None,
           save |-> FALSE, row |-> None, diff |-> {}]

Places == {p \in [key : Keys \cup {None}, link : Links \cup {None}] :
             p.key # None \/ p.link # None}

Rows(phone) == {r \in DOMAIN book : book[r].phone = phone /\ ~book[r].archived}

Go(c, call) == calls' = [calls EXCEPT ![c] = call]
To(c, phase) == Go(c, [calls[c] EXCEPT !.phase = phase])
Answered(c) == Go(c, [NoCall EXCEPT !.phase = "done"])
Refused(c) == Go(c, [NoCall EXCEPT !.phase = "failed"])

ByLink(rows, link) == {r \in rows : link # None /\ book[r].link = link}
ByKey(rows, key) == {r \in rows : key # None /\ book[r].key = key}

\* linkMatch ?? textMatch
Matches(rows, place) ==
  IF ByLink(rows, place.link) # {} THEN ByLink(rows, place.link) ELSE ByKey(rows, place.key)

MutTaken(phone, place) == Matches(Rows(phone), [place EXCEPT !.link = None]) # {}

\* The two partial unique indexes: a place of the book, by key or by link.
Taken(phone, place) == ByLink(Rows(phone), place.link) \cup ByKey(Rows(phone), place.key) # {}

MutNewRow(c) == [phone |-> calls[c].phone, key |-> calls[c].key, link |-> calls[c].link,
                 archived |-> None]

\* The row as it is inserted, unarchived by default.
NewRow(c) == [phone |-> calls[c].phone, key |-> calls[c].key, link |-> calls[c].link,
              archived |-> FALSE]
-----------------------------------------------------------------------------
AddressInit == /\ known = {}
               /\ book = <<>>
               /\ calls = [c \in Clients |-> NoCall]

Request(c, phone, place, save) ==
  /\ calls[c].phase = "idle"
  /\ save => Len(book) < MaxRows
  /\ Go(c, [NoCall EXCEPT !.phase = "find", !.phone = phone,
              !.key = place.key, !.link = place.link, !.save = save])
  /\ UNCHANGED <<known, book>>

\* POST /customers, with an address.
CreateCustomer(c, phone, place) == Request(c, phone, place, TRUE)

\* POST /customers/:id/addresses: a customer somebody found.
AddAddress(c, phone, place) == phone \in known /\ Request(c, phone, place, TRUE)

\* POST /vendor/orders: the place is saved only if the vendor asked.
Order(c, phone, place, save) == Request(c, phone, place, save)

\* The customer is looked for by phone.
Find(c) ==
  /\ calls[c].phase = "find"
  /\ IF calls[c].phone \notin known THEN To(c, "create")
     ELSE IF calls[c].save THEN To(c, "match") ELSE Answered(c)
  /\ UNCHANGED <<known, book>>

\* A new customer, his name given, and the place in an empty book.  If
\* somebody else's insert came first, the unique phone aborts it all.
Create(c) ==
  LET call == calls[c] IN
  /\ call.phase = "create"
  /\ IF call.phone \in known
     THEN Refused(c) /\ UNCHANGED <<known, book>>
     ELSE /\ known' = known \cup {call.phone}
          /\ book' = IF call.save THEN Append(book, NewRow(c)) ELSE book
          /\ Answered(c)

\* Filling a blank link is an edit, which only the platform's own may make.
Enriches(c, r) == calls[c].link # None /\ book[r].link = None /\ c \in Admins

\* saveAddressInTx: the book is read; a match is the answer.
Match(c) ==
  LET call == calls[c]
      found == Matches(Rows(call.phone), [key |-> call.key, link |-> call.link])
  IN  /\ call.phase = "match"
      /\ IF found = {} THEN To(c, "insert")
         ELSE \E r \in found :
           IF Enriches(c, r)
           THEN Go(c, [call EXCEPT !.phase = "update", !.row = r, !.diff = {"link"}])
           ELSE Answered(c)
      /\ UNCHANGED <<known, book>>

\* INSERT ... ON CONFLICT DO NOTHING.
Insert(c) ==
  LET call == calls[c] IN
  /\ call.phase = "insert"
  /\ IF Taken(call.phone, [key |-> call.key, link |-> call.link])
     THEN To(c, "reread") /\ UNCHANGED book
     ELSE Answered(c) /\ book' = Append(book, NewRow(c))
  /\ UNCHANGED known

\* The winner's row, which may have been archived or changed since.
Reread(c) ==
  LET call == calls[c] IN
  /\ call.phase = "reread"
  /\ IF Matches(Rows(call.phone), [key |-> call.key, link |-> call.link]) # {}
     THEN Answered(c) ELSE Refused(c)
  /\ UNCHANGED <<known, book>>

\* updateAddress: read, and the fields that differ.
EditAddress(c, r, place) ==
  LET row == book[r]
      diff == {f \in {"key", "link"} : place[f] # row[f]}
  IN  /\ calls[c].phase = "idle"
      /\ r \in DOMAIN book /\ ~row.archived
      /\ diff # {}
      /\ Go(c, [NoCall EXCEPT !.phase = "update", !.phone = row.phone,
                  !.key = place.key, !.link = place.link, !.row = r, !.diff = diff])
      /\ UNCHANGED <<known, book>>

\* The UPDATE: by id alone, of the fields that differed; the indexes refuse a
\* duplicate.
Update(c) ==
  LET call == calls[c]
      row == book[call.row]
      changed == [row EXCEPT !.key = IF "key" \in call.diff THEN call.key ELSE @,
                             !.link = IF "link" \in call.diff THEN call.link ELSE @]
      others == Rows(row.phone) \ {call.row}
      taken == ByLink(others, changed.link) \cup ByKey(others, changed.key) # {}
  IN  /\ call.phase = "update"
      /\ IF taken /\ ~row.archived
         THEN Refused(c) /\ UNCHANGED book
         ELSE Answered(c) /\ book' = [book EXCEPT ![call.row] = changed]
      /\ UNCHANGED known

\* archiveAddress: the read says whose it is ...
ArchiveAddress(c, r) ==
  /\ calls[c].phase = "idle"
  /\ r \in DOMAIN book /\ ~book[r].archived
  /\ Go(c, [NoCall EXCEPT !.phase = "archive", !.row = r])
  /\ UNCHANGED <<known, book>>

\* ... and the conditional UPDATE whether it is still there.
Archive(c) ==
  LET r == calls[c].row IN
  /\ calls[c].phase = "archive"
  /\ IF book[r].archived THEN Refused(c) /\ UNCHANGED book
     ELSE Answered(c) /\ book' = [book EXCEPT ![r].archived = TRUE]
  /\ UNCHANGED known

\* A transaction dies, or the connection: nothing of it stays.
Dies(c) ==
  /\ calls[c].phase \in {"find", "create", "match", "insert", "reread", "update", "archive"}
  /\ Refused(c)
  /\ UNCHANGED <<known, book>>

\* The client reads its answer.
Close(c) ==
  /\ calls[c].phase \in {"done", "failed"}
  /\ Go(c, NoCall)
  /\ UNCHANGED <<known, book>>

Statement(c) ==
  Find(c) \/ Create(c) \/ Match(c) \/ Insert(c) \/ Reread(c) \/ Update(c) \/ Archive(c)
-----------------------------------------------------------------------------
BookRows == [phone : Phones, key : Keys \cup {None}, link : Links \cup {None},
             archived : BOOLEAN]

AddressCalls ==
  [phase : {"idle", "find", "create", "match", "insert", "reread", "update", "archive", "done",
            "failed"},
   phone : Phones \cup {None},
   key : Keys \cup {None}, link : Links \cup {None}, save : BOOLEAN,
   row : DOMAIN book \cup {None}, diff : SUBSET {"key", "link"}]

AddressTypeOK ==
  /\ known \subseteq Phones
  /\ book \in Seq(BookRows)
  /\ calls \in [Clients -> AddressCalls]
=============================================================================

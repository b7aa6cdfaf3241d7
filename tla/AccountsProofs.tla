--------------------------- MODULE AccountsProofs ---------------------------
(***************************************************************************)
(* Accounts, and the sessions that are opened with them.                   *)
(*                                                                         *)
(* The platform keeps an admin who can sign in, for any number of admins,  *)
(* consoles and devices.  The argument is that of countOtherActiveAdmins():*)
(* a request that takes an admin away holds the row of another who is      *)
(* active, and whoever holds a row is the only one who may write it.       *)
(*                                                                         *)
(* A session stays one session, and an ended one stays ended, for any      *)
(* users, browsers, tabs and admins.  A refresh claims its token with an   *)
(* UPDATE that sees a live one, and until it commits nobody else can claim *)
(* or revoke that row: so what it replaces is its family's only live token.*)
(***************************************************************************)
EXTENDS Accounts, AuthSessions, SequenceTheorems, TLAPS

-----------------------------------------------------------------------------
HeldBy(call) == call.held \cup (IF call.phase = "written" THEN {call.target} ELSE {})

\* What a request in flight may rely on.
Safe(c, call) ==
  /\ call.phase # "closed" => call.target \in Admins
  /\ call.held # {} => call.phase \in {"lock", "write", "written"}
  /\ call.phase = "lock" => call.target \notin call.found
  /\ \A x \in call.held : x # call.target /\ Active(x)
  /\ call.phase \in {"write", "written"} =>
       \/ call.held # {}
       \/ call.op = "update" /\ (call.active \/ call.target = ActorOf[c])
  /\ call.phase = "written" => Exists(call.target)

OneHolder == \A c, d \in Consoles : c # d => Held(c) \cap Held(d) = {}

\* Who is let in is somebody.
LoginsName(table) == \A d \in Devices : table[d].active => table[d].account \in Admins

IInv == /\ TypeOK
        /\ LoginsName(logins)
        /\ \A c \in Consoles : Safe(c, calls[c])
        /\ OneHolder
        /\ LockMatchesFailures
        /\ SomeAdminActive
-----------------------------------------------------------------------------
\* A request that goes on, and writes nothing.
LEMMA GoesOn ==
  ASSUME IInv, NEW c \in Consoles, NEW call \in CallRows,
         UNCHANGED <<accounts, logins>>, calls' = [calls EXCEPT ![c] = call],
         Safe(c, call), \A d \in Consoles \ {c} : HeldBy(call) \cap Held(d) = {},
         signedIn' \subseteq Admins
  PROVE  IInv'
<1>1. TypeOK'
  BY DEF IInv, TypeOK
<1>2. ASSUME NEW d \in Consoles PROVE Safe(d, calls[d])'
  <2>1. Safe(d, calls'[d]) /\ accounts' = accounts
    BY DEF IInv, TypeOK
  <2> QED BY <2>1 DEF Safe, Active, Exists
<1>3. ASSUME NEW d \in Consoles, NEW e \in Consoles, d # e PROVE (Held(d) \cap Held(e) = {})'
  <2>1. Held(d)' = (IF d = c THEN HeldBy(call) ELSE Held(d))
    BY DEF IInv, TypeOK, Held, HeldBy
  <2>2. Held(e)' = (IF e = c THEN HeldBy(call) ELSE Held(e))
    BY DEF IInv, TypeOK, Held, HeldBy
  <2> QED BY <1>3, <2>1, <2>2 DEF IInv, OneHolder
<1>4. (LockMatchesFailures /\ SomeAdminActive)'
  BY DEF IInv, LockMatchesFailures, SomeAdminActive, Active, Exists
<1> QED BY <1>1, <1>2, <1>3, <1>4 DEF IInv, OneHolder, LoginsName

\* A row is written that keeps its account and its status.
LEMMA RowWritten ==
  ASSUME IInv, NEW a \in Admins, NEW row \in Rows, Exists(a),
         row.active = accounts[a].active, row.lock = LockFor(row.failed),
         accounts' = [accounts EXCEPT ![a] = row], UNCHANGED calls,
         signedIn' \subseteq Admins,
         logins' \in [Devices -> [account : Admins \cup {None}, failed : 0 .. MaxFailures,
                                  dirty : BOOLEAN, active : BOOLEAN]],
         LoginsName(logins')
  PROVE  IInv'
<1>1. row # None
  BY AccountsAssumption
<1>2. TypeOK'
  BY DEF IInv, TypeOK
<1>3. \A x \in Admins : (Exists(x) <=> Exists(x)') /\ (Active(x) <=> Active(x)')
  BY <1>1 DEF IInv, TypeOK, Exists, Active
<1>4. ASSUME NEW d \in Consoles PROVE Safe(d, calls[d])'
  <2>1. Safe(d, calls[d]) /\ calls[d] \in CallRows /\ calls' = calls
    BY DEF IInv, TypeOK
  <2> QED BY <1>3, <2>1 DEF Safe, CallRows
<1>5. OneHolder'
  BY DEF IInv, OneHolder, Held
<1>6. LockMatchesFailures'
  BY <1>1 DEF IInv, TypeOK, LockMatchesFailures, Exists
<1>7. SomeAdminActive'
  BY <1>3 DEF IInv, SomeAdminActive
<1> QED BY <1>2, <1>4, <1>5, <1>6, <1>7 DEF IInv, LoginsName

\* An account without failures is not locked out.
LEMMA NoFailuresNoLock == LockFor(0) = 0 /\ 0 \in 0 .. MaxFailures
BY AccountsAssumption DEF LockFor

LEMMA ClearedRow ==
  ASSUME NEW row \in Rows
  PROVE  /\ Cleared(row) \in Rows
         /\ Cleared(row).active = row.active
         /\ Cleared(row).lock = LockFor(Cleared(row).failed)
BY NoFailuresNoLock DEF Cleared, Rows
-----------------------------------------------------------------------------
LEMMA LoginsKeep ==
  ASSUME IInv, NEW d \in Devices,
         \/ \E a \in Admins : LoginRead(d, a)
         \/ LoginWrong(d) \/ LoginRight(d) \/ LoginRefused(d)
  PROVE  IInv'
<1> DEFINE LoginRows == [account : Admins \cup {None}, failed : 0 .. MaxFailures,
                         dirty : BOOLEAN, active : BOOLEAN]
<1>1. /\ accounts \in [Admins -> Rows \cup {None}] /\ signedIn \subseteq Admins
      /\ logins \in [Devices -> LoginRows] /\ LoginsName(logins)
  BY DEF IInv, TypeOK
<1>2. NoLogin \in LoginRows /\ ~NoLogin.active
  BY NoFailuresNoLock DEF NoLogin
<1>3. ASSUME UNCHANGED <<accounts, calls>>, signedIn' \subseteq Admins,
             logins' \in [Devices -> LoginRows], LoginsName(logins')
      PROVE  IInv'
  <2>1. TypeOK'
    BY <1>3 DEF IInv, TypeOK
  <2> QED BY <1>3, <2>1 DEF IInv, LoginsName, Safe, OneHolder, Held, LockMatchesFailures,
      SomeAdminActive,
                           Active, Exists
<1>4. CASE \E a \in Admins : LoginRead(d, a)
  <2>1. PICK a \in Admins : LoginRead(d, a)
    BY <1>4
  <2>2. accounts[a] \in Rows
    BY <1>1, <2>1 DEF LoginRead, Exists
  <2> DEFINE login == [account |-> a, failed |-> accounts[a].failed, active |-> accounts[a].active,
                       dirty |-> accounts[a].failed > 0 \/ accounts[a].lock > 0]
  <2>3. login \in LoginRows
    BY <2>2 DEF Rows
  <2>4. logins' = [logins EXCEPT ![d] = login]
    BY <2>1 DEF LoginRead
  <2>5. LoginsName(logins') /\ logins' \in [Devices -> LoginRows]
    BY <1>1, <2>3, <2>4 DEF LoginsName
  <2> QED BY <1>1, <1>3, <2>1, <2>5 DEF LoginRead
<1>5. CASE LoginWrong(d)
  <2> DEFINE login == logins[d]
             failures == login.failed + 1
             a == login.account
  <2>1. /\ login \in LoginRows /\ logins' \in [Devices -> LoginRows] /\ signedIn' \subseteq Admins
        /\ LoginsName(logins')
    BY <1>1, <1>2, <1>5 DEF LoginWrong, LoginsName
  <2>2. CASE a \notin Admins \/ ~Exists(a)
    <3>1. accounts' = accounts
      BY <1>1, <1>5, <2>2 DEF LoginWrong
    <3> QED BY <1>3, <1>5, <2>1, <3>1 DEF LoginWrong
  <2>3. CASE a \in Admins /\ Exists(a)
    <3> DEFINE row == [accounts[a] EXCEPT !.failed = failures, !.lock = LockFor(failures)]
    <3>1. accounts[a] \in Rows
      BY <1>1, <2>3 DEF Exists
    <3>2. failures \in 0 .. MaxFailures
      BY <1>5, <2>1, AccountsAssumption DEF LoginWrong
    <3>3. row \in Rows /\ row.active = accounts[a].active /\ row.lock = LockFor(row.failed)
      <4> HIDE DEF failures
      <4> QED BY <3>1, <3>2 DEF Rows
    <3>4. accounts' = [accounts EXCEPT ![a] = row] /\ calls' = calls
      BY <1>5, <2>3 DEF LoginWrong
    <3> QED BY <2>1, <2>3, <3>3, <3>4, RowWritten
  <2> QED BY <2>2, <2>3
<1>6. CASE LoginRight(d)
  <2> DEFINE a == logins[d].account
  <2>1. /\ logins[d] \in LoginRows /\ logins' \in [Devices -> LoginRows] /\ calls' = calls
        /\ LoginsName(logins')
    BY <1>1, <1>2, <1>6 DEF LoginRight, LoginsName
  <2>2. CASE a \in Admins /\ Exists(a) /\ logins[d].dirty
    <3>1. accounts[a] \in Rows /\ signedIn' \subseteq Admins
      BY <1>1, <1>6, <2>2 DEF Exists, LoginRight
    <3>2. accounts' = [accounts EXCEPT ![a] = Cleared(accounts[a])]
      BY <1>6, <2>2 DEF LoginRight
    <3> QED BY <2>1, <2>2, <3>1, <3>2, ClearedRow, RowWritten
  <2>3. CASE a \in Admins /\ ~(Exists(a) /\ logins[d].dirty)
    <3>1. accounts' = accounts /\ signedIn' \subseteq Admins
      BY <1>1, <1>6, <2>3 DEF LoginRight
    <3> QED BY <1>3, <2>1, <3>1
  <2>4. a \in Admins
    BY <1>1, <1>6 DEF LoginRight, LoginsName
  <2> QED BY <2>2, <2>3, <2>4
<1>7. CASE LoginRefused(d)
  <2>1. LoginsName(logins') /\ logins' \in [Devices -> LoginRows]
    BY <1>1, <1>2, <1>7 DEF LoginRefused, LoginsName
  <2> QED BY <1>1, <1>3, <1>7, <2>1 DEF LoginRefused
<1> QED BY <1>4, <1>5, <1>6, <1>7

LEMMA PasswordKeeps ==
  ASSUME IInv, NEW a \in Admins, ChangePassword(a)
  PROVE  IInv'
<1>1. accounts[a] \in Rows /\ Exists(a)
  BY DEF IInv, TypeOK, ChangePassword, Exists
<1>2. /\ accounts' = [accounts EXCEPT ![a] = Cleared(accounts[a])]
      /\ calls' = calls /\ logins' = logins /\ signedIn' = signedIn
  BY DEF ChangePassword
<1>3. LoginsName(logins') /\ signedIn' \subseteq Admins
      /\ logins' \in [Devices -> [account : Admins \cup {None}, failed : 0 .. MaxFailures,
                                  dirty : BOOLEAN, active : BOOLEAN]]
  BY <1>2 DEF IInv, TypeOK
<1> QED BY <1>1, <1>2, <1>3, ClearedRow, RowWritten
-----------------------------------------------------------------------------
\* A transaction writes the row it holds, or a row nobody can hold, and with it
\* gives up what it held.
LEMMA RowReplaced ==
  ASSUME IInv, NEW c \in Consoles, NEW a \in Admins, NEW row \in Rows \cup {None},
         NEW call \in CallRows, call.held = {}, call.phase \in {"closed", "revoke"},
         call.phase = "revoke" => call.target \in Admins,
         row # None => row.lock = LockFor(row.failed),
         accounts' = [accounts EXCEPT ![a] = row], calls' = [calls EXCEPT ![c] = call],
         UNCHANGED logins, signedIn' \subseteq Admins,
         \A d \in Consoles \ {c} : a \notin Held(d),
         SomeAdminActive'
  PROVE  IInv'
<1>1. TypeOK'
  BY DEF IInv, TypeOK
<1>2. \A x \in Admins \ {a} : (Exists(x) <=> Exists(x)') /\ (Active(x) <=> Active(x)')
  BY DEF IInv, TypeOK, Exists, Active
<1>3. ASSUME NEW d \in Consoles PROVE Safe(d, calls[d])'
  <2>1. CASE d = c
    <3>1. calls'[d] = call
      BY <2>1 DEF IInv, TypeOK
    <3> QED BY <3>1 DEF Safe
  <2>2. CASE d # c
    <3>1. calls'[d] = calls[d] /\ Safe(d, calls[d]) /\ calls[d] \in CallRows /\ a \notin Held(d)
      BY <2>2 DEF IInv, TypeOK
    <3> QED BY <1>2, <3>1 DEF Safe, CallRows, Held
  <2> QED BY <2>1, <2>2
<1>4. ASSUME NEW d \in Consoles, NEW e \in Consoles, d # e PROVE (Held(d) \cap Held(e) = {})'
  <2>1. \A x \in Consoles : Held(x)' = (IF x = c THEN {} ELSE Held(x))
    BY DEF IInv, TypeOK, Held
  <2> QED BY <1>4, <2>1 DEF IInv, OneHolder
<1>5. LockMatchesFailures'
  BY DEF IInv, TypeOK, LockMatchesFailures, Exists
<1> QED BY <1>1, <1>3, <1>4, <1>5 DEF IInv, OneHolder, LoginsName

LEMMA Closed ==
  /\ NoCall \in CallRows
  /\ NoCall.phase = "closed" /\ NoCall.held = {}
  /\ \A c \in Consoles : Safe(c, NoCall) /\ HeldBy(NoCall) = {}
BY DEF NoCall, CallRows, Safe, HeldBy

\* A dialog that is open, on any account.
LEMMA Opened ==
  ASSUME NEW c \in Consoles, NEW op \in {"create", "update", "delete", None}, NEW a \in Admins
  PROVE  LET call == [NoCall EXCEPT !.phase = "open", !.op = op, !.target = a]
         IN  call \in CallRows /\ Safe(c, call) /\ HeldBy(call) = {}
<1> DEFINE call == [NoCall EXCEPT !.phase = "open", !.op = op, !.target = a]
<1>1. call \in CallRows /\ call.held = {} /\ call.phase = "open" /\ call.target = a
  BY Closed DEF CallRows
<1> QED BY <1>1 DEF Safe, HeldBy

LEMMA CloseKeeps ==
  ASSUME IInv, NEW c \in Consoles, Close(c), UNCHANGED <<accounts, logins>>, signedIn' \subseteq Admins
  PROVE  IInv'
BY Closed, GoesOn DEF Close, Go

LEMMA FailKeeps ==
  ASSUME IInv, NEW c \in Consoles, Fail(c), calls[c].phase # "closed",
         UNCHANGED <<accounts, signedIn, logins>>
  PROVE  IInv'
<1> DEFINE a == calls[c].target
           op == calls[c].op
           call == [NoCall EXCEPT !.phase = "open", !.op = op, !.target = a]
<1>1. a \in Admins /\ op \in {"create", "update", "delete", None} /\ signedIn' \subseteq Admins
  BY DEF IInv, TypeOK, Safe, CallRows
<1>2. calls' = [calls EXCEPT ![c] = call]
  BY DEF Fail, Go
<1>3. call \in CallRows /\ Safe(c, call) /\ HeldBy(call) = {}
  <2> HIDE DEF a, op
  <2> QED BY <1>1, Opened
<1> HIDE DEF call
<1> QED BY <1>1, <1>2, <1>3, GoesOn

\* What is known of a request before its step.
LEMMA Known ==
  ASSUME IInv, NEW c \in Consoles
  PROVE  /\ calls[c] \in CallRows /\ Safe(c, calls[c]) /\ signedIn \subseteq Admins
         /\ Held(c) = HeldBy(calls[c])
         /\ \A d \in Consoles \ {c} : HeldBy(calls[c]) \cap Held(d) = {}
BY DEF IInv, TypeOK, OneHolder, Held, HeldBy
-----------------------------------------------------------------------------
LEMMA OpenKeeps ==
  ASSUME IInv, NEW c \in Consoles, NEW op \in {"create", "update", "delete"}, NEW a \in Admins,
         Open(c, op, a)
  PROVE  IInv'
<1> DEFINE call == [NoCall EXCEPT !.phase = "open", !.op = op, !.target = a]
<1>1. call \in CallRows /\ Safe(c, call) /\ HeldBy(call) = {}
  BY Opened
<1>2. calls' = [calls EXCEPT ![c] = call] /\ UNCHANGED <<accounts, signedIn, logins>>
  BY DEF Open, Go
<1> HIDE DEF call
<1> QED BY <1>1, <1>2, Known, GoesOn

LEMMA CreateKeeps ==
  ASSUME IInv, NEW c \in Consoles, SubmitCreate(c)
  PROVE  IInv'
<1> DEFINE a == calls[c].target
<1>1. a \in Admins
  BY Known DEF SubmitCreate, Safe
<1>2. CASE Exists(a)
  <2>1. UNCHANGED vars
    BY <1>2 DEF SubmitCreate, vars
  <2> QED BY <2>1 DEF vars, IInv, TypeOK, LoginsName, Safe, OneHolder, Held,
      LockMatchesFailures, SomeAdminActive,
                      Active, Exists
<1>3. CASE ~Exists(a)
  <2>1. /\ accounts' = [accounts EXCEPT ![a] = NewRow] /\ signedIn' = signedIn \ {a}
        /\ calls' = [calls EXCEPT ![c] = NoCall] /\ logins' = logins
    BY <1>3 DEF SubmitCreate, Close, Go
  <2>2. NewRow \in Rows /\ NewRow.lock = LockFor(NewRow.failed) /\ NewRow.active
    BY NoFailuresNoLock DEF NewRow, Rows
  <2>3. \A d \in Consoles : a \notin Held(d)
    BY <1>3, Known DEF Safe, Held, Active
  <2>4. SomeAdminActive'
    BY <1>1, <2>1, <2>2, AccountsAssumption DEF IInv, TypeOK, SomeAdminActive, Active, Exists
  <2>5. signedIn' \subseteq Admins
    BY <2>1, Known
  <2> QED BY <1>1, <2>1, <2>2, <2>3, <2>4, <2>5, Closed, RowReplaced
<1> QED BY <1>2, <1>3

LEMMA UpdateKeeps ==
  ASSUME IInv, NEW c \in Consoles, NEW form \in Entered(c), SubmitUpdate(c, form)
  PROVE  IInv'
<1> DEFINE a == calls[c].target
           guarded == ~form.active /\ ~Self(c)
           call == [calls[c] EXCEPT !.active = form.active, !.reset = form.reset,
                      !.phase = IF guarded THEN "lock" ELSE "write",
                      !.found = IF guarded THEN OtherAdmins(a) ELSE {}]
<1>1. /\ a \in Admins /\ calls[c].held = {} /\ calls[c].phase = "open" /\ calls[c].op = "update"
      /\ calls[c] \in CallRows
  BY Known DEF SubmitUpdate, Safe
<1>2. CASE ~Exists(a)
  BY <1>1, <1>2, FailKeeps DEF SubmitUpdate
<1>3. CASE Exists(a)
  <2>1. calls' = [calls EXCEPT ![c] = call] /\ UNCHANGED <<accounts, signedIn, logins>>
    BY <1>3 DEF SubmitUpdate, Go
  <2>2. OtherAdmins(a) \subseteq Admins \ {a} /\ form \in [active : BOOLEAN, reset : BOOLEAN]
    BY DEF OtherAdmins, Entered
  <2>3. /\ call \in CallRows /\ call.held = {} /\ call.target = a /\ call.op = "update"
        /\ call.phase = (IF guarded THEN "lock" ELSE "write") /\ call.active = form.active
        /\ call.found = (IF guarded THEN OtherAdmins(a) ELSE {})
    BY <1>1, <2>2 DEF CallRows
  <2>4. Safe(c, call) /\ HeldBy(call) = {}
    <3> HIDE DEF call
    <3> QED BY <1>1, <2>2, <2>3 DEF Safe, HeldBy, Self
  <2> HIDE DEF call
  <2> QED BY <2>1, <2>3, <2>4, Known, GoesOn
<1> QED BY <1>2, <1>3

\* A request that only moves on to its next statement.
LEMMA ToKeeps ==
  ASSUME IInv, NEW c \in Consoles, NEW phase \in {"revoke", "lock", "write", "written", "blocked"},
         To(c, phase), Safe(c, [calls[c] EXCEPT !.phase = phase]),
         \A d \in Consoles \ {c} : HeldBy([calls[c] EXCEPT !.phase = phase]) \cap Held(d) = {},
         UNCHANGED <<accounts, signedIn, logins>>
  PROVE  IInv'
<1> DEFINE call == [calls[c] EXCEPT !.phase = phase]
<1>1. call \in CallRows
  BY Known DEF CallRows
<1>2. calls' = [calls EXCEPT ![c] = call] /\ Safe(c, call)
      /\ \A d \in Consoles \ {c} : HeldBy(call) \cap Held(d) = {}
  BY DEF To, Go
<1> HIDE DEF call
<1> QED BY <1>1, <1>2, Known, GoesOn

LEMMA DeleteKeeps ==
  ASSUME IInv, NEW c \in Consoles, SubmitDelete(c)
  PROVE  IInv'
<1>1. calls[c].phase = "open" /\ calls[c] \in CallRows /\ Safe(c, calls[c])
  BY Known DEF SubmitDelete
<1>2. CASE Fail(c)
  BY <1>1, <1>2, FailKeeps DEF SubmitDelete
<1>3. CASE To(c, "revoke")
  <2>1. Safe(c, [calls[c] EXCEPT !.phase = "revoke"]) /\ HeldBy([calls[c] EXCEPT !.phase = "revoke"]) = {}
    BY <1>1 DEF Safe, HeldBy, CallRows
  <2> QED BY <1>3, <2>1, ToKeeps DEF SubmitDelete
<1> QED BY <1>2, <1>3 DEF SubmitDelete
-----------------------------------------------------------------------------
LEMMA LockKeeps ==
  ASSUME IInv, NEW c \in Consoles, NEW a \in Admins, Lock(c, a)
  PROVE  IInv'
<1> DEFINE call == [calls[c] EXCEPT !.found = @ \ {a}, !.held = IF Active(a) THEN @ \cup {a} ELSE @]
<1>1. calls[c] \in CallRows /\ Safe(c, calls[c]) /\ calls[c].phase = "lock" /\ a \in calls[c].found
  BY Known DEF Lock
<1>2. /\ call \in CallRows /\ call.phase = "lock" /\ call.target = calls[c].target
      /\ call.found = calls[c].found \ {a}
      /\ call.held = (IF Active(a) THEN calls[c].held \cup {a} ELSE calls[c].held)
  BY <1>1 DEF CallRows
<1>3. calls' = [calls EXCEPT ![c] = call] /\ UNCHANGED <<accounts, signedIn, logins>>
  BY DEF Lock, Go
<1> HIDE DEF call
<1>4. Safe(c, call)
  BY <1>1, <1>2 DEF Safe
<1>5. \A d \in Consoles \ {c} : HeldBy(call) \cap Held(d) = {}
  <2>1. HeldBy(call) \subseteq HeldBy(calls[c]) \cup {a}
    BY <1>1, <1>2 DEF HeldBy
  <2>2. \A d \in Consoles \ {c} : a \notin Held(d)
    BY DEF Lock, Free
  <2> QED BY <2>1, <2>2, Known
<1> QED BY <1>2, <1>3, <1>4, <1>5, Known, GoesOn

LEMMA CountKeeps ==
  ASSUME IInv, NEW c \in Consoles, Count(c)
  PROVE  IInv'
<1>1. calls[c] \in CallRows /\ Safe(c, calls[c]) /\ calls[c].phase = "lock"
  BY Known DEF Count
<1>2. CASE Fail(c)
  BY <1>1, <1>2, FailKeeps DEF Count
<1>3. CASE calls[c].held # {} /\ To(c, "write")
  <2>1. /\ Safe(c, [calls[c] EXCEPT !.phase = "write"])
        /\ HeldBy([calls[c] EXCEPT !.phase = "write"]) = HeldBy(calls[c])
    BY <1>1, <1>3 DEF Safe, HeldBy, CallRows
  <2> QED BY <1>3, <2>1, Known, ToKeeps DEF Count
<1>4. CASE calls[c].held = {} /\ To(c, "blocked")
  <2>1. Safe(c, [calls[c] EXCEPT !.phase = "blocked"]) /\ HeldBy([calls[c] EXCEPT !.phase = "blocked"]) = {}
    BY <1>1, <1>4 DEF Safe, HeldBy, CallRows
  <2> QED BY <1>4, <2>1, ToKeeps DEF Count
<1> QED BY <1>2, <1>3, <1>4 DEF Count

LEMMA WriteKeeps ==
  ASSUME IInv, NEW c \in Consoles, Write(c)
  PROVE  IInv'
<1>1. calls[c] \in CallRows /\ Safe(c, calls[c]) /\ calls[c].phase = "write"
  BY Known DEF Write
<1>2. CASE Fail(c)
  BY <1>1, <1>2, FailKeeps DEF Write
<1>3. CASE Exists(calls[c].target) /\ To(c, "written")
  <2>1. /\ Safe(c, [calls[c] EXCEPT !.phase = "written"])
        /\ HeldBy([calls[c] EXCEPT !.phase = "written"]) = HeldBy(calls[c]) \cup {calls[c].target}
    BY <1>1, <1>3 DEF Safe, HeldBy, CallRows
  <2>2. \A d \in Consoles \ {c} : calls[c].target \notin Held(d)
    BY DEF Write, Free
  <2>3. \A d \in Consoles \ {c} : HeldBy([calls[c] EXCEPT !.phase = "written"]) \cap Held(d) = {}
    BY <2>1, <2>2, Known
  <2> QED BY <1>3, <2>1, <2>3, ToKeeps DEF Write
<1> QED BY <1>2, <1>3 DEF Write

\* The heart of it: an admin is left to sign in.
LEMMA CommitKeeps ==
  ASSUME IInv, NEW c \in Consoles, Commit(c)
  PROVE  IInv'
<1> DEFINE old == calls[c]
           a == old.target
           row == accounts[a]
           call == IF old.op = "update" /\ (old.reset \/ (~old.active /\ ~Self(c)))
                   THEN [old EXCEPT !.phase = "revoke", !.held = {}] ELSE NoCall
<1>1. /\ old \in CallRows /\ Safe(c, old) /\ old.phase = "written" /\ a \in Admins /\ Exists(a)
  BY Known DEF Commit, Safe
<1>2. row \in Rows /\ row.lock = LockFor(row.failed)
  BY <1>1 DEF IInv, TypeOK, Exists, LockMatchesFailures
<1>3. /\ accounts' = [accounts EXCEPT ![a] = Outcome(c)] /\ calls' = [calls EXCEPT ![c] = call]
      /\ UNCHANGED <<signedIn, logins>>
  BY DEF Commit, Close, Go
<1>4. /\ call \in CallRows /\ call.held = {} /\ call.phase \in {"closed", "revoke"}
      /\ call.phase = "revoke" => call.target \in Admins
  <2>1. [old EXCEPT !.phase = "revoke", !.held = {}] \in CallRows
    BY <1>1 DEF CallRows
  <2>2. /\ [old EXCEPT !.phase = "revoke", !.held = {}].held = {}
        /\ [old EXCEPT !.phase = "revoke", !.held = {}].phase = "revoke"
        /\ [old EXCEPT !.phase = "revoke", !.held = {}].target = a
    BY <1>1 DEF CallRows
  <2> QED BY <1>1, <2>1, <2>2, Closed
<1>5. old.op # "delete" =>
        /\ Outcome(c) \in Rows /\ Outcome(c).lock = LockFor(Outcome(c).failed)
        /\ Outcome(c).active = (IF Self(c) THEN row.active ELSE old.active)
  <2> DEFINE base == IF old.reset THEN Cleared(row) ELSE row
             kept == IF Self(c) THEN base.active ELSE old.active
  <2>1. base \in Rows /\ base.lock = LockFor(base.failed) /\ base.active = row.active
    BY <1>2, ClearedRow
  <2>2. kept \in BOOLEAN
    BY <1>1, <2>1 DEF CallRows, Rows
  <2>3. old.op # "delete" => Outcome(c) = [base EXCEPT !.active = kept]
    BY <2>1 DEF Outcome, Rows
  <2> HIDE DEF base
  <2>4. [base EXCEPT !.active = kept] \in Rows
    <3> HIDE DEF kept
    <3> QED BY <2>1, <2>2 DEF Rows
  <2>5. /\ [base EXCEPT !.active = kept].lock = base.lock
        /\ [base EXCEPT !.active = kept].failed = base.failed
        /\ [base EXCEPT !.active = kept].active = kept
    <3> HIDE DEF kept
    <3> QED BY <2>1 DEF Rows
  <2> QED BY <2>1, <2>3, <2>4, <2>5
<1>6. Outcome(c) \in Rows \cup {None} /\ (Outcome(c) # None => Outcome(c).lock = LockFor(Outcome(c).failed))
  BY <1>5 DEF Outcome
<1>7. \A d \in Consoles \ {c} : a \notin Held(d)
  BY <1>1, Known DEF HeldBy
<1>8. SomeAdminActive'
  <2>1. \A x \in Admins \ {a} : Active(x) => Active(x)'
    BY <1>1, <1>3 DEF IInv, TypeOK, Active, Exists
  <2>2. CASE old.held # {}
    <3>1. PICK x \in old.held : x # a /\ Active(x)
      BY <1>1, <2>2 DEF Safe
    <3>2. x \in Admins
      BY <1>1 DEF CallRows
    <3> QED BY <2>1, <3>1, <3>2 DEF SomeAdminActive
  <2>3. CASE old.held = {}
    <3>1. old.op = "update" /\ (old.active \/ Self(c))
      BY <1>1, <2>3 DEF Safe, Self
    <3>2. PICK y \in Admins : Active(y)
      BY DEF IInv, SomeAdminActive
    <3>3. CASE y # a
      BY <2>1, <3>2, <3>3 DEF SomeAdminActive
    <3>4. CASE y = a
      <4>1. Outcome(c) \in Rows /\ Outcome(c).active
        BY <1>5, <3>1, <3>2, <3>4 DEF Active
      <4>2. accounts'[a] = Outcome(c) /\ Outcome(c) # None
        BY <1>1, <1>3, <4>1, AccountsAssumption DEF IInv, TypeOK
      <4> QED BY <1>1, <4>1, <4>2 DEF SomeAdminActive, Active, Exists
    <3> QED BY <3>3, <3>4
  <2> QED BY <2>2, <2>3
<1>9. signedIn' \subseteq Admins /\ logins' = logins
  BY <1>3, Known
<1> HIDE DEF call
<1> QED BY <1>1, <1>3, <1>4, <1>6, <1>7, <1>8, <1>9, RowReplaced

LEMMA RevokeKeeps ==
  ASSUME IInv, NEW c \in Consoles, Revoke(c)
  PROVE  IInv'
<1> DEFINE call == [calls[c] EXCEPT !.phase = "lock", !.found = OtherAdmins(calls[c].target)]
<1>1. calls[c] \in CallRows /\ Safe(c, calls[c]) /\ calls[c].phase = "revoke" /\ calls[c].held = {}
  BY Known DEF Revoke, Safe
<1>2. signedIn' \subseteq Admins /\ UNCHANGED <<accounts, logins>>
  BY Known DEF Revoke
<1>3. CASE Close(c)
  BY <1>2, <1>3, CloseKeeps
<1>4. CASE Go(c, call)
  <2>1. OtherAdmins(calls[c].target) \subseteq Admins \ {calls[c].target}
    BY DEF OtherAdmins
  <2>2. /\ call \in CallRows /\ call.held = {} /\ call.phase = "lock" /\ call.target = calls[c].target
        /\ call.found = OtherAdmins(calls[c].target)
    BY <1>1, <2>1 DEF CallRows
  <2>3. calls' = [calls EXCEPT ![c] = call]
    BY <1>4 DEF Go
  <2> HIDE DEF call
  <2>4. Safe(c, call) /\ HeldBy(call) = {}
    BY <1>1, <2>1, <2>2 DEF Safe, HeldBy
  <2> QED BY <1>2, <2>2, <2>3, <2>4, GoesOn
<1> QED BY <1>3, <1>4 DEF Revoke
-----------------------------------------------------------------------------
LEMMA InitIInv == Init => IInv
<1> SUFFICES ASSUME Init PROVE IInv
  OBVIOUS
<1>1. NewRow \in Rows /\ NewRow # None /\ NewRow.active /\ NewRow.lock = LockFor(NewRow.failed)
  <2>1. NewRow \in Rows /\ NewRow.active /\ NewRow.lock = LockFor(NewRow.failed)
    BY NoFailuresNoLock DEF NewRow, Rows
  <2> QED BY <2>1, AccountsAssumption
<1>2. NoLogin \in [account : Admins \cup {None}, failed : 0 .. MaxFailures, dirty : BOOLEAN, active : BOOLEAN]
      /\ ~NoLogin.active
  BY NoFailuresNoLock DEF NoLogin
<1>3. TypeOK /\ LoginsName(logins)
  BY <1>1, <1>2, Closed DEF Init, TypeOK, LoginsName
<1>4. \A c \in Consoles : Safe(c, calls[c]) /\ Held(c) = {}
  BY Closed DEF Init, Held, HeldBy
<1>5. LockMatchesFailures /\ SomeAdminActive
  BY <1>1, AccountsAssumption DEF Init, LockMatchesFailures, SomeAdminActive, Active, Exists
<1> QED BY <1>3, <1>4, <1>5 DEF IInv, OneHolder

LEMMA Inductive == IInv /\ [Next]_vars => IInv'
<1> SUFFICES ASSUME IInv, [Next]_vars PROVE IInv'
  OBVIOUS
<1>1. ASSUME NEW c \in Consoles, Progress(c) PROVE IInv'
  <2>1. CASE Deadlock(c)
    BY <2>1, FailKeeps DEF Deadlock, Circle, Stuck, WaitsFor
  <2> QED BY <1>1, <2>1, LockKeeps, CountKeeps, WriteKeeps, CommitKeeps, RevokeKeeps DEF Progress
<1>2. ASSUME NEW c \in Consoles, AdminsPage(c) PROVE IInv'
  <2>1. CASE Cancel(c)
    BY <2>1, Known, CloseKeeps DEF Cancel
  <2> QED BY <1>2, <2>1, OpenKeeps, CreateKeeps, UpdateKeeps, DeleteKeeps DEF AdminsPage
<1>3. CASE UNCHANGED vars
  BY <1>3 DEF vars, IInv, TypeOK, LoginsName, Safe, OneHolder, Held, LockMatchesFailures,
      SomeAdminActive,
              Active, Exists
<1> QED BY <1>1, <1>2, <1>3, LoginsKeep, PasswordKeeps DEF Next

\* The tables hold what their types say, for any number of admins, consoles and
\* devices.
THEOREM TypesHold == Spec => []TypeOK
<1>1. IInv => TypeOK
  BY DEF IInv
<1> QED BY <1>1, InitIInv, Inductive, PTL DEF Spec

\* However many admins delete and suspend each other at once, one who can sign
\* in is left (countOtherActiveAdmins() and the trigger of keep_one_admin).
THEOREM PlatformKeepsAnAdmin == Spec => []SomeAdminActive
<1>1. IInv => SomeAdminActive
  BY DEF IInv
<1> QED BY <1>1, InitIInv, Inductive, PTL DEF Spec

\* However the sign-ins, resets and failed attempts interleave, a lockout is
\* the one its count stands for (recordFailedLogin, setPassword).
THEOREM LockoutIsItsCount == Spec => []LockMatchesFailures
<1>1. IInv => LockMatchesFailures
  BY DEF IInv
<1> QED BY <1>1, InitIInv, Inductive, PTL DEF Spec
-----------------------------------------------------------------------------
\* The sessions.

\* A family is named by its first token.
FamiliesAreOlder == \A t \in DOMAIN tokens : tokens[t].family \in 1 .. t

\* What a call in flight carries to its next statement.
Carries(call) ==
  /\ call.phase = "claim" => call.token # Null
  /\ call.phase = "claimed" => call.token # Null /\ Live(call.token)
  /\ call.phase = "issue" => call.user \in Users
  /\ call.phase = "revoke" =>
       /\ call.then \in {"refused", "signedOut", "ended", "issue", "revoked"}
       /\ call.then = "issue" => call.user \in Users

OneClaim ==
  \A c, d \in Clients :
    requests[c].phase = "claimed" /\ requests[d].phase = "claimed"
      /\ requests[c].token = requests[d].token
      => c = d

SessionInv == /\ SessionTypeOK
              /\ FamiliesAreOlder
              /\ \A c \in Clients : Carries(requests[c])
              /\ OneClaim
              /\ OneLivePerFamily
-----------------------------------------------------------------------------
\* A call that goes on to another statement, and leaves the table alone.
LEMMA CallGoesOn ==
  ASSUME SessionInv, NEW c \in Clients, NEW call \in RequestRows,
         tokens' = tokens, requests' = [requests EXCEPT ![c] = call],
         Carries(call), call.phase = "claimed" => ~Claimed(call.token),
         active' \subseteq Users,
         jars' \in [Browsers -> DOMAIN tokens \cup {Null}],
         pages' \in [Tabs -> {"login", "console"}]
  PROVE  SessionInv'
<1>1. SessionTypeOK'
  BY DEF SessionInv, SessionTypeOK, RequestRows
<1>2. FamiliesAreOlder'
  BY DEF SessionInv, FamiliesAreOlder
<1>3. ASSUME NEW d \in Clients PROVE Carries(requests[d])'
  <2>1. requests[d]' = (IF d = c THEN call ELSE requests[d])
    BY DEF SessionInv, SessionTypeOK
  <2>2. Carries(requests[d]')
    BY <2>1 DEF SessionInv
  <2> QED BY <2>2 DEF Carries, Live
<1>4. OneClaim'
  BY DEF SessionInv, SessionTypeOK, OneClaim, Claimed
<1>5. OneLivePerFamily'
  BY DEF SessionInv, OneLivePerFamily, Live
<1> QED BY <1>1, <1>2, <1>3, <1>4, <1>5 DEF SessionInv

\* No call carries anything.
LEMMA NoCallCarries == NoRequest \in RequestRows /\ Carries(NoRequest)
BY DEF NoRequest, RequestRows, Carries

\* The table only grows: what calls and cookies name stays there.
LEMMA GrowingKeepsTypes ==
  ASSUME SessionTypeOK, tokens' \in Seq(TokenRows), Len(tokens) <= Len(tokens')
  PROVE  /\ DOMAIN tokens \subseteq DOMAIN tokens'
         /\ RequestRows \subseteq RequestRows'
<1>1. DOMAIN tokens \subseteq DOMAIN tokens'
  BY DEF SessionTypeOK
<1> QED BY <1>1 DEF RequestRows

\* issueSession() inserts a token of a family nobody has used.
LEMMA IssueKeeps ==
  ASSUME SessionInv, NEW c \in Clients, Issue(c)
  PROVE  SessionInv'
<1> DEFINE id == Len(tokens) + 1
           new == NewToken(requests[c].user, id)
<1>1. requests[c].phase = "issue" /\ requests[c].user \in Users /\ Len(tokens) \in Nat
  BY DEF SessionInv, SessionTypeOK, Issue, Carries
<1>2. new \in TokenRows
  BY <1>1 DEF NewToken, TokenRows
<1>3. /\ tokens' \in Seq(TokenRows) /\ Len(tokens') = id /\ DOMAIN tokens' = 1 .. id
      /\ tokens'[id] = new /\ \A t \in DOMAIN tokens : tokens'[t] = tokens[t]
      /\ DOMAIN tokens = 1 .. Len(tokens)
  BY <1>1, <1>2 DEF SessionInv, SessionTypeOK, Issue
<1>4. DOMAIN tokens \subseteq DOMAIN tokens' /\ RequestRows \subseteq RequestRows'
  BY <1>1, <1>3, GrowingKeepsTypes DEF SessionInv
<1> DEFINE call == [NoRequest EXCEPT !.phase = "granted", !.token = id]
<1>5. call \in RequestRows' /\ requests' = [requests EXCEPT ![c] = call]
  <2>1. NoRequest \in RequestRows'
    BY <1>4, NoCallCarries
  <2>2. requests' = [requests EXCEPT ![c] = call]
    BY DEF Issue, Advance
  <2>3. id \in DOMAIN tokens' /\ {} \in SUBSET DOMAIN tokens'
    BY <1>1, <1>3
  <2> HIDE DEF id
  <2> QED BY <2>1, <2>2, <2>3 DEF RequestRows
<1>6. SessionTypeOK'
  BY <1>3, <1>4, <1>5 DEF SessionInv, SessionTypeOK, Issue
<1>7. FamiliesAreOlder'
  BY <1>1, <1>3 DEF SessionInv, FamiliesAreOlder, NewToken
<1>8. ASSUME NEW d \in Clients PROVE Carries(requests[d])'
  <2>1. CASE d = c
    BY <2>1, <1>5 DEF SessionInv, SessionTypeOK, Carries, NoRequest
  <2>2. CASE d # c
    <3>1. requests'[d] = requests[d] /\ requests[d] \in RequestRows /\ Carries(requests[d])
      BY <2>2, <1>5 DEF SessionInv, SessionTypeOK
    <3> QED BY <3>1, <1>3 DEF Carries, Live, RequestRows
  <2> QED BY <2>1, <2>2
<1>9. OneClaim'
  BY <1>5 DEF SessionInv, SessionTypeOK, OneClaim, NoRequest
<1>10. OneLivePerFamily'
  BY <1>1, <1>3 DEF SessionInv, OneLivePerFamily, FamiliesAreOlder, Live, NewToken
<1> QED BY <1>6, <1>7, <1>8, <1>9, <1>10 DEF SessionInv

\* What a commit replaces is its family's only live token.
LEMMA RefreshCommitKeeps ==
  ASSUME SessionInv, NEW c \in Clients, RefreshCommit(c)
  PROVE  SessionInv'
<1> DEFINE t == requests[c].token
           id == Len(tokens) + 1
           new == NewToken(tokens[t].user, tokens[t].family)
           spent == [tokens EXCEPT ![t].used = TRUE]
<1>1. /\ requests[c].phase = "claimed" /\ requests[c] \in RequestRows /\ Len(tokens) \in Nat
      /\ t \in DOMAIN tokens /\ Live(t) /\ DOMAIN tokens = 1 .. Len(tokens)
  BY DEF SessionInv, SessionTypeOK, RefreshCommit, Carries, RequestRows
<1>2. tokens \in Seq(TokenRows) /\ tokens[t] \in TokenRows /\ new \in TokenRows
  <2>1. tokens \in Seq(TokenRows) /\ tokens[t] \in TokenRows
    BY <1>1, ElementOfSeq DEF SessionInv, SessionTypeOK
  <2> QED BY <2>1 DEF NewToken, TokenRows
<1>3. spent \in Seq(TokenRows) /\ Len(spent) = Len(tokens)
  <2>1. [tokens[t] EXCEPT !.used = TRUE] \in TokenRows
    BY <1>2 DEF TokenRows
  <2>2. spent = [tokens EXCEPT ![t] = [tokens[t] EXCEPT !.used = TRUE]]
    BY <1>1
  <2> QED BY <1>1, <1>2, <2>1, <2>2, ExceptSeq
<1>4. /\ tokens' \in Seq(TokenRows) /\ Len(tokens') = id /\ DOMAIN tokens' = 1 .. id
      /\ tokens'[id] = new /\ \A s \in DOMAIN tokens : tokens'[s] = spent[s]
  BY <1>1, <1>2, <1>3 DEF RefreshCommit
<1>5. /\ tokens'[t].used /\ tokens'[t].family = tokens[t].family
      /\ \A s \in DOMAIN tokens \ {t} : tokens'[s] = tokens[s]
  BY <1>1, <1>2, <1>4 DEF SessionInv, SessionTypeOK, TokenRows
<1>6. DOMAIN tokens \subseteq DOMAIN tokens' /\ RequestRows \subseteq RequestRows'
  BY <1>1, <1>4, GrowingKeepsTypes DEF SessionInv
<1> DEFINE call == [requests[c] EXCEPT !.phase = "granted", !.token = id]
<1>7. call \in RequestRows' /\ requests' = [requests EXCEPT ![c] = call]
  <2>1. requests' = [requests EXCEPT ![c] = call]
    BY DEF RefreshCommit, Advance
  <2>2. id \in DOMAIN tokens' /\ requests[c] \in RequestRows'
    BY <1>1, <1>4, <1>6
  <2> HIDE DEF id
  <2> QED BY <2>1, <2>2 DEF RequestRows
<1>8. SessionTypeOK'
  BY <1>4, <1>6, <1>7 DEF SessionInv, SessionTypeOK, RefreshCommit
<1>9. FamiliesAreOlder'
  <2>1. ASSUME NEW s \in DOMAIN tokens PROVE tokens'[s].family \in 1 .. s
    BY <1>5 DEF SessionInv, FamiliesAreOlder
  <2>2. tokens'[id].family \in 1 .. id
    BY <1>1, <1>4 DEF SessionInv, FamiliesAreOlder, NewToken
  <2> QED BY <1>1, <1>4, <2>1, <2>2 DEF FamiliesAreOlder
<1>10. ASSUME NEW d \in Clients PROVE Carries(requests[d])'
  <2>1. CASE d = c
    BY <2>1, <1>1, <1>7 DEF SessionInv, SessionTypeOK, Carries, RequestRows
  <2>2. CASE d # c
    <3>1. requests'[d] = requests[d] /\ requests[d] \in RequestRows /\ Carries(requests[d])
      BY <2>2, <1>7 DEF SessionInv, SessionTypeOK
    <3>2. requests[d].phase = "claimed" => requests[d].token # t
      BY <2>2, <1>1 DEF SessionInv, OneClaim
    <3> QED BY <3>1, <3>2, <1>5 DEF Carries, Live, RequestRows
  <2> QED BY <2>1, <2>2
<1>11. OneClaim'
  BY <1>1, <1>7 DEF SessionInv, SessionTypeOK, OneClaim, RequestRows
<1>12. ASSUME NEW s \in DOMAIN tokens', Live(s)', tokens'[s].family = tokens[t].family
       PROVE  s = id
  BY <1>1, <1>4, <1>5, <1>12 DEF SessionInv, OneLivePerFamily, Live
<1>13. ASSUME NEW s \in DOMAIN tokens', NEW r \in DOMAIN tokens', Live(s)', Live(r)',
              tokens'[s].family = tokens'[r].family
       PROVE  s = r
  <2>1. CASE tokens'[s].family = tokens[t].family
    BY <2>1, <1>12, <1>13
  <2>2. CASE tokens'[s].family # tokens[t].family
    <3>1. s \in DOMAIN tokens \ {t} /\ r \in DOMAIN tokens \ {t}
      BY <2>2, <1>1, <1>4, <1>5, <1>13 DEF NewToken
    <3> QED BY <3>1, <1>5, <1>13 DEF SessionInv, OneLivePerFamily, Live
  <2> QED BY <2>1, <2>2
<1>14. OneLivePerFamily'
  BY <1>13 DEF OneLivePerFamily
<1> QED BY <1>8, <1>9, <1>10, <1>11, <1>14 DEF SessionInv

\* The UPDATE that revokes waits for the claims of its rows.
LEMMA RevokeRowsKeeps ==
  ASSUME SessionInv, NEW c \in Clients, RevokeRows(c)
  PROVE  SessionInv'
<1> DEFINE rows == requests[c].rows
<1>1. /\ requests[c].phase = "revoke" /\ requests[c] \in RequestRows /\ Len(tokens) \in Nat
      /\ DOMAIN tokens = 1 .. Len(tokens) /\ Carries(requests[c])
      /\ \A t \in rows : ~Claimed(t)
  BY DEF SessionInv, SessionTypeOK, RevokeRows
<1>2. /\ tokens' \in Seq(TokenRows) /\ DOMAIN tokens' = DOMAIN tokens
      /\ Len(tokens') = Len(tokens)
      /\ \A t \in DOMAIN tokens :
           /\ tokens'[t].family = tokens[t].family /\ tokens'[t].used = tokens[t].used
           /\ tokens'[t].revoked = (t \in rows \/ tokens[t].revoked)
  <2>1. tokens' = [t \in 1 .. Len(tokens) |->
                     IF t \in rows THEN [tokens[t] EXCEPT !.revoked = TRUE] ELSE tokens[t]]
    BY <1>1 DEF RevokeRows
  <2>2. \A t \in 1 .. Len(tokens) : tokens[t] \in TokenRows
    BY <1>1 DEF SessionInv, SessionTypeOK
  <2>3. \A t \in 1 .. Len(tokens) :
           (IF t \in rows THEN [tokens[t] EXCEPT !.revoked = TRUE] ELSE tokens[t]) \in TokenRows
    BY <2>2 DEF TokenRows
  <2>4. tokens' \in [1 .. Len(tokens) -> TokenRows]
    BY <2>1, <2>3
  <2>5. tokens' \in Seq(TokenRows)
    BY <1>1, <2>4, SeqDef
  <2>6. DOMAIN tokens' = 1 .. Len(tokens) /\ Len(tokens') = Len(tokens)
    BY <1>1, <2>4, <2>5, LenProperties
  <2>7. \A t \in DOMAIN tokens :
           /\ tokens'[t].family = tokens[t].family /\ tokens'[t].used = tokens[t].used
           /\ tokens'[t].revoked = (t \in rows \/ tokens[t].revoked)
    BY <1>1, <2>1, <2>2 DEF TokenRows
  <2> QED BY <1>1, <2>5, <2>6, <2>7
<1>3. RequestRows' = RequestRows
  BY <1>2 DEF RequestRows
<1> DEFINE call == IF requests[c].then = "revoked" THEN NoRequest
                   ELSE [requests[c] EXCEPT !.phase = requests[c].then, !.rows = {}]
<1>4. /\ call \in RequestRows /\ call.phase # "claimed"
      /\ Carries(call) /\ requests' = [requests EXCEPT ![c] = call]
  <2>1. call \in RequestRows
    BY <1>1 DEF Carries, NoRequest, RequestRows
  <2>2. call.phase # "claimed" /\ Carries(call)
    BY <1>1 DEF Carries, NoRequest, RequestRows
  <2> QED BY <2>1, <2>2 DEF RevokeRows, Advance
<1>5. SessionTypeOK'
  BY <1>2, <1>3, <1>4 DEF SessionInv, SessionTypeOK, RevokeRows
<1>6. FamiliesAreOlder'
  BY <1>2 DEF SessionInv, FamiliesAreOlder
<1>7. ASSUME NEW d \in Clients PROVE Carries(requests[d])'
  <2>1. CASE d = c
    BY <2>1, <1>4 DEF SessionInv, SessionTypeOK, Carries
  <2>2. CASE d # c
    <3>1. requests'[d] = requests[d] /\ requests[d] \in RequestRows /\ Carries(requests[d])
      BY <2>2, <1>4 DEF SessionInv, SessionTypeOK
    <3>2. requests[d].phase = "claimed" => requests[d].token \notin rows
      BY <1>1 DEF Claimed
    <3> QED BY <3>1, <3>2, <1>2 DEF Carries, Live, RequestRows
  <2> QED BY <2>1, <2>2
<1>8. OneClaim'
  BY <1>4 DEF SessionInv, SessionTypeOK, OneClaim
<1>9. OneLivePerFamily'
  BY <1>2 DEF SessionInv, OneLivePerFamily, Live
<1> QED BY <1>5, <1>6, <1>7, <1>8, <1>9 DEF SessionInv
-----------------------------------------------------------------------------
\* A call in flight, or none, names tokens that are there.
LEMMA CallTypes ==
  ASSUME SessionTypeOK, NEW c \in Clients
  PROVE  /\ requests[c] \in RequestRows
         /\ active \subseteq Users /\ jars \in [Browsers -> DOMAIN tokens \cup {Null}]
         /\ pages \in [Tabs -> {"login", "console"}]
         /\ c \in Tabs => DeviceOf[c] \in Browsers /\ Jar(c) \in DOMAIN tokens \cup {Null}
BY AuthAssumption DEF AuthAssumption, SessionTypeOK, Jar

\* Sign-in and the answer to it.
LEMMA SignInKeeps ==
  ASSUME SessionInv, NEW c \in Tabs,
         \/ \E u \in Users : Login(c, u)
         \/ Granted(c) \/ Refused(c) \/ LoggedOut(c)
         \/ OpenLogin(c) \/ OpenPage(c)
  PROVE  SessionInv'
<1> USE AuthAssumption
<1>1. c \in Clients /\ SessionTypeOK
  BY DEF Clients, SessionInv
<1>2. /\ requests[c] \in RequestRows /\ active \subseteq Users
      /\ jars \in [Browsers -> DOMAIN tokens \cup {Null}]
      /\ pages \in [Tabs -> {"login", "console"}]
      /\ DeviceOf[c] \in Browsers
  BY <1>1, CallTypes
<1>3. CASE \E u \in Users : Login(c, u)
  <2>1. PICK u \in Users : Login(c, u)
    BY <1>3
  <2> DEFINE call == [NoRequest EXCEPT !.phase = "issue", !.user = u]
  <2>2. call \in RequestRows
    BY NoCallCarries DEF RequestRows
  <2>3. Carries(call) /\ call.phase # "claimed"
    BY DEF Carries, NoRequest
  <2> QED BY <1>1, <1>2, <2>1, <2>2, <2>3, CallGoesOn DEF Login, Advance
<1>4. CASE Granted(c)
  <2>1. jars' \in [Browsers -> DOMAIN tokens \cup {Null}]
    BY <1>2, <1>4 DEF Granted, RequestRows
  <2>2. pages' \in [Tabs -> {"login", "console"}]
    BY <1>2, <1>4 DEF Granted
  <2> QED BY <1>1, <1>2, <1>4, <2>1, <2>2, NoCallCarries, CallGoesOn DEF Granted,
             End, Advance, NoRequest
<1>5. CASE Refused(c)
  <2> DEFINE call == [NoRequest EXCEPT !.phase = "ending"]
  <2>1. call \in RequestRows
    BY NoCallCarries DEF RequestRows
  <2>2. Carries(call) /\ call.phase # "claimed"
    BY DEF Carries, NoRequest
  <2>3. jars' \in [Browsers -> DOMAIN tokens \cup {Null}]
    BY <1>2, <1>5 DEF Refused
  <2> QED BY <1>1, <1>2, <1>5, <2>1, <2>2, <2>3, CallGoesOn DEF Refused, Advance
<1>6. CASE LoggedOut(c)
  <2>1. jars' \in [Browsers -> DOMAIN tokens \cup {Null}]
    BY <1>2, <1>6 DEF LoggedOut
  <2>2. pages' \in [Tabs -> {"login", "console"}]
    BY <1>2, <1>6 DEF LoggedOut
  <2> QED BY <1>1, <1>2, <1>6, <2>1, <2>2, NoCallCarries, CallGoesOn DEF LoggedOut,
             End, Advance, NoRequest
<1>7. CASE OpenLogin(c)
  <2>1. jars' \in [Browsers -> DOMAIN tokens \cup {Null}]
    BY <1>2, <1>7 DEF OpenLogin
  <2>2. pages' \in [Tabs -> {"login", "console"}]
    BY <1>2, <1>7 DEF OpenLogin, PageFor
  <2> QED BY <1>1, <1>2, <1>7, <2>1, <2>2, NoCallCarries, CallGoesOn DEF OpenLogin,
             End, Advance, NoRequest
<1>8. CASE OpenPage(c)
  <2>1. pages' \in [Tabs -> {"login", "console"}]
    BY <1>2, <1>8 DEF OpenPage, PageFor
  <2>2. UNCHANGED <<active, tokens, jars, requests>>
    BY <1>8 DEF OpenPage
  <2>3. SessionTypeOK'
    BY <2>1, <2>2 DEF SessionInv, SessionTypeOK, RequestRows
  <2>4. /\ FamiliesAreOlder' /\ (\A d \in Clients : Carries(requests[d]))'
        /\ OneClaim' /\ OneLivePerFamily'
    BY <2>2 DEF SessionInv, FamiliesAreOlder, Carries, OneClaim, OneLivePerFamily, Live
  <2> QED BY <2>3, <2>4 DEF SessionInv
<1> QED BY <1>3, <1>4, <1>5, <1>6, <1>7, <1>8

\* A refresh, up to its commit.
LEMMA RefreshKeeps ==
  ASSUME SessionInv, NEW c \in Clients,
         \/ c \in Tabs /\ TryRefresh(c)
         \/ RefreshRead(c) \/ RefreshClaim(c)
  PROVE  SessionInv'
<1> USE AuthAssumption
<1>1. /\ requests[c] \in RequestRows /\ active \subseteq Users /\ Carries(requests[c])
      /\ jars \in [Browsers -> DOMAIN tokens \cup {Null}]
      /\ pages \in [Tabs -> {"login", "console"}]
      /\ c \in Tabs => DeviceOf[c] \in Browsers /\ Jar(c) \in DOMAIN tokens \cup {Null}
  BY CallTypes DEF SessionInv
<1>2. CASE c \in Tabs /\ TryRefresh(c)
  <2> DEFINE call == [NoRequest EXCEPT !.phase = "refresh", !.token = Jar(c), !.then = "refresh"]
  <2>1. call \in RequestRows
    BY <1>1, <1>2, NoCallCarries DEF RequestRows
  <2>2. Carries(call) /\ call.phase # "claimed"
    BY DEF Carries, NoRequest
  <2> QED BY <1>1, <1>2, <2>1, <2>2, CallGoesOn DEF TryRefresh, Advance
<1>3. CASE RefreshRead(c)
  <2> DEFINE t == requests[c].token
             rows == Unrevoked(Family(tokens[t].family))
             call == IF t = Null THEN [requests[c] EXCEPT !.phase = "refused"]
                     ELSE IF tokens[t].used
                     THEN [requests[c] EXCEPT !.phase = "revoke", !.then = "refused", !.rows = rows]
                     ELSE IF tokens[t].revoked \/ tokens[t].user \notin active
                     THEN [requests[c] EXCEPT !.phase = "refused"]
                     ELSE [requests[c] EXCEPT !.phase = "claim"]
  <2>1. rows \subseteq DOMAIN tokens
    BY DEF Unrevoked, Family
  <2>2. call \in RequestRows
    BY <1>1, <2>1 DEF RequestRows
  <2>3. Carries(call) /\ call.phase # "claimed"
    BY <1>1, <2>1 DEF Carries, RequestRows
  <2> QED BY <1>1, <1>3, <2>2, <2>3, CallGoesOn DEF RefreshRead, Advance
<1>4. CASE RefreshClaim(c)
  <2> DEFINE t == requests[c].token
             call == [requests[c] EXCEPT !.phase = IF Claimable(t) THEN "claimed" ELSE "refused"]
  <2>1. call \in RequestRows
    BY <1>1 DEF RequestRows
  <2>2. Carries(call) /\ (call.phase = "claimed" => ~Claimed(call.token))
    BY <1>1, <1>4 DEF Carries, RequestRows, RefreshClaim, Claimable
  <2> QED BY <1>1, <1>4, <2>1, <2>2, CallGoesOn DEF RefreshClaim, Enter, Advance
<1> QED BY <1>2, <1>3, <1>4

\* What ends sessions, up to its UPDATE.
LEMMA EndingKeeps ==
  ASSUME SessionInv, NEW c \in Clients,
         \/ c \in Tabs /\ (SignOut(c) \/ EndSession(c) \/ PasswordChange(c))
         \/ \E u \in Users, suspending \in BOOLEAN : AdminUpdate(c, u, suspending)
         \/ RevokeAll(c)
  PROVE  SessionInv'
<1> USE AuthAssumption
<1>1. /\ requests[c] \in RequestRows /\ active \subseteq Users /\ Carries(requests[c])
      /\ jars \in [Browsers -> DOMAIN tokens \cup {Null}]
      /\ pages \in [Tabs -> {"login", "console"}]
      /\ c \in Tabs => Jar(c) \in DOMAIN tokens \cup {Null}
  BY CallTypes DEF SessionInv
<1>2. ASSUME c \in Tabs, NEW then \in {"signedOut", "ended"}, Logout(c, then) PROVE SessionInv'
  <2> DEFINE rows == IF Jar(c) = Null THEN {}
                     ELSE Unrevoked(Family(tokens[Jar(c)].family))
             call == [NoRequest EXCEPT !.phase = "revoke", !.then = then, !.rows = rows]
  <2>1. rows \subseteq DOMAIN tokens
    BY DEF Unrevoked, Family
  <2>2. call \in RequestRows
    BY <2>1, NoCallCarries DEF RequestRows
  <2>3. Carries(call) /\ call.phase # "claimed"
    BY DEF Carries, NoRequest
  <2> QED BY <1>1, <1>2, <2>2, <2>3, CallGoesOn DEF Logout, Advance
<1>3. CASE c \in Tabs /\ (SignOut(c) \/ EndSession(c))
  BY <1>2, <1>3 DEF SignOut, EndSession
<1>4. CASE c \in Tabs /\ PasswordChange(c)
  <2> DEFINE u == tokens[Jar(c)].user
             call == [NoRequest EXCEPT !.phase = "revoke", !.then = "issue", !.user = u,
                                    !.rows = Unrevoked(OfUser(u))]
  <2>1. u \in Users
    <3>1. Jar(c) \in DOMAIN tokens
      BY <1>1, <1>4 DEF PasswordChange
    <3>2. tokens[Jar(c)] \in TokenRows
      BY <3>1, ElementOfSeq, LenProperties DEF SessionInv, SessionTypeOK
    <3> QED BY <3>2 DEF TokenRows
  <2>2. Unrevoked(OfUser(u)) \subseteq DOMAIN tokens
    BY DEF Unrevoked, OfUser
  <2>3. call \in RequestRows
    <3> HIDE DEF u
    <3> QED BY <2>1, <2>2, NoCallCarries DEF RequestRows
  <2>4. Carries(call) /\ call.phase # "claimed"
    BY <2>1 DEF Carries, NoRequest
  <2> QED BY <1>1, <1>4, <2>3, <2>4, CallGoesOn DEF PasswordChange, Advance
<1>5. CASE \E u \in Users, suspending \in BOOLEAN : AdminUpdate(c, u, suspending)
  <2>1. PICK u \in Users, suspending \in BOOLEAN : AdminUpdate(c, u, suspending)
    BY <1>5
  <2> DEFINE call == [NoRequest EXCEPT !.phase = "committed", !.user = u]
  <2>2. call \in RequestRows
    BY NoCallCarries DEF RequestRows
  <2>3. Carries(call) /\ call.phase # "claimed"
    BY DEF Carries, NoRequest
  <2> QED BY <1>1, <2>1, <2>2, <2>3, CallGoesOn DEF AdminUpdate, Advance
<1>6. CASE RevokeAll(c)
  <2> DEFINE rows == Unrevoked(OfUser(requests[c].user))
             call == [requests[c] EXCEPT !.phase = "revoke", !.then = "revoked", !.rows = rows]
  <2>1. rows \subseteq DOMAIN tokens
    BY DEF Unrevoked, OfUser
  <2>2. call \in RequestRows
    BY <1>1, <2>1 DEF RequestRows
  <2>3. Carries(call) /\ call.phase # "claimed"
    BY <1>1 DEF Carries, RequestRows
  <2> QED BY <1>1, <1>6, <2>2, <2>3, CallGoesOn DEF RevokeAll, Advance
<1> QED BY <1>3, <1>4, <1>5, <1>6

\* A call that does not get through.
LEMMA DiesKeeps ==
  ASSUME SessionInv, NEW c \in Clients, Dies(c)
  PROVE  SessionInv'
<1> USE AuthAssumption
<1>1. /\ requests[c] \in RequestRows /\ active \subseteq Users
      /\ jars \in [Browsers -> DOMAIN tokens \cup {Null}]
      /\ pages \in [Tabs -> {"login", "console"}]
  BY CallTypes DEF SessionInv
<1> DEFINE refused == [requests[c] EXCEPT !.phase = "refused"]
           ending == [NoRequest EXCEPT !.phase = "ending"]
           lost == [NoRequest EXCEPT !.phase = "lost", !.then = requests[c].then]
<1>2. refused \in RequestRows /\ ending \in RequestRows /\ lost \in RequestRows
  BY <1>1, NoCallCarries DEF RequestRows
<1>3. /\ Carries(refused) /\ refused.phase = "refused"
      /\ Carries(ending) /\ ending.phase = "ending"
      /\ Carries(lost) /\ lost.phase = "lost"
      /\ NoRequest.phase = "idle"
  BY <1>1 DEF Carries, NoRequest, RequestRows
<1>4. \E call \in {refused, ending, lost, NoRequest} : requests' = [requests EXCEPT ![c] = call]
  BY DEF Dies, Enter, End, Advance
<1>5. PICK call \in {refused, ending, lost, NoRequest} : requests' = [requests EXCEPT ![c] = call]
  BY <1>4
<1>6. call \in RequestRows /\ Carries(call) /\ call.phase # "claimed"
  BY <1>2, <1>3, <1>5, NoCallCarries
<1> QED BY <1>1, <1>5, <1>6, CallGoesOn DEF Dies

LEMMA InitSessionInv == SessionInit => SessionInv
<1> SUFFICES ASSUME SessionInit PROVE SessionInv
  OBVIOUS
<1>1. tokens \in Seq(TokenRows) /\ DOMAIN tokens = {}
  BY DEF SessionInit
<1>2. SessionTypeOK
  BY <1>1, NoCallCarries DEF SessionInit, SessionTypeOK
<1> QED BY <1>1, <1>2, NoCallCarries DEF SessionInit, SessionInv, FamiliesAreOlder, OneClaim,
           NoRequest, OneLivePerFamily

LEMMA SessionInvStep ==
  ASSUME SessionInv, [SessionNext]_sessionVars
  PROVE  SessionInv'
<1> USE AuthAssumption
<1>1. CASE UNCHANGED sessionVars
  BY <1>1 DEF sessionVars, SessionInv, SessionTypeOK, FamiliesAreOlder, Carries, OneClaim,
     OneLivePerFamily, Live, RequestRows
<1>2. ASSUME NEW c \in Clients, SessionProgress(c) \/ Dies(c) PROVE SessionInv'
  BY <1>2, IssueKeeps, RefreshCommitKeeps, RevokeRowsKeeps, SignInKeeps, RefreshKeeps,
     EndingKeeps, DiesKeeps DEF SessionProgress
<1>3. ASSUME NEW c \in Tabs,
             \/ \E u \in Users : Login(c, u)
             \/ TryRefresh(c) \/ SignOut(c) \/ PasswordChange(c) \/ OpenPage(c)
      PROVE  SessionInv'
  BY <1>3, SignInKeeps, RefreshKeeps, EndingKeeps DEF Clients
<1>4. ASSUME NEW c \in AdminTabs, NEW u \in Users, NEW suspending \in BOOLEAN,
             AdminUpdate(c, u, suspending)
      PROVE  SessionInv'
  BY <1>4, EndingKeeps DEF Clients
<1>5. ASSUME NEW u \in Users, AdminReactivate(u) PROVE SessionInv'
  BY <1>5 DEF AdminReactivate, SessionInv, SessionTypeOK, FamiliesAreOlder, Carries,
     OneClaim, OneLivePerFamily, Live, RequestRows
<1> QED BY <1>1, <1>2, <1>3, <1>4, <1>5 DEF SessionNext
-----------------------------------------------------------------------------
LEMMA SessionHolds == SessionSpec => []SessionInv
<1>1. SessionInv /\ [SessionNext]_sessionVars => SessionInv'
  BY SessionInvStep
<1> QED BY <1>1, InitSessionInv, PTL DEF SessionSpec

\* A session's rows, the cookies and the calls keep their types, and name only
\* tokens that were issued.
THEOREM SessionTypesHold == SessionSpec => []SessionTypeOK
<1>1. SessionInv => SessionTypeOK
  BY DEF SessionInv
<1> QED BY <1>1, SessionHolds, PTL

\* "two requests presenting the SAME token cannot both rotate" (auth.spec.ts):
\* no family ever has two tokens that still rotate.
THEOREM FamilyHasOneLiveToken == SessionSpec => []OneLivePerFamily
<1>1. SessionInv => OneLivePerFamily
  BY DEF SessionInv
<1> QED BY <1>1, SessionHolds, PTL

\* A step that ends no family's last token brings none back either.
LEMMA DeadStaysDead ==
  ASSUME SessionInv, [SessionNext]_sessionVars, NEW f \in 1 .. Len(tokens), Dead(f)
  PROVE  Dead(f)'
<1>1. CASE tokens' = tokens
  BY <1>1 DEF Dead, Family, Live
<1>2. ASSUME NEW c \in Clients, Issue(c) PROVE Dead(f)'
  <2>1. /\ Len(tokens) \in Nat /\ DOMAIN tokens' = 1 .. Len(tokens) + 1
        /\ tokens'[Len(tokens) + 1].family = Len(tokens) + 1
        /\ \A t \in 1 .. Len(tokens) : tokens'[t] = tokens[t]
    BY <1>2 DEF SessionInv, SessionTypeOK, Issue, NewToken
  <2> QED BY <2>1, LenProperties DEF SessionInv, SessionTypeOK, Dead, Family, Live
<1>3. ASSUME NEW c \in Clients, RefreshCommit(c) PROVE Dead(f)'
  <2> DEFINE t == requests[c].token
  <2>1. /\ requests[c] \in RequestRows /\ t \in DOMAIN tokens /\ Live(t)
        /\ tokens \in Seq(TokenRows)
    BY <1>3 DEF SessionInv, SessionTypeOK, RefreshCommit, Carries, RequestRows
  <2>2. tokens[t].family # f
    BY <2>1 DEF Dead, Family
  <2>3. [tokens EXCEPT ![t].used = TRUE] \in Seq(TokenRows)
    <3>1. tokens[t] \in TokenRows /\ t \in 1 .. Len(tokens)
      BY <2>1, ElementOfSeq, LenProperties
    <3>2. [tokens[t] EXCEPT !.used = TRUE] \in TokenRows
      BY <3>1 DEF TokenRows
    <3> QED BY <2>1, <3>1, <3>2, ExceptSeq
  <2>4. /\ Len(tokens) \in Nat /\ DOMAIN tokens' = 1 .. Len(tokens) + 1
        /\ tokens'[Len(tokens) + 1].family = tokens[t].family
        /\ \A s \in 1 .. Len(tokens) : tokens'[s] = [tokens EXCEPT ![t].used = TRUE][s]
    BY <1>3, <2>1, <2>3 DEF RefreshCommit, NewToken
  <2>5. \A s \in 1 .. Len(tokens) : s # t => tokens'[s] = tokens[s]
    BY <2>1, <2>4
  <2>6. tokens'[t].family = tokens[t].family
    <3>1. tokens[t] \in TokenRows /\ t \in 1 .. Len(tokens)
      BY <2>1, ElementOfSeq, LenProperties
    <3> QED BY <2>1, <2>4, <3>1 DEF TokenRows
  <2> QED BY <2>1, <2>2, <2>4, <2>5, <2>6, LenProperties DEF Dead, Family, Live
<1>4. ASSUME NEW c \in Clients, RevokeRows(c) PROVE Dead(f)'
  <2>1. tokens' = [t \in DOMAIN tokens |->
           IF t \in requests[c].rows THEN [tokens[t] EXCEPT !.revoked = TRUE] ELSE tokens[t]]
    BY <1>4 DEF RevokeRows
  <2>2. \A t \in DOMAIN tokens : tokens[t] \in TokenRows
    BY ElementOfSeq, LenProperties DEF SessionInv, SessionTypeOK
  <2>3. \A t \in DOMAIN tokens :
           tokens'[t].family = tokens[t].family /\ (Live(t)' => Live(t))
    BY <2>1, <2>2 DEF TokenRows, Live
  <2> QED BY <2>1, <2>3 DEF Dead, Family
<1>5. \/ tokens' = tokens
      \/ \E c \in Clients : Issue(c) \/ RefreshCommit(c) \/ RevokeRows(c)
  BY DEF SessionNext, sessionVars, SessionProgress, Dies, Login, Granted,
     TryRefresh, RefreshRead, RefreshClaim, Refused, SignOut,
     EndSession, Logout, LoggedOut, OpenPage, OpenLogin,
     PasswordChange, AdminUpdate, AdminReactivate, RevokeAll
<1> QED BY <1>1, <1>2, <1>3, <1>4, <1>5

\* A session that was signed out, reset, suspended or reused never comes
\* back, whatever a refresh had read before.
THEOREM EndedNeverComesBack == SessionSpec => EndedStaysEnded
<1>1. SessionInv /\ [SessionNext]_sessionVars =>
        [\A f \in 1 .. Len(tokens) : Dead(f) => Dead(f)']_sessionVars
  BY DeadStaysDead
<1> QED BY <1>1, SessionHolds, PTL DEF SessionSpec, EndedStaysEnded
=============================================================================

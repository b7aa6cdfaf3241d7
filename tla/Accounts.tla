------------------------------ MODULE Accounts ------------------------------
(***************************************************************************)
(* Admins managing admins, and the lockout of an account: admins.service.ts *)
(* with users.service.ts, the sign-in of auth.service.ts, and the console's *)
(* form and delete dialogs, which keep the account they were opened on.     *)
(*                                                                         *)
(* A request is stepped statement by statement: SELECT ... FOR UPDATE locks *)
(* its rows one at a time and looks at each again, a written row is locked  *)
(* until its transaction ends, and Postgres aborts a transaction that waits *)
(* in a circle.  An account is named by its email, which is free again once *)
(* the account is deleted.                                                  *)
(***************************************************************************)
EXTENDS Integers, FiniteSets

CONSTANTS Admins,
          Consoles, ActorOf, \* the console's tab and the admin who signed in to it
          Devices,           \* where somebody tries to sign in
          None,
          Threshold, MaxLock, \* LOCKOUT_THRESHOLD; LOCKOUT_MAX_MS / LOCKOUT_BASE_MS
          MaxFailures         \* bound on the failed attempts of an account

\* recordFailedLogin(): from the threshold on each failure doubles the lockout.
Power(n) == LET p[k \in Nat] == IF k = 0 THEN 1 ELSE 2 * p[k - 1] IN p[n]

LockFor(failures) ==
  IF failures < Threshold THEN 0
  ELSE LET doubled == Power(failures - Threshold)
       IN  IF doubled < MaxLock THEN doubled ELSE MaxLock

Rows == [active : BOOLEAN, failed : 0 .. MaxFailures,
         lock : {LockFor(n) : n \in 0 .. MaxFailures}]

ASSUME AccountsAssumption ==
  /\ Admins # {}
  /\ ActorOf \in [Consoles -> Admins]
  /\ Threshold \in Nat \ {0} /\ MaxLock \in Nat \ {0} /\ MaxFailures \in Nat
  /\ None \notin Admins \cup Rows

VARIABLES accounts, \* account -> its row, or None
          signedIn, \* the accounts whose access token is let in
          calls,    \* console -> its dialog and the request it sent
          logins    \* device -> the sign-in it waits for

vars == <<accounts, signedIn, calls, logins>>
-----------------------------------------------------------------------------
MutNewRow == [active |-> None, failed |-> 0, lock |-> 0]

\* users' defaults.
NewRow == [active |-> TRUE, failed |-> 0, lock |-> 0]

NoCall == [phase |-> "closed", op |-> None, target |-> None, active |-> TRUE,
           reset |-> FALSE, found |-> {}, held |-> {}]

NoLogin == [account |-> None, failed |-> 0, dirty |-> FALSE, active |-> FALSE]

Exists(a) == accounts[a] # None
Active(a) == Exists(a) /\ accounts[a].active

MutHeld(c) == IF calls[c].phase = "written" THEN {calls[c].target} ELSE {}

\* Rows a transaction has locked for the others to wait on.
Held(c) == calls[c].held \cup (IF calls[c].phase = "written" THEN {calls[c].target} ELSE {})
Free(c, a) == \A x \in Consoles \ {c} : a \notin Held(x)

Go(c, call) == calls' = [calls EXCEPT ![c] = call]
To(c, phase) == Go(c, [calls[c] EXCEPT !.phase = phase])
Close(c) == Go(c, NoCall)

\* An error is toasted and the dialog stays open with what it held.
Fail(c) == Go(c, [NoCall EXCEPT !.phase = "open", !.op = calls[c].op, !.target = calls[c].target])

MutCleared(row) == [row EXCEPT !.failed = 0]

\* setPassword and changePassword: a new password clears the lockout.
Cleared(row) == [row EXCEPT !.failed = 0, !.lock = 0]
-----------------------------------------------------------------------------
Init == /\ accounts = [a \in Admins |-> NewRow]
        /\ signedIn = {}
        /\ calls = [c \in Consoles |-> NoCall]
        /\ logins = [d \in Devices |-> NoLogin]

\* login(): the row is read.  A lockout still running refuses at once; it may
\* have run out by any later attempt.
LoginRead(d, a) ==
  /\ logins[d] = NoLogin
  /\ Exists(a)
  /\ logins' = [logins EXCEPT ![d] =
       [account |-> a, failed |-> accounts[a].failed, active |-> accounts[a].active,
        dirty |-> accounts[a].failed > 0 \/ accounts[a].lock > 0]]
  /\ UNCHANGED <<accounts, signedIn, calls>>

\* recordFailedLogin(): from the count the sign-in read.
LoginWrong(d) ==
  LET login == logins[d]
      failures == login.failed + 1
  IN  /\ login # NoLogin /\ login.failed < MaxFailures
      /\ \A c \in Consoles : login.account \notin Held(c)
      /\ accounts' = IF ~Exists(login.account) THEN accounts
                     ELSE [accounts EXCEPT ![login.account] =
                            [@ EXCEPT !.failed = failures, !.lock = LockFor(failures)]]
      /\ logins' = [logins EXCEPT ![d] = NoLogin]
      /\ UNCHANGED <<signedIn, calls>>

\* The right password: the lockout is cleared if there was one to clear, and
\* the session is issued, if the row is still there.
LoginRight(d) ==
  LET login == logins[d] IN
  /\ login.active
  /\ login.dirty => \A c \in Consoles : login.account \notin Held(c)
  /\ IF Exists(login.account)
     THEN /\ accounts' = IF login.dirty THEN [accounts EXCEPT ![login.account] = Cleared(@)]
                         ELSE accounts
          /\ signedIn' = signedIn \cup {login.account}
     ELSE UNCHANGED <<accounts, signedIn>>
  /\ logins' = [logins EXCEPT ![d] = NoLogin]
  /\ UNCHANGED calls

\* A suspended account's password was right: refused, and nothing is written.
LoginRefused(d) ==
  /\ logins[d] # NoLogin /\ ~logins[d].active
  /\ logins' = [logins EXCEPT ![d] = NoLogin]
  /\ UNCHANGED <<accounts, signedIn, calls>>

\* changePassword(), by whoever is signed in, for himself; the session that
\* asked is replaced by a fresh one.
ChangePassword(a) ==
  /\ a \in signedIn /\ Exists(a)
  /\ \A c \in Consoles : a \notin Held(c)
  /\ accounts' = [accounts EXCEPT ![a] = Cleared(@)]
  /\ UNCHANGED <<signedIn, calls, logins>>
-----------------------------------------------------------------------------
\* What the page offers: "New admin", and on each row "Edit" and, unless it is
\* one's own, "Delete".  The rows are those of the last answer, and so may be
\* gone, as an email that is typed may be taken.
Offered(c) == ({"create", "update"} \X Admins) \cup ({"delete"} \X (Admins \ {ActorOf[c]}))

\* A dialog opens, on a row or empty.
Open(c, op, a) ==
  /\ calls[c].phase = "closed" /\ ActorOf[c] \in signedIn
  /\ <<op, a>> \in Offered(c)
  /\ Go(c, [NoCall EXCEPT !.phase = "open", !.op = op, !.target = a])
  /\ UNCHANGED <<accounts, signedIn, logins>>

\* What the form's fields can hold when it is sent: a status, which is not
\* one's own to choose, and perhaps a new password.
Entered(c) == {form \in [active : BOOLEAN, reset : BOOLEAN] :
                 calls[c].target = ActorOf[c] => form.active}

\* refuseSelf
Self(c) == calls[c].target = ActorOf[c]

\* createUser(): a taken email is a CONFLICT, toasted.
SubmitCreate(c) ==
  LET a == calls[c].target IN
  /\ calls[c].phase = "open" /\ calls[c].op = "create" /\ ActorOf[c] \in signedIn
  /\ IF Exists(a) THEN UNCHANGED <<accounts, signedIn, calls>>
     ELSE /\ accounts' = [accounts EXCEPT ![a] = NewRow]
          /\ signedIn' = signedIn \ {a} \* a deleted namesake's token is not its own
          /\ Close(c)
  /\ UNCHANGED logins

\* The rows SELECT ... FOR UPDATE is to lock: those it finds at its start.
OtherAdmins(a) == {x \in Admins \ {a} : Active(x)}

\* update(): the status in the form goes along unless the row is one's own.
SubmitUpdate(c, form) ==
  LET a == calls[c].target
      guarded == ~form.active /\ ~Self(c)
  IN  /\ calls[c].phase = "open" /\ calls[c].op = "update" /\ ActorOf[c] \in signedIn
      /\ IF ~Exists(a) THEN Fail(c)
         ELSE Go(c, [calls[c] EXCEPT !.active = form.active, !.reset = form.reset,
                       !.phase = IF guarded THEN "lock" ELSE "write",
                       !.found = IF guarded THEN OtherAdmins(a) ELSE {}])
      /\ UNCHANGED <<accounts, signedIn, logins>>

\* remove(): never one's own; the sessions end first.
SubmitDelete(c) ==
  /\ calls[c].phase = "open" /\ calls[c].op = "delete" /\ ActorOf[c] \in signedIn
  /\ IF ~Exists(calls[c].target) \/ Self(c) THEN Fail(c) ELSE To(c, "revoke")
  /\ UNCHANGED <<accounts, signedIn, logins>>

Cancel(c) ==
  /\ calls[c].phase \in {"open", "blocked"}
  /\ Close(c)
  /\ UNCHANGED <<accounts, signedIn, logins>>
-----------------------------------------------------------------------------
\* One row is locked, when nobody holds it, and kept if it still matches.
Lock(c, a) ==
  /\ calls[c].phase = "lock" /\ a \in calls[c].found
  /\ Free(c, a)
  /\ Go(c, [calls[c] EXCEPT !.found = @ \ {a},
                            !.held = IF Active(a) THEN @ \cup {a} ELSE @])
  /\ UNCHANGED <<accounts, signedIn, logins>>

\* countOtherActiveAdmins() = 0 is LAST_ADMIN, which the delete dialog explains.
Count(c) ==
  /\ calls[c].phase = "lock" /\ calls[c].found = {}
  /\ IF calls[c].held # {} THEN To(c, "write")
     ELSE IF calls[c].op = "delete" THEN To(c, "blocked")
     ELSE Fail(c)
  /\ UNCHANGED <<accounts, signedIn, logins>>

\* What the call leaves of its row.
Outcome(c) ==
  LET call == calls[c]
      row == accounts[call.target]
  IN  IF call.op = "delete" THEN None
      ELSE [(IF call.reset THEN Cleared(row) ELSE row) EXCEPT !.active =
              IF Self(c) THEN @ ELSE call.active]

\* The write waits for its row, then fails if the row is gone or if the
\* trigger finds no active admin left.
Write(c) ==
  LET a == calls[c].target
      oneLeft == \/ \E x \in Admins \ {a} : Active(x)
                 \/ Outcome(c) # None /\ Outcome(c).active
  IN  /\ calls[c].phase = "write"
      /\ Free(c, a)
      /\ IF Exists(a) /\ oneLeft THEN To(c, "written") ELSE Fail(c)
      /\ UNCHANGED <<accounts, signedIn, logins>>

\* COMMIT; a suspension and a reset then end the sessions.
Commit(c) ==
  LET call == calls[c]
      suspending == ~call.active /\ ~Self(c)
  IN  /\ call.phase = "written"
      /\ accounts' = [accounts EXCEPT ![call.target] = Outcome(c)]
      /\ IF call.op = "update" /\ (call.reset \/ suspending)
         THEN Go(c, [call EXCEPT !.phase = "revoke", !.held = {}])
         ELSE Close(c)
      /\ UNCHANGED <<signedIn, logins>>

\* revokeAllSessions(): after an update's commit, before a deletion's count.
Revoke(c) ==
  LET call == calls[c] IN
  /\ call.phase = "revoke"
  /\ signedIn' = signedIn \ {call.target}
  /\ IF call.op = "update" THEN Close(c)
     ELSE Go(c, [call EXCEPT !.phase = "lock", !.found = OtherAdmins(call.target)])
  /\ UNCHANGED <<accounts, logins>>

MutWaitsFor(c, x) == FALSE

\* c waits for a row that x holds.
WaitsFor(c, x) ==
  /\ c # x
  /\ \/ calls[c].phase = "lock" /\ calls[c].found \cap Held(x) # {}
     \/ calls[c].phase = "write" /\ calls[c].target \in Held(x)

\* Transactions none of which goes on before another of them, and no fewer.
Stuck(S) == S # {} /\ \A c \in S : \E x \in S : WaitsFor(c, x)
Circle(S) == Stuck(S) /\ \A T \in SUBSET S : Stuck(T) => T = S

\* Postgres aborts one of the transactions that wait in a circle.
Deadlock(c) ==
  /\ \E S \in SUBSET Consoles : c \in S /\ Circle(S)
  /\ Fail(c)
  /\ UNCHANGED <<accounts, signedIn, logins>>
-----------------------------------------------------------------------------
\* What goes on without anybody's doing: a request's statements.
Progress(c) ==
  \/ \E a \in Admins : Lock(c, a)
  \/ Count(c) \/ Write(c) \/ Commit(c) \/ Revoke(c) \/ Deadlock(c)

\* The console's page and its dialogs.
AdminsPage(c) ==
  \/ \E op \in {"create", "update", "delete"}, a \in Admins : Open(c, op, a)
  \/ SubmitCreate(c)
  \/ \E form \in Entered(c) : SubmitUpdate(c, form)
  \/ SubmitDelete(c) \/ Cancel(c)

Next ==
  \/ \E c \in Consoles : Progress(c) \/ AdminsPage(c)
  \/ \E d \in Devices : LoginWrong(d) \/ LoginRight(d) \/ LoginRefused(d)
  \/ \E d \in Devices, a \in Admins : LoginRead(d, a)
  \/ \E a \in Admins : ChangePassword(a)

\* Node and Postgres go on with what they started, and Postgres grants a row
\* to those who wait for it in the order they came.
Spec == Init /\ [][Next]_vars /\ \A c \in Consoles : SF_vars(Progress(c))
-----------------------------------------------------------------------------
CallRows ==
  [phase : {"closed", "open", "revoke", "lock", "write", "written", "blocked"},
   op : {"create", "update", "delete", None}, target : Admins \cup {None},
   active : BOOLEAN, reset : BOOLEAN, found : SUBSET Admins, held : SUBSET Admins]

\* Types of the tables, the dialogs and the sign-ins.
TypeOK ==
  /\ accounts \in [Admins -> Rows \cup {None}]
  /\ signedIn \subseteq Admins
  /\ calls \in [Consoles -> CallRows]
  /\ logins \in [Devices -> [account : Admins \cup {None}, failed : 0 .. MaxFailures, dirty : BOOLEAN,
                             active : BOOLEAN]]

\* keep_one_admin/migration.sql: "The platform must always keep at least one
\* admin who can sign in", also when admins delete or suspend each other at
\* the same moment, which the trigger alone cannot see.
SomeAdminActive == \E a \in Admins : Active(a)

\* users.service.ts on setPassword: a count below the threshold leaves no
\* lockout standing, whoever wrote it last; a lockout lasts what its count says.
LockMatchesFailures ==
  \A a \in Admins : Exists(a) =>
    accounts[a].lock = LockFor(accounts[a].failed)

\* Admins deleting each other wait for each other's rows; every request is
\* answered all the same.
RequestsSettle ==
  \A c \in Consoles :
    calls[c].phase \in {"revoke", "lock", "write", "written"} ~>
      calls[c].phase \in {"closed", "open", "blocked"}
=============================================================================

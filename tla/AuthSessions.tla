---------------------------- MODULE AuthSessions ----------------------------
(***************************************************************************)
(* Sessions, from the browser to the database: the refresh tokens of       *)
(* auth/auth.service.ts, the web client's silent refresh and end of a      *)
(* session (lib/api-client.ts) in every open tab, the cookies the tabs of a *)
(* device share, and middleware.ts, which decides by them what page opens. *)
(*                                                                         *)
(* A call is stepped statement by statement.  An UPDATE of several tokens  *)
(* picks its rows first and changes them when no transaction holds one; a  *)
(* refresh holds the token it claimed until it commits, and nobody sees    *)
(* the token it inserts before that.  Access tokens live minutes and may   *)
(* be refused at any time, so any request may find out it must refresh;    *)
(* passwords and lockouts are the business of Accounts.                    *)
(***************************************************************************)
EXTENDS Integers, Sequences, FiniteSets

CONSTANTS Users, Browsers, Tabs, AdminTabs,
          DeviceOf,  \* tab -> the device whose cookies it shares
          Null,
          MaxTokens  \* bound on the refresh tokens when a call may start

Clients == Tabs \cup AdminTabs

ASSUME AuthAssumption ==
  /\ DeviceOf \in [Tabs -> Browsers]
  /\ Tabs \cap AdminTabs = {}
  /\ MaxTokens \in Nat
  /\ Null \notin Users \cup Nat

VARIABLES active, \* the accounts that may sign in
          tokens, \* the refresh_tokens table, by order of insertion
          jars,   \* device -> its refresh cookie; both cookies come and go together
          pages,  \* tab -> what it shows
          requests \* tabs' and admins' requests in flight

sessionVars == <<active, tokens, jars, pages, requests>>
-----------------------------------------------------------------------------
NoRequest == [phase |-> "idle", user |-> Null, token |-> Null, rows |-> {}, then |-> Null]

Live(t) == ~tokens[t].used /\ ~tokens[t].revoked

Family(f) == {t \in DOMAIN tokens : tokens[t].family = f}

Unrevoked(S) == {t \in S : ~tokens[t].revoked}

OfUser(u) == {t \in DOMAIN tokens : tokens[t].user = u}

MutClaimed(t) ==
  \E c \in Clients : requests[c].phase \in {"claim", "claimed"} /\ requests[c].token = t

\* A refresh transaction has updated the row of t and not yet committed.
Claimed(t) == \E c \in Clients : requests[c].phase = "claimed" /\ requests[c].token = t

Jar(c) == jars[DeviceOf[c]]

Advance(c, call) == requests' = [requests EXCEPT ![c] = call]
Enter(c, phase) == Advance(c, [requests[c] EXCEPT !.phase = phase])
End(c) == Advance(c, NoRequest)
-----------------------------------------------------------------------------
SessionInit ==
  /\ active = Users
  /\ tokens = <<>>
  /\ jars = [d \in Browsers |-> Null]
  /\ pages = [c \in Tabs |-> "login"]
  /\ requests = [c \in Clients |-> NoRequest]

\* login(), for an active account and the right password.
Login(c, u) ==
  /\ requests[c].phase = "idle" /\ pages[c] = "login"
  /\ Len(tokens) < MaxTokens
  /\ u \in active
  /\ Advance(c, [NoRequest EXCEPT !.phase = "issue", !.user = u])
  /\ UNCHANGED <<active, tokens, jars, pages>>

NewToken(u, family) == [user |-> u, family |-> family, used |-> FALSE, revoked |-> FALSE]

MutIssue(c) ==
  /\ requests[c].phase = "issue"
  /\ Advance(c, [NoRequest EXCEPT !.phase = "granted", !.token = Len(tokens) + 1])
  /\ UNCHANGED <<active, tokens, jars, pages>>

\* issueSession(): a token of a family of its own.
Issue(c) ==
  LET id == Len(tokens) + 1 IN
  /\ requests[c].phase = "issue"
  /\ tokens' = Append(tokens, NewToken(requests[c].user, id))
  /\ Advance(c, [NoRequest EXCEPT !.phase = "granted", !.token = id])
  /\ UNCHANGED <<active, jars, pages>>

\* The answer arrives: setAuthCookies, and the console opens.
Granted(c) ==
  /\ requests[c].phase = "granted"
  /\ jars' = [jars EXCEPT ![DeviceOf[c]] = requests[c].token]
  /\ pages' = [pages EXCEPT ![c] = "console"]
  /\ End(c)
  /\ UNCHANGED <<active, tokens>>
-----------------------------------------------------------------------------
\* A request was answered 401: the tab refreshes, once for all its requests.
TryRefresh(c) ==
  /\ requests[c].phase = "idle" /\ pages[c] = "console"
  /\ Len(tokens) < MaxTokens
  /\ Advance(c, [NoRequest EXCEPT !.phase = "refresh", !.token = Jar(c), !.then = "refresh"])
  /\ UNCHANGED <<active, tokens, jars, pages>>

\* refresh(): what is presented is unknown, spent, over, or may rotate.
RefreshRead(c) ==
  LET call == requests[c]
      t == call.token
  IN  /\ call.phase = "refresh"
      /\ Advance(c,
           IF t = Null THEN [call EXCEPT !.phase = "refused"]
           ELSE IF tokens[t].used
           THEN [call EXCEPT !.phase = "revoke", !.then = "refused",
                             !.rows = Unrevoked(Family(tokens[t].family))]
           ELSE IF tokens[t].revoked \/ tokens[t].user \notin active
           THEN [call EXCEPT !.phase = "refused"]
           ELSE [call EXCEPT !.phase = "claim"])
      /\ UNCHANGED <<active, tokens, jars, pages>>

MutClaimable(t) == ~tokens[t].revoked
MutClaimableRevoked(t) == ~tokens[t].used

\* The guard in the WHERE of the claiming UPDATE.
Claimable(t) == Live(t)

\* The UPDATE waits for a rival's; the loser's own UPDATE of the family goes
\* with the transaction its exception rolls back.
RefreshClaim(c) ==
  LET t == requests[c].token IN
  /\ requests[c].phase = "claim"
  /\ ~Claimed(t)
  /\ Enter(c, IF Claimable(t) THEN "claimed" ELSE "refused")
  /\ UNCHANGED <<active, tokens, jars, pages>>

RefreshCommit(c) ==
  LET t == requests[c].token IN
  /\ requests[c].phase = "claimed"
  /\ tokens' = Append([tokens EXCEPT ![t].used = TRUE],
                      NewToken(tokens[t].user, tokens[t].family))
  /\ Advance(c, [requests[c] EXCEPT !.phase = "granted", !.token = Len(tokens) + 1])
  /\ UNCHANGED <<active, jars, pages>>

\* The controller clears the cookies, and the tab ends the session.
Refused(c) ==
  /\ requests[c].phase = "refused"
  /\ jars' = [jars EXCEPT ![DeviceOf[c]] = Null]
  /\ Advance(c, [NoRequest EXCEPT !.phase = "ending"])
  /\ UNCHANGED <<active, tokens, pages>>
-----------------------------------------------------------------------------
\* POST /auth/logout: the family of the cookie, if there is one.
Logout(c, then) ==
  /\ Advance(c, [NoRequest EXCEPT !.phase = "revoke", !.then = then,
              !.rows = IF Jar(c) = Null THEN {}
                       ELSE Unrevoked(Family(tokens[Jar(c)].family))])
  /\ UNCHANGED <<active, tokens, jars, pages>>

\* The sign-out button.
SignOut(c) == requests[c].phase = "idle" /\ pages[c] = "console" /\ Logout(c, "signedOut")

\* endSession(): the logout that clears what only the server can clear.
EndSession(c) == requests[c].phase = "ending" /\ Logout(c, "ended")

\* Logout answered: the cookies are cleared, and the sign-in page opens.
LoggedOut(c) ==
  /\ requests[c].phase \in {"signedOut", "ended"}
  /\ jars' = [jars EXCEPT ![DeviceOf[c]] = Null]
  /\ pages' = [pages EXCEPT ![c] = "login"]
  /\ End(c)
  /\ UNCHANGED <<active, tokens>>

MutPageFor(jar, signedout) == IF jar # Null THEN "console" ELSE "login"

\* middleware: a role in the cookie opens the console, unless ?signedout
\* says that session is over.
PageFor(jar, signedout) == IF ~signedout /\ jar # Null THEN "console" ELSE "login"

\* A page is opened or reloaded.
OpenPage(c) ==
  /\ requests[c].phase = "idle"
  /\ pages' = [pages EXCEPT ![c] = PageFor(Jar(c), FALSE)]
  /\ UNCHANGED <<active, tokens, jars, requests>>

\* A logout that did not get through.  The end of a session still opens
\* /login?signedout=1, where the middleware removes the cookies itself; the
\* button opens /login, which with live cookies leads back to the console.
OpenLogin(c) ==
  LET signedout == requests[c].then = "ended" IN
  /\ requests[c].phase = "lost"
  /\ pages' = [pages EXCEPT ![c] = PageFor(Jar(c), signedout)]
  /\ jars' = [jars EXCEPT ![DeviceOf[c]] =
                IF signedout /\ PageFor(@, signedout) = "login" THEN Null ELSE @]
  /\ End(c)
  /\ UNCHANGED <<active, tokens>>

\* The UPDATE that revokes its rows, once no refresh holds one of them.
RevokeRows(c) ==
  LET call == requests[c] IN
  /\ call.phase = "revoke"
  /\ \A t \in call.rows : ~Claimed(t)
  /\ tokens' = [t \in DOMAIN tokens |->
       IF t \in call.rows THEN [tokens[t] EXCEPT !.revoked = TRUE] ELSE tokens[t]]
  /\ Advance(c, IF call.then = "revoked" THEN NoRequest
           ELSE [call EXCEPT !.phase = call.then, !.rows = {}])
  /\ UNCHANGED <<active, jars, pages>>
-----------------------------------------------------------------------------
\* changePassword(): the new hash, then every token of the account, and then
\* a session for the tab that asked.
PasswordChange(c) ==
  /\ requests[c].phase = "idle" /\ pages[c] = "console"
  /\ Len(tokens) < MaxTokens /\ Jar(c) # Null
  /\ LET u == tokens[Jar(c)].user IN
     Advance(c, [NoRequest EXCEPT !.phase = "revoke", !.then = "issue", !.user = u,
                          !.rows = Unrevoked(OfUser(u))])
  /\ UNCHANGED <<active, tokens, jars, pages>>

\* An admin suspends an account or resets its password, or lets it in again.
AdminUpdate(c, u, suspending) ==
  /\ requests[c].phase = "idle"
  /\ active' = IF suspending THEN active \ {u} ELSE active
  /\ Advance(c, [NoRequest EXCEPT !.phase = "committed", !.user = u])
  /\ UNCHANGED <<tokens, jars, pages>>

AdminReactivate(u) ==
  /\ active' = active \cup {u}
  /\ UNCHANGED <<tokens, jars, pages, requests>>

\* revokeAllSessions(), after the commit.
RevokeAll(c) ==
  LET u == requests[c].user IN
  /\ requests[c].phase = "committed"
  /\ Advance(c, [requests[c] EXCEPT !.phase = "revoke", !.then = "revoked",
                            !.rows = Unrevoked(OfUser(u))])
  /\ UNCHANGED <<active, tokens, jars, pages>>

\* A call does not get through: its answer is lost, or the process or the
\* transaction dies and rolls back.  A refresh that fails ends the session
\* like a refused one; a failed transaction's answer clears the cookies too.
Dies(c) ==
  LET call == requests[c] IN
  /\ \/ /\ call.phase \in {"claim", "claimed"}
        /\ Enter(c, "refused")
     \/ /\ call.phase \in {"refresh", "revoke", "granted", "refused"}
        /\ call.then \in {"refresh", "refused"}
        /\ Advance(c, [NoRequest EXCEPT !.phase = "ending"])
     \/ /\ call.phase \in {"revoke", "signedOut", "ended"}
        /\ call.then \in {"signedOut", "ended"}
        /\ Advance(c, [NoRequest EXCEPT !.phase = "lost", !.then = call.then])
     \/ /\ call.phase \in {"issue", "committed", "revoke", "granted"}
        /\ call.then \in {Null, "issue", "revoked"}
        /\ End(c)
  /\ UNCHANGED <<active, tokens, jars, pages>>
-----------------------------------------------------------------------------
\* What goes on without anybody's doing: statements, answers, navigations.
SessionProgress(c) ==
  \/ Issue(c) \/ RefreshRead(c) \/ RefreshClaim(c) \/ RefreshCommit(c)
  \/ RevokeRows(c) \/ RevokeAll(c)
  \/ c \in Tabs /\ (Granted(c) \/ Refused(c) \/ EndSession(c) \/ LoggedOut(c) \/ OpenLogin(c))

SessionNext ==
  \/ \E c \in Clients : SessionProgress(c) \/ Dies(c)
  \/ \E c \in Tabs :
       \/ \E u \in Users : Login(c, u)
       \/ TryRefresh(c) \/ SignOut(c) \/ PasswordChange(c) \/ OpenPage(c)
  \/ \E u \in Users :
       \/ \E c \in AdminTabs, suspending \in BOOLEAN : AdminUpdate(c, u, suspending)
       \/ AdminReactivate(u)

\* Node answers or fails every request and the browser goes on with what it
\* got, so a call in flight is never left there.
SessionSpec ==
  /\ SessionInit /\ [][SessionNext]_sessionVars
  /\ \A c \in Clients : WF_sessionVars(SessionProgress(c))
-----------------------------------------------------------------------------
TokenRows == [user : Users, family : Nat, used : BOOLEAN, revoked : BOOLEAN]

RequestRows ==
  [phase : {"idle", "issue", "granted", "refresh", "claim", "claimed", "refused", "ending",
            "revoke", "signedOut", "ended", "lost", "committed"},
   user : Users \cup {Null}, token : DOMAIN tokens \cup {Null}, rows : SUBSET DOMAIN tokens,
   then : {"refresh", "refused", "signedOut", "ended", "issue", "revoked", Null}]

\* Types of the table, the cookies and what a call carries: cookies and calls
\* name tokens that were issued.
SessionTypeOK ==
  /\ active \subseteq Users
  /\ tokens \in Seq(TokenRows)
  /\ jars \in [Browsers -> DOMAIN tokens \cup {Null}]
  /\ pages \in [Tabs -> {"login", "console"}]
  /\ requests \in [Clients -> RequestRows]

\* auth.spec.ts, "two requests presenting the SAME token cannot both rotate":
\* however refreshes, logouts and resets interleave, a family never has two
\* tokens that still rotate.
OneLivePerFamily ==
  \A t, s \in DOMAIN tokens :
    Live(t) /\ Live(s) /\ tokens[t].family = tokens[s].family => t = s

\* A family that has ended: nothing in it rotates, or is about to.
Dead(f) == \A t \in Family(f) : ~Live(t)

\* A session that was ended (signed out, reset, suspended or reused) never
\* comes back, whatever a request had read before that.
EndedStaysEnded ==
  [][\A f \in 1 .. Len(tokens) : Dead(f) => Dead(f)']_sessionVars

\* api-client on endSession: no "loop whose only exit is clearing site data
\* by hand".  A tab whose session is over gets to the sign-in form.
EndingReachesLogin ==
  \A c \in Tabs : requests[c].phase = "ending" ~> pages[c] = "login"

\* Nothing waits for a row forever: every call in flight is answered.
CallsSettle == \A c \in Clients : requests[c].phase # "idle" ~> requests[c].phase = "idle"
=============================================================================

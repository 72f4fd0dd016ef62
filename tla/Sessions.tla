------------------------------- MODULE Sessions -------------------------------
(***************************************************************************)
(* Refresh tokens: Auth issues one at login, rotates it at each refresh,    *)
(* takes a rotated token that comes back for a stolen one and revokes its  *)
(* family, and ends every session of an employee whose status changes.     *)
(* The web keeps the tokens in the cookies of a browser, whose pages,      *)
(* timers and tabs renew them at the same time.                            *)
(*                                                                         *)
(* services/auth-service/src/auth/auth.service.ts with its repositories,    *)
(* setEmployeeStatus of onboarding.service.ts, src/proxy.ts and            *)
(* src/app/login/actions.ts.  A refresh is a transaction that locks the    *)
(* user row (FOR SHARE) and then the token row (FOR UPDATE): it is two or  *)
(* three steps here, the others are one.  The other clients of the API     *)
(* make the same calls as the browser.                                     *)
(***************************************************************************)
EXTENDS Naturals, Sequences, FiniteSets

CONSTANTS
  Users,
  Calls,       \* requests of the browser under way at once
  MaxTokens,   \* bound of the model on issued refresh tokens
  MaxVersion,  \* bound of the model on changes of an account
  None

ASSUME SessionsAssumption == MaxTokens \in Nat /\ MaxVersion \in Nat

VARIABLES
  account,  \* auth_users of onboarded users
  token,    \* auth_refresh_tokens, in the order of their creation
  call,     \* what each request is doing
  jar       \* cookies of the browser

vars == <<account, token, call, jar>>

\* state: live, expired, or why revoked_at is set.  family: the first token of the
\* login.  version: of the account when the token was issued.
Token == [user: Users, family: 1..MaxTokens, version: 0..MaxVersion,
          state: {"live", "expired", "rotated", "reused", "loggedOut", "statusChanged"}]

Tokens == DOMAIN token
Live(t) == token[t].state = "live"
Revoked(t) == token[t].state \notin {"live", "expired"}
FamilyOf(t) == {s \in Tokens : token[s].family = token[t].family}

Revoke(S, why) ==
  [t \in Tokens |-> IF t \in S /\ ~Revoked(t)
                    THEN [token[t] EXCEPT !.state = why] ELSE token[t]]

Issue(tokens, u, f, v) ==
  /\ Len(token) < MaxTokens                    \* bound of the model
  /\ token' = Append(tokens, [user |-> u, family |-> f, version |-> v, state |-> "live"])

\* kind: which action or route of the web.  token: the refresh token sent and
\* then, in a reply, the new one.  version: of the account as it was read.
\* scope: the rows revokeFamily found.
Call == [kind: {"idle", "navigate", "renew", "signOut", "signIn"},
         step: {"sent", "read", "rotating", "rejecting", "revoking", "replied"},
         user: Users \cup {None}, version: 0..MaxVersion \cup {None},
         token: 1..MaxTokens \cup {None}, scope: SUBSET (1..MaxTokens)]

Idle == [kind |-> "idle", step |-> "sent", user |-> None, version |-> None,
         token |-> None, scope |-> {}]

NoCookies == [access |-> "none", refresh |-> None]

Init ==
  /\ account = [u \in Users |-> [active |-> TRUE, version |-> 0]]
  /\ token = <<>>
  /\ call = [c \in Calls |-> Idle]
  /\ jar = NoCookies

------------------------------------------------------------------------------
\* Locks held by transactions under way.

TransactionOpen(c) == call[c].step \in {"rotating", "rejecting", "revoking"}
RowsOf(c) == IF TransactionOpen(c) THEN {call[c].token} ELSE {}
RowFree(t, c) == \A d \in Calls \ {c} : t \notin RowsOf(d)
UserRowFreeAlways(u) == u \in Users
UserRowFree(u) == \A c \in Calls : TransactionOpen(c) => call[c].user # u

Reply(c, t) ==
  call' = [call EXCEPT ![c] = [Idle EXCEPT !.kind = call[c].kind, !.step = "replied",
                                           !.token = t]]

------------------------------------------------------------------------------
\* AuthService.

\* login reads the user and verifies the password ...
LoginReads(c) ==
  /\ call[c].kind = "signIn" /\ call[c].step = "sent"
  /\ IF account[call[c].user].active
     THEN call' = [call EXCEPT ![c].step = "read",
                               ![c].version = account[call[c].user].version]
     ELSE Reply(c, None)
  /\ UNCHANGED <<account, token, jar>>

\* ... and createSession checks, in its transaction, that it did not change.
StillAsReadUnchecked(c) == call[c].version # None
StillAsRead(c) ==
  LET a == account[call[c].user] IN a.active /\ a.version = call[c].version

CreateSession(c) ==
  /\ call[c].kind = "signIn" /\ call[c].step = "read"
  /\ IF StillAsRead(c)
     THEN /\ Issue(token, call[c].user, Len(token) + 1, call[c].version)
          /\ Reply(c, Len(token) + 1)
     ELSE /\ Reply(c, None)
          /\ UNCHANGED token
  /\ UNCHANGED <<account, jar>>

Refreshes == {"navigate", "renew"}

\* refresh: findActiveByIdForSession, findByHashForUpdate, and what the two
\* rows call for: nothing if the token expired, the family if it was revoked
\* or the account disabled.
CanLockAlways(t, c) == t \in Tokens /\ c \in Calls
CanLock(t, c) == RowFree(t, c)

RefreshLocks(c) ==
  /\ call[c].kind \in Refreshes /\ call[c].step = "sent"
  /\ CanLock(call[c].token, c)
  /\ LET t == call[c].token
         a == account[token[t].user]
         Locked(step) == call' = [call EXCEPT
           ![c].step = step, ![c].user = token[t].user,
           ![c].version = IF a.active THEN a.version ELSE None]
     IN \/ Live(t) /\ a.active /\ Locked("rotating")
        \/ Revoked(t) /\ Locked("rejecting")
        \/ Live(t) /\ ~a.active /\ Locked("rejecting")
        \/ token[t].state = "expired" /\ Reply(c, None)
  /\ UNCHANGED <<account, token, jar>>

\* revokeFamily: the statement sees the rows that are committed when it
\* starts ...
RevokeFamilyStarts(c) ==
  /\ call[c].step = "rejecting"
  /\ call' = [call EXCEPT ![c].step = "revoking", ![c].scope = FamilyOf(call[c].token)]
  /\ UNCHANGED <<account, token, jar>>

\* ... and waits for those that another transaction has locked.
RevokeFamily(c) ==
  /\ call[c].step = "revoking"
  /\ \A t \in call[c].scope : RowFree(t, c)
  /\ token' = Revoke(call[c].scope, "reused")
  /\ Reply(c, None)
  /\ UNCHANGED <<account, jar>>

\* Two that wait for each other: PostgreSQL aborts one.
RevokeFamilyAborted(c) ==
  /\ call[c].step = "revoking"
  /\ \E d \in Calls \ {c} : call[d].step = "revoking"
       /\ call[c].token \in call[d].scope /\ call[d].token \in call[c].scope
  /\ Reply(c, None)
  /\ UNCHANGED <<account, token, jar>>

\* revokeForReplacement and create, in one transaction.
Replaced(c) == Revoke({call[c].token}, "rotated")

RefreshRotates(c) ==
  /\ call[c].step = "rotating"
  /\ Issue(Replaced(c), call[c].user, token[call[c].token].family, call[c].version)
  /\ Reply(c, Len(token) + 1)
  /\ UNCHANGED <<account, jar>>

\* logout with a refresh token: that token alone, if it is current.
LogoutByRefresh(c) ==
  /\ call[c].kind = "signOut" /\ call[c].step = "sent"
  /\ RowFree(call[c].token, c)
  /\ token' = IF Live(call[c].token) THEN Revoke({call[c].token}, "loggedOut") ELSE token
  /\ Reply(c, None)
  /\ UNCHANGED <<account, jar>>

\* logout of an API client that sends its access token: revokeAllForUser.  It
\* waits for a row that a refresh has locked, finds it rotated by then, and does
\* not see the token that replaces it.
LogoutByAccess(u) ==
  /\ account[u].active
  /\ token' = Revoke({t \in Tokens : token[t].user = u /\ \A c \in Calls : t \notin RowsOf(c)},
                     "loggedOut")
  /\ UNCHANGED <<account, call, jar>>

\* OnboardingService.setEmployeeStatus, as far as sessions go: it locks the
\* user row, and its update waits for the token rows.
SetEmployeeStatus(u) ==
  /\ account[u].version < MaxVersion           \* bound of the model
  /\ UserRowFree(u)
  /\ account' = [account EXCEPT ![u] = [active |-> ~@.active, version |-> @.version + 1]]
  /\ token' = Revoke({t \in Tokens : token[t].user = u}, "statusChanged")
  /\ UNCHANGED <<call, jar>>

TokenExpires(t) ==
  /\ Live(t)
  /\ token' = [token EXCEPT ![t].state = "expired"]
  /\ UNCHANGED <<account, call, jar>>

\* The reply is lost, or the request fails before Auth decides.
CallFails(c) ==
  /\ call[c].kind # "idle"
  /\ \/ call[c].step \in {"sent", "read"}
     \/ call[c].step = "replied" /\ call[c].token # None
  /\ Reply(c, None)
  /\ UNCHANGED <<account, token, jar>>

------------------------------------------------------------------------------
\* The web application, on behalf of one browser.

Send(c, kind, u, t) ==
  /\ call[c].kind = "idle"
  /\ call' = [call EXCEPT ![c] = [Idle EXCEPT !.kind = kind, !.user = u, !.token = t]]
  /\ UNCHANGED <<account, token, jar>>

\* proxy: a page is requested when the access token has a minute left or less.
Navigate(c) ==
  /\ jar.refresh # None /\ jar.access # "fresh"
  /\ Send(c, "navigate", None, jar.refresh)

\* refreshSession, by the timer or when a tab becomes visible.
Renew(c) == jar.refresh # None /\ Send(c, "renew", None, jar.refresh)

SignIn(c, u) == Send(c, "signIn", u, None)

SignOut(c) == jar.refresh # None /\ Send(c, "signOut", None, jar.refresh)

AccessExpires ==
  /\ jar.access = "fresh"
  /\ jar' = [jar EXCEPT !.access = "expiring"]
  /\ UNCHANGED <<account, token, call>>

\* The response sets or clears the cookies as it arrives.  sessionFallback
\* clears them on the storefront; from the other pages it redirects to the
\* login and leaves them.
CookiesAfter(c) ==
  CASE call[c].token # None -> {[access |-> "fresh", refresh |-> call[c].token]}
    [] call[c].token = None /\ call[c].kind = "navigate" -> {NoCookies, jar}
    [] call[c].token = None /\ call[c].kind = "signOut" -> {NoCookies}
    [] OTHER -> {jar}

Return(c) ==
  /\ call[c].step = "replied"
  /\ jar' \in CookiesAfter(c)
  /\ call' = [call EXCEPT ![c] = Idle]
  /\ UNCHANGED <<account, token>>

Next ==
  \/ \E c \in Calls :
       \/ LoginReads(c) \/ CreateSession(c)
       \/ RefreshLocks(c) \/ RevokeFamilyStarts(c) \/ RevokeFamily(c) \/ RevokeFamilyAborted(c)
       \/ RefreshRotates(c) \/ LogoutByRefresh(c) \/ CallFails(c)
       \/ Navigate(c) \/ Renew(c)
       \/ SignOut(c) \/ Return(c)
       \/ \E u \in Users : SignIn(c, u)
  \/ \E u \in Users : SetEmployeeStatus(u) \/ LogoutByAccess(u)
  \/ \E t \in Tokens : TokenExpires(t)
  \/ AccessExpires

Spec == Init /\ [][Next]_vars

------------------------------------------------------------------------------
\* Properties.

TypeOK ==
  /\ account \in [Users -> [active: BOOLEAN, version: 0..MaxVersion]]
  /\ token \in Seq(Token)
  /\ call \in [Calls -> Call]
  /\ jar \in [access: {"none", "fresh", "expiring"}, refresh: 1..MaxTokens \cup {None}]

\* No session survives a change of status, whatever login or refresh was
\* under way: a token that can still be exchanged was issued to the account
\* as it stands ("Reactivar ... no recupera sesiones").
LiveTokenIsOfEnabledVersion ==
  \A t \in Tokens : Live(t) =>
    account[token[t].user].active /\ account[token[t].user].version = token[t].version

\* Of two refreshes with one token at most one wins: a login never has two
\* tokens that can be exchanged.
OneLiveTokenPerFamily ==
  \A t \in Tokens : Live(t) => \A s \in FamilyOf(t) : Live(s) => s = t

\* A login whose tokens were all revoked, by logout, reuse or a change of
\* status, is not continued by a refresh that was under way.
Ended(t) == \A s \in FamilyOf(t) : Revoked(s)
EndedFamilyStaysEnded == [][\A t \in Tokens : Ended(t) => Ended(t)']_vars

\* "Keeps an active, HTTP-only session fresh" (session-refresher.tsx): the
\* browser's own renewals do not end its session.  Violated.
RenewalsKeepTheSession ==
  (\A c \in Calls : call[c] = Idle) /\ jar.refresh # None =>
    token[jar.refresh].state # "reused"
==============================================================================

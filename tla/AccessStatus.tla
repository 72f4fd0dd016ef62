----------------------------- MODULE AccessStatus -----------------------------
(***************************************************************************)
(* How a business service decides that an access token still stands for an *)
(* enabled identity: it asks Auth, keeps a positive answer for CacheTtl     *)
(* from the start of the question, shares a running question among the     *)
(* callers that wait for it, and refuses when Auth does not answer.        *)
(* Callers are HTTP requests and the open sockets of Realtime, which ask   *)
(* again every PollEvery.                                                  *)
(*                                                                         *)
(* services/orders-service/src/auth/auth-status.client.ts (the other seven *)
(* services hold copies), the guards, and realtime.gateway.ts.  One        *)
(* process of one service: each has a cache of its own.                    *)
(***************************************************************************)
EXTENDS Integers

CONSTANTS
  Users,
  Requests,      \* HTTP requests under way at once
  Sockets,       \* sockets of Realtime
  CacheTtl,      \* cacheMilliseconds
  FetchTimeout,  \* timeoutMilliseconds
  PollEvery,     \* between two checks of an open socket
  Expiries,      \* instants at which access tokens run out
  MaxVersion,    \* bound of the model on changes of an account
  MaxTime,       \* bound of the model on the clock
  None

ASSUME AccessStatusAssumption ==
  /\ CacheTtl \in Nat \ {0}
  /\ FetchTimeout \in 1..CacheTtl - 1
  /\ PollEvery \in Nat \ {0}
  /\ Expiries \subseteq Nat
  /\ MaxVersion \in Nat /\ MaxTime \in Nat
  /\ Requests \cap Sockets = {}

VARIABLES
  now,
  account,    \* auth_users: is_active and auth_version of an onboarded user
  since,      \* since[u][v]: when version v of u began
  cache,      \* AuthStatusClient.cache: the entry of each user, or None
  pending,    \* AuthStatusClient.pending
  caller      \* what each request or socket is doing

authVars == <<account, since>>
accessVars == <<now, authVars, cache, pending, caller>>

Callers == Requests \cup Sockets

Versions == 0..MaxVersion
Status == [active: BOOLEAN, version: Versions]

\* A positive answer and until when it serves; a question that is under way.
Entry == [status: Status, expiresAt: 0..MaxTime + CacheTtl]
Question == [startedAt: 0..MaxTime, answer: Status \cup {None}]

ASSUME NoneIsAbsence == None \notin Status \cup Entry \cup Question

\* What a verified access token says.
Claims == [user: Users, version: Versions, exp: Expiries]

\* step of a request: idle, waiting, granted, refused.
\* step of a socket: idle (closed), waiting (handshake), open, checking.
Caller == [step: {"idle", "waiting", "granted", "refused", "open", "checking"},
           claims: Claims \cup {None}, due: 0..MaxTime + PollEvery]

At(step, k, due) == [step |-> step, claims |-> k, due |-> due]
Closed == At("idle", None, 0)

AccessInit ==
  /\ now = 0
  /\ account = [u \in Users |-> [active |-> TRUE, version |-> 0]]
  /\ since = [u \in Users |-> [v \in Versions |-> 0]]
  /\ cache = [u \in Users |-> None]
  /\ pending = [u \in Users |-> None]
  /\ caller = [c \in Callers |-> Closed]

------------------------------------------------------------------------------
\* Auth: the account changes, and the private API reports it.

SetEmployeeStatus(u) ==
  /\ account[u].version < MaxVersion           \* bound of the model
  /\ account' = [account EXCEPT ![u] = [active |-> ~@.active, version |-> @.version + 1]]
  /\ since' = [since EXCEPT ![u][account[u].version + 1] = now]
  /\ UNCHANGED <<now, cache, pending, caller>>

\* An access token was issued for a version while it was active.
Issued(u) == {v \in 0..account[u].version : v % 2 = 0}

IdentityStatus(u) ==
  /\ pending[u] # None /\ pending[u].answer = None
  /\ pending' = [pending EXCEPT ![u].answer = account[u]]
  /\ UNCHANGED <<now, authVars, cache, caller>>

------------------------------------------------------------------------------
\* AuthStatusClient.

FreshForEver(u) == cache[u] # None
Fresh(u) == cache[u] # None /\ cache[u].expiresAt > now

\* The comparison at the end of isActive.
Accepts(status, k) ==
  status # None /\ status.active /\ status.version = k.version /\ k.exp > now

\* "Age starts BEFORE the request".  Only enabled identities are remembered.
EntryOfAnswerAged(u) == [status |-> pending[u].answer, expiresAt |-> now + CacheTtl]
EntryOf(u) == [status |-> pending[u].answer, expiresAt |-> pending[u].startedAt + CacheTtl]

Remember(u, e) ==
  cache' = IF e.status.active /\ e.expiresAt > now THEN [cache EXCEPT ![u] = e] ELSE cache

\* Answers about other identities fill the cache: its oldest entry goes.
Evicted(u) ==
  /\ cache[u] # None
  /\ cache' = [cache EXCEPT ![u] = None]
  /\ UNCHANGED <<now, authVars, pending, caller>>

------------------------------------------------------------------------------
\* JwtAuthGuard and RealtimeGateway.

\* What becomes of a caller whose isActive returned ok.
Decided(c, k, ok) ==
  CASE c \in Requests -> At(IF ok THEN "granted" ELSE "refused", k, 0)
    [] c \in Sockets /\ ok -> At("open", k, now + PollEvery)
    [] OTHER -> Closed

\* isActive up to its first await.
IsActiveAtOnce(c, k) ==
  /\ k.exp <= now \/ Fresh(k.user)
  /\ caller' = [caller EXCEPT
       ![c] = Decided(c, k, k.exp > now /\ Accepts(cache[k.user].status, k))]
  /\ UNCHANGED <<cache, pending>>

IsActiveAwaits(c, k, step) ==
  /\ k.exp > now /\ ~Fresh(k.user)
  /\ cache' = [cache EXCEPT ![k.user] = None]
  /\ pending' = [pending EXCEPT ![k.user] =
       IF @ = None THEN [startedAt |-> now, answer |-> None] ELSE @]
  /\ caller' = [caller EXCEPT ![c] = At(step, k, 0)]

IsActive(c, k, step) == IsActiveAtOnce(c, k) \/ IsActiveAwaits(c, k, step)

\* verifyAccessToken.
Verifies(k) == k.version \in Issued(k.user) /\ k.exp > now

\* A request reaches the guard of a service.
CanActivate(r, k) ==
  /\ caller[r].step \in {"idle", "granted", "refused"}
  /\ Verifies(k)
  /\ IsActive(r, k, "waiting")
  /\ UNCHANGED <<now, authVars>>

\* A socket of the dashboard reaches its handshake.
Handshake(s, k) ==
  /\ caller[s] = Closed
  /\ Verifies(k)
  /\ IsActive(s, k, "waiting")
  /\ UNCHANGED <<now, authVars>>

CheckSocket(s) ==
  /\ caller[s].step = "open" /\ caller[s].due <= now
  /\ IsActive(s, caller[s].claims, "checking")
  /\ UNCHANGED <<now, authVars>>

HandleDisconnect(s) ==
  /\ caller[s].step \in {"waiting", "open", "checking"}
  /\ caller' = [caller EXCEPT ![s] = Closed]
  /\ UNCHANGED <<now, authVars, cache, pending>>

Awaiting(u) ==
  {c \in Callers : caller[c].step \in {"waiting", "checking"} /\ caller[c].claims.user = u}

DecideAll(u, status) ==
  caller' = [c \in Callers |->
    IF c \in Awaiting(u)
    THEN Decided(c, caller[c].claims, Accepts(status, caller[c].claims))
    ELSE caller[c]]

\* fetchStatus resolves: everyone who awaited it continues at once.
FetchAnswered(u) ==
  /\ pending[u] # None /\ pending[u].answer # None
  /\ Remember(u, EntryOf(u))
  /\ pending' = [pending EXCEPT ![u] = None]
  /\ DecideAll(u, pending[u].answer)
  /\ UNCHANGED <<now, authVars>>

\* The time-out, a refused connection or a bad answer.
FetchFailedOpen(u) ==
  /\ pending[u] # None
  /\ pending' = [pending EXCEPT ![u] = None]
  /\ caller' = [c \in Callers |->
       IF c \in Awaiting(u) THEN Decided(c, caller[c].claims, caller[c].step = "checking")
       ELSE caller[c]]
  /\ UNCHANGED <<now, authVars, cache>>
FetchFailed(u) ==
  /\ pending[u] # None
  /\ pending' = [pending EXCEPT ![u] = None]
  /\ DecideAll(u, None)
  /\ UNCHANGED <<now, authVars, cache>>

\* Timers fire before the clock goes on: the time-out of a question, the next
\* check of an open socket.
Tick ==
  /\ now < MaxTime                                 \* bound of the model
  /\ \A u \in Users : pending[u] # None => now < pending[u].startedAt + FetchTimeout
  /\ \A s \in Sockets : caller[s].step = "open" => now < caller[s].due
  /\ now' = now + 1
  /\ UNCHANGED <<authVars, cache, pending, caller>>

AccessNext ==
  \/ \E u \in Users :
       SetEmployeeStatus(u) \/ IdentityStatus(u) \/ FetchAnswered(u) \/ FetchFailed(u)
       \/ Evicted(u)
  \/ \E k \in Claims :
       (\E r \in Requests : CanActivate(r, k)) \/ (\E s \in Sockets : Handshake(s, k))
  \/ \E s \in Sockets : CheckSocket(s) \/ HandleDisconnect(s)
  \/ Tick

AccessSpec == AccessInit /\ [][AccessNext]_accessVars

------------------------------------------------------------------------------
\* Properties.

AccessTypeOK ==
  /\ now \in 0..MaxTime
  /\ account \in [Users -> Status]
  /\ since \in [Users -> [Versions -> 0..MaxTime]]
  /\ cache \in [Users -> Entry \cup {None}]
  /\ pending \in [Users -> Question \cup {None}]
  /\ caller \in [Callers -> Caller]

\* The claims' version was the enabled version of the account at some moment
\* of the last d units of time.
ValidWithin(k, d) ==
  \/ account[k.user].version = k.version
  \/ now < since[k.user][k.version + 1] + d

\* A request is granted only to an identity that was enabled in that version
\* no longer than CacheTtl ago, and only while its token lives ("El cache
\* positivo dura como maximo 30 segundos desde el inicio de la consulta").
GrantedWasValid ==
  [][\A r \in Requests :
       caller'[r].step = "granted" /\ caller'[r] # caller[r] =>
         ValidWithin(caller'[r].claims, CacheTtl) /\ caller'[r].claims.exp > now]_accessVars

\* A socket outlives the identity it was opened for by no more than the cached
\* answer, one poll and one question: 30, 1 and 3 seconds, within the 35 of
\* cuentas-contrato.md:75.
OpenSocketWasValid ==
  \A s \in Sockets : caller[s].step \in {"open", "checking"} =>
    ValidWithin(caller[s].claims, CacheTtl + PollEvery + FetchTimeout)

\* A current identity with a live token is refused only by a question that
\* Auth did not answer, or while an answer about its former version may still
\* be cached.
RefusedHasCause ==
  [][\A r \in Requests :
       LET k == caller'[r].claims IN
       caller'[r].step = "refused" /\ caller'[r] # caller[r] =>
         \/ k.exp <= now
         \/ ~(account[k.user].active /\ account[k.user].version = k.version)
         \/ now < since[k.user][k.version] + CacheTtl
         \/ pending[k.user] # None /\ pending'[k.user] = None /\ cache' = cache]_accessVars
==============================================================================

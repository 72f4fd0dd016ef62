------------------------------- MODULE AuthProofs -------------------------------
(***************************************************************************)
(* Proofs about Sessions and Onboarding, for any users, requests, workers  *)
(* and any bounds.                                                         *)
(*                                                                         *)
(* Sessions: its types, and what rotation, reuse detection, logout and a   *)
(* change of status guarantee together.  The guarantees rest on the locks. *)
(* A refresh holds its token's row between reading and replacing it        *)
(* (RowsAreLocked), so what it read is still so when it rotates            *)
(* (CallIsSound), and only the last token of a family is ever alive        *)
(* (LiveIsLast).                                                           *)
(*                                                                         *)
(* Onboarding: one link opens an account (LinksAreTrue: the current one is *)
(* the newest challenge of a pending, enabled account), every attempt that *)
(* ended is reported, and what Auth shows of a mail follows the attempts.  *)
(* The last two rest on the attempt's number: a claim raises it or finds   *)
(* it unreported (ReportsAreTrue), so a worker whose number is still that  *)
(* of a delivery under way is alone with it.                               *)
(***************************************************************************)
EXTENDS Sessions, Onboarding, SequenceTheorems, FiniteSetTheorems, TLAPS

\* Sessions.

\* The newest token of its login.
LastOfFamily(t) == \A s \in FamilyOf(t) : s <= t

\* What a request under way knows names existing rows, and a refresh that
\* decided to rotate decided on what is still so.
CallIsSound(c) ==
  /\ call[c].token \in Tokens \cup {None}
  /\ call[c].kind = "signIn" /\ call[c].step # "replied" => call[c].user \in Users
  /\ call[c].kind \in Refreshes \cup {"signOut"} /\ call[c].step = "sent" =>
       call[c].token \in Tokens
  /\ TransactionOpen(c) =>
       call[c].token \in Tokens /\ call[c].user = token[call[c].token].user
  /\ call[c].step = "rotating" =>
       /\ ~Revoked(call[c].token) /\ LastOfFamily(call[c].token)
       /\ account[call[c].user].active
       /\ account[call[c].user].version = call[c].version

CallsAreSound == \A c \in Calls : CallIsSound(c)

\* FOR UPDATE: no two transactions hold one token.
RowsAreLocked ==
  \A c, d \in Calls :
    TransactionOpen(c) /\ TransactionOpen(d) /\ c # d => call[c].token # call[d].token

FamiliesComeFirst == \A t \in Tokens : token[t].family <= t

LiveIsLast == \A t \in Tokens : Live(t) => LastOfFamily(t)

SessionsInv ==
  /\ TypeOK
  /\ Len(token) <= MaxTokens
  /\ jar.refresh \in Tokens \cup {None}
  /\ FamiliesComeFirst
  /\ LiveIsLast
  /\ LiveTokenIsOfEnabledVersion
  /\ CallsAreSound
  /\ RowsAreLocked

------------------------------------------------------------------------------
\* Changes of the token table.

Reasons == {"rotated", "reused", "loggedOut", "statusChanged"}

\* new holds the same tokens, none of them better off.
Fades(new) ==
  /\ new \in Seq(Token)
  /\ Len(new) = Len(token)
  /\ \A t \in Tokens :
       /\ new[t].user = token[t].user
       /\ new[t].family = token[t].family
       /\ new[t].version = token[t].version
       /\ new[t].state = "live" => Live(t)
       /\ new[t].state \in {"live", "expired"} => ~Revoked(t)

\* The table is a sequence of rows, numbered from one.
LEMMA TokenTable ==
  ASSUME TypeOK
  PROVE  /\ Len(token) \in Nat
         /\ Tokens = 1..Len(token)
         /\ \A t \in Tokens : token[t] \in Token
BY LenProperties DEF TypeOK, Tokens

\* A row whose state alone changes is a row.
LEMMA StateChange ==
  ASSUME NEW old \in Token, NEW s \in Reasons \cup {"expired"}
  PROVE  /\ [old EXCEPT !.state = s] \in Token
         /\ [old EXCEPT !.state = s].user = old.user
         /\ [old EXCEPT !.state = s].family = old.family
         /\ [old EXCEPT !.state = s].version = old.version
         /\ [old EXCEPT !.state = s].state = s
BY DEF Token, Reasons

\* Revocation leaves no row of the set unrevoked, and none of the table better
\* off.
LEMMA RevokeFades ==
  ASSUME TypeOK, NEW S, NEW why \in Reasons
  PROVE  /\ Fades(Revoke(S, why))
         /\ \A t \in Tokens : t \in S => Revoke(S, why)[t].state \notin {"live", "expired"}
         /\ \A t \in Tokens : t \notin S => Revoke(S, why)[t] = token[t]
<1> DEFINE new == Revoke(S, why)
<1>1. \A t \in Tokens : new[t] = IF t \in S /\ ~Revoked(t)
                                  THEN [token[t] EXCEPT !.state = why] ELSE token[t]
  BY DEF Revoke
<1>2. /\ Len(token) \in Nat /\ Tokens = 1..Len(token)
      /\ \A t \in Tokens : token[t] \in Token
  BY TokenTable
<1>3. ASSUME NEW t \in Tokens
      PROVE  /\ new[t] \in Token
             /\ new[t].user = token[t].user
             /\ new[t].family = token[t].family
             /\ new[t].version = token[t].version
             /\ new[t].state = "live" => Live(t)
             /\ new[t].state \in {"live", "expired"} => ~Revoked(t)
             /\ t \in S => new[t].state \notin {"live", "expired"}
             /\ t \notin S => new[t] = token[t]
  <2> HIDE DEF new
  <2>1. why \notin {"live", "expired"}
    BY DEF Reasons
  <2>2. CASE t \in S /\ ~Revoked(t)
    <3>1. new[t] = [token[t] EXCEPT !.state = why]
      BY <1>1, <2>2
    <3> QED BY <1>2, <2>1, <2>2, <3>1, StateChange
  <2>3. CASE ~(t \in S /\ ~Revoked(t))
    <3>1. new[t] = token[t]
      BY <1>1, <2>3
    <3> QED BY <1>2, <2>3, <3>1 DEF Live, Revoked
  <2> QED BY <2>2, <2>3
<1>4. new \in [1..Len(token) -> Token]
  BY <1>2, <1>3 DEF Revoke
<1>5. new \in Seq(Token)
  BY <1>2, <1>4, SeqDef
<1>6. Len(new) = Len(token)
  <2>1. DOMAIN new = 1..Len(token) /\ DOMAIN new = 1..Len(new) /\ Len(new) \in Nat
    BY <1>4, <1>5, LenProperties
  <2> QED BY <1>2, <2>1
<1> QED BY <1>3, <1>5, <1>6 DEF Fades

\* A refresh token that expires leaves none better off.
LEMMA ExpiryFades ==
  ASSUME TypeOK, NEW x \in Tokens, TokenExpires(x)
  PROVE  /\ Fades(token')
         /\ \A t \in Tokens : Revoked(t)' = Revoked(t)
<1>1. Live(x) /\ token' = [token EXCEPT ![x].state = "expired"]
  BY DEF TokenExpires
<1>2. /\ Len(token) \in Nat /\ Tokens = 1..Len(token) /\ token \in Seq(Token)
      /\ \A t \in Tokens : token[t] \in Token
  BY TokenTable DEF TypeOK
<1> DEFINE row == [token[x] EXCEPT !.state = "expired"]
<1>3. /\ row \in Token /\ row.user = token[x].user /\ row.family = token[x].family
      /\ row.version = token[x].version /\ row.state = "expired"
  BY <1>2, StateChange
<1>4. token' = [token EXCEPT ![x] = row]
  BY <1>1
<1> HIDE DEF row
<1>5. /\ token' \in Seq(Token) /\ Len(token') = Len(token)
      /\ \A t \in Tokens : token'[t] = IF t = x THEN row ELSE token[t]
  BY <1>2, <1>3, <1>4, ExceptSeq
<1> QED BY <1>1, <1>3, <1>5 DEF Fades, Live, Revoked

\* A table that stays as it is leaves none better off.
LEMMA KeptFades ==
  ASSUME TypeOK, UNCHANGED token
  PROVE  Fades(token')
BY DEF Fades, TypeOK, Live, Revoked

\* A new row goes last, behind rows that were at best left as they were.
LEMMA IssueAppends ==
  ASSUME TypeOK, NEW mid, Fades(mid), NEW u \in Users, NEW f \in 1..MaxTokens,
         NEW v \in 0..MaxVersion, Issue(mid, u, f, v)
  PROVE  /\ Len(token) < MaxTokens
         /\ token' \in Seq(Token)
         /\ Len(token') = Len(token) + 1
         /\ \A t \in Tokens : token'[t] = mid[t]
         /\ token'[Len(token) + 1].user = u
         /\ token'[Len(token) + 1].family = f
         /\ token'[Len(token) + 1].version = v
<1> DEFINE row == [user |-> u, family |-> f, version |-> v, state |-> "live"]
<1>1. row \in Token /\ row.user = u /\ row.family = f /\ row.version = v
  BY DEF Token
<1>2. Len(token) < MaxTokens /\ token' = Append(mid, row)
  BY DEF Issue
<1> HIDE DEF row
<1>3. mid \in Seq(Token) /\ Len(mid) = Len(token)
  BY DEF Fades
<1>4. /\ token' \in Seq(Token) /\ Len(token') = Len(mid) + 1
      /\ \A i \in 1..Len(mid) : token'[i] = mid[i]
      /\ token'[Len(mid) + 1] = row
  BY <1>1, <1>2, <1>3, AppendProperties
<1> QED BY <1>1, <1>2, <1>3, <1>4, TokenTable
------------------------------------------------------------------------------
\* What those changes do to the invariant's parts about tokens.

\* No token added: families, their last tokens and their versions stay.
LEMMA TableKept ==
  ASSUME SessionsInv, Fades(token')
  PROVE  /\ Tokens' = Tokens
         /\ Len(token') <= MaxTokens
         /\ FamiliesComeFirst'
         /\ LiveIsLast'
         /\ \A t \in Tokens : LastOfFamily(t) => LastOfFamily(t)'
         /\ UNCHANGED account => LiveTokenIsOfEnabledVersion'
<1>1. Tokens = 1..Len(token)
  BY TokenTable DEF SessionsInv
<1>2. Tokens' = 1..Len(token')
  BY LenProperties DEF Fades, Tokens
<1>3. Tokens' = Tokens /\ Len(token') <= MaxTokens
  BY <1>1, <1>2 DEF Fades, SessionsInv
<1>4. \A t \in Tokens : FamilyOf(t)' = FamilyOf(t)
  BY <1>3 DEF Fades, FamilyOf
<1>5. \A t \in Tokens : LastOfFamily(t) => LastOfFamily(t)'
  BY <1>4 DEF LastOfFamily
<1>6. \A t \in Tokens : Live(t)' => Live(t)
  BY DEF Fades, Live
<1>7. FamiliesComeFirst'
  BY <1>3 DEF Fades, SessionsInv, FamiliesComeFirst
<1>8. LiveIsLast'
  BY <1>3, <1>5, <1>6 DEF SessionsInv, LiveIsLast
<1>9. UNCHANGED account => LiveTokenIsOfEnabledVersion'
  BY <1>3, <1>6 DEF Fades, SessionsInv, LiveTokenIsOfEnabledVersion
<1> QED BY <1>3, <1>5, <1>7, <1>8, <1>9

\* A token added to a family of its own, or behind the last one of a family,
\* which can no longer be exchanged.
LEMMA TableGrown ==
  ASSUME SessionsInv, NEW mid, Fades(mid), NEW u \in Users, NEW f \in 1..MaxTokens,
         NEW v \in 0..MaxVersion, Issue(mid, u, f, v), UNCHANGED account,
         account[u].active, account[u].version = v, f <= Len(token) + 1,
         \A t \in Tokens : token[t].family = f /\ LastOfFamily(t) => mid[t].state # "live"
  PROVE  /\ token' \in Seq(Token)
         /\ Tokens' = Tokens \cup {Len(token) + 1}
         /\ Len(token') <= MaxTokens
         /\ FamiliesComeFirst'
         /\ LiveIsLast'
         /\ LiveTokenIsOfEnabledVersion'
         /\ \A t \in Tokens : token'[t] = mid[t]
         /\ \A t \in Tokens : LastOfFamily(t) /\ token[t].family # f => LastOfFamily(t)'
<1>1. Tokens = 1..Len(token) /\ Len(token) \in Nat /\ \A t \in Tokens : token[t] \in Token
  BY TokenTable DEF SessionsInv
<1>n. PICK n \in Nat : n = Len(token) + 1
  BY <1>1
<1>2. /\ Len(token) < MaxTokens
      /\ token' \in Seq(Token)
      /\ Len(token') = n
      /\ \A t \in Tokens : token'[t] = mid[t]
      /\ token'[n].user = u /\ token'[n].family = f /\ token'[n].version = v
  BY <1>n, IssueAppends DEF SessionsInv
<1>3. Tokens' = 1..n
  BY <1>2, LenProperties DEF Tokens
<1>4. Tokens' = Tokens \cup {n} /\ n \notin Tokens
  BY <1>1, <1>3, <1>n
<1>5. Len(token') <= MaxTokens
  BY <1>n, <1>1, <1>2, SessionsAssumption DEF SessionsAssumption
<1>6. \A t \in Tokens : /\ token'[t].family = token[t].family
                        /\ token'[t].user = token[t].user
                        /\ token'[t].version = token[t].version
                        /\ token'[t].state = "live" =>
                             token[t].state = "live" /\ mid[t].state = "live"
  BY <1>2 DEF Fades, Live
<1>7. FamiliesComeFirst'
  BY <1>n, <1>2, <1>4, <1>6 DEF SessionsInv, FamiliesComeFirst
<1>8. ASSUME NEW t \in Tokens, LastOfFamily(t), token[t].family # f
      PROVE  LastOfFamily(t)'
  <2>1. FamilyOf(t)' = FamilyOf(t)
    BY <1>2, <1>4, <1>6, <1>8 DEF FamilyOf
  <2> QED BY <1>8, <2>1 DEF LastOfFamily
<1>9. LastOfFamily(n)'
  BY <1>1, <1>3 DEF LastOfFamily, FamilyOf
<1>10. LiveIsLast'
  <2>1. ASSUME NEW t \in Tokens', Live(t)'
        PROVE  LastOfFamily(t)'
    <3>1. CASE t = n
      BY <1>9, <3>1
    <3>2. CASE t \in Tokens
      <4>1. Live(t) /\ mid[t].state = "live"
        BY <1>6, <2>1, <3>2 DEF Live
      <4>2. LastOfFamily(t) /\ token[t].family # f
        BY <3>2, <4>1 DEF SessionsInv, LiveIsLast
      <4> QED BY <1>8, <3>2, <4>2
    <3> QED BY <1>4, <2>1, <3>1, <3>2
  <2> QED BY <2>1 DEF LiveIsLast
<1>11. LiveTokenIsOfEnabledVersion'
  BY <1>2, <1>4, <1>6 DEF SessionsInv, LiveTokenIsOfEnabledVersion, Live
<1> QED BY <1>n, <1>2, <1>4, <1>5, <1>7, <1>8, <1>10, <1>11

------------------------------------------------------------------------------
\* Requests under way.

\* A request left alone stays sound if its rows, and the account it read, do.
LEMMA OtherStaysSound ==
  ASSUME SessionsInv, NEW d \in Calls, call'[d] = call[d], Tokens \subseteq Tokens',
         \A t \in Tokens : token'[t].user = token[t].user,
         call[d].step = "rotating" =>
           /\ token'[call[d].token].state \in {"live", "expired"}
           /\ LastOfFamily(call[d].token)'
           /\ account'[call[d].user] = account[call[d].user]
  PROVE  CallIsSound(d)'
<1>1. CallIsSound(d)
  BY DEF SessionsInv, CallsAreSound
<1> QED BY <1>1 DEF CallIsSound, TransactionOpen, Revoked

\* A reply ends a transaction, and a request it answers is sound.
LEMMA ReplyFacts ==
  ASSUME TypeOK, NEW c \in Calls, NEW t \in 1..MaxTokens \cup {None}, Reply(c, t)
  PROVE  /\ call' \in [Calls -> Call]
         /\ \A d \in Calls \ {c} : call'[d] = call[d]
         /\ call'[c].step = "replied"
         /\ call'[c].token = t
<1> DEFINE new == [Idle EXCEPT !.kind = call[c].kind, !.step = "replied", !.token = t]
<1>1. call[c].kind \in {"idle", "navigate", "renew", "signOut", "signIn"}
  BY DEF TypeOK, Call
<1>2. new \in Call /\ new.step = "replied" /\ new.token = t
  BY <1>1 DEF Call, Idle
<1>3. call' = [call EXCEPT ![c] = new]
  BY DEF Reply
<1> HIDE DEF new
<1> QED BY <1>2, <1>3 DEF TypeOK

\* A request that did no more than begin, read or reply holds no lock.
LEMMA LocksKept ==
  ASSUME SessionsInv, NEW c \in Calls, \A d \in Calls \ {c} : call'[d] = call[d],
         TransactionOpen(c)' => TransactionOpen(c) /\ call'[c].token = call[c].token
  PROVE  RowsAreLocked'
BY DEF SessionsInv, RowsAreLocked, TransactionOpen
\* A step that adds no token and changes no account keeps the invariant, if
\* the requests it serves stay sound and it spares the tokens of the others'
\* rotations.
LEMMA FadingStep ==
  ASSUME SessionsInv, NEW C \in SUBSET Calls, call' \in [Calls -> Call],
         \A d \in Calls \ C : call'[d] = call[d],
         \A c \in C : CallIsSound(c)',
         \A d \in Calls \ C : call[d].step = "rotating" => ~Revoked(call[d].token)',
         RowsAreLocked', Fades(token'), UNCHANGED account,
         jar' \in [access : {"none", "fresh", "expiring"}, refresh : 1..MaxTokens \cup {None}],
         jar'.refresh \in Tokens \cup {None}
  PROVE  SessionsInv'
<1>1. /\ Tokens' = Tokens
      /\ Len(token') <= MaxTokens
      /\ FamiliesComeFirst'
      /\ LiveIsLast'
      /\ \A t \in Tokens : LastOfFamily(t) => LastOfFamily(t)'
      /\ LiveTokenIsOfEnabledVersion'
  BY TableKept
<1>2. TypeOK'
  BY DEF SessionsInv, TypeOK, Fades
<1>3. CallsAreSound'
  <2>1. ASSUME NEW d \in Calls \ C
        PROVE  CallIsSound(d)'
    <3>1. CallIsSound(d)
      BY DEF SessionsInv, CallsAreSound
    <3>2. \A t \in Tokens : token'[t].user = token[t].user
      BY DEF Fades
    <3>3. ASSUME call[d].step = "rotating"
          PROVE  /\ token'[call[d].token].state \in {"live", "expired"}
                 /\ LastOfFamily(call[d].token)'
                 /\ account'[call[d].user] = account[call[d].user]
      <4>1. call[d].token \in Tokens /\ LastOfFamily(call[d].token)
        BY <3>1, <3>3 DEF CallIsSound, TransactionOpen
      <4>2. PICK t \in Tokens : t = call[d].token
        BY <4>1
      <4>3. LastOfFamily(t)'
        BY <1>1, <4>1, <4>2
      <4>4. call'[d].token = t
        BY <4>2
      <4>5. call'[d] = call[d]
        BY <2>1
      <4>6. LastOfFamily(call[d].token)'
        BY <4>3, <4>4, <4>5 DEF LastOfFamily, FamilyOf
      <4>7. token'[call[d].token].state \in {"live", "expired"}
        BY <2>1, <3>3, <4>5 DEF Revoked
      <4> QED BY <4>6, <4>7
    <3> QED BY <1>1, <2>1, <3>2, <3>3, OtherStaysSound
  <2> QED BY <2>1 DEF CallsAreSound
<1> QED BY <1>1, <1>2, <1>3 DEF SessionsInv
\* A reply that names a known token or none, and revocations that spare the
\* rows locked by others, keep the invariant.
LEMMA ReplyStep ==
  ASSUME SessionsInv, NEW c \in Calls, NEW t \in Tokens \cup {None}, Reply(c, t),
         \A d \in Calls \ {c} : call[d].step = "rotating" =>
           token'[call[d].token].state \in {"live", "expired"},
         Fades(token'), UNCHANGED <<account, jar>>
  PROVE  SessionsInv'
<1>1. t \in 1..MaxTokens \cup {None}
  BY TokenTable, SessionsAssumption DEF SessionsInv, SessionsAssumption
<1>2. /\ call' \in [Calls -> Call]
      /\ \A d \in Calls \ {c} : call'[d] = call[d]
      /\ call'[c].step = "replied"
      /\ call'[c].token = t
  BY <1>1, ReplyFacts DEF SessionsInv
<1>3. CallIsSound(c)'
  BY <1>2, TableKept DEF CallIsSound, TransactionOpen
<1>4. RowsAreLocked'
  BY <1>2, LocksKept DEF TransactionOpen
<1>5. \A d \in Calls \ {c} : call[d].step = "rotating" => ~Revoked(call[d].token)'
  BY <1>2 DEF Revoked
<1>6. {c} \in SUBSET Calls /\ \A b \in {c} : CallIsSound(b)'
  BY <1>3
<1>7. /\ jar' \in [access : {"none", "fresh", "expiring"}, refresh : 1..MaxTokens \cup {None}]
      /\ jar'.refresh \in Tokens \cup {None}
  BY DEF SessionsInv, TypeOK
<1> QED BY <1>2, <1>4, <1>5, <1>6, <1>7, FadingStep

\* The rows of rotations are alive.
LEMMA RotatingAlive ==
  ASSUME SessionsInv, NEW d \in Calls, call[d].step = "rotating"
  PROVE  /\ call[d].token \in Tokens
         /\ token[call[d].token].state \in {"live", "expired"}
         /\ LastOfFamily(call[d].token)
         /\ call[d].user = token[call[d].token].user
BY DEF SessionsInv, CallsAreSound, CallIsSound, TransactionOpen, Revoked

\* A request that changes nothing but what it knows keeps the invariant.
LEMMA RequestStep ==
  ASSUME SessionsInv, NEW c \in Calls, NEW new \in Call, call' = [call EXCEPT ![c] = new],
         UNCHANGED <<account, token, jar>>,
         CallIsSound(c)',
         TransactionOpen(c)' => TransactionOpen(c) /\ call'[c].token = call[c].token
  PROVE  SessionsInv'
<1>1. /\ call' \in [Calls -> Call]
      /\ \A d \in Calls \ {c} : call'[d] = call[d]
  BY DEF SessionsInv, TypeOK
<1>2. Fades(token')
  BY KeptFades DEF SessionsInv
<1>3. RowsAreLocked'
  BY <1>1, LocksKept
<1>4. \A d \in Calls \ {c} : call[d].step = "rotating" => ~Revoked(call[d].token)'
  BY <1>1, RotatingAlive DEF Revoked
<1>5. {c} \in SUBSET Calls /\ \A b \in {c} : CallIsSound(b)'
  OBVIOUS
<1>6. /\ jar' \in [access : {"none", "fresh", "expiring"}, refresh : 1..MaxTokens \cup {None}]
      /\ jar'.refresh \in Tokens \cup {None}
  BY DEF SessionsInv, TypeOK
<1> QED BY <1>1, <1>2, <1>3, <1>4, <1>5, <1>6, FadingStep

------------------------------------------------------------------------------
\* The invariant is inductive: one lemma per action that changes the table or
\* takes a lock.

\* A request without a decision of Auth: the reply says so.
LEMMA RefusalStep ==
  ASSUME SessionsInv, NEW c \in Calls, Reply(c, None), UNCHANGED <<account, token, jar>>
  PROVE  SessionsInv'
<1>1. Fades(token')
  BY KeptFades DEF SessionsInv
<1>2. \A d \in Calls \ {c} : call[d].step = "rotating" =>
        token'[call[d].token].state \in {"live", "expired"}
  BY RotatingAlive
<1> QED BY <1>1, <1>2, ReplyStep

\* The browser sends a request with the token of its cookie.
LEMMA SendStep ==
  ASSUME SessionsInv, NEW c \in Calls, NEW kind \in {"navigate", "renew", "signOut", "signIn"},
         NEW u \in Users \cup {None}, NEW t \in Tokens \cup {None}, Send(c, kind, u, t),
         kind = "signIn" => u \in Users, kind # "signIn" => t \in Tokens
  PROVE  SessionsInv'
<1> DEFINE new == [Idle EXCEPT !.kind = kind, !.user = u, !.token = t]
<1>1. t \in 1..MaxTokens \cup {None}
  BY TokenTable, SessionsAssumption DEF SessionsInv, SessionsAssumption
<1>2. /\ new \in Call /\ new.kind = kind /\ new.user = u /\ new.token = t
      /\ new.step = "sent"
  BY <1>1 DEF Call, Idle
<1>3. call' = [call EXCEPT ![c] = new] /\ UNCHANGED <<account, token, jar>>
  BY DEF Send
<1> HIDE DEF new
<1>4. call'[c] = new
  BY <1>3 DEF SessionsInv, TypeOK
<1>5. Tokens' = Tokens
  BY <1>3 DEF Tokens
<1>6. CallIsSound(c)'
  BY <1>2, <1>4, <1>5 DEF CallIsSound, TransactionOpen, Refreshes
<1>7. ~TransactionOpen(c)'
  BY <1>2, <1>4 DEF TransactionOpen
<1> QED BY <1>2, <1>3, <1>6, <1>7, RequestStep
\* What login read, it read of a user.
LEMMA LoginReadsStep ==
  ASSUME SessionsInv, NEW c \in Calls, LoginReads(c)
  PROVE  SessionsInv'
<1>1. CASE ~account[call[c].user].active
  BY <1>1, RefusalStep DEF LoginReads
<1>2. CASE account[call[c].user].active
  <2> DEFINE r == call[c]
             v == account[r.user].version
  <2>n. PICK new : new = [r EXCEPT !.step = "read", !.user = r.user, !.version = v,
                                   !.scope = r.scope]
    OBVIOUS
  <2>1. call' = [call EXCEPT ![c].step = "read", ![c].version = v]
    BY <1>2 DEF LoginReads
  <2>2. r \in Call /\ r.kind = "signIn" /\ r.step = "sent" /\ CallIsSound(c)
    BY DEF SessionsInv, TypeOK, CallsAreSound, LoginReads
  <2>3. r.user \in Users
    BY <2>2 DEF CallIsSound
  <2>4. v \in 0..MaxVersion
    BY <2>3 DEF SessionsInv, TypeOK
  <2>5. /\ new \in Call /\ new.kind = "signIn" /\ new.step = "read"
        /\ new.user = r.user /\ new.token = r.token
    <3> HIDE DEF r, v
    <3> QED BY <2>n, <2>2, <2>4 DEF Call
  <2>6. call' = [call EXCEPT ![c] = new]
    BY <2>n, <2>1, <2>2 DEF Call, SessionsInv, TypeOK
  <2>7. UNCHANGED <<account, token, jar>>
    BY DEF LoginReads
  <2>8. call'[c] = new
    BY <2>6 DEF SessionsInv, TypeOK
  <2>9. Tokens' = Tokens
    BY <2>7 DEF Tokens
  <2>10. CallIsSound(c)' /\ ~TransactionOpen(c)'
    BY <2>2, <2>3, <2>5, <2>8, <2>9 DEF CallIsSound, TransactionOpen, Refreshes
  <2> QED BY <2>5, <2>6, <2>7, <2>10, RequestStep
<1> QED BY <1>1, <1>2

\* The statement that revokes a family begins.
LEMMA RevokeFamilyStartsStep ==
  ASSUME SessionsInv, NEW c \in Calls, RevokeFamilyStarts(c)
  PROVE  SessionsInv'
<1> DEFINE r == call[c]
<1>n. PICK new : new = [r EXCEPT !.step = "revoking", !.user = r.user, !.version = r.version,
                                 !.scope = FamilyOf(r.token)]
  OBVIOUS
<1>1. call' = [call EXCEPT ![c].step = "revoking", ![c].scope = FamilyOf(call[c].token)]
  BY DEF RevokeFamilyStarts
<1>2. r \in Call /\ r.step = "rejecting" /\ CallIsSound(c)
  BY DEF SessionsInv, TypeOK, CallsAreSound, RevokeFamilyStarts
<1>3. FamilyOf(r.token) \subseteq 1..MaxTokens
  BY TokenTable, SessionsAssumption DEF SessionsInv, FamilyOf, SessionsAssumption
<1>4. /\ new \in Call /\ new.kind = r.kind /\ new.step = "revoking"
      /\ new.user = r.user /\ new.token = r.token
  <2> HIDE DEF r
  <2> QED BY <1>n, <1>2, <1>3 DEF Call
<1>5. call' = [call EXCEPT ![c] = new]
  BY <1>n, <1>1, <1>2 DEF Call, SessionsInv, TypeOK
<1>6. UNCHANGED <<account, token, jar>>
  BY DEF RevokeFamilyStarts
<1>7. call'[c] = new
  BY <1>5 DEF SessionsInv, TypeOK
<1>8. Tokens' = Tokens
  BY <1>6 DEF Tokens
<1>9. /\ CallIsSound(c)'
      /\ TransactionOpen(c) /\ call'[c].token = call[c].token
  BY <1>2, <1>4, <1>6, <1>7, <1>8 DEF CallIsSound, TransactionOpen
<1> QED BY <1>4, <1>5, <1>6, <1>9, RequestStep
\* The cookies name a token that was issued, or none.
LEMMA JarKept ==
  ASSUME SessionsInv, UNCHANGED jar
  PROVE  /\ jar' \in [access : {"none", "fresh", "expiring"}, refresh : 1..MaxTokens \cup {None}]
         /\ jar'.refresh \in Tokens \cup {None}
BY DEF SessionsInv, TypeOK

\* A refresh takes its row while nobody holds it, and decides by what it finds.
LEMMA RefreshLocksStep ==
  ASSUME SessionsInv, NEW c \in Calls, RefreshLocks(c)
  PROVE  SessionsInv'
<1> DEFINE r == call[c]
           a == account[token[r.token].user]
           v == IF a.active THEN a.version ELSE None
<1>1. /\ r \in Call /\ CallIsSound(c) /\ r.kind \in Refreshes /\ r.step = "sent"
      /\ UNCHANGED <<account, token, jar>>
  BY DEF SessionsInv, TypeOK, CallsAreSound, RefreshLocks
<1>2. r.token \in Tokens
  BY <1>1 DEF CallIsSound
<1>3. token[r.token] \in Token /\ token[r.token].user \in Users
  BY <1>2, TokenTable DEF SessionsInv, Token
<1>4. a \in [active : BOOLEAN, version : 0..MaxVersion]
  BY <1>3 DEF SessionsInv, TypeOK
<1>5. ASSUME NEW s \in {"rotating", "rejecting"},
             call' = [call EXCEPT ![c].step = s, ![c].user = token[r.token].user,
                                  ![c].version = v],
             s = "rotating" => Live(r.token) /\ a.active
      PROVE  SessionsInv'
  <2>n. PICK new : new = [r EXCEPT !.step = s, !.user = token[r.token].user, !.version = v]
    OBVIOUS
  <2>1. call' = [call EXCEPT ![c] = new]
    BY <1>5, <2>n DEF SessionsInv, TypeOK
  <2>2. v \in 0..MaxVersion \cup {None}
    BY <1>4
  <2>3. /\ new \in Call /\ new.kind = r.kind /\ new.step = s
        /\ new.user = token[r.token].user /\ new.token = r.token /\ new.version = v
    <3> HIDE DEF r, v
    <3> QED BY <2>n, <1>1, <1>3, <2>2 DEF Call
  <2>4. /\ call' \in [Calls -> Call] /\ call'[c] = new
        /\ \A d \in Calls \ {c} : call'[d] = call[d]
    BY <2>1, <2>3 DEF SessionsInv, TypeOK
  <2>5. Fades(token') /\ Tokens' = Tokens
    BY <1>1, KeptFades DEF SessionsInv, Tokens
  <2>6. s = "rotating" =>
          /\ ~Revoked(r.token) /\ LastOfFamily(r.token) /\ a.active /\ v = a.version
    BY <1>2, <1>5 DEF SessionsInv, LiveIsLast, Live, Revoked
  <2>7. CallIsSound(c)'
    BY <1>1, <1>2, <2>3, <2>4, <2>5, <2>6
       DEF CallIsSound, TransactionOpen, Refreshes, Revoked, LastOfFamily, FamilyOf
  <2>8. \A d \in Calls \ {c} : TransactionOpen(d) => call[d].token # r.token
    BY DEF RefreshLocks, CanLock, RowFree, RowsOf
  <2>9. RowsAreLocked'
    BY <2>3, <2>4, <2>8 DEF SessionsInv, RowsAreLocked, TransactionOpen
  <2>10. \A d \in Calls \ {c} : call[d].step = "rotating" => ~Revoked(call[d].token)'
    BY <1>1, <2>4, RotatingAlive DEF Revoked
  <2>11. {c} \in SUBSET Calls /\ \A b \in {c} : CallIsSound(b)'
    BY <2>7
  <2>12. UNCHANGED account
    BY <1>1
  <2>13. /\ jar' \in [access : {"none", "fresh", "expiring"}, refresh : 1..MaxTokens \cup {None}]
         /\ jar'.refresh \in Tokens \cup {None}
    BY <1>1, JarKept
  <2> QED BY <2>4, <2>5, <2>9, <2>10, <2>11, <2>12, <2>13, FadingStep
<1>6. CASE Reply(c, None)
  BY <1>1, <1>6, RefusalStep
<1> QED BY <1>5, <1>6 DEF RefreshLocks

\* The family of a token that came back is revoked, but for rows that others
\* hold.
LEMMA RevokeFamilyStep ==
  ASSUME SessionsInv, NEW c \in Calls, RevokeFamily(c)
  PROVE  SessionsInv'
<1>1. /\ token' = Revoke(call[c].scope, "reused") /\ Reply(c, None)
      /\ \A t \in call[c].scope : RowFree(t, c)
      /\ UNCHANGED <<account, jar>>
  BY DEF RevokeFamily
<1>2. /\ Fades(token')
      /\ \A t \in Tokens : t \notin call[c].scope => token'[t] = token[t]
  BY <1>1, RevokeFades DEF SessionsInv, Reasons
<1>3. ASSUME NEW d \in Calls \ {c}, call[d].step = "rotating"
      PROVE  token'[call[d].token].state \in {"live", "expired"}
  <2>1. call[d].token \notin call[c].scope
    BY <1>1, <1>3 DEF RowFree, RowsOf, TransactionOpen
  <2> QED BY <1>2, <1>3, <2>1, RotatingAlive
<1> QED BY <1>1, <1>2, <1>3, ReplyStep

\* Logout revokes the token of the cookie, once nobody holds its row.
LEMMA LogoutByRefreshStep ==
  ASSUME SessionsInv, NEW c \in Calls, LogoutByRefresh(c)
  PROVE  SessionsInv'
<1>1. /\ RowFree(call[c].token, c) /\ Reply(c, None) /\ UNCHANGED <<account, jar>>
      /\ token' = IF Live(call[c].token) THEN Revoke({call[c].token}, "loggedOut") ELSE token
  BY DEF LogoutByRefresh
<1>2. Fades(token') /\ \A t \in Tokens : t # call[c].token => token'[t] = token[t]
  BY <1>1, RevokeFades, KeptFades DEF SessionsInv, Reasons
<1>3. ASSUME NEW d \in Calls \ {c}, call[d].step = "rotating"
      PROVE  token'[call[d].token].state \in {"live", "expired"}
  <2>1. call[d].token # call[c].token
    BY <1>1, <1>3 DEF RowFree, RowsOf, TransactionOpen
  <2> QED BY <1>2, <1>3, <2>1, RotatingAlive
<1> QED BY <1>1, <1>2, <1>3, ReplyStep

\* A step that serves no request keeps the locks.
LEMMA NoRequestStep ==
  ASSUME SessionsInv, UNCHANGED <<account, call>>, Fades(token'),
         \A d \in Calls : call[d].step = "rotating" =>
           token'[call[d].token].state \in {"live", "expired"},
         jar' \in [access : {"none", "fresh", "expiring"}, refresh : 1..MaxTokens \cup {None}],
         jar'.refresh \in Tokens \cup {None}
  PROVE  SessionsInv'
<1>1. RowsAreLocked' /\ call' \in [Calls -> Call]
  BY DEF SessionsInv, TypeOK, RowsAreLocked, TransactionOpen
<1>2. \A d \in Calls \ {} : call[d].step = "rotating" => ~Revoked(call[d].token)'
  BY DEF Revoked
<1>3. {} \in SUBSET Calls /\ \A b \in {} : CallIsSound(b)'
  OBVIOUS
<1> QED BY <1>1, <1>2, <1>3, FadingStep

\* Logout by access token passes over the rows it finds locked.
LEMMA LogoutByAccessStep ==
  ASSUME SessionsInv, NEW u \in Users, LogoutByAccess(u)
  PROVE  SessionsInv'
<1> DEFINE S == {t \in Tokens : token[t].user = u /\ \A c \in Calls : t \notin RowsOf(c)}
<1>1. token' = Revoke(S, "loggedOut") /\ UNCHANGED <<account, call, jar>>
  BY DEF LogoutByAccess
<1>2. Fades(token') /\ \A t \in Tokens : t \notin S => token'[t] = token[t]
  <2> HIDE DEF S
  <2> QED BY <1>1, RevokeFades DEF SessionsInv, Reasons
<1>3. ASSUME NEW d \in Calls, call[d].step = "rotating"
      PROVE  token'[call[d].token].state \in {"live", "expired"}
  <2>1. call[d].token \notin S
    BY <1>3 DEF RowsOf, TransactionOpen
  <2> HIDE DEF S
  <2> QED BY <1>2, <1>3, <2>1, RotatingAlive
<1> QED BY <1>1, <1>2, <1>3, JarKept, NoRequestStep

\* A token may expire even while it is being exchanged.
LEMMA TokenExpiresStep ==
  ASSUME SessionsInv, NEW t \in Tokens, TokenExpires(t)
  PROVE  SessionsInv'
<1>1. Fades(token') /\ \A x \in Tokens : Revoked(x)' = Revoked(x)
  BY ExpiryFades DEF SessionsInv
<1>2. ASSUME NEW d \in Calls, call[d].step = "rotating"
      PROVE  token'[call[d].token].state \in {"live", "expired"}
  BY <1>1, <1>2, RotatingAlive DEF Revoked
<1>3. UNCHANGED <<account, call, jar>>
  BY DEF TokenExpires
<1> QED BY <1>1, <1>2, <1>3, JarKept, NoRequestStep

\* The access token runs down in its cookie.
LEMMA AccessExpiresStep ==
  ASSUME SessionsInv, AccessExpires
  PROVE  SessionsInv'
<1>1. /\ jar' \in [access : {"none", "fresh", "expiring"}, refresh : 1..MaxTokens \cup {None}]
      /\ jar'.refresh \in Tokens \cup {None}
  BY DEF SessionsInv, TypeOK, AccessExpires
<1>2. UNCHANGED <<account, token, call>>
  BY DEF AccessExpires
<1>3. Fades(token')
  BY <1>2, KeptFades DEF SessionsInv
<1> QED BY <1>1, <1>2, <1>3, RotatingAlive, NoRequestStep
\* A reply sets the cookies to a token that was issued, clears them or leaves
\* them.
LEMMA ReturnStep ==
  ASSUME SessionsInv, NEW c \in Calls, Return(c)
  PROVE  SessionsInv'
<1>1. /\ call' = [call EXCEPT ![c] = Idle] /\ UNCHANGED <<account, token>>
      /\ jar' \in CookiesAfter(c)
  BY DEF Return
<1>2. Idle \in Call /\ Idle.kind = "idle" /\ Idle.step = "sent" /\ Idle.token = None
  BY DEF Idle, Call
<1>3. /\ call' \in [Calls -> Call] /\ call'[c] = Idle
      /\ \A d \in Calls \ {c} : call'[d] = call[d]
  BY <1>1, <1>2 DEF SessionsInv, TypeOK
<1>4. CallIsSound(c)' /\ ~TransactionOpen(c)'
  BY <1>2, <1>3 DEF CallIsSound, TransactionOpen, Refreshes
<1>5. RowsAreLocked'
  BY <1>3, <1>4, LocksKept
<1>6. call[c].token \in Tokens \cup {None} /\ call[c].token \in 1..MaxTokens \cup {None}
  BY DEF SessionsInv, CallsAreSound, CallIsSound, TypeOK, Call
<1>7. /\ jar' \in [access : {"none", "fresh", "expiring"}, refresh : 1..MaxTokens \cup {None}]
      /\ jar'.refresh \in Tokens \cup {None}
  <2>1. CASE jar' = [access |-> "fresh", refresh |-> call[c].token]
    BY <1>6, <2>1
  <2>2. CASE jar' = NoCookies
    BY <2>2 DEF NoCookies
  <2>3. CASE jar' = jar
    BY <2>3, JarKept
  <2>4. CookiesAfter(c) \subseteq {[access |-> "fresh", refresh |-> call[c].token], NoCookies, jar}
    BY DEF CookiesAfter
  <2> QED BY <1>1, <2>1, <2>2, <2>3, <2>4
<1>8. Fades(token')
  BY <1>1, KeptFades DEF SessionsInv
<1>9. \A d \in Calls \ {c} : call[d].step = "rotating" => ~Revoked(call[d].token)'
  BY <1>1, <1>3, RotatingAlive DEF Revoked
<1>10. {c} \in SUBSET Calls /\ (\A b \in {c} : CallIsSound(b)') /\ UNCHANGED account
  BY <1>1, <1>4
<1> QED BY <1>3, <1>5, <1>7, <1>8, <1>9, <1>10, FadingStep

\* A change of status waits for the refreshes of the user and leaves no token
\* of the user alive.
LEMMA SetEmployeeStatusStep ==
  ASSUME SessionsInv, NEW u \in Users, SetEmployeeStatus(u)
  PROVE  SessionsInv'
<1> DEFINE S == {t \in Tokens : token[t].user = u}
<1>1. /\ token' = Revoke(S, "statusChanged") /\ UNCHANGED <<call, jar>> /\ UserRowFree(u)
      /\ account[u].version < MaxVersion
      /\ account' = [account EXCEPT ![u] = [active |-> ~@.active, version |-> @.version + 1]]
  BY DEF SetEmployeeStatus
<1>2. /\ Fades(token')
      /\ \A t \in Tokens : t \in S => token'[t].state \notin {"live", "expired"}
      /\ \A t \in Tokens : t \notin S => token'[t] = token[t]
  <2> HIDE DEF S
  <2> QED BY <1>1, RevokeFades DEF SessionsInv, Reasons
<1>3. /\ Tokens' = Tokens
      /\ Len(token') <= MaxTokens
      /\ FamiliesComeFirst'
      /\ LiveIsLast'
      /\ \A t \in Tokens : LastOfFamily(t) => LastOfFamily(t)'
  BY <1>2, TableKept
<1>4. /\ account' \in [Users -> [active : BOOLEAN, version : 0..MaxVersion]]
      /\ \A w \in Users \ {u} : account'[w] = account[w]
  <2>1. account[u].version \in 0..MaxVersion
    BY DEF SessionsInv, TypeOK
  <2>2. account[u].version + 1 \in 0..MaxVersion
    BY <1>1, <2>1, SessionsAssumption DEF SessionsAssumption
  <2> QED BY <1>1, <2>2 DEF SessionsInv, TypeOK
<1>5. TypeOK'
  BY <1>1, <1>2, <1>4 DEF SessionsInv, TypeOK, Fades
<1>6. LiveTokenIsOfEnabledVersion'
  <2>1. ASSUME NEW t \in Tokens, token'[t].state = "live"
        PROVE  /\ account'[token'[t].user].active
               /\ account'[token'[t].user].version = token'[t].version
    <3>1. t \notin S /\ token'[t] = token[t] /\ token[t].user # u
      BY <1>2, <2>1
    <3>2. token[t].user \in Users
      BY TokenTable DEF SessionsInv, Token
    <3> QED BY <1>4, <2>1, <3>1, <3>2 DEF SessionsInv, LiveTokenIsOfEnabledVersion, Live
  <2> QED BY <1>3, <2>1 DEF LiveTokenIsOfEnabledVersion, Live
<1>7. CallsAreSound'
  <2>1. ASSUME NEW d \in Calls
        PROVE  CallIsSound(d)'
    <3>1. ASSUME call[d].step = "rotating"
          PROVE  /\ token'[call[d].token].state \in {"live", "expired"}
                 /\ LastOfFamily(call[d].token)'
                 /\ account'[call[d].user] = account[call[d].user]
      <4>1. PICK t \in Tokens : t = call[d].token
        BY <2>1, <3>1, RotatingAlive
      <4>2. LastOfFamily(t)'
        BY <1>3, <3>1, <4>1, RotatingAlive
      <4>3. call[d].user # u /\ call[d].user = token[t].user
        BY <1>1, <3>1, <4>1, RotatingAlive DEF UserRowFree, TransactionOpen
      <4>4. token[t].user \in Users
        BY TokenTable DEF SessionsInv, Token
      <4>5. token'[t] = token[t]
        BY <1>2, <4>3
      <4>6. LastOfFamily(call[d].token)'
        BY <1>1, <4>1, <4>2 DEF LastOfFamily, FamilyOf
      <4> QED BY <1>4, <3>1, <4>1, <4>3, <4>4, <4>5, <4>6, RotatingAlive
    <3>2. call'[d] = call[d] /\ \A t \in Tokens : token'[t].user = token[t].user
      BY <1>1, <1>2 DEF Fades
    <3> QED BY <1>3, <3>1, <3>2, OtherStaysSound
  <2> QED BY <2>1 DEF CallsAreSound
<1>8. RowsAreLocked'
  BY <1>1 DEF SessionsInv, RowsAreLocked, TransactionOpen
<1>9. jar'.refresh \in Tokens' \cup {None}
  BY <1>1, <1>3 DEF SessionsInv
<1> QED BY <1>3, <1>5, <1>6, <1>7, <1>8, <1>9 DEF SessionsInv
\* A reply with a new token keeps the invariant, if no other rotation is of its
\* family.
LEMMA IssuingStep ==
  ASSUME SessionsInv, NEW c \in Calls, NEW mid, Fades(mid), NEW u \in Users,
         NEW f \in 1..MaxTokens, NEW v \in 0..MaxVersion, Issue(mid, u, f, v),
         UNCHANGED <<account, jar>>, account[u].active, account[u].version = v,
         f <= Len(token) + 1,
         \A t \in Tokens : token[t].family = f /\ LastOfFamily(t) => mid[t].state # "live",
         Reply(c, Len(token) + 1),
         \A d \in Calls \ {c} : call[d].step = "rotating" =>
           /\ mid[call[d].token].state \in {"live", "expired"}
           /\ token[call[d].token].family # f
  PROVE  SessionsInv'
<1>1. /\ token' \in Seq(Token)
      /\ Tokens' = Tokens \cup {Len(token) + 1}
      /\ Len(token') <= MaxTokens
      /\ FamiliesComeFirst'
      /\ LiveIsLast'
      /\ LiveTokenIsOfEnabledVersion'
      /\ \A t \in Tokens : token'[t] = mid[t]
      /\ \A t \in Tokens : LastOfFamily(t) /\ token[t].family # f => LastOfFamily(t)'
  BY TableGrown
<1>2. Len(token) + 1 \in 1..MaxTokens
  BY TokenTable, SessionsAssumption DEF SessionsInv, Issue, SessionsAssumption
<1>3. /\ call' \in [Calls -> Call]
      /\ \A d \in Calls \ {c} : call'[d] = call[d]
      /\ call'[c].step = "replied"
      /\ call'[c].token = Len(token) + 1
  BY <1>2, ReplyFacts DEF SessionsInv
<1>4. CallIsSound(c)'
  BY <1>1, <1>3 DEF CallIsSound, TransactionOpen
<1>5. ASSUME NEW d \in Calls \ {c}
      PROVE  CallIsSound(d)'
  <2>1. ASSUME call[d].step = "rotating"
        PROVE  /\ token'[call[d].token].state \in {"live", "expired"}
               /\ LastOfFamily(call[d].token)'
               /\ account'[call[d].user] = account[call[d].user]
    <3>1. PICK t \in Tokens : t = call[d].token
      BY <1>5, <2>1, RotatingAlive
    <3>2. LastOfFamily(t)'
      BY <1>1, <2>1, <3>1, RotatingAlive
    <3>3. call'[d] = call[d]
      BY <1>3
    <3>4. LastOfFamily(call[d].token)'
      BY <3>1, <3>2, <3>3 DEF LastOfFamily, FamilyOf
    <3> QED BY <1>1, <1>5, <2>1, <3>1, <3>4
  <2>2. \A t \in Tokens : token'[t].user = token[t].user
    BY <1>1 DEF Fades
  <2> QED BY <1>1, <1>3, <1>5, <2>1, <2>2, OtherStaysSound
<1>6. CallsAreSound'
  BY <1>4, <1>5 DEF CallsAreSound
<1>7. RowsAreLocked'
  BY <1>3, LocksKept DEF TransactionOpen
<1>8. TypeOK'
  BY <1>1, <1>3 DEF SessionsInv, TypeOK
<1>9. jar'.refresh \in Tokens' \cup {None}
  BY <1>1 DEF SessionsInv
<1> QED BY <1>1, <1>6, <1>7, <1>8, <1>9 DEF SessionsInv

\* A login issues the first token of a family of its own.
LEMMA CreateSessionStep ==
  ASSUME SessionsInv, NEW c \in Calls, CreateSession(c)
  PROVE  SessionsInv'
<1>1. CASE ~StillAsRead(c)
  BY <1>1, RefusalStep DEF CreateSession
<1>2. CASE StillAsRead(c)
  <2> DEFINE u == call[c].user
             v == call[c].version
  <2>1. /\ Issue(token, u, Len(token) + 1, v) /\ Reply(c, Len(token) + 1)
        /\ UNCHANGED <<account, jar>>
        /\ call[c].kind = "signIn" /\ call[c].step = "read"
    BY <1>2 DEF CreateSession
  <2>2. u \in Users
    BY <2>1 DEF SessionsInv, CallsAreSound, CallIsSound
  <2>3. account[u].active /\ account[u].version = v /\ v \in 0..MaxVersion
    <3>1. account[u] \in [active : BOOLEAN, version : 0..MaxVersion]
      BY <2>2 DEF SessionsInv, TypeOK
    <3>2. account[u].active /\ account[u].version = v
      BY <1>2 DEF StillAsRead
    <3> QED BY <3>1, <3>2
  <2>4. Tokens = 1..Len(token) /\ Len(token) \in Nat /\ Len(token) + 1 \in 1..MaxTokens
    BY <2>1, TokenTable, SessionsAssumption DEF SessionsInv, Issue, SessionsAssumption
  <2>5. Fades(token)
    BY DEF Fades, SessionsInv, TypeOK, Live, Revoked
  <2>6. \A t \in Tokens : token[t].family # Len(token) + 1
    <3>1. \A t \in Tokens : token[t].family \in 1..MaxTokens /\ token[t].family <= t
      BY TokenTable DEF SessionsInv, FamiliesComeFirst, Token
    <3> QED BY <2>4, <3>1
  <2>7. \A d \in Calls \ {c} : call[d].step = "rotating" =>
          /\ token[call[d].token].state \in {"live", "expired"}
          /\ token[call[d].token].family # Len(token) + 1
    BY <2>6, RotatingAlive
  <2> HIDE DEF u, v
  <2> QED BY <2>1, <2>2, <2>3, <2>4, <2>5, <2>6, <2>7, IssuingStep
<1> QED BY <1>1, <1>2

\* A rotation revokes the last token of a family and issues the next one.
LEMMA RefreshRotatesStep ==
  ASSUME SessionsInv, NEW c \in Calls, RefreshRotates(c)
  PROVE  SessionsInv'
<1> DEFINE x == call[c].token
           u == call[c].user
           v == call[c].version
           f == token[x].family
           mid == Replaced(c)
<1>1. /\ call[c].step = "rotating" /\ Issue(mid, u, f, v) /\ Reply(c, Len(token) + 1)
      /\ UNCHANGED <<account, jar>>
  BY DEF RefreshRotates
<1>2. x \in Tokens /\ LastOfFamily(x) /\ u = token[x].user
  BY <1>1, RotatingAlive
<1>3. account[u].active /\ account[u].version = v
  BY <1>1 DEF SessionsInv, CallsAreSound, CallIsSound
<1>4. /\ Tokens = 1..Len(token) /\ Len(token) \in Nat
      /\ token[x] \in Token
  BY <1>2, TokenTable DEF SessionsInv
<1>5. u \in Users /\ f \in 1..MaxTokens
  BY <1>2, <1>4 DEF Token
<1>6. v \in 0..MaxVersion
  BY <1>3, <1>5 DEF SessionsInv, TypeOK
<1>7. f <= Len(token) + 1
  <2>1. f <= x
    BY <1>2 DEF SessionsInv, FamiliesComeFirst
  <2> QED BY <1>2, <1>4, <1>5, <2>1
<1>8. /\ Fades(mid)
      /\ mid[x].state \notin {"live", "expired"}
      /\ \A t \in Tokens : t # x => mid[t] = token[t]
  BY <1>2, RevokeFades DEF SessionsInv, Reasons, Replaced
<1>9. ASSUME NEW t \in Tokens, token[t].family = f, LastOfFamily(t)
      PROVE  t = x
  <2>1. t <= x /\ x <= t
    BY <1>2, <1>9 DEF LastOfFamily, FamilyOf
  <2> QED BY <1>2, <1>4, <2>1
<1>10. \A t \in Tokens : token[t].family = f /\ LastOfFamily(t) => mid[t].state # "live"
  BY <1>8, <1>9
<1>11. ASSUME NEW d \in Calls \ {c}, call[d].step = "rotating"
       PROVE  /\ mid[call[d].token].state \in {"live", "expired"}
              /\ token[call[d].token].family # f
  <2>1. call[d].token # x
    BY <1>1, <1>11 DEF SessionsInv, RowsAreLocked, TransactionOpen
  <2>2. /\ call[d].token \in Tokens /\ LastOfFamily(call[d].token)
        /\ token[call[d].token].state \in {"live", "expired"}
    BY <1>11, RotatingAlive
  <2> QED BY <1>8, <1>9, <2>1, <2>2
<1> HIDE DEF mid, u, v, f
<1> QED BY <1>1, <1>3, <1>5, <1>6, <1>7, <1>8, <1>10, <1>11, IssuingStep
------------------------------------------------------------------------------
\* The invariant, and what it implies.

LEMMA SessionsStart == Init => SessionsInv
<1> SUFFICES ASSUME Init PROVE SessionsInv
  OBVIOUS
<1>1. Tokens = {} /\ Len(token) = 0 /\ token \in Seq(Token)
  BY EmptySeq DEF Init, Tokens
<1>2. Idle \in Call /\ Idle.kind = "idle" /\ Idle.step = "sent" /\ Idle.token = None
  BY DEF Idle, Call
<1>3. TypeOK
  BY <1>1, <1>2, SessionsAssumption DEF Init, TypeOK, NoCookies, SessionsAssumption
<1>4. \A c \in Calls : call[c] = Idle
  BY DEF Init
<1>5. CallsAreSound /\ RowsAreLocked
  BY <1>2, <1>4 DEF CallsAreSound, CallIsSound, RowsAreLocked, TransactionOpen, Refreshes
<1>6. jar.refresh \in Tokens \cup {None}
  BY DEF Init, NoCookies
<1>7. FamiliesComeFirst /\ LiveIsLast /\ LiveTokenIsOfEnabledVersion
  BY <1>1 DEF FamiliesComeFirst, LiveIsLast, LiveTokenIsOfEnabledVersion
<1> QED BY <1>1, <1>3, <1>5, <1>6, <1>7, SessionsAssumption DEF SessionsInv, SessionsAssumption

LEMMA SessionsGoOn == SessionsInv /\ [Next]_vars => SessionsInv'
<1> SUFFICES ASSUME SessionsInv, [Next]_vars PROVE SessionsInv'
  OBVIOUS
<1>1. ASSUME NEW c \in Calls, LoginReads(c) PROVE SessionsInv'
  BY <1>1, LoginReadsStep
<1>2. ASSUME NEW c \in Calls, CreateSession(c) PROVE SessionsInv'
  BY <1>2, CreateSessionStep
<1>3. ASSUME NEW c \in Calls, RefreshLocks(c) PROVE SessionsInv'
  BY <1>3, RefreshLocksStep
<1>4. ASSUME NEW c \in Calls, RevokeFamilyStarts(c) PROVE SessionsInv'
  BY <1>4, RevokeFamilyStartsStep
<1>5. ASSUME NEW c \in Calls, RevokeFamily(c) PROVE SessionsInv'
  BY <1>5, RevokeFamilyStep
<1>6. ASSUME NEW c \in Calls, RevokeFamilyAborted(c) \/ CallFails(c) PROVE SessionsInv'
  BY <1>6, RefusalStep DEF RevokeFamilyAborted, CallFails
<1>7. ASSUME NEW c \in Calls, RefreshRotates(c) PROVE SessionsInv'
  BY <1>7, RefreshRotatesStep
<1>8. ASSUME NEW c \in Calls, LogoutByRefresh(c) PROVE SessionsInv'
  BY <1>8, LogoutByRefreshStep
<1>9. ASSUME NEW c \in Calls, Navigate(c) \/ Renew(c) \/ SignOut(c) PROVE SessionsInv'
  <2>1. jar.refresh \in Tokens /\ None \in Users \cup {None}
    BY <1>9 DEF SessionsInv, Navigate, Renew, SignOut
  <2> QED BY <1>9, <2>1, SendStep DEF Navigate, Renew, SignOut
<1>10. ASSUME NEW c \in Calls, NEW u \in Users, SignIn(c, u) PROVE SessionsInv'
  BY <1>10, SendStep DEF SignIn
<1>11. ASSUME NEW c \in Calls, Return(c) PROVE SessionsInv'
  BY <1>11, ReturnStep
<1>12. ASSUME NEW u \in Users, SetEmployeeStatus(u) PROVE SessionsInv'
  BY <1>12, SetEmployeeStatusStep
<1>13. ASSUME NEW u \in Users, LogoutByAccess(u) PROVE SessionsInv'
  BY <1>13, LogoutByAccessStep
<1>14. ASSUME NEW t \in Tokens, TokenExpires(t) PROVE SessionsInv'
  BY <1>14, TokenExpiresStep
<1>15. CASE AccessExpires
  BY <1>15, AccessExpiresStep
<1>16. CASE UNCHANGED vars
  BY <1>16, KeptFades, JarKept, RotatingAlive, NoRequestStep DEF vars, SessionsInv
<1> QED
  BY <1>1, <1>2, <1>3, <1>4, <1>5, <1>6, <1>7, <1>8, <1>9, <1>10, <1>11, <1>12, <1>13,
     <1>14, <1>15, <1>16 DEF Next

LEMMA SessionsInvariant == Spec => []SessionsInv
BY SessionsStart, SessionsGoOn, PTL DEF Spec

\* Tables, requests and cookies hold what their columns allow: rows of
\* auth_refresh_tokens name an issued family and a version of the account.
THEOREM TypeCorrect == Spec => []TypeOK
<1>1. SessionsInv => TypeOK
  BY DEF SessionsInv
<1> QED BY <1>1, SessionsInvariant, PTL

\* No token outlives the status of the account it was issued to, whatever login
\* or refresh overlaps setEmployeeStatus.
THEOREM NoSessionOutlivesStatus == Spec => []LiveTokenIsOfEnabledVersion
<1>1. SessionsInv => LiveTokenIsOfEnabledVersion
  BY DEF SessionsInv
<1> QED BY <1>1, SessionsInvariant, PTL

\* However many refreshes race with one token, a login has at most one token
\* that can be exchanged.
THEOREM OneRefreshWins == Spec => []OneLiveTokenPerFamily
<1>1. SessionsInv => OneLiveTokenPerFamily
  <2> SUFFICES ASSUME SessionsInv, NEW t \in Tokens, Live(t), NEW s \in FamilyOf(t), Live(s)
               PROVE  s = t
    BY DEF OneLiveTokenPerFamily
  <2>1. s \in Tokens /\ token[s].family = token[t].family
    BY DEF FamilyOf
  <2>2. LastOfFamily(t) /\ LastOfFamily(s)
    BY <2>1 DEF SessionsInv, LiveIsLast
  <2>3. s <= t /\ t <= s
    BY <2>1, <2>2 DEF LastOfFamily, FamilyOf
  <2>4. Tokens = 1..Len(token) /\ Len(token) \in Nat
    BY TokenTable DEF SessionsInv
  <2> QED BY <2>1, <2>3, <2>4
<1> QED BY <1>1, SessionsInvariant, PTL

\* A step fades the table, or adds one token to a family of its own or to one
\* that has not ended.
LEMMA TableStep ==
  ASSUME SessionsInv, [Next]_vars
  PROVE  \/ Fades(token')
         \/ \E mid, f : /\ Fades(mid)
                        /\ token' \in Seq(Token) /\ Len(token') = Len(token) + 1
                        /\ \A t \in Tokens : token'[t] = mid[t]
                        /\ token'[Len(token) + 1].family = f
                        /\ \A t \in Tokens : token[t].family = f => ~Ended(t)
<1> DEFINE Goal == \/ Fades(token')
                   \/ \E mid, f :
                        /\ Fades(mid)
                        /\ token' \in Seq(Token) /\ Len(token') = Len(token) + 1
                        /\ \A t \in Tokens : token'[t] = mid[t]
                        /\ token'[Len(token) + 1].family = f
                        /\ \A t \in Tokens : token[t].family = f => ~Ended(t)
<1>1. UNCHANGED token => Goal
  BY KeptFades DEF SessionsInv
<1>2. ASSUME NEW c \in Calls, CreateSession(c) PROVE Goal
  <2>1. CASE StillAsRead(c)
    <3> DEFINE u == call[c].user
               v == call[c].version
    <3>1. Issue(token, u, Len(token) + 1, v) /\ call[c].kind = "signIn" /\ call[c].step = "read"
      BY <1>2, <2>1 DEF CreateSession
    <3>2. u \in Users
      BY <3>1 DEF SessionsInv, CallsAreSound, CallIsSound
    <3>3. v \in 0..MaxVersion
      <4>1. account[u].version \in 0..MaxVersion
        BY <3>2 DEF SessionsInv, TypeOK
      <4> QED BY <2>1, <4>1 DEF StillAsRead
    <3>4. Tokens = 1..Len(token) /\ Len(token) \in Nat /\ Len(token) + 1 \in 1..MaxTokens
      BY <3>1, TokenTable, SessionsAssumption DEF SessionsInv, Issue, SessionsAssumption
    <3>5. Fades(token)
      BY DEF Fades, SessionsInv, TypeOK, Live, Revoked
    <3>6. \A t \in Tokens : token[t].family # Len(token) + 1
      <4>1. \A t \in Tokens : token[t].family \in 1..MaxTokens /\ token[t].family <= t
        BY TokenTable DEF SessionsInv, FamiliesComeFirst, Token
      <4> QED BY <3>4, <4>1
    <3> HIDE DEF u, v
    <3>7. /\ token' \in Seq(Token) /\ Len(token') = Len(token) + 1
          /\ \A t \in Tokens : token'[t] = token[t]
          /\ token'[Len(token) + 1].family = Len(token) + 1
      BY <3>1, <3>2, <3>3, <3>4, <3>5, IssueAppends DEF SessionsInv
    <3> QED BY <3>5, <3>6, <3>7
  <2>2. CASE ~StillAsRead(c)
    BY <1>1, <1>2, <2>2 DEF CreateSession
  <2> QED BY <2>1, <2>2
<1>3. ASSUME NEW c \in Calls, RefreshRotates(c) PROVE Goal
  <2> DEFINE x == call[c].token
             mid == Replaced(c)
             f == token[x].family
  <2>1. /\ call[c].step = "rotating" /\ Issue(mid, call[c].user, f, call[c].version)
    BY <1>3 DEF RefreshRotates
  <2>2. x \in Tokens /\ token[x].state \in {"live", "expired"} /\ call[c].user = token[x].user
    BY <2>1, RotatingAlive
  <2>3. token[x].user \in Users /\ f \in 1..MaxTokens
    BY <2>2, TokenTable DEF SessionsInv, Token
  <2>4. call[c].version \in 0..MaxVersion
    <3>1. account[call[c].user].version \in 0..MaxVersion
      BY <2>2, <2>3 DEF SessionsInv, TypeOK
    <3> QED BY <2>1, <3>1 DEF SessionsInv, CallsAreSound, CallIsSound
  <2>5. Fades(mid)
    BY RevokeFades DEF SessionsInv, Reasons, Replaced
  <2>6. \A t \in Tokens : token[t].family = f => ~Ended(t)
    BY <2>2 DEF Ended, FamilyOf, Revoked
  <2> HIDE DEF mid, f
  <2>7. /\ token' \in Seq(Token) /\ Len(token') = Len(token) + 1
        /\ \A t \in Tokens : token'[t] = mid[t]
        /\ token'[Len(token) + 1].family = f
    BY <2>1, <2>2, <2>3, <2>4, <2>5, IssueAppends DEF SessionsInv
  <2> QED BY <2>5, <2>6, <2>7
<1>4. ASSUME NEW c \in Calls, RevokeFamily(c) \/ LogoutByRefresh(c) PROVE Goal
  BY <1>1, <1>4, RevokeFades DEF RevokeFamily, LogoutByRefresh, SessionsInv, Reasons
<1>5. ASSUME NEW u \in Users, SetEmployeeStatus(u) \/ LogoutByAccess(u) PROVE Goal
  BY <1>5, RevokeFades DEF SetEmployeeStatus, LogoutByAccess, SessionsInv, Reasons
<1>6. ASSUME NEW t \in Tokens, TokenExpires(t) PROVE Goal
  BY <1>6, ExpiryFades DEF SessionsInv
<1>7. ASSUME NEW c \in Calls,
             \/ LoginReads(c) \/ RefreshLocks(c) \/ RevokeFamilyStarts(c)
             \/ RevokeFamilyAborted(c) \/ CallFails(c) \/ Navigate(c) \/ Renew(c)
             \/ SignOut(c) \/ Return(c) \/ \E u \in Users : SignIn(c, u)
      PROVE  Goal
  BY <1>1, <1>7 DEF LoginReads, RefreshLocks, RevokeFamilyStarts, RevokeFamilyAborted,
     CallFails, Navigate, Renew, SignOut, SignIn, Return, Send
<1>8. AccessExpires \/ UNCHANGED vars => Goal
  BY <1>1 DEF AccessExpires, vars
<1> HIDE DEF Goal
<1>9. Goal
  BY <1>2, <1>3, <1>4, <1>5, <1>6, <1>7, <1>8 DEF Next
<1> QED BY <1>9 DEF Goal

\* A login whose tokens were all revoked stays ended.
LEMMA EndedStays ==
  ASSUME SessionsInv, [Next]_vars, NEW t \in Tokens, Ended(t)
  PROVE  Ended(t)'
<1>1. Tokens = 1..Len(token) /\ Len(token) \in Nat
  BY TokenTable DEF SessionsInv
<1>2. CASE Fades(token')
  <2>1. Tokens' = Tokens
    BY <1>2, TableKept
  <2>2. \A s \in Tokens : /\ token'[s].family = token[s].family
                          /\ token'[s].state \in {"live", "expired"} => ~Revoked(s)
    BY <1>2 DEF Fades
  <2> QED BY <2>1, <2>2 DEF Ended, FamilyOf, Revoked
<1>3. CASE \E mid, f : /\ Fades(mid)
                       /\ token' \in Seq(Token) /\ Len(token') = Len(token) + 1
                       /\ \A s \in Tokens : token'[s] = mid[s]
                       /\ token'[Len(token) + 1].family = f
                       /\ \A s \in Tokens : token[s].family = f => ~Ended(s)
  <2>1. PICK mid, f : /\ Fades(mid)
                      /\ token' \in Seq(Token) /\ Len(token') = Len(token) + 1
                      /\ \A s \in Tokens : token'[s] = mid[s]
                      /\ token'[Len(token) + 1].family = f
                      /\ \A s \in Tokens : token[s].family = f => ~Ended(s)
    BY <1>3
  <2>2. Tokens' = Tokens \cup {Len(token) + 1}
    <3>1. Tokens' = 1..Len(token')
      BY <2>1, LenProperties DEF Tokens
    <3> QED BY <1>1, <2>1, <3>1
  <2>3. \A s \in Tokens : /\ token'[s].family = token[s].family
                          /\ token'[s].state \in {"live", "expired"} => ~Revoked(s)
    BY <2>1 DEF Fades
  <2>4. token[t].family # f
    BY <2>1
  <2>5. FamilyOf(t)' = FamilyOf(t)
    BY <2>1, <2>2, <2>3, <2>4 DEF FamilyOf
  <2>6. FamilyOf(t) \subseteq Tokens
    BY DEF FamilyOf
  <2> QED BY <2>3, <2>5, <2>6 DEF Ended, Revoked
<1> QED BY <1>2, <1>3, TableStep

\* Logout, a detected reuse and a change of status end a login for good: no
\* refresh that was under way continues it.
THEOREM EndedForGood == Spec => EndedFamilyStaysEnded
<1>1. SessionsInv /\ [Next]_vars => [\A t \in Tokens : Ended(t) => Ended(t)']_vars
  BY EndedStays
<1> QED BY <1>1, SessionsInvariant, PTL DEF Spec, EndedFamilyStaysEnded

------------------------------------------------------------------------------
\* Onboarding: the links.  Every transaction of Auth rewrites rows of one
\* address; what it may do to them is named first.

\* The current link is the newest challenge of a pending, enabled account, and
\* a ready account is one that a link opened.
LinkIsTrue(u) ==
  LET cs == challenge[u] IN
  /\ \A g \in DOMAIN cs : cs[g].state = "current" =>
       g = Len(cs) /\ accountAt[u].status = "PENDING" /\ accountAt[u].active
  /\ \A g \in DOMAIN cs : cs[g].state = "consumed" => accountAt[u].status = "READY"
  /\ \A g, h \in DOMAIN cs : cs[g].state = "consumed" /\ cs[h].state = "consumed" => g = h
  /\ accountAt[u].status = "READY" => \E g \in DOMAIN cs : cs[g].state = "consumed"

LinksAreTrue == \A u \in Addresses : LinkIsTrue(u)

\* Mail is asked for, and delivered, of challenges that exist.
MailIsOfAChallenge ==
  /\ jobs \subseteq Issued
  /\ \A i \in Ids : delivery[i].status # "absent" => i \in Issued

\* What a worker is at is an attempt of a delivery, the last one or an earlier.
AttemptIsTrue(w) ==
  worker[w].step # "idle" =>
    /\ worker[w].id \in Ids
    /\ delivery[worker[w].id].status # "absent"
    /\ worker[w].attempt \in 1..delivery[worker[w].id].attempts
    /\ worker[w].step = "ended" => worker[w].outcome \in Outcomes

AttemptsAreTrue == \A w \in Workers : AttemptIsTrue(w)

\* A report tells of an earlier attempt, or of the last one what the delivery
\* shows: an attempt under way has none.
ReportIsTrue(p) ==
  LET d == delivery[p.id] IN
  /\ d.status # "absent"
  /\ \/ p.attempt < d.attempts
     \/ p.attempt = d.attempts /\ p.status = d.status

ReportsAreTrue == \A p \in report : ReportIsTrue(p)

\* A challenge no result was applied to shows no attempt.
UnreportedIsUntried ==
  \A u \in Addresses : \A g \in DOMAIN challenge[u] :
    challenge[u][g].status = "PENDING" => challenge[u][g].attempt = 0

OnboardingInv ==
  /\ OnboardingTypeOK
  /\ LinksAreTrue
  /\ MailIsOfAChallenge
  /\ AttemptsAreTrue
  /\ ReportsAreTrue
  /\ EndedAttemptIsReported
  /\ UnreportedIsUntried

Accounts == [role: {"CUSTOMER", "EMPLOYEE", Null}, status: {"none", "PENDING", "READY"},
             active: BOOLEAN, version: 0..MaxStatusChanges]
Tables == [Addresses -> Seq(Challenge)]

\* new holds the same challenges, showing the same deliveries, and new ones
\* that show none.
Continues(new) ==
  /\ new \in Tables
  /\ \A u \in Addresses :
       /\ Len(new[u]) >= Len(challenge[u])
       /\ \A g \in 1..Len(challenge[u]) :
            /\ new[u][g].status = challenge[u][g].status
            /\ new[u][g].attempt = challenge[u][g].attempt
       /\ \A g \in (Len(challenge[u]) + 1)..Len(new[u]) : new[u][g].attempt = 0

\* Each address has a sequence of challenges, numbered from one.
LEMMA ChallengeTable ==
  ASSUME OnboardingTypeOK
  PROVE  /\ \A u \in Addresses : /\ challenge[u] \in Seq(Challenge)
                                 /\ Len(challenge[u]) \in Nat
                                 /\ DOMAIN challenge[u] = 1..Len(challenge[u])
                                 /\ \A g \in 1..Len(challenge[u]) :
                                      challenge[u][g] \in Challenge
         /\ \A i \in Ids : i[1] \in Addresses /\ i[2] \in 1..MaxGeneration /\ i = <<i[1], i[2]>>
         /\ \A i \in Issued : i \in Ids /\ i[2] \in 1..Len(challenge[i[1]])
         /\ \A i \in Ids : i[2] \in 1..Len(challenge[i[1]]) => i \in Issued
<1>1. \A u \in Addresses : challenge[u] \in Seq(Challenge)
  BY DEF OnboardingTypeOK
<1>2. \A u \in Addresses : /\ Len(challenge[u]) \in Nat
                           /\ DOMAIN challenge[u] = 1..Len(challenge[u])
                           /\ \A g \in 1..Len(challenge[u]) : challenge[u][g] \in Challenge
  BY <1>1, LenProperties
<1>3. \A i \in Ids : i[1] \in Addresses /\ i[2] \in 1..MaxGeneration /\ i = <<i[1], i[2]>>
  BY DEF Ids
<1>4. \A i \in Issued : i \in Ids /\ i[2] <= Len(challenge[i[1]])
  BY DEF Issued
<1>5. \A i \in Issued : i[2] \in 1..Len(challenge[i[1]])
  BY <1>2, <1>3, <1>4, OnboardingAssumption DEF OnboardingAssumption
<1>6. \A i \in Ids : i[2] \in 1..Len(challenge[i[1]]) => i \in Issued
  BY <1>2, <1>3 DEF Issued
<1> QED BY <1>1, <1>2, <1>3, <1>4, <1>5, <1>6

\* Rows numbered like those of an address are a sequence of that length.
LEMMA RowsOfAddress ==
  ASSUME OnboardingTypeOK, NEW u \in Addresses,
         NEW cs \in [1..Len(challenge[u]) -> Challenge]
  PROVE  cs \in Seq(Challenge) /\ Len(cs) = Len(challenge[u])
<1>1. Len(challenge[u]) \in Nat
  BY ChallengeTable
<1>2. cs \in Seq(Challenge)
  BY <1>1, SeqDef
<1>3. DOMAIN cs = 1..Len(challenge[u]) /\ DOMAIN cs = 1..Len(cs) /\ Len(cs) \in Nat
  BY <1>2, LenProperties
<1> QED BY <1>1, <1>2, <1>3

\* Every address keeps its challenges, each with what its delivery shows.
LEMMA RewrittenTable ==
  ASSUME OnboardingTypeOK, NEW new, DOMAIN new = Addresses, new = [u \in Addresses |-> new[u]],
         \A u \in Addresses : new[u] \in [1..Len(challenge[u]) -> Challenge],
         \A u \in Addresses : \A g \in 1..Len(challenge[u]) :
           /\ new[u][g].status = challenge[u][g].status
           /\ new[u][g].attempt = challenge[u][g].attempt
  PROVE  /\ Continues(new)
         /\ \A u \in Addresses : Len(new[u]) = Len(challenge[u])
<1>1. \A u \in Addresses : new[u] \in Seq(Challenge) /\ Len(new[u]) = Len(challenge[u])
  BY RowsOfAddress
<1>2. \A u \in Addresses : Len(challenge[u]) \in Nat
  BY ChallengeTable
<1>3. new \in Tables
  BY <1>1 DEF Tables
<1> QED BY <1>1, <1>2, <1>3 DEF Continues

\* One row changes.
LEMMA RewrittenRow ==
  ASSUME OnboardingTypeOK, NEW i \in Issued, NEW row \in Challenge,
         challenge' = [challenge EXCEPT ![i[1]][i[2]] = row]
  PROVE  /\ challenge' \in Tables
         /\ \A u \in Addresses : Len(challenge'[u]) = Len(challenge[u])
         /\ \A u \in Addresses : \A g \in 1..Len(challenge[u]) :
              challenge'[u][g] = IF u = i[1] /\ g = i[2] THEN row ELSE challenge[u][g]
<1>1. /\ \A u \in Addresses : challenge[u] \in Seq(Challenge)
      /\ i[1] \in Addresses /\ i[2] \in 1..Len(challenge[i[1]])
  BY ChallengeTable
<1>2. PICK cs : cs = [challenge[i[1]] EXCEPT ![i[2]] = row]
  OBVIOUS
<1>3. challenge \in [Addresses -> Seq(Challenge)]
  BY DEF OnboardingTypeOK
<1>4. challenge' = [challenge EXCEPT ![i[1]] = cs]
  BY <1>2
<1>5. /\ cs \in Seq(Challenge) /\ Len(cs) = Len(challenge[i[1]])
      /\ \A g \in 1..Len(challenge[i[1]]) : cs[g] = IF g = i[2] THEN row ELSE challenge[i[1]][g]
  BY <1>1, <1>2, ExceptSeq
<1>6. challenge' \in [Addresses -> Seq(Challenge)]
  BY <1>1, <1>3, <1>4, <1>5
<1>7. \A u \in Addresses : challenge'[u] = IF u = i[1] THEN cs ELSE challenge[u]
  BY <1>3, <1>4
<1> QED BY <1>5, <1>6, <1>7 DEF Tables

\* What a transaction makes of one row.
LEMMA ChallengeRow ==
  ASSUME NEW c \in Challenge
  PROVE  /\ Scrubbed(c) \in Challenge
         /\ Scrubbed(c).state = c.state
         /\ Scrubbed(c).status = c.status
         /\ Scrubbed(c).attempt = c.attempt
         /\ RevokedChallenge(c) \in Challenge
         /\ RevokedChallenge(c).state # "current"
         /\ RevokedChallenge(c).state = "consumed" => c.state = "consumed"
         /\ c.state = "consumed" => RevokedChallenge(c).state = "consumed"
         /\ RevokedChallenge(c).status = c.status
         /\ RevokedChallenge(c).attempt = c.attempt
<1>1. /\ Scrubbed(c) \in Challenge
      /\ Scrubbed(c).state = c.state
      /\ Scrubbed(c).status = c.status
      /\ Scrubbed(c).attempt = c.attempt
  BY DEF Challenge, Scrubbed
<1>2. PICK d : d = [c EXCEPT !.state = "revoked"]
  OBVIOUS
<1>3. /\ d \in Challenge /\ d.state = "revoked"
      /\ d.status = c.status /\ d.attempt = c.attempt
  BY <1>2 DEF Challenge
<1>4. /\ Scrubbed(d) \in Challenge
      /\ Scrubbed(d).state = "revoked"
      /\ Scrubbed(d).status = c.status
      /\ Scrubbed(d).attempt = c.attempt
  BY <1>3 DEF Challenge, Scrubbed
<1>5. RevokedChallenge(c) = IF c.state = "current" THEN Scrubbed(d) ELSE c
  BY <1>2 DEF RevokedChallenge
<1> QED BY <1>1, <1>4, <1>5

\* createChallenge adds the one current link, behind rows that are none.
LEMMA CreatedChallenge ==
  ASSUME OnboardingTypeOK, NEW u \in Addresses, CreateChallenge(u)
  PROVE  /\ Continues(challenge')
         /\ cooling' \subseteq Addresses
         /\ Len(challenge'[u]) = Len(challenge[u]) + 1
         /\ challenge'[u][Len(challenge[u]) + 1].state = "current"
         /\ \A g \in 1..Len(challenge[u]) :
              /\ challenge'[u][g].state # "current"
              /\ challenge'[u][g].state = "consumed" => challenge[u][g].state = "consumed"
         /\ \A v \in Addresses \ {u} : challenge'[v] = challenge[v]
<1>1. PICK n : n = Len(challenge[u])
  OBVIOUS
<1>2. PICK old : old = RevokeAll(challenge[u])
  OBVIOUS
<1>3. /\ n \in Nat /\ DOMAIN challenge[u] = 1..n
      /\ \A g \in 1..n : challenge[u][g] \in Challenge
  BY <1>1, ChallengeTable
<1>4. old = [g \in 1..n |-> RevokedChallenge(challenge[u][g])]
  BY <1>2, <1>3 DEF RevokeAll
<1>5. \A g \in 1..n : /\ old[g] \in Challenge
                      /\ old[g].state # "current"
                      /\ old[g].state = "consumed" => challenge[u][g].state = "consumed"
                      /\ old[g].status = challenge[u][g].status
                      /\ old[g].attempt = challenge[u][g].attempt
  BY <1>3, <1>4, ChallengeRow
<1>6. old \in [1..n -> Challenge]
  BY <1>4, <1>5
<1>7. old \in Seq(Challenge) /\ Len(old) = n
  BY <1>1, <1>6, RowsOfAddress
<1>8. NewChallenge \in Challenge /\ NewChallenge.state = "current" /\ NewChallenge.attempt = 0
  BY OnboardingAssumption DEF NewChallenge, Challenge, OnboardingAssumption
<1>9. PICK cs : cs = Append(old, NewChallenge)
  OBVIOUS
<1>10. /\ cs \in Seq(Challenge) /\ Len(cs) = n + 1
       /\ \A g \in 1..n : cs[g] = old[g]
       /\ cs[n + 1] = NewChallenge
  BY <1>3, <1>7, <1>8, <1>9
<1>11. challenge' = [challenge EXCEPT ![u] = cs] /\ cooling' = cooling \cup {u}
  BY <1>2, <1>9 DEF CreateChallenge
<1>12. challenge \in [Addresses -> Seq(Challenge)] /\ cooling \subseteq Addresses
  BY DEF OnboardingTypeOK
<1>13. /\ challenge' \in Tables
       /\ challenge'[u] = cs
       /\ \A v \in Addresses \ {u} : challenge'[v] = challenge[v]
  BY <1>10, <1>11, <1>12 DEF Tables
<1>14. Continues(challenge')
  <2> SUFFICES ASSUME NEW v \in Addresses
               PROVE  /\ Len(challenge'[v]) >= Len(challenge[v])
                      /\ \A g \in 1..Len(challenge[v]) :
                           /\ challenge'[v][g].status = challenge[v][g].status
                           /\ challenge'[v][g].attempt = challenge[v][g].attempt
                      /\ \A g \in (Len(challenge[v]) + 1)..Len(challenge'[v]) :
                           challenge'[v][g].attempt = 0
    BY <1>13 DEF Continues
  <2>1. CASE v = u
    BY <1>1, <1>3, <1>5, <1>8, <1>10, <1>13, <2>1
  <2>2. CASE v # u
    <3>1. challenge'[v] = challenge[v] /\ Len(challenge[v]) \in Nat
      BY <1>13, <2>2, ChallengeTable
    <3> QED BY <3>1
  <2> QED BY <2>1, <2>2
<1> QED BY <1>1, <1>3, <1>5, <1>8, <1>10, <1>11, <1>12, <1>13, <1>14

\* Where challenges go on, the ones that were issued still are.
LEMMA ContinuedTable ==
  ASSUME OnboardingTypeOK, UnreportedIsUntried, Continues(challenge')
  PROVE  Issued \subseteq Issued' /\ UnreportedIsUntried'
<1>1. \A u \in Addresses : /\ Len(challenge[u]) \in Nat
                           /\ DOMAIN challenge[u] = 1..Len(challenge[u])
  BY ChallengeTable
<1>2. \A u \in Addresses : /\ Len(challenge'[u]) \in Nat
                           /\ DOMAIN challenge'[u] = 1..Len(challenge'[u])
                           /\ Len(challenge'[u]) >= Len(challenge[u])
  BY LenProperties DEF Continues, Tables
<1>3. Issued \subseteq Issued'
  <2> SUFFICES ASSUME NEW i \in Issued PROVE i \in Issued'
    OBVIOUS
  <2>1. i \in Ids /\ i[1] \in Addresses /\ i[2] \in 1..MaxGeneration
        /\ i[2] <= Len(challenge[i[1]])
    BY DEF Issued, Ids
  <2>2. i[2] <= Len(challenge'[i[1]])
    BY <1>1, <1>2, <2>1, OnboardingAssumption DEF OnboardingAssumption
  <2> QED BY <2>1, <2>2 DEF Issued
<1>4. UnreportedIsUntried'
  <2> SUFFICES ASSUME NEW u \in Addresses, NEW g \in 1..Len(challenge'[u]),
                      challenge'[u][g].status = "PENDING"
               PROVE  challenge'[u][g].attempt = 0
    BY <1>2 DEF UnreportedIsUntried
  <2>1. CASE g \in 1..Len(challenge[u])
    BY <1>1, <2>1 DEF Continues, UnreportedIsUntried
  <2>2. CASE g \in (Len(challenge[u]) + 1)..Len(challenge'[u])
    BY <2>2 DEF Continues
  <2> QED BY <1>1, <1>2, <2>1, <2>2
<1> QED BY <1>3, <1>4

\* Challenges that go on, and links that stay true, are all that the steps of
\* Auth alone must leave behind.
LEMMA AuthStep ==
  ASSUME OnboardingInv, AuthOnly, Continues(challenge'), LinksAreTrue',
         accountAt' \in [Addresses -> Accounts], cooling' \subseteq Addresses
  PROVE  OnboardingInv' /\ Continues(challenge')
<1>1. /\ UNCHANGED <<jobs, delivery, report, unsent, results, seen, worker, accepted, faults>>
  BY DEF AuthOnly, mailer
<1>2. OnboardingTypeOK'
  BY <1>1 DEF OnboardingInv, OnboardingTypeOK, Continues, Tables, Accounts
<1>3. Issued \subseteq Issued' /\ UnreportedIsUntried'
  BY ContinuedTable DEF OnboardingInv
<1>4. MailIsOfAChallenge'
  BY <1>1, <1>3 DEF OnboardingInv, MailIsOfAChallenge
<1>5. AttemptsAreTrue' /\ ReportsAreTrue' /\ EndedAttemptIsReported'
  BY <1>1 DEF OnboardingInv, AttemptsAreTrue, AttemptIsTrue, ReportsAreTrue, ReportIsTrue,
     EndedAttemptIsReported
<1> QED BY <1>2, <1>3, <1>4, <1>5 DEF OnboardingInv

\* A step that moves no challenge to another state, nor changes an account,
\* keeps the links.
LEMMA StatesKept ==
  ASSUME OnboardingTypeOK, LinksAreTrue, UNCHANGED accountAt, challenge' \in Tables,
         \A u \in Addresses :
           /\ Len(challenge'[u]) = Len(challenge[u])
           /\ \A g \in 1..Len(challenge[u]) : challenge'[u][g].state = challenge[u][g].state
  PROVE  LinksAreTrue'
<1> SUFFICES ASSUME NEW u \in Addresses PROVE LinkIsTrue(u)'
  BY DEF LinksAreTrue
<1>1. DOMAIN challenge[u] = 1..Len(challenge[u])
  BY ChallengeTable
<1>2. challenge'[u] \in Seq(Challenge)
  BY DEF Tables
<1>3. DOMAIN challenge'[u] = DOMAIN challenge[u] /\ Len(challenge'[u]) = Len(challenge[u])
  BY <1>1, <1>2, LenProperties
<1>4. LinkIsTrue(u) /\ accountAt' = accountAt
  BY DEF LinksAreTrue
<1> QED BY <1>1, <1>3, <1>4 DEF LinkIsTrue

\* An address that nothing happened to keeps its link.
LEMMA OtherLinks ==
  ASSUME LinksAreTrue, NEW v \in Addresses,
         challenge'[v] = challenge[v], accountAt'[v] = accountAt[v]
  PROVE  LinkIsTrue(v)'
<1>1. LinkIsTrue(v)
  BY DEF LinksAreTrue
<1> QED BY <1>1 DEF LinkIsTrue

\* A new link is the only one of an account that is pending and enabled.
LEMMA CreateStep ==
  ASSUME OnboardingInv, NEW u \in Addresses, CreateChallenge(u), AuthOnly,
         accountAt[u].status # "READY",
         accountAt' \in [Addresses -> Accounts],
         \A v \in Addresses \ {u} : accountAt'[v] = accountAt[v],
         accountAt'[u].status = "PENDING", accountAt'[u].active
  PROVE  OnboardingInv' /\ Continues(challenge')
<1>1. /\ Continues(challenge')
      /\ cooling' \subseteq Addresses
      /\ Len(challenge'[u]) = Len(challenge[u]) + 1
      /\ \A g \in 1..Len(challenge[u]) :
           /\ challenge'[u][g].state # "current"
           /\ challenge'[u][g].state = "consumed" => challenge[u][g].state = "consumed"
      /\ challenge'[u][Len(challenge[u]) + 1].state = "current"
      /\ \A v \in Addresses \ {u} : challenge'[v] = challenge[v]
  BY CreatedChallenge DEF OnboardingInv
<1>2. \A v \in Addresses \ {u} : LinkIsTrue(v)'
  BY <1>1, OtherLinks DEF OnboardingInv
<1>3. LinkIsTrue(u)'
  <2>1. Len(challenge[u]) \in Nat /\ DOMAIN challenge[u] = 1..Len(challenge[u])
    BY ChallengeTable DEF OnboardingInv
  <2>2. \A g \in 1..Len(challenge[u]) : challenge[u][g].state # "consumed"
    BY <2>1 DEF OnboardingInv, LinksAreTrue, LinkIsTrue
  <2>3. DOMAIN challenge'[u] = 1..(Len(challenge[u]) + 1)
    <3>1. challenge'[u] \in Seq(Challenge)
      BY <1>1 DEF Continues, Tables
    <3> QED BY <1>1, <3>1, LenProperties
  <2>4. \A g \in DOMAIN challenge'[u] :
          /\ challenge'[u][g].state # "consumed"
          /\ challenge'[u][g].state = "current" => g = Len(challenge'[u])
    BY <1>1, <2>1, <2>2, <2>3
  <2> QED BY <2>4 DEF LinkIsTrue
<1> QED BY <1>1, <1>2, <1>3, AuthStep DEF LinksAreTrue

LEMMA JoinStep ==
  ASSUME OnboardingInv, NEW u \in Addresses, NEW role \in {"CUSTOMER", "EMPLOYEE"},
         Join(u, role)
  PROVE  OnboardingInv' /\ Continues(challenge')
<1>1. PICK a : a = [accountAt[u] EXCEPT !.role = role, !.status = "PENDING", !.active = TRUE]
  OBVIOUS
<1>2. accountAt \in [Addresses -> Accounts]
  BY DEF OnboardingInv, OnboardingTypeOK, Accounts
<1>3. accountAt[u] \in Accounts
  BY <1>2
<1>4. a \in Accounts /\ a.status = "PENDING" /\ a.active
  BY <1>1, <1>3 DEF Accounts
<1>5. accountAt' = [accountAt EXCEPT ![u] = a]
  BY <1>1 DEF Join
<1>6. /\ accountAt' \in [Addresses -> Accounts] /\ accountAt'[u] = a
      /\ \A v \in Addresses \ {u} : accountAt'[v] = accountAt[v]
  BY <1>2, <1>4, <1>5
<1>7. accountAt[u].status # "READY" /\ CreateChallenge(u) /\ AuthOnly
  BY DEF Join
<1> QED BY <1>4, <1>6, <1>7, CreateStep

LEMMA ResendStep ==
  ASSUME OnboardingInv, NEW u \in Addresses, NEW role \in {"CUSTOMER", "EMPLOYEE"},
         Resend(u, role)
  PROVE  OnboardingInv' /\ Continues(challenge')
<1>1. /\ accountAt' = accountAt /\ accountAt[u].status = "PENDING" /\ accountAt[u].active
      /\ CreateChallenge(u) /\ AuthOnly
  BY DEF Resend
<1>2. accountAt \in [Addresses -> Accounts]
  BY DEF OnboardingInv, OnboardingTypeOK, Accounts
<1> QED BY <1>1, <1>2, CreateStep

\* The link that opens an account is the current one, and is used up.
LEMMA OpenLinkStep ==
  ASSUME OnboardingInv, NEW i \in Ids, NEW role \in {"CUSTOMER", "EMPLOYEE"},
         OpenLink(i, role)
  PROVE  OnboardingInv' /\ Continues(challenge')
<1>1. PICK u : u = i[1]
  OBVIOUS
<1>2. PICK k : k = i[2]
  OBVIOUS
<1>3. /\ i \in Issued /\ accountAt[u].status = "PENDING" /\ accountAt[u].active
      /\ challenge[u][k].state = "current"
      /\ cooling' = cooling /\ AuthOnly
  BY <1>1, <1>2 DEF OpenLink, Usable, ChallengeOf
<1>4. u \in Addresses /\ k \in 1..Len(challenge[u]) /\ challenge[u][k] \in Challenge
      /\ DOMAIN challenge[u] = 1..Len(challenge[u]) /\ Len(challenge[u]) \in Nat
  BY <1>1, <1>2, <1>3, ChallengeTable DEF OnboardingInv
<1>5. PICK d : d = [challenge[u][k] EXCEPT !.state = "consumed"]
  OBVIOUS
<1>6. d \in Challenge /\ d.state = "consumed" /\ d.status = challenge[u][k].status
      /\ d.attempt = challenge[u][k].attempt
  BY <1>4, <1>5 DEF Challenge
<1>7. PICK row : row = Scrubbed(d)
  OBVIOUS
<1>8. /\ row \in Challenge /\ row.state = "consumed"
      /\ row.status = challenge[u][k].status /\ row.attempt = challenge[u][k].attempt
  BY <1>6, <1>7, ChallengeRow
<1>9. challenge' = [challenge EXCEPT ![i[1]][i[2]] = row]
  BY <1>1, <1>2, <1>5, <1>7 DEF OpenLink, ConsumeChallenge
<1>10. /\ challenge' \in Tables
       /\ \A v \in Addresses : Len(challenge'[v]) = Len(challenge[v])
       /\ \A v \in Addresses : \A g \in 1..Len(challenge[v]) :
            challenge'[v][g] = IF v = u /\ g = k THEN row ELSE challenge[v][g]
  <2>1. /\ challenge' \in Tables
        /\ \A v \in Addresses : Len(challenge'[v]) = Len(challenge[v])
        /\ \A v \in Addresses : \A g \in 1..Len(challenge[v]) :
             challenge'[v][g] = IF v = i[1] /\ g = i[2] THEN row ELSE challenge[v][g]
    BY <1>3, <1>8, <1>9, RewrittenRow DEF OnboardingInv
  <2> QED BY <1>1, <1>2, <2>1
<1>11. \A v \in Addresses : Len(challenge[v]) \in Nat /\ challenge[v] \in Seq(Challenge)
                            /\ DOMAIN challenge[v] = 1..Len(challenge[v])
  BY ChallengeTable DEF OnboardingInv
<1>12. Continues(challenge')
  BY <1>8, <1>10, <1>11 DEF Continues
<1>13. accountAt \in [Addresses -> Accounts] /\ cooling \subseteq Addresses
  BY DEF OnboardingInv, OnboardingTypeOK, Accounts
<1>14. PICK a : a = [accountAt[u] EXCEPT !.status = "READY"]
  OBVIOUS
<1>15. a \in Accounts /\ a.status = "READY"
  <2>1. accountAt[u] \in Accounts
    BY <1>4, <1>13
  <2> QED BY <1>14, <2>1 DEF Accounts
<1>16. accountAt' = [accountAt EXCEPT ![u] = a]
  BY <1>1, <1>14 DEF OpenLink
<1>17. /\ accountAt' \in [Addresses -> Accounts] /\ accountAt'[u] = a
       /\ \A v \in Addresses \ {u} : accountAt'[v] = accountAt[v]
  BY <1>4, <1>13, <1>15, <1>16
<1>18. \A v \in Addresses : DOMAIN challenge'[v] = DOMAIN challenge[v]
  <2>1. \A v \in Addresses : challenge'[v] \in Seq(Challenge)
    BY <1>10 DEF Tables
  <2> QED BY <1>10, <1>11, <2>1, LenProperties
<1>19. LinkIsTrue(u)'
  <2>1. LinkIsTrue(u)
    BY <1>4 DEF OnboardingInv, LinksAreTrue
  <2>2. /\ \A g \in DOMAIN challenge[u] : challenge[u][g].state # "consumed"
        /\ \A g \in DOMAIN challenge[u] : challenge[u][g].state = "current" => g = k
    BY <1>3, <1>4, <2>1 DEF LinkIsTrue
  <2>3. \A g \in DOMAIN challenge'[u] :
          /\ challenge'[u][g].state # "current"
          /\ challenge'[u][g].state = "consumed" => g = k
    BY <1>4, <1>8, <1>10, <1>18, <2>2
  <2>4. k \in DOMAIN challenge'[u] /\ challenge'[u][k].state = "consumed"
    BY <1>4, <1>8, <1>10, <1>18
  <2> QED BY <1>15, <1>17, <2>3, <2>4 DEF LinkIsTrue
<1>20. ASSUME NEW v \in Addresses \ {u} PROVE LinkIsTrue(v)'
  <2>1. challenge'[v] = challenge[v]
    <3>1. challenge'[v] \in Seq(Challenge)
      BY <1>10 DEF Tables
    <3> QED BY <1>10, <1>11, <3>1, SeqEqual
  <2> QED BY <1>17, <2>1, OtherLinks DEF OnboardingInv
<1>21. LinksAreTrue'
  BY <1>19, <1>20 DEF LinksAreTrue
<1> QED BY <1>3, <1>12, <1>13, <1>17, <1>21, AuthStep

\* A change of an employee's status leaves him no current link.
LEMMA EmployeeStatusStep ==
  ASSUME OnboardingInv, NEW u \in Addresses, EmployeeStatusChanges(u)
  PROVE  OnboardingInv' /\ Continues(challenge')
<1>1. accountAt \in [Addresses -> Accounts] /\ cooling \subseteq Addresses
      /\ challenge \in [Addresses -> Seq(Challenge)]
  BY DEF OnboardingInv, OnboardingTypeOK, Accounts
<1>2. /\ accountAt[u] \in Accounts /\ accountAt[u].version < MaxStatusChanges
      /\ cooling' = cooling /\ AuthOnly
  BY <1>1 DEF EmployeeStatusChanges
<1>3. PICK b : b = ~accountAt[u].active
  OBVIOUS
<1>4. PICK n : n = accountAt[u].version + 1
  OBVIOUS
<1>5. /\ b \in BOOLEAN /\ n \in 0..MaxStatusChanges
      /\ accountAt' = [accountAt EXCEPT ![u].active = b, ![u].version = n]
  <2>1. b \in BOOLEAN
    BY <1>3, Zenon
  <2>2. n \in 0..MaxStatusChanges
    BY <1>2, <1>4, OnboardingAssumption DEF Accounts, OnboardingAssumption
  <2>3. accountAt' = [accountAt EXCEPT ![u].active = b, ![u].version = n]
    BY <1>3, <1>4, Zenon DEF EmployeeStatusChanges
  <2> QED BY <2>1, <2>2, <2>3
<1>6. /\ accountAt' \in [Addresses -> Accounts] /\ accountAt'[u].status = accountAt[u].status
      /\ \A v \in Addresses \ {u} : accountAt'[v] = accountAt[v]
  <2>1. PICK a : a = [accountAt[u] EXCEPT !.active = b, !.version = n]
    OBVIOUS
  <2>2. a \in Accounts /\ a.status = accountAt[u].status
    BY <1>2, <1>5, <2>1 DEF Accounts
  <2>3. accountAt' = [accountAt EXCEPT ![u] = a]
    BY <1>5, <2>1
  <2> QED BY <1>1, <2>2, <2>3
<1>7. PICK cs : cs = StatusRevokes(u)
  OBVIOUS
<1>8. \A v \in Addresses : /\ Len(challenge[v]) \in Nat
                           /\ DOMAIN challenge[v] = 1..Len(challenge[v])
                           /\ \A g \in 1..Len(challenge[v]) : challenge[v][g] \in Challenge
  BY ChallengeTable DEF OnboardingInv
<1>9. cs = [g \in 1..Len(challenge[u]) |-> Scrubbed(RevokedChallenge(challenge[u][g]))]
  BY <1>7, <1>8 DEF StatusRevokes
<1>10. \A g \in 1..Len(challenge[u]) :
         /\ cs[g] \in Challenge
         /\ cs[g].state # "current"
         /\ cs[g].state = "consumed" <=> challenge[u][g].state = "consumed"
         /\ cs[g].status = challenge[u][g].status
         /\ cs[g].attempt = challenge[u][g].attempt
  BY <1>8, <1>9, ChallengeRow
<1>11. cs \in [1..Len(challenge[u]) -> Challenge]
  BY <1>9, <1>10
<1>12. cs \in Seq(Challenge) /\ Len(cs) = Len(challenge[u])
       /\ DOMAIN cs = 1..Len(challenge[u])
  BY <1>11, RowsOfAddress DEF OnboardingInv
<1>13. challenge' = [challenge EXCEPT ![u] = cs]
  BY <1>7 DEF EmployeeStatusChanges
<1>14. /\ challenge' \in Tables /\ challenge'[u] = cs
       /\ \A v \in Addresses \ {u} : challenge'[v] = challenge[v]
  BY <1>1, <1>12, <1>13 DEF Tables
<1>15. Continues(challenge')
  BY <1>8, <1>10, <1>12, <1>14 DEF Continues
<1>16. LinkIsTrue(u)'
  <2>1. LinkIsTrue(u)
    BY DEF OnboardingInv, LinksAreTrue
  <2> QED BY <1>6, <1>8, <1>10, <1>12, <1>14, <2>1 DEF LinkIsTrue
<1>17. \A v \in Addresses \ {u} : LinkIsTrue(v)'
  BY <1>6, <1>14, OtherLinks DEF OnboardingInv
<1> QED BY <1>1, <1>2, <1>6, <1>15, <1>16, <1>17, AuthStep DEF LinksAreTrue

\* A row that is edited but for its state, and what it shows.
LEMMA EditedRow ==
  ASSUME OnboardingInv, NEW i \in Issued, NEW row \in Challenge,
         challenge' = [challenge EXCEPT ![i[1]][i[2]] = row],
         row.state = ChallengeOf(i).state, row.status = ChallengeOf(i).status,
         row.attempt = ChallengeOf(i).attempt, UNCHANGED accountAt
  PROVE  Continues(challenge') /\ LinksAreTrue'
<1>1. /\ challenge' \in Tables
      /\ \A u \in Addresses : Len(challenge'[u]) = Len(challenge[u])
      /\ \A u \in Addresses : \A g \in 1..Len(challenge[u]) :
           challenge'[u][g] = IF u = i[1] /\ g = i[2] THEN row ELSE challenge[u][g]
  BY RewrittenRow DEF OnboardingInv
<1>2. \A u \in Addresses : Len(challenge[u]) \in Nat
  BY ChallengeTable DEF OnboardingInv
<1>3. Continues(challenge')
  BY <1>1, <1>2 DEF Continues, ChallengeOf
<1>4. \A u \in Addresses : \A g \in 1..Len(challenge[u]) :
        challenge'[u][g].state = challenge[u][g].state
  BY <1>1 DEF ChallengeOf
<1> QED BY <1>1, <1>3, <1>4, StatesKept DEF OnboardingInv

LEMMA ExpireStep ==
  ASSUME OnboardingInv, NEW i \in Ids, Expire(i)
  PROVE  OnboardingInv' /\ Continues(challenge')
<1>1. i \in Issued /\ accountAt' = accountAt /\ cooling' = cooling /\ AuthOnly
  BY DEF Expire
<1>2. ChallengeOf(i) \in Challenge
  BY <1>1, ChallengeTable DEF OnboardingInv, ChallengeOf
<1>3. PICK row : row = [ChallengeOf(i) EXCEPT !.expired = TRUE]
  OBVIOUS
<1>4. /\ row \in Challenge /\ row.state = ChallengeOf(i).state
      /\ row.status = ChallengeOf(i).status /\ row.attempt = ChallengeOf(i).attempt
  BY <1>2, <1>3 DEF Challenge
<1>5. challenge' = [challenge EXCEPT ![i[1]][i[2]] = row]
  BY <1>3 DEF Expire, ChallengeOf
<1>6. Continues(challenge') /\ LinksAreTrue'
  BY <1>1, <1>4, <1>5, EditedRow
<1>7. accountAt \in [Addresses -> Accounts] /\ cooling \subseteq Addresses
  BY DEF OnboardingInv, OnboardingTypeOK, Accounts
<1> QED BY <1>1, <1>6, <1>7, AuthStep

\* The sweep drops content and nothing else.
LEMMA ScrubStep ==
  ASSUME OnboardingInv, Scrub
  PROVE  OnboardingInv' /\ Continues(challenge')
<1>1. accountAt' = accountAt /\ cooling' = cooling /\ AuthOnly
  BY DEF Scrub
<1>2. \A u \in Addresses : /\ Len(challenge[u]) \in Nat
                           /\ DOMAIN challenge[u] = 1..Len(challenge[u])
                           /\ \A g \in 1..Len(challenge[u]) : challenge[u][g] \in Challenge
  BY ChallengeTable DEF OnboardingInv
<1>3. challenge' = [u \in Addresses |-> [g \in 1..Len(challenge[u]) |->
        IF Dead(challenge[u][g]) THEN Scrubbed(challenge[u][g]) ELSE challenge[u][g]]]
  BY <1>2 DEF Scrub
<1>4. \A u \in Addresses : \A g \in 1..Len(challenge[u]) :
        /\ challenge'[u][g] \in Challenge
        /\ challenge'[u][g].state = challenge[u][g].state
        /\ challenge'[u][g].status = challenge[u][g].status
        /\ challenge'[u][g].attempt = challenge[u][g].attempt
  BY <1>2, <1>3, ChallengeRow
<1>5. \A u \in Addresses : challenge'[u] \in [1..Len(challenge[u]) -> Challenge]
  BY <1>3, <1>4
<1>6. DOMAIN challenge' = Addresses /\ challenge' = [u \in Addresses |-> challenge'[u]]
  BY <1>3
<1>7. Continues(challenge') /\ \A u \in Addresses : Len(challenge'[u]) = Len(challenge[u])
  BY <1>4, <1>5, <1>6, RewrittenTable DEF OnboardingInv
<1>8. LinksAreTrue'
  BY <1>1, <1>4, <1>7, StatesKept DEF OnboardingInv, Continues
<1>9. accountAt \in [Addresses -> Accounts] /\ cooling \subseteq Addresses
  BY DEF OnboardingInv, OnboardingTypeOK, Accounts
<1> QED BY <1>1, <1>7, <1>8, <1>9, AuthStep

\* A table that is left alone goes on.
LEMMA KeptTable ==
  ASSUME OnboardingInv, UNCHANGED <<accountAt, challenge>>
  PROVE  Continues(challenge') /\ LinksAreTrue'
<1>1. \A u \in Addresses : Len(challenge[u]) \in Nat
  BY ChallengeTable DEF OnboardingInv
<1>2. Continues(challenge')
  BY <1>1 DEF OnboardingInv, OnboardingTypeOK, Continues, Tables
<1> QED BY <1>2, StatesKept DEF OnboardingInv, Continues

LEMMA CooldownStep ==
  ASSUME OnboardingInv, NEW u \in Addresses, CooldownEnds(u)
  PROVE  OnboardingInv' /\ Continues(challenge')
<1>1. /\ UNCHANGED <<accountAt, challenge>> /\ cooling' \subseteq cooling /\ AuthOnly
  BY DEF CooldownEnds
<1>2. accountAt \in [Addresses -> Accounts] /\ cooling \subseteq Addresses
  BY DEF OnboardingInv, OnboardingTypeOK, Accounts
<1> QED BY <1>1, <1>2, KeptTable, AuthStep

\* As many challenges everywhere are the same ones.
LEMMA SameChallenges ==
  ASSUME \A u \in Addresses : Len(challenge'[u]) = Len(challenge[u])
  PROVE  Issued' = Issued
<1>1. \A i \in Ids : i[1] \in Addresses
  BY DEF Ids
<1> QED BY <1>1 DEF Issued

------------------------------------------------------------------------------
\* Onboarding: the deliveries.

\* A failure spends one of those the model allows.
LEMMA FaultsAreBounded ==
  ASSUME OnboardingInv, NoFault \/ Fault
  PROVE  faults' \in 0..MaxFaults
<1>1. faults \in 0..MaxFaults /\ MaxFaults \in Nat
  BY OnboardingAssumption DEF OnboardingInv, OnboardingTypeOK, OnboardingAssumption
<1> QED BY <1>1 DEF NoFault, Fault

\* What Notification keeps says the same while it is left alone.
LEMMA MailerKept ==
  ASSUME OnboardingInv, UNCHANGED <<delivery, worker, report>>
  PROVE  AttemptsAreTrue' /\ ReportsAreTrue' /\ EndedAttemptIsReported'
BY DEF OnboardingInv, AttemptsAreTrue, AttemptIsTrue, ReportsAreTrue, ReportIsTrue,
   EndedAttemptIsReported

\* Deliveries exist and count their attempts for good.
DeliveriesGoOn ==
  /\ delivery' \in [Ids -> Delivery]
  /\ \A i \in Ids : delivery[i].status # "absent" =>
       delivery'[i].status # "absent" /\ delivery'[i].attempts >= delivery[i].attempts

\* A worker that does nothing is at the attempt it was at.
LEMMA OtherWorkers ==
  ASSUME OnboardingInv, DeliveriesGoOn, NEW v \in Workers, worker'[v] = worker[v]
  PROVE  AttemptIsTrue(v)'
<1> SUFFICES ASSUME worker[v].step # "idle"
             PROVE  /\ worker[v].id \in Ids
                    /\ delivery'[worker[v].id].status # "absent"
                    /\ worker[v].attempt \in 1..delivery'[worker[v].id].attempts
                    /\ worker[v].step = "ended" => worker[v].outcome \in Outcomes
  BY DEF AttemptIsTrue
<1>1. PICK i : i = worker[v].id
  OBVIOUS
<1>2. /\ i \in Ids /\ delivery[i].status # "absent"
      /\ worker[v].attempt \in 1..delivery[i].attempts
      /\ worker[v].step = "ended" => worker[v].outcome \in Outcomes
  BY <1>1 DEF OnboardingInv, AttemptsAreTrue, AttemptIsTrue
<1>3. delivery[i] \in Delivery /\ delivery'[i] \in Delivery
  BY <1>2 DEF DeliveriesGoOn, OnboardingInv, OnboardingTypeOK
<1>4. delivery[i].attempts \in Nat /\ delivery'[i].attempts \in Nat
  BY <1>3, OnboardingAssumption DEF Delivery, OnboardingAssumption
<1>5. delivery'[i].status # "absent" /\ delivery'[i].attempts >= delivery[i].attempts
  BY <1>2 DEF DeliveriesGoOn
<1> QED BY <1>1, <1>2, <1>4, <1>5

\* A step of Notification leaves Auth alone and keeps to the types.
LEMMA MailerStep ==
  ASSUME OnboardingInv, UNCHANGED auth, NoFault \/ Fault,
         jobs' \subseteq jobs, delivery' \in [Ids -> Delivery],
         \A i \in Ids : delivery'[i].status # "absent" => i \in Issued,
         worker' \in [Workers -> Worker],
         report' \subseteq Outcome, unsent' \subseteq report',
         results' \subseteq report', seen' \subseteq report', accepted' \subseteq Ids,
         AttemptsAreTrue', ReportsAreTrue', EndedAttemptIsReported'
  PROVE  OnboardingInv'
<1>1. accountAt' = accountAt /\ cooling' = cooling /\ challenge' = challenge
  BY DEF auth
<1>2. Continues(challenge') /\ LinksAreTrue'
  BY <1>1, KeptTable
<1>3. Issued' = Issued
  BY <1>1 DEF Issued
<1>4. UnreportedIsUntried'
  BY <1>2, ContinuedTable DEF OnboardingInv
<1>5. faults' \in 0..MaxFaults
  BY FaultsAreBounded
<1>6. OnboardingTypeOK'
  <2>1. jobs' \subseteq Ids
    BY DEF OnboardingInv, OnboardingTypeOK
  <2> QED BY <1>1, <1>5, <2>1 DEF OnboardingInv, OnboardingTypeOK
<1>7. MailIsOfAChallenge'
  BY <1>3 DEF OnboardingInv, MailIsOfAChallenge
<1> QED BY <1>2, <1>4, <1>6, <1>7 DEF OnboardingInv

LEMMA PublishMailStep ==
  ASSUME OnboardingInv, NEW i \in Ids, PublishMail(i)
  PROVE  OnboardingInv' /\ Continues(challenge')
<1>1. /\ i \in Issued /\ jobs' = jobs \cup {i}
      /\ UNCHANGED <<accountAt, cooling, delivery, report, unsent, results, seen, worker, accepted>>
      /\ NoFault \/ Fault
  BY DEF PublishMail, Mailable, mailer
<1>2. Continues(challenge') /\ LinksAreTrue'
  <2>1. CASE challenge' = challenge
    BY <1>1, <2>1, KeptTable
  <2>2. CASE challenge' = [challenge EXCEPT ![i[1]][i[2]].mail = "published"]
    <3>1. ChallengeOf(i) \in Challenge
      BY <1>1, ChallengeTable DEF OnboardingInv, ChallengeOf
    <3>2. PICK row : row = [ChallengeOf(i) EXCEPT !.mail = "published"]
      OBVIOUS
    <3>3. /\ row \in Challenge /\ row.state = ChallengeOf(i).state
          /\ row.status = ChallengeOf(i).status /\ row.attempt = ChallengeOf(i).attempt
      BY <3>1, <3>2 DEF Challenge
    <3>4. challenge' = [challenge EXCEPT ![i[1]][i[2]] = row]
      BY <2>2, <3>2 DEF ChallengeOf
    <3> QED BY <1>1, <3>3, <3>4, EditedRow
  <2> QED BY <2>1, <2>2 DEF PublishMail
<1>3. Issued \subseteq Issued' /\ UnreportedIsUntried'
  BY <1>2, ContinuedTable DEF OnboardingInv
<1>4. AttemptsAreTrue' /\ ReportsAreTrue' /\ EndedAttemptIsReported'
  BY <1>1, MailerKept
<1>5. MailIsOfAChallenge'
  BY <1>1, <1>3 DEF OnboardingInv, MailIsOfAChallenge
<1>6. OnboardingTypeOK'
  <2>1. faults' \in 0..MaxFaults
    BY <1>1, FaultsAreBounded
  <2> QED BY <1>1, <1>2, <2>1 DEF OnboardingInv, OnboardingTypeOK, Continues, Tables
<1> QED BY <1>2, <1>3, <1>4, <1>5, <1>6 DEF OnboardingInv

\* A result comes of an attempt at the mail of a challenge.
LEMMA ReportedChallenge ==
  ASSUME OnboardingInv, NEW o \in report
  PROVE  /\ o \in Outcome /\ o.id \in Ids /\ o.attempt \in 1..RetryLimit
         /\ o.status \in Outcomes /\ o.id \in Issued /\ ChallengeOf(o.id) \in Challenge
<1>1. o \in Outcome /\ o.id \in Ids /\ o.attempt \in 1..RetryLimit /\ o.status \in Outcomes
  BY DEF OnboardingInv, OnboardingTypeOK, Outcome
<1>2. o.id \in Issued
  BY <1>1 DEF OnboardingInv, ReportsAreTrue, ReportIsTrue, MailIsOfAChallenge
<1>3. ChallengeOf(o.id) \in Challenge
  BY <1>2, ChallengeTable DEF OnboardingInv, ChallengeOf
<1> QED BY <1>1, <1>2, <1>3

\* The row that shows a result.
LEMMA ShowingRow ==
  ASSUME NEW c \in Challenge, NEW o \in Outcome
  PROVE  /\ Showing(c, o) \in Challenge
         /\ Showing(c, o).state = c.state
         /\ Showing(c, o).status = o.status
         /\ Showing(c, o).attempt = o.attempt
         /\ Showing(c, o).terminal = Final(o)
<1>1. PICK f : f = Final(o)
  OBVIOUS
<1>2. f \in BOOLEAN
  BY <1>1 DEF Final
<1>3. PICK m : m = IF f THEN "scrubbed" ELSE c.mail
  OBVIOUS
<1>4. m \in {"pending", "published", "scrubbed"}
  BY <1>3 DEF Challenge
<1>5. PICK row : row = [c EXCEPT !.status = o.status, !.attempt = o.attempt,
                                 !.terminal = f, !.mail = m]
  OBVIOUS
<1>6. Showing(c, o) = row
  BY <1>1, <1>3, <1>5, Zenon DEF Showing
<1>7. o.attempt \in 0..RetryLimit /\ o.status \in Outcomes
  BY OnboardingAssumption DEF Outcome, OnboardingAssumption
<1>8. /\ row \in Challenge /\ row.state = c.state /\ row.status = o.status
      /\ row.attempt = o.attempt /\ row.terminal = f
  BY <1>2, <1>4, <1>5, <1>7 DEF Challenge
<1> QED BY <1>1, <1>6, <1>8, Zenon

\* A result that is consumed changes what its challenge shows, or nothing.
LEMMA ConsumedResult ==
  ASSUME OnboardingInv, NEW o \in results, ConsumeOutcome(o)
  PROVE  \/ challenge' = challenge
         \/ /\ Applies(o)
            /\ challenge' \in Tables
            /\ \A u \in Addresses : Len(challenge'[u]) = Len(challenge[u])
            /\ \A u \in Addresses : \A g \in 1..Len(challenge[u]) :
                 challenge'[u][g] = IF u = o.id[1] /\ g = o.id[2]
                                    THEN Showing(ChallengeOf(o.id), o) ELSE challenge[u][g]
<1>1. o \in report
  BY DEF OnboardingInv, OnboardingTypeOK
<1>2. o.id \in Issued /\ ChallengeOf(o.id) \in Challenge /\ o \in Outcome
  BY <1>1, ReportedChallenge
<1>3. ASSUME challenge' = [challenge EXCEPT ![o.id[1]][o.id[2]] = Showing(ChallengeOf(o.id), o)]
      PROVE  /\ challenge' \in Tables
             /\ \A u \in Addresses : Len(challenge'[u]) = Len(challenge[u])
             /\ \A u \in Addresses : \A g \in 1..Len(challenge[u]) :
                  challenge'[u][g] = IF u = o.id[1] /\ g = o.id[2]
                                     THEN Showing(ChallengeOf(o.id), o) ELSE challenge[u][g]
  <2>1. PICK i : i = o.id
    OBVIOUS
  <2>2. PICK row : row = Showing(ChallengeOf(o.id), o)
    OBVIOUS
  <2>3. i \in Issued /\ row \in Challenge
    BY <1>2, <2>1, <2>2, ShowingRow
  <2>4. challenge' = [challenge EXCEPT ![i[1]][i[2]] = row]
    BY <1>3, <2>1, <2>2
  <2> QED BY <2>1, <2>2, <2>3, <2>4, RewrittenRow DEF OnboardingInv
<1>4. CASE o \notin seen /\ Applies(o)
  <2>1. challenge' = [challenge EXCEPT ![o.id[1]][o.id[2]] = Showing(ChallengeOf(o.id), o)]
    BY <1>4 DEF ConsumeOutcome, ChallengeOf
  <2> QED BY <1>3, <1>4, <2>1
<1>5. CASE ~(o \notin seen /\ Applies(o))
  BY <1>5 DEF ConsumeOutcome
<1> QED BY <1>4, <1>5

LEMMA ConsumeOutcomeStep ==
  ASSUME OnboardingInv, NEW o \in results, ConsumeOutcome(o)
  PROVE  OnboardingInv'
<1>1. /\ seen' = seen \cup {o} /\ results' \subseteq results
      /\ UNCHANGED <<accountAt, cooling, jobs, delivery, report, unsent, worker, accepted>>
      /\ NoFault \/ Fault
  BY DEF ConsumeOutcome, mailer
<1>2. o \in report
  BY DEF OnboardingInv, OnboardingTypeOK
<1>3. /\ o \in Outcome /\ o.status \in Outcomes /\ ChallengeOf(o.id) \in Challenge
  BY <1>2, ReportedChallenge
<1>4. \A u \in Addresses : /\ Len(challenge[u]) \in Nat
                           /\ DOMAIN challenge[u] = 1..Len(challenge[u])
  BY ChallengeTable DEF OnboardingInv
<1>5. /\ challenge' \in Tables /\ LinksAreTrue' /\ Issued' = Issued /\ UnreportedIsUntried'
  <2>1. CASE challenge' = challenge
    <3>1. Continues(challenge') /\ LinksAreTrue'
      BY <1>1, <2>1, KeptTable
    <3>2. Issued' = Issued /\ UnreportedIsUntried'
      BY <2>1 DEF OnboardingInv, UnreportedIsUntried, Issued
    <3> QED BY <3>1, <3>2 DEF Continues
  <2>2. CASE challenge' # challenge
    <3>1. PICK row : row = Showing(ChallengeOf(o.id), o)
      OBVIOUS
    <3>2. /\ row.state = ChallengeOf(o.id).state /\ row.status = o.status
      BY <1>3, <3>1, ShowingRow
    <3>3. /\ challenge' \in Tables
          /\ \A u \in Addresses : Len(challenge'[u]) = Len(challenge[u])
          /\ \A u \in Addresses : \A g \in 1..Len(challenge[u]) :
               challenge'[u][g] = IF u = o.id[1] /\ g = o.id[2] THEN row ELSE challenge[u][g]
      BY <2>2, <3>1, ConsumedResult
    <3>4. \A u \in Addresses : \A g \in 1..Len(challenge[u]) :
            challenge'[u][g].state = challenge[u][g].state
      BY <3>2, <3>3 DEF ChallengeOf
    <3>5. LinksAreTrue'
      BY <1>1, <3>3, <3>4, StatesKept DEF OnboardingInv
    <3>6. Issued' = Issued
      BY <3>3, SameChallenges
    <3>7. UnreportedIsUntried'
      <4>1. \A u \in Addresses : DOMAIN challenge'[u] = 1..Len(challenge[u])
        BY <3>3, LenProperties DEF Tables
      <4>2. row.status # "PENDING"
        BY <1>3, <3>2 DEF Outcomes
      <4> QED BY <1>4, <3>3, <4>1, <4>2 DEF OnboardingInv, UnreportedIsUntried
    <3> QED BY <3>3, <3>5, <3>6, <3>7
  <2> QED BY <2>1, <2>2
<1>6. AttemptsAreTrue' /\ ReportsAreTrue' /\ EndedAttemptIsReported'
  BY <1>1, MailerKept
<1>7. MailIsOfAChallenge'
  BY <1>1, <1>5 DEF OnboardingInv, MailIsOfAChallenge
<1>8. OnboardingTypeOK'
  <2>1. faults' \in 0..MaxFaults
    BY <1>1, FaultsAreBounded
  <2> QED BY <1>1, <1>2, <1>5, <2>1 DEF OnboardingInv, OnboardingTypeOK, Tables
<1> QED BY <1>5, <1>6, <1>7, <1>8 DEF OnboardingInv

\* The parts of the invariant on Notification, as plain facts.
LEMMA MailerFacts ==
  ASSUME OnboardingInv
  PROVE  /\ jobs \subseteq Ids /\ jobs \subseteq Issued /\ accepted \subseteq Ids
         /\ delivery \in [Ids -> Delivery]
         /\ worker \in [Workers -> Worker]
         /\ report \subseteq Outcome /\ unsent \subseteq report
         /\ results \subseteq report /\ seen \subseteq report
         /\ \A i \in Ids : /\ delivery[i].attempts \in 0..RetryLimit
                           /\ delivery[i].attempts \in Nat
                           /\ delivery[i].status # "absent" => i \in Issued
         /\ \A p \in report : p.id \in Ids /\ p.attempt \in Nat /\ p.status \in Outcomes
         /\ RetryLimit \in Nat \ {0}
         /\ NoAttempt \in Worker /\ NoAttempt.step = "idle"
<1>1. /\ jobs \subseteq Ids /\ jobs \subseteq Issued /\ accepted \subseteq Ids
      /\ delivery \in [Ids -> Delivery]
      /\ worker \in [Workers -> Worker]
      /\ report \subseteq Outcome /\ unsent \subseteq report
      /\ results \subseteq report /\ seen \subseteq report
  BY DEF OnboardingInv, OnboardingTypeOK, MailIsOfAChallenge
<1>2. RetryLimit \in Nat \ {0}
  BY OnboardingAssumption DEF OnboardingAssumption
<1>3. \A i \in Ids : /\ delivery[i].attempts \in 0..RetryLimit
                     /\ delivery[i].status # "absent" => i \in Issued
  BY <1>1 DEF Delivery, OnboardingInv, MailIsOfAChallenge
<1>4. \A p \in report : p.id \in Ids /\ p.attempt \in 1..RetryLimit /\ p.status \in Outcomes
  BY <1>1 DEF Outcome
<1>5. NoAttempt \in Worker /\ NoAttempt.step = "idle"
  BY <1>2 DEF NoAttempt, Worker
<1> QED BY <1>1, <1>2, <1>3, <1>4, <1>5

\* An attempt that is dropped leaves nothing to be true of the worker.
LEMMA IdleWorker ==
  ASSUME NEW w \in Workers, worker'[w].step = "idle"
  PROVE  AttemptIsTrue(w)'
BY DEF AttemptIsTrue

\* Waiting decides when a delivery is next tried, not what is true of it.
LEMMA WaitStep ==
  ASSUME OnboardingInv, NEW i \in Ids, WaitEnds(i) \/ LeaseOverrun(i)
  PROVE  OnboardingInv' /\ challenge' = challenge
<1>1. /\ delivery' = [delivery EXCEPT ![i].waiting = FALSE]
      /\ UNCHANGED <<accountAt, cooling, challenge, jobs, report, unsent, results, seen,
                     worker, accepted>>
      /\ NoFault \/ Fault
  BY DEF WaitEnds, LeaseOverrun, auth, NoFault
<1>2. delivery \in [Ids -> Delivery] /\ worker \in [Workers -> Worker]
  BY MailerFacts
<1>3. /\ delivery' \in [Ids -> Delivery]
      /\ \A j \in Ids : /\ delivery'[j].status = delivery[j].status
                        /\ delivery'[j].attempts = delivery[j].attempts
  <2>1. PICK d : d = [delivery[i] EXCEPT !.waiting = FALSE]
    OBVIOUS
  <2>2. d \in Delivery /\ d.status = delivery[i].status /\ d.attempts = delivery[i].attempts
    <3>1. delivery[i] \in Delivery
      BY <1>2
    <3> QED BY <2>1, <3>1 DEF Delivery
  <2>3. delivery' = [delivery EXCEPT ![i] = d]
    BY <1>1, <2>1
  <2> QED BY <1>2, <2>2, <2>3
<1>4. DeliveriesGoOn
  BY <1>3, MailerFacts DEF DeliveriesGoOn
<1>5. AttemptsAreTrue'
  BY <1>1, <1>4, OtherWorkers DEF AttemptsAreTrue
<1>6. ReportsAreTrue' /\ EndedAttemptIsReported'
  BY <1>1, <1>3, MailerFacts DEF OnboardingInv, ReportsAreTrue, ReportIsTrue,
     EndedAttemptIsReported
<1>7. UNCHANGED auth
  BY <1>1 DEF auth
<1> QED BY <1>1, <1>3, <1>5, <1>6, <1>7, MailerStep, MailerFacts

\* A delivery is created once; nothing was reported of it.
LEMMA ReceiveJobStep ==
  ASSUME OnboardingInv, NEW i \in Ids, ReceiveJob(i)
  PROVE  OnboardingInv' /\ challenge' = challenge
<1>1. /\ i \in jobs /\ jobs' \subseteq jobs
      /\ UNCHANGED <<accountAt, cooling, challenge, report, unsent, results, seen,
                     worker, accepted, faults>>
      /\ delivery[i].status # "absent" => delivery' = delivery
  BY DEF ReceiveJob, auth
<1>2. delivery \in [Ids -> Delivery] /\ i \in Issued
  BY <1>1, MailerFacts
<1>3. PICK d : d = [Absent EXCEPT !.status = "PENDING", !.content = TRUE]
  OBVIOUS
<1>4. d \in Delivery /\ d.status = "PENDING"
  <2>1. 0 \in 0..RetryLimit
    BY OnboardingAssumption DEF OnboardingAssumption
  <2> QED BY <1>3, <2>1 DEF Absent, Delivery
<1>5. delivery[i].status = "absent" => delivery' = [delivery EXCEPT ![i] = d]
  BY <1>3 DEF ReceiveJob
<1>6. /\ delivery' \in [Ids -> Delivery]
      /\ \A j \in Ids : delivery[j].status # "absent" => delivery'[j] = delivery[j]
      /\ \A j \in Ids :
           delivery'[j] = delivery[j] \/ (j = i /\ delivery'[j].status = "PENDING")
  BY <1>1, <1>2, <1>4, <1>5
<1>7. DeliveriesGoOn
  BY <1>6, MailerFacts DEF DeliveriesGoOn
<1>8. AttemptsAreTrue'
  BY <1>1, <1>7, OtherWorkers DEF AttemptsAreTrue
<1>9. ReportsAreTrue'
  BY <1>1, <1>6, MailerFacts DEF OnboardingInv, ReportsAreTrue, ReportIsTrue
<1>10. EndedAttemptIsReported'
  BY <1>1, <1>6 DEF OnboardingInv, EndedAttemptIsReported, Outcomes
<1>11. UNCHANGED auth /\ (NoFault \/ Fault)
  BY <1>1 DEF auth, NoFault
<1>12. \A j \in Ids : delivery'[j].status # "absent" => j \in Issued
  BY <1>2, <1>6, MailerFacts
<1> QED BY <1>1, <1>6, <1>8, <1>9, <1>10, <1>11, <1>12, MailerStep, MailerFacts

\* A claim starts the next attempt, or takes over one that was not reported.
LEMMA ClaimStep ==
  ASSUME OnboardingInv, NEW w \in Workers, NEW i \in Ids, Claim(w, i)
  PROVE  OnboardingInv' /\ challenge' = challenge
<1>1. PICK n : n = IF delivery[i].attempts >= RetryLimit THEN delivery[i].attempts
                   ELSE delivery[i].attempts + 1
  OBVIOUS
<1>2. /\ worker[w] = NoAttempt /\ Due(i)
      /\ UNCHANGED <<accountAt, cooling, challenge, jobs, report, unsent, results, seen,
                     accepted, faults>>
      /\ delivery' = [delivery EXCEPT ![i] = [delivery[i] EXCEPT
                        !.status = "PROCESSING", !.attempts = n, !.waiting = TRUE]]
  BY <1>1 DEF Claim, auth
<1>3. /\ delivery \in [Ids -> Delivery] /\ worker \in [Workers -> Worker]
      /\ delivery[i] \in Delivery
  BY MailerFacts
<1>4. /\ n \in 1..RetryLimit /\ n \in 0..RetryLimit /\ n \in Nat
      /\ n >= delivery[i].attempts
      /\ n = delivery[i].attempts => delivery[i].attempts = RetryLimit
  <2>1. delivery[i].attempts \in 0..RetryLimit /\ RetryLimit \in Nat \ {0}
    BY MailerFacts
  <2> QED BY <1>1, <2>1
<1>5. /\ delivery[i].status \notin {"absent", "SENT", "UNDELIVERABLE"}
      /\ delivery[i].status = "FAILED" => delivery[i].attempts < RetryLimit
  BY <1>2 DEF Due
<1>6. PICK d : d = [delivery[i] EXCEPT !.status = "PROCESSING", !.attempts = n,
                                        !.waiting = TRUE]
  OBVIOUS
<1>7. d \in Delivery /\ d.status = "PROCESSING" /\ d.attempts = n
  BY <1>3, <1>4, <1>6 DEF Delivery
<1>8. /\ delivery' \in [Ids -> Delivery] /\ delivery'[i] = d
      /\ \A j \in Ids \ {i} : delivery'[j] = delivery[j]
  BY <1>2, <1>3, <1>6, <1>7
<1>9. DeliveriesGoOn
  BY <1>4, <1>7, <1>8, MailerFacts DEF DeliveriesGoOn
<1>10. \E r \in Worker : /\ worker' = [worker EXCEPT ![w] = r]
                         /\ r.id = i /\ r.attempt = n
                         /\ r.step = "ended" => r.outcome \in Outcomes
  <2> DEFINE End(o) == [step |-> "ended", id |-> i, attempt |-> n, outcome |-> o]
             Begun == [NoAttempt EXCEPT !.step = "claimed", !.id = i, !.attempt = n]
  <2>1. /\ End("FAILED") \in Worker /\ End("UNDELIVERABLE") \in Worker
        /\ End("FAILED").id = i /\ End("FAILED").attempt = n
        /\ End("FAILED").outcome \in Outcomes
        /\ End("UNDELIVERABLE").id = i /\ End("UNDELIVERABLE").attempt = n
        /\ End("UNDELIVERABLE").outcome \in Outcomes
    BY <1>4 DEF Worker, Outcomes
  <2>2. Begun \in Worker /\ Begun.id = i /\ Begun.attempt = n /\ Begun.step # "ended"
    BY <1>4 DEF Worker, NoAttempt
  <2>3. \/ worker' = [worker EXCEPT ![w] = End("FAILED")]
        \/ worker' = [worker EXCEPT ![w] = End("UNDELIVERABLE")]
        \/ worker' = [worker EXCEPT ![w] = Begun]
    BY <1>1 DEF Claim
  <2> HIDE DEF End, Begun
  <2> QED BY <2>1, <2>2, <2>3
<1>11. PICK r \in Worker : /\ worker' = [worker EXCEPT ![w] = r]
                           /\ r.id = i /\ r.attempt = n
                           /\ r.step = "ended" => r.outcome \in Outcomes
  BY <1>10
<1>12. /\ worker' \in [Workers -> Worker] /\ worker'[w] = r
       /\ \A v \in Workers \ {w} : worker'[v] = worker[v]
  BY <1>3, <1>11
<1>13. AttemptsAreTrue'
  <2>1. AttemptIsTrue(w)'
    BY <1>4, <1>7, <1>8, <1>11, <1>12 DEF AttemptIsTrue
  <2>2. \A v \in Workers \ {w} : AttemptIsTrue(v)'
    BY <1>9, <1>12, OtherWorkers
  <2> QED BY <2>1, <2>2 DEF AttemptsAreTrue
<1>14. ReportsAreTrue'
  <2> SUFFICES ASSUME NEW p \in report
               PROVE  /\ delivery'[p.id].status # "absent"
                      /\ \/ p.attempt < delivery'[p.id].attempts
                         \/ /\ p.attempt = delivery'[p.id].attempts
                            /\ p.status = delivery'[p.id].status
    BY <1>2 DEF ReportsAreTrue, ReportIsTrue
  <2>1. /\ p.id \in Ids /\ p.attempt \in Nat /\ p.status \in Outcomes
        /\ delivery[p.id].status # "absent"
        /\ \/ p.attempt < delivery[p.id].attempts
           \/ p.attempt = delivery[p.id].attempts /\ p.status = delivery[p.id].status
    BY MailerFacts DEF OnboardingInv, ReportsAreTrue, ReportIsTrue
  <2>2. CASE p.id # i
    BY <1>8, <2>1, <2>2
  <2>3. CASE p.id = i
    <3>1. delivery[i].attempts \in Nat /\ delivery[i].attempts <= RetryLimit
          /\ RetryLimit \in Nat
      BY MailerFacts
    <3>2. p.attempt < n
      BY <1>4, <1>5, <2>1, <2>3, <3>1 DEF Outcomes
    <3> QED BY <1>7, <1>8, <2>3, <3>2
  <2> QED BY <2>2, <2>3
<1>15. EndedAttemptIsReported'
  BY <1>2, <1>7, <1>8 DEF OnboardingInv, EndedAttemptIsReported, Outcomes
<1>16. UNCHANGED auth /\ (NoFault \/ Fault)
  BY <1>2 DEF auth, NoFault
<1>17. \A j \in Ids : delivery'[j].status # "absent" => j \in Issued
  BY <1>5, <1>8, MailerFacts
<1> QED BY <1>2, <1>8, <1>12, <1>13, <1>14, <1>15, <1>16, <1>17, MailerStep, MailerFacts

\* A worker that goes on with its attempt, ends it or drops it changes nothing
\* that was recorded.
LEMMA WorkerStep ==
  ASSUME OnboardingInv, NEW w \in Workers, NEW r \in Worker,
         worker' = [worker EXCEPT ![w] = r],
         \/ r.step = "idle"
         \/ /\ worker[w].step # "idle"
            /\ r.id = worker[w].id /\ r.attempt = worker[w].attempt
            /\ r.step = "ended" => r.outcome \in Outcomes,
         UNCHANGED <<auth, jobs, mailer, results, seen>>, NoFault \/ Fault,
         accepted' \subseteq Ids
  PROVE  OnboardingInv' /\ challenge' = challenge
<1>1. UNCHANGED <<challenge, jobs, delivery, report, unsent, results, seen>>
  BY DEF mailer, auth
<1>2. /\ worker' \in [Workers -> Worker] /\ worker'[w] = r
      /\ \A v \in Workers \ {w} : worker'[v] = worker[v]
  BY MailerFacts
<1>3. DeliveriesGoOn
  BY <1>1, MailerFacts DEF DeliveriesGoOn
<1>4. AttemptIsTrue(w)'
  <2>1. AttemptIsTrue(w)
    BY DEF OnboardingInv, AttemptsAreTrue
  <2> QED BY <1>1, <1>2, <2>1 DEF AttemptIsTrue
<1>5. AttemptsAreTrue'
  BY <1>2, <1>3, <1>4, OtherWorkers DEF AttemptsAreTrue
<1>6. ReportsAreTrue' /\ EndedAttemptIsReported'
  BY <1>1 DEF OnboardingInv, ReportsAreTrue, ReportIsTrue, EndedAttemptIsReported
<1> QED BY <1>1, <1>2, <1>5, <1>6, MailerStep, MailerFacts

\* The call to Auth and the mail itself: both may end the attempt.
LEMMA AttemptStep ==
  ASSUME OnboardingInv, NEW w \in Workers, Authorize(w) \/ SendLink(w) \/ Abandon(w)
  PROVE  OnboardingInv' /\ challenge' = challenge
<1>1. /\ UNCHANGED <<auth, jobs, mailer, results, seen>>
      /\ NoFault \/ Fault
  BY DEF Authorize, SendLink, Abandon
<1>2. worker[w] \in Worker /\ worker \in [Workers -> Worker]
  BY MailerFacts
<1>3. accepted' \subseteq Ids
  <2>1. CASE SendLink(w)
    <3>1. worker[w].id \in Ids
      BY <2>1 DEF SendLink, OnboardingInv, AttemptsAreTrue, AttemptIsTrue
    <3> QED BY <2>1, <3>1, MailerFacts DEF SendLink
  <2>2. CASE Authorize(w) \/ Abandon(w)
    BY <2>2, MailerFacts DEF Authorize, Abandon
  <2> QED BY <2>1, <2>2
<1>4. ASSUME NEW o \in Outcomes, Ends(w, o), worker[w].step # "idle"
      PROVE  OnboardingInv' /\ challenge' = challenge
  <2>1. PICK r : r = [worker[w] EXCEPT !.step = "ended", !.outcome = o]
    OBVIOUS
  <2>2. /\ r \in Worker /\ r.id = worker[w].id /\ r.attempt = worker[w].attempt
        /\ r.outcome \in Outcomes
    BY <1>2, <2>1 DEF Worker
  <2>3. worker' = [worker EXCEPT ![w] = r]
    BY <1>4, <2>1 DEF Ends
  <2> QED BY <1>1, <1>3, <1>4, <2>2, <2>3, WorkerStep
<1>5. CASE Authorize(w) /\ worker' = [worker EXCEPT ![w].step = "authorized"]
  <2>1. PICK r : r = [worker[w] EXCEPT !.step = "authorized"]
    OBVIOUS
  <2>2. /\ r \in Worker /\ r.id = worker[w].id /\ r.attempt = worker[w].attempt
        /\ r.step = "authorized"
    BY <1>2, <2>1 DEF Worker
  <2>3. worker' = [worker EXCEPT ![w] = r] /\ worker[w].step # "idle"
    BY <1>5, <2>1 DEF Authorize
  <2> QED BY <1>1, <1>3, <2>2, <2>3, WorkerStep
<1>6. CASE Abandon(w)
  <2>1. worker' = [worker EXCEPT ![w] = NoAttempt]
    BY <1>6 DEF Abandon
  <2> QED BY <1>1, <1>3, <2>1, WorkerStep, MailerFacts
<1>7. CASE Authorize(w) /\ worker' # [worker EXCEPT ![w].step = "authorized"]
  <2>1. \E o \in Outcomes : Ends(w, o) /\ worker[w].step # "idle"
    BY <1>7 DEF Authorize, Outcomes
  <2> QED BY <1>4, <2>1
<1>8. CASE SendLink(w)
  <2>1. \E o \in Outcomes : Ends(w, o) /\ worker[w].step # "idle"
    BY <1>8 DEF SendLink, Outcomes
  <2> QED BY <1>4, <2>1
<1> QED BY <1>5, <1>6, <1>7, <1>8

\* An attempt is recorded and reported in one transaction, or is another's.
LEMMA FinishStep ==
  ASSUME OnboardingInv, NEW w \in Workers, Finish(w)
  PROVE  OnboardingInv' /\ challenge' = challenge
<1>1. PICK r : r = worker[w]
  OBVIOUS
<1>2. /\ r.step = "ended" /\ worker' = [worker EXCEPT ![w] = NoAttempt]
      /\ UNCHANGED <<auth, jobs, results, seen, accepted, faults>>
  BY <1>1 DEF Finish
<1>3. CASE ~StillMine(r)
  <2>1. UNCHANGED mailer
    BY <1>1, <1>3 DEF Finish
  <2>2. (NoFault \/ Fault) /\ accepted' \subseteq Ids
    BY <1>2, MailerFacts DEF NoFault
  <2> QED BY <1>2, <2>1, <2>2, WorkerStep, MailerFacts
<1>4. CASE StillMine(r)
  <2>1. PICK i : i = r.id
    OBVIOUS
  <2>2. PICK k : k = r.attempt
    OBVIOUS
  <2>3. PICK q : q = WillRetry(r)
    OBVIOUS
  <2>4. PICK c : c = ContentAfter(r)
    OBVIOUS
  <2>5. /\ i \in Ids /\ delivery[i].status = "PROCESSING" /\ delivery[i].attempts = k
        /\ k \in 1..RetryLimit /\ r.outcome \in Outcomes
    <3>1. /\ i \in Ids /\ k \in 1..delivery[i].attempts /\ r.outcome \in Outcomes
      BY <1>1, <1>2, <2>1, <2>2 DEF OnboardingInv, AttemptsAreTrue, AttemptIsTrue
    <3>2. delivery[i].status = "PROCESSING" /\ delivery[i].attempts = k
      BY <1>4, <2>1, <2>2 DEF StillMine
    <3> QED BY <3>1, <3>2, MailerFacts
  <2>6. q \in BOOLEAN /\ c \in BOOLEAN
    <3>1. q \in BOOLEAN
      BY <2>3 DEF WillRetry
    <3>2. c \in BOOLEAN
      BY <2>4 DEF ContentAfter
    <3> QED BY <3>1, <3>2
  <2>7. PICK o : o = [id |-> i, attempt |-> k, status |-> r.outcome, willRetry |-> q]
    OBVIOUS
  <2>8. o \in Outcome /\ o.id = i /\ o.attempt = k /\ o.status = r.outcome
    BY <2>5, <2>6, <2>7 DEF Outcome
  <2>9. ~\E p \in report : p.id = i /\ p.attempt = k
    <3> SUFFICES ASSUME NEW p \in report, p.id = i, p.attempt = k PROVE FALSE
      OBVIOUS
    <3>1. ReportIsTrue(p) /\ p.status \in Outcomes
      BY MailerFacts DEF OnboardingInv, ReportsAreTrue
    <3> QED BY <2>5, <3>1 DEF ReportIsTrue, Outcomes
  <2>10. /\ delivery' = [delivery EXCEPT ![i] = [delivery[i] EXCEPT
                           !.status = r.outcome, !.waiting = q, !.content = c]]
         /\ report' = report \cup {o} /\ unsent' = unsent \cup {o}
    <3>1. delivery' = [delivery EXCEPT ![i] = [delivery[i] EXCEPT
                        !.status = r.outcome, !.waiting = q, !.content = c]]
      BY <1>1, <1>4, <2>1, <2>3, <2>4, Zenon DEF Finish
    <3>2. /\ report' = IF \E p \in report : p.id = i /\ p.attempt = k
                       THEN report ELSE report \cup {o}
          /\ unsent' = IF \E p \in report : p.id = i /\ p.attempt = k
                       THEN unsent ELSE unsent \cup {o}
      BY <1>1, <1>4, <2>1, <2>2, <2>3, <2>7, Zenon DEF Finish
    <3> QED BY <2>9, <3>1, <3>2
  <2>11. PICK d : d = [delivery[i] EXCEPT !.status = r.outcome, !.waiting = q, !.content = c]
    OBVIOUS
  <2>12. d \in Delivery /\ d.status = r.outcome /\ d.attempts = k
    <3>1. delivery[i] \in Delivery
      BY <2>5, MailerFacts
    <3> QED BY <2>5, <2>6, <2>11, <3>1 DEF Delivery
  <2>13. /\ delivery' \in [Ids -> Delivery] /\ delivery'[i] = d
         /\ \A j \in Ids \ {i} : delivery'[j] = delivery[j]
    BY <2>5, <2>10, <2>11, <2>12, MailerFacts
  <2>14. \A j \in Ids : delivery'[j].attempts = delivery[j].attempts
    BY <2>5, <2>12, <2>13
  <2>15. DeliveriesGoOn
    BY <2>5, <2>12, <2>13, <2>14, MailerFacts DEF DeliveriesGoOn, Outcomes
  <2>16. /\ worker' \in [Workers -> Worker] /\ worker'[w].step = "idle"
         /\ \A v \in Workers \ {w} : worker'[v] = worker[v]
    BY <1>2, MailerFacts
  <2>17. AttemptsAreTrue'
    BY <2>15, <2>16, OtherWorkers, IdleWorker DEF AttemptsAreTrue
  <2>18. ReportsAreTrue'
    <3> SUFFICES ASSUME NEW p \in report \cup {o}
                 PROVE  /\ delivery'[p.id].status # "absent"
                        /\ \/ p.attempt < delivery'[p.id].attempts
                           \/ /\ p.attempt = delivery'[p.id].attempts
                              /\ p.status = delivery'[p.id].status
      BY <2>10 DEF ReportsAreTrue, ReportIsTrue
    <3>1. CASE p = o
      BY <2>5, <2>8, <2>12, <2>13, <3>1 DEF Outcomes
    <3>2. CASE p \in report
      <4>1. ReportIsTrue(p) /\ p.id \in Ids
        BY <3>2, MailerFacts DEF OnboardingInv, ReportsAreTrue
      <4>2. CASE p.id = i
        BY <2>5, <2>9, <2>12, <2>13, <3>2, <4>1, <4>2 DEF ReportIsTrue, Outcomes
      <4>3. CASE p.id # i
        BY <2>13, <4>1, <4>3 DEF ReportIsTrue
      <4> QED BY <4>2, <4>3
    <3> QED BY <3>1, <3>2
  <2>19. EndedAttemptIsReported'
    <3> SUFFICES ASSUME NEW j \in Ids, delivery'[j].status \in Outcomes
                 PROVE  \E p \in report \cup {o} :
                          /\ p.id = j /\ p.attempt = delivery'[j].attempts
                          /\ p.status = delivery'[j].status
      BY <2>10 DEF EndedAttemptIsReported
    <3>1. CASE j = i
      BY <2>8, <2>12, <2>13, <3>1
    <3>2. CASE j # i
      BY <2>13, <3>2 DEF OnboardingInv, EndedAttemptIsReported
    <3> QED BY <3>1, <3>2
  <2>20. \A j \in Ids : delivery'[j].status # "absent" => j \in Issued
    BY <2>5, <2>13, MailerFacts
  <2>21. /\ report' \subseteq Outcome /\ unsent' \subseteq report'
         /\ results' \subseteq report' /\ seen' \subseteq report'
         /\ accepted' \subseteq Ids /\ jobs' \subseteq jobs
    BY <1>2, <2>8, <2>10, MailerFacts
  <2>22. UNCHANGED auth /\ (NoFault \/ Fault) /\ challenge' = challenge
    BY <1>2 DEF auth, NoFault
  <2> QED BY <2>13, <2>16, <2>17, <2>18, <2>19, <2>20, <2>21, <2>22, MailerStep
<1> QED BY <1>3, <1>4

LEMMA PublishResultStep ==
  ASSUME OnboardingInv, NEW o \in unsent, PublishResult(o)
  PROVE  OnboardingInv' /\ challenge' = challenge
<1>1. /\ results' = results \cup {o} /\ unsent' \subseteq unsent
      /\ UNCHANGED <<auth, jobs, delivery, report, seen, worker, accepted>>
      /\ NoFault \/ Fault
  BY DEF PublishResult
<1>2. AttemptsAreTrue' /\ ReportsAreTrue' /\ EndedAttemptIsReported'
  BY <1>1, MailerKept
<1>3. challenge' = challenge
  BY <1>1 DEF auth
<1> QED BY <1>1, <1>2, <1>3, MailerStep, MailerFacts

------------------------------------------------------------------------------
\* Onboarding: the invariant, and what it implies.

LEMMA OnboardingStarts == OnboardingInit => OnboardingInv
<1> SUFFICES ASSUME OnboardingInit PROVE OnboardingInv
  OBVIOUS
<1>1. /\ \A u \in Addresses : challenge[u] = <<>> /\ accountAt[u].status = "none"
      /\ challenge = [u \in Addresses |-> <<>>]
      /\ \A i \in Ids : delivery[i].status = "absent"
      /\ \A w \in Workers : worker[w].step = "idle"
  BY DEF OnboardingInit, Absent, NoAttempt
<1>2. \A u \in Addresses : challenge[u] \in Seq(Challenge) /\ DOMAIN challenge[u] = {}
  BY <1>1, EmptySeq
<1>3. OnboardingTypeOK
  <2>1. Absent \in Delivery /\ NoAttempt \in Worker
    BY OnboardingAssumption DEF Absent, Delivery, NoAttempt, Worker, OnboardingAssumption
  <2>2. challenge \in [Addresses -> Seq(Challenge)]
    BY <1>1, <1>2
  <2> QED BY <2>1, <2>2, OnboardingAssumption
          DEF OnboardingInit, OnboardingTypeOK, OnboardingAssumption
<1>4. LinksAreTrue /\ UnreportedIsUntried
  BY <1>1, <1>2 DEF LinksAreTrue, LinkIsTrue, UnreportedIsUntried
<1>5. /\ MailIsOfAChallenge /\ AttemptsAreTrue /\ ReportsAreTrue /\ EndedAttemptIsReported
  BY <1>1 DEF OnboardingInit, MailIsOfAChallenge, AttemptsAreTrue, AttemptIsTrue,
     ReportsAreTrue, EndedAttemptIsReported, Outcomes
<1> QED BY <1>3, <1>4, <1>5 DEF OnboardingInv

LEMMA OnboardingGoesOn == OnboardingInv /\ [OnboardingNext]_onboardingVars => OnboardingInv'
<1> SUFFICES ASSUME OnboardingInv, [OnboardingNext]_onboardingVars PROVE OnboardingInv'
  OBVIOUS
<1>1. ASSUME NEW u \in Addresses, Register(u) \/ InviteEmployee(u) PROVE OnboardingInv'
  BY <1>1, JoinStep DEF Register, InviteEmployee
<1>2. ASSUME NEW u \in Addresses, ResendVerification(u) \/ ResendEmployee(u)
      PROVE  OnboardingInv'
  BY <1>2, ResendStep DEF ResendVerification, ResendEmployee
<1>3. ASSUME NEW u \in Addresses, EmployeeStatusChanges(u) PROVE OnboardingInv'
  BY <1>3, EmployeeStatusStep
<1>4. ASSUME NEW u \in Addresses, CooldownEnds(u) PROVE OnboardingInv'
  BY <1>4, CooldownStep
<1>5. ASSUME NEW i \in Ids, ConfirmVerification(i) \/ AcceptEmployee(i) PROVE OnboardingInv'
  BY <1>5, OpenLinkStep DEF ConfirmVerification, AcceptEmployee
<1>6. ASSUME NEW i \in Ids, PublishMail(i) PROVE OnboardingInv'
  BY <1>6, PublishMailStep
<1>7. ASSUME NEW i \in Ids, ReceiveJob(i) PROVE OnboardingInv'
  BY <1>7, ReceiveJobStep
<1>8. ASSUME NEW i \in Ids, Expire(i) PROVE OnboardingInv'
  BY <1>8, ExpireStep
<1>9. ASSUME NEW i \in Ids, WaitEnds(i) \/ LeaseOverrun(i) PROVE OnboardingInv'
  BY <1>9, WaitStep
<1>10. ASSUME NEW i \in Ids, NEW w \in Workers, Claim(w, i) PROVE OnboardingInv'
  BY <1>10, ClaimStep
<1>11. CASE Scrub
  BY <1>11, ScrubStep
<1>12. ASSUME NEW o \in results, ConsumeOutcome(o) PROVE OnboardingInv'
  BY <1>12, ConsumeOutcomeStep
<1>13. ASSUME NEW o \in unsent, PublishResult(o) PROVE OnboardingInv'
  BY <1>13, PublishResultStep
<1>14. ASSUME NEW w \in Workers, Authorize(w) \/ SendLink(w) \/ Abandon(w)
       PROVE  OnboardingInv'
  BY <1>14, AttemptStep
<1>15. ASSUME NEW w \in Workers, Finish(w) PROVE OnboardingInv'
  BY <1>15, FinishStep
<1>16. CASE UNCHANGED onboardingVars
  <2>1. /\ UNCHANGED <<accountAt, challenge>> /\ cooling' = cooling /\ AuthOnly
    BY <1>16 DEF onboardingVars, auth, AuthOnly
  <2>2. accountAt \in [Addresses -> Accounts] /\ cooling \subseteq Addresses
    BY DEF OnboardingInv, OnboardingTypeOK, Accounts
  <2> QED BY <2>1, <2>2, KeptTable, AuthStep
<1> QED
  BY <1>1, <1>2, <1>3, <1>4, <1>5, <1>6, <1>7, <1>8, <1>9, <1>10, <1>11, <1>12, <1>13,
     <1>14, <1>15, <1>16 DEF OnboardingNext

\* Links, challenges, deliveries, workers and reports tell one story, whatever
\* fails, is retried, overruns its lease or arrives late.
THEOREM OnboardingInvariant == OnboardingSpec => []OnboardingInv
BY OnboardingStarts, OnboardingGoesOn, PTL DEF OnboardingSpec

\* An address has one link that opens its account at most, none once it is
\* ready or disabled, and a ready account was opened by one of them.
THEOREM OneLinkOpens == OnboardingSpec => []OneLinkAtMost
<1>1. OnboardingInv => OneLinkAtMost
  <2> SUFFICES ASSUME OnboardingInv, NEW u \in Addresses
               PROVE  LET In(state) == {g \in DOMAIN challenge[u] :
                                          challenge[u][g].state = state}
                      IN /\ Cardinality(In("current")) <=
                              (IF accountAt[u].status = "PENDING" /\ accountAt[u].active
                               THEN 1 ELSE 0)
                         /\ Cardinality(In("consumed")) =
                              (IF accountAt[u].status = "READY" THEN 1 ELSE 0)
    BY DEF OneLinkAtMost
  <2> DEFINE In(state) == {g \in DOMAIN challenge[u] : challenge[u][g].state = state}
  <2>1. LinkIsTrue(u)
    BY DEF OnboardingInv, LinksAreTrue
  <2>2. In("current") = {} \/ /\ accountAt[u].status = "PENDING" /\ accountAt[u].active
                              /\ \E g : In("current") = {g}
    <3>1. \A g \in In("current") : /\ g = Len(challenge[u])
                                    /\ accountAt[u].status = "PENDING" /\ accountAt[u].active
      BY <2>1 DEF LinkIsTrue
    <3> HIDE DEF In
    <3>2. CASE In("current") # {}
      <4>1. In("current") = {Len(challenge[u])}
        BY <3>1, <3>2
      <4> QED BY <3>1, <3>2, <4>1
    <3> QED BY <3>2
  <2>3. IF accountAt[u].status = "READY" THEN \E g : In("consumed") = {g}
        ELSE In("consumed") = {}
    BY <2>1 DEF LinkIsTrue
  <2> HIDE DEF In
  <2>4. /\ Cardinality({}) = 0
        /\ \A g : Cardinality({g}) = 1
    BY FS_EmptySet, FS_Singleton
  <2>5. Cardinality(In("current")) <=
          (IF accountAt[u].status = "PENDING" /\ accountAt[u].active THEN 1 ELSE 0)
    <3>1. CASE accountAt[u].status = "PENDING" /\ accountAt[u].active
      <4>1. Cardinality(In("current")) \in {0, 1}
        BY <2>2, <2>4, Zenon
      <4>2. Cardinality(In("current")) <= 1
        BY <4>1
      <4> QED BY <3>1, <4>2, Zenon
    <3>2. CASE ~(accountAt[u].status = "PENDING" /\ accountAt[u].active)
      <4>1. Cardinality(In("current")) = 0
        BY <2>2, <2>4, <3>2, Zenon
      <4>2. Cardinality(In("current")) <= 0
        BY <4>1
      <4> QED BY <3>2, <4>2, Zenon
    <3> QED BY <3>1, <3>2, Zenon
  <2>6. Cardinality(In("consumed")) = (IF accountAt[u].status = "READY" THEN 1 ELSE 0)
    BY <2>3, <2>4
  <2> QED BY <2>5, <2>6 DEF In
<1> QED BY <1>1, OnboardingInvariant, PTL

\* A delivery that is not under way has reported its last attempt, with the
\* status it shows.
THEOREM AttemptsAreReported == OnboardingSpec => []EndedAttemptIsReported
<1>1. OnboardingInv => EndedAttemptIsReported
  BY DEF OnboardingInv
<1> QED BY <1>1, OnboardingInvariant, PTL

\* What Auth shows of a challenge changes by a result that is consumed.
LEMMA OnlyResultsShow ==
  ASSUME OnboardingInv, [OnboardingNext]_onboardingVars
  PROVE  Continues(challenge') \/ \E o \in results : ConsumeOutcome(o)
<1>1. ASSUME NEW u \in Addresses,
             \/ Register(u) \/ InviteEmployee(u) \/ ResendVerification(u)
             \/ ResendEmployee(u) \/ EmployeeStatusChanges(u) \/ CooldownEnds(u)
      PROVE  Continues(challenge')
  BY <1>1, JoinStep, ResendStep, EmployeeStatusStep, CooldownStep
     DEF Register, InviteEmployee, ResendVerification, ResendEmployee
<1>2. ASSUME NEW i \in Ids,
             ConfirmVerification(i) \/ AcceptEmployee(i) \/ PublishMail(i) \/ Expire(i)
      PROVE  Continues(challenge')
  BY <1>2, OpenLinkStep, PublishMailStep, ExpireStep DEF ConfirmVerification, AcceptEmployee
<1>3. CASE Scrub
  BY <1>3, ScrubStep
<1>4. ASSUME challenge' = challenge PROVE Continues(challenge')
  <2>1. \A u \in Addresses : Len(challenge[u]) \in Nat
    BY ChallengeTable DEF OnboardingInv
  <2> QED BY <1>4, <2>1 DEF OnboardingInv, OnboardingTypeOK, Continues, Tables
<1>5. ASSUME NEW i \in Ids,
             ReceiveJob(i) \/ WaitEnds(i) \/ LeaseOverrun(i) \/ \E w \in Workers : Claim(w, i)
      PROVE  Continues(challenge')
  BY <1>4, <1>5 DEF ReceiveJob, WaitEnds, LeaseOverrun, Claim, auth
<1>6. ASSUME NEW w \in Workers, Authorize(w) \/ SendLink(w) \/ Finish(w) \/ Abandon(w)
      PROVE  Continues(challenge')
  BY <1>4, <1>6, AttemptStep, FinishStep
<1>7. ASSUME NEW o \in unsent, PublishResult(o) PROVE Continues(challenge')
  BY <1>4, <1>7 DEF PublishResult, auth
<1>8. CASE UNCHANGED onboardingVars
  BY <1>4, <1>8 DEF onboardingVars, auth
<1> QED BY <1>1, <1>2, <1>3, <1>5, <1>6, <1>7, <1>8 DEF OnboardingNext

\* What Auth shows of a delivery is a result of Notification, follows the
\* attempts in their order and stays once it is final.
THEOREM ShownFollowsAttempts == OnboardingSpec => AuthNeverGoesBack
<1> DEFINE Follows(i) ==
             LET old == challenge[i[1]][i[2]]
                 new == challenge'[i[1]][i[2]]
             IN <<new.status, new.attempt>> # <<old.status, old.attempt>> =>
                  /\ ~old.terminal /\ new.attempt > old.attempt
                  /\ \E o \in report : /\ o.id = i /\ o.attempt = new.attempt
                                       /\ o.status = new.status /\ Final(o) = new.terminal
<1>1. ASSUME OnboardingInv, [OnboardingNext]_onboardingVars, NEW i \in Issued
      PROVE  Follows(i)
  <2> DEFINE old == challenge[i[1]][i[2]]
             new == challenge'[i[1]][i[2]]
  <2> SUFFICES ASSUME ~(new.status = old.status /\ new.attempt = old.attempt)
               PROVE  /\ ~old.terminal /\ new.attempt > old.attempt
                      /\ \E o \in report : /\ o.id = i /\ o.attempt = new.attempt
                                           /\ o.status = new.status /\ Final(o) = new.terminal
    OBVIOUS
  <2>1. /\ i \in Ids /\ i = <<i[1], i[2]>> /\ i[1] \in Addresses
        /\ i[2] \in 1..Len(challenge[i[1]]) /\ old \in Challenge
        /\ i[2] \in DOMAIN challenge[i[1]]
    BY <1>1, ChallengeTable DEF OnboardingInv
  <2>2. ~Continues(challenge')
    BY <2>1 DEF Continues
  <2>3. PICK o \in results : ConsumeOutcome(o)
    BY <1>1, <2>2, OnlyResultsShow
  <2>4. /\ Applies(o)
        /\ \A u \in Addresses : \A g \in 1..Len(challenge[u]) :
             challenge'[u][g] = IF u = o.id[1] /\ g = o.id[2]
                                THEN Showing(ChallengeOf(o.id), o) ELSE challenge[u][g]
    <3>1. challenge' # challenge
      OBVIOUS
    <3> QED BY <1>1, <2>3, <3>1, ConsumedResult
  <2>5. i[1] = o.id[1] /\ i[2] = o.id[2]
    BY <2>1, <2>4
  <2>6. o \in report
    BY <1>1 DEF OnboardingInv, OnboardingTypeOK
  <2>7. o \in Outcome /\ o.id \in Ids /\ o.attempt \in 1..RetryLimit
    BY <1>1, <2>6, ReportedChallenge
  <2>8. o.id = i
    BY <2>1, <2>5, <2>7 DEF Ids
  <2>9. new = Showing(old, o)
    BY <2>1, <2>4, <2>5 DEF ChallengeOf
  <2>10. /\ new.status = o.status /\ new.attempt = o.attempt /\ new.terminal = Final(o)
    BY <2>1, <2>7, <2>9, ShowingRow
  <2>11. /\ ~old.terminal
         /\ old.attempt < o.attempt \/ (old.attempt = o.attempt /\ old.status = "PENDING")
    BY <2>4, <2>8 DEF Applies, ChallengeOf
  <2>12. old.status = "PENDING" => old.attempt = 0
    BY <1>1, <2>1 DEF OnboardingInv, UnreportedIsUntried
  <2>13. old.attempt \in Nat /\ o.attempt \in Nat \ {0}
    BY <2>1, <2>7, OnboardingAssumption DEF Challenge, OnboardingAssumption
  <2>14. new.attempt > old.attempt
    BY <2>10, <2>11, <2>12, <2>13
  <2> QED BY <2>6, <2>8, <2>10, <2>11, <2>14
<1>2. OnboardingInv /\ [OnboardingNext]_onboardingVars =>
        [\A i \in Issued : Follows(i)]_onboardingVars
  BY <1>1
<1> QED BY <1>2, OnboardingInvariant, PTL DEF OnboardingSpec, AuthNeverGoesBack
================================================================================

------------------------------ MODULE Onboarding ------------------------------
(***************************************************************************)
(* Accounts by mail: a customer registers, or an administrator invites an  *)
(* employee, Auth keeps a challenge with the encrypted link and asks       *)
(* Notification to mail it; Notification asks Auth whether the challenge   *)
(* still stands, mails the link in leased attempts and reports each result *)
(* to Auth.                                                                *)
(*                                                                         *)
(* Auth: services/auth-service/src/onboarding/onboarding.service.ts and    *)
(* onboarding-events.service.ts.  Notification: onboarding-delivery,       *)
(* onboarding.consumer and onboarding-outbox of                            *)
(* services/notification-service/src/onboarding.  Every transaction of     *)
(* Auth locks the user's row first, so it is one step.  SENT stands for    *)
(* SIMULATED too: the environment decides which one the provider answers.  *)
(***************************************************************************)
EXTENDS Naturals, Sequences, FiniteSets

CONSTANTS
  Addresses,         \* addresses, each that of one account
  Workers,           \* handlers and sweeps of Notification that deliver
  RetryLimit,        \* NOTIFICATION_RETRY_LIMIT
  MaxGeneration,     \* bound of the model on challenges per address
  MaxStatusChanges,  \* bound of the model on changes of status
  MaxFaults,         \* bound of the model on failed calls, crashes and lost messages
  Null

ASSUME OnboardingAssumption ==
  /\ RetryLimit \in Nat \ {0}
  /\ {MaxGeneration, MaxStatusChanges, MaxFaults} \subseteq Nat

VARIABLES
  accountAt,  \* auth_users, by address
  cooling,    \* addresses whose last mail is younger than the cooldown
  challenge,  \* auth_onboarding_challenges of each, with the outbox row of each
  jobs,       \* notification.auth-onboarding.v1
  delivery,   \* notification_onboarding_deliveries
  report,     \* notification_onboarding_outbox_events
  unsent,     \* those without published_at
  results,    \* auth.onboarding-delivery.v1
  seen,       \* auth_onboarding_received_events
  worker,     \* the attempt each worker is at
  accepted,   \* challenges whose mail the SMTP server accepted
  faults

auth == <<accountAt, cooling, challenge>>
mailer == <<delivery, report, unsent>>
onboardingVars == <<auth, jobs, mailer, results, seen, worker, accepted, faults>>

Ids == Addresses \X (1..MaxGeneration)
Issued == {i \in Ids : i[2] <= Len(challenge[i[1]])}
ChallengeOf(i) == challenge[i[1]][i[2]]

Outcomes == {"SENT", "FAILED", "UNDELIVERABLE"}
Outcome == [id: Ids, attempt: 1..RetryLimit, status: Outcomes, willRetry: BOOLEAN]

\* mail: the row of auth_onboarding_outbox has its encrypted content and no
\* published_at, has both, or has lost the content.
Challenge == [state: {"current", "consumed", "revoked"}, expired: BOOLEAN,
              status: {"PENDING"} \cup Outcomes, attempt: 0..RetryLimit,
              terminal: BOOLEAN, mail: {"pending", "published", "scrubbed"}]

\* waiting: locked_until or next_retry_at lies ahead.  content: encrypted_content.
Delivery == [status: {"absent", "PENDING", "PROCESSING"} \cup Outcomes,
             attempts: 0..RetryLimit, waiting: BOOLEAN, content: BOOLEAN]

Worker == [step: {"idle", "claimed", "authorized", "ended"}, id: Ids \cup {Null},
           attempt: 0..RetryLimit, outcome: Outcomes \cup {Null}]

NoAttempt == [step |-> "idle", id |-> Null, attempt |-> 0, outcome |-> Null]
Absent == [status |-> "absent", attempts |-> 0, waiting |-> FALSE, content |-> FALSE]

OnboardingInit ==
  /\ accountAt = [u \in Addresses |->
       [role |-> Null, status |-> "none", active |-> FALSE, version |-> 0]]
  /\ cooling = {}
  /\ challenge = [u \in Addresses |-> <<>>]
  /\ delivery = [i \in Ids |-> Absent]
  /\ worker = [w \in Workers |-> NoAttempt]
  /\ jobs = {} /\ report = {} /\ unsent = {} /\ results = {} /\ seen = {}
  /\ accepted = {} /\ faults = 0

------------------------------------------------------------------------------
\* Auth: OnboardingService.

Scrubbed(c) == [c EXCEPT !.mail = "scrubbed"]
RevokedChallenge(c) == IF c.state = "current" THEN Scrubbed([c EXCEPT !.state = "revoked"]) ELSE c
RevokeAll(cs) == [g \in DOMAIN cs |-> RevokedChallenge(cs[g])]

NewChallenge == [state |-> "current", expired |-> FALSE, status |-> "PENDING",
                 attempt |-> 0, terminal |-> FALSE, mail |-> "pending"]

\* Bound of the model: what can fail does so MaxFaults times, and once less for
\* every mail that is sent again.
Room(u) == faults + Len(challenge[u]) <= MaxFaults

\* createChallenge: the next generation, that revokes the one before.
CreateChallenge(u) ==
  /\ Len(challenge[u]) < MaxGeneration                        \* bound of the model
  /\ challenge[u] = <<>> \/ Room(u)
  /\ challenge' = [challenge EXCEPT ![u] = Append(RevokeAll(challenge[u]), NewChallenge)]
  /\ cooling' = cooling \cup {u}

Fault ==
  /\ faults < MaxFaults /\ \A u \in Addresses : Room(u)       \* bound of the model
  /\ faults' = faults + 1
NoFault == UNCHANGED faults

AuthOnly == UNCHANGED <<jobs, mailer, results, seen, worker, accepted, faults>>

\* An address that has an account keeps it, with its role.
Join(u, role) ==
  /\ accountAt[u].status = "none"
  /\ accountAt' = [accountAt EXCEPT ![u] =
       [@ EXCEPT !.role = role, !.status = "PENDING", !.active = TRUE]]
  /\ CreateChallenge(u)
  /\ AuthOnly

Register(u) == Join(u, "CUSTOMER")
InviteEmployee(u) == Join(u, "EMPLOYEE")

\* recordEmailSend refuses within the cooldown.
Resend(u, role) ==
  /\ accountAt[u].role = role
  /\ accountAt[u].active /\ accountAt[u].status = "PENDING"
  /\ u \notin cooling
  /\ CreateChallenge(u)
  /\ UNCHANGED accountAt
  /\ AuthOnly

ResendVerification(u) == Resend(u, "CUSTOMER")
ResendEmployee(u) == Resend(u, "EMPLOYEE")

\* lockValidChallenge.
Usable(i) ==
  /\ accountAt[i[1]].active /\ accountAt[i[1]].status = "PENDING"
  /\ ChallengeOf(i).state = "current" /\ ~ChallengeOf(i).expired

ConsumeChallenge(i) ==
  challenge' = [challenge EXCEPT ![i[1]][i[2]] = Scrubbed([@ EXCEPT !.state = "consumed"])]

OpenLink(i, role) ==
  /\ i \in Issued /\ Usable(i)
  /\ accountAt[i[1]].role = role
  /\ accountAt' = [accountAt EXCEPT ![i[1]].status = "READY"]
  /\ ConsumeChallenge(i)
  /\ UNCHANGED cooling
  /\ AuthOnly

ConfirmVerification(i) == OpenLink(i, "CUSTOMER")
AcceptEmployee(i) == OpenLink(i, "EMPLOYEE")

\* Either direction revokes the pending invitation.
StatusKeepsLinks(u) == challenge[u]
StatusRevokes(u) == [g \in DOMAIN challenge[u] |-> Scrubbed(RevokedChallenge(challenge[u][g]))]

EmployeeStatusChanges(u) ==
  /\ accountAt[u].role = "EMPLOYEE"
  /\ accountAt[u].version < MaxStatusChanges                  \* bound of the model
  /\ accountAt' = [accountAt EXCEPT ![u].active = ~@, ![u].version = @ + 1]
  /\ challenge' = [challenge EXCEPT ![u] = StatusRevokes(u)]
  /\ UNCHANGED cooling
  /\ AuthOnly

\* authorizeDelivery asks of the challenge what opening the link asks.
Authorized(i) == Usable(i)

------------------------------------------------------------------------------
\* Auth: OnboardingEventsService.

Mailable(i) == i \in Issued /\ ChallengeOf(i).mail = "pending"
Dead(c) == c.expired \/ c.state # "current" \/ c.terminal

\* tick drops the content nobody needs any more ...
Scrub ==
  /\ \E i \in Issued : Dead(ChallengeOf(i)) /\ ChallengeOf(i).mail # "scrubbed"
  /\ challenge' = [u \in Addresses |-> [g \in DOMAIN challenge[u] |->
       IF Dead(challenge[u][g]) THEN Scrubbed(challenge[u][g]) ELSE challenge[u][g]]]
  /\ UNCHANGED <<accountAt, cooling>>
  /\ AuthOnly

\* ... and publishes the rest; the event is published again when its
\* confirmation or the commit is lost.
PublishMail(i) ==
  /\ Mailable(i)
  /\ jobs' = jobs \cup {i}
  /\ \/ challenge' = [challenge EXCEPT ![i[1]][i[2]].mail = "published"] /\ NoFault
     \/ Fault /\ UNCHANGED challenge
  /\ UNCHANGED <<accountAt, cooling, mailer, results, seen, worker, accepted>>

Final(o) == o.status # "FAILED" \/ ~o.willRetry
AppliesOnce(o) == o.id \in Issued
Applies(o) ==
  LET c == ChallengeOf(o.id) IN
  /\ ~c.terminal
  /\ c.attempt < o.attempt \/ (c.attempt = o.attempt /\ c.status = "PENDING")

Showing(c, o) ==
  [c EXCEPT !.status = o.status, !.attempt = o.attempt, !.terminal = Final(o),
            !.mail = IF Final(o) THEN "scrubbed" ELSE @]

\* consume: a result that is redelivered, or older than the one Auth shows,
\* changes nothing.
ConsumeOutcome(o) ==
  /\ o \in results
  /\ seen' = seen \cup {o}
  /\ IF o \notin seen /\ Applies(o)
     THEN challenge' = [challenge EXCEPT ![o.id[1]][o.id[2]] = Showing(@, o)]
     ELSE UNCHANGED challenge
  /\ \/ results' = results \ {o} /\ NoFault
     \/ Fault /\ UNCHANGED results                           \* the ack is lost
  /\ UNCHANGED <<accountAt, cooling, jobs, mailer, worker, accepted>>

------------------------------------------------------------------------------
\* Notification.

\* receive, then ack: the events table and the unique (challenge, generation)
\* let one delivery through.
ReceiveJob(i) ==
  /\ i \in jobs
  /\ jobs' = jobs \ {i}
  /\ delivery' = IF delivery[i].status # "absent" THEN delivery
                 ELSE [delivery EXCEPT ![i] = [Absent EXCEPT !.status = "PENDING",
                                                             !.content = TRUE]]
  /\ UNCHANGED <<auth, report, unsent, results, seen, worker, accepted, faults>>

Expired(i) == ChallengeOf(i).expired

\* The rows retryDue selects and the checks claim repeats under the lock.
DueUnderLimit(i) ==
  /\ delivery[i].attempts < RetryLimit
  /\ \/ delivery[i].status = "PENDING"
     \/ delivery[i].status = "PROCESSING" /\ ~delivery[i].waiting
     \/ delivery[i].status = "FAILED" /\ (~delivery[i].waiting \/ Expired(i))
Due(i) ==
  LET d == delivery[i] IN
  \/ d.status = "PENDING"
  \/ d.status = "PROCESSING" /\ ~d.waiting
  \/ d.status = "FAILED" /\ d.attempts < RetryLimit /\ (~d.waiting \/ Expired(i))

\* The attempt whose limit is spent only records that it is.
Claim(w, i) ==
  /\ worker[w] = NoAttempt /\ Due(i)
  /\ LET exhausted == delivery[i].attempts >= RetryLimit
         n == IF exhausted THEN delivery[i].attempts ELSE delivery[i].attempts + 1
         End(o) == [step |-> "ended", id |-> i, attempt |-> n, outcome |-> o]
     IN /\ delivery' = [delivery EXCEPT ![i] = [@ EXCEPT !.status = "PROCESSING",
                                                         !.attempts = n, !.waiting = TRUE]]
        /\ worker' = [worker EXCEPT ![w] =
             IF exhausted THEN End("FAILED")
             ELSE IF Expired(i) THEN End("UNDELIVERABLE")
             ELSE [NoAttempt EXCEPT !.step = "claimed", !.id = i, !.attempt = n]]
  /\ UNCHANGED <<auth, jobs, report, unsent, results, seen, accepted, faults>>

Ends(w, o) == worker' = [worker EXCEPT ![w] = [@ EXCEPT !.step = "ended", !.outcome = o]]

\* AuthOnboardingClient.authorize: the answer, or none.
Authorize(w) ==
  /\ worker[w].step = "claimed"
  /\ \/ /\ Authorized(worker[w].id)
        /\ worker' = [worker EXCEPT ![w].step = "authorized"] /\ NoFault
     \/ ~Authorized(worker[w].id) /\ Ends(w, "UNDELIVERABLE") /\ NoFault
     \/ Ends(w, "FAILED") /\ Fault
  /\ UNCHANGED <<auth, jobs, mailer, results, seen, accepted>>

\* EmailProvider.sendOnboarding: the server accepts the recipient, does not,
\* or the content cannot be decrypted.
SendLink(w) ==
  /\ worker[w].step = "authorized"
  /\ \/ Ends(w, "SENT") /\ accepted' = accepted \cup {worker[w].id} /\ NoFault
     \/ \E o \in {"FAILED", "UNDELIVERABLE"} : Ends(w, o) /\ UNCHANGED accepted /\ Fault
  /\ UNCHANGED <<auth, jobs, mailer, results, seen>>

\* finish: only the worker of the last attempt records its outcome.
StillProcessing(r) == delivery[r.id].status = "PROCESSING"
StillMine(r) == delivery[r.id].status = "PROCESSING" /\ delivery[r.id].attempts = r.attempt

WillRetry(r) == r.outcome = "FAILED" /\ r.attempt < RetryLimit /\ ~Expired(r.id)

ContentAfter(r) == WillRetry(r) /\ delivery[r.id].content

Finish(w) ==
  LET r == worker[w]
      o == [id |-> r.id, attempt |-> r.attempt, status |-> r.outcome,
            willRetry |-> WillRetry(r)]
      reported == \E p \in report : p.id = r.id /\ p.attempt = r.attempt
  IN /\ r.step = "ended"
     /\ worker' = [worker EXCEPT ![w] = NoAttempt]
     /\ IF StillMine(r)
        THEN /\ delivery' = [delivery EXCEPT ![r.id] =
                  [@ EXCEPT !.status = r.outcome, !.waiting = WillRetry(r),
                            !.content = ContentAfter(r)]]
             /\ report' = IF reported THEN report ELSE report \cup {o}
             /\ unsent' = IF reported THEN unsent ELSE unsent \cup {o}
        ELSE UNCHANGED mailer
     /\ UNCHANGED <<auth, jobs, results, seen, accepted, faults>>

\* The process stops, or the transaction of finish fails, wherever it was.
Abandon(w) ==
  /\ worker[w] # NoAttempt
  /\ Fault
  /\ worker' = [worker EXCEPT ![w] = NoAttempt]
  /\ UNCHANGED <<auth, jobs, mailer, results, seen, accepted>>

\* OnboardingOutboxService: published again when the confirmation is lost.
PublishResult(o) ==
  /\ o \in unsent
  /\ results' = results \cup {o}
  /\ \/ unsent' = unsent \ {o} /\ NoFault
     \/ Fault /\ UNCHANGED unsent
  /\ UNCHANGED <<auth, jobs, delivery, report, seen, worker, accepted>>

------------------------------------------------------------------------------
\* Time: a challenge expires, the cooldown ends, the wait before a retry or the
\* lease of a worker that is gone ends ...

Expire(i) ==
  /\ i \in Issued /\ ~Expired(i)
  /\ challenge' = [challenge EXCEPT ![i[1]][i[2]].expired = TRUE]
  /\ UNCHANGED <<accountAt, cooling>>
  /\ AuthOnly

CooldownEnds(u) ==
  /\ u \in cooling
  /\ cooling' = cooling \ {u}
  /\ UNCHANGED <<accountAt, challenge>>
  /\ AuthOnly

AtWork(i) == \E w \in Workers : worker[w].id = i /\ worker[w].attempt = delivery[i].attempts

WaitEnds(i) ==
  /\ delivery[i].waiting /\ ~AtWork(i)
  /\ delivery' = [delivery EXCEPT ![i].waiting = FALSE]
  /\ UNCHANGED <<auth, jobs, report, unsent, results, seen, worker, accepted, faults>>

\* ... and so does that of a worker still at it: the calls to Auth and to the
\* SMTP server may together take longer than the 30 seconds.
LeaseOverrun(i) ==
  /\ delivery[i].waiting /\ AtWork(i)
  /\ Fault
  /\ delivery' = [delivery EXCEPT ![i].waiting = FALSE]
  /\ UNCHANGED <<auth, jobs, report, unsent, results, seen, worker, accepted>>

OnboardingNext ==
  \/ \E u \in Addresses : \/ Register(u) \/ InviteEmployee(u)
                          \/ ResendVerification(u) \/ ResendEmployee(u)
                          \/ EmployeeStatusChanges(u) \/ CooldownEnds(u)
  \/ \E i \in Ids : \/ ConfirmVerification(i) \/ AcceptEmployee(i)
                    \/ PublishMail(i) \/ ReceiveJob(i) \/ Expire(i) \/ WaitEnds(i)
                    \/ LeaseOverrun(i)
                    \/ \E w \in Workers : Claim(w, i)
  \/ Scrub
  \/ \E o \in results : ConsumeOutcome(o)
  \/ \E o \in unsent : PublishResult(o)
  \/ \E w \in Workers : Authorize(w) \/ SendLink(w) \/ Finish(w) \/ Abandon(w)

\* The timers of both services keep running, RabbitMQ keeps delivering and
\* leases end: what users do and what expires is not promised.  The consumers of
\* both services requeue what they could not apply, without a limit.
OnboardingFairness ==
  /\ WF_onboardingVars(Scrub)
  /\ \A i \in Ids : /\ WF_onboardingVars(PublishMail(i)) /\ WF_onboardingVars(ReceiveJob(i))
                    /\ WF_onboardingVars(WaitEnds(i))
                    /\ WF_onboardingVars(\E w \in Workers : Claim(w, i))
  /\ \A w \in Workers : WF_onboardingVars(Authorize(w) \/ SendLink(w) \/ Finish(w))
  /\ WF_onboardingVars(\E o \in unsent : PublishResult(o))
  /\ WF_onboardingVars(\E o \in results : ConsumeOutcome(o))

OnboardingSpec == OnboardingInit /\ [][OnboardingNext]_onboardingVars
OnboardingFairSpec == OnboardingSpec /\ OnboardingFairness

------------------------------------------------------------------------------
OnboardingTypeOK ==
  /\ accountAt \in [Addresses ->
       [role: {"CUSTOMER", "EMPLOYEE", Null}, status: {"none", "PENDING", "READY"},
        active: BOOLEAN, version: 0..MaxStatusChanges]]
  /\ cooling \subseteq Addresses
  /\ challenge \in [Addresses -> Seq(Challenge)]
  /\ jobs \subseteq Ids /\ accepted \subseteq Ids
  /\ delivery \in [Ids -> Delivery]
  /\ worker \in [Workers -> Worker]
  /\ unsent \subseteq report /\ results \subseteq report /\ seen \subseteq report
  /\ report \subseteq Outcome
  /\ faults \in 0..MaxFaults

\* A delivery that is not under way has reported its last attempt, with the
\* status it shows: a worker that overran its lease does not end the attempt
\* of another, and no attempt that ended goes unreported.
EndedAttemptIsReported ==
  \A i \in Ids : delivery[i].status \in Outcomes =>
    \E o \in report : /\ o.id = i /\ o.attempt = delivery[i].attempts
                      /\ o.status = delivery[i].status

\* The links that open an account: one generation at most, none for a ready
\* or a disabled account, and a ready account was opened by one of them.
OneLinkAtMost ==
  \A u \in Addresses :
    LET In(state) == {g \in DOMAIN challenge[u] : challenge[u][g].state = state} IN
    /\ Cardinality(In("current")) <= (IF accountAt[u].status = "PENDING" /\ accountAt[u].active
                                      THEN 1 ELSE 0)
    /\ Cardinality(In("consumed")) = (IF accountAt[u].status = "READY" THEN 1 ELSE 0)

\* What Auth shows of a delivery is a result of Notification, follows the
\* attempts in their order and stays once it is final.
AuthNeverGoesBack ==
  [][\A i \in Issued :
       LET old == challenge[i[1]][i[2]]
           new == challenge'[i[1]][i[2]]
       IN <<new.status, new.attempt>> # <<old.status, old.attempt>> =>
            /\ ~old.terminal /\ new.attempt > old.attempt
            /\ \E o \in report : /\ o.id = i /\ o.attempt = new.attempt
                                 /\ o.status = new.status /\ Final(o) = new.terminal]_onboardingVars

\* Every challenge is settled: Auth shows a final result of its mail, or the
\* challenge is used, revoked or expired; also when every attempt the limit
\* allows fails, is abandoned or overruns its lease.
EveryMailSettles ==
  \A i \in Ids : (i \in Issued) ~> (i \in Issued /\ Dead(ChallengeOf(i)))

\* "Database commit failures must not turn an accepted SMTP message into a
\* delivery failure" (onboarding-delivery.service.ts:118).
AcceptedIsNotFailed ==
  \A i \in Issued : i \in accepted /\ ChallengeOf(i).terminal => ChallengeOf(i).status # "FAILED"
==============================================================================

------------------------------ MODULE Campaigns ------------------------------
(***************************************************************************)
(* A coupon campaign as one of its recipients lives it: CRM writes the     *)
(* recipient and the request to mail him in one transaction; the campaign  *)
(* outbox checks that he is still eligible, has Pricing issue his right to *)
(* the coupon and publishes the request; Notification claims the delivery  *)
(* under a lease, mails it, retries, and reports every outcome through its *)
(* own outbox; CRM orders the reports by attempt.                          *)
(*                                                                         *)
(* services/crm-service/src/crm/crm.service.ts, campaign-outbox.service.ts *)
(* and services/notification-service/src/notifications/                    *)
(* notification-delivery.service.ts, notification-outbox.service.ts.       *)
(* Recipients share nothing.  Each service is one process, and messages    *)
(* may be delivered late, again and in any order; a consumer that keeps    *)
(* failing moves a message to its dead-letter queue (consumeReliably).     *)
(* The log mode of the mailer, whose SENT is called SIMULATED, is left     *)
(* out.                                                                    *)
(***************************************************************************)
EXTENDS Naturals, FiniteSets

CONSTANTS
  RetryLimit,   \* retryLimit of Notification
  MaxFaults     \* bound of the model on crashes, failed calls and overrun leases

ASSUME CampaignsAssumption == RetryLimit \in Nat \ {0} /\ MaxFaults \in Nat

VARIABLES
  bought,     \* the customer has bought since the segment was computed
  expired,    \* valid_until has passed
  recipient,  \* crm_campaign_recipients
  request,    \* crm_campaign_outbox_events
  flush,      \* CampaignOutboxService.flush: its step
  right,      \* pricing_coupon_rights: the right exists
  asked,      \* coupon.email.requested.v1: not published, published or received
  delivery,   \* notification_deliveries
  sender,     \* deliver: the step of each attempt, or the outcome it is about to record
  mailed,     \* attempts whose mail the SMTP server accepted
  reportRow,  \* notification_outbox_events: one row for each type of event
  publisher,  \* NotificationOutboxService: the row it has claimed
  reports,    \* notification.*.v1 messages
  applied,    \* crm_processed_events: ids of reports
  dead,       \* messages in a dead-letter queue that have not taken effect
  faults

environment == <<bought, expired>>
crmVars == <<recipient, request, flush, right>>
deliveryVars == <<delivery, sender, mailed>>
reportVars == <<reportRow, publisher, reports>>
consumed == <<applied, dead>>
campaignVars == <<environment, crmVars, asked, deliveryVars, reportVars, consumed, faults>>

Attempts == 1..(RetryLimit + MaxFaults)
Outcomes == {"SENT", "FAILED", "UNDELIVERABLE"}
Types == {"notification.sent.v1", "notification.failed.v1"}
TypeOf(outcome) == IF outcome = "SENT" THEN "notification.sent.v1" ELSE "notification.failed.v1"

\* id: gen_random_uuid(), a new one each time an attempt is reported.
Report == [id : Attempts, attempt : Attempts, outcome : Outcomes, willRetry : BOOLEAN]
NoReport == [id |-> 0, published |-> TRUE]
Row == [report : Report, id : Attempts, published : BOOLEAN]

CampaignTypeOK ==
  /\ bought \in BOOLEAN /\ expired \in BOOLEAN /\ right \in BOOLEAN
  /\ recipient \in [status : {"NONE", "PENDING"} \cup Outcomes, attempts : Attempts \cup {0}]
  /\ request \in [published : BOOLEAN, leased : BOOLEAN, waiting : BOOLEAN]
  /\ flush \in {"idle", "eligible", "right", "publish", "mark", "reschedule"}
  /\ asked \in {"no", "published", "received"}
  /\ delivery \in [status : {"NONE", "PENDING", "PROCESSING"} \cup Outcomes,
                   attempts : Attempts \cup {0}, leased : BOOLEAN, waiting : BOOLEAN,
                   email : BOOLEAN]
  /\ sender \in [Attempts -> {"none", "contact", "send"} \cup Outcomes]
  /\ mailed \subseteq Attempts
  /\ reportRow \in [Types -> Row \cup {NoReport}] /\ publisher \in Row \cup {NoReport}
  /\ reports \subseteq Report /\ applied \subseteq Attempts
  /\ dead \in [request : BOOLEAN, reports : SUBSET Attempts]
  /\ faults \in 0..MaxFaults

CampaignInit ==
  /\ bought = FALSE /\ expired = FALSE /\ right = FALSE
  /\ recipient = [status |-> "NONE", attempts |-> 0]
  /\ request = [published |-> TRUE, leased |-> FALSE, waiting |-> FALSE]
  /\ flush = "idle"
  /\ asked = "no"
  /\ delivery = [status |-> "NONE", attempts |-> 0, leased |-> FALSE, waiting |-> FALSE,
                 email |-> FALSE]
  /\ sender = [a \in Attempts |-> "none"]
  /\ mailed = {}
  /\ reportRow = [t \in Types |-> NoReport]
  /\ publisher = NoReport
  /\ reports = {} /\ applied = {}
  /\ dead = [request |-> FALSE, reports |-> {}]
  /\ faults = 0

Fault == faults < MaxFaults /\ faults' = faults + 1

------------------------------------------------------------------------------
\* The customer, and time.

Buys ==
  /\ ~bought
  /\ bought' = TRUE
  /\ UNCHANGED <<expired, crmVars, asked, deliveryVars, reportVars, consumed, faults>>

Expires ==
  /\ ~expired
  /\ expired' = TRUE
  /\ UNCHANGED <<bought, crmVars, asked, deliveryVars, reportVars, consumed, faults>>

------------------------------------------------------------------------------
\* CRM: the campaign and its outbox.

\* createCampaign, when the authorities' snapshot has him in the segment; a
\* repeated request finds the campaign.
CreateCampaign ==
  /\ recipient.status = "NONE" /\ ~bought /\ ~expired
  /\ recipient' = [recipient EXCEPT !.status = "PENDING"]
  /\ request' = [request EXCEPT !.published = FALSE]
  /\ UNCHANGED <<environment, flush, right, asked, deliveryVars, reportVars, consumed, faults>>

ClaimPending ==
  /\ flush = "idle"
  /\ ~request.published /\ ~request.leased /\ ~request.waiting
  /\ request' = [request EXCEPT !.leased = TRUE]
  /\ flush' = "eligible"
  /\ UNCHANGED <<environment, recipient, right, asked, deliveryVars, reportVars, consumed, faults>>

\* Time makes a row available again: locked_until, available_at.
RequestAvailable ==
  /\ flush = "idle" /\ (request.leased \/ request.waiting)
  /\ request' = [request EXCEPT !.leased = FALSE, !.waiting = FALSE]
  /\ UNCHANGED <<environment, recipient, flush, right, asked, deliveryVars, reportVars, consumed, faults>>

GiveUp ==
  recipient' = [recipient EXCEPT !.status = IF @ = "PENDING" THEN "UNDELIVERABLE" ELSE @]

\* eligible: asks Auth and Orders now.
Eligible ==
  /\ flush = "eligible"
  /\ \/ ~bought /\ ~expired /\ flush' = "right" /\ UNCHANGED recipient
     \/ (bought \/ expired) /\ flush' = "mark" /\ GiveUp
  /\ UNCHANGED <<environment, request, right, asked, deliveryVars, reportVars, consumed, faults>>

\* issueRight: Pricing refuses a definition that has expired.
IssueRight ==
  /\ flush = "right"
  /\ \/ ~expired /\ right' = TRUE /\ flush' = "publish" /\ UNCHANGED recipient
     \/ expired /\ flush' = "mark" /\ GiveUp /\ UNCHANGED right
  /\ UNCHANGED <<environment, request, asked, deliveryVars, reportVars, consumed, faults>>

\* The response of Pricing is awaited; a call that timed out may have been done.
AfterTimeoutPublish == "publish"
AfterTimeout == "reschedule"

IssueRightFails ==
  /\ flush = "right"
  /\ Fault
  /\ right' \in {right, TRUE}
  /\ flush' = AfterTimeout
  /\ UNCHANGED <<environment, recipient, request, asked, deliveryVars, reportVars, consumed>>

Published == asked' = IF asked = "no" THEN "published" ELSE asked

Publish ==
  /\ flush = "publish"
  /\ Published
  /\ flush' = "mark"
  /\ UNCHANGED <<environment, recipient, request, right, deliveryVars, reportVars, consumed, faults>>

\* A failed or unconfirmed publish, a failed eligibility check, a failed mark.
FlushFails ==
  /\ flush \in {"eligible", "publish", "mark"}
  /\ Fault
  /\ UNCHANGED asked \/ (flush = "publish" /\ Published)
  /\ flush' = "reschedule"
  /\ UNCHANGED <<environment, recipient, request, right, deliveryVars, reportVars, consumed>>

MarkPublished ==
  /\ flush = "mark"
  /\ request' = [request EXCEPT !.published = TRUE, !.leased = FALSE]
  /\ flush' = "idle"
  /\ UNCHANGED <<environment, recipient, right, asked, deliveryVars, reportVars, consumed, faults>>

Reschedule ==
  /\ flush = "reschedule"
  /\ request' = [request EXCEPT !.leased = FALSE, !.waiting = TRUE]
  /\ flush' = "idle"
  /\ UNCHANGED <<environment, recipient, right, asked, deliveryVars, reportVars, consumed, faults>>

CrmCrashes ==
  /\ flush # "idle"
  /\ Fault
  /\ flush' = "idle"
  /\ UNCHANGED <<environment, recipient, request, right, asked, deliveryVars, reportVars, consumed>>

------------------------------------------------------------------------------
\* Notification: the delivery.

\* receive; a delivery of the same event changes nothing.
Receive ==
  /\ asked = "published"
  /\ asked' = "received"
  /\ delivery' = [delivery EXCEPT !.status = "PENDING"]
  /\ dead' = [dead EXCEPT !.request = FALSE]
  /\ UNCHANGED <<environment, crmVars, sender, mailed, reportVars, applied, faults>>

\* consumeReliably, here of the request: after five retries it is given up.
BuryRequest ==
  /\ asked = "published"
  /\ dead' = [dead EXCEPT !.request = TRUE]
  /\ UNCHANGED <<environment, crmVars, asked, deliveryVars, reportVars, applied, faults>>

\* claim, called by receive and by retryDue.
Claimable ==
  \/ delivery.status = "PENDING"
  \/ delivery.status = "FAILED" /\ delivery.attempts < RetryLimit /\ ~delivery.waiting
  \/ delivery.status = "PROCESSING" /\ ~delivery.leased

ClaimDelivery ==
  /\ Claimable
  /\ delivery' = [delivery EXCEPT !.status = "PROCESSING", !.attempts = @ + 1,
                                  !.leased = TRUE, !.waiting = FALSE]
  /\ sender' = [sender EXCEPT ![delivery.attempts + 1] =
                  IF delivery.email THEN "send" ELSE "contact"]
  /\ UNCHANGED <<environment, crmVars, asked, mailed, reportVars, consumed, faults>>

\* next_retry_at has come.
RetryDue ==
  /\ delivery.waiting
  /\ delivery' = [delivery EXCEPT !.waiting = FALSE]
  /\ UNCHANGED <<environment, crmVars, asked, sender, mailed, reportVars, consumed, faults>>

\* locked_until has passed, of a worker that is gone or of one that is slow.
LeaseEnds ==
  /\ delivery.status = "PROCESSING" /\ delivery.leased
  /\ IF sender[delivery.attempts] = "none" THEN UNCHANGED faults ELSE Fault
  /\ delivery' = [delivery EXCEPT !.leased = FALSE]
  /\ UNCHANGED <<environment, crmVars, asked, sender, mailed, reportVars, consumed>>

SetSender(a, step) == sender' = [sender EXCEPT ![a] = step]

FindContact(a) ==
  /\ sender[a] = "contact"
  /\ \/ delivery' = [delivery EXCEPT !.email = TRUE] /\ SetSender(a, "send")
     \/ UNCHANGED delivery /\ SetSender(a, "UNDELIVERABLE")
     \/ UNCHANGED delivery /\ SetSender(a, "FAILED")
  /\ UNCHANGED <<environment, crmVars, asked, mailed, reportVars, consumed, faults>>

\* The server accepts the mail, or it fails; a lost answer looks like a failure.
SendMail(a) ==
  /\ sender[a] = "send"
  /\ \/ expired /\ SetSender(a, "UNDELIVERABLE") /\ UNCHANGED mailed
     \/ ~expired /\ SetSender(a, "SENT") /\ mailed' = mailed \cup {a}
     \/ ~expired /\ SetSender(a, "FAILED") /\ mailed' \in {mailed, mailed \cup {a}}
  /\ UNCHANGED <<environment, crmVars, asked, delivery, reportVars, consumed, faults>>

\* Only the attempt that owns the delivery may record its outcome.
MayFinish(a) == delivery.status = "PROCESSING" /\ delivery.attempts = a

\* ON CONFLICT (notification_id, event_type) DO UPDATE SET id = gen_random_uuid() ...:
\* a new id each time, for which the number of the attempt stands.
IdOfFirst(row, a) == IF row.id = 0 THEN a ELSE row.id
IdOfReport(row, a) == a

Finish(a) ==
  LET outcome == sender[a]
      type == TypeOf(outcome)
      again == outcome = "FAILED" /\ a < RetryLimit
      id == IdOfReport(reportRow[type], a)
  IN
  /\ outcome \in Outcomes
  /\ SetSender(a, "none")
  /\ IF MayFinish(a)
       THEN /\ delivery' = [delivery EXCEPT !.status = outcome, !.leased = FALSE,
                                            !.waiting = again]
            /\ reportRow' = [reportRow EXCEPT ![type] =
                 [id |-> id, published |-> FALSE,
                  report |-> [id |-> id, attempt |-> a, outcome |-> outcome, willRetry |-> again]]]
       ELSE UNCHANGED <<delivery, reportRow>>
  /\ UNCHANGED <<environment, crmVars, asked, mailed, publisher, reports, consumed, faults>>

\* A commit that fails is caught by deliver, which records FAILED instead; if
\* that fails too the attempt ends and the lease runs out.
FinishFails(a) ==
  /\ sender[a] \in Outcomes
  /\ Fault
  /\ SetSender(a, IF sender[a] = "FAILED" THEN "none" ELSE "FAILED")
  /\ UNCHANGED <<environment, crmVars, asked, delivery, mailed, reportVars, consumed>>

NotificationCrashes ==
  /\ \E a \in Attempts : sender[a] # "none"
  /\ Fault
  /\ sender' = [a \in Attempts |-> "none"]
  /\ publisher' = NoReport
  /\ UNCHANGED <<environment, crmVars, asked, delivery, mailed, reportRow, reports, consumed>>

------------------------------------------------------------------------------
\* The reports: Notification's outbox and the consumer of CRM.

ClaimReport(t) ==
  /\ publisher = NoReport /\ ~reportRow[t].published
  /\ publisher' = reportRow[t]
  /\ UNCHANGED <<environment, crmVars, asked, deliveryVars, reportRow, reports, consumed, faults>>

PublishReport ==
  /\ publisher # NoReport /\ publisher.report \notin reports
  /\ reports' = reports \cup {publisher.report}
  /\ UNCHANGED <<environment, crmVars, asked, deliveryVars, reportRow, publisher, consumed, faults>>

\* published: UPDATE ... WHERE id = $1, the id that was claimed.
MarkReport ==
  /\ publisher # NoReport /\ publisher.report \in reports
  /\ reportRow' = [t \in Types |-> IF reportRow[t].id = publisher.id
                                   THEN [reportRow[t] EXCEPT !.published = TRUE] ELSE reportRow[t]]
  /\ publisher' = NoReport
  /\ UNCHANGED <<environment, crmVars, asked, deliveryVars, reports, consumed, faults>>

\* The WHERE clauses of applyDeliveryStatus.
AppliesUnlessSent(m) == recipient.status # "SENT" /\ m \in reports
Applies(m) == recipient.status # "SENT" /\ recipient.attempts <= m.attempt

StatusOf(m) == IF m.willRetry THEN "PENDING" ELSE m.outcome

ApplyDeliveryStatus(m) ==
  /\ m \in reports /\ m.id \notin applied
  /\ applied' = applied \cup {m.id}
  /\ recipient' = IF Applies(m) THEN [status |-> StatusOf(m), attempts |-> m.attempt] ELSE recipient
  /\ dead' = [dead EXCEPT !.reports = @ \ {m.id}]
  /\ UNCHANGED <<environment, request, flush, right, asked, deliveryVars, reportVars, faults>>

BuryReport(m) ==
  /\ m \in reports /\ m.id \notin applied
  /\ dead' = [dead EXCEPT !.reports = @ \cup {m.id}]
  /\ UNCHANGED <<environment, crmVars, asked, deliveryVars, reportVars, applied, faults>>

------------------------------------------------------------------------------
Flush ==
  \/ ClaimPending \/ RequestAvailable \/ Eligible \/ IssueRight \/ Publish
  \/ MarkPublished \/ Reschedule

Deliver ==
  \/ ClaimDelivery \/ RetryDue \/ LeaseEnds
  \/ \E a \in Attempts : FindContact(a) \/ SendMail(a) \/ Finish(a)

Publication == (\E t \in Types : ClaimReport(t)) \/ PublishReport \/ MarkReport

Faults ==
  \/ IssueRightFails \/ FlushFails \/ CrmCrashes \/ NotificationCrashes
  \/ \E a \in Attempts : FinishFails(a)

Consumption ==
  \/ Receive \/ BuryRequest
  \/ \E m \in reports : ApplyDeliveryStatus(m) \/ BuryReport(m)

CampaignNext ==
  \/ Buys \/ Expires \/ CreateCampaign
  \/ Flush \/ Deliver \/ Publication \/ Consumption \/ Faults

CampaignSpec == CampaignInit /\ [][CampaignNext]_campaignVars

\* A message is offered to its consumer until it has taken effect or lies in the
\* dead-letter queue; a copy that comes later may still take effect.
SettleRequest == ~dead.request /\ (Receive \/ BuryRequest)
SettleReport(m) == m.id \notin dead.reports /\ (ApplyDeliveryStatus(m) \/ BuryReport(m))

\* Interval timers flush the outboxes and retry due deliveries; calls answer or
\* time out; the broker delivers what it holds, and nothing obliges a consumer
\* to succeed.
Fairness ==
  /\ WF_campaignVars(Flush) /\ WF_campaignVars(Deliver) /\ WF_campaignVars(Publication)
  /\ WF_campaignVars(SettleRequest) /\ WF_campaignVars(\E m \in reports : SettleReport(m))

FairSpec == CampaignSpec /\ Fairness

------------------------------------------------------------------------------
\* A mail that went out carries a coupon the customer holds in Pricing, whatever
\* was retried or timed out on the way.  (flush: issueRight before publish)
MailCarriesRight == mailed # {} => right

\* Once Notification is done with the delivery and every report has arrived, the
\* campaign shows the outcome Notification recorded last, though reports of
\* attempts come late, again and out of order, and the outbox row of an attempt
\* may be rewritten while it is being published.  (applyDeliveryStatus, finish)
Done == delivery.status \in {"SENT", "UNDELIVERABLE"}
        \/ (delivery.status = "FAILED" /\ delivery.attempts >= RetryLimit)

ReportsAgree ==
  ( /\ Done
    /\ publisher = NoReport /\ \A t \in Types : reportRow[t].published
    /\ \A m \in reports : m.id \in applied )
  => recipient.status = delivery.status

\* Every recipient is told apart in the end: his mail was sent, failed for good
\* or could not be delivered, unless the request, or the report of the last
\* attempt, lies in a dead-letter queue.  (campaignForClient counts him as
\* pending until then.)  MaxFaults bounds how often an attempt is abandoned; a
\* worker that is lost in every attempt is retried for ever.
Stuck ==
  \/ dead.request
  \/ delivery.status \in Outcomes /\ delivery.attempts \in dead.reports

EveryRecipientSettles ==
  recipient.status = "PENDING" ~> [](recipient.status \notin {"NONE", "PENDING"} \/ Stuck)

------------------------------------------------------------------------------
\* What the documentation says of the delivery, which the code does not keep.

\* "NOTIFICATION_RETRY_LIMIT: tres intentos por defecto": a delivery whose lease
\* ran out is claimed again whatever the number of its attempts (retryDue, claim).
AttemptsAreLimited == delivery.attempts <= RetryLimit
==============================================================================

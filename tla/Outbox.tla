-------------------------------- MODULE Outbox --------------------------------
(***************************************************************************)
(* The way of an event from a business transaction of Orders to its effect *)
(* in Inventory: the outbox table, the workers that lease its rows and     *)
(* publish them with confirms, the durable queue, and the consumer that    *)
(* deduplicates, retries a bounded number of times and then dead-letters.  *)
(*                                                                         *)
(* services/orders-service/src/events/outbox.service.ts and                *)
(* services/inventory-service/src/events/order-cancelled.consumer.ts; the  *)
(* other services carry copies of the first.  A worker is one process of   *)
(* the service.  The queue is declared before the first publication.       *)
(***************************************************************************)
EXTENDS Naturals, FiniteSets

CONSTANTS
  Events,
  Workers,
  BatchSize,    \* LIMIT of claimPending
  RetryLimit,   \* consumerRetryLimit
  Prefetch,     \* unacknowledged messages the broker allows the consumer
  MaxCopies,    \* bound of the model on equal messages in the queue
  None

ASSUME OutboxAssumption ==
  /\ BatchSize \in Nat \ {0}
  /\ RetryLimit \in Nat
  /\ Prefetch \in Nat \ {0}
  /\ MaxCopies \in Nat \ {0}
  /\ None \notin Workers \cup Events

VARIABLES
  row,        \* orders_outbox_events
  worker,     \* what each worker is doing in flush
  queue,      \* copies of each <<event, x-retry-count>> in queue or retry queue
  consumer,   \* the consumer's connection: down, subscribed or ready
  held,       \* messages delivered to a handler that dropped them unanswered
  processed,  \* inventory_processed_events
  effects,    \* times the effect of each event was committed
  dead        \* events in the DLQ

consumerVars == <<consumer, held>>
effectVars == <<processed, effects>>
vars == <<row, worker, queue, consumerVars, effectVars, dead>>

\* leased: locked_until has not passed.  waiting: available_at has not come.
Row == [published: BOOLEAN, lockedBy: Workers \cup {None}, leased: BOOLEAN, waiting: BOOLEAN]

ASSUME RowAssumption == None \notin Row

Messages == Events \X (0..RetryLimit)

Idle == [step |-> "idle", event |-> None, todo |-> {}]

Init ==
  /\ row = [e \in Events |-> None]
  /\ worker = [w \in Workers |-> Idle]
  /\ queue = [m \in Messages |-> 0]
  /\ consumer = "down"
  /\ held = {}
  /\ processed = {}
  /\ effects = [e \in Events |-> 0]
  /\ dead = {}

------------------------------------------------------------------------------
\* The outbox table.

\* enqueue, in the transaction of the business change.
Enqueue(e) ==
  /\ row[e] = None
  /\ row' = [row EXCEPT ![e] =
       [published |-> FALSE, lockedBy |-> None, leased |-> FALSE, waiting |-> FALSE]]
  /\ UNCHANGED <<worker, queue, consumerVars, effectVars, dead>>

LeaseExpires(e) ==
  /\ row[e] # None /\ row[e].leased
  /\ row' = [row EXCEPT ![e].leased = FALSE]
  /\ UNCHANGED <<worker, queue, consumerVars, effectVars, dead>>

BackoffEnds(e) ==
  /\ row[e] # None /\ row[e].waiting
  /\ row' = [row EXCEPT ![e].waiting = FALSE]
  /\ UNCHANGED <<worker, queue, consumerVars, effectVars, dead>>

Claimable(e) == row[e] # None /\ ~row[e].published /\ ~row[e].waiting /\ ~row[e].leased

\* The WHERE clause of markPublished and reschedule.
Owns(w, e) == row[e].lockedBy = w /\ ~row[e].published

\* flush starts with claimPending; rows another claim holds locked are skipped.
ClaimPending(w, B) ==
  /\ worker[w] = Idle
  /\ B # {} /\ Cardinality(B) <= BatchSize
  /\ \A e \in B : Claimable(e)
  /\ row' = [e \in Events |->
       IF e \in B THEN [row[e] EXCEPT !.lockedBy = w, !.leased = TRUE] ELSE row[e]]
  /\ worker' = [worker EXCEPT ![w] = [step |-> "publish", event |-> None, todo |-> B]]
  /\ UNCHANGED <<queue, consumerVars, effectVars, dead>>

SetWorker(w, step, e) ==
  worker' = [worker EXCEPT ![w] = [step |-> step, event |-> e, todo |-> @.todo \ {e}]]

Send(e) ==
  /\ queue[<<e, 0>>] < MaxCopies        \* bound of the model
  /\ queue' = [queue EXCEPT ![<<e, 0>>] = @ + 1]

\* publish: the broker confirmed ...
PublishConfirmed(w, e) ==
  /\ worker[w].step = "publish"
  /\ e \in worker[w].todo
  /\ Send(e)
  /\ SetWorker(w, "mark", e)
  /\ UNCHANGED <<row, consumerVars, effectVars, dead>>

\* ... or did not, whether or not it has the message.
PublishFailsUnnoticed(w, e) ==
  /\ worker[w].step = "publish"
  /\ e \in worker[w].todo
  /\ Send(e) \/ UNCHANGED queue
  /\ SetWorker(w, "mark", e)
  /\ UNCHANGED <<row, consumerVars, effectVars, dead>>
PublishFails(w, e) ==
  /\ worker[w].step = "publish"
  /\ e \in worker[w].todo
  /\ Send(e) \/ UNCHANGED queue
  /\ SetWorker(w, "reschedule", e)
  /\ UNCHANGED <<row, consumerVars, effectVars, dead>>

\* The event is dealt with; flush ends after the last one of the batch.
NextEvent(w) ==
  worker' = [worker EXCEPT ![w] =
    IF @.todo = {} THEN Idle ELSE [@ EXCEPT !.step = "publish", !.event = None]]

MarkPublished(w) ==
  /\ worker[w].step = "mark"
  /\ LET e == worker[w].event
     IN  row' = IF Owns(w, e)
                THEN [row EXCEPT ![e].published = TRUE, ![e].lockedBy = None, ![e].leased = FALSE]
                ELSE row
  /\ NextEvent(w)
  /\ UNCHANGED <<queue, consumerVars, effectVars, dead>>

\* The database refused: flush goes on as if the publication had failed.
MarkFails(w) ==
  /\ worker[w].step = "mark"
  /\ SetWorker(w, "reschedule", worker[w].event)
  /\ UNCHANGED <<row, queue, consumerVars, effectVars, dead>>

Reschedule(w) ==
  /\ worker[w].step = "reschedule"
  /\ LET e == worker[w].event
     IN  row' = IF Owns(w, e)
                THEN [row EXCEPT ![e].waiting = TRUE, ![e].lockedBy = None, ![e].leased = FALSE]
                ELSE row
  /\ NextEvent(w)
  /\ UNCHANGED <<queue, consumerVars, effectVars, dead>>

\* The process stops, or reschedule fails too: the rest of the batch is left
\* to its lease.
Abandon(w) ==
  /\ worker[w] # Idle
  /\ worker' = [worker EXCEPT ![w] = Idle]
  /\ UNCHANGED <<row, queue, consumerVars, effectVars, dead>>

------------------------------------------------------------------------------
\* The consumer.

\* start: channel.consume is answered.  The broker may deliver from now on, but
\* this.channel is assigned only when the awaiting code resumes.
Subscribe ==
  /\ consumer = "down"
  /\ consumer' = "subscribed"
  /\ UNCHANGED <<row, worker, queue, held, effectVars, dead>>

ChannelAssigned ==
  /\ consumer = "subscribed"
  /\ consumer' = "ready"
  /\ UNCHANGED <<row, worker, queue, held, effectVars, dead>>

\* The broker gives back to the queue what was not acknowledged.
Disconnect == consumer' = "down" /\ held' = {}

\* The connection closes or the process stops; start runs again later.
ConnectionLost ==
  /\ consumer # "down"
  /\ Disconnect
  /\ UNCHANGED <<row, worker, queue, effectVars, dead>>

Deliverable(e, r) ==
  /\ queue[<<e, r>>] > (IF <<e, r>> \in held THEN 1 ELSE 0)
  /\ Cardinality(held) < Prefetch

\* handle without this.channel returns: the message is neither handled nor
\* answered while the connection lasts.
DropEarlyDelivery(e, r) ==
  /\ consumer = "subscribed"
  /\ Deliverable(e, r)
  /\ <<e, r>> \notin held
  /\ held' = held \cup {<<e, r>>}
  /\ UNCHANGED <<row, worker, queue, consumer, effectVars, dead>>

\* handle of a message of event e with retry count r.
Take(e, r) == consumer = "ready" /\ Deliverable(e, r)

Ack(e, r) == queue' = [queue EXCEPT ![<<e, r>>] = @ - 1]

\* INSERT INTO inventory_processed_events ... ON CONFLICT DO NOTHING decides
\* whether the transaction has an effect.
FirstDeliveryAssumed(e) == e \in Events
FirstDelivery(e) == e \notin processed

ApplyOnce(e) ==
  IF FirstDelivery(e)
  THEN processed' = processed \cup {e} /\ effects' = [effects EXCEPT ![e] = @ + 1]
  ELSE UNCHANGED <<processed, effects>>

\* Committed and acknowledged.
HandleOk(e, r) ==
  /\ Take(e, r)
  /\ ApplyOnce(e)
  /\ Ack(e, r)
  /\ UNCHANGED <<row, worker, consumerVars, dead>>

\* Committed, but the acknowledgement is lost with the connection: the broker
\* will deliver the message again.
HandleUnacked(e, r) ==
  /\ Take(e, r)
  /\ ApplyOnce(e)
  /\ Disconnect
  /\ UNCHANGED <<row, worker, queue, dead>>

\* The transaction failed: a copy with one retry more is confirmed, then the
\* message acknowledged, unless the connection is lost in between.
SendRetry(e, r) ==
  /\ Take(e, r)
  /\ r < RetryLimit
  /\ queue[<<e, r + 1>>] < MaxCopies    \* bound of the model
  /\ UNCHANGED <<row, worker, effectVars, dead>>

Retry(e, r) ==
  /\ SendRetry(e, r)
  /\ queue' = [queue EXCEPT ![<<e, r + 1>>] = @ + 1, ![<<e, r>>] = @ - 1]
  /\ UNCHANGED consumerVars

RetryUnacked(e, r) ==
  /\ SendRetry(e, r)
  /\ queue' = [queue EXCEPT ![<<e, r + 1>>] = @ + 1]
  /\ Disconnect

\* The retries are used up: nack without requeue.
DeadLetterDrops(e, r) ==
  /\ Take(e, r)
  /\ r >= RetryLimit
  /\ Ack(e, r)
  /\ UNCHANGED <<row, worker, consumerVars, effectVars, dead>>
DeadLetter(e, r) ==
  /\ Take(e, r)
  /\ r >= RetryLimit
  /\ Ack(e, r)
  /\ dead' = dead \cup {e}
  /\ UNCHANGED <<row, worker, consumerVars, effectVars>>

Settle(e) == \E r \in 0..RetryLimit : HandleOk(e, r) \/ Retry(e, r) \/ DeadLetter(e, r)

Next ==
  \/ \E e \in Events :
       \/ Enqueue(e) \/ LeaseExpires(e) \/ BackoffEnds(e) \/ Settle(e)
       \/ \E r \in 0..RetryLimit :
            HandleUnacked(e, r) \/ RetryUnacked(e, r) \/ DropEarlyDelivery(e, r)
  \/ Subscribe \/ ChannelAssigned \/ ConnectionLost
  \/ \E w \in Workers :
       \/ \E B \in SUBSET Events : ClaimPending(w, B)
       \/ \E e \in Events : PublishConfirmed(w, e) \/ PublishFails(w, e)
       \/ MarkPublished(w) \/ MarkFails(w) \/ Reschedule(w) \/ Abandon(w)

\* Leases and backoffs run out.  Claims take the oldest rows first, so no row
\* is passed over for ever; a flush does not hang; the broker is not down each
\* time a given event is published; the consumer reconnects by a timer and is
\* not cut each time it handles a given event.
Fairness ==
  /\ \A e \in Events :
       /\ WF_vars(LeaseExpires(e))
       /\ WF_vars(BackoffEnds(e))
       /\ SF_vars(Settle(e))
       /\ SF_vars(\E w \in Workers : \E B \in SUBSET Events : e \in B /\ ClaimPending(w, B))
       /\ SF_vars(\E w \in Workers : PublishConfirmed(w, e))
  /\ \A w \in Workers :
       /\ WF_vars(\E e \in Events : PublishConfirmed(w, e) \/ PublishFails(w, e))
       /\ WF_vars(MarkPublished(w))
       /\ WF_vars(Reschedule(w))
  /\ WF_vars(Subscribe)
  /\ SF_vars(ChannelAssigned)

Spec == Init /\ [][Next]_vars /\ Fairness

\* Somebody restarts a consumer that holds messages without answering them,
\* and not every start meets an early delivery.
Restarts == SF_vars(held # {} /\ ConnectionLost) /\ SF_vars(held = {} /\ ChannelAssigned)

RestartingSpec == Spec /\ Restarts

------------------------------------------------------------------------------
\* Properties.

TypeOK ==
  /\ row \in [Events -> Row \cup {None}]
  /\ worker \in [Workers -> [step: {"idle", "publish", "mark", "reschedule"},
                             event: Events \cup {None}, todo: SUBSET Events]]
  /\ queue \in [Messages -> 0..MaxCopies]
  /\ consumer \in {"down", "subscribed", "ready"}
  /\ held \in SUBSET {m \in Messages : queue[m] > 0}
  /\ processed \subseteq Events
  /\ effects \in [Events -> Nat]
  /\ dead \subseteq Events

\* A row is marked published only when the broker has its event: from then on
\* the event is in the queue, took effect or is in the DLQ, whatever crashed
\* ("una venta confirmada nunca se pierde por una caida temporal del broker").
NothingLost ==
  \A e \in Events : row[e] # None /\ row[e].published =>
    \/ \E r \in 0..RetryLimit : queue[<<e, r>>] > 0
    \/ e \in processed \cup dead

\* Republished by a second worker, retried, redelivered: an event has its
\* effect once ("una reentrega no genera una segunda entrada de stock").
AppliedOnce == \A e \in Events : effects[e] <= 1

\* Orders, the broker and Inventory keep the promise of EventDelivery.
Delivery == INSTANCE EventDelivery
              WITH enqueued <- {e \in Events : row[e] # None}, applied <- processed

ImplementsDelivery == Delivery!Spec

\* "La cola reintenta hasta el limite configurado y mueve fallos persistentes"
\* to the DLQ: each cancellation is handled or dead-lettered in the end.
PublishedIsSettled ==
  \A e \in Events : (row[e] # None /\ row[e].published) ~> (e \in processed \cup dead)
==============================================================================

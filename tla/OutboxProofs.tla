----------------------------- MODULE OutboxProofs -----------------------------
(***************************************************************************)
(* Proofs about Outbox, for any number of events, workers and retries and   *)
(* any size of batches and prefetch: nothing is lost, nothing is applied    *)
(* twice, and each step is a step of EventDelivery or none.                 *)
(*                                                                         *)
(* A row is marked published by a worker that holds a confirmation, which    *)
(* may be old: the event may have been consumed since.  What the             *)
(* confirmation still means is InBroker, and no step of the consumer takes   *)
(* an event out of it.                                                      *)
(***************************************************************************)
EXTENDS Outbox, TLAPS

Worker == [step: {"idle", "publish", "mark", "reschedule"},
           event: Events \cup {None}, todo: SUBSET Events]

\* In the queue, handled or in the DLQ.
InBroker(e) ==
  \/ \E r \in 0..RetryLimit : queue[<<e, r>>] > 0
  \/ e \in processed \cup dead

\* A worker is about events that were enqueued, and marks what the broker has.
Sound(x) ==
  /\ \A e \in x.todo : row[e] # None
  /\ x.step \in {"mark", "reschedule"} => x.event \in Events /\ row[x.event] # None
  /\ x.step = "mark" => InBroker(x.event)

WorkersAreSound == \A w \in Workers : Sound(worker[w])

OnlyEnqueued == \A e \in Events : InBroker(e) => row[e] # None

OneEffect == \A e \in Events : effects[e] = IF e \in processed THEN 1 ELSE 0

SafeInv == TypeOK /\ NothingLost /\ WorkersAreSound /\ OnlyEnqueued /\ OneEffect

------------------------------------------------------------------------------
\* What a worker may rely on stays so, as long as rows and what the broker has do.
LEMMA SoundStays ==
  ASSUME NEW x \in Worker, Sound(x),
         \A e \in Events : row[e] # None => row'[e] # None,
         \A e \in Events : InBroker(e) => InBroker(e)'
  PROVE  Sound(x)'
BY DEF Sound, Worker

\* A step keeps the invariant if rows stay, what it marks published is in the
\* broker, and what was in the broker still is.
LEMMA Assemble ==
  ASSUME SafeInv, TypeOK', OneEffect',
         \A e \in Events : row[e] # None => row'[e] # None,
         \A e \in Events : InBroker(e) => InBroker(e)',
         \A e \in Events : InBroker(e)' => InBroker(e) \/ row'[e] # None,
         \A e \in Events : row'[e] # None /\ row'[e].published =>
           (row[e] # None /\ row[e].published) \/ InBroker(e)',
         \A w \in Workers : \E x \in Worker : worker'[w] = x /\ (Sound(x) \/ Sound(x)')
  PROVE  SafeInv'
<1>1. \A e \in Events : row[e] # None /\ row[e].published => InBroker(e)
  BY DEF SafeInv, NothingLost, InBroker
<1>2. NothingLost'
  <2>1. \A e \in Events : row'[e] # None /\ row'[e].published => InBroker(e)'
    BY <1>1
  <2> QED BY <2>1 DEF NothingLost, InBroker
<1>3. WorkersAreSound'
  <2> SUFFICES ASSUME NEW w \in Workers PROVE Sound(worker[w])'
    BY DEF WorkersAreSound
  <2>1. PICK x \in Worker : worker'[w] = x /\ (Sound(x) \/ Sound(x)')
    OBVIOUS
  <2>2. Sound(x)'
    BY <2>1, SoundStays
  <2> QED BY <2>1, <2>2 DEF Sound
<1>4. OnlyEnqueued'
  BY DEF SafeInv, OnlyEnqueued
<1> QED BY <1>2, <1>3, <1>4 DEF SafeInv

\* Typing, with one name for the parts.
LEMMA Types ==
  ASSUME SafeInv
  PROVE  /\ row \in [Events -> Row \cup {None}]
         /\ worker \in [Workers -> Worker]
         /\ queue \in [Messages -> 0..MaxCopies]
         /\ processed \in SUBSET Events /\ dead \in SUBSET Events
         /\ effects \in [Events -> Nat]
         /\ \A w \in Workers : Sound(worker[w])
BY DEF SafeInv, TypeOK, Worker, WorkersAreSound

\* A step of the table and the workers, which leaves the broker as it is.
LEMMA TableStep ==
  ASSUME SafeInv,
         UNCHANGED <<queue, consumerVars, effectVars, dead>>,
         row' \in [Events -> Row \cup {None}],
         worker' \in [Workers -> Worker],
         \A e \in Events : row[e] # None => row'[e] # None,
         \A e \in Events : row'[e] # None /\ row'[e].published =>
           (row[e] # None /\ row[e].published) \/ InBroker(e),
         \A w \in Workers : Sound(worker'[w])
  PROVE  SafeInv'
<1>1. TypeOK' /\ OneEffect'
  BY DEF SafeInv, TypeOK, OneEffect, Worker, consumerVars, effectVars
<1>2. \A e \in Events : InBroker(e)' <=> InBroker(e)
  BY DEF InBroker, effectVars
<1>3. \A w \in Workers : \E x \in Worker : worker'[w] = x /\ Sound(x)
  OBVIOUS
<1> QED BY <1>1, <1>2, <1>3, Assemble

\* Of one row alone.
LEMMA RowStep ==
  ASSUME SafeInv, NEW e \in Events, NEW new \in Row,
         row' = [row EXCEPT ![e] = new],
         UNCHANGED <<queue, consumerVars, effectVars, dead>>,
         new.published => (row[e] # None /\ row[e].published) \/ InBroker(e),
         worker' \in [Workers -> Worker],
         \A w \in Workers : Sound(worker'[w])
  PROVE  SafeInv'
<1>1. new # None
  BY RowAssumption DEF RowAssumption
<1>2. /\ row' \in [Events -> Row \cup {None}]
      /\ row'[e] = new
      /\ \A f \in Events \ {e} : row'[f] = row[f]
  BY Types
<1> QED BY <1>1, <1>2, TableStep

LEMMA EnqueueStep ==
  ASSUME SafeInv, NEW e \in Events, Enqueue(e)
  PROVE  SafeInv'
<1> DEFINE new == [published |-> FALSE, lockedBy |-> None, leased |-> FALSE, waiting |-> FALSE]
<1>1. new \in Row /\ ~new.published
  BY DEF Row
<1>2. row' = [row EXCEPT ![e] = new] /\ worker' = worker
      /\ UNCHANGED <<queue, consumerVars, effectVars, dead>>
  BY DEF Enqueue
<1> HIDE DEF new
<1> QED BY <1>1, <1>2, Types, RowStep

LEMMA LeaseExpiresStep ==
  ASSUME SafeInv, NEW e \in Events, LeaseExpires(e)
  PROVE  SafeInv'
<1>1. row[e] \in Row /\ row[e] # None
  BY Types DEF LeaseExpires
<1>2. PICK new : new = [row[e] EXCEPT !.leased = FALSE]
  OBVIOUS
<1>3. new \in Row /\ new.published = row[e].published
  BY <1>1, <1>2 DEF Row
<1>4. row' = [row EXCEPT ![e] = new] /\ worker' = worker
      /\ UNCHANGED <<queue, consumerVars, effectVars, dead>>
  BY <1>2, Types DEF LeaseExpires
<1> QED BY <1>1, <1>3, <1>4, Types, RowStep

LEMMA BackoffEndsStep ==
  ASSUME SafeInv, NEW e \in Events, BackoffEnds(e)
  PROVE  SafeInv'
<1>1. row[e] \in Row /\ row[e] # None
  BY Types DEF BackoffEnds
<1>2. PICK new : new = [row[e] EXCEPT !.waiting = FALSE]
  OBVIOUS
<1>3. new \in Row /\ new.published = row[e].published
  BY <1>1, <1>2 DEF Row
<1>4. row' = [row EXCEPT ![e] = new] /\ worker' = worker
      /\ UNCHANGED <<queue, consumerVars, effectVars, dead>>
  BY <1>2, Types DEF BackoffEnds
<1> QED BY <1>1, <1>3, <1>4, Types, RowStep

LEMMA ClaimPendingStep ==
  ASSUME SafeInv, NEW w \in Workers, NEW B \in SUBSET Events, ClaimPending(w, B)
  PROVE  SafeInv'
<1>1. \A e \in B : row[e] \in Row /\ row[e] # None /\ ~row[e].published
  BY Types DEF ClaimPending, Claimable
<1>2. row' = [e \in Events |->
         IF e \in B THEN [row[e] EXCEPT !.lockedBy = w, !.leased = TRUE] ELSE row[e]]
  BY DEF ClaimPending
<1>3. ASSUME NEW e \in B
      PROVE  row'[e] \in Row /\ row'[e].published = row[e].published
  BY <1>1, <1>2 DEF Row
<1>4. \A e \in Events \ B : row'[e] = row[e]
  BY <1>2
<1>5. row' \in [Events -> Row \cup {None}]
  BY <1>2, <1>3, <1>4, Types
<1>6. \A e \in Events : row[e] # None => row'[e] # None
  BY <1>3, <1>4, RowAssumption DEF RowAssumption
<1>7. \A e \in Events : row'[e] # None /\ row'[e].published => row[e] # None /\ row[e].published
  BY <1>1, <1>3, <1>4
<1>8. PICK new : /\ new = [step |-> "publish", event |-> None, todo |-> B]
                 /\ worker' = [worker EXCEPT ![w] = new]
  BY DEF ClaimPending
<1>9. new \in Worker /\ Sound(new)
  BY <1>1, <1>8 DEF Worker, Sound
<1>10. worker' \in [Workers -> Worker] /\ \A v \in Workers : Sound(worker'[v])
  BY <1>8, <1>9, Types
<1>11. UNCHANGED <<queue, consumerVars, effectVars, dead>>
  BY DEF ClaimPending
<1> QED BY <1>5, <1>6, <1>7, <1>10, <1>11, TableStep
------------------------------------------------------------------------------
\* The worker, once it has its batch.

\* NextEvent leaves a worker that is still about enqueued events.
LEMMA NextEventSound ==
  ASSUME SafeInv, NEW w \in Workers, NextEvent(w)
  PROVE  /\ worker' \in [Workers -> Worker]
         /\ \A v \in Workers : Sound(worker'[v])
<1>1. worker[w] \in Worker /\ Sound(worker[w])
  BY Types
<1>2. PICK new : /\ new = IF worker[w].todo = {} THEN Idle
                          ELSE [worker[w] EXCEPT !.step = "publish", !.event = None]
                 /\ worker' = [worker EXCEPT ![w] = new]
  BY Types DEF NextEvent
<1>3. new \in Worker /\ new.step \in {"idle", "publish"} /\ new.todo \in SUBSET worker[w].todo
  BY <1>1, <1>2 DEF Worker, Idle
<1>4. Sound(new)
  BY <1>1, <1>3 DEF Sound
<1> QED BY <1>2, <1>3, <1>4, Types

LEMMA MarkPublishedStep ==
  ASSUME SafeInv, NEW w \in Workers, MarkPublished(w)
  PROVE  SafeInv'
<1>1. worker[w].step = "mark" /\ Sound(worker[w])
  BY Types DEF MarkPublished
<1>2. PICK e \in Events : e = worker[w].event /\ row[e] # None /\ InBroker(e)
  BY <1>1 DEF Sound
<1>3. row[e] \in Row
  BY <1>2, Types
<1>4. /\ worker' \in [Workers -> Worker] /\ \A v \in Workers : Sound(worker'[v])
      /\ UNCHANGED <<queue, consumerVars, effectVars, dead>>
  BY NextEventSound DEF MarkPublished
<1>5. row' = IF Owns(w, e)
             THEN [row EXCEPT ![e].published = TRUE, ![e].lockedBy = None, ![e].leased = FALSE]
             ELSE row
  BY <1>2 DEF MarkPublished
<1>6. CASE Owns(w, e)
  <2>1. PICK new : new = [row[e] EXCEPT !.published = TRUE, !.lockedBy = None, !.leased = FALSE]
    OBVIOUS
  <2>2. new \in Row
    BY <1>3, <2>1 DEF Row
  <2>3. row' = [row EXCEPT ![e] = new]
    BY <1>5, <1>6, <2>1, Types
  <2> QED BY <1>2, <1>4, <2>2, <2>3, RowStep
<1>7. CASE ~Owns(w, e)
  BY <1>4, <1>5, <1>7, Types, TableStep
<1> QED BY <1>6, <1>7

LEMMA RescheduleStep ==
  ASSUME SafeInv, NEW w \in Workers, Reschedule(w)
  PROVE  SafeInv'
<1>1. worker[w].step = "reschedule" /\ Sound(worker[w])
  BY Types DEF Reschedule
<1>2. PICK e \in Events : e = worker[w].event /\ row[e] # None
  BY <1>1 DEF Sound
<1>3. row[e] \in Row
  BY <1>2, Types
<1>4. /\ worker' \in [Workers -> Worker] /\ \A v \in Workers : Sound(worker'[v])
      /\ UNCHANGED <<queue, consumerVars, effectVars, dead>>
  BY NextEventSound DEF Reschedule
<1>5. row' = IF Owns(w, e)
             THEN [row EXCEPT ![e].waiting = TRUE, ![e].lockedBy = None, ![e].leased = FALSE]
             ELSE row
  BY <1>2 DEF Reschedule
<1>6. CASE Owns(w, e)
  <2>1. PICK new : new = [row[e] EXCEPT !.waiting = TRUE, !.lockedBy = None, !.leased = FALSE]
    OBVIOUS
  <2>2. new \in Row /\ new.published = row[e].published
    BY <1>3, <2>1 DEF Row
  <2>3. row' = [row EXCEPT ![e] = new]
    BY <1>5, <1>6, <2>1, Types
  <2> QED BY <1>2, <1>4, <2>2, <2>3, RowStep
<1>7. CASE ~Owns(w, e)
  BY <1>4, <1>5, <1>7, Types, TableStep
<1> QED BY <1>6, <1>7

LEMMA MarkFailsStep ==
  ASSUME SafeInv, NEW w \in Workers, MarkFails(w)
  PROVE  SafeInv'
<1>1. worker[w] \in Worker /\ Sound(worker[w]) /\ worker[w].step = "mark"
  BY Types DEF MarkFails
<1>2. PICK new : /\ new = [step |-> "reschedule", event |-> worker[w].event,
                           todo |-> worker[w].todo \ {worker[w].event}]
                 /\ worker' = [worker EXCEPT ![w] = new]
  BY Types DEF MarkFails, SetWorker
<1>3. new \in Worker /\ Sound(new)
  BY <1>1, <1>2 DEF Worker, Sound
<1>4. worker' \in [Workers -> Worker] /\ \A v \in Workers : Sound(worker'[v])
  BY <1>2, <1>3, Types
<1>5. UNCHANGED <<queue, consumerVars, effectVars, dead>> /\ row' = row
  BY DEF MarkFails
<1> QED BY <1>4, <1>5, Types, TableStep

LEMMA AbandonStep ==
  ASSUME SafeInv, NEW w \in Workers, Abandon(w)
  PROVE  SafeInv'
<1>1. Idle \in Worker /\ Sound(Idle)
  BY DEF Idle, Worker, Sound
<1>2. worker' \in [Workers -> Worker] /\ \A v \in Workers : Sound(worker'[v])
  <2> HIDE DEF Idle
  <2> QED BY <1>1, Types DEF Abandon
<1>3. UNCHANGED <<queue, consumerVars, effectVars, dead>> /\ row' = row
  BY DEF Abandon
<1> QED BY <1>2, <1>3, Types, TableStep

\* One more copy in the queue, or none.
LEMMA SendAdds ==
  ASSUME SafeInv, NEW e \in Events, Send(e) \/ queue' = queue,
         UNCHANGED <<consumerVars, effectVars, dead>>
  PROVE  /\ queue' \in [Messages -> 0..MaxCopies]
         /\ \A m \in Messages : queue[m] > 0 => queue'[m] > 0
         /\ \A f \in Events \ {e} : InBroker(f)' <=> InBroker(f)
         /\ InBroker(e) => InBroker(e)'
         /\ Send(e) => InBroker(e)'
<1>1. <<e, 0>> \in Messages /\ 0 \in 0..RetryLimit
  BY OutboxAssumption DEF OutboxAssumption, Messages
<1>2. CASE Send(e)
  <2>1. PICK n \in 0..MaxCopies : n = queue[<<e, 0>>]
    BY <1>1, Types
  <2>2. n < MaxCopies /\ queue' = [queue EXCEPT ![<<e, 0>>] = n + 1]
    BY <1>2, <2>1 DEF Send
  <2>3. n + 1 \in 0..MaxCopies /\ n + 1 > 0
    BY <2>1, <2>2, OutboxAssumption DEF OutboxAssumption
  <2>4. queue' \in [Messages -> 0..MaxCopies] /\ queue'[<<e, 0>>] = n + 1
    BY <1>1, <2>2, <2>3, Types
  <2>5. \A m \in Messages : m # <<e, 0>> => queue'[m] = queue[m]
    BY <2>2, Types
  <2>6. \A m \in Messages : queue[m] > 0 => queue'[m] > 0
    BY <2>3, <2>4, <2>5
  <2>7. InBroker(e)'
    BY <1>1, <2>3, <2>4 DEF InBroker
  <2>8. \A f \in Events \ {e} : InBroker(f)' <=> InBroker(f)
    BY <2>5 DEF InBroker, Messages, effectVars
  <2> QED BY <2>4, <2>6, <2>7, <2>8
<1>3. CASE queue' = queue
  <2>1. \A f \in Events : InBroker(f)' <=> InBroker(f)
    BY <1>3 DEF InBroker, effectVars
  <2>2. Send(e) => FALSE
    <3>1. queue[<<e, 0>>] \in 0..MaxCopies
      BY <1>1, Types
    <3> QED BY <1>1, <1>3, <3>1, Types DEF Send
  <2> QED BY <1>3, <2>1, <2>2, Types
<1> QED BY <1>2, <1>3

LEMMA PublishStep ==
  ASSUME SafeInv, NEW w \in Workers, NEW e \in Events,
         PublishConfirmed(w, e) \/ PublishFails(w, e)
  PROVE  SafeInv'
<1>1. /\ e \in worker[w].todo /\ row' = row
      /\ Send(e) \/ queue' = queue
      /\ UNCHANGED <<consumerVars, effectVars, dead>>
  BY DEF PublishConfirmed, PublishFails
<1>2. worker[w] \in Worker /\ Sound(worker[w])
  BY Types
<1>3. PICK new : /\ new.step = "mark" => Send(e)
                 /\ \/ new = [step |-> "mark", event |-> e, todo |-> worker[w].todo \ {e}]
                    \/ new = [step |-> "reschedule", event |-> e, todo |-> worker[w].todo \ {e}]
                 /\ worker' = [worker EXCEPT ![w] = new]
  <2>1. CASE PublishConfirmed(w, e)
    BY <2>1, Types DEF PublishConfirmed, SetWorker
  <2>2. CASE PublishFails(w, e)
    BY <2>2, Types DEF PublishFails, SetWorker
  <2> QED BY <2>1, <2>2
<1>4. new \in Worker /\ new.event = e /\ new.todo \in SUBSET worker[w].todo
  BY <1>2, <1>3 DEF Worker
<1>5. row[e] # None
  BY <1>1, <1>2 DEF Sound
<1>6. Sound(new)'
  <2>1. new.step = "mark" => InBroker(e)'
    BY <1>1, <1>3, SendAdds
  <2> QED BY <1>1, <1>2, <1>4, <1>5, <2>1 DEF Sound
<1>7. \A v \in Workers : \E x \in Worker : worker'[v] = x /\ (Sound(x) \/ Sound(x)')
  <2> SUFFICES ASSUME NEW v \in Workers
               PROVE  \E x \in Worker : worker'[v] = x /\ (Sound(x) \/ Sound(x)')
    OBVIOUS
  <2>1. CASE v = w
    <3>1. worker'[v] = new
      BY <1>3, <2>1, Types
    <3> QED BY <1>4, <1>6, <3>1
  <2>2. CASE v # w
    <3>1. PICK x \in Worker : x = worker[v] /\ Sound(x)
      BY Types
    <3>2. worker'[v] = x
      BY <1>3, <2>2, <3>1
    <3> QED BY <3>1, <3>2
  <2> QED BY <2>1, <2>2
<1>8. TypeOK' /\ OneEffect'
  <2>1. worker' \in [Workers -> Worker]
    BY <1>3, <1>4, Types
  <2>2. queue' \in [Messages -> 0..MaxCopies] /\ \A m \in Messages : queue[m] > 0 => queue'[m] > 0
    BY <1>1, SendAdds
  <2>3. consumer' = consumer /\ held' = held /\ processed' = processed /\ effects' = effects
        /\ dead' = dead
    BY <1>1 DEF consumerVars, effectVars
  <2>4. held' \in SUBSET {m \in Messages : queue'[m] > 0}
    BY <2>2, <2>3 DEF SafeInv, TypeOK
  <2>5. TypeOK'
    BY <1>1, <2>1, <2>2, <2>3, <2>4 DEF SafeInv, TypeOK, Worker
  <2>6. OneEffect'
    BY <2>3 DEF SafeInv, OneEffect
  <2> QED BY <2>5, <2>6
<1>9. /\ \A f \in Events : InBroker(f) => InBroker(f)'
      /\ \A f \in Events : InBroker(f)' => InBroker(f) \/ row'[f] # None
  BY <1>1, <1>5, SendAdds
<1> QED BY <1>1, <1>7, <1>8, <1>9, Assemble
------------------------------------------------------------------------------
\* The consumer.

\* What it does with one event, which it has from the queue.
LEMMA ConsumerStep ==
  ASSUME SafeInv, NEW e \in Events, InBroker(e), InBroker(e)',
         UNCHANGED <<row, worker>>,
         queue' \in [Messages -> 0..MaxCopies],
         consumer' \in {"down", "subscribed", "ready"},
         held' \in SUBSET {m \in Messages : queue'[m] > 0},
         \A f \in Events \ {e} : \A r \in 0..RetryLimit : queue'[<<f, r>>] = queue[<<f, r>>],
         \/ processed' = processed /\ effects' = effects
         \/ e \notin processed /\ processed' = processed \cup {e}
            /\ effects' = [effects EXCEPT ![e] = @ + 1],
         dead' = dead \/ dead' = dead \cup {e}
  PROVE  SafeInv'
<1>1. OneEffect'
  BY Types DEF SafeInv, OneEffect
<1>2. processed' \in SUBSET Events /\ effects' \in [Events -> Nat] /\ dead' \in SUBSET Events
  BY Types
<1>3. TypeOK'
  BY <1>2 DEF SafeInv, TypeOK
<1>4. \A f \in Events \ {e} : InBroker(f)' <=> InBroker(f)
  BY DEF InBroker
<1>5. row[e] # None
  BY DEF SafeInv, OnlyEnqueued
<1>6. \A w \in Workers : \E x \in Worker : worker'[w] = x /\ (Sound(x) \/ Sound(x)')
  BY Types
<1> QED BY <1>1, <1>3, <1>4, <1>5, <1>6, Assemble
\* Connecting, disconnecting, and a delivery that is dropped.
LEMMA LinkStep ==
  ASSUME SafeInv, UNCHANGED <<row, worker, queue, effectVars, dead>>,
         consumer' \in {"down", "subscribed", "ready"},
         held' \in SUBSET {m \in Messages : queue[m] > 0}
  PROVE  SafeInv'
<1>1. TypeOK' /\ OneEffect'
  BY DEF SafeInv, TypeOK, OneEffect, effectVars
<1>2. \A e \in Events : InBroker(e)' <=> InBroker(e)
  BY DEF InBroker, effectVars
<1>3. \A w \in Workers : \E x \in Worker : worker'[w] = x /\ (Sound(x) \/ Sound(x)')
  BY Types
<1> QED BY <1>1, <1>2, <1>3, Assemble

LEMMA ConnectionStep ==
  ASSUME SafeInv, Subscribe \/ ChannelAssigned \/ ConnectionLost
  PROVE  SafeInv'
<1>1. /\ UNCHANGED <<row, worker, queue, effectVars, dead>>
      /\ consumer' \in {"down", "subscribed", "ready"}
      /\ held' = held \/ held' = {}
  BY DEF Subscribe, ChannelAssigned, ConnectionLost, Disconnect
<1>2. held \in SUBSET {m \in Messages : queue[m] > 0}
  BY DEF SafeInv, TypeOK
<1> QED BY <1>1, <1>2, LinkStep

\* What the broker delivers is in the queue, once more than it is held.
LEMMA Delivered ==
  ASSUME SafeInv, NEW e \in Events, NEW r \in 0..RetryLimit, Deliverable(e, r)
  PROVE  /\ <<e, r>> \in Messages
         /\ queue[<<e, r>>] \in 0..MaxCopies /\ queue[<<e, r>>] > 0
         /\ <<e, r>> \in held => queue[<<e, r>>] > 1
         /\ held \in SUBSET {m \in Messages : queue[m] > 0}
         /\ InBroker(e)
<1>1. <<e, r>> \in Messages
  BY DEF Messages
<1>2. queue[<<e, r>>] \in 0..MaxCopies
  BY <1>1, Types
<1>3. queue[<<e, r>>] > (IF <<e, r>> \in held THEN 1 ELSE 0)
  BY DEF Deliverable
<1>4. queue[<<e, r>>] > 0 /\ (<<e, r>> \in held => queue[<<e, r>>] > 1)
  BY <1>2, <1>3, OutboxAssumption DEF OutboxAssumption
<1>5. InBroker(e)
  BY <1>4 DEF InBroker
<1>6. held \in SUBSET {m \in Messages : queue[m] > 0}
  BY DEF SafeInv, TypeOK
<1> QED BY <1>1, <1>2, <1>4, <1>5, <1>6

LEMMA DropStep ==
  ASSUME SafeInv, NEW e \in Events, NEW r \in 0..RetryLimit, DropEarlyDelivery(e, r)
  PROVE  SafeInv'
<1>1. /\ Deliverable(e, r) /\ held' = held \cup {<<e, r>>}
      /\ UNCHANGED <<row, worker, queue, effectVars, dead>> /\ consumer' = consumer
  BY DEF DropEarlyDelivery
<1>2. held' \in SUBSET {m \in Messages : queue[m] > 0}
  BY <1>1, Delivered
<1>3. consumer' \in {"down", "subscribed", "ready"}
  BY <1>1 DEF SafeInv, TypeOK
<1> QED BY <1>1, <1>2, <1>3, LinkStep

\* An acknowledgement takes the one copy that was delivered.
LEMMA AckTakesOne ==
  ASSUME SafeInv, NEW e \in Events, NEW r \in 0..RetryLimit, Deliverable(e, r), Ack(e, r)
  PROVE  /\ queue' \in [Messages -> 0..MaxCopies]
         /\ held \in SUBSET {m \in Messages : queue'[m] > 0}
         /\ \A f \in Events \ {e} : \A q \in 0..RetryLimit : queue'[<<f, q>>] = queue[<<f, q>>]
<1>1. PICK n \in 0..MaxCopies : n = queue[<<e, r>>]
  BY Delivered
<1>2. n > 0 /\ (<<e, r>> \in held => n > 1) /\ <<e, r>> \in Messages
  BY <1>1, Delivered
<1>3. queue' = [queue EXCEPT ![<<e, r>>] = n - 1]
  BY <1>1 DEF Ack
<1>4. n - 1 \in 0..MaxCopies /\ (<<e, r>> \in held => n - 1 > 0)
  BY <1>2, OutboxAssumption DEF OutboxAssumption
<1>5. /\ queue' \in [Messages -> 0..MaxCopies] /\ queue'[<<e, r>>] = n - 1
      /\ \A m \in Messages : m # <<e, r>> => queue'[m] = queue[m]
  BY <1>2, <1>3, <1>4, Types
<1>6. held \in SUBSET {m \in Messages : queue'[m] > 0}
  BY <1>4, <1>5, Delivered
<1>7. \A f \in Events \ {e} : \A q \in 0..RetryLimit :
        <<f, q>> \in Messages /\ <<f, q>> # <<e, r>>
  BY DEF Messages
<1> QED BY <1>5, <1>6, <1>7

LEMMA AppliedOnceStep ==
  ASSUME SafeInv, NEW e \in Events, ApplyOnce(e)
  PROVE  /\ \/ processed' = processed /\ effects' = effects
            \/ e \notin processed /\ processed' = processed \cup {e}
               /\ effects' = [effects EXCEPT ![e] = @ + 1]
         /\ e \in processed'
BY DEF ApplyOnce, FirstDelivery

LEMMA HandleStep ==
  ASSUME SafeInv, NEW e \in Events, NEW r \in 0..RetryLimit,
         HandleOk(e, r) \/ HandleUnacked(e, r)
  PROVE  SafeInv'
<1>1. /\ Deliverable(e, r) /\ ApplyOnce(e)
      /\ UNCHANGED <<row, worker>> /\ dead' = dead
  BY DEF HandleOk, HandleUnacked, Take
<1>2. InBroker(e)'
  BY <1>1, AppliedOnceStep DEF InBroker
<1>3. CASE HandleOk(e, r)
  <2>1. Ack(e, r) /\ consumer' = consumer /\ held' = held
    BY <1>3 DEF HandleOk, consumerVars
  <2>2. consumer' \in {"down", "subscribed", "ready"}
    BY <2>1 DEF SafeInv, TypeOK
  <2> QED BY <1>1, <1>2, <2>1, <2>2, Delivered, AckTakesOne, AppliedOnceStep, ConsumerStep
<1>4. CASE HandleUnacked(e, r)
  <2>1. consumer' = "down" /\ held' = {} /\ queue' = queue
    BY <1>4 DEF HandleUnacked, Disconnect
  <2>2. queue' \in [Messages -> 0..MaxCopies]
    BY <2>1, Types
  <2> QED BY <1>1, <1>2, <2>1, <2>2, Delivered, AppliedOnceStep, ConsumerStep
<1> QED BY <1>3, <1>4

\* A copy with one retry more, before the old one is acknowledged.
LEMMA RetryStep ==
  ASSUME SafeInv, NEW e \in Events, NEW r \in 0..RetryLimit,
         Retry(e, r) \/ RetryUnacked(e, r)
  PROVE  SafeInv'
<1>1. /\ Deliverable(e, r) /\ r < RetryLimit /\ queue[<<e, r + 1>>] < MaxCopies
      /\ UNCHANGED <<row, worker>> /\ processed' = processed /\ effects' = effects /\ dead' = dead
  BY DEF Retry, RetryUnacked, SendRetry, Take, effectVars
<1>2. /\ r + 1 \in 0..RetryLimit /\ r + 1 # r
      /\ <<e, r + 1>> \in Messages /\ <<e, r>> \in Messages
  BY <1>1, OutboxAssumption DEF OutboxAssumption, Messages
<1>3. PICK n \in 0..MaxCopies, c \in 0..MaxCopies :
        n = queue[<<e, r>>] /\ c = queue[<<e, r + 1>>]
  BY <1>2, Types
<1>4. n > 0 /\ (<<e, r>> \in held => n > 1) /\ c < MaxCopies
  BY <1>1, <1>3, Delivered
<1>5. /\ n - 1 \in 0..MaxCopies /\ (<<e, r>> \in held => n - 1 > 0)
      /\ c + 1 \in 0..MaxCopies /\ c + 1 > 0
  BY <1>4, OutboxAssumption DEF OutboxAssumption
<1>6. PICK k \in {n, n - 1} :
        /\ queue' \in [Messages -> 0..MaxCopies]
        /\ queue'[<<e, r + 1>>] = c + 1 /\ queue'[<<e, r>>] = k
        /\ \A m \in Messages : m # <<e, r>> /\ m # <<e, r + 1>> => queue'[m] = queue[m]
        /\ \/ k = n /\ held' = {} /\ consumer' = "down"
           \/ k = n - 1 /\ held' = held /\ consumer' = consumer
  <2>1. CASE Retry(e, r)
    <3>1. queue' = [queue EXCEPT ![<<e, r + 1>>] = c + 1, ![<<e, r>>] = n - 1]
      BY <1>2, <1>3, <2>1, Types DEF Retry
    <3>2. /\ queue' \in [Messages -> 0..MaxCopies]
          /\ queue'[<<e, r + 1>>] = c + 1 /\ queue'[<<e, r>>] = n - 1
          /\ \A m \in Messages : m # <<e, r>> /\ m # <<e, r + 1>> => queue'[m] = queue[m]
      BY <1>2, <1>5, <3>1, Types
    <3> QED BY <2>1, <3>2 DEF Retry, consumerVars
  <2>2. CASE RetryUnacked(e, r)
    <3>1. queue' = [queue EXCEPT ![<<e, r + 1>>] = c + 1]
      BY <1>3, <2>2 DEF RetryUnacked
    <3>2. <<e, r>> # <<e, r + 1>>
      BY <1>2
    <3>3. /\ queue' \in [Messages -> 0..MaxCopies]
          /\ queue'[<<e, r + 1>>] = c + 1 /\ queue'[<<e, r>>] = n
          /\ \A m \in Messages : m # <<e, r + 1>> => queue'[m] = queue[m]
      BY <1>2, <1>3, <1>5, <3>1, <3>2, Types
    <3> QED BY <2>2, <3>3 DEF RetryUnacked, Disconnect
  <2> QED BY <2>1, <2>2
<1>9. held' \in SUBSET {m \in Messages : queue'[m] > 0}
  <2>1. CASE k = n - 1 /\ held' = held
    <3>1. \A m \in Messages : m \in held => queue[m] > 0
      BY <1>1, Delivered
    <3>2. ASSUME NEW m \in held PROVE m \in Messages /\ queue'[m] > 0
      <4>1. m \in Messages
        BY <1>1, Delivered
      <4>2. CASE m = <<e, r>>
        <5>1. n - 1 > 0
          BY <1>5, <4>2
        <5>2. queue'[<<e, r>>] = n - 1
          BY <1>6, <2>1
        <5>3. queue'[m] = queue'[<<e, r>>]
          BY <4>2
        <5> QED BY <4>1, <5>1, <5>2, <5>3
      <4>3. CASE m = <<e, r + 1>>
        <5>1. queue'[m] = queue'[<<e, r + 1>>]
          BY <4>3
        <5> QED BY <1>5, <1>6, <4>1, <5>1
      <4>4. CASE m # <<e, r>> /\ m # <<e, r + 1>>
        BY <1>6, <3>1, <4>1, <4>4
      <4> QED BY <4>2, <4>3, <4>4
    <3> QED BY <2>1, <3>2
  <2>2. CASE held' = {}
    BY <2>2
  <2> QED BY <1>6, <2>1, <2>2
<1>10. InBroker(e)'
  BY <1>2, <1>5, <1>6 DEF InBroker
<1>11. \A f \in Events \ {e} : \A q \in 0..RetryLimit : queue'[<<f, q>>] = queue[<<f, q>>]
  BY <1>6 DEF Messages
<1>12. consumer' \in {"down", "subscribed", "ready"}
  BY <1>6 DEF SafeInv, TypeOK
<1> QED BY <1>1, <1>6, <1>9, <1>10, <1>11, <1>12, Delivered, ConsumerStep

LEMMA DeadLetterStep ==
  ASSUME SafeInv, NEW e \in Events, NEW r \in 0..RetryLimit, DeadLetter(e, r)
  PROVE  SafeInv'
<1>1. /\ Deliverable(e, r) /\ Ack(e, r) /\ dead' = dead \cup {e}
      /\ UNCHANGED <<row, worker>> /\ processed' = processed /\ effects' = effects
      /\ consumer' = consumer /\ held' = held
  BY DEF DeadLetter, Take, consumerVars, effectVars
<1>2. InBroker(e)'
  BY <1>1 DEF InBroker
<1>3. consumer' \in {"down", "subscribed", "ready"}
  BY <1>1 DEF SafeInv, TypeOK
<1> QED BY <1>1, <1>2, <1>3, Delivered, AckTakesOne, ConsumerStep
------------------------------------------------------------------------------
LEMMA SafeInit == Init => SafeInv
<1> SUFFICES ASSUME Init PROVE SafeInv
  OBVIOUS
<1>1. Idle \in Worker /\ Sound(Idle)
  BY DEF Idle, Worker, Sound
<1>2. 0 \in 0..MaxCopies
  BY OutboxAssumption DEF OutboxAssumption
<1>3. TypeOK
  <2> HIDE DEF Idle
  <2> QED BY <1>1, <1>2 DEF Init, TypeOK, Worker
<1>4. \A e \in Events : ~InBroker(e)
  <2>a. processed = {} /\ dead = {}
    BY DEF Init
  <2> SUFFICES ASSUME NEW e \in Events, NEW r \in 0..RetryLimit
               PROVE  ~(queue[<<e, r>>] > 0)
    BY <2>a DEF InBroker
  <2>1. <<e, r>> \in Messages
    BY DEF Messages
  <2>2. queue[<<e, r>>] = 0
    BY <2>1 DEF Init
  <2> QED BY <2>2
<1>5. NothingLost /\ OnlyEnqueued /\ OneEffect
  BY <1>4 DEF Init, NothingLost, OnlyEnqueued, OneEffect
<1>6. WorkersAreSound
  <2> HIDE DEF Idle
  <2> QED BY <1>1 DEF Init, WorkersAreSound
<1> QED BY <1>3, <1>5, <1>6 DEF SafeInv

LEMMA SafeInductive == SafeInv /\ [Next]_vars => SafeInv'
<1> SUFFICES ASSUME SafeInv, [Next]_vars PROVE SafeInv'
  OBVIOUS
<1>1. ASSUME NEW e \in Events, Enqueue(e) \/ LeaseExpires(e) \/ BackoffEnds(e)
      PROVE  SafeInv'
  BY <1>1, EnqueueStep, LeaseExpiresStep, BackoffEndsStep
<1>2. ASSUME NEW e \in Events, NEW r \in 0..RetryLimit,
             \/ HandleOk(e, r) \/ Retry(e, r) \/ DeadLetter(e, r)
             \/ HandleUnacked(e, r) \/ RetryUnacked(e, r) \/ DropEarlyDelivery(e, r)
      PROVE  SafeInv'
  BY <1>2, HandleStep, RetryStep, DeadLetterStep, DropStep
<1>3. CASE Subscribe \/ ChannelAssigned \/ ConnectionLost
  BY <1>3, ConnectionStep
<1>4. ASSUME NEW w \in Workers, NEW B \in SUBSET Events, ClaimPending(w, B)
      PROVE  SafeInv'
  BY <1>4, ClaimPendingStep
<1>5. ASSUME NEW w \in Workers, NEW e \in Events, PublishConfirmed(w, e) \/ PublishFails(w, e)
      PROVE  SafeInv'
  BY <1>5, PublishStep
<1>6. ASSUME NEW w \in Workers,
             MarkPublished(w) \/ MarkFails(w) \/ Reschedule(w) \/ Abandon(w)
      PROVE  SafeInv'
  BY <1>6, MarkPublishedStep, MarkFailsStep, RescheduleStep, AbandonStep
<1>7. CASE UNCHANGED vars
  <2>1. UNCHANGED <<row, worker, queue, effectVars, dead>> /\ consumer' = consumer /\ held' = held
    BY <1>7 DEF vars, consumerVars
  <2>2. consumer \in {"down", "subscribed", "ready"} /\ held \in SUBSET {m \in Messages : queue[m] > 0}
    BY DEF SafeInv, TypeOK
  <2> QED BY <2>1, <2>2, LinkStep
<1> QED BY <1>1, <1>2, <1>3, <1>4, <1>5, <1>6, <1>7 DEF Next, Settle

LEMMA SafeInvariant == Spec => []SafeInv
BY SafeInit, SafeInductive, PTL DEF Spec

\* Rows, leases, queues and the consumer stay well-formed.
THEOREM TypeCorrect == Spec => []TypeOK
<1>1. SafeInv => TypeOK
  BY DEF SafeInv
<1> QED BY <1>1, SafeInvariant, PTL

\* Whatever crashes, overruns its lease or is cut, an event that the outbox took
\* off its list is in the queue, was applied or is in the DLQ
\* (outbox.service.ts:77-132 and order-cancelled.consumer.ts:88-117).
THEOREM PublishedIsKept == Spec => []NothingLost
<1>1. SafeInv => NothingLost
  BY DEF SafeInv
<1> QED BY <1>1, SafeInvariant, PTL

\* However often it is published, retried and redelivered, an event has its
\* effect once.
THEOREM EffectHappensOnce == Spec => []AppliedOnce
<1>1. SafeInv => AppliedOnce
  <2> SUFFICES ASSUME SafeInv, NEW e \in Events PROVE effects[e] <= 1
    BY DEF AppliedOnce
  <2>1. effects[e] = IF e \in processed THEN 1 ELSE 0
    BY DEF SafeInv, OneEffect
  <2> QED BY <2>1
<1> QED BY <1>1, SafeInvariant, PTL------------------------------------------------------------------------------
\* The refinement of EventDelivery.

Enqueued == {e \in Events : row[e] # None}

\* A row that is written again is a row.
LEMMA RewrittenStays ==
  ASSUME SafeInv, NEW B \in SUBSET Events,
         \A e \in B : row[e] # None /\ row'[e] \in Row,
         \A e \in Events \ B : row'[e] = row[e]
  PROVE  Enqueued' = Enqueued
BY RowAssumption DEF Enqueued, RowAssumption

LEMMA OneRewritten ==
  ASSUME SafeInv, NEW e \in Events, row[e] # None, row'[e] \in Row,
         \A f \in Events \ {e} : row'[f] = row[f]
  PROVE  Enqueued' = Enqueued
<1>1. {e} \in SUBSET Events
  OBVIOUS
<1> QED BY <1>1, RewrittenStays

\* No step but Enqueue adds a row, and none takes one away.
LEMMA RowsStay ==
  ASSUME SafeInv, [Next]_vars, \A e \in Events : ~Enqueue(e)
  PROVE  Enqueued' = Enqueued
<1>1. ASSUME NEW e \in Events, LeaseExpires(e) \/ BackoffEnds(e)
      PROVE  Enqueued' = Enqueued
  <2>1. row[e] # None /\ row[e] \in Row
    BY <1>1, Types DEF LeaseExpires, BackoffEnds
  <2>2. row' = [row EXCEPT ![e].leased = FALSE] \/ row' = [row EXCEPT ![e].waiting = FALSE]
    BY <1>1 DEF LeaseExpires, BackoffEnds
  <2>3. row'[e] \in Row /\ \A f \in Events \ {e} : row'[f] = row[f]
    BY <2>1, <2>2, Types DEF Row
  <2> QED BY <2>1, <2>3, OneRewritten
<1>2. ASSUME NEW w \in Workers, NEW B \in SUBSET Events, ClaimPending(w, B)
      PROVE  Enqueued' = Enqueued
  <2>1. \A e \in B : row[e] # None /\ row[e] \in Row
    BY <1>2, Types DEF ClaimPending, Claimable
  <2>2. row' = [e \in Events |->
           IF e \in B THEN [row[e] EXCEPT !.lockedBy = w, !.leased = TRUE] ELSE row[e]]
    BY <1>2 DEF ClaimPending
  <2>3. \A e \in B : row'[e] \in Row
    BY <2>1, <2>2 DEF Row
  <2>4. \A e \in Events \ B : row'[e] = row[e]
    BY <2>2
  <2> QED BY <2>1, <2>3, <2>4, RewrittenStays
<1>3. ASSUME NEW w \in Workers, MarkPublished(w) \/ Reschedule(w)
      PROVE  Enqueued' = Enqueued
  <2>1. worker[w].step \in {"mark", "reschedule"} /\ Sound(worker[w])
    BY <1>3, Types DEF MarkPublished, Reschedule
  <2>2. PICK e \in Events : e = worker[w].event /\ row[e] # None /\ row[e] \in Row
    BY <2>1, Types DEF Sound
  <2>3. \/ row' = [row EXCEPT ![e].published = TRUE, ![e].lockedBy = None, ![e].leased = FALSE]
        \/ row' = [row EXCEPT ![e].waiting = TRUE, ![e].lockedBy = None, ![e].leased = FALSE]
        \/ row' = row
    BY <1>3, <2>2 DEF MarkPublished, Reschedule
  <2>4. PICK new : /\ \/ new = [row[e] EXCEPT !.published = TRUE, !.lockedBy = None, !.leased = FALSE]
                      \/ new = [row[e] EXCEPT !.waiting = TRUE, !.lockedBy = None, !.leased = FALSE]
                      \/ new = row[e]
                   /\ row'[e] = new
                   /\ \A f \in Events \ {e} : row'[f] = row[f]
    BY <2>3, Types
  <2>5. new \in Row
    BY <2>2, <2>4 DEF Row
  <2> QED BY <2>2, <2>4, <2>5, OneRewritten
<1>4. CASE row' = row
  BY <1>4 DEF Enqueued
<1> QED
  BY <1>1, <1>2, <1>3, <1>4
  DEF Next, vars, Settle, HandleOk, Retry, DeadLetter, HandleUnacked, RetryUnacked, SendRetry,
      DropEarlyDelivery, Subscribe, ChannelAssigned, ConnectionLost, PublishConfirmed,
      PublishFails, MarkFails, Abandon

\* What takes effect and what is buried was enqueued.
LEMMA EffectsStep ==
  ASSUME SafeInv, [Next]_vars, \A e \in Events : ~Enqueue(e)
  PROVE  \/ processed' = processed /\ dead' = dead
         \/ \E e \in Enqueued \ processed : processed' = processed \cup {e} /\ dead' = dead
         \/ \E e \in Enqueued : dead' = dead \cup {e} /\ processed' = processed
<1>1. ASSUME NEW e \in Events, NEW r \in 0..RetryLimit, HandleOk(e, r) \/ HandleUnacked(e, r)
      PROVE  \/ processed' = processed /\ dead' = dead
             \/ \E f \in Enqueued \ processed : processed' = processed \cup {f} /\ dead' = dead
  <2>1. Deliverable(e, r) /\ ApplyOnce(e) /\ dead' = dead
    BY <1>1 DEF HandleOk, HandleUnacked, Take
  <2>2. e \in Enqueued
    BY <2>1, Delivered DEF SafeInv, OnlyEnqueued, Enqueued
  <2> QED BY <2>1, <2>2, AppliedOnceStep
<1>2. ASSUME NEW e \in Events, NEW r \in 0..RetryLimit, DeadLetter(e, r)
      PROVE  \E f \in Enqueued : dead' = dead \cup {f} /\ processed' = processed
  <2>1. Deliverable(e, r) /\ dead' = dead \cup {e} /\ processed' = processed
    BY <1>2 DEF DeadLetter, Take, effectVars
  <2>2. e \in Enqueued
    BY <2>1, Delivered DEF SafeInv, OnlyEnqueued, Enqueued
  <2> QED BY <2>1, <2>2
<1>3. CASE processed' = processed /\ dead' = dead
  BY <1>3
<1> QED
  BY <1>1, <1>2, <1>3
  DEF Next, vars, effectVars, Settle, LeaseExpires, BackoffEnds, ClaimPending, MarkPublished,
      Reschedule, Retry, RetryUnacked, SendRetry, DropEarlyDelivery, Subscribe,
      ChannelAssigned, ConnectionLost, PublishConfirmed, PublishFails, MarkFails, Abandon

LEMMA DeliveryStep ==
  SafeInv /\ [Next]_vars => [Delivery!Next]_<<Enqueued, processed, dead>>
<1> SUFFICES ASSUME SafeInv, [Next]_vars
             PROVE  Delivery!Next \/ UNCHANGED <<Enqueued, processed, dead>>
  OBVIOUS
<1>1. ASSUME NEW e \in Events, Enqueue(e) PROVE Delivery!Next
  <2>1. row[e] = None /\ row' = [row EXCEPT ![e] =
          [published |-> FALSE, lockedBy |-> None, leased |-> FALSE, waiting |-> FALSE]]
    BY <1>1 DEF Enqueue
  <2>2. row'[e] \in Row /\ \A f \in Events \ {e} : row'[f] = row[f]
    BY <2>1, Types DEF Row
  <2>3. row'[e] # None
    BY <2>2, RowAssumption DEF RowAssumption
  <2>4. {f \in Events : row'[f] # None} = {f \in Events : row[f] # None} \cup {e}
    BY <2>2, <2>3
  <2>5. e \notin {f \in Events : row[f] # None}
    BY <2>1
  <2>6. processed' = processed /\ dead' = dead
    BY <1>1 DEF Enqueue, effectVars
  <2>7. Delivery!Enqueue(e)
    BY <2>4, <2>5, <2>6 DEF Delivery!Enqueue
  <2> QED BY <2>7 DEF Delivery!Next
<1>2. ASSUME \A e \in Events : ~Enqueue(e)
      PROVE  Delivery!Next \/ UNCHANGED <<Enqueued, processed, dead>>
  <2>1. Enqueued' = Enqueued
    BY <1>2, RowsStay
  <2>2. CASE processed' = processed /\ dead' = dead
    BY <2>1, <2>2
  <2>3. ASSUME NEW e \in Enqueued \ processed, processed' = processed \cup {e}, dead' = dead
        PROVE  Delivery!Next
    <3>1. e \in Events
      BY DEF Enqueued
    <3>2. Delivery!Apply(e)
      BY <2>1, <2>3 DEF Delivery!Apply, Enqueued
    <3> QED BY <3>1, <3>2 DEF Delivery!Next
  <2>4. ASSUME NEW e \in Enqueued, dead' = dead \cup {e}, processed' = processed
        PROVE  Delivery!Next
    <3>1. e \in Events
      BY DEF Enqueued
    <3>2. Delivery!Bury(e)
      BY <2>1, <2>4 DEF Delivery!Bury, Enqueued
    <3> QED BY <3>1, <3>2 DEF Delivery!Next
  <2> QED BY <1>2, <2>2, <2>3, <2>4, EffectsStep
<1> QED BY <1>1, <1>2

\* Outbox, broker and consumer implement EventDelivery, but for its liveness: what
\* takes effect was enqueued and does so once, what lies in the DLQ was enqueued.
THEOREM OutboxImplementsDelivery ==
  Spec => Delivery!Init /\ [][Delivery!Next]_<<Enqueued, processed, dead>>
<1>1. Init => Delivery!Init
  BY DEF Init, Delivery!Init
<1> QED BY <1>1, SafeInvariant, DeliveryStep, PTL DEF Spec
==============================================================================

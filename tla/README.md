# Verification of the Tienda Departamental platform

TLA+ specifications of the services under `src/services/` and of those parts of the web
application that have a protocol, checked with TLC and proved with TLAPS. The platform is
eleven NestJS services, each with its own PostgreSQL database, behind a Kong gateway;
services talk by private HTTP calls and by versioned events over RabbitMQ that leave each
database through a transactional outbox. No transaction spans two services, so what makes a
sale, a session or a mail correct is spread over several local transactions, idempotency
keys, versions, leases, time-outs and redelivered events. That is what is modelled here.

To run: `tlc -config MCInventory.cfg MCInventory`, and so on for each configuration;
`tlapm InventoryProofs.tla` for each proof module.

## 1. Inventory of the system

| Part | State | Operations | Talks to | Hard behaviour | What makes it correct |
| --- | --- | --- | --- | --- | --- |
| Inventory (`inventory.service.ts`) | stock rows `on_hand`/`reserved`, reservations with a TTL, operations by idempotency key, processed events, outbox | reserve, commit, release, sweep of expired holds, movements, restock of a cancelled order | called by Orders; consumes `order.cancelled.v1`; emits `inventory.stock.changed.v1` | contention on a row; retries; TTL against commit; redelivery | never oversold; counter = live holds; no unit lost or invented; a hold ends once |
| Orders (`orders.service.ts`, its clients and repository) | orders, lines, idempotency rows, outbox | create (price, reserve, commit, confirm, roll back, resume), cancel (release, stage, ask Logistics, compensate, restore); online and counter orders | calls Catalog, Pricing, Inventory, Logistics; emits `order.*` | remote calls under an advisory lock, cut anywhere; calls that run after their time-out; create against cancel | failed never sells; announced once; compensated only what was accepted |
| Outbox and broker (`outbox.service.ts`, `order-cancelled.consumer.ts`) | rows with a lease and a back-off; durable queue, retry queue, DLQ; channel | claim, publish, mark, reschedule; consume, retry, dead-letter, reconnect | every producer and consumer | replicas, expired leases, lost acknowledgements, crashes | nothing lost, nothing applied twice, everything settled |
| Logistics (`shipments.service.ts`, `shipments.consumer.ts`) | shipments with a version, cancellation tombstones, couriers, outbox | project an order event, cancel for Orders, change status, assign, locate | called by Orders and operators; consumes `order.*` | events late, repeated or out of order; stale boards; cancel against dispatch | an accepted cancellation is never dispatched; no lost update |
| Pricing, coupons (`coupons.service.ts`) | coupon rights AVAILABLE/RESERVED/USED | issue, reserve and settle, reconcile with Orders | called by Orders and CRM; calls Orders | status read over HTTP and used later | a right is used by at most one sale, and follows its order in the end |
| Pricing, promotions (`pricing.service.ts`) | promotions with a window and a status, outbox | quote with `validUntil`; create, edit, delete; timer that moves statuses | called by Orders and the web | instants read before the database is; two UPDATEs; overlapping runs | a page's price holds until it says; nothing expires early |
| Auth, sessions (`auth.service.ts`, its repositories) | users with `auth_version`, refresh-token families | login, refresh, both logouts | the web; every service asks for the account's status | rotation races; reuse detection; row locks | one live token per family; none after a change of status |
| Status check (`auth-status.client.ts` in eight services, `realtime.gateway.ts`) | cache, shared question | look up, ask, poll open sockets | Auth | an answer older than the change it hides | an identity is honoured no longer than 30 s (34 s for a socket) after it ends |
| Auth, onboarding (`onboarding*.ts`) | accounts, challenges by generation, outbox | register, invite, resend, accept, reset, enable/disable, results of mails | Notification | results late, repeated, out of order | one link at most opens an account; a result never goes back |
| Notification | deliveries with lease and attempts, outbox | receive, claim, authorize, send by SMTP, finish, report | Auth, CRM, SMTP | crash after sending; overrun lease | only the current attempt records its outcome, each outcome is reported |
| CRM (`crm.service.ts`, `campaign-outbox.service.ts`) | purchases, ledger, customers, campaigns, recipients, outbox | project orders, create a campaign, flush, apply an outcome | Orders, Auth, Pricing, Notification | eligibility at send time; outcomes out of order; two messages at once | a mail carries a right; the newest outcome wins |
| Analytics (`analytics.service.ts`, `inventory-reconciliation.service.ts`) | sales and stock projections | project, import a paged snapshot | Inventory (pages), events | paging while stock moves; DLQ | the newest revision wins; a complete import misses nothing |
| Realtime (`inventory-stock.consumer.ts`, `realtime.gateway.ts`) | two bounded memories, sockets | consume, broadcast | Socket.IO, the dashboard | eviction, reconnection, late answers | the screen never goes back and becomes right |
| Catalog (`catalog.service.ts`, `cache.service.ts`) | products, metadata version; Redis entries by version | search, detail, edits | Redis | stale versions, outages, restarts | a confirmed edit shows |
| Web application (`src/src`) | cookies, bag, keys and quotes of purchases, dashboard | renew, buy and retry, merge | all | unknown outcomes, leaving a page | no sale is forgotten or repeated |
| API gateway | configuration | routing | all | none of its own | - |

`PROJECT.json` lists each part with its status and the hazards, at the line where they bite,
that the properties below are aimed at.

## 2. Modules

| Module | What it is | Instance | Theorems |
| --- | --- | --- | --- |
| `Inventory` | The Inventory service. One action per transaction. | `MCInventory` | `InventoryProofs` |
| `ShipmentLifecycle` | Abstract: what Orders may rely on about a parcel (waiting, open, dispatched, closed). | | |
| `Shipments` | The Logistics service; implements `ShipmentLifecycle`. | `MCShipments` | `ShipmentsProofs` |
| `Checkout` | Orders, composed with `Inventory` (INSTANCE) and `ShipmentLifecycle`. | `MCCheckout` | `CheckoutProofs` |
| `EventDelivery` | Abstract: an enqueued event is applied once or dead-lettered. | | |
| `Outbox` | Orders' outbox, the broker and Inventory's consumer; implements `EventDelivery`. | `MCOutbox` | `OutboxProofs` |
| `Coupons` | Pricing's coupon rights, and Orders as far as a coupon depends on it. | `MCCoupons` | `PricingProofs` |
| `Promotions` | Scheduled promotions, the timer that moves them, and prices that pages hold. | `MCPromotions` | `PricingProofs` |
| `AccessStatus` | How a service decides that a token still stands for an enabled identity. | `MCAccessStatus` | `CrmProofs` |
| `Sessions` | Refresh tokens, with the requests and cookies of a browser. | `MCSessions` | `AuthProofs` |
| `Onboarding` | Accounts by mail: Auth and Notification. | `MCOnboarding` | `AuthProofs` |
| `Campaigns` | One recipient of a coupon campaign: CRM, Pricing, Notification. | `MCCampaigns` | `CrmProofs` |
| `Purchases` | CRM's purchases and Analytics' sales, projected by concurrent transactions. | `MCPurchases` | `CrmProofs` |
| `StockProjection` | Analytics' stock: events and the paged snapshot. | `MCStockProjection` | `ReadModelProofs` |
| `StockFeed` | Realtime's broadcast and the dashboard that merges it with snapshots. | `MCStockFeed` | `ReadModelProofs` |
| `Catalog` | The catalogue's versioned cache. | `MCCatalog` | `ReadModelProofs` |
| `PurchasePage` | The page on which a customer confirms his bag, with retries. | `MCPurchasePage` | |

`Checkout` composes the concrete `Inventory` with the abstract Logistics: since
`Shipments` implements `ShipmentLifecycle` (proved, and run `shipments`), what `Checkout`
shows about cancellation holds with the real Logistics too. In the same way
it is composed with the abstract `EventDelivery`, which `Outbox` implements: an `order.cancelled.v1`
that was enqueued may be delivered any number of times, and is restocked or dead-lettered. `Checkout` is also the protocol behind the one
step `Create` of `PurchasePage`, and `AccessStatus` says who may hold the socket of `StockFeed`.

Components that share a proof module need distinct names. Hence the specifications of
`AccessStatus`, `Campaigns`, `Coupons`, `Onboarding`, `StockFeed` and `StockProjection` carry a prefix
(`AccessSpec`, `CampaignNext`, `CouponTypeOK`, `OnboardingFairSpec`, `FeedInit`, `ProjectionSpec`),
and the others do not.

### Correspondence with the code

**Inventory.** `rows`, `onHand`, `reserved` are the columns of `inventory_stock`;
`reservation[k]` the row of `inventory_reservations` whose idempotency key is `k`;
`operation[o]` the row of `inventory_reservation_operations`. Each action takes
the whole transaction: `Reserve` first frees what has expired, as `reserve` does
(`releaseExpiredReservations`), then takes the stock and enqueues the events.
`SweepLimit` stands for `LIMIT 100`, and SKIP LOCKED for the free choice of which
expired holds a sweep takes. `TtlElapses` turns `due` on: the only thing time does.
`received` and `announced` are history: what movements added in total and what
the newest stock event says. A replayed call, a refusal before any write and a
read are steps that leave everything unchanged; the replay is written out
(`TransitionReplays`) because callers depend on it.

**Shipments.** `shipment[o]` is the row, with the fields the rules read (status,
version, courier). `tombstone` is `logistics_cancelled_orders`. `view[a][o]` is what
operator `a` saw when the board was last read, so the `version` that comes with a request
may be stale. `accepted` records the orders whose cancellation Logistics
acknowledged to Orders. Order events need no queue: any order event may be
projected at any time, again and again, and in either order.

**Checkout.** `create[o]` and `cancel[o]` are the two requests an order can have in
progress, with the next step (`pc`) and the lines still to do. They run under
different advisory locks, so they interleave freely; `raced` remembers the orders
where that happened, because some promises hold only otherwise. A request may be
cut at any step (`CreateCut`, `CancelCut`): the process dies, the call times out,
the connection is lost. The call it was waiting for then joins `late` and may
still run. The price snapshot and Pricing are one choice: the price is
confirmed, or the order fails with `PRICE_CHANGED`. `dead` is the DLQ of Inventory's consumer: `Bury`
puts an event there whose restock failed as often as the limit allows, and nothing takes it out. Inventory's own steps (TTL,
sweep, other buyers) interleave with all of it.

**Outbox.** `row[e]` is the outbox row: published, lease holder, lease in force,
back-off in force. `worker[w]` is one process in `flush`. `queue[<<e, r>>]` counts the
equal copies of event `e` with retry count `r`, in the queue or the retry queue.
`consumer` goes down -> subscribed -> ready, where *subscribed* is the window of
`start` between `channel.consume` and `this.channel = channel`; a message that
arrives in it is dropped without answer and joins `held`.

**Coupons.** `right[r]` is the row of `pricing_coupon_rights` of a campaign and a customer,
`expired` the rights past `valid_until`. Reconciliation is three steps: `ReconcileList` runs the
query, `ReconcileAsk` fetches an order's status, `ReconcileSettle` acts on that answer, which may
have aged. Orders is here a second time, at another grain: PENDING stands for PENDING and RESERVED,
what Inventory and Logistics answer is a free choice, and what counts is when create and cancel
reserve and settle the right, with which copy of `coupon_code`, and that each call can be cut or
outlive its time-out (`late`). `raced` and `unreleased` are history: orders whose create and cancel
overlapped, and orders whose refused total left a release running.

**Promotions.** A quote takes the time (`AskQuote`) before it reads the table (`ReadQuote`); so does
a run of the timer (`ReconcileStarts`), whose two UPDATEs are two steps (`ExpireRows`,
`ActivateRows`) that hold the rows they changed. `Price` picks the winner as `selectPromotion` does,
`Boundaries` are the instants `quoteMany` cuts `validUntil` at. An edit makes held quotes
`outdated`: nothing tells a page of it, and `orders` prices the sale again (`PRICE_CHANGED`).

**AccessStatus.** `cache` and `pending` are the two maps of `AuthStatusClient`; `since[u][v]` is
history. Time is counted in units; the cache lasts `CacheTtl` from the START of the question. A
caller is an HTTP request or a socket of the gateway, with the claims of its token; sockets ask
again every `PollEvery`.

**Sessions.** `token` is `auth_refresh_tokens` in the order of creation. A refresh first locks the
user (FOR SHARE), then the token (FOR UPDATE), and ends: each is a step, so refreshes, logouts,
logins and `setEmployeeStatus` interleave between them, and a statement waits for the rows it needs.
`jar` holds the cookies of one browser, whose proxy, timer and server actions send the calls.

**Onboarding.** `accountAt[u]` is the account of an address, `challenge[u]` is the sequence of a user's challenges by generation, each with the
state of its outbox row; `jobs` and `results` are the two queues; `delivery` and `report` are
Notification's tables; `worker[w]` is the attempt a worker is at, with the attempt number that fences
it. `accepted` is history: what SMTP took. `Abandon` and lease ends are the crashes.

**Campaigns.** One recipient from the segment to the outcome. `Flush`, `Deliver` and `Publication`
go through the steps of the three timers, each with its failures (`Faults`, bounded): a call timed out
after it took effect, a mail accepted and not recorded, a report published and not marked.
`reportRow` is one row per type of event, rewritten by a later attempt of the same type. `dead` tells
which messages lie in the DLQ of Notification or of CRM without having taken effect: `consumeReliably`
gives a valid message up after five retries (`BuryRequest`, `BuryReport`).

**Purchases.** A transaction of `project` is `Claim` (insert of the event, and the read of ledger or
purchase), `Recalculate` (the SELECT over the customer's purchases) and `Commit`. Several run at
once (prefetch 10), READ COMMITTED. `raced` and `mixed` are history: orders and customers of whom two
messages were handled at once.

**StockProjection.** A stock row is known by its revision. `recon` goes through the pages of
`reconcile`; a page is two queries, and rows may appear between them. `synced` is what a run that
reported itself complete vouches for.

**StockFeed.** `stockRow[b]` is the revision of the row in a branch, `undelivered` the queue; `seen` and `versions` are the two memories of the consumer, evicted in insertion
order; `wire` is what was sent to the socket; `tab` is the view, `request` its last request. A newer
request aborts an older one.

**Catalog.** `redis` gets the commands of the one process in the order they were sent; what it
answers is used later. `service` is what the process keeps: the version in use, whether Redis is
degraded, and which connection the version belongs to. `raced` is history: an older version may be
in use.

**PurchasePage.** `page` has the references of `customer-checkout.tsx` (`checkoutKey`,
`attemptedQuote`, the displayed attempt); `calls[i]` is a request with its answer, which nobody may
wait for any more; `order[k]` is what Orders decided of a key.

## 3. Runs

| Run | Instance | States | Shows |
| --- | --- | --- | --- |
| `inventory` | 2 stock rows, 2 reservations, 2 operation keys, 1 event, quantities to 2, on hand to 3 | 22,823 | counters, announcements, the life of a reservation, and that due holds are freed |
| `shipments` | 1 online and 1 counter order, 2 couriers, 1 administrator, 6 versions, 2 times | 478,336 | the rules of the board and the refinement of `ShipmentLifecycle` |
| `checkout` | 1 order of two lines, the last unit of each, 2 cancellation events | 628,596 | what a failed, sold or cancelled order means in the three services |
| `outbox` | 1 event, 2 workers, 1 retry, prefetch 1, 2 copies | 17,166 | nothing lost, nothing applied twice, the refinement of `EventDelivery`, liveness included |
| `coupons` | 2 orders that name one right, one of them cancellable, 1 late call | 704,042 | a discounted sale holds its right; the right follows the order, liveness included |
| `access_status` | 1 user, 2 requests, 1 socket, cache 2, time-out 1, poll 1, 2 versions, time to 6 | 335,832 | how long an ended identity is still honoured, and why a good one is refused |
| `sessions` | 1 user, 2 calls at once, 3 tokens, 2 changes of status | 322,019 | what refresh, logout and disabling leave of a session |
| `onboarding` | 1 user, 2 workers, 2 attempts, 2 generations, 1 version, 2 faults (1 when the mail was sent again) | 328,405 | links, results and reports of mails; every mail settles |
| `campaigns` | 1 recipient, 2 attempts, 2 faults | 457,911 | the right behind a mail; outcomes agree; every recipient settles |
| `stock_projection` | 2 stock rows, pages of 1, 2 revisions | 303,130 | a complete snapshot is complete; the projection becomes right |
| `stock_feed` | 2 branches, memories of 1, 3 changes, 1 fault | 314,600 | the screen never goes back and becomes right |
| `catalog` | 2 searches, 1 edit, 2 versions | 181,277 | answers show confirmed edits, and catch up |

`PROJECT.json` holds these twelve. Further configurations beside them, for `tlc -config`:

| Configuration | States | Shows |
| --- | --- | --- |
| `MCPromotions.cfg`: 2 promotions, 2 deals, 2 variants, 1 page, 1 run, `Refresh` 2, time to 3, 2 edits | 917,300 | all safety of `Promotions` (proved as well) and `OverIsExpired` under fairness |
| `MCPurchases.cfg`: 2 orders of one customer, 3 messages at once | 11,205 | all safety of `Purchases` (proved as well) |
| `MCPurchasePage.cfg`: 2 prices, 2 units, 2 requests, 2 visits, 3 edits | 373,110 | all safety of `PurchasePage`; with 3 requests 13,902,514 states and no error either |
| `MCOutbox.cfg` with `Events = {e1, e2}`, `RetryLimit = 0`, `Spec`, safety, symmetry | 651,930 | two events in one batch |
| `MCCatalog.cfg` with two edits and three versions, safety | 12.6 million | the same as `catalog` for safety |
| `MCPurchasePageShown.cfg`, `MCOnboardingAccepted.cfg`, `MCOutboxStuck.cfg` | - | three departures of section 5 |

The bounds and why they are enough:

- *Inventory*: two reservations on the same row contend, on different rows show
  that sweeping one does not touch the other. Three units on hand against two
  reservations of up to two units make both success and `OUT_OF_STOCK` possible. Two
  operation keys let one reservation be committed and released, or one
  key be replayed. `MaxOnHand` only bounds what movements add. The theorems
  remove these bounds for the invariants they state.
- *Shipments*: six versions let an order go through assignment, packing,
  reassignment, dispatch and delivery. Orders do not interact except through couriers' positions; a
  counter order is there to show that it never gets a shipment.
- *Checkout*: two lines are the fewest with a partially committed order. Orders
  share only stock, and `OthersTake` and the late calls stand for other buyers. A
  second cancellation event would be the violation of `CompensatedAtMostOnce`, so two are
  enough. Inventory's quantities are one, since `Inventory` has been checked on its own.
- *Outbox*: two workers for a lease that changes hands; one event with one retry for the way
  through retry and DLQ. `MaxCopies` bounds equal copies in the queue: a publication that
  would exceed it is not taken, and two copies suffice for redelivery against retry. The theorems
  hold for any number of events, workers, retries and copies.
- *Coupons*: two orders are the fewest that can be sold with one right; rights share nothing but the
  order, so one is enough. One late call at a time is enough for a settlement to overtake and be
  overtaken. Only one order is cancellable, to keep the liveness check within minutes: the other one
  is the order that takes the right over.
- *AccessStatus*: users share nothing; two requests share a question. The units of time make the
  cache outlive a question and a poll, as 30, 3 and 1 seconds do, and six of them let a version end,
  be cached, be polled and begin again. Tokens end at 3 or not at all (7).
- *Sessions*: two calls are a race, three tokens a login with two rotations or two logins, two
  changes of status a disabling and an enabling. The theorems remove the bounds.
- *Onboarding*: users share nothing. Two generations let a resend overtake a mail, two attempts a
  retry, two workers a lease that was overrun. Two faults spend both attempts: the second one may fail
  for good by the limit, be refused its link, or be abandoned, after which the next claim finds the
  attempts exhausted. Faults and resends share a budget (`Room`): a mail sent again takes one fault of it,
  which leaves one fault beside two generations and keeps the liveness check within a minute.
- *Campaigns*: recipients share nothing. Two attempts are needed for outcomes out of order, two
  faults for a crash of the delivery and one of its report, or for a third attempt. Dead-lettering is no
  fault: any message may end in the DLQ.
- *StockProjection*: one row per page makes rows appear before, at and after the cursor.
- *StockFeed*: memories of one entry are evicted by the other branch; three changes let an event be
  overtaken by two.
- *Catalog*: an edit confirmed while a search is under way and another begins; the theorem has any
  number of both.
- *PurchasePage*: a retry is two requests, a change under it the second visit.
- Deadlock is not checked: the systems legitimately come to rest, when every
  order is settled or a bound is reached.

### Properties

*Inventory.* `ReservedIsHeld`: the counter is the sum of the live holds.
`NeverOversold`: it never exceeds the stock. `StockConserved`: units on hand are what
movements and restocks brought, minus what commits sold. `AnnouncedIsCurrent`: the newest stock
event states the row as it is. `ReservationLifecycle`: a hold leaves RESERVED once, and is sold only
before its TTL. `DueIsFreed`: expired holds are freed in the end. Proved and not in a run:
`InvariantErrorsUnreachable` (the "invariant failed" errors cannot be thrown) and
`OperationExplainsStatus` (a recorded operation agrees with the reservation's state, so retries
cannot tell two stories).

*Shipments.* `AcceptedNeverDispatched`; `NoBlindUpdate` (who changes a shipment has seen
its current version); `ImplementsLifecycle`. Proved and not in a run: `TombstoneClearsBoard`,
`DispatchedHasCourier`.

*Checkout.* `CompensatedNeverDispatched`, `CompensatedAtMostOnce`, `FailedNeverSold`,
`SoldLeavesNoHold`, `DispatchedStaysSold`, `CancelledSaleIsSettled`: the stock of a cancelled sale is
put back, or its event lies in the DLQ. Some are stated only for
orders whose create and cancel never overlapped, as their comments say: departure 2 is why.

*Outbox.* `NothingLost`, `AppliedOnce`, `ImplementsDelivery`.

*Coupons.* `DiscountedSaleHoldsRight`: an order sold at the coupon's price has the right, hence two
never share it. It leaves out orders whose create and cancel overlapped and orders whose refused total
left a release running; departure 5 is the reason for the second. `RightFollowsOrder`: in the end a
cancelled order has given its right back and a sold one has used it, though
Orders' own call is made once and its failure is swallowed.

*Promotions.* `HeldQuoteIsCurrent`: until `validUntil`, and as long as nobody edits, a page shows what
Pricing would charge now. `ExpiredIsOver`: EXPIRED, which is final, is only said of what is over.
`StatusIsAnnounced`: the newest event agrees with the status. `OverIsExpired`: what is over is
expired in the end.

*AccessStatus.* `GrantedWasValid`: a request is granted only to an identity that was enabled within
the cache's lifetime. `OpenSocketWasValid`: a socket outlives it by cache, poll and question.
`RefusedHasCause`: a good identity is refused only when Auth did not answer or while its former
version may be cached.

*Sessions.* `LiveTokenIsOfEnabledVersion`: no session survives a change of status.
`OneLiveTokenPerFamily`: of two refreshes with one token one wins at most.
`EndedFamilyStaysEnded`: a refresh under way does not continue what was ended.

*Onboarding.* `EndedAttemptIsReported`, `OneLinkAtMost`, `AuthNeverGoesBack`, `EveryMailSettles`: Auth
learns what became of every mail, also when all attempts of the limit failed or were lost.

*Campaigns.* `MailCarriesRight`: no mail without its right in Pricing. `ReportsAgree`: when all reports
have arrived CRM shows what Notification recorded last. `EveryRecipientSettles`: a recipient leaves PENDING
for good, unless the request for the mail or the report of its last outcome lies in a DLQ. `MaxFaults` bounds
how many attempts are abandoned; without a bound there would be no end of them (departure 13).

*Purchases.* `CancelledIsNoSale` and `CustomerCountsPurchases`, both for what was not handled at once:
departure 9 is why.

*StockProjection.* `CompleteSyncCoversAll`, `ProjectionNeverGoesBack`, `ProjectionCatchesUp`.

*StockFeed.* `DashboardNeverGoesBack`, `DashboardCatchesUp`.

*Catalog.* `AnswersShowConfirmedEdits`: a confirmed edit shows in every search begun later, unless an
older version was put in use again (departure 8). `AnswersCatchUp`: even then, answers become right
once the edits stop. Proved and not in a run: `StoredIsNew`, an entry under the key of a version is
never older than the version.

*PurchasePage.* `SalesAreKnown`: no sale is forgotten by the browser. `OneBagPerKey`: a key is sent with
one bag. `SoldAsShown`: at the price that was shown. `BagKeepsTheRest`: a sale takes from the bag what
it sold and nothing else.

Every property of a run has in `PROJECT.json` a mutant, a plausible bug of the code (a dropped
guard, a stale value, two writes swapped) under which TLC finds it violated. The
mutated operators stand next to the originals in the modules and nothing uses them.

### Fairness

- *Inventory*: WF of the sweep. `ReservationExpiryService` runs it on an interval
  timer that is rearmed whatever a run's outcome. Nothing else is fair: customers
  and operators owe no step.
- *Checkout*: for each event, WF of its being settled, which is restocked or dead-lettered: the
  liveness of `EventDelivery`. `Outbox` establishes it under `RestartingSpec` only (departure 6); that a restock
  succeeds in the end is not assumed.
- *Coupons*: reconciliation lists by its timer (WF), and strong fairness of asking about an order and
  of settling it: rows not looked at for longest come first (`ORDER BY checked_at`), a failure is
  retried by the next run, and Orders answers now and then. Orders' requests and late calls owe no step.
- *Outbox*, `Spec`: time passes (leases and back-offs end); a flush in progress goes
  on; a row that is claimable again and again is claimed in the end (the oldest
  come first); a publication tried again and again succeeds in the end; the consumer
  reconnects by its timer. Strong fairness is used where a step is enabled only now and then:
  between two reconnections, or while the lease is free.
- *Outbox*, `RestartingSpec`: in addition, somebody in the end restarts a consumer that
  holds messages it never answered. The code does not ensure that (departure 6), so this is an
  assumption about operation and is kept apart.
- *Onboarding*, *Campaigns*: WF of what interval timers do: claims, the steps of each worker's attempt,
  publication, the end of leases and waits, the scrub of expired challenges. Faults are bounded, users owe
  nothing.
- *Onboarding*, consumption: WF of taking a job and of taking a result. Its consumers put back what failed,
  without a limit.
- *Campaigns*, consumption: WF of a message being taken or dead-lettered, one or the other
  (`SettleRequest`, `SettleReport`). Nothing obliges a consumer to succeed.
- *StockProjection*: WF of the reconnection and of the steps of an import, SF of its start, which
  needs the former to have ended. Nothing of the delivery of events; the property assumes that
  imports stop failing.
- *StockFeed*: WF of consumption, of the socket's heartbeat and of what it received, of the
  dashboard's poll and of requests ending. The socket may never connect again: one that Realtime
  refused does not try.
- *Catalog*: WF of the lifetime of entries (EX of Redis) and of the steps of a search.
- *Promotions*: WF of the timer's start, SF of its two statements: its transactions, though each may
  fail, do not always fail.
- *AccessStatus*, *Sessions*, *Purchases*, *PurchasePage*: none, safety only.

Liveness is checked without symmetry; runs with symmetry check safety only.

## 4. Proofs

Eight modules hold theorems; each is for all sets and bounds of its constants, and cites only the
named assumptions of its module, which TLC evaluates in the runs.

**InventoryProofs** (`InventoryAssumption`: finite sets of keys and events, natural bounds, an absent
row that is not a row).

| Theorem | Statement |
| --- | --- |
| `TypeCorrect` | `Spec => []TypeOK`; the counters are natural numbers, which is what the CHECK constraints of the schema ask for |
| `SafeInvariant` | `Spec => []SafeInv`, with `SafeInv` = `TypeOK`, `ReservedIsHeld` and `NeverOversold` |
| `CounterIsHeld`, `NoOverselling` | its two parts |
| `NoInvariantError` | `Spec => []InvariantErrorsUnreachable` |
| `HoldsEndOnce` | `Spec => ReservationLifecycle` |
| `LogExplains`, `NewestEventIsTrue` | `Spec => []OperationExplainsStatus`, `Spec => []AnnouncedIsCurrent` |
| `StockIsConserved` | `Spec => []StockConserved` |

`NeverOversold` is not inductive by itself. A commit lowers `on_hand`
and `reserved` by the quantity of a reservation; that this keeps one below the
other, and above zero, needs the counter to cover that reservation, which is
`ReservedIsHeld`; and a sweep takes a whole batch out of several rows at once, so it
needs the counter to cover the batch (`ReleaseSafe`). `ReservedIsHeld` in turn is kept
by a release because the subtraction never goes below zero. Hence the three parts
go together in `SafeInv`.

"The sum of the quantities of the reservations of a row" would need induction over
a set. Instead a reservation of quantity q stands for the q *units* <<key, 1>> ..
<<key, q>>, and the sum is the cardinality of a set of units. Then
reservations that leave a status take a disjoint part out of the set (`CountLeave`)
and a new one puts its units in (`CountEnter`), and both follow from the theorems on
cardinalities of finite sets. `StockConserved` is stated in the same way, with the units of restocked
events as a second set (`GivenOnce`: an event's units enter it once, when it is processed). It is
inductive given the types: what a commit takes from `on_hand` are the units that join COMMITTED, which
nothing leaves.

**ShipmentsProofs** (`ShipmentsAssumption`, `NoneAssumption`). `SafeInv` is `TypeOK`,
`AcceptedNeverDispatched`, `TombstoneClearsBoard`, `DispatchedHasCourier` and `ViewIsPast`. The last
says that what an operator has read is a past row, and the present one when the versions are equal:
that is what makes the version check a lock (`LockHolds`, the property `NoBlindUpdate`).
`LogisticsImplementsLifecycle` is the whole refinement of `ShipmentLifecycle`: a change of one row is a
step of one parcel or of none (`StageChange`, `StageCases`).

**CheckoutProofs** (`CheckoutAssumption`, `AbsentAssumption`). Two layers. `SaleInv` relates an order,
its two requests, its events and its parcel (`SaleTypes`, `KnownOrders`, `CancelIsSound`, `WithoutRace`);
its key fact is that an announced sale has no checkout under way. From it follow `CompensatedStaysHere`,
`CompensatedOnce`, `DispatchedIsSold`. `StockInv` adds what Inventory holds and the late calls
(`InventoryTypes`, `LogIsSettled`, `Progress`, `FailureIsFinal`, `SaleIsSettled`); its key fact is that a
commit is sent only once every line has its reservation. From it follow `FailedIsNeverSold` and
`SoldHoldsNothing`.

**OutboxProofs** (`OutboxAssumption`, `RowAssumption`). `SafeInv` is `TypeOK`, `NothingLost`,
`WorkersAreSound`, `OnlyEnqueued`, `OneEffect`. A worker marks a row with a confirmation that may be
old, when the event has long been consumed: what it may still rely on is `InBroker` (in a queue, handled
or in the DLQ), and no step of the consumer takes an event out of that. Theorems `TypeCorrect`,
`PublishedIsKept`, `EffectHappensOnce`, and `OutboxImplementsDelivery`, the safety part of the
refinement of `EventDelivery`.

**AuthProofs** (`SessionsAssumption`, `OnboardingAssumption`).

*Sessions.* `SessionsInv` is `TypeOK`, `Len(token) <= MaxTokens`, a jar with a known token,
`FamiliesComeFirst`, `LiveIsLast`, `LiveTokenIsOfEnabledVersion`, `CallsAreSound`, `RowsAreLocked`. A
refresh that has decided to rotate holds locks on user and token, so what it read is still so when it
inserts the new token; and only the last token of a family is ever alive, so there are never two.
Theorems `TypeCorrect`, `NoSessionOutlivesStatus`, `OneRefreshWins`, `EndedForGood`.

*Onboarding.* `OnboardingInv` (`OnboardingInvariant`) is the types, `LinksAreTrue`,
`MailIsOfAChallenge`, `AttemptsAreTrue`, `ReportsAreTrue`, `EndedAttemptIsReported` and
`UnreportedIsUntried`. `OneLinkAtMost` follows from the first: a link that works is the newest
challenge of a pending, enabled account. `EndedAttemptIsReported` needs to know that a report of the last
attempt agrees with the delivery, and an attempt under way has none (`ReportsAreTrue`): a worker whose
attempt is still the delivery's is then alone with it, however often leases were overrun. Theorems
`OneLinkOpens`, `AttemptsAreReported`, `ShownFollowsAttempts` (the action property `AuthNeverGoesBack`).

**CrmProofs** (`CampaignsAssumption`, `AccessStatusAssumption`, `NoneIsAbsence`: an absent answer is not
an answer).

*Purchases.* `PurchasesInv` is `TypeOK`, `SentBefore`, `Alone`, `ReadIsTrue`, `CountIsTrue` and the two
properties: a transaction has read what is still so when it commits, as long as it is alone on its
order, or its customer. Theorems `LedgerWins`, `CustomersAreCounted`.

*Campaigns.* `CampaignInv` (`CampaignInvariant`) is the types, `RightFirst`, `AttemptsArePaid`,
`ReportsTrue`, `LastReportKept`, `RecipientTrue`. The right comes before the delivery, so no mail goes
without it (`MailedRightExists`). For `CampaignAgreesWithDelivery`, the outbox keeps one row per type of
event, and a later attempt may overwrite it: what is needed is that the report of the LAST attempt stays
until it is published, and that CRM, which may know less, never knows more. `AttemptsArePaid` bounds the
attempts by the limit and the faults, which keeps the attempts in their type: a lease that ran out is
claimed beyond the limit.

*AccessStatus.* `AccessInv` (`AccessInvariant`) is the types, `HistoryOrdered`, `CacheTrue`,
`QuestionTrue`, `WaitersAsk`, `SocketsChecked`. Every copy of a status (the answer of a shared question,
the cached entry, an open socket) was the account's status at some moment since a known time
(`CurrentSince`); copying one to the next adds the life of the copy, and the sum is the bound of
`OpenSocketIsBounded` and `GrantedIsBounded`. `RefusalHasCause` is the converse, from the same invariant.

**PricingProofs** (`CouponsAssumption`, `NoneIsNoRow`; Promotions has no assumption in its module: its
theorems have `Refresh \in Nat`, the one about ties the types of the deals, as hypotheses).

*Promotions.* `TiesCostTheSame`: which of two best deals the sort puts first, which the query leaves
open, makes no difference to the price. `PromotionsInv` is `TypeOK`, `HeldShape`, `RunIsSound`,
`ExpiredIsOver`, `StatusIsAnnounced`, `QuoteIsSound`: no promotion begins or ends before the
`validUntil` a page holds, and a run only expires what is over, since it keeps the rows it changed
locked. Theorems `TypeCorrect`, `PagesShowThePrice`, `NothingExpiresEarly`, `EventsFollowStatus`.

*Coupons.* `CouponInv` (`CouponInvariant`) is the types, `Placed`, and for every order that is neither
raced nor unreleased `OrderTrue`: where its create and its cancel stand (`CreateTrue`, `CancelTrue`), that
whoever was promised the price holds the right (`PriceHeld`), and that each call still running that may
give the right back, and each answer reconcile still holds, belongs to a cancelled order
(`GivenBackWhenGone`). The last is what an aged answer or a late call would break, and it lasts because a
cancelled order stays so. The two exceptions are those of the property, and departures 2 and 5 are why.
Theorem `DiscountedSaleIsBacked`.

**ReadModelProofs** (`CatalogAssumption`, `StockProjectionAssumption`, `StockFeedAssumption`).

*Catalog.* `CatalogInv` is `TypeOK`, `StoredIsNew`, `OnlyCommitted`, `InUseIsNew`,
`AnswersShowConfirmedEdits`. The key of an entry never promises more than its content, whatever overlaps
(`KeysAreHonest`); that a search uses a key that is new enough needs every version in use, or on its way
to be, to be as new as the last confirmed edit (`ConfirmedEditsShow`).

*StockProjection.* An import is complete when two numbers agree, of the rows it imported and of the rows
there are. `ProjectionInv` (`ProjectionInvariant`) says why that is enough: there is a set of rows
(`Brought`), each of them real, as many as were counted, all before the cursor and none older than what
the run owes; rows of the page in hand are not among them. Equal numbers make the sets equal, by the
theorems on cardinalities (`CompleteSyncIsComplete`). `OnlyNewerIsProjected` is the action property.

*StockFeed.* `FeedInv` (`FeedInvariant`) is the types, `RowsAreBounded`, `EventsAreReal`, `PageIsReal`: nothing
under way, or shown, tells of a revision its row has not had, and a request under way is for the active
branch, so that the event waiting for its answer belongs to it. `ScreenNeverGoesBack` (the action
property `DashboardNeverGoesBack`) then goes through the three ways a row gets to the page. No bound on
Realtime's memories is used: the order of events is the page's own check, and forgetting costs nothing but
repetition.

Only model-checked: everything about liveness (`DueIsFreed`, `CancelledSaleIsSettled`,
`RightFollowsOrder`, `EveryMailSettles`, `EveryRecipientSettles`, `ProjectionCatchesUp`,
`DashboardCatchesUp`, `AnswersCatchUp`, `OverIsExpired`, the liveness part of `ImplementsDelivery`), which the
prover does not handle; and all of PurchasePage. Every invariant of the twelve runs, and every property
of theirs that is no liveness, is a theorem for all values of the constants. The theorems are
about the specifications without fairness, which those with fairness imply.

## 5. Where the code departs from its documentation

Each is a definition at the end of its module, stating what a document or a comment of the
repository says, that TLC finds violated. For the ones with a configuration of their own, run it; for the others, put
the definition in the place of the INVARIANT and PROPERTY lines of the module's configuration.

1. **A sale without stock** (`SoldStockIsConsumed`, `MCCheckout`). `docs/arquitectura.md:131-133`: Orders
   "reserva y confirma stock mediante la API privada de Inventory". A hold that passes its TTL while the
   same checkout is still busy is swept; `commit` then answers the EXPIRED reservation
   with success (`inventory.service.ts:446-452`), and `completeCheckout`
   (`orders.service.ts:270-277`) confirms the order. The units are on sale again.
2. **Create against cancel** (`CancelledSaleWasAccepted`, `MCCheckout`). `orders.types.ts:3-5`: "It is not a
   commercial cancellation until that decision has been accepted". The two hold different locks
   (`orders.service.ts:54`, `:118`). A cancel that
   read RESERVED cancels an order that create confirms meanwhile: a sold
   online order becomes CANCELLED without Logistics' decision and without an event.
3. **Stock lost after a cut** (`CancelledStockIsCompensated`, `MCCheckout`). `orders.service.ts:124-126`: "Only
   non-consumed reservations can be returned synchronously. A confirmed cancellation is compensated
   asynchronously by Inventory". A create cut between commit and
   confirm leaves consumed stock in a RESERVED order; cancel releases nothing (the
   release of a COMMITTED reservation is answered with success) and compensates nothing.
4. **A session ended by its own renewals** (`RenewalsKeepTheSession`, `MCSessions`). `session-refresher.tsx:9`:
   "Keeps an active, HTTP-only session fresh". The timer and the proxy, or two tabs, may send the same
   cookie at once; the second refresh finds the token rotated, takes it for stolen and revokes the family.
5. **A sold order without its right** (`SoldOrderKeepsRight`, `MCCoupons`).
   `docs/entrega-definitiva-fases-7-9.md:9`: "una orden despachada no devuelve stock ni cupón". The release of a
   refused total (`orders.service.ts:232`) that outlives its time-out can run after the retried create
   reserved the right again; `settle` knows the reservation only by its order, so the right of a
   discounted sale becomes AVAILABLE.
6. **A cancellation left unanswered** (`PublishedIsSettled`, `MCOutboxStuck.cfg`). `docs/arquitectura.md:163-165`: the
   queue "reintenta hasta el límite configurado y mueve fallos persistentes a
   `inventory.order-cancelled.v1.dlq`". A message delivered between
   `channel.consume` and `this.channel = channel` (`order-cancelled.consumer.ts:74-76`) is dropped without ack or
   nack and waits until the connection ends.
7. **An accepted mail shown as failed** (`AcceptedIsNotFailed`, `MCOnboardingAccepted.cfg`).
   `onboarding-delivery.service.ts:118`: "Database commit failures must not turn an accepted SMTP message into a
   delivery failure". If recording SENT fails, or the process stops there, the delivery is claimed
   again when its lease ends; an attempt that then fails for good is what Auth shows.
8. **An old answer again** (`OldEntriesNeverSelected`, `MCCatalog`). `catalog.service.ts:163-164`: "Old entries
   expire naturally and are never selected by future reads"; likewise `catalog-service/README.md:107`. An older version is
   put in use by a search that got it from the database before, by edits acknowledged out of order,
   or by a restart after an edit whose version Redis did not take. Entries under it are then given until
   they expire (120 s, details 600 s).
9. **A cancelled purchase reintroduced** (`LedgerPreventsReintroduction`, `MCPurchases`). `001_crm_projections.sql:51-52`:
   "The local ledger prevents an out-of-order delivery from reintroducing that purchase". Both events
   handled at once: the sale reads the ledger before the cancellation commits
   (`crm.service.ts:119`), the cancellation finds no purchase. Analytics has the same
   statements (`analytics.service.ts:115`).
10. **A row that does not appear** (`RowAppears`, `MCStockFeed`). `realtime.ts:48`: "an unknown variant must be
    loaded by the caller". If the broadcast of a new row arrives while the snapshot of a newly chosen branch is under
    way, and the branch shown before had the variant, nothing is asked; the snapshot does not have the row
    yet, and it stays away until its next change.
11. **A key dropped with a sale behind it** (`KeyIsRetained`, `MCPurchasePage`). `sale-error.ts:5-6`: "A network error
    or 5xx can hide an accepted order. Retain its exact request and key until the same operation can be
    retried safely". A retry refused with 401 because the session ended drops the key of a sale the
    first request may have made.
12. **A total that was not reviewed** (`NewTotalIsReviewed`, `MCPurchasePageShown.cfg`, three requests).
    `customer-checkout.tsx:155`: "Si cambia el importe, podrás revisar y confirmar el nuevo total". The customer leaves
    the page with a request under way, comes back and confirms again; the late success of the first sale changes the
    bag under the second attempt and drops its key. With the unit put back, the page displays the old
    total and sends the new quote under a new key.
13. **A campaign mail without a limit of attempts** (`AttemptsAreLimited`, `MCCampaigns`). `docs/cuentas-contrato.md:120`:
    "NOTIFICATION_RETRY_INTERVAL_SECONDS / NOTIFICATION_RETRY_LIMIT | 10 segundos / tres intentos por defecto". A
    delivery left in PROCESSING is claimed again when its lease ends, whatever its attempts
    (`notification-delivery.service.ts:60-62`, `:95`), so a worker lost in every attempt is retried for ever and
    may mail each time. For onboarding the same variable is a limit: a claim beyond it records FAILED
    (`onboarding-delivery.service.ts:129`).

Further observations, made while reading:

- *Orders.* Amounts above 100,000,000 are accepted by Orders and rejected by Logistics' consumer
  (`shipments.consumer.ts:56`); nothing but the client's retry finishes a CANCELLATION_PENDING order; `coupon_code`
  is written after the draft's transaction (`orders.service.ts:86`), so a create cut between the two goes
  on without the coupon when retried (only `expectedTotal`, if sent, stops it). An order is known by actor and
  Idempotency-Key (`001_orders_schema.sql:73-82`), while the keys of its reservations hash the
  Idempotency-Key, the operation and the variant (`orders.service.ts:474-480`): two actors that sent one key would
  share reservations. `Checkout` gives each order a key of its own, as clients do with UUIDs.
- *Auth.* A logout by access token that overlaps a refresh leaves the replacement token alive
  (`refresh-tokens.repository.ts:117-126`).
- *Notification.* A FAILED that is final because the challenge expired is claimed again and ends
  UNDELIVERABLE in Notification, while Auth keeps FAILED. The catch of the campaign mail's `deliver` turns a failed
  commit of SENT into FAILED, so the retry mails twice.
- *CRM.* A right issued before the recipient turns out NO_LONGER_ELIGIBLE stays issued. Two orders of one
  customer projected at once lose an update of `crm_customers`; the table is written and no endpoint reads it.
- *Pricing.* The PATCH of a promotion only allows DRAFT and SCHEDULED, so `enqueueStatusEvent`
  (`pricing.service.ts:304-326`) never enqueues. An edit that moves the window of an ACTIVE promotion into the future leaves
  it ACTIVE, not in force, and no second event is sent when it begins. A promotion whose window is past when
  created goes from SCHEDULED to EXPIRED. A second reconciliation does not repeat an event, as
  `docs/auditoria-supabase-2026-10-11.md:51` says.
- *Catalog.* A command that fails marks the cache degraded until the next `ready`. Edits take their
  locks in one order (product, category, brand, metadata), so they cannot deadlock.
- *Web.* After a reload with a request under way the sold units are still in the stored bag and the key
  is gone, so a second confirmation buys them again. The request hash does not cover `expectedTotal`, which is
  harmless, as the page changes key and quote together. A second tab's stale bag overwrites the stored one.
  Movements from the replenishment desk carry no Idempotency-Key, so a retry after an unknown outcome
  repeats the movement.

## 6. Not modelled

- Malformed events, which every consumer sends to its DLQ at once; audit rows,
  validation, formatting, listings, reports, facets and categories: they change no state the properties
  are about.
- Deadlocks of PostgreSQL locks: a transaction is one action where nothing else can come between, and an
  aborted one is retried, which the models have as failed deliveries and later sweeps. One is possible:
  `restoreCancelledOrder` locks stock rows in the order of the event's lines (`inventory.service.ts:362`), the sweep in the order of
  ids.
- Clock differences between services: a TTL elapses at any moment.
- The loss of the database session that holds an advisory lock while its request goes on
  (`orders-service/src/database/database.service.ts:42`): the model has one create and one cancel per order.
- An event no queue is bound to: `publish` does not set `mandatory` (`outbox.service.ts:112`), and the model declares
  the queue first.
- The courier's account between its lookup in Auth and the assignment (`shipments.service.ts:214`).
- Amounts of orders and coupons, and the coupon's part in the `validUntil` of a cart's quote; Orders' reports and
  listings.
- The simulated mode of the mailer, the size limit of the status cache.
- The copies a retry queue makes: it dead-letters back through the topic exchange
  (`order-cancelled.consumer.ts:67-74`), so the queues of other services bound to the same event get the copy
  too. All of them keep the events they processed, and the models deliver any event again anyway.
- The relay of courier positions (`courier-tracking.consumer.ts`), which keeps no state; the gateway; the pages of the web
  application other than purchase, dashboard and session; deployment, seeds and scripts, which have no
  protocol of their own. They, and validation, are the larger part of the repository's lines.

## 7. Plan

1. Two create requests of one order, for a client that retries while the first is at work after the
   advisory lock was lost.
2. The replenishment desk and the other operator pages of the web, as `PurchasePage` does for customers.
3. Proofs of PurchasePage next to those of Checkout: its types, `OneBagPerKey` and `SalesAreKnown`, which
   relate the references of the page to the calls under way.
4. Amounts: the split of a discount over the lines of an order, against a reference definition.

------------------------------- MODULE Purchases -------------------------------
(***************************************************************************)
(* The history of purchases that CRM keeps, and of sales that Analytics    *)
(* reports, from the events order.completed.v1 and order.cancelled.v1,     *)
(* which come late, again and in any order.                                *)
(*                                                                         *)
(* services/crm-service/src/crm/crm.service.ts (project and what it calls) *)
(* and the same statements in analytics.service.ts, which has no customers. *)
(* A consumer handles ten messages at once, each in a transaction of its   *)
(* own, READ COMMITTED: what a statement reads was committed before it,    *)
(* and what a transaction writes is seen when it commits.  A transaction   *)
(* is three steps here, one for each read that decides what it writes, and *)
(* its COMMIT.                                                             *)
(***************************************************************************)
EXTENDS FiniteSets

CONSTANTS
  Orders,
  Buyer,     \* Buyer[o]: the customer of order o
  Handlers   \* messages handled at once (prefetch)

Customers == {Buyer[o] : o \in Orders}

Completed(o) == [type |-> "completed", order |-> o]
Cancelled(o) == [type |-> "cancelled", order |-> o]
Events == [type: {"completed", "cancelled"}, order: Orders]

VARIABLES
  sent,      \* events Orders enqueued
  queue,     \* messages ready or unacknowledged
  processed, \* crm_processed_events
  ledger,    \* crm_cancelled_orders
  purchase,  \* crm_purchase_projections: status, "none" where there is no row
  customer,  \* crm_customers: the orders that a row counts, {} for no row
  handler,   \* the transaction of each message under way
  raced,     \* history: orders whose two events were handled at once
  mixed      \* history: customers of whom two events were handled at once

tables == <<processed, ledger, purchase, customer>>
vars == <<sent, queue, tables, handler, raced, mixed>>

\* known: the order is in the ledger (of a sale), has a row (of a cancellation).
\* counted: what the customer's row is to count.
Transaction == [step: {"read", "counted"}, event: Events, known: BOOLEAN,
                counted: SUBSET Orders]
Idle == [step |-> "idle"]

Init ==
  /\ sent = {} /\ queue = {} /\ processed = {} /\ ledger = {}
  /\ purchase = [o \in Orders |-> "none"]
  /\ customer = [c \in Customers |-> {}]
  /\ handler = [h \in Handlers |-> Idle]
  /\ raced = {} /\ mixed = {}

------------------------------------------------------------------------------
\* Orders.

Send(e) ==
  /\ e \notin sent
  /\ sent' = sent \cup {e} /\ queue' = queue \cup {e}
  /\ UNCHANGED <<tables, handler, raced, mixed>>

OrderCompletes(o) == Send(Completed(o))
OrderCancelled(o) == Completed(o) \in sent /\ Send(Cancelled(o))

------------------------------------------------------------------------------
\* project.

Open(h) == handler[h].step # "idle"
OfOrder(o) == {h \in Handlers : Open(h) /\ handler[h].event.order = o}
OfCustomer(c) == {h \in Handlers : Open(h) /\ Buyer[handler[h].event.order] = c}

Bought(c) == {o \in Orders : Buyer[o] = c /\ purchase[o] = "COMPLETED"}

\* The claim of the event, which waits for another claim of it, and the first
\* read: of the ledger by a sale, of the purchase by a cancellation (Analytics
\* finds it in its UPDATE).
KnownBefore(e) ==
  \/ e.type = "completed" /\ e.order \in ledger
  \/ e.type = "cancelled" /\ purchase[e.order] # "none"

Claim(h, e) ==
  /\ ~Open(h) /\ e \in queue \ processed
  /\ \A g \in Handlers : Open(g) => handler[g].event # e
  /\ handler' = [handler EXCEPT ![h] =
       [step |-> "read", event |-> e, known |-> KnownBefore(e), counted |-> {}]]
  /\ raced' = IF OfOrder(e.order) = {} THEN raced ELSE raced \cup {e.order}
  /\ mixed' = IF OfCustomer(Buyer[e.order]) = {} THEN mixed ELSE mixed \cup {Buyer[e.order]}
  /\ UNCHANGED <<sent, queue, tables>>

\* An event that was projected before.
Repeated(e) ==
  /\ e \in queue \cap processed
  /\ queue' = queue \ {e}
  /\ UNCHANGED <<sent, tables, handler, raced, mixed>>

\* A sale that is cancelled already, or a cancellation without a purchase,
\* changes nothing but the ledger.
Counts(t) == (t.event.type = "completed") = ~t.known

\* recalculateCustomer: the SELECT, with the transaction's own write.
Recalculate(h) ==
  LET t == handler[h]
      o == t.event.order
  IN
  /\ t.step = "read" /\ Counts(t)
  /\ handler' = [handler EXCEPT ![h].step = "counted",
       ![h].counted = IF t.event.type = "completed" THEN Bought(Buyer[o]) \cup {o}
                      ELSE Bought(Buyer[o]) \ {o}]
  /\ UNCHANGED <<sent, queue, tables, raced, mixed>>

\* COMMIT; the row of the customer is written at once with it, since another
\* that writes the row waits till then.  The acknowledgement may be lost.
Commit(h) ==
  LET t == handler[h]
      o == t.event.order
  IN
  /\ t.step = "counted" \/ (t.step = "read" /\ ~Counts(t))
  /\ processed' = processed \cup {t.event}
  /\ ledger' = IF t.event.type = "cancelled" THEN ledger \cup {o} ELSE ledger
  /\ purchase' = IF ~Counts(t) THEN purchase
                 ELSE [purchase EXCEPT ![o] = IF t.event.type = "completed"
                                              THEN "COMPLETED" ELSE "CANCELLED"]
  /\ customer' = IF ~Counts(t) THEN customer
                 ELSE [customer EXCEPT ![Buyer[o]] = t.counted]
  /\ handler' = [handler EXCEPT ![h] = Idle]
  /\ queue' \in {queue, queue \ {t.event}}
  /\ UNCHANGED <<sent, raced, mixed>>

\* ROLLBACK: the event is tried again or ends in the DLQ.
Fails(h) ==
  /\ Open(h)
  /\ handler' = [handler EXCEPT ![h] = Idle]
  /\ queue' \in {queue, queue \ {handler[h].event}}
  /\ UNCHANGED <<sent, tables, raced, mixed>>

Next ==
  \/ \E o \in Orders : OrderCompletes(o) \/ OrderCancelled(o)
  \/ \E e \in queue : Repeated(e) \/ \E h \in Handlers : Claim(h, e)
  \/ \E h \in Handlers : Recalculate(h) \/ Commit(h) \/ Fails(h)

Spec == Init /\ [][Next]_vars

------------------------------------------------------------------------------
\* Properties.

TypeOK ==
  /\ sent \subseteq Events /\ queue \subseteq sent /\ processed \subseteq sent
  /\ ledger \subseteq Orders
  /\ purchase \in [Orders -> {"none", "COMPLETED", "CANCELLED"}]
  /\ customer \in [Customers -> SUBSET Orders]
  /\ handler \in [Handlers -> Transaction \cup {Idle}]
  /\ raced \subseteq Orders /\ mixed \subseteq Customers

\* A cancelled order does not count as a purchase, in whatever order, how often
\* and with what failures its events arrived, unless the two were handled at
\* once.
CancelledIsNoSale == \A o \in ledger \ raced : purchase[o] # "COMPLETED"

\* A customer's row counts his purchases, unless events of two of them, or two
\* of one, were handled at once.
CustomerCountsPurchases == \A c \in Customers \ mixed : customer[c] = Bought(c)

\* "The local ledger prevents an out-of-order delivery from reintroducing that
\* purchase" (001_crm_projections.sql:51).  Violated.
LedgerPreventsReintroduction == \A o \in ledger : purchase[o] # "COMPLETED"
==============================================================================

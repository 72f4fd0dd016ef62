------------------------------- MODULE Checkout -------------------------------
(***************************************************************************)
(* The Orders service as the coordinator of a sale: it reserves and        *)
(* commits stock in Inventory, asks Logistics before it cancels a sold     *)
(* order, and tells both about the outcome through order.completed.v1 and  *)
(* order.cancelled.v1.                                                     *)
(*                                                                         *)
(* services/orders-service/src/orders/orders.service.ts is a sequence of   *)
(* local transactions and HTTP calls under an advisory lock: one lock per  *)
(* Idempotency-Key for create, ANOTHER one per order for cancel, so that   *)
(* for each order at most one create and one cancel run, possibly at the   *)
(* same time.  One action here is one transaction or one remote call.  A   *)
(* request may be cut at any step (crash, timeout, lost connection); a     *)
(* call it was waiting for may still run later (`late').                   *)
(*                                                                         *)
(* Inventory is the module Inventory; Logistics is the abstract            *)
(* ShipmentLifecycle, which Shipments implements.  The delivery of         *)
(* order.cancelled.v1 to Inventory is the abstract EventDelivery, which    *)
(* Outbox implements.  Each order has its own Idempotency-Key: the key and *)
(* the line name the reservation.                                          *)
(***************************************************************************)
EXTENDS Integers, FiniteSets

CONSTANTS
  Orders,
  Stocks,
  Cart,              \* Cart[o][s]: quantity of s that order o asks for
  InitialStock,      \* on hand of each stock before the first order
  MaxQuantity,
  MaxCancellations,  \* bound of the model on order.cancelled events per order
  SweepLimit,
  None

ASSUME CheckoutAssumption ==
  /\ Cart \in [Orders -> [Stocks -> 0..MaxQuantity]]
  /\ InitialStock \in [Stocks -> Nat]

Order ==
  [channel: {"ONLINE", "PHYSICAL"},
   status: {"PENDING", "RESERVED", "CONFIRMED", "CANCELLATION_PENDING", "CANCELLED"},
   priced: BOOLEAN, assigned: SUBSET Stocks, failed: BOOLEAN]

VARIABLES
  order,         \* orders, with the items and outcome_code that matter here
  create,        \* the create request in progress for each order
  cancel,        \* the cancel request in progress for each order
  late,          \* calls whose caller gave up on the answer
  completed,     \* orders whose order.completed.v1 was written to the outbox
  cancelEvents,  \* order.cancelled.v1 written to the outbox
  dead,          \* of these, the events with a copy in Inventory's dead-letter queue
  raced,         \* orders whose create and cancel requests ever overlapped
  rows, onHand, reserved, reservation, operation, processed, received,
  announced,     \* Inventory
  stage, closed  \* Logistics

Key(o, s) == <<o, s>>

\* Keys of commit and of the two kinds of release; each names one reservation.
OpKey(purpose, o, s) == <<purpose, o, s>>

Inv == INSTANCE Inventory
         WITH Keys <- Orders \X Stocks,
              OpKeys <- {"commit", "cancel", "rollback"} \X Orders \X Stocks,
              Events <- Orders \X (1..MaxCancellations),
              EventItems <- [e \in Orders \X (1..MaxCancellations) |-> Cart[e[1]]],
              MaxOnHand <- 0

Life == INSTANCE ShipmentLifecycle

\* order.cancelled.v1 on its way to Inventory.
Delivery == INSTANCE EventDelivery
              WITH Events <- Orders \X (1..MaxCancellations),
                   enqueued <- cancelEvents, applied <- processed

ASSUME AbsentAssumption == None \notin Order \cup Inv!Reservation \cup Inv!Operation

inventoryVars == <<rows, onHand, reserved, reservation, operation, processed,
                   received, announced>>
logisticsVars == <<stage, closed>>
\* What Orders announced, and where Inventory gave up on it.
outbox == <<completed, cancelEvents, dead>>
vars == <<order, create, cancel, late, completed, cancelEvents, dead, raced,
          inventoryVars, logisticsVars>>

Lines(o) == {s \in Stocks : Cart[o][s] > 0}

Idle == [pc |-> "idle", todo |-> {}, line |-> None]
At(pc, todo) == [pc |-> pc, todo |-> todo, line |-> None]

Init ==
  /\ order = [o \in Orders |-> None]
  /\ create = [o \in Orders |-> Idle]
  /\ cancel = [o \in Orders |-> Idle]
  /\ late = {}
  /\ completed = {}
  /\ cancelEvents = {}
  /\ dead = {}
  /\ raced = {}
  /\ rows = Stocks
  /\ onHand = InitialStock
  /\ reserved = [s \in Stocks |-> 0]
  /\ reservation = [k \in Orders \X Stocks |-> None]
  /\ operation = [p \in {"commit", "cancel", "rollback"} \X Orders \X Stocks |-> None]
  /\ processed = {}
  /\ received = InitialStock
  /\ announced = [s \in Stocks |-> [onHand |-> InitialStock[s], reserved |-> 0]]
  /\ Life!Init

Status(o) == IF order[o] = None THEN "none" ELSE order[o].status

------------------------------------------------------------------------------
\* create: POST /orders under the lock of its Idempotency-Key.

SetCreate(o, c) == create' = [create EXCEPT ![o] = c]
SetCancel(o, c) == cancel' = [cancel EXCEPT ![o] = c]

\* setStatus, failOutOfStock and cancel write the status whatever it was.
WriteStatus(o, status) == order' = [order EXCEPT ![o].status = status]

Running(request, o) == request[o].pc # "idle"

NoteRace(o, other) == raced' = IF Running(other, o) THEN raced \cup {o} ELSE raced

\* The first call writes the draft, a retry takes the stored order up where
\* it is; a settled order is answered as it is and a failed one refused.
ResumableAny(o) == Status(o) \in {"PENDING", "RESERVED", "CANCELLED"}
Resumable(o) == Status(o) \in {"PENDING", "RESERVED"}

CreateCall(o) ==
  /\ ~Running(create, o)
  /\ \/ /\ order[o] = None
        /\ \E channel \in {"ONLINE", "PHYSICAL"} :
             order' = [order EXCEPT ![o] =
               [channel |-> channel, status |-> "PENDING", priced |-> FALSE,
                assigned |-> {}, failed |-> FALSE]]
        /\ SetCreate(o, At("price", {}))
     \/ /\ Resumable(o)
        /\ UNCHANGED order
        /\ SetCreate(o, IF order[o].priced THEN At("reserve", Lines(o) \ order[o].assigned)
                        ELSE At("price", {}))
  /\ NoteRace(o, cancel)
  /\ UNCHANGED <<cancel, late, outbox, inventoryVars, logisticsVars>>

\* Catalog and Pricing answered: the items and their prices are stored.
Snapshot(o) ==
  /\ create[o].pc = "price"
  /\ order' = [order EXCEPT ![o].priced = TRUE]
  /\ SetCreate(o, At("reserve", Lines(o)))
  /\ UNCHANGED <<cancel, late, outbox, raced, inventoryVars, logisticsVars>>

\* failOutOfStock also stores the outcome the key will answer with.
Fail(o) ==
  /\ order' = [order EXCEPT ![o].status = "CANCELLED", ![o].failed = TRUE]
  /\ SetCreate(o, Idle)
  /\ UNCHANGED <<cancel, late, outbox, raced, inventoryVars, logisticsVars>>

PriceChanged(o) == create[o].pc = "price" /\ Fail(o)

\* The reserve call of a line that has no reservation yet.
ReserveLine(o, s) ==
  /\ create[o].pc = "reserve"
  /\ s \in create[o].todo
  /\ \/ /\ \/ Inv!Reserve(Key(o, s), s, Cart[o][s])
           \/ reservation[Key(o, s)] # None /\ UNCHANGED inventoryVars
        /\ SetCreate(o, [create[o] EXCEPT !.pc = "assign", !.line = s])
     \/ /\ Inv!ReserveOutOfStock(Key(o, s), s, Cart[o][s])
        /\ SetCreate(o, At("rollback", order[o].assigned))
  /\ UNCHANGED <<order, cancel, late, outbox, raced, logisticsVars>>

AssignReservation(o) ==
  /\ create[o].pc = "assign"
  /\ order' = [order EXCEPT ![o].assigned = @ \cup {create[o].line}]
  /\ SetCreate(o, At("reserve", create[o].todo \ {create[o].line}))
  /\ UNCHANGED <<cancel, late, outbox, raced, inventoryVars, logisticsVars>>

\* Every line is reserved: read the order again ...
ReadReserved(o) ==
  /\ create[o].pc = "reserve"
  /\ create[o].todo = {}
  /\ SetCreate(o, IF Status(o) = "PENDING" THEN At("mark", {}) ELSE At("commit", Lines(o)))
  /\ UNCHANGED <<order, cancel, late, outbox, raced, inventoryVars, logisticsVars>>

\* ... and record it as RESERVED in a transaction of its own.
MarkReserved(o) ==
  /\ create[o].pc = "mark"
  /\ WriteStatus(o, "RESERVED")
  /\ SetCreate(o, At("commit", Lines(o)))
  /\ UNCHANGED <<cancel, late, outbox, raced, inventoryVars, logisticsVars>>

\* The commit call of a line.  Any 200 answer counts, whatever the status of
\* the reservation it carries; RESERVATION_EXPIRED ends the request.
CommitLineBestEffort(o, s) ==
  /\ create[o].pc = "commit"
  /\ s \in create[o].todo
  /\ \/ Inv!Commit(OpKey("commit", o, s), Key(o, s))
     \/ UNCHANGED inventoryVars
  /\ SetCreate(o, At("commit", create[o].todo \ {s}))
  /\ UNCHANGED <<order, cancel, late, outbox, raced, logisticsVars>>

CommitLine(o, s) ==
  /\ create[o].pc = "commit"
  /\ s \in create[o].todo
  /\ \/ /\ \/ Inv!Commit(OpKey("commit", o, s), Key(o, s))
           \/ Inv!TransitionReplays(OpKey("commit", o, s), Key(o, s)) /\ UNCHANGED inventoryVars
        /\ SetCreate(o, At("commit", create[o].todo \ {s}))
     \/ /\ Inv!TransitionExpires(OpKey("commit", o, s), Key(o, s))
        /\ SetCreate(o, Idle)
  /\ UNCHANGED <<order, cancel, late, outbox, raced, logisticsVars>>

\* Every commit call was answered: CONFIRMED and order.completed.v1.
Confirm(o) ==
  /\ create[o].pc = "commit"
  /\ create[o].todo = {}
  /\ WriteStatus(o, "CONFIRMED")
  /\ completed' = completed \cup {o}
  /\ SetCreate(o, Idle)
  /\ UNCHANGED <<cancel, late, cancelEvents, dead, raced, inventoryVars, logisticsVars>>

\* Calls that were sent, or will be, although nobody waits for the answer.
LeaveCalls(purpose, o, L) == late' = late \cup {<<purpose, o, s>> : s \in L}

\* A release call, best effort: refusals are swallowed, and so is a call that
\* is lost or cut, which may still run later.
ReleaseCall(purpose, o, s) ==
  \/ /\ \/ Inv!Release(OpKey(purpose, o, s), Key(o, s))
        \/ Inv!TransitionExpires(OpKey(purpose, o, s), Key(o, s))
        \/ Inv!TransitionReplays(OpKey(purpose, o, s), Key(o, s)) /\ UNCHANGED inventoryVars
     /\ UNCHANGED late
  \/ LeaveCalls(purpose, o, {s}) /\ UNCHANGED inventoryVars

RollbackLine(o, s) ==
  /\ create[o].pc = "rollback"
  /\ s \in create[o].todo
  /\ ReleaseCall("rollback", o, s)
  /\ SetCreate(o, At("rollback", create[o].todo \ {s}))
  /\ UNCHANGED <<order, cancel, outbox, raced, logisticsVars>>

FailOutOfStock(o) == create[o].pc = "rollback" /\ create[o].todo = {} /\ Fail(o)

\* The request ends without an outcome.  The call it was waiting for may still
\* run; if only the database session was lost, and the lock with it, so may the
\* rest of a loop of calls that writes nothing in between.
CreateCut(o) ==
  /\ Running(create, o)
  /\ \/ /\ create[o].pc = "reserve"
        /\ \E s \in create[o].todo : LeaveCalls("reserve", o, {s})
     \/ /\ create[o].pc \in {"commit", "rollback"}
        /\ \E L \in SUBSET create[o].todo : LeaveCalls(create[o].pc, o, L)
     \/ UNCHANGED late
  /\ SetCreate(o, Idle)
  /\ UNCHANGED <<order, cancel, outbox, raced, inventoryVars, logisticsVars>>

------------------------------------------------------------------------------
\* cancel: POST /orders/:id/cancel under the lock of the order.

\* The status is read without the row lock and decides the path.
CancelCall(o) ==
  /\ ~Running(cancel, o)
  /\ Status(o) \notin {"none", "CANCELLED"}
  /\ SetCancel(o, IF Status(o) \in {"PENDING", "RESERVED"}
                  THEN At("release", order[o].assigned) ELSE At("stage", {}))
  /\ NoteRace(o, create)
  /\ UNCHANGED <<order, create, late, outbox, inventoryVars, logisticsVars>>

ReleaseLine(o, s) ==
  /\ cancel[o].pc = "release"
  /\ s \in cancel[o].todo
  /\ ReleaseCall("cancel", o, s)
  /\ SetCancel(o, At("release", cancel[o].todo \ {s}))
  /\ UNCHANGED <<order, create, outbox, raced, logisticsVars>>

\* stageConfirmedCancellation, under the row lock.
StageCancellation(o) ==
  /\ cancel[o].pc = "stage"
  /\ IF Status(o) \in {"CONFIRMED", "CANCELLATION_PENDING"}
     THEN /\ WriteStatus(o, "CANCELLATION_PENDING")
          /\ SetCancel(o, At(IF order[o].channel = "ONLINE" THEN "ask" ELSE "finalize", {}))
     ELSE SetCancel(o, Idle) /\ UNCHANGED order
  /\ UNCHANGED <<create, late, outbox, raced, inventoryVars, logisticsVars>>

\* cancelBeforeDispatch: Logistics decides.
AskLogisticsTimeoutAccepts(o) ==
  /\ cancel[o].pc = "ask"
  /\ Life!AcceptCancellation(o) \/ UNCHANGED logisticsVars
  /\ SetCancel(o, At("finalize", {}))
  /\ UNCHANGED <<order, create, late, outbox, raced, inventoryVars>>
AskLogisticsRefusalCancels(o) ==
  /\ cancel[o].pc = "ask"
  /\ IF Life!Dispatched(o) THEN WriteStatus(o, "CANCELLED") /\ UNCHANGED logisticsVars
     ELSE Life!AcceptCancellation(o) /\ UNCHANGED order
  /\ SetCancel(o, At("finalize", {}))
  /\ UNCHANGED <<create, late, outbox, raced, inventoryVars>>

AskLogistics(o) ==
  /\ cancel[o].pc = "ask"
  /\ \/ Life!AcceptCancellation(o) /\ SetCancel(o, At("finalize", {}))
     \/ Life!Dispatched(o) /\ SetCancel(o, At("restore", {})) /\ UNCHANGED logisticsVars
  /\ UNCHANGED <<order, create, late, outbox, raced, inventoryVars>>

\* ORDER_ALREADY_DISPATCHED: the sale stands.
RestoreConfirmed(o) ==
  /\ cancel[o].pc = "restore"
  /\ IF Status(o) = "CANCELLATION_PENDING" THEN WriteStatus(o, "CONFIRMED")
     ELSE UNCHANGED order
  /\ SetCancel(o, Idle)
  /\ UNCHANGED <<create, late, outbox, raced, inventoryVars, logisticsVars>>

\* finalizeCancellation without compensation, after the releases.
FinalizeReleased(o) ==
  /\ cancel[o].pc = "release"
  /\ cancel[o].todo = {}
  /\ WriteStatus(o, "CANCELLED")
  /\ SetCancel(o, Idle)
  /\ UNCHANGED <<create, late, outbox, raced, inventoryVars, logisticsVars>>

\* finalizeCancellation with compensation: order.cancelled.v1, once.
CancelEventOf(o) == <<o, Cardinality({e \in cancelEvents : e[1] = o}) + 1>>

\* Two transactions instead of one: the event may be written alone ...
FinalizeCompensatedEventFirst(o) ==
  /\ cancel[o].pc = "finalize"
  /\ CancelEventOf(o)[2] <= MaxCancellations
  /\ cancelEvents' = cancelEvents \cup {CancelEventOf(o)}
  /\ WriteStatus(o, "CANCELLED") \/ UNCHANGED order
  /\ SetCancel(o, Idle)
  /\ UNCHANGED <<create, late, completed, dead, raced, inventoryVars, logisticsVars>>
\* ... or the status alone.
FinalizeCompensatedStatusFirst(o) ==
  /\ cancel[o].pc = "finalize"
  /\ WriteStatus(o, "CANCELLED")
  /\ CancelEventOf(o)[2] <= MaxCancellations
  /\ cancelEvents' = cancelEvents \cup {CancelEventOf(o)} \/ UNCHANGED cancelEvents
  /\ SetCancel(o, Idle)
  /\ UNCHANGED <<create, late, completed, dead, raced, inventoryVars, logisticsVars>>

FinalizeCompensated(o) ==
  /\ cancel[o].pc = "finalize"
  /\ IF Status(o) = "CANCELLED" THEN UNCHANGED <<order, cancelEvents>>
     ELSE /\ WriteStatus(o, "CANCELLED")
          /\ CancelEventOf(o)[2] <= MaxCancellations
          /\ cancelEvents' = cancelEvents \cup {CancelEventOf(o)}
  /\ SetCancel(o, Idle)
  /\ UNCHANGED <<create, late, completed, dead, raced, inventoryVars, logisticsVars>>

CancelCut(o) ==
  /\ Running(cancel, o)
  /\ \/ /\ cancel[o].pc = "release"
        /\ \E L \in SUBSET cancel[o].todo : LeaveCalls("cancel", o, L)
     \/ /\ cancel[o].pc = "ask"
        /\ LeaveCalls("ask", o, {None})
     \/ UNCHANGED late
  /\ SetCancel(o, Idle)
  /\ UNCHANGED <<order, create, outbox, raced, inventoryVars, logisticsVars>>

------------------------------------------------------------------------------
\* The rest of the system.

\* A call whose caller gave up reaches its service after all.
LateCallRuns(call) ==
  LET o == call[2]
      s == call[3]
  IN  /\ late' = late \ {call}
      /\ \/ /\ call[1] = "reserve"
            /\ \/ Inv!Reserve(Key(o, s), s, Cart[o][s])
               \/ Inv!ReserveOutOfStock(Key(o, s), s, Cart[o][s])
            /\ UNCHANGED logisticsVars
         \/ /\ call[1] = "commit"
            /\ \/ Inv!Commit(call, Key(o, s))
               \/ Inv!TransitionExpires(call, Key(o, s))
            /\ UNCHANGED logisticsVars
         \/ /\ call[1] \in {"rollback", "cancel"}
            /\ \/ Inv!Release(call, Key(o, s))
               \/ Inv!TransitionExpires(call, Key(o, s))
            /\ UNCHANGED logisticsVars
         \/ /\ call[1] = "ask"
            /\ Life!AcceptCancellation(o)
            /\ UNCHANGED inventoryVars
      /\ UNCHANGED <<order, create, cancel, outbox, raced>>

ordersVars == <<order, create, cancel, late, outbox, raced>>

HoldTtlElapses(k) == Inv!TtlElapses(k) /\ UNCHANGED <<ordersVars, logisticsVars>>

Sweep == Inv!ExpireReservations /\ UNCHANGED <<ordersVars, logisticsVars>>

\* Someone else takes a unit off the shelf: another order, a manual movement.
OthersTake(s) == Inv!MovementOut(s, 1) /\ UNCHANGED <<ordersVars, logisticsVars>>

\* Inventory consumes order.cancelled.v1.
Restock(e) ==
  /\ e \in cancelEvents
  /\ Inv!RestoreCancelledOrder(e)
  /\ UNCHANGED <<ordersVars, logisticsVars>>

\* ... or gives up on a delivery of it after its retries: the copy goes to the
\* dead-letter queue, which nobody consumes.
Bury(e) ==
  /\ Delivery!Bury(e)
  /\ UNCHANGED <<order, create, cancel, late, completed, raced, inventoryVars,
                 logisticsVars>>

\* Logistics consumes order.completed.v1 and order.cancelled.v1.
Deliver(o) ==
  /\ o \in completed /\ order[o].channel = "ONLINE"
  /\ Life!Open(o)
  /\ UNCHANGED <<ordersVars, inventoryVars>>

DeliverCancelled(o) ==
  /\ \E e \in cancelEvents : e[1] = o
  /\ Life!Close(o)
  /\ UNCHANGED <<ordersVars, inventoryVars>>

Dispatch(o) == Life!Dispatch(o) /\ UNCHANGED <<ordersVars, inventoryVars>>

Next ==
  \/ \E o \in Orders :
       \/ CreateCall(o) \/ Snapshot(o) \/ PriceChanged(o) \/ AssignReservation(o)
       \/ ReadReserved(o) \/ MarkReserved(o) \/ Confirm(o) \/ FailOutOfStock(o)
       \/ CreateCut(o)
       \/ CancelCall(o) \/ StageCancellation(o) \/ AskLogistics(o)
       \/ RestoreConfirmed(o) \/ FinalizeReleased(o) \/ FinalizeCompensated(o)
       \/ CancelCut(o)
       \/ \E s \in Stocks : ReserveLine(o, s) \/ CommitLine(o, s)
                            \/ RollbackLine(o, s) \/ ReleaseLine(o, s)
       \/ Deliver(o) \/ DeliverCancelled(o) \/ Dispatch(o)
  \/ \E call \in late : LateCallRuns(call)
  \/ \E k \in Orders \X Stocks : HoldTtlElapses(k)
  \/ Sweep
  \/ \E s \in Stocks : OthersTake(s)
  \/ \E e \in cancelEvents : Restock(e) \/ Bury(e)

\* What EventDelivery promises of an event: it is offered to Inventory until it
\* has taken effect or lies in the dead-letter queue.  Nothing obliges Inventory
\* to succeed, and customers, operators and timeouts owe nobody a step.
Settle(e) == e \notin processed \cup dead /\ (Restock(e) \/ Bury(e))

Fairness == \A e \in Orders \X (1..MaxCancellations) : WF_vars(Settle(e))

Spec == Init /\ [][Next]_vars /\ Fairness

------------------------------------------------------------------------------
\* Properties.

Request(pcs) == [pc: pcs \cup {"idle"}, todo: SUBSET Stocks, line: Stocks \cup {None}]

TypeOK ==
  /\ order \in [Orders -> Order \cup {None}]
  /\ create \in [Orders -> Request({"price", "reserve", "assign", "mark", "commit", "rollback"})]
  /\ cancel \in [Orders -> Request({"release", "stage", "ask", "restore", "finalize"})]
  /\ completed \subseteq Orders
  /\ cancelEvents \subseteq Orders \X (1..MaxCancellations)
  /\ dead \subseteq cancelEvents
  /\ raced \subseteq Orders
  /\ Inv!TypeOK

Consumed(o) == {s \in Lines(o) : Inv!HasStatus(Key(o, s), "COMMITTED")}

\* Goods that Inventory puts back on the shelf never leave the warehouse,
\* whatever the requests, the calls cut short and the late events did: an
\* order whose order.cancelled.v1 was written is not dispatched, then or later
\* (cancel asks Logistics before finalizeCancellation compensates).
CompensatedNeverDispatched == \A e \in cancelEvents : stage[e[1]] # "dispatched"

\* The event id is Inventory's only protection against restocking twice, so
\* Orders must never write a second order.cancelled.v1 for an order, not even
\* when a checkout in progress overwrites the cancellation.
CompensatedAtMostOnce ==
  \A o \in Orders : Cardinality({e \in cancelEvents : e[1] = o}) <= 1

\* An order the customer was told has failed stays cancelled, was never
\* announced as sold and consumed no stock, although some of its lines were
\* reserved and calls of the attempt may still be under way.
FailedNeverSold ==
  \A o \in Orders : order[o] # None /\ order[o].failed =>
    /\ Status(o) = "CANCELLED"
    /\ o \notin completed
    /\ Consumed(o) = {}

\* When a sale is announced no hold of it is left: each line was consumed, or
\* its reservation had been given up before (commit answers 200 for both).
SoldLeavesNoHold ==
  \A o \in completed : \A s \in Lines(o) :
    reservation[Key(o, s)] # None /\ reservation[Key(o, s)].status # "RESERVED"

\* What left the warehouse stays sold unless create and cancel of that order
\* overlapped: a refused cancellation never ends as CANCELLED.
DispatchedStaysSold ==
  \A o \in Orders \ raced :
    stage[o] = "dispatched" => Status(o) \in {"CONFIRMED", "CANCELLATION_PENDING"}

\* A sale that ends CANCELLED is given back to the shelf in the end, or its
\* order.cancelled.v1 lies in the dead-letter queue for an operator to see; it
\* is never forgotten, although the cancellation, its event and Inventory's
\* restock are three transactions in two services.
CancelledSaleIsSettled ==
  \A o \in Orders :
    (o \in completed \ raced /\ Status(o) = "CANCELLED")
      ~> (o \in raced \/ \E e \in processed \cup dead : e[1] = o)

------------------------------------------------------------------------------
\* What the documentation says of the sale, which the code does not keep.

\* "Orders ... reserva y confirma stock mediante la API privada de Inventory":
\* an order announced as sold consumed the stock of every line.
SoldStockIsConsumed == \A o \in completed : Consumed(o) = Lines(o)

\* "Solo una decision aceptada persiste CANCELLED": an online order that was
\* sold is CANCELLED only after Logistics agreed to stop its parcel.
CancelledSaleWasAccepted ==
  \A o \in completed :
    order[o].channel = "ONLINE" /\ Status(o) = "CANCELLED" => o \in closed

\* "Only non-consumed reservations can be returned synchronously": a
\* cancelled order that consumed stock is compensated by order.cancelled.v1.
CancelledStockIsCompensated ==
  \A o \in Orders \ raced :
    Status(o) = "CANCELLED" /\ Consumed(o) # {} => \E e \in cancelEvents : e[1] = o
==============================================================================

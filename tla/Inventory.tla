------------------------------ MODULE Inventory ------------------------------
(***************************************************************************)
(* The Inventory service: stock rows per (variant, branch), reservations   *)
(* that hold stock for an order until they are committed, released or      *)
(* expire, manual movements and the compensation of a cancelled order.     *)
(*                                                                         *)
(* Every operation of services/inventory-service/src/inventory/            *)
(* inventory.service.ts runs in one PostgreSQL transaction that takes the  *)
(* rows it changes FOR UPDATE, so an action here is one transaction.       *)
(* A reservation is named by the idempotency key it was created with       *)
(* (UNIQUE (actor, idempotency_key), and the actor is always Orders).      *)
(* Time is abstracted to one flag per reservation: `due' says that its     *)
(* expires_at has passed.                                                  *)
(***************************************************************************)
EXTENDS Integers, FiniteSets

CONSTANTS
  Stocks,       \* (variant, branch) pairs
  Keys,         \* idempotency keys Orders may reserve with
  OpKeys,       \* idempotency keys Orders may commit or release with
  Events,       \* order.cancelled.v1 events Inventory may receive
  EventItems,   \* quantity of each stock an event gives back
  MaxQuantity,  \* bound on the quantity of a reservation or movement
  MaxOnHand,    \* bound of the model on what manual movements build up
  SweepLimit,   \* LIMIT of the expiry query
  None          \* the absent row

Statuses == {"RESERVED", "COMMITTED", "RELEASED", "EXPIRED"}

Reservation ==
  [stock: Stocks, quantity: 1..MaxQuantity, status: Statuses, due: BOOLEAN]

Operation == [key: Keys, operation: {"COMMIT", "RELEASE"}]

Snapshot == [onHand: Nat, reserved: Nat]

ASSUME InventoryAssumption ==
  /\ IsFiniteSet(Keys)
  /\ IsFiniteSet(Events)
  /\ EventItems \in [Events -> [Stocks -> 0..MaxQuantity]]
  /\ MaxQuantity \in Nat \ {0}
  /\ MaxOnHand \in Nat
  /\ SweepLimit \in Nat \ {0}
  /\ None \notin Reservation \cup Operation \cup Snapshot

VARIABLES
  rows,         \* stock rows that exist
  onHand,       \* inventory_stock.on_hand
  reserved,     \* inventory_stock.reserved
  reservation,  \* inventory_reservations by idempotency key
  operation,    \* inventory_reservation_operations by idempotency key
  processed,    \* inventory_processed_events
  received,     \* net on_hand_delta of the manual inventory_movements
  announced     \* the newest inventory.stock.changed.v1 in the outbox

vars == <<rows, onHand, reserved, reservation, operation, processed,
          received, announced>>

Init ==
  /\ rows = {}
  /\ onHand = [s \in Stocks |-> 0]
  /\ reserved = [s \in Stocks |-> 0]
  /\ reservation = [k \in Keys |-> None]
  /\ operation = [o \in OpKeys |-> None]
  /\ processed = {}
  /\ received = [s \in Stocks |-> 0]
  /\ announced = [s \in Stocks |-> None]

------------------------------------------------------------------------------
\* Derived quantities.  A reservation of quantity q stands for the q units
\* <<key, 1>> .. <<key, q>>, so that a sum of quantities is a cardinality.

HasStatus(k, status) == reservation[k] # None /\ reservation[k].status = status

Units(K, s, status) ==
  {u \in K \X (1..MaxQuantity) :
     /\ HasStatus(u[1], status)
     /\ reservation[u[1]].stock = s
     /\ u[2] <= reservation[u[1]].quantity}

\* Stock of s held by the reservations of K that are still RESERVED.
Held(K, s) == Cardinality(Units(K, s, "RESERVED"))

Due == {k \in Keys : HasStatus(k, "RESERVED") /\ reservation[k].due}

\* What one run of the expiry query can lock: rows held by another
\* transaction are skipped, at most SweepLimit are taken.
SweepableFullBatch == {E \in SUBSET Due : Cardinality(E) \in {0, SweepLimit}}
Sweepable == {E \in SUBSET Due : Cardinality(E) <= SweepLimit}

\* stock.changed is written for every row of T in the transaction that
\* changed it, with the values that transaction leaves.
AnnounceRowAsRead(T) ==
  announced' = [s \in Stocks |->
                  IF s \in T THEN [onHand |-> onHand[s], reserved |-> reserved[s]]
                  ELSE announced[s]]
Announce(T) ==
  announced' = [s \in Stocks |->
                  IF s \in T THEN [onHand |-> onHand'[s], reserved |-> reserved'[s]]
                  ELSE announced[s]]

SetStatus(K, status) ==
  [k \in Keys |-> IF k \in K THEN [reservation[k] EXCEPT !.status = status]
                  ELSE reservation[k]]

\* releaseExpiredReservations over the locked reservations E: the UPDATE of
\* each stock row demands reserved >= quantity or the transaction fails.
CanRelease(E) == \A s \in Stocks : Held(E, s) <= reserved[s]

AfterReleaseForgotten(E) == [s \in Stocks |-> reserved[s]]
AfterRelease(E) == [s \in Stocks |-> reserved[s] - Held(E, s)]

StocksOf(E) == {reservation[k].stock : k \in E}

\* The WHERE clause of the updates that take stock: what the row has on hand
\* covers q more units beside those reserved once the holds E are released.
CanTakeOnHand(E, s, q) == s \in rows /\ onHand[s] >= q
CanTake(E, s, q) == s \in rows /\ onHand[s] >= AfterRelease(E)[s] + q

\* The states in which transitionReservation acts on the reservation.
LivePastTtl(k) == HasStatus(k, "RESERVED")
Live(k) == HasStatus(k, "RESERVED") /\ ~reservation[k].due

\* INSERT INTO inventory_processed_events ... ON CONFLICT DO NOTHING.
FirstDeliveryAssumed(e) == e \in Events
FirstDelivery(e) == e \notin processed

------------------------------------------------------------------------------
\* Operations.

\* A reservation's expires_at passes.
TtlElapses(k) ==
  /\ Live(k)
  /\ reservation' = [reservation EXCEPT ![k].due = TRUE]
  /\ UNCHANGED <<rows, onHand, reserved, operation, processed, received, announced>>

\* expireReservations, run by the interval timer of ReservationExpiryService.
ExpireReservations ==
  \E E \in Sweepable :
    /\ E # {}
    /\ CanRelease(E)
    /\ reserved' = AfterRelease(E)
    /\ reservation' = SetStatus(E, "EXPIRED")
    /\ UNCHANGED <<rows, onHand, operation, processed, received>>
    /\ Announce(StocksOf(E))

\* reserve of a key not seen before, when enough is available once expired
\* holds were released in the same transaction.
Reserve(k, s, q) ==
  /\ reservation[k] = None
  /\ \E E \in Sweepable :
       /\ CanRelease(E)
       /\ CanTake(E, s, q)
       /\ reserved' = [AfterRelease(E) EXCEPT ![s] = @ + q]
       /\ reservation' = [SetStatus(E, "EXPIRED") EXCEPT ![k] =
            [stock |-> s, quantity |-> q, status |-> "RESERVED", due |-> FALSE]]
       /\ UNCHANGED <<rows, onHand, operation, processed, received>>
       /\ Announce(StocksOf(E) \cup {s})

\* reserve answers OUT_OF_STOCK: the transaction still commits the holds it
\* released.
ReserveOutOfStock(k, s, q) ==
  /\ reservation[k] = None
  /\ \E E \in Sweepable :
       /\ CanRelease(E)
       /\ ~CanTake(E, s, q)
       /\ reserved' = AfterRelease(E)
       /\ reservation' = SetStatus(E, "EXPIRED")
       /\ UNCHANGED <<rows, onHand, operation, processed, received>>
       /\ Announce(StocksOf(E))

\* transitionReservation found the row RESERVED and not yet due: consume it.
Commit(o, k) ==
  /\ operation[o] = None
  /\ Live(k)
  /\ LET s == reservation[k].stock
         q == reservation[k].quantity
     IN  /\ reserved[s] >= q /\ onHand[s] >= q
         /\ onHand' = [onHand EXCEPT ![s] = @ - q]
         /\ reserved' = [reserved EXCEPT ![s] = @ - q]
         /\ reservation' = SetStatus({k}, "COMMITTED")
         /\ operation' = [operation EXCEPT ![o] = [key |-> k, operation |-> "COMMIT"]]
         /\ UNCHANGED <<rows, processed, received>>
         /\ Announce({s})

\* ... or give it back.
Release(o, k) ==
  /\ operation[o] = None
  /\ Live(k)
  /\ CanRelease({k})
  /\ reserved' = AfterRelease({k})
  /\ reservation' = SetStatus({k}, "RELEASED")
  /\ operation' = [operation EXCEPT ![o] = [key |-> k, operation |-> "RELEASE"]]
  /\ UNCHANGED <<rows, onHand, processed, received>>
  /\ Announce({reservation[k].stock})

\* transitionReservation found a RESERVED row past its TTL: it expires it,
\* commits, and answers RESERVATION_EXPIRED without recording the operation.
TransitionExpires(o, k) ==
  /\ operation[o] = None
  /\ k \in Due
  /\ CanRelease({k})
  /\ reserved' = AfterRelease({k})
  /\ reservation' = SetStatus({k}, "EXPIRED")
  /\ UNCHANGED <<rows, onHand, operation, processed, received>>
  /\ Announce({reservation[k].stock})

\* transitionReservation changes nothing and answers with the reservation as
\* it is: the key was used before, or the row already left RESERVED.
TransitionReplays(o, k) ==
  \/ operation[o] # None
  \/ reservation[k] # None /\ reservation[k].status # "RESERVED"

\* createMovement of q units in (RECEIPT, ADJUSTMENT_IN); the first one of a
\* stock creates its row.
MovementIn(s, q) ==
  /\ received[s] + q <= MaxOnHand    \* bound of the model
  /\ \E E \in Sweepable :
       /\ CanRelease(E)
       /\ onHand[s] + q >= AfterRelease(E)[s]
       /\ reserved' = AfterRelease(E)
       /\ reservation' = SetStatus(E, "EXPIRED")
       /\ rows' = rows \cup {s}
       /\ onHand' = [onHand EXCEPT ![s] = @ + q]
       /\ received' = [received EXCEPT ![s] = @ + q]
       /\ UNCHANGED <<operation, processed>>
       /\ Announce(StocksOf(E) \cup {s})

\* createMovement of q units out (ADJUSTMENT_OUT, PHYSICAL_SALE): what is
\* reserved may not be taken; a refusal rolls the whole transaction back.
MovementOut(s, q) ==
  /\ \E E \in Sweepable :
       /\ CanRelease(E)
       /\ CanTake(E, s, q)
       /\ reserved' = AfterRelease(E)
       /\ reservation' = SetStatus(E, "EXPIRED")
       /\ onHand' = [onHand EXCEPT ![s] = @ - q]
       /\ received' = [received EXCEPT ![s] = @ - q]
       /\ UNCHANGED <<rows, operation, processed>>
       /\ Announce(StocksOf(E) \cup {s})

\* restoreCancelledOrder: once per event id, every item in one transaction.
RestoreCancelledOrder(e) ==
  LET items == {s \in Stocks : EventItems[e][s] > 0}
  IN  /\ FirstDelivery(e)
      /\ items \subseteq rows
      /\ processed' = processed \cup {e}
      /\ onHand' = [s \in Stocks |-> onHand[s] + EventItems[e][s]]
      /\ UNCHANGED <<rows, reserved, reservation, operation, received>>
      /\ Announce(items)

Next ==
  \/ ExpireReservations
  \/ \E k \in Keys : TtlElapses(k)
  \/ \E k \in Keys, s \in Stocks, q \in 1..MaxQuantity :
       Reserve(k, s, q) \/ ReserveOutOfStock(k, s, q)
  \/ \E o \in OpKeys, k \in Keys :
       Commit(o, k) \/ Release(o, k) \/ TransitionExpires(o, k)
  \/ \E s \in Stocks, q \in 1..MaxQuantity : MovementIn(s, q) \/ MovementOut(s, q)
  \/ \E e \in Events : RestoreCancelledOrder(e)

\* The expiry timer keeps firing and no transaction holds a row for ever, so
\* a sweep that finds something to expire is eventually run.
Fairness == WF_vars(ExpireReservations)

Spec == Init /\ [][Next]_vars /\ Fairness

------------------------------------------------------------------------------
\* Properties.

TypeOK ==
  /\ rows \in SUBSET Stocks
  /\ onHand \in [Stocks -> Nat]
  /\ reserved \in [Stocks -> Nat]
  /\ reservation \in [Keys -> Reservation \cup {None}]
  /\ operation \in [OpKeys -> Operation \cup {None}]
  /\ processed \in SUBSET Events
  /\ received \in [Stocks -> Int]
  /\ announced \in [Stocks -> Snapshot \cup {None}]

\* The counter a stock row carries is exactly what its live reservations
\* hold, whatever mix of sweeps, retries, commits and movements ran: a
\* double release or a forgotten one would show here (reserve,
\* releaseReservationStock and consumeReservation each move it by hand).
ReservedIsHeld == \A s \in Stocks : reserved[s] = Held(Keys, s)

\* No stock is promised twice: the CHECK constraints of
\* 001_inventory_schema.sql never have to refuse an update.
NeverOversold == \A s \in Stocks : reserved[s] <= onHand[s]

RestockedUnits(s) ==
  {u \in Events \X (1..MaxQuantity) : u[1] \in processed /\ u[2] <= EventItems[u[1]][s]}

\* Stock is conserved: what is on hand is what manual movements brought, less
\* what committed reservations took, plus what cancelled orders gave back,
\* each counted once even when a call or an event is delivered again.
StockConserved ==
  \A s \in Stocks :
    onHand[s] = received[s] - Cardinality(Units(Keys, s, "COMMITTED"))
                + Cardinality(RestockedUnits(s))

\* "Reservation stock invariant failed." (consumeReservation) and
\* "Reservation release invariant failed." (releaseReservationStock) are
\* never thrown: every live reservation is covered by its row, and so is any
\* batch of them that a sweep releases.
InvariantErrorsUnreachable ==
  /\ \A E \in SUBSET {k \in Keys : HasStatus(k, "RESERVED")} : CanRelease(E)
  /\ \A k \in Keys : HasStatus(k, "RESERVED") =>
       /\ reserved[reservation[k].stock] >= reservation[k].quantity
       /\ onHand[reservation[k].stock] >= reservation[k].quantity

\* The operation log explains the outcome of a reservation: at most one key
\* ever moved it, and that key's operation is the status it has, so a replay
\* of the key answers with what it did (transitionReservation).
OperationExplainsStatus ==
  /\ \A o \in OpKeys : operation[o] # None =>
       HasStatus(operation[o].key,
                 IF operation[o].operation = "COMMIT" THEN "COMMITTED" ELSE "RELEASED")
  /\ \A o1, o2 \in OpKeys :
       /\ operation[o1] # None
       /\ operation[o2] # None
       /\ operation[o1].key = operation[o2].key
       => o1 = o2

\* The newest stock.changed event in the outbox carries the row as it is, so
\* a consumer that applies the highest revision ends with the true stock
\* (every transaction that updates a row calls enqueueStockEvents for it).
AnnouncedIsCurrent ==
  \A s \in rows : announced[s] = [onHand |-> onHand[s], reserved |-> reserved[s]]

\* A reservation that left RESERVED never changes again, and it leaves
\* RESERVED by the TTL only once the TTL has passed: a late commit or release
\* cannot resurrect an expired hold, a sweep cannot take a live one.
ReservationLifecycle ==
  [][\A k \in Keys :
       reservation[k] # None =>
         \/ reservation'[k] = reservation[k]
         \/ /\ reservation[k].status = "RESERVED"
            /\ reservation'[k].status = "EXPIRED" => reservation[k].due
            /\ reservation'[k].status \in {"COMMITTED", "RELEASED"} => ~reservation[k].due]_vars

\* A hold whose TTL passed is given back to the shelf even if Orders never
\* calls again (the "second safety net" of releaseReservations).
DueIsFreed == \A k \in Keys : (k \in Due) ~> ~HasStatus(k, "RESERVED")
==============================================================================

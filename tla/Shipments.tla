------------------------------ MODULE Shipments ------------------------------
(***************************************************************************)
(* The Logistics service: one shipment row per ONLINE order, projected     *)
(* from order.completed.v1, worked by operators through packing, dispatch  *)
(* and delivery, and cancelled either by a synchronous request of Orders   *)
(* or by order.cancelled.v1.                                               *)
(*                                                                         *)
(* Each action is one transaction of services/logistics-service/src/       *)
(* shipments/shipments.service.ts.  Order events may arrive in any order   *)
(* and any number of times.  Operators act on what their board showed:     *)
(* `view' is the row each of them last read, so that the version check of  *)
(* changeStatus and assignTracking has something to protect.               *)
(***************************************************************************)
EXTENDS Integers, FiniteSets

CONSTANTS
  Orders,
  Online,       \* the orders of the ONLINE channel
  Employees,    \* operators of role EMPLOYEE; each may be a courier
  Admins,       \* operators of role ADMIN
  MaxVersion,   \* bound of the model on the version counter
  MaxTime,      \* bound of the model on location timestamps
  None

ASSUME ShipmentsAssumption ==
  /\ Online \subseteq Orders
  /\ Employees \cap Admins = {}
  /\ None \notin Employees
  /\ MaxVersion \in Nat \ {0}
  /\ MaxTime \in Nat

VARIABLES
  shipment,      \* logistics_shipments by order, None before projection
  tombstone,     \* logistics_cancelled_orders
  processed,     \* logistics_processed_events
  accepted,      \* orders whose cancellation cancelForOrder acknowledged
  statusEvents,  \* shipment.status.changed.v1 in the outbox
  position,      \* logistics_couriers.last_location_at, 0 before the first
  view           \* the row each operator last read

vars == <<shipment, tombstone, processed, accepted, statusEvents, position, view>>

Actors == Employees \cup Admins

Statuses == {"PENDING", "PACKING", "SHIPPED", "DELIVERED", "CANCELLED"}

Row == [status: Statuses, version: 1..MaxVersion, courier: Employees \cup {None}]

ASSUME NoneAssumption == None \notin Row

OrderEvents == {"completed", "cancelled"} \X Orders

StatusEvent ==
  [order: Orders, version: 1..MaxVersion, previous: Statuses \cup {None}, status: Statuses]

Init ==
  /\ shipment = [o \in Orders |-> None]
  /\ tombstone = {}
  /\ processed = {}
  /\ accepted = {}
  /\ statusEvents = {}
  /\ position = [c \in Employees |-> 0]
  /\ view = [a \in Actors |-> [o \in Orders |-> None]]

------------------------------------------------------------------------------
\* OPERATION_TRANSITIONS: what an operator may move a shipment to.
NextStatus(from) ==
  CASE from = "PENDING" -> {"PACKING"}
    [] from = "PACKING" -> {"SHIPPED"}
    [] from = "SHIPPED" -> {"DELIVERED"}
    [] OTHER -> {}

CanCancelOpen(status) == status # "SHIPPED"
CanCancelBeforeDispatch(status) == status \notin {"SHIPPED", "DELIVERED"}

\* assertCanOperate: an employee may not touch another courier's shipment.
CanOperate(a, row) == a \in Admins \/ row.courier \in {None, a}

\* The optimistic lock: the caller sends the version it read.
SameVersionUnchecked(a, o) == view[a][o] # None
SameVersion(a, o) == view[a][o] # None /\ view[a][o].version = shipment[o].version

\* Every status change writes one event in its transaction, with the version
\* it leaves.
Publish(o, row, previous) ==
  statusEvents' = statusEvents \cup
    {[order |-> o, version |-> row.version, previous |-> previous, status |-> row.status]}

\* UPDATE ... SET status, version = version + 1 plus its event.
SetStatus(o, status) ==
  LET row == [shipment[o] EXCEPT !.status = status, !.version = @ + 1]
  IN  /\ row.version <= MaxVersion     \* bound of the model
      /\ shipment' = [shipment EXCEPT ![o] = row]
      /\ Publish(o, row, shipment[o].status)

------------------------------------------------------------------------------
\* project, order.completed.v1: a PHYSICAL order needs no shipment; an order
\* already cancelled gets one that is born CANCELLED.
InitialStatus(o) == IF o \in tombstone THEN "CANCELLED" ELSE "PENDING"

ProjectCompletedOrder(o) ==
  /\ <<"completed", o>> \notin processed
  /\ processed' = processed \cup {<<"completed", o>>}
  /\ IF o \in Online /\ shipment[o] = None
     THEN LET row == [status |-> InitialStatus(o), version |-> 1, courier |-> None]
          IN  /\ shipment' = [shipment EXCEPT ![o] = row]
              /\ Publish(o, row, None)
     ELSE UNCHANGED <<shipment, statusEvents>>
  /\ UNCHANGED <<tombstone, accepted, position, view>>

\* project, order.cancelled.v1: leaves a tombstone, and what was dispatched.
ProjectCancelledOrder(o) ==
  /\ <<"cancelled", o>> \notin processed
  /\ processed' = processed \cup {<<"cancelled", o>>}
  /\ tombstone' = tombstone \cup {o}
  /\ IF shipment[o] # None /\ shipment[o].status \in {"PENDING", "PACKING"}
     THEN SetStatus(o, "CANCELLED")
     ELSE UNCHANGED <<shipment, statusEvents>>
  /\ UNCHANGED <<accepted, position, view>>

\* cancelForOrder acknowledges (CANCELLED or NOT_PROJECTED); it answers
\* ORDER_ALREADY_DISPATCHED and changes nothing in the other states.
LeaveTombstoneIfProjected(o) == tombstone' = IF shipment[o] = None THEN tombstone ELSE tombstone \cup {o}
LeaveTombstone(o) == tombstone' = tombstone \cup {o}

CancelForOrder(o) ==
  /\ shipment[o] # None => CanCancelBeforeDispatch(shipment[o].status)
  /\ LeaveTombstone(o)
  /\ accepted' = accepted \cup {o}
  /\ IF shipment[o] # None /\ shipment[o].status # "CANCELLED"
     THEN SetStatus(o, "CANCELLED")
     ELSE UNCHANGED <<shipment, statusEvents>>
  /\ UNCHANGED <<processed, position, view>>

\* list or detail: an operator's screen is refreshed.
Read(a, o) ==
  /\ shipment[o] # None
  /\ view' = [view EXCEPT ![a][o] = shipment[o]]
  /\ UNCHANGED <<shipment, tombstone, processed, accepted, statusEvents, position>>

\* A parcel leaves with a courier, and an employee delivers only their own.
CourierAllows(a, row, desired) ==
  /\ desired = "DELIVERED" /\ a \in Employees => row.courier = a
  /\ desired = "SHIPPED" => row.courier # None

\* changeStatus.
ChangeStatus(a, o, desired) ==
  /\ shipment[o] # None
  /\ CanOperate(a, shipment[o])
  /\ SameVersion(a, o)
  /\ CourierAllows(a, shipment[o], desired)
  /\ desired \in NextStatus(shipment[o].status)
  /\ SetStatus(o, desired)
  /\ UNCHANGED <<tombstone, processed, accepted, position, view>>

\* assignTracking: courier and address are set together; an employee may
\* only take a shipment, an administrator may hand it over even in transit.
AssignTracking(a, o, c) ==
  /\ shipment[o] # None
  /\ a \in Employees => c = a
  /\ shipment[o].status \notin {"CANCELLED", "DELIVERED"}
  /\ CanOperate(a, shipment[o])
  /\ SameVersion(a, o)
  /\ shipment[o].version < MaxVersion      \* bound of the model
  /\ shipment' = [shipment EXCEPT ![o].courier = c, ![o].version = @ + 1]
  /\ UNCHANGED <<tombstone, processed, accepted, statusEvents, position, view>>

\* recordCourierLocation that stores a newer position and publishes it.
Newer(c, t) == t > position[c]

RecordCourierLocation(a, o, c, t) ==
  /\ a \in Admins \/ a = c
  /\ shipment[o] # None
  /\ shipment[o].courier = c
  /\ shipment[o].status = "SHIPPED"
  /\ Newer(c, t)
  /\ position' = [position EXCEPT ![c] = t]
  /\ UNCHANGED <<shipment, tombstone, processed, accepted, statusEvents, view>>

Next ==
  \E o \in Orders :
    \/ ProjectCompletedOrder(o)
    \/ ProjectCancelledOrder(o)
    \/ CancelForOrder(o)
    \/ \E a \in Actors :
         \/ Read(a, o)
         \/ \E desired \in Statuses : ChangeStatus(a, o, desired)
         \/ \E c \in Employees : AssignTracking(a, o, c)
         \/ \E c \in Employees, t \in 1..MaxTime : RecordCourierLocation(a, o, c, t)

Spec == Init /\ [][Next]_vars

------------------------------------------------------------------------------
\* Properties.

TypeOK ==
  /\ shipment \in [Orders -> Row \cup {None}]
  /\ tombstone \subseteq Orders
  /\ processed \subseteq OrderEvents
  /\ accepted \subseteq Orders
  /\ statusEvents \subseteq StatusEvent
  /\ position \in [Employees -> 0..MaxTime]
  /\ view \in [Actors -> [Orders -> Row \cup {None}]]

\* Once Orders was told that a cancellation is accepted the parcel never
\* leaves, whichever of the completion, the cancellation, the operators and
\* the events comes first ("a late completion event cannot create an
\* operational, dispatchable shipment", shipments.service.ts:160-162).
AcceptedNeverDispatched ==
  \A o \in accepted :
    /\ o \in tombstone
    /\ shipment[o] # None => shipment[o].status = "CANCELLED"

\* A tombstone leaves nothing on the packing board: the shipment of a
\* cancelled order is cancelled, or had already left.
TombstoneClearsBoard ==
  \A o \in tombstone :
    shipment[o] # None => shipment[o].status \in {"CANCELLED", "SHIPPED", "DELIVERED"}

\* A parcel in transit or delivered is always traceable to a courier, also
\* when it was handed over after dispatch.
DispatchedHasCourier ==
  \A o \in Orders :
    shipment[o] # None /\ shipment[o].status \in {"SHIPPED", "DELIVERED"} =>
      shipment[o].courier # None

\* No lost update on the board: a row changes under an operator only if some
\* operator was looking at exactly that row; only a cancellation may surprise.
OnlySeenRowsChange ==
  \A o \in Orders :
    shipment[o] # None /\ shipment'[o] # shipment[o] =>
      \/ shipment'[o].status = "CANCELLED"
      \/ \E a \in Actors : CanOperate(a, shipment[o]) /\ view[a][o] = shipment[o]

NoBlindUpdate == [][OnlySeenRowsChange]_vars

\* Logistics keeps the promise Orders relies on.
StageOf(row) ==
  CASE row = None -> "unknown"
    [] row # None /\ row.status \in {"PENDING", "PACKING"} -> "open"
    [] row # None /\ row.status \in {"SHIPPED", "DELIVERED"} -> "dispatched"
    [] OTHER -> "cancelled"

Lifecycle == INSTANCE ShipmentLifecycle
               WITH stage <- [o \in Orders |-> StageOf(shipment[o])],
                    closed <- tombstone

ImplementsLifecycle == Lifecycle!Spec
==============================================================================

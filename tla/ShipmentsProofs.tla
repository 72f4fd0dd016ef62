--------------------------- MODULE ShipmentsProofs ---------------------------
(***************************************************************************)
(* Proofs about Shipments, for any sets of orders and operators: its       *)
(* types, what an accepted cancellation and a tombstone guarantee, the     *)
(* optimistic lock, and the refinement of ShipmentLifecycle.               *)
(*                                                                         *)
(* The optimistic lock needs one fact the properties do not state: what an *)
(* operator has read is a past row, and is the current one whenever the    *)
(* versions are equal (ViewIsPast).                                        *)
(***************************************************************************)
EXTENDS Shipments, TLAPS

\* Whatever an operator read is not newer than the row, and equals it when
\* their versions are equal.
ViewIsPast ==
  \A a \in Actors, o \in Orders :
    view[a][o] # None =>
      /\ shipment[o] # None
      /\ view[a][o].version <= shipment[o].version
      /\ view[a][o].version = shipment[o].version => view[a][o] = shipment[o]

------------------------------------------------------------------------------
\* What the row changes of the actions have in common.

\* An operator's transition goes one step forward, and never ends a
\* cancellation.
LEMMA NextStatusCases ==
  ASSUME NEW from \in Statuses, NEW desired \in NextStatus(from)
  PROVE  \/ from = "PENDING" /\ desired = "PACKING"
         \/ from = "PACKING" /\ desired = "SHIPPED"
         \/ from = "SHIPPED" /\ desired = "DELIVERED"
BY DEF Statuses, NextStatus

\* A write that sets the status of a row keeps its courier and counts a version.
LEMMA SetStatusRow ==
  ASSUME TypeOK, NEW o \in Orders, NEW s \in Statuses, shipment[o] # None, SetStatus(o, s)
  PROVE  /\ shipment' \in [Orders -> Row \cup {None}]
         /\ shipment'[o] \in Row
         /\ shipment'[o].status = s
         /\ shipment'[o].courier = shipment[o].courier
         /\ shipment'[o].version = shipment[o].version + 1
         /\ \A p \in Orders \ {o} : shipment'[p] = shipment[p]
         /\ statusEvents' \subseteq StatusEvent
<1>1. shipment[o] \in Row /\ shipment \in [Orders -> Row \cup {None}]
  BY DEF TypeOK
<1>2. PICK row : /\ row = [shipment[o] EXCEPT !.status = s, !.version = @ + 1]
                 /\ row.version <= MaxVersion
                 /\ shipment' = [shipment EXCEPT ![o] = row]
                 /\ Publish(o, row, shipment[o].status)
  BY Zenon DEF SetStatus
<1>3. /\ row \in Row
      /\ row.status = s
      /\ row.courier = shipment[o].courier
      /\ row.version = shipment[o].version + 1
  <2>1. row.status = s /\ row.courier = shipment[o].courier /\ row.version = shipment[o].version + 1
    BY <1>1, <1>2 DEF Row
  <2>2. row.version \in 1..MaxVersion
    BY <1>1, <1>2, <2>1, ShipmentsAssumption DEF ShipmentsAssumption, Row
  <2>3. row = [field \in {"status", "version", "courier"} |-> row[field]]
    BY <1>1, <1>2 DEF Row
  <2> QED BY <1>1, <2>1, <2>2, <2>3 DEF Row
<1>4. [order |-> o, version |-> row.version, previous |-> shipment[o].status,
       status |-> row.status] \in StatusEvent
  BY <1>1, <1>3 DEF Row, StatusEvent
<1>5. statusEvents' \subseteq StatusEvent
  BY <1>2, <1>4 DEF Publish, TypeOK
<1> QED BY <1>1, <1>2, <1>3, <1>5

\* Completion stores a new row, born cancelled after a tombstone.
LEMMA NewRow ==
  ASSUME TypeOK, NEW o \in Orders, ProjectCompletedOrder(o), o \in Online, shipment[o] = None
  PROVE  /\ shipment' \in [Orders -> Row \cup {None}]
         /\ shipment'[o] \in Row
         /\ shipment'[o].status = IF o \in tombstone THEN "CANCELLED" ELSE "PENDING"
         /\ \A p \in Orders \ {o} : shipment'[p] = shipment[p]
         /\ statusEvents' \subseteq StatusEvent
<1> DEFINE row == [status |-> InitialStatus(o), version |-> 1, courier |-> None]
<1>1. shipment' = [shipment EXCEPT ![o] = row] /\ Publish(o, row, None)
  BY DEF ProjectCompletedOrder
<1>2. row \in Row /\ row.status = IF o \in tombstone THEN "CANCELLED" ELSE "PENDING"
  BY ShipmentsAssumption DEF ShipmentsAssumption, Row, Statuses, InitialStatus
<1>3. [order |-> o, version |-> row.version, previous |-> None, status |-> row.status]
        \in StatusEvent
  BY <1>2 DEF Row, StatusEvent
<1>4. statusEvents' \subseteq StatusEvent
  BY <1>1, <1>3 DEF Publish, TypeOK
<1> HIDE DEF row
<1> QED BY <1>1, <1>2, <1>4 DEF TypeOK

\* An assignment sets the courier and counts a version.
LEMMA AssignedRow ==
  ASSUME TypeOK, NEW o \in Orders, NEW a \in Actors, NEW c \in Employees, AssignTracking(a, o, c)
  PROVE  /\ shipment' \in [Orders -> Row \cup {None}]
         /\ shipment'[o] \in Row
         /\ shipment'[o].status = shipment[o].status
         /\ shipment'[o].courier = c
         /\ shipment'[o].version = shipment[o].version + 1
         /\ \A p \in Orders \ {o} : shipment'[p] = shipment[p]
<1>1. shipment[o] \in Row /\ shipment \in [Orders -> Row \cup {None}]
  BY DEF TypeOK, AssignTracking
<1>2. shipment[o].version < MaxVersion
      /\ shipment' = [shipment EXCEPT ![o].courier = c, ![o].version = @ + 1]
  BY DEF AssignTracking
<1> DEFINE row == shipment'[o]
<1>3. row = [shipment[o] EXCEPT !.courier = c, !.version = @ + 1]
  BY <1>1, <1>2
<1>4. /\ row \in Row
      /\ row.status = shipment[o].status
      /\ row.courier = c
      /\ row.version = shipment[o].version + 1
  <2>1. row.status = shipment[o].status /\ row.courier = c /\ row.version = shipment[o].version + 1
    BY <1>1, <1>3 DEF Row
  <2>2. row.version \in 1..MaxVersion
    BY <1>1, <1>2, <2>1, ShipmentsAssumption DEF ShipmentsAssumption, Row
  <2>3. row = [field \in {"status", "version", "courier"} |-> row[field]]
    BY <1>1, <1>3 DEF Row
  <2> QED BY <1>1, <2>1, <2>2, <2>3 DEF Row
<1> QED BY <1>1, <1>2, <1>4

------------------------------------------------------------------------------
\* Types.

LEMMA TypeInductive ==
  ASSUME TypeOK, [Next]_vars
  PROVE  TypeOK'
<1>1. CASE UNCHANGED vars
  BY <1>1 DEF vars, TypeOK
<1>2. CASE Next
  <2>1. PICK o \in Orders :
          \/ ProjectCompletedOrder(o) \/ ProjectCancelledOrder(o) \/ CancelForOrder(o)
          \/ \E a \in Actors : Read(a, o)
          \/ \E a \in Actors, desired \in Statuses : ChangeStatus(a, o, desired)
          \/ \E a \in Actors, c \in Employees : AssignTracking(a, o, c)
          \/ \E a \in Actors, c \in Employees, t \in 1..MaxTime : RecordCourierLocation(a, o, c, t)
    BY <1>2 DEF Next
  <2>2. CASE ProjectCompletedOrder(o)
    <3>1. processed' \subseteq OrderEvents
      BY <2>2 DEF ProjectCompletedOrder, TypeOK, OrderEvents
    <3>2. shipment' \in [Orders -> Row \cup {None}] /\ statusEvents' \subseteq StatusEvent
      <4>1. CASE o \in Online /\ shipment[o] = None
        BY <2>2, <4>1, NewRow
      <4>2. CASE ~(o \in Online /\ shipment[o] = None)
        BY <2>2, <4>2 DEF ProjectCompletedOrder, TypeOK
      <4> QED BY <4>1, <4>2
    <3> QED BY <2>2, <3>1, <3>2 DEF ProjectCompletedOrder, TypeOK
  <2>3. CASE ProjectCancelledOrder(o)
    <3>1. processed' \subseteq OrderEvents /\ tombstone' \subseteq Orders
      BY <2>3 DEF ProjectCancelledOrder, TypeOK, OrderEvents
    <3>2. shipment' \in [Orders -> Row \cup {None}] /\ statusEvents' \subseteq StatusEvent
      <4>1. CASE shipment[o] # None /\ SetStatus(o, "CANCELLED")
        BY <4>1, SetStatusRow DEF Statuses
      <4>2. CASE UNCHANGED <<shipment, statusEvents>>
        BY <4>2 DEF TypeOK
      <4> QED BY <2>3, <4>1, <4>2 DEF ProjectCancelledOrder
    <3> QED BY <2>3, <3>1, <3>2 DEF ProjectCancelledOrder, TypeOK
  <2>4. CASE CancelForOrder(o)
    <3>1. accepted' \subseteq Orders /\ tombstone' \subseteq Orders
      BY <2>4 DEF CancelForOrder, LeaveTombstone, TypeOK
    <3>2. shipment' \in [Orders -> Row \cup {None}] /\ statusEvents' \subseteq StatusEvent
      <4>1. CASE shipment[o] # None /\ SetStatus(o, "CANCELLED")
        BY <4>1, SetStatusRow DEF Statuses
      <4>2. CASE UNCHANGED <<shipment, statusEvents>>
        BY <4>2 DEF TypeOK
      <4> QED BY <2>4, <4>1, <4>2 DEF CancelForOrder
    <3> QED BY <2>4, <3>1, <3>2 DEF CancelForOrder, TypeOK
  <2>5. ASSUME NEW a \in Actors, Read(a, o) PROVE TypeOK'
    BY <2>5 DEF Read, TypeOK
  <2>6. ASSUME NEW a \in Actors, NEW desired \in Statuses, ChangeStatus(a, o, desired) PROVE TypeOK'
    BY <2>6, SetStatusRow DEF ChangeStatus, TypeOK
  <2>7. ASSUME NEW a \in Actors, NEW c \in Employees, AssignTracking(a, o, c) PROVE TypeOK'
    <3>1. shipment' \in [Orders -> Row \cup {None}]
      BY <2>7, AssignedRow
    <3> QED BY <2>7, <3>1 DEF AssignTracking, TypeOK
  <2>8. ASSUME NEW a \in Actors, NEW c \in Employees, NEW t \in 1..MaxTime,
               RecordCourierLocation(a, o, c, t)
        PROVE  TypeOK'
    <3>1. t \in 0..MaxTime
      BY ShipmentsAssumption DEF ShipmentsAssumption
    <3> QED BY <2>8, <3>1 DEF RecordCourierLocation, TypeOK
  <2> QED BY <2>1, <2>2, <2>3, <2>4, <2>5, <2>6, <2>7, <2>8
<1> QED BY <1>1, <1>2

\* Every reachable state of Logistics has its type.
THEOREM TypeCorrect == Spec => []TypeOK
<1>1. Init => TypeOK
  BY ShipmentsAssumption DEF ShipmentsAssumption, Init, TypeOK
<1> QED BY <1>1, TypeInductive, PTL DEF Spec

------------------------------------------------------------------------------
\* Cancellations, couriers and the optimistic lock.

SafeInv ==
  /\ TypeOK
  /\ AcceptedNeverDispatched
  /\ TombstoneClearsBoard
  /\ DispatchedHasCourier
  /\ ViewIsPast

\* A write that counts a version leaves everybody's view in the past.
LEMMA RowGrows ==
  ASSUME TypeOK, ViewIsPast, view' = view, NEW o \in Orders,
         shipment[o] \in Row, shipment'[o] \in Row,
         shipment'[o].version = shipment[o].version + 1,
         \A p \in Orders \ {o} : shipment'[p] = shipment[p]
  PROVE  ViewIsPast'
<1> SUFFICES ASSUME NEW a \in Actors, NEW p \in Orders, view'[a][p] # None
             PROVE  /\ shipment'[p] # None
                    /\ view'[a][p].version <= shipment'[p].version
                    /\ view'[a][p].version = shipment'[p].version => view'[a][p] = shipment'[p]
  BY DEF ViewIsPast
<1>1. CASE p # o
  BY <1>1 DEF ViewIsPast
<1>2. CASE p = o
  <2>1. view[a][o] \in Row /\ view[a][o].version <= shipment[o].version
    BY <1>2 DEF ViewIsPast, TypeOK
  <2>2. view[a][o].version \in Int /\ shipment[o].version \in Int
    BY <2>1 DEF Row
  <2> QED BY <1>2, <2>1, <2>2, NoneAssumption DEF NoneAssumption
<1> QED BY <1>1, <1>2

\* A cancellation, from whichever side, of a row that has not left.
LEMMA CancelKeepsSafe ==
  ASSUME SafeInv, TypeOK', NEW o \in Orders,
         shipment[o] # None, SetStatus(o, "CANCELLED"), shipment[o].status \notin {"SHIPPED", "DELIVERED"},
         tombstone' = tombstone \cup {o}, accepted' \in {accepted, accepted \cup {o}},
         view' = view
  PROVE  SafeInv'
<1>1. /\ shipment'[o] \in Row /\ shipment'[o].status = "CANCELLED"
      /\ shipment'[o].version = shipment[o].version + 1
      /\ \A p \in Orders \ {o} : shipment'[p] = shipment[p]
  BY SetStatusRow DEF SafeInv, Statuses
<1>2. AcceptedNeverDispatched'
  BY <1>1 DEF SafeInv, AcceptedNeverDispatched, TypeOK
<1>3. TombstoneClearsBoard'
  BY <1>1 DEF SafeInv, TombstoneClearsBoard, TypeOK
<1>4. DispatchedHasCourier'
  BY <1>1 DEF SafeInv, DispatchedHasCourier
<1>5. ViewIsPast'
  <2>1. shipment[o] \in Row
    BY DEF SafeInv, TypeOK
  <2> QED BY <1>1, <2>1, RowGrows DEF SafeInv
<1> QED BY <1>2, <1>3, <1>4, <1>5 DEF SafeInv

LEMMA SafeInductive ==
  ASSUME SafeInv, [Next]_vars
  PROVE  SafeInv'
<1> TypeOK'
  BY TypeInductive DEF SafeInv
<1> USE DEF SafeInv
<1>1. CASE UNCHANGED vars
  BY <1>1 DEF vars, AcceptedNeverDispatched, TombstoneClearsBoard, DispatchedHasCourier, ViewIsPast
<1>2. CASE Next
  <2>1. PICK o \in Orders :
          \/ ProjectCompletedOrder(o) \/ ProjectCancelledOrder(o) \/ CancelForOrder(o)
          \/ \E a \in Actors : Read(a, o)
          \/ \E a \in Actors, desired \in Statuses : ChangeStatus(a, o, desired)
          \/ \E a \in Actors, c \in Employees : AssignTracking(a, o, c)
          \/ \E a \in Actors, c \in Employees, t \in 1..MaxTime : RecordCourierLocation(a, o, c, t)
    BY <1>2 DEF Next
  <2>2. CASE ProjectCompletedOrder(o)
    <3>1. CASE o \in Online /\ shipment[o] = None
      <4>1. /\ shipment'[o] \in Row
            /\ shipment'[o].status = IF o \in tombstone THEN "CANCELLED" ELSE "PENDING"
            /\ \A p \in Orders \ {o} : shipment'[p] = shipment[p]
        BY <2>2, <3>1, NewRow
      <4>2. tombstone' = tombstone /\ accepted' = accepted /\ view' = view
        BY <2>2 DEF ProjectCompletedOrder
      <4>3. AcceptedNeverDispatched'
        BY <4>1, <4>2 DEF AcceptedNeverDispatched, TypeOK
      <4>4. TombstoneClearsBoard'
        BY <4>1, <4>2 DEF TombstoneClearsBoard, TypeOK
      <4>5. DispatchedHasCourier'
        BY <4>1 DEF DispatchedHasCourier
      <4>6. ViewIsPast'
        BY <3>1, <4>1, <4>2 DEF ViewIsPast
      <4> QED BY <4>3, <4>4, <4>5, <4>6
    <3>2. CASE ~(o \in Online /\ shipment[o] = None)
      BY <2>2, <3>2 DEF ProjectCompletedOrder, AcceptedNeverDispatched, TombstoneClearsBoard,
                        DispatchedHasCourier, ViewIsPast
    <3> QED BY <3>1, <3>2
  <2>3. CASE ProjectCancelledOrder(o)
    <3>1. /\ tombstone' = tombstone \cup {o} /\ accepted' = accepted /\ view' = view
      BY <2>3 DEF ProjectCancelledOrder
    <3>2. CASE shipment[o] # None /\ shipment[o].status \in {"PENDING", "PACKING"}
      BY <2>3, <3>1, <3>2, CancelKeepsSafe DEF ProjectCancelledOrder
    <3>3. CASE ~(shipment[o] # None /\ shipment[o].status \in {"PENDING", "PACKING"})
      <4>1. shipment' = shipment
        BY <2>3, <3>3 DEF ProjectCancelledOrder
      <4>2. shipment[o] # None => shipment[o].status \in {"CANCELLED", "SHIPPED", "DELIVERED"}
        BY <3>3 DEF TypeOK, Row, Statuses
      <4> QED BY <3>1, <4>1, <4>2 DEF AcceptedNeverDispatched, TombstoneClearsBoard,
                                      DispatchedHasCourier, ViewIsPast
    <3> QED BY <3>2, <3>3
  <2>4. CASE CancelForOrder(o)
    <3>1. /\ tombstone' = tombstone \cup {o} /\ accepted' = accepted \cup {o} /\ view' = view
          /\ shipment[o] # None => shipment[o].status \notin {"SHIPPED", "DELIVERED"}
      BY <2>4 DEF CancelForOrder, LeaveTombstone, CanCancelBeforeDispatch
    <3>2. CASE shipment[o] # None /\ shipment[o].status # "CANCELLED"
      BY <2>4, <3>1, <3>2, CancelKeepsSafe DEF CancelForOrder
    <3>3. CASE ~(shipment[o] # None /\ shipment[o].status # "CANCELLED")
      <4>1. shipment' = shipment
        BY <2>4, <3>3 DEF CancelForOrder
      <4> QED BY <3>1, <3>3, <4>1 DEF AcceptedNeverDispatched, TombstoneClearsBoard,
                                      DispatchedHasCourier, ViewIsPast
    <3> QED BY <3>2, <3>3
  <2>5. ASSUME NEW a \in Actors, Read(a, o) PROVE SafeInv'
    <3>1. ViewIsPast'
      <4> SUFFICES ASSUME NEW b \in Actors, NEW p \in Orders, view'[b][p] # None
                   PROVE  /\ shipment[p] # None
                          /\ view'[b][p].version <= shipment[p].version
                          /\ view'[b][p].version = shipment[p].version => view'[b][p] = shipment[p]
        BY <2>5 DEF ViewIsPast, Read
      <4>1. CASE b = a /\ p = o
        <5>1. view'[b][p] = shipment[o] /\ shipment[o] \in Row
          BY <2>5, <4>1 DEF Read, TypeOK
        <5>2. shipment[o].version \in Int
          BY <5>1 DEF Row
        <5> QED BY <2>5, <4>1, <5>1, <5>2 DEF Read
      <4>2. CASE ~(b = a /\ p = o)
        <5>1. view'[b][p] = view[b][p]
          BY <2>5, <4>2 DEF Read, TypeOK
        <5> QED BY <5>1 DEF ViewIsPast
      <4> QED BY <4>1, <4>2
    <3> QED BY <2>5, <3>1 DEF Read, AcceptedNeverDispatched, TombstoneClearsBoard,
                              DispatchedHasCourier
  <2>6. ASSUME NEW a \in Actors, NEW desired \in Statuses, ChangeStatus(a, o, desired) PROVE SafeInv'
    <3>1. /\ shipment[o] \in Row /\ desired \in NextStatus(shipment[o].status)
          /\ desired = "SHIPPED" => shipment[o].courier # None
          /\ tombstone' = tombstone /\ accepted' = accepted /\ view' = view
      BY <2>6 DEF ChangeStatus, CourierAllows, TypeOK
    <3>2. /\ shipment'[o] \in Row /\ shipment'[o].status = desired
          /\ shipment'[o].courier = shipment[o].courier
          /\ shipment'[o].version = shipment[o].version + 1
          /\ \A p \in Orders \ {o} : shipment'[p] = shipment[p]
      BY <2>6, SetStatusRow DEF ChangeStatus
    <3>3. \/ shipment[o].status = "PENDING" /\ desired = "PACKING"
          \/ shipment[o].status = "PACKING" /\ desired = "SHIPPED"
          \/ shipment[o].status = "SHIPPED" /\ desired = "DELIVERED"
      BY <3>1, NextStatusCases DEF Row
    <3>4. AcceptedNeverDispatched'
      BY <2>6, <3>1, <3>2, <3>3 DEF AcceptedNeverDispatched, ChangeStatus, TypeOK
    <3>5. TombstoneClearsBoard'
      BY <2>6, <3>1, <3>2, <3>3 DEF TombstoneClearsBoard, ChangeStatus, TypeOK
    <3>6. DispatchedHasCourier'
      BY <2>6, <3>1, <3>2, <3>3 DEF DispatchedHasCourier, ChangeStatus
    <3>7. ViewIsPast'
      BY <3>1, <3>2, RowGrows
    <3> QED BY <3>4, <3>5, <3>6, <3>7
  <2>7. ASSUME NEW a \in Actors, NEW c \in Employees, AssignTracking(a, o, c) PROVE SafeInv'
    <3>1. /\ shipment[o] \in Row /\ shipment[o].status # "CANCELLED" /\ c # None
          /\ tombstone' = tombstone /\ accepted' = accepted /\ view' = view
      BY <2>7, ShipmentsAssumption DEF AssignTracking, TypeOK, ShipmentsAssumption
    <3>2. /\ shipment'[o] \in Row /\ shipment'[o].status = shipment[o].status
          /\ shipment'[o].courier = c
          /\ shipment'[o].version = shipment[o].version + 1
          /\ \A p \in Orders \ {o} : shipment'[p] = shipment[p]
      BY <2>7, AssignedRow
    <3>3. AcceptedNeverDispatched'
      BY <2>7, <3>1, <3>2 DEF AcceptedNeverDispatched, AssignTracking, TypeOK
    <3>4. TombstoneClearsBoard'
      BY <2>7, <3>1, <3>2 DEF TombstoneClearsBoard, AssignTracking, TypeOK
    <3>5. DispatchedHasCourier'
      BY <3>1, <3>2 DEF DispatchedHasCourier
    <3>6. ViewIsPast'
      BY <3>1, <3>2, RowGrows
    <3> QED BY <3>3, <3>4, <3>5, <3>6
  <2>8. ASSUME NEW a \in Actors, NEW c \in Employees, NEW t \in 1..MaxTime,
               RecordCourierLocation(a, o, c, t)
        PROVE  SafeInv'
    BY <2>8 DEF RecordCourierLocation, AcceptedNeverDispatched, TombstoneClearsBoard,
                DispatchedHasCourier, ViewIsPast
  <2> QED BY <2>1, <2>2, <2>3, <2>4, <2>5, <2>6, <2>7, <2>8
<1> QED BY <1>1, <1>2

LEMMA SafeInvariant == Spec => []SafeInv
<1>1. Init => SafeInv
  BY ShipmentsAssumption DEF ShipmentsAssumption, Init, SafeInv, TypeOK, AcceptedNeverDispatched,
       TombstoneClearsBoard, DispatchedHasCourier, ViewIsPast
<1> QED BY <1>1, SafeInductive, PTL DEF Spec

\* An order whose cancellation Logistics accepted never has a parcel that can
\* leave, whatever the operators do and whichever event is late or repeated.
THEOREM AcceptedStaysHere == Spec => []AcceptedNeverDispatched
BY SafeInvariant, PTL DEF SafeInv

\* A cancelled order leaves nothing on the packing board, even if its
\* completion arrives after the cancellation.
THEOREM BoardIsCleared == Spec => []TombstoneClearsBoard
BY SafeInvariant, PTL DEF SafeInv

\* Every parcel that left has a courier.
THEOREM CourierIsKnown == Spec => []DispatchedHasCourier
BY SafeInvariant, PTL DEF SafeInv

------------------------------------------------------------------------------
\* No operator overwrites a row that changed after it was read, though the
\* lock compares versions only.
LEMMA SeenRowChanges ==
  ASSUME SafeInv, [Next]_vars
  PROVE  [OnlySeenRowsChange]_vars
<1> SUFFICES ASSUME Next, NEW p \in Orders, shipment[p] # None, shipment'[p] # shipment[p]
             PROVE  \/ shipment'[p].status = "CANCELLED"
                    \/ \E a \in Actors : CanOperate(a, shipment[p]) /\ view[a][p] = shipment[p]
  BY DEF OnlySeenRowsChange
<1> USE DEF SafeInv
<1>1. PICK o \in Orders :
        \/ ProjectCompletedOrder(o) \/ ProjectCancelledOrder(o) \/ CancelForOrder(o)
        \/ \E a \in Actors : Read(a, o)
        \/ \E a \in Actors, desired \in Statuses : ChangeStatus(a, o, desired)
        \/ \E a \in Actors, c \in Employees : AssignTracking(a, o, c)
        \/ \E a \in Actors, c \in Employees, t \in 1..MaxTime : RecordCourierLocation(a, o, c, t)
  BY DEF Next
<1>2. CASE ProjectCompletedOrder(o)
  BY <1>2, NewRow DEF ProjectCompletedOrder
<1>3. CASE ProjectCancelledOrder(o)
  <2>1. shipment[o] # None /\ SetStatus(o, "CANCELLED")
    BY <1>3 DEF ProjectCancelledOrder
  <2> QED BY <2>1, SetStatusRow DEF Statuses
<1>4. CASE CancelForOrder(o)
  <2>1. shipment[o] # None /\ SetStatus(o, "CANCELLED")
    BY <1>4 DEF CancelForOrder
  <2> QED BY <2>1, SetStatusRow DEF Statuses
<1>5. ASSUME NEW a \in Actors, Read(a, o) PROVE FALSE
  BY <1>5 DEF Read
<1>6. ASSUME NEW a \in Actors, NEW desired \in Statuses, ChangeStatus(a, o, desired)
      PROVE  CanOperate(a, shipment[p]) /\ view[a][p] = shipment[p]
  <2>1. p = o
    BY <1>6, SetStatusRow DEF ChangeStatus
  <2> QED BY <1>6, <2>1 DEF ChangeStatus, SameVersion, ViewIsPast
<1>7. ASSUME NEW a \in Actors, NEW c \in Employees, AssignTracking(a, o, c)
      PROVE  CanOperate(a, shipment[p]) /\ view[a][p] = shipment[p]
  <2>1. p = o
    BY <1>7, AssignedRow
  <2> QED BY <1>7, <2>1 DEF AssignTracking, SameVersion, ViewIsPast
<1>8. ASSUME NEW a \in Actors, NEW c \in Employees, NEW t \in 1..MaxTime,
             RecordCourierLocation(a, o, c, t)
      PROVE  FALSE
  BY <1>8 DEF RecordCourierLocation
<1> QED BY <1>1, <1>2, <1>3, <1>4, <1>5, <1>6, <1>7, <1>8

\* The optimistic lock of changeStatus and assignTracking works: a row changes
\* only under an operator who was looking at it, or by a cancellation.
THEOREM LockHolds == Spec => NoBlindUpdate
BY SafeInvariant, SeenRowChanges, PTL DEF Spec, NoBlindUpdate

------------------------------------------------------------------------------
\* Refinement.

LEMMA StageCases ==
  ASSUME NEW row \in Row \cup {None}
  PROVE  /\ row = None => StageOf(row) = "unknown"
         /\ row # None =>
              /\ row.status \in {"PENDING", "PACKING"} => StageOf(row) = "open"
              /\ row.status \in {"SHIPPED", "DELIVERED"} => StageOf(row) = "dispatched"
              /\ row.status = "CANCELLED" => StageOf(row) = "cancelled"
<1>1. CASE row = None
  BY <1>1 DEF StageOf
<1>2. CASE row # None /\ row.status \in {"PENDING", "PACKING"}
  BY <1>2 DEF StageOf
<1>3. CASE row # None /\ row.status \in {"SHIPPED", "DELIVERED"}
  BY <1>3 DEF StageOf
<1>4. CASE row # None /\ row.status = "CANCELLED"
  BY <1>4 DEF StageOf
<1>5. row # None => row.status \in Statuses
  BY DEF Row
<1> QED BY <1>1, <1>2, <1>3, <1>4, <1>5 DEF Statuses

Stage == [o \in Orders |-> StageOf(shipment[o])]

\* A step that changes one row changes one stage.
LEMMA StageChange ==
  ASSUME NEW o \in Orders, \A p \in Orders \ {o} : shipment'[p] = shipment[p]
  PROVE  Stage' = [Stage EXCEPT ![o] = StageOf(shipment'[o])]
<1>1. \A p \in Orders \ {o} : StageOf(shipment'[p]) = StageOf(shipment[p])
  OBVIOUS
<1>2. Stage' = [p \in Orders |-> StageOf(shipment'[p])]
  BY DEF Stage, StageOf
<1> QED BY <1>1, <1>2 DEF Stage

\* Every step of Logistics is a step of the lifecycle, or hides from it.
LEMMA StepRefines ==
  ASSUME SafeInv, TypeOK', [Next]_vars
  PROVE  [Lifecycle!Next]_<<Stage, tombstone>>
<1> USE DEF SafeInv
<1>1. CASE UNCHANGED vars
  BY <1>1 DEF vars, Stage, StageOf
<1>2. CASE Next
  <2>1. PICK o \in Orders :
          \/ ProjectCompletedOrder(o) \/ ProjectCancelledOrder(o) \/ CancelForOrder(o)
          \/ \E a \in Actors : Read(a, o)
          \/ \E a \in Actors, desired \in Statuses : ChangeStatus(a, o, desired)
          \/ \E a \in Actors, c \in Employees : AssignTracking(a, o, c)
          \/ \E a \in Actors, c \in Employees, t \in 1..MaxTime : RecordCourierLocation(a, o, c, t)
    BY <1>2 DEF Next
  <2>2. CASE UNCHANGED <<shipment, tombstone>>
    BY <2>2 DEF Stage, StageOf
  <2>3. CASE ProjectCompletedOrder(o) /\ o \in Online /\ shipment[o] = None
    <3>1. /\ shipment'[o] \in Row
          /\ shipment'[o].status = IF o \in tombstone THEN "CANCELLED" ELSE "PENDING"
          /\ \A p \in Orders \ {o} : shipment'[p] = shipment[p]
      BY <2>3, NewRow
    <3>2. Stage[o] = "unknown"
      BY <2>3, StageCases DEF Stage
    <3>3. shipment'[o] # None /\ shipment'[o] \in Row \cup {None}
      BY <3>1, NoneAssumption DEF NoneAssumption
    <3>4. StageOf(shipment'[o]) = IF o \in tombstone THEN "cancelled" ELSE "open"
      BY <3>1, <3>3, StageCases
    <3>5. Lifecycle!Open(o)
      BY <2>3, <3>1, <3>2, <3>4, StageChange DEF Lifecycle!Open, ProjectCompletedOrder, Stage
    <3> QED BY <3>5 DEF Lifecycle!Next
  <2>4. CASE (ProjectCancelledOrder(o) \/ CancelForOrder(o))
    <3>1. tombstone' = tombstone \cup {o}
      BY <2>4 DEF ProjectCancelledOrder, CancelForOrder, LeaveTombstone
    <3>2. CASE shipment[o] # None /\ SetStatus(o, "CANCELLED") /\ shipment[o].status \in {"PENDING", "PACKING"}
      <4>1. /\ shipment'[o] \in Row /\ shipment'[o].status = "CANCELLED"
            /\ \A p \in Orders \ {o} : shipment'[p] = shipment[p]
        BY <3>2, SetStatusRow DEF Statuses
      <4>2. shipment'[o] # None /\ shipment'[o] \in Row \cup {None} /\ shipment[o] \in Row \cup {None}
        BY <4>1, NoneAssumption DEF NoneAssumption, TypeOK
      <4>3. Stage[o] = "open" /\ StageOf(shipment'[o]) = "cancelled"
        BY <3>2, <4>1, <4>2, StageCases DEF Stage
      <4>4. Stage' = [Stage EXCEPT ![o] = "cancelled"]
        BY <4>1, <4>3, StageChange
      <4> QED BY <3>1, <4>3, <4>4 DEF Lifecycle!Next, Lifecycle!Close, Stage
    <3>3. CASE shipment' = shipment /\ ~(shipment[o] # None /\ shipment[o].status \in {"PENDING", "PACKING"})
      <4>1. shipment[o] \in Row \cup {None}
        BY DEF TypeOK
      <4>2. shipment[o] # None => shipment[o].status \in {"SHIPPED", "DELIVERED", "CANCELLED"}
        BY <3>3, <4>1 DEF Row, Statuses
      <4>3. Stage[o] # "open"
        BY <4>1, <4>2, StageCases DEF Stage
      <4>4. Stage' = Stage
        BY <3>3 DEF Stage, StageOf
      <4> QED BY <3>1, <4>3, <4>4 DEF Lifecycle!Next, Lifecycle!Close, Stage
    <3>4. shipment[o] # None => shipment[o].status \in Statuses
      BY DEF TypeOK, Row
    <3>5. ProjectCancelledOrder(o) =>
            \/ shipment[o] # None /\ SetStatus(o, "CANCELLED") /\ shipment[o].status \in {"PENDING", "PACKING"}
            \/ shipment' = shipment /\ ~(shipment[o] # None /\ shipment[o].status \in {"PENDING", "PACKING"})
      BY DEF ProjectCancelledOrder
    <3>6. CancelForOrder(o) =>
            \/ shipment[o] # None /\ SetStatus(o, "CANCELLED") /\ shipment[o].status \in {"PENDING", "PACKING"}
            \/ shipment' = shipment /\ ~(shipment[o] # None /\ shipment[o].status \in {"PENDING", "PACKING"})
      BY <3>4 DEF CancelForOrder, CanCancelBeforeDispatch, Statuses
    <3> QED BY <2>4, <3>2, <3>3, <3>5, <3>6
  <2>5. ASSUME NEW a \in Actors, NEW desired \in Statuses, ChangeStatus(a, o, desired)
        PROVE  [Lifecycle!Next]_<<Stage, tombstone>>
    <3>1. /\ shipment[o] \in Row /\ shipment[o] # None /\ desired \in NextStatus(shipment[o].status)
          /\ tombstone' = tombstone
      BY <2>5 DEF ChangeStatus, TypeOK
    <3>2. /\ shipment'[o] \in Row /\ shipment'[o].status = desired
          /\ \A p \in Orders \ {o} : shipment'[p] = shipment[p]
      BY <2>5, SetStatusRow DEF ChangeStatus
    <3>3. \/ shipment[o].status = "PENDING" /\ desired = "PACKING"
          \/ shipment[o].status = "PACKING" /\ desired = "SHIPPED"
          \/ shipment[o].status = "SHIPPED" /\ desired = "DELIVERED"
      BY <3>1, NextStatusCases DEF Row
    <3>4. shipment'[o] # None /\ shipment'[o] \in Row \cup {None} /\ shipment[o] \in Row \cup {None}
      BY <3>1, <3>2, NoneAssumption DEF NoneAssumption
    <3>5. \/ Stage[o] = "open" /\ StageOf(shipment'[o]) = "dispatched"
          \/ Stage[o] = StageOf(shipment'[o])
      BY <3>1, <3>2, <3>3, <3>4, StageCases DEF Stage
    <3>6. Stage' = [Stage EXCEPT ![o] = StageOf(shipment'[o])]
      BY <3>2, StageChange
    <3>7. CASE Stage[o] = "open" /\ StageOf(shipment'[o]) = "dispatched"
      BY <3>1, <3>6, <3>7 DEF Lifecycle!Next, Lifecycle!Dispatch, Stage
    <3>8. CASE Stage[o] = StageOf(shipment'[o])
      BY <3>1, <3>6, <3>8 DEF Stage
    <3> QED BY <3>5, <3>7, <3>8
  <2>6. ASSUME NEW a \in Actors, NEW c \in Employees, AssignTracking(a, o, c)
        PROVE  [Lifecycle!Next]_<<Stage, tombstone>>
    <3>1. /\ shipment[o] # None /\ shipment[o] \in Row \cup {None} /\ tombstone' = tombstone
      BY <2>6 DEF AssignTracking, TypeOK
    <3>2. /\ shipment'[o] \in Row /\ shipment'[o].status = shipment[o].status
          /\ \A p \in Orders \ {o} : shipment'[p] = shipment[p]
      BY <2>6, AssignedRow
    <3>3. shipment'[o] # None /\ shipment'[o] \in Row \cup {None} /\ shipment'[o].status \in Statuses
      BY <3>2, NoneAssumption DEF NoneAssumption, Row
    <3>4. StageOf(shipment'[o]) = Stage[o]
      BY <3>1, <3>2, <3>3, StageCases DEF Stage, Statuses
    <3>5. Stage' = Stage
      BY <3>2, <3>4, StageChange DEF Stage
    <3> QED BY <3>1, <3>5
  <2>7. CASE ProjectCompletedOrder(o) /\ ~(o \in Online /\ shipment[o] = None)
    BY <2>2, <2>7 DEF ProjectCompletedOrder
  <2>8. ASSUME NEW a \in Actors, Read(a, o) PROVE [Lifecycle!Next]_<<Stage, tombstone>>
    BY <2>2, <2>8 DEF Read
  <2>9. ASSUME NEW a \in Actors, NEW c \in Employees, NEW t \in 1..MaxTime,
               RecordCourierLocation(a, o, c, t)
        PROVE  [Lifecycle!Next]_<<Stage, tombstone>>
    BY <2>2, <2>9 DEF RecordCourierLocation
  <2> QED BY <2>1, <2>3, <2>4, <2>5, <2>6, <2>7, <2>8, <2>9
<1> QED BY <1>1, <1>2

\* Logistics implements the lifecycle on which Orders relies when it asks
\* before it cancels.
THEOREM LogisticsImplementsLifecycle == Spec => ImplementsLifecycle
<1>1. Init => Lifecycle!Init
  BY StageCases DEF Init, Lifecycle!Init
<1>2. SafeInv /\ SafeInv' /\ [Next]_vars => [Lifecycle!Next]_(Lifecycle!vars)
  BY StepRefines DEF SafeInv, Stage, Lifecycle!vars
<1> QED BY <1>1, <1>2, SafeInvariant, PTL DEF Spec, ImplementsLifecycle, Lifecycle!Spec
==============================================================================

-------------------------- MODULE ShipmentLifecycle --------------------------
(***************************************************************************)
(* What Logistics promises to Orders about one order's parcel, without     *)
(* couriers, versions, boards or duplicate events: a parcel is opened,     *)
(* then either dispatched or cancelled, and once Orders has been told that *)
(* the cancellation is accepted it can no longer be dispatched, even if    *)
(* the order's completion reaches Logistics later.                         *)
(*                                                                         *)
(* Shipments implements this specification; Checkout composes with it.     *)
(***************************************************************************)
EXTENDS Naturals

CONSTANT Orders

VARIABLES
  stage,   \* what happened to the parcel of each order
  closed   \* orders whose parcel may no longer be opened

vars == <<stage, closed>>

Stages == {"unknown", "open", "dispatched", "cancelled"}

Init ==
  /\ stage = [o \in Orders |-> "unknown"]
  /\ closed = {}

\* The completed order arrives: a parcel, unless the order was closed before.
Open(o) ==
  /\ stage[o] = "unknown"
  /\ stage' = [stage EXCEPT ![o] = IF o \in closed THEN "cancelled" ELSE "open"]
  /\ UNCHANGED closed

Dispatch(o) ==
  /\ stage[o] = "open"
  /\ stage' = [stage EXCEPT ![o] = "dispatched"]
  /\ UNCHANGED closed

Dispatched(o) == stage[o] = "dispatched"

\* Close the order: an open parcel is cancelled, one that is not here yet
\* will be when it comes.
Close(o) ==
  /\ closed' = closed \cup {o}
  /\ stage' = [stage EXCEPT ![o] = IF @ = "open" THEN "cancelled" ELSE @]

\* Orders asks before it cancels, and is refused once the parcel left.
AcceptCancellation(o) == ~Dispatched(o) /\ Close(o)

Next == \E o \in Orders : Open(o) \/ Dispatch(o) \/ Close(o)

Spec == Init /\ [][Next]_vars
==============================================================================

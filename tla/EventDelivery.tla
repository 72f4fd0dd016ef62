---------------------------- MODULE EventDelivery ----------------------------
(***************************************************************************)
(* What the transactional outbox, the broker and an idempotent consumer    *)
(* promise together: an event that was enqueued takes effect at most once, *)
(* nothing else takes effect, and in the end each event has taken effect   *)
(* or lies in the dead-letter queue for an operator to see.                *)
(*                                                                         *)
(* Outbox implements this specification; Checkout relies on it.            *)
(***************************************************************************)
CONSTANT Events

VARIABLES
  enqueued,  \* events written with the business change
  applied,   \* events whose effect was committed by the consumer
  dead       \* events with a copy in the dead-letter queue

Init == enqueued = {} /\ applied = {} /\ dead = {}

Enqueue(e) ==
  /\ e \notin enqueued
  /\ enqueued' = enqueued \cup {e}
  /\ UNCHANGED <<applied, dead>>

Apply(e) ==
  /\ e \in enqueued \ applied
  /\ applied' = applied \cup {e}
  /\ UNCHANGED <<enqueued, dead>>

Bury(e) ==
  /\ e \in enqueued
  /\ dead' = dead \cup {e}
  /\ UNCHANGED <<enqueued, applied>>

Next == \E e \in Events : Enqueue(e) \/ Apply(e) \/ Bury(e)

Settles == \A e \in Events : (e \in enqueued) ~> (e \in applied \cup dead)

Spec == Init /\ [][Next]_<<enqueued, applied, dead>> /\ Settles
==============================================================================

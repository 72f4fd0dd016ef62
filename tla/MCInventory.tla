---------------------------- MODULE MCInventory ----------------------------
\* Two stock rows, two reservations contending for them, two operation keys
\* and one cancelled order that gives back one unit of each row.
EXTENDS Inventory, TLC

CONSTANTS s1, s2, e1

MCEventItems == (e1 :> (s1 :> 2 @@ s2 :> 1))
=============================================================================

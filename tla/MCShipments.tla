---------------------------- MODULE MCShipments ----------------------------
\* One online and one counter order, two couriers and an administrator.  Six
\* versions let an order be assigned, packed, handed over, dispatched and
\* delivered.  The couriers are interchangeable.
EXTENDS Shipments, TLC

MCSymmetry == Permutations(Employees)
=============================================================================

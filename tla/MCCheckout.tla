---------------------------- MODULE MCCheckout ----------------------------
\* An online order of one unit of each of two products, the last ones; other
\* demand may take either of them first.
EXTENDS Checkout, TLC

CONSTANTS o1, s1, s2

MCCart == (o1 :> (s1 :> 1 @@ s2 :> 1))
MCInitialStock == (s1 :> 1 @@ s2 :> 1)
============================================================================

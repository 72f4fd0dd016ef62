------------------------------ MODULE MCPurchases ------------------------------
\* Two orders of one customer, and three messages at once.
EXTENDS Purchases, TLC

CONSTANTS o1, o2, c1, h1, h2, h3

MCBuyer == o1 :> c1 @@ o2 :> c1
MCSymmetry == Permutations({h1, h2, h3})
==============================================================================

------------------------------ MODULE MCCoupons ------------------------------
\* Two orders of one customer that name the same coupon.
EXTENDS Coupons, TLC

CONSTANTS o1, o2, r1

MCWanted == (o1 :> r1 @@ o2 :> r1)
==============================================================================

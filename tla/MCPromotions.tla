----------------------------- MODULE MCPromotions -----------------------------
\* A deal for every variant, and one for a single variant that has precedence.
EXTENDS Promotions, TLC

CONSTANTS all, single, v1, v2

MCTargets == (all :> {v1, v2} @@ single :> {v1})
MCPriority == (all :> 0 @@ single :> 1)
MCDiscount == (all :> (v1 :> 20 @@ v2 :> 30) @@ single :> (v1 :> 10 @@ v2 :> 0))
MCBasePrice == (v1 :> 100 @@ v2 :> 30)
==============================================================================

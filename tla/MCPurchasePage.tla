----------------------------- MODULE MCPurchasePage -----------------------------
\* A variant with two prices, a bag of two units, two requests (three in the
\* other configuration), two visits.
EXTENDS PurchasePage
================================================================================

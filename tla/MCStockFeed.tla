----------------------------- MODULE MCStockFeed -----------------------------
\* Two branches, a Realtime that remembers one event and one row, three
\* changes and one fault.
EXTENDS StockFeed
CONSTANTS b1, b2
MCBranches == {b1, b2}
==============================================================================

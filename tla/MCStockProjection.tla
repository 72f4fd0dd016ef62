-------------------------- MODULE MCStockProjection --------------------------
(* Two stock rows of two revisions each, read in pages of one row. *)
EXTENDS StockProjection
==============================================================================

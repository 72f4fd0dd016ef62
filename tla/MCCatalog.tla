------------------------------- MODULE MCCatalog -------------------------------
\* Two searches at once, and an edit.
EXTENDS Catalog
==============================================================================

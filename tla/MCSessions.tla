------------------------------ MODULE MCSessions ------------------------------
\* One account that is disabled and enabled again, and two requests of its
\* browser at a time.
EXTENDS Sessions, TLC

MCSymmetry == Permutations(Calls)
=============================================================================

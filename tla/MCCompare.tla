----------------------------- MODULE MCCompare -----------------------------
EXTENDS Compare

=============================================================================

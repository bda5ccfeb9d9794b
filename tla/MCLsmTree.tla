----------------------------- MODULE MCLsmTree ------------------------------
EXTENDS LsmTree

CONSTANT k1

=============================================================================

------------------------- MODULE MCThreadRegistry -------------------------
EXTENDS ThreadRegistry
============================================================================

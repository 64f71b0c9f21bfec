----------------------------- MODULE MCSpiLink ------------------------------
EXTENDS SpiLink, TLC
=============================================================================

---------------------------- MODULE MCSpiDaemon -----------------------------
EXTENDS SpiDaemon, TLC
=============================================================================

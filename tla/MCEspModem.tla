----------------------------- MODULE MCEspModem -----------------------------
EXTENDS EspModem, TLC
=============================================================================

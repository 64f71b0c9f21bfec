---------------------------- MODULE MCEcpSession ----------------------------
EXTENDS EcpSession, TLC

Symmetry == Permutations(Conn)
=============================================================================

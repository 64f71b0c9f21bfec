----------------------------- MODULE MCEcpConn -----------------------------
(* Small instances of EcpConn for TLC: the constants are given in the cfgs.  *)
EXTENDS EcpConn
=============================================================================

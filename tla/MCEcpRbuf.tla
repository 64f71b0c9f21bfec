----------------------------- MODULE MCEcpRbuf ------------------------------
EXTENDS EcpRbuf

Choice(reliable, hole, delay) == [reliable |-> reliable, hole |-> hole, delay |-> delay]
MCFlags ==
    {Choice(TRUE, 1, FALSE), Choice(TRUE, 0, TRUE), Choice(FALSE, 1, FALSE), Choice(FALSE, 0, TRUE)}
=============================================================================

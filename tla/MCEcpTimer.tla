----------------------------- MODULE MCEcpTimer -----------------------------
EXTENDS EcpTimer

\* Two requests of one kind, one of another kind that is never sent again (the rbuf's timer).
MCReq == {
    [id |-> 1, conn |-> "c", mtype |-> "keyx", cnt |-> 1, timeout |-> 2],
    [id |-> 2, conn |-> "c", mtype |-> "keyx", cnt |-> 0, timeout |-> 1],
    [id |-> 3, conn |-> "d", mtype |-> "rbtimer", cnt |-> 0, timeout |-> 2]}
=============================================================================

---------------------------- MODULE EcpTimerSpec ----------------------------
(***************************************************************************)
(* What the users of the ECP timer rely on, without its array and without  *)
(* its 32-bit clock.  A request that waits for an answer is a member of a  *)
(* set with the time it has left, a plain integer that every tick lowers.  *)
(* Exactly the requests whose time is up are taken to be run; a run either *)
(* waits again with one try less or is over.  An answer ends the request   *)
(* of its kind that is due first.                                          *)
(***************************************************************************)
EXTENDS Integers

CONSTANTS
    Req,        \* requests: [id, conn, mtype, cnt, timeout]
    MaxDelay    \* how late a request may be entered, see EcpTimer

VARIABLES
    pending,    \* set of [req, cnt, left]: requests that wait
    taken       \* set of [req, cnt]: requests being run

vars == <<pending, taken>>

Init == pending = {} /\ taken = {}

InUse(r) == (\E x \in pending : x.req = r) \/ (\E y \in taken : y.req = r)

\* The request waits its timeout, less what was lost on the way in.
Waiting(r, cnt, late) == [req |-> r, cnt |-> cnt, left |-> r.timeout - late]

Add(r, late) ==
    /\ ~InUse(r)
    /\ pending' = pending \cup {Waiting(r, r.cnt, late)}
    /\ UNCHANGED taken

Answer(x) ==
    /\ \A y \in pending :
          y.req.conn = x.req.conn /\ y.req.mtype = x.req.mtype => x.left <= y.left
    /\ pending' = pending \ {x}
    /\ UNCHANGED taken

Cancel(conn) ==
    /\ pending' = {x \in pending : x.req.conn # conn}
    /\ UNCHANGED taken

Collect ==
    /\ taken = {}
    /\ taken' = {[req |-> x.req, cnt |-> x.cnt] : x \in {y \in pending : y.left <= 0}}
    /\ pending' = {x \in pending : x.left > 0}

Again(y, late) ==
    /\ y.cnt > 0
    /\ taken' = taken \ {y}
    /\ pending' = pending \cup {Waiting(y.req, y.cnt - 1, late)}

Over(y) ==
    /\ taken' = taken \ {y}
    /\ UNCHANGED pending

Tick ==
    /\ pending' = {[x EXCEPT !.left = @ - 1] : x \in pending}
    /\ UNCHANGED taken

Next ==
    \/ \E r \in Req, late \in 0 .. MaxDelay : Add(r, late)
    \/ \E x \in pending : Answer(x)
    \/ \E r \in Req : Cancel(r.conn)
    \/ Collect
    \/ \E y \in taken : Over(y) \/ \E late \in 0 .. MaxDelay : Again(y, late)
    \/ Tick

Spec == Init /\ [][Next]_vars
=============================================================================

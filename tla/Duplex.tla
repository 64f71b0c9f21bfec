------------------------------- MODULE Duplex -------------------------------
(***************************************************************************)
(* What the two programs at the ends of a link rely on: messages of each   *)
(* direction arrive once, whole and in order.  Only a fault loses one, and *)
(* no more than the one that was on its way.                               *)
(***************************************************************************)
EXTENDS Naturals, Sequences

CONSTANT Way                \* the directions

VARIABLES
    sent,                   \* messages sent, by direction: they are numbered from 1
    onWay,                  \* the numbers of those on their way
    got,                    \* the numbers received, in the order they came
    faults                  \* how many faults there were

Init ==
    /\ sent = [w \in Way |-> 0] /\ onWay = [w \in Way |-> {}] /\ got = [w \in Way |-> <<>>]
    /\ faults = 0

Send(w) ==
    /\ sent' = [sent EXCEPT ![w] = @ + 1]
    /\ onWay' = [onWay EXCEPT ![w] = @ \cup {sent[w] + 1}]
    /\ UNCHANGED <<got, faults>>

\* The oldest message on its way is received: none overtakes another.
Receive(w) ==
    /\ \E n \in onWay[w] :
         /\ \A m \in onWay[w] : n <= m
         /\ onWay' = [onWay EXCEPT ![w] = @ \ {n}]
         /\ got' = [got EXCEPT ![w] = Append(@, n)]
    /\ UNCHANGED <<sent, faults>>

\* Both directions at once: an exchange moves a message each way.
Fault ==
    /\ faults' = faults + 1
    /\ \E lost \in [Way -> UNION {onWay[w] \cup {0} : w \in Way}] :
         onWay' = [w \in Way |-> onWay[w] \ {lost[w]}]
    /\ UNCHANGED <<sent, got>>

Next == Fault \/ \E w \in Way : Send(w) \/ Receive(w)
Spec == Init /\ [][Next]_<<sent, onWay, got, faults>>
=============================================================================

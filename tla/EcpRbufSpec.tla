---------------------------- MODULE EcpRbufSpec -----------------------------
(***************************************************************************)
(* What a receive buffer promises the application: messages are handed     *)
(* over in the order of their numbers and at most once; one that is kept   *)
(* is handed over before any later one; and a strict buffer passes over    *)
(* none.                                                                   *)
(***************************************************************************)
EXTENDS Naturals

CONSTANT Number

VARIABLES
    waiting,   \* kept and not handed over
    given,     \* handed over
    passed,    \* all up to this one are done with
    skip,      \* the numbers that are not for the application
    strict,
    sound      \* a buffer that took a message twice promises nothing more

Init == waiting = {} /\ given = {} /\ passed = 0 /\ skip = {} /\ strict \in BOOLEAN /\ sound = TRUE

\* A message that comes is kept, handed over at once if it is the next one, or refused; then the
\* buffer may pass on.
Receive(come) ==
    LET now == (waiting \union come) \ skip' IN
    /\ \A n \in come : n > passed /\ n \notin waiting
    /\ passed' >= passed
    /\ given' = given \union {n \in now : n <= passed'}
    /\ waiting' = {n \in now : n > passed'}
    /\ strict' => (passed + 1 .. passed') \subseteq now \union skip'

Next ==
    /\ skip \subseteq skip'
    /\ strict' => strict
    /\ sound' => sound
    /\ sound' => Receive({}) \/ \E n \in Number : Receive({n})

Spec == Init /\ [][Next]_<<waiting, given, passed, skip, strict, sound>>
=============================================================================

------------------------------ MODULE EcpRbuf -------------------------------
(***************************************************************************)
(* The receive buffer of a connection (ext/rbuf.c, ext/rbuf_recv.c): it    *)
(* puts the packets the replay window lets in back into order, holds each  *)
(* until its delivery time, and tells the sender what arrived.             *)
(*                                                                         *)
(* Packets have numbers 1, 2, ...; the sequence number is the number from  *)
(* a start, modulo SeqRange.  The network loses, repeats and reorders.     *)
(* System messages take a slot and are handled when they come; RBFLUSH     *)
(* stands for all but RBNOP.  No message queue (ECP_WITH_MSGQ) is set.     *)
(*                                                                         *)
(* The map of acknowledgements is the set of its clear bits.               *)
(***************************************************************************)
EXTENDS FiniteSetsExt, EcpWindow

CONSTANTS
    Size,       \* arr_size
    SeqRange,   \* how many sequence numbers there are
    SeqStart,   \* where they begin: nonce_in of the opened connection
    AckRate,    \* ACK_RATE
    Flags,      \* what the application may choose: RELIABLE, hole_max, and whether there is a deliver_delay
    Timed,      \* the packets that carry a time stamp (PTS)
    MaxSeq,     \* bound: packets sent
    MaxSlow,    \* bound: packets sent if there is a delay
    MaxFail     \* bound: acknowledgements that cannot be sent

ASSUME RbufAssumption ==
    /\ {Size, SeqRange} \subseteq Nat \ {0} /\ 2 * Size <= SeqRange /\ SeqRange % 2 = 0
    /\ SeqStart \in 0 .. SeqRange - 1
    /\ {AckRate, MaxSeq, MaxFail} \subseteq Nat /\ MaxSlow \in 0 .. MaxSeq /\ 2 * (MaxSeq + Width) < SeqRange
    /\ Timed \subseteq Nat
    /\ Flags \subseteq [reliable : BOOLEAN, hole : Nat, delay : BOOLEAN]

\* The report's map is shifted by hole_max + 1 bits (rbuf_recv.c:449-455), which C defines below its width;
\* ecp_rbuf_set_hole takes any hole_max.
ASSUME HoleAssumption == \A f \in Flags : f.hole + 1 < Width

VARIABLES
    flags,      \* flags, hole_max and deliver_delay
    kind,       \* of the packets the sender has sent: "data", "flush" or "nop"
    win,        \* the connection's replay window
    rb,         \* rbuf: seq_start, seq_max, idx_start and the slots
    ack,        \* seq_ack, ack_map and ack_pkt
    items,      \* RBTIMER items, by the message they wait for
    kept,       \* (history) what was stored or handled
    given,      \* (history) what the application got
    claimed,    \* (history) what a reliable buffer has reported as received
    nacked,     \* (history) what it has reported as missing, and the greatest number sent by then
    fails,      \* (history) acknowledgements that could not be sent
    twice       \* (history) a copy was taken for the next message

vars == <<flags, kind, win, rb, ack, items, kept, given, claimed, nacked, fails, twice>>

Number == 1 .. MaxSeq
Kind == {"data", "flush", "nop"}
-----------------------------------------------------------------------------
(* Sequence numbers, and the ring *)

\* x % size, for an x that is off by no more than size
Wrap(x, size) == IF x < 0 THEN x + size ELSE IF x < size THEN x ELSE x - size
SeqNo(n) == Wrap(SeqStart + n, SeqRange)
Minus(a, b) == Wrap(a - b, SeqRange)
Plus(a, d) == Wrap(a + d, SeqRange)
LT(a, b) == Minus(a, b) > SeqRange \div 2
LTE(a, b) == Minus(b, a) < SeqRange \div 2

\* The number of a sequence number near the window
Num(seq) == Minus(seq, SeqNo(1 - Width)) + 1 - Width

NoSlot == [in |-> FALSE, n |-> 0, skip |-> FALSE, early |-> FALSE, timer |-> FALSE]
Slot(n, skip, early) == [in |-> TRUE, n |-> n, skip |-> skip, early |-> early, timer |-> FALSE]

\* _ecp_rbuf_msg_idx
Fits(r, seq) == Minus(seq, r.start) < Size
Index(r, seq) == Wrap(r.idx + Minus(seq, r.start), Size)
At(r, seq) == r.slot[Index(r, seq)]
CanStore(r, seq) == Fits(r, seq) /\ ~At(r, seq).in

\* msg_store: system messages leave seq_max alone.
Store(r, n, early) ==
    [r EXCEPT !.slot[Index(r, SeqNo(n))] = Slot(n, kind'[n] # "data", early),
              !.max = IF kind'[n] = "data" /\ LT(@, SeqNo(n)) THEN SeqNo(n) ELSE @]

\* ecp_rbuf_handle_nop: whatever of names still has a free slot is skipped.
StoreNop(r, names) ==
    [r EXCEPT !.slot = [i \in DOMAIN @ |->
        IF \E m \in names : CanStore(r, SeqNo(m)) /\ Index(r, SeqNo(m)) = i
        THEN Slot(0, TRUE, FALSE) ELSE @[i]]]

Waiting(r) == IF LTE(r.start, r.max) THEN Minus(r.max, r.start) + 1 ELSE 0

\* What stops msg_flush: a message that is early, or a hole it must or may still wait for.
Stops(r, seq) ==
    IF At(r, seq).in THEN At(r, seq).early
    ELSE flags.reliable \/ ~LT(seq, Plus(r.max, -flags.hole))
StopAt(r) == Min({i \in 0 .. Waiting(r) - 1 : Stops(r, Plus(r.start, i))} \union {Waiting(r)})

\* The slots msg_flush passes, and the message whose time it has to wait for
Passed(r) == {At(r, Plus(r.start, i)) : i \in 0 .. StopAt(r) - 1}
First(r) == At(r, r.start)
NeedsTimer(r) == Waiting(r) > 0 /\ First(r).in /\ First(r).early /\ ~First(r).timer

\* (Mutant: idx_start stays.)
IndexStays(r, k) == r.idx
IndexAfter(r, k) == Wrap(r.idx + k, Size)

Advance(r, k) ==
    [r EXCEPT !.start = Plus(@, k), !.idx = IndexAfter(r, k),
              !.slot = [i \in DOMAIN @ |->
                  IF \E j \in 0 .. k - 1 : Index(r, Plus(r.start, j)) = i THEN NoSlot ELSE @[i]]]

\* msg_flush.  The timer may be full.
Flush(r, pending) ==
    \E s \in {Advance(r, StopAt(r))} :
    /\ \/ rb' = s /\ items' = pending
       \/ /\ NeedsTimer(s)
          /\ rb' = [s EXCEPT !.slot[s.idx].timer = TRUE] /\ items' = pending \union {First(s).n}
    /\ given' = given \union {x.n : x \in {y \in Passed(r) : y.in /\ ~y.skip}}
-----------------------------------------------------------------------------
(* Acknowledgements *)

\* ack_shift: seq_ack moves up to seq_max, but a reliable buffer stops where a hole would leave the map.
\* Positions are relative to seq_ack.
InRing(r, seq) == ~Fits(r, seq) \/ At(r, seq).in
Shift(r, a) ==
    LET ahead == IF LT(a.seq, r.max) THEN Minus(r.max, a.seq) ELSE 0
        holes == {i \in 1 .. ahead : ~InRing(r, Plus(a.seq, i))}
        open  == {-o : o \in a.gaps} \union holes
        edge  == IF flags.reliable /\ open # {} THEN Min(open) + Width - 1 ELSE ahead + 1
        k     == Min({ahead, edge})
    IN  [seq  |-> Plus(a.seq, k),
         gaps |-> {k - o : o \in {p \in open : p <= k /\ k - p < Width}},
         do   |-> k > 0 /\ (k = edge \/ \E i \in holes : i <= k /\ i < ahead - flags.hole)]

\* The number the report ends at.  (Mutant: only the map is shifted.)
NotLowered(seq, h) == seq
Lowered(seq, h) == Plus(seq, -h)

\* The end of ecp_rbuf_store: holes that may still be filled are left out of the report.
Report(r, a) ==
    LET h == flags.hole + 1 IN
    IF flags.hole > 0 /\ a.seq = r.max /\ \E o \in a.gaps : o < h
    THEN [seq |-> Lowered(a.seq, h), gaps |-> {o - h : o \in {p \in a.gaps : p >= h}}]
    ELSE [seq |-> a.seq, gaps |-> a.gaps]
Raw(a) == [seq |-> a.seq, gaps |-> a.gaps]

Missing(report) == {n \in Number : Minus(report.seq, SeqNo(n)) \in report.gaps}
Claimed(report) == {n \in Number : LTE(SeqNo(n), report.seq)} \ Missing(report)

\* ack_send.  What an unreliable buffer reports is only counted by the sender.
SendAcks(reports) ==
    IF flags.reliable
    THEN /\ claimed' = claimed \union UNION {Claimed(x) : x \in reports}
         /\ nacked' = nacked \union UNION {Missing(x) \X {win'.top} : x \in reports}
    ELSE UNCHANGED <<claimed, nacked>>
-----------------------------------------------------------------------------
(* Operations *)

Init ==
    /\ flags \in Flags
    /\ kind = [n \in {} |-> "data"] /\ win = Opened(0)
    /\ rb = [start |-> SeqNo(1), max |-> SeqNo(0), idx |-> 0, slot |-> [i \in 0 .. Size - 1 |-> NoSlot]]
    /\ ack = [seq |-> SeqNo(0), gaps |-> {}, pkt |-> 0]
    /\ items = {} /\ kept = {} /\ given = {} /\ claimed = {} /\ nacked = {} /\ fails = 0 /\ twice = FALSE

\* A copy of packet n is let in.  RBNOP names packets that the sender was told are missing before it sent
\* n, and that are no data or were acknowledged since.
Comes(n, names) ==
    /\ Accepts(win, n) /\ win' = After(win, n)
    /\ \E k \in Kind :
       /\ n \in DOMAIN kind => k = kind[n]
       /\ (k = "nop") = (names # {})
       /\ \A m \in names : m \in DOMAIN kind /\ kind[m] = "data" => m \in kept
       /\ kind' = [m \in DOMAIN kind \union {n} \union names |->
                      IF m \in DOMAIN kind THEN kind[m] ELSE IF m = n THEN k ELSE "flush"]

Late(n) == LTE(SeqNo(n), ack.seq)
InTurn(n) == Waiting(rb) = 0 /\ SeqNo(n) = Plus(ack.seq, 1)
Direct(n) == ~Late(n) /\ InTurn(n) /\ ~flags.delay
Storable(n) == (Late(n) => Minus(ack.seq, SeqNo(n)) \in ack.gaps) /\ CanStore(rb, SeqNo(n))

\* Known already, or out of the ring.
Refuse(n, names) ==
    /\ Comes(n, names) /\ ~Direct(n) /\ ~Storable(n)
    /\ UNCHANGED <<flags, rb, ack, items, kept, given, claimed, nacked, fails, twice>>

\* ack_map after the store, and whether to report
AckAfter(n, r) ==
    IF Late(n) THEN Shift(r, [ack EXCEPT !.gaps = @ \ {Minus(ack.seq, SeqNo(n))}])
    ELSE IF InTurn(n) THEN [seq |-> Plus(ack.seq, 1), gaps |-> ack.gaps, do |-> FALSE]
    ELSE Shift(r, ack)
Counted(n) == ack.pkt + (IF LT(rb.max, SeqNo(n)) THEN Minus(SeqNo(n), rb.max) ELSE 0)

\* The end of ecp_rbuf_store, and the handler of a message that is handled at once.
Acknowledge(n, a, r) ==
    LET do   == a.do \/ (LT(rb.max, SeqNo(n)) /\ Counted(n) > AckRate)
        asks == kind'[n] = "flush"
    IN  \/ /\ SendAcks((IF do THEN {Report(r, a)} ELSE {}) \union (IF asks THEN {Raw(a)} ELSE {}))
           /\ ack' = [seq |-> a.seq, gaps |-> a.gaps, pkt |-> IF do \/ asks THEN 0 ELSE Counted(n)]
           /\ UNCHANGED fails
        \/ /\ do /\ fails < MaxFail /\ fails' = fails + 1
           /\ SendAcks({})
           /\ ack' = [seq |-> a.seq, gaps |-> a.gaps, pkt |-> Counted(n)]

\* The next message into an empty buffer takes no slot.
Deliver(n, names) ==
    /\ Comes(n, names) /\ Direct(n)
    /\ LET r == [rb EXCEPT !.max = Plus(@, 1), !.start = Plus(@, 1), !.idx = IndexAfter(rb, 1)] IN
       /\ Acknowledge(n, AckAfter(n, r), r)
       /\ rb' = IF fails' = fails THEN StoreNop(r, names) ELSE r
    /\ given' = IF kind'[n] = "data" /\ fails' = fails THEN given \union {n} ELSE given
    /\ kept' = kept \union {n} /\ twice' = (twice \/ n \in kept)
    /\ UNCHANGED <<flags, items>>

Keep(n, names, early) ==
    /\ Comes(n, names) /\ ~Direct(n) /\ Storable(n)
    /\ early => n \in Timed /\ kind'[n] = "data"
    /\ \E r \in {StoreNop(Store(rb, n, early), names)} :
       /\ Flush(r, items)
       /\ Acknowledge(n, AckAfter(n, r), r)
    /\ kept' = kept \union {n}
    /\ UNCHANGED <<flags, twice>>

\* The time of a message comes (ecp_tm_abstime_ms).
Ripen(i) ==
    /\ rb.slot[i].in /\ rb.slot[i].early
    /\ rb' = [rb EXCEPT !.slot[i].early = FALSE]
    /\ UNCHANGED <<flags, kind, win, ack, items, kept, given, claimed, nacked, fails, twice>>

\* ecp_rbuf_handle_timer
TimerFires(n) ==
    /\ ~\E i \in DOMAIN rb.slot : rb.slot[i].in /\ rb.slot[i].n = n /\ rb.slot[i].early
    /\ Flush(rb, items \ {n})
    /\ UNCHANGED <<flags, kind, win, ack, kept, claimed, nacked, fails, twice>>

\* Without a delay no message is early.
Timing == {FALSE, flags.delay}
Nacked(n) == {x[1] : x \in {y \in nacked : y[2] < n}}
Sent == {n \in Number : flags.delay => n <= MaxSlow}

Next ==
    \/ \E n \in Sent : \E names \in SUBSET Nacked(n) : Refuse(n, names) \/ Deliver(n, names)
    \/ \E n \in Sent, early \in Timing : \E names \in SUBSET Nacked(n) : Keep(n, names, early)
    \/ \E n \in items : TimerFires(n)
    \/ \E i \in DOMAIN rb.slot : Ripen(i)
Spec == Init /\ [][Next]_vars
-----------------------------------------------------------------------------
Systemic == {n \in DOMAIN kind : kind[n] # "data"}

\* Messages are handed over in order, once, and none that was kept is left out; if the buffer is
\* reliable, none at all.  Excepted are a copy that the replay window let in and that an empty buffer
\* takes for the next message, and a message that is thrown away because an acknowledgement could not be
\* sent (ecp_rbuf_store, msg_store, msg_flush).
R == INSTANCE EcpRbufSpec WITH
    waiting <- {rb.slot[i].n : i \in {j \in DOMAIN rb.slot : rb.slot[j].in /\ ~rb.slot[j].skip}},
    passed <- Num(rb.start) - 1,
    skip <- Systemic,
    strict <- flags.reliable /\ fails = 0,
    sound <- ~twice
Implements == R!Spec

\* A reliable buffer never reports a message of the application as received that was not: the sender
\* would forget it (ack_shift, ecp_rbuf_store, ecp_rbuf_handle_flush).
AcksHonest ==
    ~twice => claimed \subseteq kept \union Systemic
=============================================================================

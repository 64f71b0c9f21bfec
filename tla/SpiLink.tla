------------------------------ MODULE SpiLink -------------------------------
(***************************************************************************)
(* Both ends of the inter-processor link: the FE310 (EosNet) with the      *)
(* ESP32's exchange task and the tasks that send (fw/esp32 net.c).         *)
(*                                                                         *)
(* The exchange task takes a message from its queue, or lowers RTS if      *)
(* there is none, offers an exchange (CTS) and handles what it received.   *)
(* A message the FE310 does not want to hear now (ONEW) is offered again.  *)
(* RTS and CTS are wires: the FE310 sees their edges, each edge pending    *)
(* until its interrupt is handled, RTS before CTS.                         *)
(*                                                                         *)
(* The ESP32 numbers its messages, the FE310 those it queues and those     *)
(* that bypass the queue because their sender waits for the bus.           *)
(***************************************************************************)
EXTENDS EosNet

CONSTANTS
    EspQSize,   \* EOS_NET_SIZE_SNDQ and EOS_NET_SIZE_BUFQ of the ESP32
    MaxEsp,     \* bound: messages of the ESP32
    MaxFe       \* bound: messages of the FE310, of each kind

ASSUME LinkAssumption ==
    /\ EspQSize \in Nat \ {0} /\ {MaxEsp, MaxFe} \subseteq Nat
    /\ Header = {"none", "msg"}

VARIABLES
    at,        \* where the exchange task is
    espq,      \* net_send_q of the ESP32
    offer,     \* buf_send: the message on offer, 0 for none
    skip,      \* skip_msg
    recv,      \* buf_recv after an exchange
    wire,      \* RTS, and the edges the FE310 has not handled yet
    data,      \* the message in each of the FE310's buffers
    sent,      \* (history) messages sent, by the ESP32 and in the two ways of the FE310
    got,       \* (history) what the FE310 took from the wire, and what the ESP32 did
    answer,    \* the reply to the synchronous call under way
    merged     \* (history) RTS rose while its fall was pending

esp == <<at, espq, offer, skip, recv>>
hist == <<data, sent, got, answer, merged>>
linkVars == <<vars, esp, wire, hist>>

Way == {"esp", "queued", "direct"}
None == [way |-> "none", n |-> 0, repl |-> FALSE]
Msg(w, n, r) == [way |-> w, n |-> n, repl |-> r]

LinkInit ==
    /\ Init /\ rts = FALSE
    /\ at = "pop" /\ espq = <<>> /\ offer = 0 /\ skip = FALSE
    /\ recv = [msg |-> None, onew |-> FALSE]
    /\ wire = [rts |-> FALSE, rise |-> FALSE, fall |-> FALSE, cts |-> FALSE]
    /\ data = [b \in Buffer |-> None]
    /\ sent = [way \in Way |-> 0]
    /\ got = [way \in Way |-> <<>>]
    /\ answer = 0
    /\ merged = FALSE
-----------------------------------------------------------------------------
(* The ESP32 *)

\* The next message, or RTS down; unless the last one is offered once more.
\* (Mutant: RTS goes down with the last message.)
RtsDownEarly(w) ==
    IF Len(espq) <= 1 THEN [w EXCEPT !.rts = FALSE, !.fall = w.rts \/ @] ELSE w
RtsDown(w) ==
    IF espq = <<>> THEN [w EXCEPT !.rts = FALSE, !.fall = w.rts \/ @] ELSE w
TakeMessage ==
    /\ at = "pop" /\ at' = "offer"
    /\ skip' = FALSE
    /\ IF skip THEN UNCHANGED <<espq, offer, wire>>
       ELSE /\ wire' = RtsDown(wire)
            /\ offer' = IF espq = <<>> THEN 0 ELSE Head(espq)
            /\ espq' = IF espq = <<>> THEN espq ELSE Tail(espq)
    /\ UNCHANGED <<vars, recv, hist>>

\* spi_slave_transmit: _post_setup_cb raises CTS.
OfferExchange ==
    /\ at \in {"offer", "reply"}
    /\ at' = IF at = "offer" THEN "ready" ELSE "replying"
    /\ wire' = [wire EXCEPT !.cts = TRUE]
    /\ UNCHANGED <<vars, espq, offer, skip, recv, hist>>

\* What was received: nothing (a poll), or a message for its handler.  What was offered
\* during a one-way exchange is kept.  (Mutant: it is not.)
KeepNothing == FALSE
KeepOffer == recv.onew /\ offer # 0
\* (Mutant: a message that keeps an offer waiting is not handled.)
HandledAlone(m) == IF m = None \/ KeepOffer THEN got ELSE [got EXCEPT ![m.way] = Append(@, m.n)]
Handled(m) == IF m = None THEN got ELSE [got EXCEPT ![m.way] = Append(@, m.n)]
HandleReceived ==
    /\ at = "received"
    /\ skip' = KeepOffer
    /\ got' = Handled(recv.msg)
    /\ at' = IF recv.msg.repl THEN "reply" ELSE "pop"
    /\ UNCHANGED <<vars, espq, offer, recv, wire, data, sent, answer, merged>>

\* eos_net_send of a task that has one of the buffers.
EspSend ==
    /\ sent.esp < MaxEsp /\ Len(espq) < EspQSize
    /\ espq' = Append(espq, sent.esp + 1)
    /\ sent' = [sent EXCEPT !.esp = @ + 1]
    /\ wire' = [wire EXCEPT !.rts = TRUE, !.rise = ~wire.rts \/ @]
    /\ merged' = (merged \/ (~wire.rts /\ wire.fall))
    /\ UNCHANGED <<vars, at, offer, skip, recv, data, got, answer>>

\* The transaction ends: a byte only (net_xchg_reset), an exchange, the reply.
Transmitted(short) ==
    /\ at' = IF short \/ at = "replying" THEN "pop" ELSE "received"
    /\ recv' = IF short \/ at = "replying" THEN recv ELSE [msg |-> data[stBuf], onew |-> onew]
    /\ UNCHANGED <<espq, offer, skip>>
-----------------------------------------------------------------------------
(* The FE310's interrupts, each for an edge that is pending or for the SPI *)

TakeRise ==
    /\ wire.rise /\ HandleRtsRise
    /\ wire' = [wire EXCEPT !.rise = FALSE]
    /\ IF cts /\ run THEN Transmitted(TRUE) ELSE UNCHANGED esp
    /\ UNCHANGED hist

TakeFall ==
    /\ wire.fall /\ ~wire.rise /\ RtsFallHandler
    /\ wire' = [wire EXCEPT !.fall = FALSE]
    /\ UNCHANGED <<esp, hist>>

TakeCts ==
    /\ wire.cts /\ ~wire.rise /\ ~wire.fall /\ CtsHandler
    /\ wire' = [wire EXCEPT !.cts = FALSE]
    /\ UNCHANGED <<esp, hist>>

\* What the ESP32 transmits  (Mutant: the offer even when a reply is due.)
OfferedAlways == offer
Offered == IF at = "replying" THEN recv.msg.n ELSE offer
TakeHeader ==
    /\ HandleHeader(IF Offered = 0 THEN "none" ELSE "msg")
    /\ UNCHANGED <<esp, wire, hist>>

\* A message that finds the event queue full is taken from the wire and dropped.
TakeDone ==
    /\ HandleDone
    /\ Transmitted(FALSE)
    /\ data' = [data EXCEPT ![stBuf] = None]
    /\ got' = IF stType = "none" \/ at = "replying" THEN got
              ELSE [got EXCEPT !.esp = Append(@, offer)]
    /\ answer' = IF at = "replying" /\ stType # "none" THEN Offered ELSE answer
    /\ UNCHANGED <<wire, sent, merged>>
-----------------------------------------------------------------------------
(* The FE310's main loop *)

Sends(b, way, repl) ==
    /\ sent[way] < MaxFe
    /\ sent' = [sent EXCEPT ![way] = @ + 1]
    /\ data' = [data EXCEPT ![b] = Msg(way, sent[way] + 1, repl)]
    /\ answer' = 0
    /\ UNCHANGED <<esp, wire, got, merged>>

SendQueued == \E b \in Buffer, oneway \in BOOLEAN : NetSendAsync(b, oneway) /\ Sends(b, "queued", FALSE)
\* The exchange that fetches a reply is one-way while a buffer is owed: the reply is ignored.
Ignored == -1
FetchReply ==
    /\ NetXchgReply
    /\ answer' = IF Short THEN Ignored ELSE answer
    /\ UNCHANGED <<esp, wire, data, sent, got, merged>>

SendDirect == \E b \in Buffer, s, repl \in BOOLEAN :
                  NetXchgBegin(b, s, repl) /\ Sends(b, "direct", repl)

OtherStep ==
    /\ \/ Loop
       \/ NetAcquire \/ NetAlloc \/ NetAllocDone
       \/ \E b \in Buffer, more \in BOOLEAN : NetFree(b, more)
       \/ NetPause \/ NetXchgSync \/ NetXchgEnd
       \/ SpiSelect \/ NetStopped \/ SpiDeselect
    /\ UNCHANGED <<esp, wire, hist>>

TakeEvent == \E e \in Event : EvtIntr(e) /\ UNCHANGED <<esp, wire, hist>>

Esp == TakeMessage \/ OfferExchange \/ HandleReceived
Fe == SendQueued \/ SendDirect \/ FetchReply \/ OtherStep
FeInterrupt == TakeRise \/ TakeFall \/ TakeCts \/ TakeHeader \/ TakeDone
LinkNext == Esp \/ EspSend \/ Fe \/ FeInterrupt \/ TakeEvent

\* The ESP32's task and the FE310's main loop go on and interrupts are handled.
LinkFairness == WF_linkVars(Esp) /\ WF_linkVars(Fe) /\ WF_linkVars(FeInterrupt)
LinkSpec == LinkInit /\ [][LinkNext]_linkVars /\ LinkFairness
-----------------------------------------------------------------------------
\* The ESP32 does to the FE310 only what EosNet takes for granted: CTS rises once per
\* exchange and never during one (net_xchg_task, spi_slave_transmit).
FollowsEosNet == Spec

Seq1(n) == [i \in 1 .. n |-> i]
Some(m, way) == IF m.way = way THEN <<m.n>> ELSE <<>>

\* What is still on offer: not yet exchanged, or exchanged one-way
Pending ==
    IF offer # 0 /\ (skip \/ at \in {"offer", "ready"} \/ (at = "received" /\ recv.onew))
    THEN <<offer>> ELSE <<>>

\* Every message of the ESP32 is in one place and in its turn: taken by the FE310, then on offer, then
\* queued.  None is lost, repeated or overtaken by a one-way exchange, a reset or a pause.
EspKept == got.esp \o Pending \o espq = Seq1(sent.esp)

OnItsWay(way) ==
    (IF at = "received" THEN Some(recv.msg, way) ELSE <<>>)
    \o (IF xchg # "idle" THEN Some(data[stBuf], way) ELSE <<>>)

\* The same for the FE310's messages, queued and direct.
FeKept ==
    /\ got.queued \o OnItsWay("queued") \o [i \in DOMAIN sendq |-> data[sendq[i].buf].n]
           = Seq1(sent.queued)
    /\ got.direct \o OnItsWay("direct")
           \o (IF pc \in {"pause", "cts1"} THEN <<data[op.buf].n>> ELSE <<>>) = Seq1(sent.direct)

\* A synchronous call that asks for a reply gets the reply to its own request, unless a buffer was owed
\* when it was fetched (eos_net_xchg, eos_net_reply).
AnswerFits ==
    pc = "done" /\ op.repl /\ xchg = "idle" => answer \in {sent.direct, Ignored}

\* RTS fell and rose again before the FE310 looked: net_handle_rts takes the rising edge first and
\* the falling one second, and ends with the flag down while the line is up.
Forgotten == merged /\ wire.rts /\ ~rts /\ ~wire.rise /\ ~wire.fall

\* Whatever the FE310 does with its buffers, again and again it has taken all the ESP32 has sent,
\* or has forgotten its request by the order in which it takes two edges.
MessagesArrive == []<>(Len(got.esp) = sent.esp \/ Forgotten)
=============================================================================

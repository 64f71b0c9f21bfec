------------------------------- MODULE EosNet -------------------------------
(***************************************************************************)
(* The FE310 side of the inter-processor link: fw/fe310/eos/net.c with the *)
(* queues of msgq.c, the event loop of event.c and the device switch of    *)
(* spi_dev.c.  The FE310 is the SPI master.  The ESP32 raises CTS when it  *)
(* is ready for one exchange and RTS while it has messages to deliver.     *)
(*                                                                         *)
(* Two threads of control share the state: the main loop, which runs one   *)
(* event handler at a time, and the interrupt handlers, which run between  *)
(* any two critical sections (mstatus.MIE) of the main loop.  Each action  *)
(* is one interrupt handler or one critical section.                       *)
(*                                                                         *)
(* Message buffers are few (EOS_NET_SIZE_BUFQ) and move between the free   *)
(* queue, the send queue, the event queue, the exchange under way, the     *)
(* buffer reserved for the next eos_net_alloc, and the application.        *)
(***************************************************************************)
EXTENDS Integers, Sequences, FiniteSets

CONSTANTS
    Buffer,     \* net_bufq_buffer: the message buffers
    NoBuf,      \* NULL
    Wrapped,    \* event types registered with eos_net_acquire_for_evt
    Plain,      \* the other event types
    Explicit,   \* the plain events whose handler calls eos_net_acquire itself
    EvtSize,    \* EOS_EVT_SIZE_Q
    Header,     \* received headers: "none" (type 0), "msg", "bad" (len > MTU)
    MaxOps      \* bound: blocking calls of one handler activation

ASSUME BufferAssumption == IsFiniteSet(Buffer) /\ NoBuf \notin Buffer
ASSUME EventAssumption ==
    /\ IsFiniteSet(Wrapped) /\ IsFiniteSet(Plain)
    /\ Wrapped \cap Plain = {} /\ Explicit \subseteq Plain
    /\ {"net", "none"} \cap (Wrapped \cup Plain) = {}
ASSUME SizeAssumption == EvtSize \in Nat \ {0} /\ MaxOps \in Nat
ASSUME HeaderAssumption == "none" \in Header /\ Header \subseteq {"none", "msg", "bad"}

VARIABLES
    run, cts, rts,      \* NET_STATE_FLAG_RUN, _CTS, _RTS
    xchg,               \* _XCHG and _INIT: "idle", "init" (header), "data"
    onew, sync,         \* _ONEW, _SYNC
    stType, stBuf,      \* net_state_type (after the header), net_state_buf
    bufq, sendq, evtq,  \* net_buf_q, net_send_q, _eos_event_q
    nextCnt, nextBuf,   \* net_state_next_cnt, net_state_next_buf
    acq,                \* net_wrapper_acq: failed acquisitions, by event type
    pc, ev,             \* where the main loop is, the event it handles
    acquired,           \* the handler runs under an acquisition
    held,               \* the buffers the application owns
    credit,             \* why eos_net_alloc may be called: "none", "held", "more"
    op,                 \* the net_xchg call under way
    dev,                \* another SPI device is selected (spi_dev.c)
    ops,                \* blocking calls made by this activation
    armed, dropped,     \* event sources that may interrupt; events lost
    lost                \* buffers no part of the program refers to any more

flags == <<run, sync>>
link  == <<cts, xchg, onew, stType, stBuf>>
resv  == <<nextCnt, nextBuf, acq>>
main  == <<pc, ev, acquired, held, credit, op, dev, ops>>
srcs  == <<armed, dropped>>
vars  == <<flags, link, rts, bufq, sendq, evtq, resv, main, srcs, lost>>

Event    == Wrapped \cup Plain
NoOp     == [buf |-> NoBuf, onew |-> FALSE, sync |-> FALSE, repl |-> FALSE, back |-> FALSE]
Op       == [buf : Buffer \cup {NoBuf}, onew : BOOLEAN, sync : BOOLEAN,
             repl : BOOLEAN, back : BOOLEAN]
SendItem == [buf : Buffer, onew : BOOLEAN]
EvtItem  == [type : {"net"}, buf : Buffer] \cup [type : Event, buf : {NoBuf}]
Place    == {"loop", "dispatch", "acquire", "requeue", "handler", "release",
             "alloc", "pause", "cts1", "cts2", "done", "reselect", "stopping"}

Init ==
    /\ run = TRUE /\ cts = FALSE /\ rts \in BOOLEAN
    /\ xchg = "idle" /\ onew = FALSE /\ sync = FALSE
    /\ stType = "none" /\ stBuf = NoBuf
    /\ bufq \in {s \in [1..Cardinality(Buffer) -> Buffer] :
                    \A i, j \in DOMAIN s : s[i] = s[j] => i = j}
    /\ sendq = <<>> /\ evtq = <<>>
    /\ nextCnt = 0 /\ nextBuf = NoBuf /\ acq = {}
    /\ pc = "loop" /\ ev = "none" /\ acquired = FALSE /\ held = {}
    /\ credit = "none" /\ op = NoOp /\ dev = FALSE /\ ops = 0
    /\ armed = Event /\ dropped = {} /\ lost = {}

-----------------------------------------------------------------------------
(* Exchanges *)

\* A buffer is owed to a failed acquisition and none is set aside.
Short == nextCnt > 0 /\ nextBuf = NoBuf

\* net_xchg_start: while a buffer is owed the exchange is one-way, so that
\* its buffer comes back empty.  (Mutant: only when asked for.)
OneWayAsked(oneway) == onew \/ oneway
OneWay(oneway) == onew \/ oneway \/ Short
NetXchgStart(oneway, b) ==
    /\ cts' = FALSE
    /\ xchg' = "init"
    /\ onew' = OneWay(oneway)
    /\ stType' = "none"
    /\ stBuf' = b

\* net_xchg_next on a link whose CTS is (now) up.  A given buffer that no
\* exchange takes goes back to the free queue, as eos_net_free does with it.
NetXchgNext(given) ==
    LET back == IF given = NoBuf THEN bufq ELSE Append(bufq, given) IN
    \/ /\ sendq # <<>>
       /\ NetXchgStart(Head(sendq).onew, Head(sendq).buf)
       /\ sendq' = Tail(sendq)
       /\ bufq' = back
    \/ /\ sendq = <<>> /\ rts /\ back # <<>>
       /\ NetXchgStart(FALSE, IF given = NoBuf THEN Head(bufq) ELSE given)
       /\ bufq' = IF given = NoBuf THEN Tail(bufq) ELSE bufq
       /\ UNCHANGED sendq
    \/ /\ sendq = <<>> /\ (~rts \/ back = <<>>)
       /\ cts' = TRUE
       /\ bufq' = back
       /\ UNCHANGED <<xchg, onew, stType, stBuf, sendq>>

\* net_resume  (Mutant: what waited while the link was paused is not started.)
NetResumeOnly == run' = TRUE /\ UNCHANGED <<link, bufq, sendq>>
NetResume ==
    /\ run' = TRUE
    /\ IF cts THEN NetXchgNext(NoBuf) ELSE UNCHANGED <<link, bufq, sendq>>

-----------------------------------------------------------------------------
(* Interrupts *)

\* net_handle_cts
CtsHandler ==
    /\ IF run THEN NetXchgNext(NoBuf)
              ELSE cts' = TRUE /\ UNCHANGED <<xchg, onew, stType, stBuf, bufq, sendq>>
    /\ UNCHANGED <<flags, rts, evtq, resv, main, srcs, lost>>

\* The ESP32 raises CTS once per exchange, when it is idle.
HandleCts == ~cts /\ xchg = "idle" /\ CtsHandler

\* net_handle_rts, rising edge: on an idle link net_xchg_reset makes the ESP32
\* start over and raise CTS again.  (Mutant: it does not.)
RtsKeepsCts == cts
RtsLeavesCts == cts /\ ~run
HandleRtsRise ==
    /\ rts' = TRUE
    /\ cts' = RtsLeavesCts
    /\ UNCHANGED <<flags, xchg, onew, stType, stBuf, bufq, sendq, evtq, resv, main, srcs, lost>>

\* net_handle_rts, falling edge
RtsFallHandler ==
    /\ rts' = FALSE
    /\ UNCHANGED <<flags, link, bufq, sendq, evtq, resv, main, srcs, lost>>
HandleRtsFall == rts /\ RtsFallHandler

\* net_handle_xchg, header received.  A one-way exchange ignores it; an
\* impossible length ends the exchange where it is.
HandleHeader(h) ==
    LET h1 == IF onew THEN "none" ELSE h IN
    /\ xchg = "init"
    /\ stType' = IF h1 = "none" THEN "none" ELSE "msg"
    /\ xchg' = IF h1 = "bad" THEN "idle" ELSE "data"
    /\ lost' = IF h1 = "bad" /\ ~sync THEN lost \cup {stBuf} ELSE lost
    /\ UNCHANGED <<flags, cts, onew, stBuf, rts, bufq, sendq, evtq, resv, main, srcs>>

\* Where a finished exchange leaves its buffer.  (Mutant: a message that finds
\* the event queue full is dropped with its buffer.)
DeliverDrops(b) ==
    \/ /\ stType = "msg"
       /\ evtq' = IF Len(evtq) < EvtSize THEN Append(evtq, [type |-> "net", buf |-> b]) ELSE evtq
       /\ UNCHANGED <<bufq, nextBuf>>
    \/ /\ stType = "none"
       /\ nextBuf' = IF (onew \/ nextCnt > 0) /\ nextBuf = NoBuf THEN b ELSE nextBuf
       /\ bufq' = IF nextBuf' = nextBuf THEN Append(bufq, b) ELSE bufq
       /\ UNCHANGED evtq
Deliver(b) ==
    \/ /\ stType = "msg" /\ Len(evtq) < EvtSize
       /\ evtq' = Append(evtq, [type |-> "net", buf |-> b])
       /\ UNCHANGED <<bufq, nextBuf>>
    \/ /\ stType = "msg" /\ Len(evtq) = EvtSize
       /\ bufq' = Append(bufq, b)
       /\ UNCHANGED <<evtq, nextBuf>>
    \/ /\ stType = "none" /\ (onew \/ nextCnt > 0) /\ nextBuf = NoBuf
       /\ nextBuf' = b
       /\ UNCHANGED <<evtq, bufq>>
    \/ /\ stType = "none" /\ ~((onew \/ nextCnt > 0) /\ nextBuf = NoBuf)
       /\ bufq' = Append(bufq, b)
       /\ UNCHANGED <<evtq, nextBuf>>

\* net_handle_xchg, exchange done
HandleDone ==
    /\ xchg = "data"
    /\ IF sync THEN UNCHANGED <<evtq, bufq, nextBuf>> ELSE Deliver(stBuf)
    /\ xchg' = "idle"
    /\ onew' = FALSE
    /\ UNCHANGED <<flags, cts, stType, stBuf, rts, sendq, nextCnt, acq, main, srcs, lost>>

\* Another interrupt source (UART, I2S, touch, timer) disables itself and
\* queues its event; a full queue drops it.
EvtIntr(e) ==
    /\ e \in armed
    /\ armed' = armed \ {e}
    /\ IF Len(evtq) < EvtSize
       THEN evtq' = Append(evtq, [type |-> e, buf |-> NoBuf]) /\ UNCHANGED dropped
       ELSE dropped' = dropped \cup {e} /\ UNCHANGED evtq
    /\ UNCHANGED <<flags, link, rts, bufq, sendq, resv, main, lost>>

Interrupt ==
    \/ HandleCts \/ HandleRtsRise \/ HandleRtsFall
    \/ \E h \in Header : HandleHeader(h)
    \/ HandleDone
    \/ \E e \in Event : EvtIntr(e)

-----------------------------------------------------------------------------
(* The event loop *)

\* eos_evtq_loop.  The handler of a NET event owns its buffer.
Pop ==
    /\ pc = "loop" /\ evtq # <<>>
    /\ evtq' = Tail(evtq)
    /\ ev' = Head(evtq).type
    /\ held' = held \cup ({Head(evtq).buf} \ {NoBuf})
    /\ pc' = IF ev' \in Wrapped THEN "dispatch" ELSE "handler"
    /\ UNCHANGED <<flags, link, rts, bufq, sendq, resv, acquired, credit, op, dev, ops, srcs, lost>>

\* net_acquire(0): set a buffer aside now or count one more that is owed
\* (Mutant: the failure is not counted.)
Owing == nextCnt
OneMoreOwed == nextCnt + 1
TryAcquire(ok, failed) ==
    \/ /\ nextBuf # NoBuf \/ bufq # <<>>
       /\ nextBuf' = IF nextBuf = NoBuf THEN Head(bufq) ELSE nextBuf
       /\ bufq' = IF nextBuf = NoBuf THEN Tail(bufq) ELSE bufq
       /\ pc' = ok /\ acquired' = TRUE /\ credit' = "held"
       /\ UNCHANGED nextCnt
    \/ /\ nextBuf = NoBuf /\ bufq = <<>>
       /\ nextCnt' = OneMoreOwed
       /\ pc' = failed
       /\ UNCHANGED <<nextBuf, bufq, acquired, credit>>

\* evt_handler_wrapper up to the handler  (Mutant: the failed acquisition is
\* not recorded for the event's type.)
Unrecorded == acq
Recorded == acq \cup {ev}
Dispatch ==
    /\ pc = "dispatch"
    /\ IF ev \in acq
       THEN pc' = "acquire" /\ UNCHANGED <<bufq, resv, acquired, credit>>
       ELSE /\ TryAcquire("handler", "requeue")
            /\ acq' = IF pc' = "requeue" THEN Recorded ELSE acq
    /\ UNCHANGED <<flags, link, rts, sendq, evtq, ev, held, op, dev, ops, srcs, lost>>

\* net_acquire(1): wait for the buffer that is owed
AcquireReserved ==
    /\ pc = "acquire" /\ nextBuf # NoBuf
    /\ nextCnt' = nextCnt - 1
    /\ pc' = "handler" /\ acquired' = TRUE /\ credit' = "held"
    /\ UNCHANGED <<flags, link, rts, bufq, sendq, evtq, nextBuf, acq, ev, held, op, dev, ops, srcs, lost>>

\* evt_handler_wrapper without a buffer: eos_evtq_push, its result ignored
\* (Mutant: the event is not queued again.)
QueuedNoMore == evtq
QueuedAgain == Append(evtq, [type |-> ev, buf |-> NoBuf])
Requeue ==
    /\ pc = "requeue"
    /\ IF Len(evtq) < EvtSize
       THEN evtq' = QueuedAgain /\ UNCHANGED dropped
       ELSE dropped' = dropped \cup {ev} /\ UNCHANGED evtq
    /\ pc' = "loop" /\ ev' = "none"
    /\ UNCHANGED <<flags, link, rts, bufq, sendq, resv, acquired, held, credit, op, dev, ops, armed, lost>>

\* The handler returns; it has given away its buffers and deselected its
\* device, and its event source may interrupt again.
Finish ==
    /\ pc = "handler" /\ held = {} /\ ~dev
    /\ armed' = armed \cup ({ev} \cap Event)
    /\ IF acquired THEN pc' = "release" /\ UNCHANGED ev ELSE pc' = "loop" /\ ev' = "none"
    /\ credit' = "none" /\ ops' = 0
    /\ UNCHANGED <<flags, link, rts, bufq, sendq, evtq, resv, acquired, held, op, dev, dropped, lost>>

\* eos_net_release and the end of evt_handler_wrapper
NetRelease ==
    /\ pc = "release"
    /\ IF nextCnt = 0 /\ nextBuf # NoBuf
       THEN bufq' = Append(bufq, nextBuf) /\ nextBuf' = NoBuf
       ELSE UNCHANGED <<bufq, nextBuf>>
    /\ acq' = acq \ {ev}
    /\ pc' = "loop" /\ ev' = "none" /\ acquired' = FALSE
    /\ UNCHANGED <<flags, link, rts, sendq, evtq, nextCnt, held, credit, op, dev, ops, srcs, lost>>

Loop == Pop \/ Dispatch \/ AcquireReserved \/ Requeue \/ Finish \/ NetRelease

-----------------------------------------------------------------------------
(* What a handler may call *)

InHandler == pc = "handler"
MayBlock  == ops < MaxOps /\ ops' = ops + 1

\* eos_net_acquire, called by a handler that is not wrapped
NetAcquire ==
    /\ InHandler /\ ev \in Explicit /\ ~acquired /\ MayBlock
    /\ TryAcquire("handler", "acquire")
    /\ UNCHANGED <<flags, link, rts, sendq, evtq, acq, ev, held, op, dev, srcs, lost>>

\* eos_net_alloc: called, then returning
NetAlloc ==
    /\ InHandler /\ credit # "none" /\ MayBlock
    /\ pc' = "alloc"
    /\ UNCHANGED <<flags, link, rts, bufq, sendq, evtq, resv, ev, acquired, held, credit, op, dev, srcs, lost>>

NetAllocDone ==
    /\ pc = "alloc" /\ nextBuf # NoBuf
    /\ held' = held \cup {nextBuf} /\ nextBuf' = NoBuf
    /\ credit' = "none" /\ pc' = "handler"
    /\ UNCHANGED <<flags, link, rts, bufq, sendq, evtq, nextCnt, acq, ev, acquired, op, dev, ops, srcs, lost>>

\* eos_net_free: the buffer is set aside, serves the idle link or is free.
\* (Mutants: it is set aside only if one is owed; it never serves the link.)
SetAsideOwed(more) == Short
SetAside(more) == (more \/ nextCnt > 0) /\ nextBuf = NoBuf
GiveBack(b) == bufq' = Append(bufq, b) /\ UNCHANGED <<link, sendq>>
GiveLink(b) == IF run /\ cts THEN NetXchgNext(b) ELSE GiveBack(b)
NetFree(b, more) ==
    /\ InHandler /\ b \in held /\ (more => acquired)
    /\ held' = held \ {b}
    /\ credit' = IF more THEN "held" ELSE credit
    /\ \/ /\ SetAside(more)
          /\ nextBuf' = b
          /\ UNCHANGED <<link, bufq, sendq>>
       \/ /\ ~SetAside(more)
          /\ GiveLink(b)
          /\ UNCHANGED nextBuf
    /\ UNCHANGED <<flags, rts, evtq, nextCnt, acq, pc, ev, acquired, op, dev, ops, srcs, lost>>

\* net_xchg without the bus wait: eos_net_send_async while the link runs, or
\* a message that may wait while another device is selected
NetSendAsync(b, oneway) ==
    /\ InHandler /\ b \in held /\ (run \/ ~oneway)
    /\ held' = held \ {b}
    /\ credit' = IF oneway /\ credit = "none" THEN "more" ELSE credit
    /\ IF run /\ cts
       THEN NetXchgStart(oneway, b) /\ UNCHANGED sendq
       ELSE sendq' = Append(sendq, [buf |-> b, onew |-> oneway]) /\ UNCHANGED link
    /\ UNCHANGED <<flags, rts, bufq, evtq, resv, pc, ev, acquired, op, dev, ops, srcs, lost>>

\* net_xchg that must have the bus: a synchronous call, or a one-way message
\* sent while another device is selected.  It pauses the link, after giving
\* the bus back to it (eos_spi_deselect) if need be.
NetXchgBegin(b, s, repl) ==
    /\ InHandler /\ b \in held /\ (s \/ ~run) /\ (repl => s) /\ MayBlock
    /\ op' = [buf |-> b, onew |-> TRUE, sync |-> s, repl |-> repl, back |-> dev]
    /\ dev' = FALSE
    /\ IF run
       THEN run' = FALSE /\ pc' = "cts1" /\ UNCHANGED <<link, bufq, sendq>>
       ELSE NetResume /\ pc' = "pause"
    /\ UNCHANGED <<sync, rts, evtq, resv, ev, acquired, held, credit, srcs, lost>>

\* net_pause after eos_spi_deselect
NetPause ==
    /\ pc = "pause"
    /\ run' = FALSE /\ pc' = "cts1"
    /\ UNCHANGED <<sync, link, rts, bufq, sendq, evtq, resv, ev, acquired, held, credit, op, dev, ops, srcs, lost>>

\* Where net_xchg goes when its exchanges are over or started
AfterXchg == IF op.back THEN "reselect" ELSE "handler"

\* CTS seen: the exchange starts.  Without SYNC the call is over.
NetXchgSync ==
    /\ pc = "cts1" /\ cts
    /\ NetXchgStart(op.onew, op.buf)
    /\ IF op.sync
       THEN /\ sync' = TRUE /\ pc' = IF op.repl THEN "cts2" ELSE "done"
            /\ UNCHANGED <<run, held, credit, op>>
       ELSE /\ run' = TRUE /\ held' = held \ {op.buf} /\ pc' = AfterXchg
            /\ credit' = IF credit = "none" THEN "more" ELSE credit
            /\ op' = NoOp
            /\ UNCHANGED sync
    /\ UNCHANGED <<rts, bufq, sendq, evtq, resv, ev, acquired, dev, ops, srcs, lost>>

\* EOS_NET_FLAG_REPL: CTS seen again, the exchange that fetches the reply starts
NetXchgReply ==
    /\ pc = "cts2" /\ cts
    /\ NetXchgStart(FALSE, op.buf)
    /\ pc' = "done"
    /\ UNCHANGED <<flags, rts, bufq, sendq, evtq, resv, ev, acquired, held, credit, op, dev, ops, srcs, lost>>

\* The last exchange of a synchronous call is over
NetXchgEnd ==
    /\ pc = "done" /\ xchg = "idle"
    /\ sync' = FALSE
    /\ NetResume
    /\ pc' = AfterXchg /\ op' = NoOp
    /\ UNCHANGED <<rts, evtq, resv, ev, acquired, held, credit, dev, ops, srcs, lost>>

\* eos_spi_select of another device: eos_net_stop waits for the exchange
\* (Mutant: it does not look at the exchange.)
BusAlways == TRUE
BusFree == xchg = "idle"
SpiSelect ==
    /\ \/ InHandler /\ run /\ credit # "more" /\ MayBlock
       \/ pc = "reselect" /\ UNCHANGED ops
    /\ run' = FALSE
    /\ dev' = BusFree
    /\ pc' = IF BusFree THEN "handler" ELSE "stopping"
    /\ UNCHANGED <<sync, link, rts, bufq, sendq, evtq, resv, ev, acquired, held, credit, op, srcs, lost>>

NetStopped ==
    /\ pc = "stopping" /\ xchg = "idle"
    /\ dev' = TRUE /\ pc' = "handler"
    /\ UNCHANGED <<flags, link, rts, bufq, sendq, evtq, resv, ev, acquired, held, credit, op, ops, srcs, lost>>

\* eos_spi_deselect
SpiDeselect ==
    /\ InHandler /\ dev
    /\ dev' = FALSE
    /\ NetResume
    /\ UNCHANGED <<sync, rts, evtq, resv, pc, ev, acquired, held, credit, op, ops, srcs, lost>>

Call ==
    \/ NetAcquire \/ NetAlloc \/ NetAllocDone
    \/ \E b \in Buffer, more \in BOOLEAN : NetFree(b, more)
    \/ \E b \in Buffer, oneway \in BOOLEAN : NetSendAsync(b, oneway)
    \/ \E b \in Buffer, s, repl \in BOOLEAN : NetXchgBegin(b, s, repl)
    \/ NetPause \/ NetXchgSync \/ NetXchgReply \/ NetXchgEnd
    \/ SpiSelect \/ NetStopped \/ SpiDeselect

MainStep == Loop \/ Call
Next == Interrupt \/ MainStep
Spec == Init /\ [][Next]_vars

\* The processor runs, the ESP32 answers CTS and clocks, handlers return.
\* Nothing obliges it to raise RTS, a source to interrupt, or a handler to
\* call what it need not.
Fairness ==
    /\ WF_vars(HandleCts)
    /\ WF_vars(\E h \in Header : HandleHeader(h))
    /\ WF_vars(HandleDone)
    /\ WF_vars(MainStep)
FairSpec == Spec /\ Fairness

-----------------------------------------------------------------------------
(* Properties *)

\* The type invariant of the FE310's link state (net.c).
TypeOK ==
    /\ {run, cts, rts, onew, sync, acquired, dev} \subseteq BOOLEAN
    /\ xchg \in {"idle", "init", "data"} /\ stType \in {"none", "msg"}
    /\ stBuf \in Buffer \cup {NoBuf} /\ nextBuf \in Buffer \cup {NoBuf}
    /\ bufq \in Seq(Buffer) /\ sendq \in Seq(SendItem) /\ evtq \in Seq(EvtItem)
    /\ nextCnt \in Nat /\ acq \subseteq Wrapped
    /\ pc \in Place /\ ev \in Event \cup {"net", "none"}
    /\ held \subseteq Buffer /\ lost \subseteq Buffer
    /\ credit \in {"none", "held", "more"} /\ op \in Op /\ ops \in 0..MaxOps
    /\ armed \subseteq Event /\ dropped \subseteq Event

\* The buffers of a queue, and that it has none twice
Elems(q) == {q[i] : i \in DOMAIN q}
Bufs(q) == {q[i].buf : i \in DOMAIN q} \ {NoBuf}
Distinct(q) == \A i, j \in DOMAIN q : q[i] = q[j] => i = j
DistinctBufs(q) ==
    \A i, j \in DOMAIN q : q[i].buf = q[j].buf /\ q[i].buf # NoBuf => i = j

\* Who has a buffer
Free     == Elems(bufq)
Sending  == Bufs(sendq)
Received == Bufs(evtq)
Reserved == {nextBuf} \ {NoBuf}
OnWire   == IF xchg # "idle" /\ ~sync THEN {stBuf} ELSE {}

\* Every buffer of net_bufq_buffer is in one place only and never disappears:
\* free, queued to be sent, in a received message, set aside, on the wire or
\* with the application.  Only a header with an impossible length loses one
\* (net_handle_xchg returns without giving it back).  A buffer in two places
\* is a message overwritten by another exchange.
OneOwner ==
    /\ Distinct(bufq) /\ DistinctBufs(sendq) /\ DistinctBufs(evtq)
    /\ Buffer = Free \cup Sending \cup Received \cup Reserved \cup OnWire \cup held \cup lost
    /\ Free \cap (Sending \cup Received \cup Reserved \cup OnWire \cup held \cup lost) = {}
    /\ Sending \cap (Received \cup Reserved \cup OnWire \cup held \cup lost) = {}
    /\ Received \cap (Reserved \cup OnWire \cup held \cup lost) = {}
    /\ Reserved \cap (OnWire \cup held \cup lost) = {}
    /\ OnWire \cap (held \cup lost) = {}
    /\ held \cap lost = {}

\* A message queued by net_xchg never waits on a link that could take it: the
\* link's flags and the queue are changed by the main loop and by interrupts.
SendsStarted == run /\ cts => sendq = <<>>

\* When the main loop is idle, the link is ready and no buffer was lost, no
\* request of the ESP32 is pending: nothing would start its exchange any more
\* (net_xchg_next, eos_net_free and net_handle_rts are what starts one).
NoMissedRequest ==
    pc = "loop" /\ evtq = <<>> /\ run /\ cts /\ lost = {} => ~rts

\* The SPI bus has one master at a time: while another device is selected no
\* exchange of the link is under way (eos_net_stop, eos_spi_select).
BusOwned == dev => xchg = "idle" /\ ~run

\* eos_net_alloc does not wait after an acquisition or a free with more = 1:
\* what was set aside is not taken by anybody else.
AcquireHonoured == credit = "held" => nextBuf # NoBuf

\* The failed acquisitions nobody has made up for yet
Owed == {e \in acq : ~(e = ev /\ acquired)}
OwedExplicit == IF pc = "acquire" /\ ev \notin Wrapped THEN 1 ELSE 0

\* net_state_next_cnt is the number of failed acquisitions that still wait.
\* Were it less, a waiting handler would find its buffer gone; were it more,
\* a buffer would stay set aside for nobody.
Reservations == nextCnt = Cardinality(Owed) + OwedExplicit

\* An event source that has disabled itself has one event queued, handled or
\* dropped by a full queue (eos_evtq_push and its callers ignore the error):
\* no source is left disabled with nothing to enable it.
Accounted ==
    \A e \in Event :
        LET queued == {i \in DOMAIN evtq : evtq[i].type = e} IN
        /\ Cardinality(queued) <= 1
        /\ e \notin armed <=>
              queued # {} \/ (ev = e /\ pc # "release") \/ e \in dropped

\* Every call that waits returns: an acquisition that failed, eos_net_alloc,
\* a synchronous exchange, the selection of another device.
CallsReturn ==
    \A p \in {"acquire", "alloc", "pause", "cts1", "cts2", "done", "stopping"} :
        pc = p ~> pc = "handler"

\* Every message queued to be sent is sent.
QueuedIsSent ==
    \A b \in Buffer : b \in Sending ~> (xchg # "idle" /\ stBuf = b)

\* A request of the ESP32 (RTS) leads to an exchange unless it is withdrawn.
RequestServed == rts ~> (~rts \/ xchg # "idle")
=============================================================================

----------------------------- MODULE SpiDaemon ------------------------------
(***************************************************************************)
(* The link between the application processor (yocto esp32spid: spi.c,     *)
(* msgq.c, tun.c) and the ESP32 (app.c, tun.c).                            *)
(*                                                                         *)
(* The daemon's threads: the worker exchanges buffers with the ESP32, the  *)
(* handler writes what came to the tun device, the reader sends what the   *)
(* device has, and the rtscts thread waits for the edges of the two lines. *)
(* The mutex of spi.c is a token: the worker takes it for every transfer,  *)
(* the rtscts thread gives it back when the ESP32 raises CTS.  A message   *)
(* of the ESP32 that is longer than the daemon's takes a second transfer.  *)
(*                                                                         *)
(* A buffer that was not sent keeps its type: used for a poll it calls the *)
(* ESP32's handler with nothing, which is not told from a poll here.       *)
(***************************************************************************)
EXTENDS Naturals, Sequences

CONSTANTS
    BufqSize,   \* SPI_SIZE_BUFQ
    EspQSize,   \* EOS_APP_SIZE_BUFQ, EOS_APP_SIZE_SNDQ
    Mtu,        \* SPI_MTU
    EspSize, AppSize,  \* the sizes of messages, by sender; a poll has size 0
    MaxSent,    \* bound: messages each way
    MaxErr      \* bound: failed transfers, and bad reads

ASSUME DaemonAssumption ==
    /\ {BufqSize, EspQSize} \subseteq Nat \ {0} /\ {Mtu, MaxSent, MaxErr} \subseteq Nat
    /\ EspSize \union AppSize \subseteq 1 .. Mtu

VARIABLES
    bufq,           \* spi_bufq: how many buffers are free
    out, in,        \* spi_msgq_out, spi_msgq_in
    token,          \* mutex is not locked
    worker, tx,     \* spi_worker: where it is, and what its buffer holds
    hand,           \* spi_handler has a buffer
    reading,        \* tun_read has a buffer
    edge,           \* edges of RTS and CTS not handled yet
    task, offer,    \* app_xchg_task: where it is, and buf_send
    recv,           \* buf_recv
    espq, rts,      \* app_send_q, and the RTS line
    late,           \* the ESP32 came up after the daemon
    sent, got,      \* (history) messages sent and received, by sender
    errs, bad,      \* (history) failed transfers; failed reads and packets that are too long
    starved         \* (history) the worker sleeps though RTS is high: it had no buffer

queues == <<bufq, out, in>>
work   == <<worker, tx, token, starved>>
users  == <<hand, reading, bad>>
app    == <<task, offer, recv, espq, rts>>
hist   == <<late, sent, got>>
vars   == <<queues, work, users, edge, app, hist, errs>>

Sender == {"esp", "app"}
Msg(n, s) == [n |-> n, size |-> s]
Empty == Msg(0, 0)
Oversize == Msg(0, Mtu + 1)

Init ==
    /\ bufq = BufqSize /\ out = <<>> /\ in = <<>>
    /\ worker = "look" /\ tx = Empty /\ token = TRUE /\ starved = FALSE
    /\ hand = FALSE /\ reading = FALSE /\ bad = 0
    /\ edge = [rts |-> 0, cts |-> 0]
    /\ late \in BOOLEAN /\ task = IF late THEN "pop" ELSE "ready"
    /\ offer = Empty /\ recv = Empty /\ espq = <<>> /\ rts = FALSE
    /\ sent = [w \in Sender |-> 0] /\ got = [w \in Sender |-> <<>>]
    /\ errs = 0
-----------------------------------------------------------------------------
(* The worker.  It holds msgq_out's mutex while it looks, so no signal comes in between. *)

LookOut ==
    /\ worker = "look" /\ out # <<>>
    /\ worker' = "first" /\ tx' = Head(out) /\ out' = Tail(out)
    /\ UNCHANGED <<bufq, in, token, starved, users, edge, app, hist, errs>>

\* (Mutant: the level of RTS is not looked at.)
AskedNot == FALSE
Asked == rts
LookRts ==
    /\ worker = "look" /\ out = <<>>
    /\ IF Asked /\ bufq > 0
       THEN worker' = "first" /\ bufq' = bufq - 1 /\ UNCHANGED starved
       ELSE worker' = "sleep" /\ starved' = (rts /\ bufq = 0) /\ UNCHANGED bufq
    /\ UNCHANGED <<out, in, tx, token, users, edge, app, hist, errs>>

\* pthread_cond_wait returns, for the signal or for no reason.
Wake ==
    /\ worker \in {"sleep", "woken"}
    /\ starved' = FALSE
    /\ IF out = <<>> THEN worker' = "look" /\ UNCHANGED <<tx, out>>
       ELSE worker' = "first" /\ tx' = Head(out) /\ out' = Tail(out)
    /\ UNCHANGED <<bufq, in, token, users, edge, app, hist, errs>>

\* Is there more to come than was clocked?  Both ends ask the same.
More(o, t) == o.size > t.size

\* A transfer with an ESP32 that waits for it
Transfer ==
    /\ worker = "first" /\ tx # Oversize /\ token /\ task = "ready"
    /\ token' = FALSE
    /\ tx' = offer /\ recv' = tx
    /\ worker' = IF More(offer, tx) THEN "second" ELSE "done"
    /\ task' = IF More(offer, tx) THEN "more" ELSE "received"
    /\ UNCHANGED <<queues, starved, users, edge, offer, espq, rts, hist, errs>>

\* (Mutant: without waiting for CTS.)
RestAtOnce == TRUE
RestWaits == token
TransferRest ==
    /\ worker = "second" /\ RestWaits /\ task = "readyMore"
    /\ token' = FALSE /\ worker' = "done" /\ task' = "received"
    /\ UNCHANGED <<queues, tx, starved, users, edge, offer, recv, espq, rts, hist, errs>>

\* A transfer the ESP32 does not wait for.  What garbled bytes do later is not modelled: the worker
\* stops here.
Premature ==
    /\ \/ worker = "first" /\ tx # Oversize /\ token /\ task # "ready"
       \/ worker = "second" /\ RestWaits /\ task # "readyMore"
    /\ token' = FALSE
    /\ worker' = "garbled" /\ tx' = Empty /\ errs' = errs + 1
    /\ UNCHANGED <<queues, starved, users, edge, app, hist>>

\* The driver refuses the transfer: _spi_xchg returns with the mutex locked.
TransferFails ==
    /\ errs < MaxErr /\ errs' = errs + 1
    /\ token /\ token' = FALSE
    /\ worker \in {"first", "second"} /\ tx # Oversize
    /\ worker' = "look" /\ tx' = Empty /\ bufq' = bufq + 1
    /\ UNCHANGED <<out, in, starved, users, edge, app, hist>>

\* More than SPI_MTU is not sent.
Refused ==
    /\ worker = "first" /\ tx = Oversize
    /\ worker' = "look" /\ tx' = Empty /\ bufq' = bufq + 1
    /\ UNCHANGED <<out, in, token, starved, users, edge, app, hist, errs>>

Deliver ==
    /\ worker = "done" /\ worker' = "look" /\ tx' = Empty
    /\ IF tx = Empty THEN bufq' = bufq + 1 /\ UNCHANGED in
       ELSE in' = Append(in, tx) /\ UNCHANGED bufq
    /\ UNCHANGED <<out, token, starved, users, edge, app, hist, errs>>
-----------------------------------------------------------------------------
(* The other threads *)

\* spi_handler: tun_write, then the buffer is free.
HandleIn ==
    /\ ~hand /\ in # <<>>
    /\ hand' = TRUE /\ in' = Tail(in)
    /\ got' = [got EXCEPT !.esp = Append(@, Head(in).n)]
    /\ UNCHANGED <<bufq, out, work, reading, bad, edge, app, late, sent, errs>>

HandleDone ==
    /\ hand /\ hand' = FALSE /\ bufq' = bufq + 1
    /\ UNCHANGED <<out, in, work, reading, bad, edge, app, hist, errs>>

\* tun_read: spi_alloc, read, spi_xchg
ReadAlloc ==
    /\ ~reading /\ bufq > 0
    /\ reading' = TRUE /\ bufq' = bufq - 1
    /\ UNCHANGED <<out, in, work, hand, bad, edge, app, hist, errs>>

\* A signal reaches a worker that waits.  (Mutant: it is not sent.)
SignalLost == worker
Signalled == IF worker = "sleep" THEN "woken" ELSE worker
ReadPacket ==
    /\ reading /\ reading' = FALSE
    /\ \/ /\ sent.app < MaxSent /\ sent' = [sent EXCEPT !.app = @ + 1]
          /\ \E s \in AppSize : out' = Append(out, Msg(sent.app + 1, s))
          /\ UNCHANGED bad
       \/ /\ bad < MaxErr /\ bad' = bad + 1
          /\ out' = Append(out, Oversize) /\ UNCHANGED sent
    /\ worker' = Signalled
    /\ UNCHANGED <<bufq, in, tx, token, starved, hand, edge, app, late, got, errs>>

\* The buffer is not given back.
ReadFails ==
    /\ reading /\ reading' = FALSE
    /\ bad < MaxErr /\ bad' = bad + 1
    /\ UNCHANGED <<queues, work, hand, edge, app, hist, errs>>

\* spi_rtscts_handler
RtsEdge ==
    /\ edge.rts > 0 /\ edge' = [edge EXCEPT !.rts = @ - 1]
    /\ worker' = Signalled
    /\ UNCHANGED <<queues, tx, token, starved, users, app, hist, errs>>

CtsEdge ==
    /\ edge.cts > 0 /\ edge' = [edge EXCEPT !.cts = @ - 1]
    /\ token' = TRUE
    /\ UNCHANGED <<queues, worker, tx, starved, users, app, hist, errs>>
-----------------------------------------------------------------------------
(* The ESP32 *)

\* RTS goes down when there is nothing to take.  (Mutant: buf_send is not cleared then.)
OldOffer == offer
NoOffer == Empty
AppPop ==
    /\ task = "pop" /\ task' = "offer"
    /\ offer' = IF espq = <<>> THEN NoOffer ELSE Head(espq)
    /\ espq' = IF espq = <<>> THEN espq ELSE Tail(espq)
    /\ rts' = (rts /\ espq # <<>>)
    /\ UNCHANGED <<queues, work, users, edge, recv, hist, errs>>

\* spi_slave_transmit: _post_setup_cb raises CTS.
AppOffer ==
    /\ task \in {"offer", "more"}
    /\ task' = IF task = "offer" THEN "ready" ELSE "readyMore"
    /\ edge' = [edge EXCEPT !.cts = @ + 1]
    /\ UNCHANGED <<queues, work, users, offer, recv, espq, rts, hist, errs>>

\* app_handler: tun_input
AppReceived ==
    /\ task = "received" /\ task' = "pop"
    /\ got' = IF recv.n = 0 THEN got ELSE [got EXCEPT !.app = Append(@, recv.n)]
    /\ UNCHANGED <<queues, work, users, edge, offer, recv, espq, rts, late, sent, errs>>

\* eos_app_alloc and eos_app_send of tun_output: there are as many buffers as the queue holds.
AppSend ==
    /\ sent.esp < MaxSent /\ Len(espq) < EspQSize
    /\ sent' = [sent EXCEPT !.esp = @ + 1]
    /\ \E s \in EspSize : espq' = Append(espq, Msg(sent.esp + 1, s))
    /\ rts' = TRUE
    /\ edge' = IF rts THEN edge ELSE [edge EXCEPT !.rts = @ + 1]
    /\ UNCHANGED <<queues, work, users, task, offer, recv, late, got, errs>>
-----------------------------------------------------------------------------
Work == LookOut \/ LookRts \/ (worker = "woken" /\ Wake) \/ Transfer \/ TransferRest \/ Refused \/ Deliver
Handle == HandleIn \/ HandleDone
Edge == RtsEdge \/ CtsEdge
App == AppPop \/ AppOffer \/ AppReceived
Next ==
    \/ Work \/ Wake \/ Handle \/ Edge \/ App
    \/ Premature \/ TransferFails \/ ReadAlloc \/ ReadPacket \/ ReadFails \/ AppSend

\* The threads and the ESP32's task go on.  The tun device owes no packet.
Fairness == WF_vars(Work) /\ WF_vars(Handle) /\ WF_vars(RtsEdge) /\ WF_vars(CtsEdge) /\ WF_vars(App)
Spec == Init /\ [][Next]_vars /\ Fairness
-----------------------------------------------------------------------------
Numbers(q) == {q[i].n : i \in DOMAIN q}
Number(here, m) == IF here THEN {m.n} ELSE {}

\* Where a sender's messages are until they are received.  What is no message has number 0.
InTx == Number(worker \in {"second", "done"}, tx)
InOffer == Number(task \in {"offer", "ready"}, offer)
InRecv == Number(task \in {"more", "readyMore", "received"}, recv)
OutTx == Number(worker = "first", tx)
OnWay ==
    [w \in Sender |->
        (IF w = "esp" THEN Numbers(in) \cup InTx \cup InOffer \cup Numbers(espq)
                      ELSE InRecv \cup OutTx \cup Numbers(out)) \ {0}]

\* Messages each way arrive once and in order; only a transfer the driver refused, or one the ESP32 was
\* not ready for, loses one (spi_worker, app_xchg_task).
D == INSTANCE Duplex WITH Way <- Sender, onWay <- OnWay, faults <- errs
Implements == D!Spec

\* If the ESP32 was up first, every transfer finds it ready: there is never a second token (the mutex
\* of _spi_xchg, unlocked by the rtscts thread).
ReadyWhenClocked == worker = "garbled" => late

\* Again and again both sides have received all that was sent, unless a transfer failed or the worker
\* fell asleep for want of a free buffer while the ESP32 asked for an exchange: a buffer that becomes free
\* wakes nobody (spi_worker).
MessagesArrive ==
    /\ []<>(Len(got.esp) = sent.esp \/ errs > 0 \/ starved)
    /\ []<>(Len(got.app) = sent.app \/ errs > 0)
=============================================================================

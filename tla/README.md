# Verification of rvPhone

rvPhone is the software of a phone with three processors. An FE310 microcontroller (`fw/fe310`) runs the user
interface. An ESP32 (`fw/esp32`) owns wifi, the cellular modem and the SIM side of things, and is reached from the FE310
and from a Linux application processor (`yocto`) over SPI. ECP (`ecp`) is the encrypted datagram protocol that the
phone's applications speak with each other and with directory and relay servers; it runs on the FE310 and on POSIX.

This directory holds TLA+ models of that code, the small instances TLC checks, and proofs the TLA+ proof system checks.
`PROJECT.json` maps every definition to the lines it stands for and lists components, runs, hazards and theorems.

## 1. Inventory

| Component | State it keeps | Operations | Talks to |
|---|---|---|---|
| ECP connections (`core.c`) | per connection: flags REG and OPEN, refcount, keys; `conn_table`: `keys`, `addrs`, `keys_inb` | open, insert, reset, close, remove, reference counting, expiry | timer, receive path, application handlers |
| ECP timer (`timer.c`) | array of items sorted by due time, each with a reference to its connection | push, pop, remove, exe | connections, sends |
| ECP handshake and key exchange (`core.c`) | key slots of the socket and of each connection, current/next index, cookies | INIT_REQ/REP, OPEN_REQ/REP, KEYX_REQ/REP | timer, connections |
| ECP reception (`core.c`) | next nonce and a bitmap of the nonces before it | unpack, decrypt, dispatch | everything above |
| ECP reliable buffers (`ext/rbuf*.c`) | ring buffers, sequence numbers, acknowledgement map, congestion window | send, flush, receive, acknowledge | timer, message queue |
| ECP message queue, fragments (`ext/msgq.c`, `ext/frag.c`) | bounded queues by type, fragment bitmap | push, pop with timeout, assemble | rbuf, application |
| ECP virtual connections, directory (`vconn`, `dir`) | chain of next hops, the directory's items | open through relays, register, answer | connections, timer |
| FE310 link (`eos/net.c`, `msgq.c`) | buffer queues, the exchange under way, flags, reserved and owed buffers | interrupt handlers, acquire, alloc, free, send, synchronous exchange, pause, stop | event loop, SPI bus, ESP32 |
| FE310 event loop (`eos/event.c`) | queue of events, handlers by type | push, pop, loop | every driver's interrupt |
| FE310 SPI bus (`spi.c`, `spi_dev.c`) | the selected device | select, deselect | link, display, SD card, camera |
| FE310 timer, audio, SD card, touch, UART | small automata and rings | interrupt handlers | event loop |
| ESP32 link (`net.c`, `app.c`) | send queue, the exchange task, RTS/CTS lines, sleep flags | exchange, send, reply, sleep, wake | FE310, application processor, modem, wifi |
| ESP32 modem (`cell_modem.c`, `at_cmd.c`) | UART mode (command, PPP, relay), pending command | switch modes, AT command with timeout, PPP pause/resume | link, power |
| ESP32 power (`power.c`) | sleep mode, who woke it | sleep, wake | both links, modem |
| SPI daemon (`yocto/.../esp32spid`) | exchange under a mutex, message queue | exchange thread, tun thread | ESP32 |
| cryptography, drivers, graphics, vendored code | none worth a model | | |

What is hard here:

- **ECP connections.** Four threads share a connection (application, receiver, expiry, and whoever runs the timer).
  A count decides who destroys it. Several operations take the connection's mutex and the table's one after the other, not
  together, so other threads come in between. Correct means: nobody reaches a destroyed connection, every reference is
  dropped once, a closed connection stays closed and is destroyed in the end, a handshake settles.
- **FE310 link.** Two message buffers circulate between interrupt handlers and the main loop. The main loop switches
  interrupts off for short sections only. Handlers may wait for a buffer that is in somebody else's queue; the bus is
  also used by other devices. Correct means: no buffer is in two places or in none, waits end, what is queued is sent, a
  request of the ESP32 is served, one master on the bus.
- **Timer, reliable buffers, replay window, key exchange.** Modular numbers at their boundary, lost, late and repeated
  packets, both sides acting at once.
- **ESP32 link, modem, power, daemon.** Tasks blocked on each other, timeouts that race late answers, error paths that
  return while they hold a lock.

The hazards are in `PROJECT.json`, each at its line, with the properties that cover it. Section 6 names those that no property
reaches.

## 2. Plan

| Order | Modules | Subject | Composition and abstract specification |
|---|---|---|---|
| 1 | `EcpConn`, `MCEcpConn`, `EcpConn_proofs` | life of connections | done |
| 2 | `EosNet`, `MCEosNet`; proofs in `SpiLink_proofs` | buffers and exchanges of the FE310 link | done |
| 3 | `EcpTimerSpec`, `EcpTimer`, `MCEcpTimer`, `EcpTimer_proofs` | the array with modular time, its alarm | done: implements a set of countdowns |
| 4 | `SpiLink`, `MCSpiLink`, `SpiLink_proofs` | the ESP32's exchange task and both ends together | done: extends `EosNet`, and implements it |
| 5 | `EcpWindow`, `EcpSession`, `MCEcpSession`, `EcpSession_proofs` | replay window, cookies, key slots | done: both sides over a network that loses, repeats and reorders |
| 6 | `Duplex`, `SpiDaemon`, `MCSpiDaemon`, `SpiDaemon_proofs` | the daemon of the application processor with the ESP32's task for it | done: implements a queue each way |
| 7 | `EcpRbufSpec`, `EcpRbuf`, `MCEcpRbuf`, `EcpRbuf_proofs` | the receive buffer behind the replay window | done: implements delivery in order and once |
| 8 | `EspModem`, `MCEspModem`, `EspModem_proofs` | the modem's uart: AT commands, PPP, relay | done |
| 9 | `EcpConnTable`, `MCEcpConnTable`, `EcpConnTable_proofs` | the hash tables of a socket | done |
| 10 | `EspPower`, `EcpVconn`, `EosI2s` | sleep over both links, relayed connections, audio rings | left |

Every safety invariant, action property and refinement that a run checks is a theorem. Liveness is left to the runs.

## 3. Models and the code

### 3.1 `EcpConn`: the life of connections

Sources: `ecp/src/ecp/core.c` (table, references, open, reset, close, receive path), `timer.c` (the items' references).

Threads: the application's thread per outbound connection (`app`), the receiver of the socket (`rx`: one packet, then
`ecp_timer_exe`), the thread that expires inbound connections (`exp`). An action is a section between two operations of
a mutex: where `ecp_conn_close`, `ecp_conn_reset` or `ecp_conn_open` let go of one mutex before they take the next, the
program counter stops in between (`remove`, `undorm`, `reinit`, `reinsert`, ...). Variables are the code's: `reg` and `open`
are the two flags of `conn->flags`, `refcount` the count, `table` what `conn_table.keys` and `addrs` find, `keysInb`
`conn_table.keys_inb`, `timer` the items in the array and in `to_exec`. `opened`, `leaked` and `crossed` are history variables.
Time is reduced to `due` per item.

The application closes whenever it likes once `ecp_conn_open` returned (`MayClose`): while the handshake waits for its answer, while it is being
retried, after a timeout, or when the connection is open. One of these closes goes wrong in the code. `ecp_timer_remove` takes the retries
that wait, but not one that `ecp_timer_exe` has taken out of the array; `ecp_conn_reset` then looks at the reference count alone, sets REG
(core.c:1002) before it takes the table's mutex, and inserts the connection without looking at REG again. So a connection that is being closed, or was
closed, comes back into the table, can be in it unregistered, and both threads may destroy it. `crossed` has the connections
that were closed while such a retry was out of the timer (`Retrying`). `ClosedStaysOut`, `TableIsRegistered`, `NoUseAfterDestroy` and `HandlersPaired`
except them, and without the exception TLC finds each of the four violated. `DroppedIsDestroyed` excepts them as well, since one that came
back need not be closed again. `RefsCounted`, `ResetOwnsConnection` and `OpenSettles` hold for them too.

What the model takes for granted:

- After an error other than a timeout it closes in the error handler or never touches the connection again (`gone`).
- A peer is silent before the first packet is sent to it (`Unsent`).
- Insertion into the table fails only for want of memory; `HTABLE` is built in (without it core.c does not compile).
- INIT_REP is folded into the packets that end in `ecp_unpack` with the reference alone.
- `ecp_conn_reset` tests `rv` before it is assigned (core.c:1105): both outcomes are steps.
- Keys, addresses, packet content and virtual connections are abstracted.

### 3.2 `EosNet`: the FE310's link to the ESP32

Sources: `fw/fe310/eos/net.c`, `msgq.c`, `event.c`, `spi.c`, `spi_dev.c`.

An action is an interrupt handler (`HandleCts`, `HandleRtsRise`, `HandleRtsFall`, `HandleHeader`, `HandleDone`, `EvtIntr`)
or a critical section of the main loop (everything between two switches of `MIE`). The main loop's place is `pc`: in the
event loop, in `evt_handler_wrapper`, in an application's handler, or in a call that waits with `wfi`. The FIFO watermarks
of one transfer are one stage (`"data"`). The ESP32 is an environment: CTS comes only when no exchange is under way and
the last CTS was used, RTS moves at any time, a header is empty, a message, or has an impossible length.

What the model takes for granted, as the callers in the repository do: a handler calls `eos_net_alloc` only with a credit (an
acquisition, or a free or send with `more = 1`), gives away every buffer before it returns, leaves no device selected, and
`eos_net_free` with `more = 1` is called under an acquisition only. A handler of a message that frees its own buffer with
`more = 1` can leave a request of the ESP32 unserved; nothing in the repository does. Handlers that run other handlers
(`eos_evtq_wait`, `eos_evtq_flush`), `eos_net_sleep` and `eos_net_run` after a wake-up are not modelled. Event sources are the
one-shot ones (UART, I2S, touch): they disable themselves until their event was handled.

### 3.3 `EcpTimerSpec` and `EcpTimer`: the retransmission timer

Sources: `ecp/src/ecp/timer.c`, `platform/fe310/time.c`, the loop of `ecp_receiver` in core.c, `_eos_timer_handle`.

`EcpTimerSpec` is what a user of the timer relies on: a set of requests, each with the time it has left, a plain integer. A run
takes exactly those whose time is up. `EcpTimer` has what the code has: `item` is `timer->item[0 .. head]`, sorted by absolute
time, the next one last; absolute times are counts modulo `2 * Half` compared with `ECP_STS_LT` and `ECP_STS_LTE`; `exec` is
`to_exec` (run from its end, the latest due first); `next` is the return value of `ecp_timer_exe`, computed under the mutex and
used after the retries ran. `alarm` is the time to `timer_next` on the FE310 and what is left of `ecp_tr_recv` on POSIX; `evt` counts the
timer's events in the event queue (on POSIX, that the wait timed out). The variable `port` never changes: one run covers both
platforms. Application threads may push, pop and remove at any moment, also between two items of a run.

- On POSIX `abstime` is read before the mutex is taken (timer.c:40): `Push` enters it up to `MutexDelay` late (`Lateness`). An item can
  therefore be one delay later there than on the FE310, which `LatenessBounded` counts: the wait of the push, the run that is under way, and the delay
  before the next one.
- `RunOver` stands for a run without tries left, a retry that failed, and a closed connection; the error handler's effect on the
  connection is `EcpConn`'s subject, as are the references.
- Removing at most the items of one connection is one action (`RemoveAll`), the order of the others is stated, not computed.
- The FE310's clock counts ticks of 1/32768 s and rounds; an alarm may come up to one millisecond early, finds nothing due
  and is set again. The model's tick is the millisecond, which leaves that repetition out.
- An event of the timer is lost when the event queue is full, either when the interrupt queues it (`Fire`) or when the main loop,
  short of buffers, puts it back (`Refuse`, which is `EosNet`'s `Requeue`). `lost` records it until the next run. Nothing sets the
  alarm again but the next push.

The invariant assumes that no item is later than `MaxLate` with `MaxTimeout + MaxLate < Half` (`Tick` stops there): in the code
that is 2^31 ms, more than 24 days of a main loop that stands still.

### 3.4 `EcpWindow` and `EcpSession`: handshake and key exchange

Sources: `ecp/src/ecp/core.c` (key slots and shared keys, `_pack_conn`, `ecp_unpack`, the handlers of INIT, OPEN and KEYX,
`ecp_sock_expire_inb`, rotation of the socket's key).

`EcpWindow` is the window of 32 nonces: which are accepted, and what is marked. `EcpSession` has one outbound connection (`cl`) and
a server's socket (`sock`) with its connections (`inb`). A key is a number, a shared key the pair of two keys, and a packet can be read by whoever
finds the shared key it was written with under the slots it names. `shkey` is the cache of shared keys; the operators that fill, void
and follow it (`Meet`, `ClientSetPub`, `ServerGetPub`, ...) are the `conn_shkey_*` and `conn_dhkey_*` functions. `net` holds every packet ever sent: a
delivery takes none away, so packets are lost, late, repeated and reordered at will. The application's thread in
`ecp_conn_dhkey_new` (new key under the mutex, packet later) and the receiver in `ecp_handle_keyx` (between storing the key and moving
to it) stop in between.

What the runs taught about the code:

- KEYX_REP does not say which KEYX_REQ it answers. A late one makes the client move to a key the server never got; from then on neither side
  reads the other (`mixed`, core.c:1845 and 1322). A late KEYX_REQ can likewise put an old key in the place of a newer one.
- After two exchanges the handshake's key is gone from the server's table. A late copy of the OPEN_REQ then makes a second connection as long as
  its cookie holds (`MovedOn`).
- A connection that a copy of OPEN_REQ has made starts again at the handshake's key. If it takes an exchange that the first one answered, both sides
  believe in keys of which one side has a half. It is a message of an earlier exchange taken for the current one, so it sets `mixed` too.
- The server's socket has two slots. Its third key takes the place of the first (core.c:510), but the shared keys cached with the first stay, and an
  INIT_REP that comes late brings the old public key back to a client. From then on a side can write with a key the other no longer computes (`Replaced`).
  With three keys TLC needs ten steps. Nothing in the repository calls `ecp_sock_dhkey_new`: it is for applications, so the repository does
  not say how often it is called.
- A packet that comes late, within the window, is accepted without being marked (core.c:2040), so a copy is accepted again.

Both exceptions of `NoLockout` were met while it was being proved: the invariant was not inductive, and the step that broke it was a run of the code.

Not modelled: an exchange that the server starts, virtual connections, nonces that wrap at 2^64. Any number of keys of the socket is modelled; the run
has two, so `Replaced` is never true in it and `NoLockout` is checked without that exception.

### 3.5 `SpiLink`: both ends of the FE310's link

Sources: `fw/esp32/components/eos/net.c`, `msgq.c`, and all of `EosNet`, which `SpiLink` extends: each action of `EosNet` that touches the wire
gets its effect on the ESP32, and what `EosNet` leaves to the environment (CTS, RTS, the header) comes from the exchange task. `at` is the task's
place, `offer` and `skip` are `buf_send` and `skip_msg`, `wire` has RTS and the edges the FE310 has not handled, `data`
says which message a buffer of the FE310 holds. That the whole implements `EosNet` (`FollowsEosNet`) carries over to it what is
proved there.

- RTS may rise again before the FE310 handled its fall (`EspSend` looks at nothing of the FE310). The FE310's handler reads the pending bit of the rising
  edge first (net.c:214), so two edges that are pending together are handled in the wrong order: the request is forgotten while the line is up, until the
  next edge or the FE310's next message. `Forgotten` is that state, and `MessagesArrive` excepts it; without the exception TLC finds the message that never comes.
  The invariants hold with merged edges: nothing is lost or repeated by them.
- `Ignored`: a synchronous call whose second exchange is one-way because a buffer is owed (net.c:109) returns without the answer.
  `AnswerFits` allows this one value and no other.
- A poll that the FE310 sends while a buffer is owed has type 0x40, for which the ESP32 calls the handler before the first (esp32 net.c:176).
  The model takes it that this call returns.
- The ESP32's sleep and wake-up and its pool of send buffers are left out.

### 3.6 `Duplex` and `SpiDaemon`: the application processor's daemon

Sources: `yocto/.../esp32spid/src/spi.c`, `msgq.c`, `tun.c`; `fw/esp32/components/eos/app.c`.

`Duplex` has numbered messages each way: those on their way, a set, of which the oldest is received next, those received, a sequence, and a fault that takes away
at most one of each way. `SpiDaemon` has the daemon's four threads (worker,
rtscts, tun reader, handler), the mutex that serves as the token for a transfer (unlocked by the rtscts thread when CTS rises), the buffer
pool and the ESP32's task. A message longer than the first, short transfer continues in a second one. `onWay` maps to the messages in all stages of
each way (`OnWay`).

- When no buffer is free the worker does not exchange, and a buffer that becomes free wakes nobody (spi.c:140): an ESP32 with something to say
  then waits for the next message of the other side (`starved`).
- An error of the driver returns with the mutex locked (spi.c:64); without a CTS edge the worker stops for ever. `MessagesArrive` excepts failed
  transfers (`errs`).
- If the ESP32 starts after the daemon, the mutex, unlocked from the start, is a second token, and a transfer may be clocked that the ESP32 does not wait
  for (`late`). The model's worker stops there; what it would do with the bytes is not modelled, nor are restarts.
- A read error of the tun device leaks a buffer (tun.c:74).

### 3.7 `EcpRbufSpec` and `EcpRbuf`: the receive buffer

Sources: `ecp/src/ecp/ext/rbuf.c`, `rbuf_recv.c`, with the replay window of core.c.

`EcpRbufSpec` hands over messages in the order of their numbers, none twice, none left out that was kept, and none at all if `strict`.
`EcpRbuf` has the ring (`rb`: first number, start, slots and their flags), `seq_max`, `seq_ack` and `ack_map`, the timer items of delayed delivery, and a
network that may deliver any packet again. Sequence numbers count modulo 32 and start at 29, so that they wrap. Four kinds of buffer are
checked: reliable or not, with and without a limit on holes, with and without a delay. The variable `flags` never changes.

- A packet for an empty buffer takes the short cut (rbuf_recv.c:414). A copy of a late packet that the replay window lets in is then taken for the
  next message (`twice`), after which the specification promises nothing.
- When an acknowledgement cannot be sent, the message just taken is thrown away (rbuf_recv.c:458); `strict` ends there.
- The short cut counts `seq_ack` up without shifting `ack_map`, so an unreliable buffer reports an old hole as new losses;
  `AcksHonest` is about what is reported as received.
- RBNOP marks its slot but not `ack_map`: a reliable receiver's `seq_ack` stops there.
- Sequence numbers and indices are at most one range off when they are reduced (`Wrap`), because fewer packets are sent than half the range. So the model passes the
  wrap of 2^32 once, wherever it starts, and never meets a number twice.
- The report shifts `ack_map` by `hole_max + 1` bits (rbuf_recv.c:449-455), which C leaves undefined from the map's width on, and
  `ecp_rbuf_set_hole` takes any `hole_max`. `HoleAssumption` keeps it below, as an application has to.

Not modelled: the send side, which is unfinished (a reliable one holds its first message back, and the handler of acknowledgements returns with the mutex
held, rbuf_send.c:111), delivery through a message queue (`ecp_msgq_pop` looks for a message in a ring that has
moved past it, msgq.c:108), a delay changed while messages wait, and a full timer. Nothing outside `ext/` uses the buffers yet.

### 3.8 `EspModem`: the modem's uart

Sources: `fw/esp32/components/eos/cell_modem.c`, `at_cmd.c`.

`uart_event_task` reads as its mode says (`mode`, and `next`, the mode it goes to at the end of a line). A request (`pc`, `kind`) holds `mutex` from the first step to
the last, asks the task through `queue` to leave the uart, takes `uart_mutex` (`token`), talks, and gives everything back; pausing PPP also
takes `ppp_mutex` (`lock`). The TCP/IP thread (`tcp`) runs PPP's output and status callbacks; who calls pppapi waits for it.

- A request can be held for ever in five cases, the disjuncts of `Stuck`: (1) the task's queue is full of reports of data while the task waits for
  `uart_mutex` and its holder for a slot (cell_modem.c:179); (2) PPP ends while a request with `mutex` waits for the TCP/IP thread (:705); (3) a
  reset while PPP is paused leaves `ppp_mutex` taken (:798); (4) bytes are left in `uart_buf` when PPP or relay begins (:149); (5) `at_expect` meets
  the moment when the time left is exactly 0, which means no limit (at_cmd.c:145). `RequestsReturn` says there is no other, and each is
  needed.
- A pause that times out leaves the uart with nobody reading (:457). `ModeAgrees` names it as the only way.
- With a timeout of 1000 ms, which is what all callers give, "+++" is sent only when the time is over (:481), so a pause succeeds only
  where an answer is already there.

The lines of the modem, the list of unsolicited answers and their handlers are abstracted. `power.c` enters deep sleep only, which is a restart; the path
of `eos_modem_wake` for light sleep is left out. Handlers of answers and allocations of link buffers return.

### 3.9 `EcpConnTable`: the hash tables of a socket

Sources: `ecp/src/ecp/core.c` (`conn_table_*`, open, accept, close, reset, expiry, new keys, `ecp_handle_open`), `htable/hashtable.c`.

An entry of `keys` points to a slot of a connection and keeps the hash of the key that was there; equal keys are allowed, the newest is met first.
A search compares the hash and what the slot holds now, which is why the order of removing, replacing and inserting a key matters. References
are `EcpConn`'s subject: here a closed connection lives as long as the receiver is at it. Insertions fail as a whole for want of memory.
An inbound connection enters `keys` when its OPEN_REQ is read and `keys_inb` (`listed`) once it is open; in between the receiver alone can close it.
The expiry takes silent ones out of `keys_inb` under its mutex and closes them afterwards, when their keys may be changing.

The peers' keys and requests are chosen at the beginning (`req`): a key comes in an OPEN_REQ, or in a KEYX_REQ written under another key of its connection,
as `ecp_conn_dhkey_new` makes them. Each request may come at any time and any number of times. `Accept` takes an OPEN_REQ whose key is not found, `KeyxReq` a
KEYX_REQ whose key is: whatever key it brings is inserted, also one that another connection has. The cookie and the replay window, which stop
most copies, are `EcpSession`'s subject; the requests taken here include all those they let pass.

Four cases in which the code goes wrong are named by history variables, and `NoDangling` and `Found` except them and nothing else:

- `shared`: of two connections being opened to one address, closing one removes the entry of the other, and its own stays behind.
- `refused`: a connection closed while its open handler runs counts as open, so `addrs` is left to the receiver, which removes the entry only if the handler
  succeeds (core.c:1746). If it fails, the entry outlives the connection.
- `crossed`: a connection closed while a retry of its handshake was out of the timer comes back into the tables (3.1).
- `doubled`: A moves on from its first key k1 by two exchanges, to k2 and k3. A late OPEN_REQ with k1 makes a second connection B, and a copy of
  the KEYX_REQ with k2 brings k2 to B as well (core.c:755-763). The newest entry is met first (hashtable.c:186): a search for k2 finds B and not A, and closing
  A takes out B's entry and leaves A's behind.

- `ecp_ht_itr_advance` (htable.c:40) returns -1 where `conn_table_expire_inb` goes on only for `ECP_OK`: a scan ends at the first connection that is
  not silent, and silent ones behind it stay. The model's scan takes any of the listed connections.

Hashes do not collide and the tables do not grow. Keys that are generated are new; a peer's key is in no other peer's request.

## 4. Runs

| Run | Bounds | What it shows |
|---|---|---|
| `conn_safety` | one outbound and one inbound connection, 2 timer items, 2 tries, one leaked reference | `RefsCounted`: every counted reference belongs to an item or to the packet in hand, or was lost in a full timer. `ResetOwnsConnection`: the retry of a handshake rebuilds a connection nobody else uses. For all connections but those closed during a retry (`crossed`): `NoUseAfterDestroy`, no thread reaches a destroyed connection; `TableIsRegistered`, `ClosedStaysOut`, table, flag and the application's close agree; `HandlersPaired`, a connection whose open handler succeeded is destroyed after its close handler ran |
| `conn_live` | the same with 1 timer item | a dropped connection is destroyed; an opening connection opens, is told of a failure or is closed |
| `conn_leak` | two outbound connections, 1 timer item | the finding below |
| `net_safety` | 2 buffers as on the device, two wrapped types, one that acquires explicitly, queue of 4, all headers, 2 waiting calls per handler; buffers symmetric | `OneOwner`: no buffer in two places or in none. `SendsStarted`, `NoMissedRequest`: an idle link has nothing to do. `Reservations`: the counter of owed buffers is right. `AcquireHonoured`: what is set aside is not taken by others. `BusOwned`: one master. `Accounted`: no event source is disabled for ever, but one whose event a full queue dropped |
| `net_live` | 2 buffers, two wrapped types, a queue of 3 that overflows | calls that wait return, queued messages are sent, requests are served |
| `timer` | 3 requests (two of one kind), room for 2, a clock of 16 values that starts anywhere, timeouts of 1 and 2, delays of 1, 2 events | `Implements`: the array does what the set does. `AlarmKept`: items never wait for nothing. `LatenessBounded`: an item is run within an alarm and two delays of its time, three on POSIX. `Served`: every request is run, answered or removed |
| `session` | 2 server connections, 3 client keys, 2 socket keys (one rotation), 2 cookie generations, 5 packets of the client, 3 of each server connection | `NoLockout`: unless a side took a message of an earlier exchange for the current one, the two sides can read each other, for the first two keys of the socket. `OpenedOnce`: a copy of an OPEN_REQ opens nothing, but for a connection that moved on |
| `link` | 2 buffers, one wrapped type, a queue of 2 at the ESP32, 2 messages of the ESP32, 2 queued and 2 direct ones of the FE310 | `EspKept`, `FeKept`: each message is in one place and in its turn. `AnswerFits`: a call gets its own reply. `FollowsEosNet`: the ESP32 does what `EosNet` assumes. `MessagesArrive` unless a request is `Forgotten` |
| `daemon` | 2 buffers, a queue of 2, messages of one and of two transfers, 2 messages each way, one error of the driver | `Implements` `Duplex`; `ReadyWhenClocked`: no second token if the ESP32 was up first; `MessagesArrive` but for errors and `starved` |
| `rbuf` | ring of 4, window of 4, 6 messages, sequence numbers modulo 32 from 29, 4 kinds of buffer, one acknowledgement that fails | `Implements` `EcpRbufSpec`; `AcksHonest`: what is reported as received came |
| `modem` | queue of 3, 2 PPP sessions not freed | `OneReader`: one reader of the uart. `ModeAgrees`: the task's mode is the one set last. `RequestsReturn`: all but five ways to wait end |
| `table` | 2 outbound and 2 inbound connections, 2 addresses, all symmetric; 3 own keys, 3 keys of peers; connections in use and own keys together at most 5, or 4 where there are connections both ways (`Bound`) | `NoDangling`: no entry outlives its connection but in the four cases of 3.9. `Found`: but for these, a connection is found by each of its keys and by nothing else, and an inbound one by the expiry |

Why the bounds are enough. Connections interact through the timer's capacity only, so one of each kind gives every race within a connection,
two in `conn_leak` the competition for the timer; two tries give a first send, a repetition and the end of the tries.
Two buffers are what the FE310 has (`EOS_NET_SIZE_BUFQ`); two wrapped types can owe two buffers, more than can be set aside. In
`timer` two requests of one kind show that an answer takes the one due first, a third finds the array full, and a clock of
16 values with windows of 7 wraps in every position. In `session` three client keys use both slots and reuse one, which is when an old key, cache or packet
can be met; packets are never used up, so few of them give all repetitions. In `link` a second message of each kind can overtake, repeat or replace
the first. In `rbuf` six numbers pass the ring's size and the wrap of the sequence numbers. In `modem` three slots hold the events of a
request that timed out, those of the next, and one report of data. In `table` three own keys let one connection be opened and rekeyed twice, or rekeyed or started anew beside another. `MCSpec`
begins with one member of each kind of `Requests`: a peer with two exchanges, one that tries two keys in turn, and two peers; the other members differ in the names of keys and slots, and three keys are
what the case `doubled` takes. The proofs lift all of these bounds for the safety properties they cover.

Fairness. `conn_live`: the receiver thread goes on (a loop without an exit that polls with a timeout), each
application thread ends the call it is in, the expiry ends its scan, time passes. The application owes no call and the peer no
packet. `net_live`: interrupts are handled, the main loop goes on, handlers return and the ESP32 raises CTS in the end, which its
exchange task does after each exchange; it owes no RTS. `timer`: the main loop or receiver handles the event and ends its run, time
passes and the alarm fires; nothing is assumed of answers. `link`: the exchange task goes on, the FE310 handles its interrupts, and its main loop goes on;
nobody has to send. `daemon`: each thread goes on when it can, an edge is noticed, the ESP32's task goes on, and the mutex and the condition variables
wake one waiter. `modem`: the uart task goes on; a request and the TCP/IP thread go on if what they wait for (a mutex, a slot of the queue) is
free again and again, as FreeRTOS gives it to the one that waits longest; a line that the modem began ends. The other runs need none.

Deadlock is checked in `conn_safety`, `conn_live`, `conn_leak`, `timer`, `net_safety` and `net_live`. `modem` does not check it because the code can jam, which
is what `Stuck` is about; `session`, `link`, `daemon`, `rbuf` and `table` because they end when the packets, messages or keys of their
bounds are used up.

Finding (`conn_leak`). `ecp_timer_push` counts a reference (timer.c:47) before it looks whether the array is full (timer.c:52) and does not take
it back. The comment at core.c:1100 says "timer holds one reference to this connection", and `ecp_conn_reset` takes a second one for
a user. The run shows a state in which the timer is the only holder and the count is 2: the handshake is not
repeated and the connection is never destroyed.

## 5. Proofs

Each proof module extends its component's module; the constants are arbitrary but for the named assumptions.

`EcpConn_proofs` (any finite sets of connections, any timer, any number of tries). `IndInv` is `TypeOK`, the accounting of references
(`RefsCounted`), what the receiver's place says of the item and the packet in its hands (`ThreadInv`), and per connection what its flags,
membership and threads allow together. It is needed because no single property is inductive: that nobody reaches a destroyed
connection depends on the count, the count on which items exist, that `ecp_conn_reset` is alone on the handshake's item being the
only item of a connection that is not yet open. What is said of the application's own steps (`OwnAppOf`, `AppOf`, `LifeOf`) is said of connections that are not `crossed`;
of these one knows only that the references add up, that the retry is the only item, and where the receiver is. That a close outside a retry keeps the rest is
where `Retrying` is needed: with no such item out of the array, `ecp_timer_remove` has taken them all, and only an open connection gets new ones. From it follow `TypeCorrect`, `ReferencesCounted`, `NothingDestroyedIsReachable`,
`FoundIsRegistered`, `ResetIsExclusive`, `OpenedIsClosed` and `ClosedIsOut`.

`SpiLink_proofs`, the part about `EosNet` (any finite set of buffers and events, any queue). `IndInv` is `TypeOK`, `Control` (what `pc` says of the call under
way), `Link` (an exchange under way has CTS low and a buffer), `OneOwner`, `Reservations`, `SendsStarted`, `AcquireHonoured` and
`BusOwned`: ownership needs to know which call holds a buffer, the reservations which event is handled. Each of these is a theorem.

Two more invariants stand on it. `Sources`: an event source is disabled exactly while its event is in the queue, which holds it once, is being handled, or was dropped,
and it is in one of these places only; `Accounted` follows (`SourcesAccountedFor`). `Requests`: on a ready link a request waits only while there is no free
buffer, or while the buffer of a received message is still to come back, and no buffer is owed meanwhile; with the ownership of buffers `NoMissedRequest` follows
(`NoRequestMissed`). Its hypothesis, two buffers or more, is what net.h has: a single one can be set aside for an acquisition for which no handler has come yet.

`EcpTimer_proofs` (any requests, any size, any width). `IInv` is `TypeOK`; `InWindow`, every time left is in `-MaxLate .. MaxTimeout`;
`Sorted`; `OneItem`, a request is in one place; `Idle` and `Armed`, what will set the next alarm. Within the window, which is narrower than half the
clock, the modular comparisons are those of the times left (lemmas `Compare`, `LeftFacts`), wherever the clock stands. So `Slot` finds the
place that keeps the order, what `Collect` cuts off is what is due, and each step of the array is a step of `EcpTimerSpec` or
none: theorem `Implementation`. `RunInTime` adds `OnTime`, which says for each phase how late an item can be: during a run by the push's wait and the run's own delay;
while an alarm is set by at most `Latest` ticks more than the alarm, because the alarm set at the end of a run may put off an earlier one that a retry has set;
and by the main loop's delay on top of that once its event is queued. On POSIX the bound is exact: with delays of 2 ticks TLC finds an item that late.
`Sorted` is not visible in the array's absolute times; it holds of the times left, which is why the
invariant speaks of those.

`SpiLink_proofs`, the part about `SpiLink` (any buffers, queues and bounds). `TokenAlways`: the FE310 believes that CTS is up, has an unhandled CTS edge or is in an exchange exactly
when the ESP32's task waits in one, and never two of them. With it each step of the link is a step of `EosNet` or leaves its variables alone:
`Composition`, `LinkSpec => FollowsEosNet`. `LinkSafe` carries the invariants proved of `EosNet` over to the link. The messages need three more invariants.
`Offering`: RTS is up while the ESP32 has a message, so the edge that lets the FE310 drop an exchange finds nothing on offer; with it no message is lost or repeated at the
exchanges that either side cancels (`EspMessagesKept`). `Request`: where the request of a call that waits for a reply is, in the caller's buffer, on the wire, or with
the ESP32, which offers nothing but the reply until it is fetched; the two exchanges of the call are tied together by nothing in the code but this order
(`RepliesFit`). `Loaded`: a buffer that still holds a message of the FE310 is queued, on the wire or with the waiting call (`FeMessagesKept`, which also rests on
`Request`: the exchange that fetches a reply must not carry a message).

`SpiDaemon_proofs` (any buffers, sizes, and number of messages and errors). `DaemonInv` says that each stage of a way holds messages in rising order and that a stage further on holds
older ones (`EspOrder`, `AppOrder`), which makes the message that arrives the oldest on its way; that what counts as no message is empty (`Told`); and, if the ESP32
was up first, that the token or the edge that brings it exists only while the ESP32's task waits in a transaction (`Handshake`). `ClockedWhenReady` follows, and
`DaemonImplementsDuplex`: each step is a step of `Duplex` or none.

`EcpConnTable_proofs` (any sets of connections and addresses, any number of keys, any requests). `TableInv`: but for keys in `doubled`, no two slots of registered connections hold the same key (`Apart`);
`keys` has exactly the keys of registered connections, each once (`Once`, `Current`, `Present`), but for those memory did not suffice for; `addrs` has those being opened, up to the receiver's last step; `keys_inb` and the expiry
share the inbound ones between them. The order of taking out, replacing and entering a key is what keeps it. That keys are not had by two is not assumed: an OPEN_REQ is
refused when its key is found, which by `Present` is when a registered connection has it; a KEYX_REQ is not, and sets `doubled` in that case. Each exception is tied to what it spoils (a key, an address, a connection), so the invariant
goes on to hold of everything else in the same table. `NothingDangles` and `EveryConnectionFound` follow, but for the four cases of 3.9.

`EcpRbuf_proofs` (any ring of up to half the sequence numbers, any width of the window and the map, any choice of flags). The lemmas turn sequence numbers and indices into
the numbers of packets: within the span in use `Compare` makes the modular comparisons those of the numbers, and `IdxFacts` gives each number of the ring a slot of its own,
which `AdvanceFacts` keeps while the ring moves. `IInv` says, as long as no copy was taken for the next message (`twice`), that a slot in use is that of its number and the number was kept or is
a system message; that what was kept and not passed is in the ring; and, of a reliable buffer, that what it has passed is known and what it acknowledges is known or a clear bit of the map
(`AckKnown`). The last two need each other: the short cut counts `seq_ack` up without the map, which is right only because everything before is known,
and `ack_shift` may count a number before the ring only because it was passed. `RbufImplements` rests on the slots and, for the short cut, on what was passed; `ReportsHonest` on `AckKnown`.

`EcpSession_proofs` (any number of connections, keys on either side, packets and expiries). `IInv` has four parts. `ClientInv` and `ServerInv`: the slots a side uses hold keys.
`NetInv` speaks of every packet ever sent, since each may still arrive: its nonce is one the client has used, its cookie no newer than the server's `minkey`. `OnceInv`: an OPEN_REQ that has made
a connection has a void cookie, or there is a connection of its key that the expiry under way does not close; `SessionTypes` and `RequestsOpenOnce` follow.

`KeysAgree` (`NoLockout`) needs `LInv` on top. `KeyInv`: a key of the client goes to one slot (`Placed`), what a packet announces is no newer than what the slot holds (`Announced`), and a connection of
the server has a key of its own handshake or a later one. `SocketKeys`: until a key of the socket is replaced, what the client and the packets have of it is what it is, and the server's cached pairs are
of the keys in their slots. `OwnShared`: so are the client's, but for the slot it is to move to while its key is not yet announced, which is the state
between the new key in `ecp_conn_dhkey_new` and its request. `PeerKeys`: the server has the client's current key and every key that was answered, which is why the client may move
to a key when any answer to it comes, however late. The first part of `LInv` holds always, the others until `Replaced` and `mixed` are true, and both stay true.

`EspModem_proofs` (any size of the queue). The invariant says who has `uart_mutex` for every place of the task and the request, and what `uart_mode`,
`_uart_mode` and the events still in the queue say of the mode the task will be in: the last event of a mode in the queue is the one set last, which is why
timed-out requests whose events are still queued do no harm. `OneReaderAlways` and `ModeAgreesAlways` follow, with `TypeCorrect`.

The type invariants are conjuncts of the inductive invariants; those of `EcpConn`, `EcpTimer` and `EspModem` are not repeated by the runs.

## 6. What is model-checked only, and what is not covered

- Liveness (`DroppedIsDestroyed`, `OpenSettles`, `CallsReturn`, `QueuedIsSent`, `RequestServed`, `Served`, `MessagesArrive`,
  `RequestsReturn`): fairness and ENABLED are out of
  the prover's reach.
- Hazards where the code goes wrong: the properties except exactly that case, as the notes in `PROJECT.json` say of each. They are the close that meets a retry
  (`crossed`), the dangling entries of 3.9, a KEYX_REP of an earlier exchange (`mixed`), a reply that is thrown away (`Ignored`), merged RTS edges
  (`Forgotten`), the daemon's failed transfers and missed buffers (`errs`, `starved`), its second token (`late`), the buffer's copies and failing acknowledgements (`twice`, `strict`), and the
  five ways to wait of the modem (`Stuck`). The property shows that there is no other case, not that this one is harmless.
- Hazards no property reaches: a stray packet may destroy a connection whose `ecp_conn_open` undoes a failed send (core.c:1090), which is excluded by an
  assumption of 3.1. `ecp_conn_reset` tests an unassigned `rv`
  (core.c:1105): both outcomes are steps. `keys_inb` keeps an entry for a key that an exchange replaced (core.c:214): only the expiry
  looks there, and starts its scan again. `eos_sock_open_udp` returns on an error without freeing its buffer (sock.c:71), where the model's handlers give
  back what they own. `eos_evtq_wait` and `eos_evtq_flush` run handlers within handlers (event.c).
- Not modelled: the directory and virtual connections (planned), fragments and the message queue (unfinished in the code), audio, SD card, power, and the
  wrappers of the SDK; drivers, graphics, cryptography and the vendored libraries have no protocol of their own. Reasons are in `PROJECT.json`.

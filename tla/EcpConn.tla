------------------------------ MODULE EcpConn ------------------------------
(***************************************************************************)
(* Connections of one ECP socket and who may still touch them.             *)
(*                                                                         *)
(* A connection is shared by the application, by the receiver thread of    *)
(* its socket (ecp_receiver: one packet, then the due timer items), by the *)
(* thread that expires silent inbound connections and by the items of the  *)
(* retransmission timer.  The connection table finds it, a reference count *)
(* keeps it, and whoever drops the last reference of a connection that is  *)
(* out of the table destroys it.                                           *)
(*                                                                         *)
(* Sources: ecp/src/ecp/core.c (table, references, open, reset, close,     *)
(* receive path) and ecp/src/ecp/timer.c (the items' references).  The     *)
(* order of the timer's array is the subject of module EcpTimer; here the  *)
(* timer is the set of its items, and due is all that is left of time.     *)
(***************************************************************************)
EXTENDS Integers, FiniteSets

CONSTANTS
    Outb,       \* connections the application created (it calls ecp_conn_open)
    Inb,        \* connection structures the receiver allocates for OPEN_REQ
    MaxTimer,   \* ECP_MAX_TIMER, items the timer holds
    Tries,      \* ECP_SEND_TRIES, transmissions of a request
    MaxLeak,    \* bound: no request is started on a connection that lost more references
    NoConn,     \* a connection pointer that is not set
    NoItem      \* a timer slot that is empty

ASSUME OutbAssumption == Outb \cap Inb = {}
ASSUME FiniteAssumption == IsFiniteSet(Outb) /\ IsFiniteSet(Inb)
ASSUME MaxTimerAssumption == MaxTimer \in Nat \ {0}
ASSUME TriesAssumption == Tries \in Nat \ {0}
ASSUME MaxLeakAssumption == MaxLeak \in Nat

Conn == Outb \cup Inb

\* What a timer item waits for: the answer to INIT_REQ/OPEN_REQ, or the answer
\* of any other timed request (KEYX_REP, directory, reliable send).
TimerType == {"OPEN_REP", "REPLY"}

Item == [conn : Conn, mtype : TimerType, cnt : 0 .. Tries - 1,
         due : BOOLEAN, exec : BOOLEAN]

\* The array's items and the ones timer_exe copied to its stack each have a slot.
Slot == 1 .. 2 * MaxTimer

ASSUME NoConnAssumption == NoConn \notin Conn
ASSUME NoItemAssumption == NoItem \notin Item

\* Where the receiver thread is.  "idle" waits in ecp_tr_recv; from "got" to
\* "destroy" it handles a packet of rx.conn; from "exe" on it runs the timer.
PacketPc == {"got", "handle", "handler", "openrep", "close", "closerm", "dec"}
ExecPc == {"reset", "reinit", "reinsert", "resend", "err", "errclose", "xdec"}
RxPc == {"idle", "destroy", "exe", "next", "xdestroy"} \cup PacketPc \cup ExecPc

\* What a packet turned out to be.  "DROP" stands for every packet that ends in
\* ecp_unpack with the reference alone: refused (nonce out of window, decryption
\* failed, type not allowed), or INIT_REP, answered with an untimed OPEN_REQ.
PacketType == {"DROP", "OPEN_REP", "OPEN_REQ", "REPLY", "MSG"}

Receiver == [pc : RxPc, conn : Conn \cup {NoConn}, mtype : PacketType,
             item : Slot, err : {"TIMEOUT", "FAILED"}]

\* What the application's thread does with an outbound connection.
AppPc == {"new", "insert", "send", "undo", "undorm", "failed", "opening",
          "remove", "destroy", "closed", "gone"}

VARIABLES
    life,       \* "free" (inbound, not allocated), "live" or "dead"
    reg,        \* ECP_CONN_FLAG_REG
    open,       \* ECP_CONN_FLAG_OPEN
    refcount,   \* conn->refcount
    table,      \* conn_table.keys and addrs: the connections a packet can find
    keysInb,    \* conn_table.keys_inb: inbound connections that can expire
    timer,      \* the items, by slot
    rx,         \* the receiver thread
    app,        \* the application's thread, per outbound connection
    told,       \* outbound connections whose timeout handle_err reported
    exp,        \* the thread in ecp_conn_table expiry
    opened,     \* history: open handler succeeded, close handler not called yet
    leaked,     \* history: references counted that nobody will drop
    crossed     \* history: connections closed while their open was retried

vars == <<life, reg, open, refcount, table, keysInb, timer, rx, app, told, exp,
          opened, leaked, crossed>>

Items == {s \in Slot : timer[s] # NoItem}
Queued == {s \in Items : ~timer[s].exec}
Collected == {s \in Items : timer[s].exec}
ItemsOf(c) == {s \in Items : timer[s].conn = c}
QueuedOf(c) == {s \in Queued : timer[s].conn = c}

TypeOK ==
    /\ life \in [Conn -> {"free", "live", "dead"}]
    /\ reg \in [Conn -> BOOLEAN]
    /\ open \in [Conn -> BOOLEAN]
    /\ refcount \in [Conn -> Nat]
    /\ table \in SUBSET Conn
    /\ keysInb \in SUBSET Inb
    /\ timer \in [Slot -> Item \cup {NoItem}]
    /\ rx \in Receiver
    /\ app \in [Outb -> AppPc]
    /\ told \in SUBSET Outb
    /\ exp \in [pc : {"idle", "remove", "destroy"},
                todo : SUBSET Inb, conn : Inb \cup {NoConn}]
    /\ opened \in [Conn -> BOOLEAN]
    /\ leaked \in [Conn -> Nat]
    /\ crossed \in SUBSET Outb

Init ==
    /\ life = [c \in Conn |-> IF c \in Outb THEN "live" ELSE "free"]
    /\ reg = [c \in Conn |-> FALSE]
    /\ open = [c \in Conn |-> FALSE]
    /\ refcount = [c \in Conn |-> 0]
    /\ table = {}
    /\ keysInb = {}
    /\ timer = [s \in Slot |-> NoItem]
    /\ rx = [pc |-> "idle", conn |-> NoConn, mtype |-> "DROP", item |-> 1,
             err |-> "TIMEOUT"]
    /\ app = [c \in Outb |-> "new"]
    /\ told = {}
    /\ exp = [pc |-> "idle", todo |-> {}, conn |-> NoConn]
    /\ opened = [c \in Conn |-> FALSE]
    /\ leaked = [c \in Conn |-> 0]
    /\ crossed = {}

-----------------------------------------------------------------------------
(* The calls that several threads make.  Each is one critical section.       *)

FreeSlots == Slot \ Items
NewSlot == CHOOSE s \in Slot : s \in FreeSlots

\* ecp_timer_push.  A registered connection gains a reference before the array
\* is found full, and nothing takes it back.
PushFull == Cardinality(Queued) = MaxTimer
PushOK(c) == ~PushFull /\ reg[c]
Push(c, mtype, cnt) ==
    /\ leaked' = [leaked EXCEPT ![c] = IF reg[c] /\ PushFull THEN @ + 1 ELSE @]
    /\ refcount' = [refcount EXCEPT ![c] = IF reg[c] THEN @ + 1 ELSE @]
    /\ PushOK(c) => FreeSlots # {}
    /\ timer' = IF PushOK(c)
                THEN [timer EXCEPT ![NewSlot] =
                        [conn |-> c, mtype |-> mtype, cnt |-> cnt,
                         due |-> FALSE, exec |-> FALSE]]
                ELSE timer

\* conn_close: the close handler if the connection is open, then the end of it.
\* An inbound structure goes back to the allocator.
ConnClose(c) ==
    /\ life' = [life EXCEPT ![c] = IF c \in Inb THEN "free" ELSE "dead"]
    /\ open' = [open EXCEPT ![c] = FALSE]
    /\ opened' = [opened EXCEPT ![c] = @ /\ ~open[c]]

\* ecp_conn_refcount_dec up to the unlock: whether conn_close comes next.
\* (Mutants: REG is not looked at; the count is read before it is decremented;
\* two references are dropped.)
LastRefRegistered(c) == refcount[c] = 1
LastRefBefore(c) == refcount[c] = 0 /\ ~reg[c]
DropRefTwice(c) == refcount' = [refcount EXCEPT ![c] = @ - 2]
LastRef(c) == refcount[c] = 1 /\ ~reg[c]
DropRef(c) == refcount' = [refcount EXCEPT ![c] = @ - 1]

\* ecp_timer_remove: every queued item of the connection and its reference.
\* Whoever drops the last one of an unregistered connection closes it here.
\* (Mutant: the references stay.)
TimerRemoveKeepsRefs(c) ==
    /\ timer' = [s \in Slot |-> IF s \in QueuedOf(c) THEN NoItem ELSE timer[s]]
    /\ UNCHANGED <<refcount, life, open, opened>>
TimerRemove(c) ==
    LET n == Cardinality(QueuedOf(c)) IN
    /\ timer' = [s \in Slot |-> IF s \in QueuedOf(c) THEN NoItem ELSE timer[s]]
    /\ refcount' = [refcount EXCEPT ![c] = @ - n]
    /\ IF n > 0 /\ refcount[c] = n /\ ~reg[c]
       THEN ConnClose(c)
       ELSE UNCHANGED <<life, open, opened>>

\* ecp_conn_remove: out of the table and unregistered under both mutexes.
\* (Mutants: it stays in the table; it stays registered.)
ConnRemoveKeepsTable(c) == table' = table /\ reg' = [reg EXCEPT ![c] = FALSE]
ConnRemoveKeepsReg(c) == reg' = reg /\ table' = table \ {c}
ConnRemove(c) ==
    /\ table' = IF reg[c] THEN table \ {c} ELSE table
    /\ reg' = [reg EXCEPT ![c] = FALSE]

-----------------------------------------------------------------------------
(* The application's thread, one per outbound connection.                    *)

\* Nothing was sent yet: the peer cannot have answered.
Unsent(c) == c \in Outb /\ app[c] \in {"new", "insert", "send", "undo", "undorm", "failed"}

\* ecp_conn_open: init_outb, then ecp_conn_insert sets REG before it takes the
\* table's mutex.
OpenRegister(c) ==
    /\ app[c] \in {"new", "failed"}
    /\ leaked[c] < MaxLeak
    /\ reg' = [reg EXCEPT ![c] = TRUE]
    /\ app' = [app EXCEPT ![c] = "insert"]
    /\ UNCHANGED <<life, open, refcount, table, keysInb, timer, rx, told, exp,
                   opened, leaked, crossed>>

\* conn_table_insert; it fails when the hash table finds no memory.
OpenInsert(c, ok) ==
    /\ app[c] = "insert"
    /\ table' = IF ok THEN table \cup {c} ELSE table
    /\ reg' = [reg EXCEPT ![c] = ok]
    /\ app' = [app EXCEPT ![c] = IF ok THEN "send" ELSE "failed"]
    /\ UNCHANGED <<life, open, refcount, keysInb, timer, rx, told, exp, opened,
                   leaked, crossed>>

\* ecp_send_init_req: the timer item is pushed, then the packet is sent.
OpenSend(c, sent) ==
    /\ app[c] = "send"
    /\ Push(c, "OPEN_REP", Tries - 1)
    /\ app' = [app EXCEPT ![c] = IF PushOK(c) /\ sent THEN "opening" ELSE "undo"]
    /\ UNCHANGED <<life, reg, open, table, keysInb, rx, told, exp, opened,
                   crossed>>

\* The error path of ecp_conn_open: ecp_timer_remove, then ecp_conn_remove.
OpenUndo(c) ==
    /\ app[c] = "undo"
    /\ TimerRemove(c)
    /\ app' = [app EXCEPT ![c] = "undorm"]
    /\ UNCHANGED <<reg, table, keysInb, rx, told, exp, leaked, crossed>>

OpenUndoRemove(c) ==
    /\ app[c] = "undorm"
    /\ ConnRemove(c)
    /\ app' = [app EXCEPT ![c] = "failed"]
    /\ UNCHANGED <<life, open, refcount, keysInb, timer, rx, told, exp, opened,
                   leaked, crossed>>

\* ecp_timer_send on an open connection (ecp_send_keyx_req and its like).
AppRequest(c) ==
    /\ app[c] = "opening" /\ open[c] /\ leaked[c] < MaxLeak
    /\ Push(c, "REPLY", Tries - 1)
    /\ UNCHANGED <<life, reg, open, table, keysInb, rx, app, told, exp, opened,
                   crossed>>

\* The handshake's item is out of the array, where ecp_timer_remove cannot take
\* it, and its retry is not over: it will run, it runs, or it failed and nobody
\* was told.
Retrying(c) ==
    \E s \in ItemsOf(c) \cap Collected :
        /\ timer[s].mtype = "OPEN_REP" /\ timer[s].cnt > 0
        /\ ~(rx.pc = "xdec" /\ rx.item = s)

\* _ecp_conn_close by the application, in three steps, any time after
\* ecp_conn_open returned.  Nothing in it waits for a retry that runs.
MayClose(c) == app[c] \in {"failed", "opening"}

AppClose(c) ==
    /\ MayClose(c)
    /\ TimerRemove(c)
    /\ app' = [app EXCEPT ![c] = "remove"]
    /\ crossed' = IF Retrying(c) THEN crossed \cup {c} ELSE crossed
    /\ UNCHANGED <<reg, table, keysInb, rx, told, exp, leaked>>

AppRemove(c) ==
    /\ app[c] = "remove"
    /\ ConnRemove(c)
    /\ app' = [app EXCEPT ![c] = IF refcount[c] = 0 THEN "destroy" ELSE "closed"]
    /\ UNCHANGED <<life, open, refcount, keysInb, timer, rx, told, exp, opened,
                   leaked, crossed>>

AppDestroy(c) ==
    /\ app[c] = "destroy"
    /\ ConnClose(c)
    /\ app' = [app EXCEPT ![c] = "closed"]
    /\ UNCHANGED <<reg, refcount, table, keysInb, timer, rx, told, exp, leaked,
                   crossed>>

-----------------------------------------------------------------------------
(* The receiver thread: one packet.                                          *)

Goto(pc) == rx' = [rx EXCEPT !.pc = pc]
Rest(pc) == rx' = [pc |-> pc, conn |-> NoConn, mtype |-> "DROP", item |-> 1,
                   err |-> "TIMEOUT"]

\* ecp_unpack finds the connection: the reference is taken under both mutexes.
\* While it is not open only the handshake's answers pass.
RxLookup(c, m) ==
    /\ rx.pc = "idle" /\ c \in table /\ ~Unsent(c)
    /\ m = "OPEN_REP" => c \in Outb
    /\ m = "OPEN_REQ" => c \in Inb
    /\ m \in {"REPLY", "MSG"} => open[c]
    /\ refcount' = [refcount EXCEPT ![c] = @ + 1]
    /\ rx' = [rx EXCEPT !.pc = IF m = "DROP" THEN "dec" ELSE "got",
                        !.conn = c, !.mtype = m]
    /\ UNCHANGED <<life, reg, open, table, keysInb, timer, app, told, exp,
                   opened, leaked, crossed>>

\* ecp_handle_open_req: a new inbound connection, born with the receiver's
\* reference.  When the insertion fails it is freed again and nothing changed.
RxAccept(c) ==
    /\ rx.pc = "idle" /\ life[c] = "free"
    /\ life' = [life EXCEPT ![c] = "live"]
    /\ refcount' = [refcount EXCEPT ![c] = 1]
    /\ reg' = [reg EXCEPT ![c] = TRUE]
    /\ table' = table \cup {c}
    /\ rx' = [rx EXCEPT !.pc = "got", !.conn = c, !.mtype = "OPEN_REQ"]
    /\ UNCHANGED <<open, keysInb, timer, app, told, exp, opened, leaked,
                   crossed>>

\* ecp_tr_recv times out, or the packet belongs to no connection.
RxNothing ==
    /\ rx.pc = "idle"
    /\ Rest("exe")
    /\ UNCHANGED <<life, reg, open, refcount, table, keysInb, timer, app, told,
                   exp, opened, leaked, crossed>>

\* ecp_pld_handle_one: ecp_timer_pop takes one item that waits for this type,
\* the one due first, and its reference.  The receiver's own one remains.
\* (Mutant: it takes an item that waits for something else.)
AwaitingOther(c, m) == {s \in QueuedOf(c) : timer[s].mtype # m}
Awaiting(c, m) == {s \in QueuedOf(c) : timer[s].mtype = m}
RxPop ==
    /\ rx.pc = "got"
    /\ Goto("handle")
    /\ \/ /\ Awaiting(rx.conn, rx.mtype) = {}
          /\ UNCHANGED <<timer, refcount>>
       \/ \E s \in Awaiting(rx.conn, rx.mtype) :
             /\ \A q \in Awaiting(rx.conn, rx.mtype) : timer[q].due => timer[s].due
             /\ timer' = [timer EXCEPT ![s] = NoItem]
             /\ DropRef(rx.conn)
    /\ UNCHANGED <<life, reg, open, table, keysInb, app, told, exp, opened,
                   leaked, crossed>>

\* ecp_handle_open under the connection's mutex.
RxOpen ==
    /\ rx.pc = "handle" /\ rx.mtype \in {"OPEN_REP", "OPEN_REQ"}
    /\ Goto(IF open[rx.conn] THEN "dec" ELSE "handler")
    /\ open' = [open EXCEPT ![rx.conn] = TRUE]
    /\ UNCHANGED <<life, reg, refcount, table, keysInb, timer, app, told, exp,
                   opened, leaked, crossed>>

\* ... then the open handler runs without it.  An outbound connection whose
\* handler refuses is left to the application, which knows.
RxOpenHandler(accept) ==
    /\ rx.pc = "handler"
    /\ open' = [open EXCEPT ![rx.conn] = accept]
    /\ opened' = [opened EXCEPT ![rx.conn] = accept]
    /\ told' = IF ~accept /\ rx.conn \in Outb THEN told \cup {rx.conn} ELSE told
    /\ Goto(IF rx.conn \in Outb THEN "dec" ELSE IF accept THEN "openrep" ELSE "close")
    /\ UNCHANGED <<life, reg, refcount, table, keysInb, timer, app, exp, leaked,
                   crossed>>

\* The inbound side answers OPEN_REP and lists the connection for expiry; when
\* either fails it closes the connection.
RxOpenRep(ok) ==
    /\ rx.pc = "openrep"
    /\ keysInb' = IF ok THEN keysInb \cup {rx.conn} ELSE keysInb
    /\ Goto(IF ok THEN "dec" ELSE "close")
    /\ UNCHANGED <<life, reg, open, refcount, table, timer, app, told, exp,
                   opened, leaked, crossed>>

\* _ecp_conn_close by the receiver, which holds a reference: always ECP_ERR_BUSY.
RxClose ==
    /\ rx.pc = "close"
    /\ TimerRemove(rx.conn)
    /\ Goto("closerm")
    /\ UNCHANGED <<reg, table, keysInb, app, told, exp, leaked, crossed>>

RxCloseRemove ==
    /\ rx.pc = "closerm"
    /\ ConnRemove(rx.conn)
    /\ Goto("dec")
    /\ UNCHANGED <<life, open, refcount, keysInb, timer, app, told, exp, opened,
                   leaked, crossed>>

\* A reply is consumed; a message's handler may send a timed request itself.
RxMessage(request) ==
    /\ rx.pc = "handle" /\ rx.mtype \in {"REPLY", "MSG"}
    /\ request => rx.mtype = "MSG" /\ leaked[rx.conn] < MaxLeak
    /\ Goto("dec")
    /\ IF request THEN Push(rx.conn, "REPLY", Tries - 1)
                  ELSE UNCHANGED <<timer, refcount, leaked>>
    /\ UNCHANGED <<life, reg, open, table, keysInb, app, told, exp, opened,
                   crossed>>

\* pkt_handle_fin and unpack_err: ecp_conn_refcount_dec.
RxDec ==
    /\ rx.pc = "dec"
    /\ DropRef(rx.conn)
    /\ IF LastRef(rx.conn) THEN Goto("destroy") ELSE Rest("exe")
    /\ UNCHANGED <<life, reg, open, table, keysInb, timer, app, told, exp,
                   opened, leaked, crossed>>

RxDestroy ==
    /\ rx.pc = "destroy"
    /\ ConnClose(rx.conn)
    /\ Rest("exe")
    /\ UNCHANGED <<reg, refcount, table, keysInb, timer, app, told, exp, leaked,
                   crossed>>

-----------------------------------------------------------------------------
(* The receiver thread: the timer (ecp_timer_exe).                           *)

\* Every due item leaves the array at once, with the reference it holds.
ExeCollect ==
    /\ rx.pc = "exe"
    /\ timer' = [s \in Slot |-> IF s \in Queued /\ timer[s].due
                                THEN [timer[s] EXCEPT !.exec = TRUE] ELSE timer[s]]
    /\ Rest("next")
    /\ UNCHANGED <<life, reg, open, refcount, table, keysInb, app, told, exp,
                   opened, leaked, crossed>>

ExeDone ==
    /\ rx.pc = "next" /\ Collected = {}
    /\ Rest("idle")
    /\ UNCHANGED <<life, reg, open, refcount, table, keysInb, timer, app, told,
                   exp, opened, leaked, crossed>>

\* The tries are used up, or the item's retry function runs: the handshake's
\* resets the connection first, any other one just sends again.
ExeItem(s) ==
    /\ rx.pc = "next" /\ s \in Collected
    /\ rx' = [rx EXCEPT !.conn = timer[s].conn, !.item = s, !.err = "TIMEOUT",
                        !.pc = IF timer[s].cnt = 0 THEN "err"
                               ELSE IF timer[s].mtype = "OPEN_REP" THEN "reset"
                               ELSE "resend"]
    /\ UNCHANGED <<life, reg, open, refcount, table, keysInb, timer, app, told,
                   exp, opened, leaked, crossed>>

Failed == rx' = [rx EXCEPT !.pc = "err", !.err = "FAILED"]

\* ecp_conn_reset: ecp_conn_remove, then nobody but the timer may hold it.
ExeReset ==
    /\ rx.pc = "reset"
    /\ ConnRemove(rx.conn)
    /\ IF refcount[rx.conn] > 1 THEN Failed ELSE Goto("reinit")
    /\ UNCHANGED <<life, open, refcount, keysInb, timer, app, told, exp, opened,
                   leaked, crossed>>

\* ecp_conn_reinit clears the flags, ecp_conn_init_outb makes a new key or fails,
\* and ecp_conn_insert sets REG before it takes the table's mutex.
ExeReinit(ok) ==
    /\ rx.pc = "reinit"
    /\ open' = [open EXCEPT ![rx.conn] = FALSE]
    /\ reg' = [reg EXCEPT ![rx.conn] = ok]
    /\ IF ok THEN Goto("reinsert") ELSE Failed
    /\ UNCHANGED <<life, refcount, table, keysInb, timer, app, told, exp,
                   opened, leaked, crossed>>

\* conn_table_insert; when it fails REG is cleared again.  It does not look
\* whether REG is still set.
ExeReinsert(ok) ==
    /\ rx.pc = "reinsert"
    /\ table' = IF ok THEN table \cup {rx.conn} ELSE table
    /\ reg' = IF ok THEN reg ELSE [reg EXCEPT ![rx.conn] = FALSE]
    /\ IF ok THEN Goto("resend") ELSE Failed
    /\ UNCHANGED <<life, open, refcount, keysInb, timer, app, told, exp, opened,
                   leaked, crossed>>

\* timer_exe counts the try.  (Mutant: it does not.)
TryAgain(s) == timer[s].cnt
TryLess(s) == timer[s].cnt - 1

\* The item is pushed again with one try less, then the packet is sent.  That
\* the connection was closed meanwhile is no error.
ExeResend(sent) ==
    /\ rx.pc = "resend"
    /\ Push(rx.conn, timer[rx.item].mtype, TryLess(rx.item))
    /\ IF PushFull \/ (PushOK(rx.conn) /\ ~sent) THEN Failed ELSE Goto("xdec")
    /\ UNCHANGED <<life, reg, open, table, keysInb, app, told, exp, opened,
                   crossed>>

\* handle_err returns.  After a timeout the application may still close the
\* connection; after a retry of the handshake failed it may be gone any moment.
ExeErr ==
    /\ rx.pc = "err"
    /\ told' = IF rx.err = "TIMEOUT" /\ rx.conn \in Outb THEN told \cup {rx.conn}
                ELSE told
    /\ app' = IF /\ rx.err = "FAILED" /\ timer[rx.item].mtype = "OPEN_REP"
                 /\ rx.conn \in Outb
              THEN [app EXCEPT ![rx.conn] = IF @ = "opening" THEN "gone" ELSE @]
              ELSE app
    /\ Goto("xdec")
    /\ UNCHANGED <<life, reg, open, refcount, table, keysInb, timer, exp,
                   opened, leaked, crossed>>

\* handle_err closes the connection: the steps of AppClose while rx waits.
ExeErrClose ==
    /\ rx.pc = "err" /\ rx.conn \in Outb /\ app[rx.conn] = "opening"
    /\ TimerRemove(rx.conn)
    /\ app' = [app EXCEPT ![rx.conn] = "remove"]
    /\ Goto("errclose")
    /\ UNCHANGED <<reg, table, keysInb, told, exp, leaked, crossed>>

ExeErrClosed ==
    /\ rx.pc = "errclose" /\ app[rx.conn] = "closed"
    /\ Goto("xdec")
    /\ UNCHANGED <<life, reg, open, refcount, table, keysInb, timer, app, told,
                   exp, opened, leaked, crossed>>

\* The executed item's reference goes.
ExeDec ==
    /\ rx.pc = "xdec"
    /\ DropRef(rx.conn)
    /\ timer' = [timer EXCEPT ![rx.item] = NoItem]
    /\ IF LastRef(rx.conn) THEN Goto("xdestroy") ELSE Rest("next")
    /\ UNCHANGED <<life, reg, open, table, keysInb, app, told, exp, opened,
                   leaked, crossed>>

ExeDestroy ==
    /\ rx.pc = "xdestroy"
    /\ ConnClose(rx.conn)
    /\ Rest("next")
    /\ UNCHANGED <<reg, refcount, table, keysInb, timer, app, told, exp, leaked,
                   crossed>>

-----------------------------------------------------------------------------
(* conn_table_expire_inb: silent connections leave keys_inb under its mutex, *)
(* then each is closed.                                                      *)

ExpireScan(S) ==
    /\ exp.pc = "idle" /\ exp.todo = {} /\ S # {}
    /\ keysInb' = keysInb \ S
    /\ exp' = [exp EXCEPT !.todo = S]
    /\ UNCHANGED <<life, reg, open, refcount, table, timer, rx, app, told,
                   opened, leaked, crossed>>

ExpireClose(c) ==
    /\ exp.pc = "idle" /\ c \in exp.todo
    /\ TimerRemove(c)
    /\ exp' = [pc |-> "remove", todo |-> exp.todo \ {c}, conn |-> c]
    /\ UNCHANGED <<reg, table, keysInb, rx, app, told, leaked, crossed>>

ExpireDone(pc) ==
    exp' = [exp EXCEPT !.pc = pc, !.conn = IF pc = "idle" THEN NoConn ELSE @]

ExpireRemove ==
    /\ exp.pc = "remove"
    /\ ConnRemove(exp.conn)
    /\ ExpireDone(IF refcount[exp.conn] = 0 THEN "destroy" ELSE "idle")
    /\ UNCHANGED <<life, open, refcount, keysInb, timer, rx, app, told, opened,
                   leaked, crossed>>

ExpireDestroy ==
    /\ exp.pc = "destroy"
    /\ ConnClose(exp.conn)
    /\ ExpireDone("idle")
    /\ UNCHANGED <<reg, refcount, table, keysInb, timer, rx, app, told, leaked,
                   crossed>>

-----------------------------------------------------------------------------
\* ECP_SEND_TIMEOUT passes: every waiting item is due.  It does not pass while
\* ecp_conn_open undoes a send that failed.
Tick ==
    /\ \A c \in Outb : app[c] \notin {"undo", "undorm"}
    /\ \E s \in Queued : ~timer[s].due
    /\ timer' = [s \in Slot |-> IF s \in Queued THEN [timer[s] EXCEPT !.due = TRUE]
                                ELSE timer[s]]
    /\ UNCHANGED <<life, reg, open, refcount, table, keysInb, rx, app, told,
                   exp, opened, leaked, crossed>>

\* The calls the application decides to make, and the ones it has to finish.
AppCall(c) == OpenRegister(c) \/ AppRequest(c) \/ AppClose(c)
AppStep(c) ==
    \/ \E ok \in BOOLEAN : OpenInsert(c, ok) \/ OpenSend(c, ok)
    \/ OpenUndo(c) \/ OpenUndoRemove(c) \/ AppRemove(c) \/ AppDestroy(c)

RxPacket ==
    \/ \E c \in table, m \in PacketType : RxLookup(c, m)
    \/ \E c \in Inb : RxAccept(c)
    \/ RxNothing \/ RxPop \/ RxOpen
    \/ \E ok \in BOOLEAN : RxOpenHandler(ok) \/ RxOpenRep(ok) \/ RxMessage(ok)
    \/ RxClose \/ RxCloseRemove \/ RxDec \/ RxDestroy

RxTimer ==
    \/ ExeCollect \/ ExeDone
    \/ \E s \in Slot : ExeItem(s)
    \/ ExeReset
    \/ \E ok \in BOOLEAN : ExeReinit(ok) \/ ExeReinsert(ok) \/ ExeResend(ok)
    \/ ExeErr \/ ExeErrClose \/ ExeErrClosed \/ ExeDec \/ ExeDestroy

ExpireStep ==
    \/ \E c \in Inb : ExpireClose(c)
    \/ ExpireRemove \/ ExpireDestroy

Next ==
    \/ \E c \in Outb : AppCall(c) \/ AppStep(c)
    \/ RxPacket \/ RxTimer
    \/ \E S \in SUBSET keysInb : ExpireScan(S)
    \/ ExpireStep
    \/ Tick

\* Threads keep running and time passes; the application and the peer owe nothing.
Fairness ==
    /\ WF_vars(RxPacket \/ RxTimer)
    /\ \A c \in Outb : WF_vars(AppStep(c))
    /\ WF_vars(ExpireStep)
    /\ WF_vars(Tick)

Spec == Init /\ [][Next]_vars /\ Fairness

-----------------------------------------------------------------------------
(* Properties.                                                               *)

RxHolds(c) == rx.conn = c /\ rx.pc \in PacketPc

\* Every reference counted in conn->refcount belongs to a timer item (waiting or
\* being executed), to the packet in the receiver's hands, or was lost by an
\* ecp_timer_push that found the timer full.
RefsCounted ==
    \A c \in Conn :
        refcount[c] = Cardinality(ItemsOf(c)) + (IF RxHolds(c) THEN 1 ELSE 0) + leaked[c]

\* Whoever can still reach a connection reaches one that is not destroyed: a
\* packet through conn_table, the expiry through keys_inb or its to_remove
\* array, the timer through an item, the receiver, and the application until it
\* closed it or was told that it is gone.  Only a connection closed while its
\* open was retried may be destroyed by one thread and used by the other.
NoUseAfterDestroy ==
    \A c \in Conn \ crossed :
        \/ c \in table \cup keysInb \cup exp.todo
        \/ ItemsOf(c) # {}
        \/ c \in {rx.conn, exp.conn}
        \/ c \in Outb /\ app[c] \notin {"closed", "gone"}
        => life[c] = "live"

\* A connection that packets can find is registered, so that the last
\* ecp_conn_refcount_dec does not destroy it under the table; except that
\* ecp_conn_insert of a retry does not see that a close cleared REG again.
TableIsRegistered == \A c \in table \ crossed : reg[c]

\* ecp_conn_reset rebuilds a connection nobody else uses: it is not open, the
\* item being executed is its only one and holds the only reference that anybody
\* will drop ("timer holds one reference to this connection"), also while the
\* application closes it.
ResetOwnsConnection ==
    rx.pc \in {"reset", "reinit", "reinsert"} =>
        /\ ~open[rx.conn]
        /\ ItemsOf(rx.conn) = {rx.item}
        /\ refcount[rx.conn] = 1 + leaked[rx.conn]

\* Once ecp_conn_close returned, no retransmission brings the connection back
\* into the table, whatever the receiver was doing with it: unless the close
\* met a retry of the open.  ecp_conn_reset looks at the reference count alone,
\* and registers and inserts the connection that was closed meanwhile.
ClosedStaysOut ==
    \A c \in Outb \ crossed : app[c] = "closed" => ~reg[c] /\ c \notin table

\* A connection whose open handler succeeded is destroyed by way of its close
\* handler.  One that a retry brought back may be destroyed, found by a packet
\* and opened after that.
HandlersPaired == \A c \in Conn \ crossed : opened[c] => life[c] = "live"

\* The comment of ecp_conn_reset: when a retry begins, the timer's reference is
\* the only one, so that ECP_ERR_BUSY means that somebody uses the connection.
TimerHoldsOneReference == rx.pc = "reset" => refcount[rx.conn] = 1

\* A closed connection that lost no reference is destroyed, whatever packets and
\* retransmissions were in progress, unless a retry of its open brought it back;
\* an expired inbound one is freed.
Dropped(c) ==
    /\ leaked[c] = 0 /\ c \notin crossed
    /\ IF c \in Outb THEN app[c] = "closed" ELSE life[c] = "live" /\ ~reg[c]
DroppedIsDestroyed == \A c \in Conn : Dropped(c) ~> life[c] # "live"

\* An ecp_conn_open that returned OK ends: the connection opens, the application
\* is told of the failure, or it closed the connection before.
OpenSettles ==
    \A c \in Outb : app[c] = "opening" ~> open[c] \/ c \in told \/ app[c] # "opening"
=============================================================================

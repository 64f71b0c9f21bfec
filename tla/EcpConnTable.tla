---------------------------- MODULE EcpConnTable ----------------------------
(***************************************************************************)
(* The hash tables of an ECP socket (core.c, hashtable.c).                 *)
(*                                                                         *)
(* addrs finds an outbound connection that is being opened by the address  *)
(* of its peer, keys finds a connection by one of its public keys (its own *)
(* if it is outbound, the peer's if it is inbound), keys_inb lists the     *)
(* inbound ones for the expiry.  An entry points to the key inside the     *)
(* connection and keeps the hash of what was there when it was made; a     *)
(* table may hold equal keys, and the newest entry is met first.  The      *)
(* application's threads open, close and rekey, the receiver handles the   *)
(* handshake and starts it anew when it timed out, the expiry closes       *)
(* silent connections; each action is a critical section of the tables'    *)
(* mutex or of the connection's.                                           *)
(*                                                                         *)
(* The peers' requests come late, again, and in any order.  Which copies   *)
(* the cookie and the replay window let pass is the subject of EcpSession: *)
(* here every request may be taken that finds its connection, or, of       *)
(* OPEN_REQ, none.  References are the subject of EcpConn: here a          *)
(* connection out of the tables dies when the receiver is done with it,    *)
(* and what a dangling entry leads to is not followed.  Hashes do not      *)
(* collide, the tables stay below the size at which they are rebuilt, and  *)
(* a socket does not connect to itself.                                    *)
(***************************************************************************)
EXTENDS Naturals, Sequences, FiniteSetsExt

CONSTANTS
    Outb, Inb,  \* outbound and inbound connections
    Addr,
    NoConn,
    MaxKey,     \* bound: keys generated
    MaxPeerKey  \* bound: keys of the peers of the inbound connections

Conn == Outb \union Inb

ASSUME TableAssumption ==
    NoConn \notin Conn /\ Outb \intersect Inb = {} /\ MaxKey \in Nat /\ MaxPeerKey \in Nat

Slots == {0, 1}     \* ECP_MAX_CONN_KEY
NoKey == 0          \* a key that is not valid
PeerKey == MaxKey + 1 .. MaxKey + MaxPeerKey

\* What a peer's key comes in: an OPEN_REQ, or a KEYX_REQ written under another key of the same
\* connection, for the slot that key is not in.  Of the keys it tries under one key a peer moves to the
\* last alone, so only under that one it writes again.
Requests ==
    {r \in [PeerKey -> [under : PeerKey \union {NoKey}, slot : Slots]] :
        \A k \in PeerKey : r[k].under # NoKey =>
            /\ r[k].under < k /\ r[k].slot # r[r[k].under].slot
            /\ \A j \in PeerKey : r[j].under = r[k].under /\ j # k =>
                  ~\E m, n \in PeerKey : r[m].under = k /\ r[n].under = j}

VARIABLES
    addrs,          \* conn_table.addrs: connections, newest first
    keys,           \* conn_table.keys: entries, newest first
    listed,         \* conn_table.keys_inb
    addr,           \* remote.addr
    req,            \* the requests of the peers
    key, curr,      \* key and key_curr of an outbound connection; rkey of an inbound one
    reg, open,      \* the flags REG and OPEN
    app,            \* "new", "open", "closing" or "closed", by the application or for good
    dead,           \* destroyed connections
    rx,             \* the receiver: what it does to which connection, and the key a request brought
    exp,            \* to_remove: what the expiry is about to close
    fresh,          \* keys generated
    failed,         \* (history) slots with a key that memory did not suffice to insert
    shared,         \* (history) addresses at which two connections were being opened
    refused,        \* (history) closed while the open handler ran that then failed
    crossed,        \* (history) closed while the receiver was starting the handshake anew
    doubled         \* (history) keys inserted while another connection had them

tables == <<addrs, keys>>
expiry == <<listed, exp>>
fixed  == <<addr, req>>
hist   == <<failed, shared, refused, crossed, doubled>>
vars   == <<tables, expiry, fixed, key, curr, reg, open, app, dead, rx, fresh, hist>>

At(pc, c) == [pc |-> pc, conn |-> c, key |-> NoKey]
Idle == At("idle", NoConn)
Inserting(c) == rx.pc = "insert" /\ rx.conn = c

Init ==
    /\ addrs = <<>> /\ keys = <<>> /\ listed = {} /\ exp = {}
    /\ addr \in [Outb -> Addr] /\ req \in Requests
    /\ key = [c \in Conn |-> [i \in Slots |-> NoKey]] /\ curr = [c \in Outb |-> 0]
    /\ reg = [c \in Conn |-> FALSE] /\ open = [c \in Conn |-> FALSE]
    /\ app = [c \in Conn |-> "new"] /\ dead = {}
    /\ rx = Idle /\ fresh = 0
    /\ failed = {} /\ shared = {} /\ refused = {} /\ crossed = {} /\ doubled = {}
-----------------------------------------------------------------------------
(* The tables *)

Entry(c, i, k) == [conn |-> c, slot |-> i, hash |-> k]

\* The first of the places in S, or 0
First(S) == IF S = {} THEN 0 ELSE Min(S)

Without(t, i) == [j \in 1 .. Len(t) - (IF i = 0 THEN 0 ELSE 1) |->
                     IF i = 0 \/ j < i THEN t[j] ELSE t[j + 1]]

\* ecp_ht_search, ecp_ht_remove: the hash must match and what the entry points to be equal.
AtAddr(a) == First({i \in DOMAIN addrs : addr[addrs[i]] = a})
AtKey(t, k) == First({i \in DOMAIN t : t[i].hash = k /\ key[t[i].conn][t[i].slot] = k})

FindAddr(a) == IF AtAddr(a) = 0 THEN NoConn ELSE addrs[AtAddr(a)]
FindKey(k) == IF AtKey(keys, k) = 0 THEN NoConn ELSE keys[AtKey(keys, k)].conn

\* The newest entry goes, whoever's it is.
RemoveAddr(c) ==
    /\ addrs' = Without(addrs, AtAddr(addr[c]))
    /\ shared' = IF FindAddr(addr[c]) \in {c, NoConn} THEN shared ELSE shared \union {addr[c]}

DropKey(t, k) == IF k = NoKey THEN t ELSE Without(t, AtKey(t, k))

KeysOf(c) == {key[c][i] : i \in Slots} \ {NoKey}

\* conn_table_remove.  (Mutant: the address stays.)
AddrStays(c) == FALSE
HasAddr(c) == c \in Outb /\ ~open[c]
TableRemove(c) ==
    /\ keys' = DropKey(DropKey(keys, key[c][0]), key[c][1])
    /\ IF HasAddr(c) THEN RemoveAddr(c) ELSE UNCHANGED <<addrs, shared>>

\* ecp_conn_remove
ConnRemove(c) ==
    /\ IF reg[c] THEN TableRemove(c) ELSE UNCHANGED <<tables, shared>>
    /\ reg' = [reg EXCEPT ![c] = FALSE]

\* conn_table_insert of an outbound connection whose only key is k, in slot i; it fails as a whole.
TableInsert(c, i, k) ==
    /\ addrs' = <<c>> \o addrs
    /\ keys' = <<Entry(c, i, k)>> \o keys
    /\ shared' = IF FindAddr(addr[c]) = NoConn THEN shared ELSE shared \union {addr[c]}
-----------------------------------------------------------------------------
(* The application *)

\* ecp_conn_open; without memory for the entries the connection stays out.
OpenConn(c) ==
    /\ app[c] = "new" /\ fresh < MaxKey
    /\ fresh' = fresh + 1 /\ key' = [key EXCEPT ![c][0] = fresh']
    /\ \/ TableInsert(c, 0, fresh') /\ reg' = [reg EXCEPT ![c] = TRUE] /\ app' = [app EXCEPT ![c] = "open"]
       \/ app' = [app EXCEPT ![c] = "closed"] /\ UNCHANGED <<tables, reg, shared>>
    /\ UNCHANGED <<expiry, fixed, curr, open, dead, rx, failed, refused, crossed, doubled>>

\* ecp_conn_close: ecp_timer_remove takes the retries that wait, but not one that the receiver has
\* taken out of the timer, be it at that one already or still at others, ...
CloseBegin(c) ==
    /\ app[c] = "open" /\ app' = [app EXCEPT ![c] = "closing"]
    /\ \/ ~(rx.conn = c /\ rx.pc \in {"reset", "rekey", "insert"}) /\ crossed' = crossed
       \/ ~open[c] /\ crossed' = crossed \union {c}
    /\ UNCHANGED <<tables, expiry, fixed, key, curr, reg, open, dead, rx, fresh, failed, shared, refused, doubled>>

\* ... and nobody finds the connection any more.
Close(c) ==
    /\ app[c] = "closing" /\ app' = [app EXCEPT ![c] = "closed"]
    /\ ConnRemove(c)
    /\ UNCHANGED <<expiry, fixed, key, curr, open, dead, rx, fresh, failed, refused, crossed, doubled>>

\* The last reference is gone; what an inbound one had in memory may be overwritten at once.
Destroy(c) ==
    /\ app[c] = "closed" /\ ~reg[c] /\ rx.conn # c /\ c \notin exp /\ c \notin dead
    /\ dead' = dead \union {c} /\ open' = [open EXCEPT ![c] = FALSE]
    /\ \/ UNCHANGED key
       \/ c \in Inb /\ key' = [key EXCEPT ![c] = [i \in Slots |-> NoKey]]
    /\ UNCHANGED <<expiry, tables, fixed, curr, reg, app, rx, fresh, hist>>

\* conn_dhkey_new, conn_dhkey_set_pub: key k comes into slot i of the connection, for the one that was
\* there.  (Mutant: the entry of the other slot goes.)
OtherGone(c, i) == DropKey(keys, key[c][1 - i])
OldGone(c, i) == DropKey(keys, key[c][i])
SetKey(c, i, k) ==
    /\ key' = [key EXCEPT ![c][i] = k]
    /\ IF ~reg[c] THEN UNCHANGED <<keys, failed, doubled>>
       ELSE /\ \/ keys' = <<Entry(c, i, k)>> \o OldGone(c, i) /\ failed' = failed \ {<<c, i>>}
               \/ keys' = OldGone(c, i) /\ failed' = failed \union {<<c, i>>}
            /\ doubled' = IF \E d \in Conn \ {c} : reg[d] /\ k \in KeysOf(d)
                          THEN doubled \union {k} ELSE doubled
    /\ UNCHANGED <<expiry, addrs, fixed, curr, reg, open, app, dead, shared, refused, crossed>>

\* ecp_conn_dhkey_new
NewKey(c) ==
    /\ app[c] = "open" /\ reg[c] /\ open[c] /\ fresh < MaxKey
    /\ fresh' = fresh + 1 /\ SetKey(c, (curr[c] + 1) % 2, fresh') /\ UNCHANGED rx

\* ecp_conn_dhkey_set_curr, after the answer to a key exchange
SetCurr(c) ==
    /\ rx = Idle /\ reg[c] /\ open[c]
    /\ key[c][(curr[c] + 1) % 2] > key[c][curr[c]]
    /\ curr' = [curr EXCEPT ![c] = (@ + 1) % 2]
    /\ UNCHANGED <<expiry, tables, fixed, key, reg, open, app, dead, rx, fresh, hist>>
-----------------------------------------------------------------------------
(* The receiver *)

\* ecp_handle_open: the answer to OPEN_REQ finds its connection by the key.
OpenRep(k) ==
    /\ rx = Idle /\ FindKey(k) \in Outb \ dead /\ ~open[FindKey(k)]
    /\ open' = [open EXCEPT ![FindKey(k)] = TRUE] /\ rx' = At("handler", FindKey(k))
    /\ UNCHANGED <<expiry, tables, fixed, key, curr, reg, app, dead, fresh, hist>>

HandlerTakes ==
    /\ rx.pc = "handler"
    /\ rx' = At("opened", rx.conn)
    /\ UNCHANGED <<expiry, tables, fixed, key, curr, reg, open, app, dead, fresh, hist>>

HandlerFails ==
    /\ rx.pc = "handler"
    /\ open' = [open EXCEPT ![rx.conn] = FALSE] /\ rx' = Idle
    /\ refused' = IF reg[rx.conn] THEN refused ELSE refused \union {rx.conn}
    /\ UNCHANGED <<expiry, tables, fixed, key, curr, reg, app, dead, fresh, failed, shared, crossed, doubled>>

\* ecp_conn_remove_addr, whatever became of the connection since
Opened ==
    /\ rx.pc = "opened"
    /\ RemoveAddr(rx.conn) /\ rx' = Idle
    /\ UNCHANGED <<expiry, keys, fixed, key, curr, reg, open, app, dead, fresh, failed, refused, crossed, doubled>>

\* The handshake timed out; of a connection that is being closed there is a retry only if ecp_conn_close
\* found one out of the timer.
Retry(c) ==
    /\ rx = Idle /\ ~open[c] /\ c \notin dead
    /\ (app[c] = "open" /\ reg[c]) \/ c \in crossed
    /\ rx' = At("reset", c)
    /\ UNCHANGED <<expiry, tables, fixed, key, curr, reg, open, app, dead, fresh, hist>>

\* ecp_conn_reset: ecp_conn_remove; with somebody else at the connection, it stays out.
Reset ==
    /\ rx.pc = "reset"
    /\ ConnRemove(rx.conn)
    /\ rx' \in {At("rekey", rx.conn), Idle}
    /\ UNCHANGED <<expiry, fixed, key, curr, open, app, dead, fresh, failed, refused, crossed, doubled>>

\* ecp_conn_reinit, ecp_conn_init_outb, and ecp_conn_insert sets REG before it takes the mutex ...
Rekey ==
    /\ rx.pc = "rekey" /\ fresh < MaxKey /\ rx' = At("insert", rx.conn)
    /\ LET c == rx.conn
           i == (curr[c] + 1) % 2 IN
       /\ fresh' = fresh + 1
       /\ key' = [key EXCEPT ![c] = [j \in Slots |-> IF j = i THEN fresh' ELSE NoKey]]
       /\ curr' = [curr EXCEPT ![c] = i]
       /\ reg' = [reg EXCEPT ![c] = TRUE]
       /\ failed' = failed \ ({c} \X Slots)
    /\ UNCHANGED <<expiry, tables, fixed, open, app, dead, shared, refused, crossed, doubled>>

\* ... under which it does not look at it again.
Reinsert ==
    /\ rx.pc = "insert" /\ rx' = Idle
    /\ \/ /\ TableInsert(rx.conn, curr[rx.conn], key[rx.conn][curr[rx.conn]])
          /\ UNCHANGED reg
       \/ reg' = [reg EXCEPT ![rx.conn] = FALSE] /\ UNCHANGED <<tables, shared>>
    /\ UNCHANGED <<expiry, fixed, key, curr, open, app, dead, fresh, failed, refused, crossed, doubled>>

-----------------------------------------------------------------------------
(* Inbound connections *)

\* ecp_handle_open_req: no connection is found by the key, be it new or a copy's.
Accept(c, k) ==
    /\ rx = Idle /\ app[c] = "new" /\ req[k].under = NoKey /\ FindKey(k) = NoConn
    /\ key' = [key EXCEPT ![c][req[k].slot] = k]
    /\ keys' = <<Entry(c, req[k].slot, k)>> \o keys
    /\ reg' = [reg EXCEPT ![c] = TRUE] /\ app' = [app EXCEPT ![c] = "open"]
    /\ rx' = At("accept", c)
    /\ UNCHANGED <<expiry, addrs, fixed, curr, open, dead, fresh, hist>>

\* The handler takes it and OPEN_REP is sent: conn_table_insert_inb.
Accepted ==
    /\ rx.pc = "accept" /\ rx' = Idle
    /\ open' = [open EXCEPT ![rx.conn] = TRUE] /\ listed' = listed \union {rx.conn}
    /\ UNCHANGED <<tables, exp, fixed, key, curr, reg, app, dead, fresh, hist>>

\* _ecp_conn_close
CloseInb(c) ==
    /\ ConnRemove(c) /\ app' = [app EXCEPT ![c] = "closed"]
    /\ UNCHANGED <<listed, fixed, key, curr, open, dead, fresh, failed, refused, crossed, doubled>>

\* The handler refuses, OPEN_REP is not sent, or the connection cannot be listed.
NotAccepted == rx.pc = "accept" /\ rx' = Idle /\ CloseInb(rx.conn) /\ UNCHANGED exp

\* KEYX_REQ finds its connection; by the time its key is stored that may be closed.
KeyxReq(k) ==
    /\ rx = Idle /\ req[k].under # NoKey
    /\ LET c == FindKey(req[k].under) IN
       /\ c \in Inb /\ open[c]
       /\ rx' = [pc |-> "keyx", conn |-> c, key |-> k]
    /\ UNCHANGED <<expiry, tables, fixed, key, curr, reg, open, app, dead, fresh, hist>>

\* ecp_conn_dhkey_set_pub stores the key it brings, but not over itself.
KeyxHandle ==
    /\ rx.pc = "keyx" /\ rx' = Idle
    /\ LET i == req[rx.key].slot IN
       IF key[rx.conn][i] = rx.key
       THEN UNCHANGED <<expiry, tables, fixed, key, curr, reg, open, app, dead, hist>>
       ELSE SetKey(rx.conn, i, rx.key)
    /\ UNCHANGED fresh

\* conn_table_expire_inb: the silent ones leave keys_inb under its mutex, then each is closed.
ExpireScan ==
    /\ exp = {} /\ exp' \in SUBSET listed \ {{}} /\ listed' = listed \ exp'
    /\ UNCHANGED <<tables, fixed, key, curr, reg, open, app, dead, rx, fresh, hist>>

ExpireClose(c) == c \in exp /\ exp' = exp \ {c} /\ CloseInb(c) /\ UNCHANGED rx

Next ==
    \/ \E c \in Outb : OpenConn(c) \/ CloseBegin(c) \/ Close(c) \/ NewKey(c) \/ SetCurr(c) \/ Retry(c)
    \/ \E c \in Conn : Destroy(c)
    \/ \E k \in 1 .. MaxKey : OpenRep(k)
    \/ HandlerTakes \/ HandlerFails \/ Opened \/ Reset \/ Rekey \/ Reinsert
    \/ \E c \in Inb, k \in PeerKey : Accept(c, k)
    \/ \E k \in PeerKey : KeyxReq(k)
    \/ \E c \in Inb : ExpireClose(c)
    \/ Accepted \/ NotAccepted \/ KeyxHandle \/ ExpireScan

Spec == Init /\ [][Next]_vars
-----------------------------------------------------------------------------
\* No entry outlives its connection, so the receiver finds no connection that was destroyed, but in
\* four cases.  An address at which two connections were being opened: closing one removes the entry
\* of the other.  A connection that was closed while its open handler was about to fail.  One that
\* was closed while its handshake was being started anew, which puts it back.  And a key that two
\* inbound connections had, the second one made by a copy of OPEN_REQ and brought to it by a copy
\* of KEYX_REQ: closing one removes the entry of the other.
\* (conn_table_remove, ecp_conn_remove_addr, ecp_conn_reset, conn_dhkey_set_pub)
NoDangling ==
    /\ \A c \in Range(addrs) : c \in dead => addr[c] \in shared \/ c \in refused \union crossed
    /\ \A e \in Range(keys) : e.conn \in dead => e.hash \in doubled \/ e.conn \in crossed

\* A registered connection is found by each of its keys, through all changes of keys and new
\* handshakes, and while it is being opened by its address; nothing is found by any other key.  Not
\* promised of a key that memory did not suffice to insert or that two inbound connections had, nor
\* at an address of two connections; and what is found may be out of the tables if it was closed
\* while its handshake was being started anew.  An inbound connection is also found by the expiry,
\* unless the receiver or the expiry has it in hand.
\* (conn_table_insert, conn_dhkey_new, conn_dhkey_set_pub, conn_table_insert_inb)
Found ==
    /\ \A c \in Conn, i \in Slots :
          /\ reg[c] /\ ~Inserting(c) /\ key[c][i] \notin doubled \union {NoKey} /\ <<c, i>> \notin failed
          => FindKey(key[c][i]) = c
    /\ \A k \in (1 .. fresh) \union (PeerKey \ doubled) :
          FindKey(k) \in Conn \ crossed => reg[FindKey(k)] /\ k \in KeysOf(FindKey(k))
    /\ \A c \in Outb :
          reg[c] /\ ~open[c] /\ ~Inserting(c) /\ addr[c] \notin shared => FindAddr(addr[c]) = c
    /\ \A c \in Inb : reg[c] <=> c \in listed \union exp \/ (rx.pc = "accept" /\ rx.conn = c)
=============================================================================

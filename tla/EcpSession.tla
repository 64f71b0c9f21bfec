----------------------------- MODULE EcpSession -----------------------------
(***************************************************************************)
(* Handshake and key exchange of ECP (core.c) between one outbound         *)
(* connection and a server's socket, over a network that loses, repeats    *)
(* and reorders packets.                                                   *)
(*                                                                         *)
(* Each side has two slots for its own keys and two for the other side's;  *)
(* shared keys are computed on demand and cached per pair of slots.  The   *)
(* client opens with a new key, tries again with another one, and from     *)
(* time to time moves on to a new key: KEYX_REQ announces it, KEYX_REP     *)
(* names the server's key and lets the client move.  The server follows    *)
(* when it first meets a pair of slots it has no shared key for.           *)
(*                                                                         *)
(* Keys are numbers in the order in which they are made, a shared key is   *)
(* the pair of them, a packet can be read with the shared key it was       *)
(* written with.  Life and references of connections are EcpConn's         *)
(* subject, the timer's array EcpTimer's.                                  *)
(***************************************************************************)
EXTENDS Sequences, FiniteSets, EcpWindow

CONSTANTS
    Conn,      \* connections ctx->conn_alloc can hand out at the server
    SendTries, \* ECP_SEND_TRIES
    MaxKey,    \* bound: keys the client makes
    MaxSKey,   \* bound: keys the server's socket has, one after the other
    MaxGen,    \* bound: minkeys of the server
    MaxOut,    \* bound: packets the client sends
    MaxReply   \* bound: packets an inbound connection sends

ASSUME SessionAssumption ==
    /\ SendTries \in Nat \ {0}
    /\ {MaxKey, MaxSKey, MaxGen, MaxOut, MaxReply} \subseteq Nat \ {0}

VARIABLES
    cl,      \* the client's connection
    made,    \* the client's key made last
    app,     \* the application's thread in ecp_conn_dhkey_new and _send_keyx_req
    rx,      \* the client's receiver between the two halves of a KEYX_REP: the key it answers
    timer,   \* tries left of the client's timer items, the one due first at the head
    sock,    \* the server's socket: its keys, minkey, and the expiry under way
    inb,     \* the server's connections
    born,    \* (history) the OPEN_REQs for which the server has made a connection
    mixed,   \* (history) a side took a message of an earlier exchange for the current one
    net      \* every packet sent so far: each may arrive late, more than once, or never

vars == <<cl, made, app, rx, timer, sock, inb, born, mixed, net>>

None == -1       \* an unused slot
Perma == 0       \* the server's permanent key
PermaIdx == 15   \* ECP_ECDH_IDX_PERMA
InvIdx == 255    \* ECP_ECDH_IDX_INV
Slots == 0 .. 1
Next1(i) == (i + 1) % 2
NoPair == <<None, None>>
NoCookie == [gen |-> 0, pub |-> None]

NoKeys == [i \in Slots |-> None]
NoShared == [s \in Slots |-> [c \in Slots |-> NoPair]]
ClearRow(shkey, s) == [shkey EXCEPT ![s] = [c \in Slots |-> NoPair]]
ClearColumn(shkey, c) == [s \in Slots |-> [shkey[s] EXCEPT ![c] = NoPair]]

Free == [state |-> "free"]
Used(i) == inb[i].state # "free"

\* ecp_conn_open: the connection with its first key, and INIT_REQ on its way.
Opening(k, idx, out) ==
    [open |-> FALSE, key |-> [NoKeys EXCEPT ![idx] = k], curr |-> idx, next |-> InvIdx,
     rkey |-> NoKeys, rcurr |-> InvIdx, shkey |-> NoShared,
     out |-> out, win |-> Opened(0), hs |-> k]
InitReq(k, idx, n) ==
    [to |-> "srv", pub |-> k, s |-> PermaIdx, c |-> idx, nonce |-> n,
     cookie |-> NoCookie, shared |-> <<Perma, k>>, msg |-> [type |-> "INIT_REQ"]]

Init ==
    /\ cl = Opening(1, 0, 2) /\ made = 1
    /\ app = [at |-> "idle"] /\ rx = None
    /\ timer = <<SendTries - 1>>
    /\ sock = [key |-> [NoKeys EXCEPT ![0] = 1], curr |-> 0, gen |-> 1, expire |-> {}]
    /\ inb = [i \in Conn |-> Free]
    /\ born = {} /\ mixed = FALSE
    /\ net = {InitReq(1, 0, 1)}
-----------------------------------------------------------------------------
(***************************************************************************)
(* Shared keys.                                                            *)
(***************************************************************************)

\* conn_shkey_get of an outbound connection; NoPair if a key is missing.
ClientShared(s, c) ==
    IF s \notin Slots \/ c \notin Slots THEN NoPair
    ELSE IF cl.shkey[s][c] # NoPair THEN cl.shkey[s][c]
    ELSE IF cl.rkey[s] = None \/ cl.key[c] = None THEN NoPair
    ELSE <<cl.rkey[s], cl.key[c]>>

\* conn_shkey_get of an inbound connection.
ServerShared(conn, s, c) ==
    IF s \notin Slots \/ c \notin Slots THEN NoPair
    ELSE IF conn.shkey[s][c] # NoPair THEN conn.shkey[s][c]
    ELSE IF sock.key[s] = None \/ conn.rkey[c] = None THEN NoPair
    ELSE <<sock.key[s], conn.rkey[c]>>

\* What it does to the connection: a pair met for the first time becomes the current
\* one, before the packet is authenticated.
Meet(conn, s, c) ==
    IF conn.shkey[s][c] # NoPair THEN conn
    ELSE [conn EXCEPT !.shkey[s][c] = ServerShared(conn, s, c), !.curr = s, !.rcurr = c]

\* conn_dhkey_set_pub at the client
ClientSetPub(conn, idx, key) ==
    IF conn.rkey[idx] = key THEN conn
    ELSE [conn EXCEPT !.rkey[idx] = key, !.rcurr = idx, !.shkey = ClearRow(@, idx)]

\* conn_dhkey_set_pub at the server  (Mutant: the cached keys of the slot stay.)
ServerKeepShared(conn, idx, key) == [conn EXCEPT !.rkey[idx] = key]
ServerSetPub(conn, idx, key) ==
    IF conn.rkey[idx] = key THEN conn
    ELSE [conn EXCEPT !.rkey[idx] = key, !.shkey = ClearColumn(@, idx)]

\* conn_dhkey_get_pub: the caches of the slot whose key is about to be sent.
ClientGetPub(conn, idx) ==
    IF idx = conn.curr THEN conn ELSE [conn EXCEPT !.shkey = ClearColumn(@, idx)]
ServerGetPub(conn, idx) ==
    IF idx = conn.rcurr THEN conn ELSE [conn EXCEPT !.shkey = ClearRow(@, idx)]

(***************************************************************************)
(* Sending.                                                                *)
(***************************************************************************)

\* _pack_conn at the client, with the slots s and c it is told or finds current.
ClientPacket(conn, s, cookie, msg) ==
    [to |-> "srv", pub |-> conn.key[conn.curr], s |-> s, c |-> conn.curr, nonce |-> conn.out,
     cookie |-> cookie, msg |-> msg,
     shared |-> IF conn.shkey[s][conn.curr] # NoPair THEN conn.shkey[s][conn.curr]
                ELSE <<conn.rkey[s], conn.key[conn.curr]>>]
ClientSends(conn, cookie, msg) ==
    /\ conn.out <= MaxOut
    /\ net' = net \union {ClientPacket(conn, conn.rcurr, cookie, msg)}
    /\ cl' = [conn EXCEPT !.out = @ + 1,
                          !.shkey[conn.rcurr][conn.curr] =
                              ClientPacket(conn, conn.rcurr, cookie, msg).shared]

\* _pack_conn at the server, always with the current pair.
ServerPacket(conn, msg) ==
    [to |-> "cli", pub |-> conn.rkey[conn.rcurr], s |-> conn.curr, c |-> conn.rcurr,
     nonce |-> conn.out, cookie |-> NoCookie, msg |-> msg,
     shared |-> ServerShared(conn, conn.curr, conn.rcurr)]
ServerSends(i, conn, msg) ==
    /\ conn.out <= MaxReply
    /\ net' = net \union {ServerPacket(conn, msg)}
    /\ inb' = [inb EXCEPT ![i] = [Meet(conn, conn.curr, conn.rcurr) EXCEPT !.out = @ + 1]]
-----------------------------------------------------------------------------
(***************************************************************************)
(* The server: ecp_unpack and the handlers.                                *)
(***************************************************************************)

\* conn_table_search in the table of keys
Found(pub) == {i \in Conn : Used(i) /\ \E c \in Slots : inb[i].rkey[c] = pub}

Cookie(pub) == [gen |-> sock.gen, pub |-> pub]

\* INIT_REQ: an answer and no state.
HandleInitReq(p) ==
    /\ p.msg.type = "INIT_REQ" /\ Found(p.pub) = {}
    /\ net' = net \union {[to |-> "cli", pub |-> None, s |-> PermaIdx, c |-> p.c, nonce |-> 0,
                           cookie |-> NoCookie, shared |-> p.shared,
                           msg |-> [type |-> "INIT_REP", idx |-> sock.curr,
                                    key |-> sock.key[sock.curr], cookie |-> Cookie(p.pub)]]}
    /\ UNCHANGED <<cl, made, app, rx, timer, sock, inb, born, mixed>>

\* OPEN_REQ from a key that is not known: the connection is made, opened and answered.
CookieValid(p) == p.cookie = Cookie(p.pub)

HandleOpenReq(p) ==
    /\ p.msg.type = "OPEN_REQ" /\ Found(p.pub) = {}
    /\ CookieValid(p)
    /\ p.shared = <<sock.key[p.s], p.pub>>
    /\ \E i \in Conn :
         /\ ~Used(i)
         /\ ServerSends(i,
              [state |-> "open", hs |-> p.pub, curr |-> p.s, rcurr |-> p.c,
               rkey |-> [NoKeys EXCEPT ![p.c] = p.pub],
               shkey |-> [NoShared EXCEPT ![p.s][p.c] = p.shared],
               out |-> 1, win |-> Opened(p.nonce), again |-> \E b \in born : b[1] = p.pub],
              [type |-> "OPEN_REP"])
    /\ born' = born \union {<<p.pub, p.nonce>>}
    /\ UNCHANGED <<cl, made, app, rx, timer, sock, mixed>>

\* A packet of a known key: the pair is met first, then the nonce is checked, then the
\* packet decrypted; only then is the window moved.
Readable(i, p) ==
    /\ Accepts(inb[i].win, p.nonce)
    /\ ServerShared(inb[i], p.s, p.c) = p.shared
Received(i, p) == [Meet(inb[i], p.s, p.c) EXCEPT !.win = After(@, p.nonce)]

HandleKnown(p) ==
    \E i \in Found(p.pub) :
      /\ ServerShared(inb[i], p.s, p.c) # NoPair
      /\ IF ~Readable(i, p)
         THEN /\ inb' = [inb EXCEPT ![i] = Meet(@, p.s, p.c)]
              /\ UNCHANGED <<net, mixed>>
         ELSE IF p.msg.type = "KEYX_REQ"
         THEN LET told == ServerSetPub(Received(i, p), p.msg.idx, p.msg.key)
              IN  /\ ServerSends(i, ServerGetPub(told, sock.curr),
                       [type |-> "KEYX_REP", idx |-> sock.curr, key |-> sock.key[sock.curr],
                        answers |-> p.msg.key])
                  /\ mixed' = (mixed \/ inb[i].again \/ p.msg.key < inb[i].rkey[p.msg.idx])
         ELSE /\ inb' = [inb EXCEPT ![i] = Received(i, p)]
              /\ UNCHANGED <<net, mixed>>
      /\ UNCHANGED <<cl, made, app, rx, timer, sock, born>>

ServerReceive ==
    \E p \in net :
      /\ p.to = "srv"
      /\ HandleInitReq(p) \/ HandleOpenReq(p) \/ HandleKnown(p)

\* ecp_sock_dhkey_new
NewSockKey ==
    /\ \A i \in Slots : sock.key[i] < MaxSKey
    /\ sock' = [sock EXCEPT !.curr = Next1(@),
                            !.key[Next1(sock.curr)] = sock.key[sock.curr] + 1]
    /\ UNCHANGED <<cl, made, app, rx, timer, inb, born, mixed, net>>

\* ecp_sock_expire_inb: a new minkey, then each connection that is due.
\* (Mutant: the connections go, the minkey stays.)
ExpireOnly ==
    /\ sock.expire = {} /\ \E i \in Conn : Used(i)
    /\ \E due \in SUBSET {i \in Conn : Used(i)} : sock' = [sock EXCEPT !.expire = due]
    /\ UNCHANGED <<cl, made, app, rx, timer, inb, born, mixed, net>>
Expire ==
    /\ sock.expire = {} /\ sock.gen < MaxGen
    /\ \E due \in SUBSET {i \in Conn : Used(i)} :
         sock' = [sock EXCEPT !.gen = @ + 1, !.expire = due]
    /\ UNCHANGED <<cl, made, app, rx, timer, inb, born, mixed, net>>
\* (Mutant: a connection that is closed stays among those to close.)
ExpireForever ==
    /\ \E i \in sock.expire : inb' = [inb EXCEPT ![i] = Free]
    /\ UNCHANGED <<cl, made, app, rx, timer, sock, born, mixed, net>>
ExpireOne ==
    /\ \E i \in sock.expire :
         /\ sock' = [sock EXCEPT !.expire = @ \ {i}]
         /\ inb' = [inb EXCEPT ![i] = Free]
    /\ UNCHANGED <<cl, made, app, rx, timer, born, mixed, net>>
-----------------------------------------------------------------------------
(***************************************************************************)
(* The client's receiver.                                                  *)
(***************************************************************************)

\* The handshake is under way as long as its timer item is.
Handshaking == ~cl.open /\ timer # <<>>

HandleInitRep(p) ==
    /\ Handshaking
    /\ p.msg.type = "INIT_REP" /\ p.shared = <<Perma, cl.key[cl.curr]>>
    /\ ClientSends(ClientSetPub(cl, p.msg.idx, p.msg.key), p.msg.cookie, [type |-> "OPEN_REQ"])
    /\ UNCHANGED <<made, app, rx, timer, sock, inb, born, mixed>>

ClientFinds(p) == \E c \in Slots : cl.key[c] = p.pub /\ p.pub # None
ClientReads(p) == ClientFinds(p) /\ ClientShared(p.s, p.c) = p.shared
ClientMeets(p) == [cl EXCEPT !.shkey[p.s][p.c] = ClientShared(p.s, p.c)]

HandleOpenRep(p) ==
    /\ Handshaking
    /\ p.msg.type = "OPEN_REP" /\ ClientReads(p)
    /\ cl' = [ClientMeets(p) EXCEPT !.open = TRUE, !.win = Opened(p.nonce)]
    /\ timer' = Tail(timer)
    /\ UNCHANGED <<made, app, rx, sock, inb, born, mixed, net>>

\* KEYX_REP: the timer's item goes first, then the server's key is taken ...
HandleKeyxRep(p) ==
    /\ cl.open
    /\ p.msg.type = "KEYX_REP" /\ ClientReads(p) /\ Accepts(cl.win, p.nonce)
    /\ cl' = ClientSetPub([ClientMeets(p) EXCEPT !.win = After(@, p.nonce)], p.msg.idx, p.msg.key)
    /\ rx' = p.msg.answers
    /\ timer' = IF timer = <<>> THEN timer ELSE Tail(timer)
    /\ UNCHANGED <<made, app, sock, inb, born, mixed, net>>

\* ... and in a section of its own the client's new key becomes the current one
\* (ecp_conn_dhkey_set_curr).
SetCurr ==
    /\ rx # None
    /\ IF cl.next = InvIdx THEN UNCHANGED <<cl, mixed>>
       ELSE /\ cl' = [cl EXCEPT !.curr = cl.next, !.next = InvIdx]
            /\ mixed' = (mixed \/ rx # cl.key[cl.next])
    /\ rx' = None
    /\ UNCHANGED <<made, app, timer, sock, inb, born, net>>

ClientReceive ==
    /\ rx = None
    /\ \E p \in net :
         /\ p.to = "cli"
         /\ HandleInitRep(p) \/ HandleOpenRep(p) \/ HandleKeyxRep(p)

(***************************************************************************)
(* The client's timer (ecp_timer_exe in the receiver's thread).            *)
(***************************************************************************)

\* _retry_ireq: a handshake without an answer starts afresh, with a new key.
RetryHandshake ==
    /\ rx = None /\ Handshaking /\ Head(timer) > 0
    /\ made < MaxKey /\ cl.out <= MaxOut
    /\ made' = made + 1
    /\ cl' = Opening(made + 1, Next1(cl.curr), cl.out + 1)
    /\ net' = net \union {InitReq(made + 1, Next1(cl.curr), cl.out)}
    /\ timer' = Append(Tail(timer), Head(timer) - 1)
    /\ UNCHANGED <<app, rx, sock, inb, born, mixed>>

KeyxReq(conn, idx) == [type |-> "KEYX_REQ", idx |-> idx, key |-> conn.key[idx]]

\* _send_keyx_req once more; it fails when there is no exchange left to announce.
RetryKeyx ==
    /\ rx = None /\ cl.open /\ timer # <<>> /\ Head(timer) > 0
    /\ IF cl.next = InvIdx
       THEN timer' = Tail(timer) /\ UNCHANGED <<cl, net>>
       ELSE /\ ClientSends(ClientGetPub(cl, cl.next), NoCookie, KeyxReq(cl, cl.next))
            /\ timer' = Append(Tail(timer), Head(timer) - 1)
    /\ UNCHANGED <<made, app, rx, sock, inb, born, mixed>>

\* No tries left: the application is told.
TimedOut ==
    /\ rx = None /\ timer # <<>> /\ Head(timer) = 0
    /\ timer' = Tail(timer)
    /\ UNCHANGED <<cl, made, app, rx, sock, inb, born, mixed, net>>

(***************************************************************************)
(* The client's application.                                               *)
(***************************************************************************)

\* ecp_conn_dhkey_new: the new key takes the slot that is not in use ...
NewKey ==
    /\ cl.open /\ app.at = "idle" /\ made < MaxKey
    /\ made' = made + 1
    /\ cl' = [cl EXCEPT !.key[Next1(cl.curr)] = made + 1, !.next = Next1(cl.curr)]
    /\ app' = [at |-> "announce"]
    /\ UNCHANGED <<rx, timer, sock, inb, born, mixed, net>>

\* ... _send_keyx_req reads it ...
Announce ==
    /\ app.at = "announce"
    /\ IF cl.next = InvIdx
       THEN app' = [at |-> "idle"] /\ UNCHANGED cl
       ELSE /\ app' = [at |-> "pack", msg |-> KeyxReq(cl, cl.next)]
            /\ cl' = ClientGetPub(cl, cl.next)
    /\ UNCHANGED <<made, rx, timer, sock, inb, born, mixed, net>>

\* ... and the request is packed under the keys in use by then.
SendKeyxReq ==
    /\ app.at = "pack"
    /\ ClientSends(cl, NoCookie, app.msg)
    /\ timer' = Append(timer, SendTries - 1)
    /\ app' = [at |-> "idle"]
    /\ UNCHANGED <<made, rx, sock, inb, born, mixed>>

SendData ==
    /\ cl.open /\ app.at = "idle"
    /\ ClientSends(cl, NoCookie, [type |-> "DATA"])
    /\ UNCHANGED <<made, app, rx, timer, sock, inb, born, mixed>>
-----------------------------------------------------------------------------
Next ==
    \/ ServerReceive \/ NewSockKey \/ Expire \/ ExpireOne
    \/ ClientReceive \/ SetCurr
    \/ RetryHandshake \/ RetryKeyx \/ TimedOut
    \/ NewKey \/ Announce \/ SendKeyxReq \/ SendData

Spec == Init /\ [][Next]_vars
-----------------------------------------------------------------------------
CKeys == 1 .. MaxKey
SKeys == 1 .. MaxSKey
OwnSlots == [Slots -> CKeys \union {None}]
ServerSlots == [Slots -> SKeys \union {None}]
Shared == [Slots -> [Slots -> (SKeys \X CKeys) \union {NoPair}]]

\* The slots hold keys of the side they are meant for, indices name slots, and a connection
\* of the server always has a current pair.
TypeOK ==
    /\ cl.open \in BOOLEAN /\ cl.key \in OwnSlots /\ cl.curr \in Slots
    /\ cl.key[cl.curr] # None
    /\ cl.next \in Slots \union {InvIdx}
    /\ cl.rkey \in ServerSlots /\ cl.rcurr \in Slots \union {InvIdx}
    /\ cl.shkey \in Shared
    /\ made \in CKeys /\ app.at \in {"idle", "announce", "pack"}
    /\ timer \in Seq(0 .. SendTries - 1)
    /\ sock.key \in ServerSlots /\ sock.curr \in Slots /\ sock.gen \in 1 .. MaxGen
    /\ sock.expire \subseteq {i \in Conn : Used(i)}
    /\ \A i \in Conn : Used(i) =>
         /\ inb[i].rkey \in OwnSlots /\ inb[i].shkey \in Shared
         /\ inb[i].curr \in Slots /\ inb[i].rcurr \in Slots
         /\ inb[i].rkey[inb[i].rcurr] # None
    /\ born \subseteq CKeys \X (1 .. MaxOut) /\ mixed \in BOOLEAN

Peers == {i \in Conn : Used(i) /\ inb[i].hs = cl.hs /\ ~inb[i].again}
ClientHeard(i) ==
    /\ inb[i].rkey[cl.curr] = cl.key[cl.curr]
    /\ cl.rcurr \in Slots
    /\ ClientShared(cl.rcurr, cl.curr) = ServerShared(inb[i], cl.rcurr, cl.curr)
    /\ ClientShared(cl.rcurr, cl.curr) # NoPair
ServerHeard(i) ==
    inb[i].rkey[inb[i].rcurr] = cl.key[cl.curr] =>
        ClientShared(inb[i].curr, inb[i].rcurr) = ServerShared(inb[i], inb[i].curr, inb[i].rcurr)

\* A third key of the server's socket takes the place of the first one.
Replaced == sock.key[sock.curr] > 2

\* Whatever was lost, repeated or overtaken: the server can read what the client would send
\* now, and once it has met the client's current key the client can read the server.  It can
\* fail only after a side took a message of an earlier exchange for the current one (and a
\* connection made by a copy of OPEN_REQ is such a side), or after the server's socket has put
\* a new key in the place of one that the client or a cached shared key may still use.
\* (conn_shkey_get, conn_dhkey_set_pub, conn_dhkey_get_pub, ecp_handle_keyx)
NoLockout ==
    cl.open /\ ~mixed /\ ~Replaced => \A i \in Peers : ClientHeard(i) /\ ServerHeard(i)

\* A copy of an OPEN_REQ makes no second connection at the server: it finds the first one, or
\* after the expiry a cookie that is void (ecp_sock_expire_inb, ecp_unpack).  The exception
\* is a connection that has moved on from its first key by two exchanges and is no longer
\* found by it, while the cookie still holds.
MovedOn(k) == \E i \in Conn : Used(i) /\ inb[i].hs = k /\ \A c \in Slots : inb[i].rkey[c] # k
OpenedOnce ==
    [][\A i \in Conn : ~Used(i) /\ Used(i)' => born' # born \/ MovedOn(inb'[i].hs)]_vars
=============================================================================

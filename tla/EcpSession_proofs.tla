------------------------- MODULE EcpSession_proofs -------------------------
(***************************************************************************)
(* Proofs about EcpSession, for any number of connections, keys, packets   *)
(* and expiries.                                                           *)
(***************************************************************************)
EXTENDS EcpSession, SequenceTheorems, TLAPS

Window == [top : Int, missing : SUBSET Int]
ClientConn ==
    [open : BOOLEAN, key : OwnSlots, curr : Slots, next : Slots \union {InvIdx},
     rkey : ServerSlots, rcurr : Slots \union {InvIdx}, shkey : Shared,
     out : Nat \ {0}, win : Window, hs : CKeys]
ServerConn ==
    [state : {"open"}, hs : CKeys, curr : Slots, rcurr : Slots, rkey : OwnSlots,
     shkey : Shared, out : Nat, win : Window, again : BOOLEAN]

\* What holds of a client's connection: the slots it uses hold keys.
ClientOK(conn) ==
    /\ conn \in ClientConn
    /\ conn.key[conn.curr] # None
    /\ conn.next # InvIdx => conn.open /\ conn.key[conn.next] # None
    /\ conn.rcurr # InvIdx => conn.rkey[conn.rcurr] # None
    /\ conn.rcurr = InvIdx => \A s \in Slots : conn.rkey[s] = None
    /\ \A s \in Slots, c \in Slots : conn.shkey[s][c] # NoPair => conn.rkey[s] # None
    /\ conn.open => conn.rcurr # InvIdx

ClientInv ==
    /\ ClientOK(cl)
    /\ made \in CKeys
    /\ app.at \in {"idle", "announce", "pack"}
    /\ app.at # "idle" => cl.open
    /\ app.at = "pack" =>
         app.msg.type = "KEYX_REQ" /\ app.msg.idx \in Slots /\ app.msg.key \in CKeys
    /\ rx \in CKeys \union {None}
    /\ timer \in Seq(0 .. SendTries - 1)

\* What holds of a connection of the server, with the keys its socket has.
ServerOK(conn, keys) ==
    /\ conn \in ServerConn
    /\ conn.rkey[conn.rcurr] # None
    /\ keys[conn.curr] # None

ServerInv ==
    /\ sock \in [key : ServerSlots, curr : Slots, gen : 1 .. MaxGen, expire : SUBSET Conn]
    /\ sock.key[sock.curr] # None
    /\ \A i \in sock.expire : Used(i)
    /\ inb \in [Conn -> {Free} \union ServerConn]
    /\ \A i \in Conn : Used(i) => ServerOK(inb[i], sock.key)
    /\ mixed \in BOOLEAN

\* A packet, when the client's next nonce is out and the server's minkey gen.
ToServer(p, out, gen) ==
    /\ p.to = "srv"
    /\ p.pub \in CKeys /\ p.c \in Slots /\ p.nonce \in 1 .. MaxOut /\ p.nonce < out
    /\ p.cookie.gen \in Nat /\ p.cookie.gen <= gen
    /\ p.msg.type \in {"INIT_REQ", "OPEN_REQ", "KEYX_REQ", "DATA"}
    /\ p.shared # NoPair
    /\ p.msg.type # "INIT_REQ" => p.s \in Slots /\ p.shared \in SKeys \X CKeys
    /\ p.msg.type = "KEYX_REQ" => p.msg.idx \in Slots /\ p.msg.key \in CKeys

ToClient(p, gen) ==
    /\ p.to = "cli"
    /\ p.nonce \in Nat /\ p.c \in Slots
    /\ p.msg.type \in {"INIT_REP", "OPEN_REP", "KEYX_REP"}
    /\ p.shared # NoPair
    /\ p.msg.type # "OPEN_REP" => p.msg.idx \in Slots /\ p.msg.key \in SKeys
    /\ p.msg.type = "INIT_REP" => p.msg.cookie.gen \in Nat /\ p.msg.cookie.gen <= gen
    /\ p.msg.type = "KEYX_REP" => p.msg.answers \in CKeys

PacketOK(p, out, gen) == ToServer(p, out, gen) \/ ToClient(p, gen)
NetInv == \A p \in net : PacketOK(p, cl.out, sock.gen)

\* An OPEN_REQ that has made a connection: its cookie is void, or there is a connection of its
\* key that the expiry under way does not close.
Remembered(p) ==
    \/ p.cookie.gen < sock.gen
    \/ \E i \in Conn : Used(i) /\ i \notin sock.expire /\ inb[i].hs = p.pub

OnceInv ==
    /\ born \subseteq CKeys \X (1 .. MaxOut)
    /\ \A b \in born : b[2] < cl.out
    /\ \A p \in net : p.to = "srv" /\ p.msg.type = "OPEN_REQ" /\ <<p.pub, p.nonce>> \in born =>
         Remembered(p)

IInv == ClientInv /\ ServerInv /\ NetInv /\ OnceInv
-----------------------------------------------------------------------------
(* The operators *)

LEMMA Constants ==
    /\ SendTries \in Nat /\ SendTries > 0
    /\ MaxKey \in Nat /\ MaxKey > 0 /\ MaxSKey \in Nat /\ MaxSKey > 0
    /\ MaxGen \in Nat /\ MaxGen > 0 /\ MaxOut \in Nat /\ MaxOut > 0
    /\ MaxReply \in Nat /\ MaxReply > 0
BY SMT, SessionAssumption

LEMMA NoneFacts ==
    /\ None \notin CKeys /\ None \notin SKeys /\ Slots = {0, 1} /\ InvIdx \notin Slots
    /\ NoPair \notin SKeys \X CKeys
    /\ \A a, b : (a # None \/ b # None) => <<a, b>> # NoPair
BY SMT, Constants DEF None, CKeys, SKeys, Slots, InvIdx, NoPair

LEMMA PairFacts ==
    ASSUME NEW a \in SKeys, NEW b \in CKeys
    PROVE  <<a, b>> \in SKeys \X CKeys /\ <<a, b>> # NoPair
BY NoneFacts

LEMMA SharedUpdate ==
    ASSUME NEW shkey \in Shared, NEW s \in Slots, NEW c \in Slots,
           NEW v \in (SKeys \X CKeys) \union {NoPair}
    PROVE  [shkey EXCEPT ![s][c] = v] \in Shared
BY DEF Shared

LEMMA Cleared ==
    ASSUME NEW shkey \in Shared, NEW k \in Slots
    PROVE  ClearRow(shkey, k) \in Shared /\ ClearColumn(shkey, k) \in Shared
BY DEF Shared, ClearRow, ClearColumn

LEMMA WindowTypes ==
    ASSUME NEW n \in Nat
    PROVE  Opened(n) \in Window /\ \A win \in Window : After(win, n) \in Window
BY SMT DEF Window, Opened, After

LEMMA Empty == NoKeys \in OwnSlots /\ NoKeys \in ServerSlots /\ NoShared \in Shared
BY DEF NoKeys, NoShared, OwnSlots, ServerSlots, Shared

LEMMA ServerSharedKey ==
    ASSUME ServerInv, NEW conn \in ServerConn, NEW s, NEW c,
           ServerShared(conn, s, c) # NoPair
    PROVE  /\ s \in Slots /\ c \in Slots
           /\ ServerShared(conn, s, c) \in SKeys \X CKeys
           /\ conn.shkey[s][c] = NoPair => sock.key[s] # None /\ conn.rkey[c] # None
<1>1. s \in Slots /\ c \in Slots
  BY DEF ServerShared
<1>2. conn.shkey[s][c] \in (SKeys \X CKeys) \union {NoPair}
  BY <1>1 DEF ServerConn, Shared
<1>3. CASE conn.shkey[s][c] # NoPair
  BY <1>1, <1>2, <1>3 DEF ServerShared
<1>4. CASE conn.shkey[s][c] = NoPair
  <2>1. sock.key[s] # None /\ conn.rkey[c] # None
    BY <1>1, <1>4 DEF ServerShared
  <2>2. sock.key[s] \in SKeys /\ conn.rkey[c] \in CKeys
    BY <2>1, <1>1 DEF ServerInv, ServerConn, ServerSlots, OwnSlots
  <2>3. ServerShared(conn, s, c) = <<sock.key[s], conn.rkey[c]>>
    BY <2>1, <1>1, <1>4 DEF ServerShared
  <2> QED BY <1>1, <2>1, <2>2, <2>3
<1> QED BY <1>3, <1>4

LEMMA CurrentShared ==
    ASSUME ServerInv, NEW conn, ServerOK(conn, sock.key)
    PROVE  ServerShared(conn, conn.curr, conn.rcurr) \in SKeys \X CKeys
<1>1. conn.curr \in Slots /\ conn.rcurr \in Slots /\ conn \in ServerConn
  BY DEF ServerOK, ServerConn
<1>2. ServerShared(conn, conn.curr, conn.rcurr) # NoPair
  BY <1>1, NoneFacts DEF ServerShared, ServerOK
<1> QED BY <1>1, <1>2, ServerSharedKey

LEMMA MeetOK ==
    ASSUME ServerInv, NEW conn, ServerOK(conn, sock.key), NEW s, NEW c,
           ServerShared(conn, s, c) # NoPair
    PROVE  ServerOK(Meet(conn, s, c), sock.key) /\ Meet(conn, s, c).hs = conn.hs
<1>0. conn \in ServerConn
  BY DEF ServerOK
<1>1. /\ s \in Slots /\ c \in Slots
      /\ ServerShared(conn, s, c) \in SKeys \X CKeys
      /\ conn.shkey[s][c] = NoPair => sock.key[s] # None /\ conn.rkey[c] # None
  BY <1>0, ServerSharedKey
<1>2. CASE conn.shkey[s][c] # NoPair
  BY <1>2 DEF Meet
<1>3. CASE conn.shkey[s][c] = NoPair
  <2> DEFINE v == ServerShared(conn, s, c)
             row == [conn.shkey EXCEPT ![s][c] = v]
             new == [conn EXCEPT !.shkey[s][c] = v, !.curr = s, !.rcurr = c]
  <2>1. row \in Shared
    BY <1>0, <1>1, SharedUpdate DEF ServerConn
  <2>2. Meet(conn, s, c) = new
    BY <1>3 DEF Meet
  <2>3. new = [conn EXCEPT !.shkey = row, !.curr = s, !.rcurr = c]
    BY <1>0 DEF ServerConn
  <2> HIDE DEF v, row
  <2>4. new \in ServerConn /\ new.rcurr = c /\ new.curr = s /\ new.rkey = conn.rkey /\ new.hs = conn.hs
    BY <1>0, <1>1, <2>1, <2>3 DEF ServerConn
  <2> HIDE DEF new
  <2> QED BY <1>1, <1>3, <2>2, <2>4 DEF ServerOK
<1> QED BY <1>2, <1>3

LEMMA WindowOK ==
    ASSUME NEW conn, NEW keys, ServerOK(conn, keys), NEW n \in Nat
    PROVE  LET new == [conn EXCEPT !.win = After(@, n)]
           IN  ServerOK(new, keys) /\ new.hs = conn.hs
<1>1. conn \in ServerConn
  BY DEF ServerOK
<1>2. After(conn.win, n) \in Window
  BY <1>1, WindowTypes DEF ServerConn
<1> QED BY <1>1, <1>2 DEF ServerConn, ServerOK

LEMMA SentOK ==
    ASSUME NEW conn, NEW keys, ServerOK(conn, keys)
    PROVE  LET new == [conn EXCEPT !.out = @ + 1]
           IN  ServerOK(new, keys) /\ new.hs = conn.hs
BY DEF ServerConn, ServerOK

LEMMA ServerSetPubOK ==
    ASSUME NEW conn, NEW keys, ServerOK(conn, keys), NEW idx \in Slots, NEW key \in CKeys
    PROVE  ServerOK(ServerSetPub(conn, idx, key), keys) /\ ServerSetPub(conn, idx, key).hs = conn.hs
<1>1. conn \in ServerConn
  BY DEF ServerOK
<1>2. CASE conn.rkey[idx] = key
  BY <1>2 DEF ServerSetPub
<1>3. CASE conn.rkey[idx] # key
  <2>1. ClearColumn(conn.shkey, idx) \in Shared
    BY <1>1, Cleared DEF ServerConn
  <2>2. [conn.rkey EXCEPT ![idx] = key] \in OwnSlots
    BY <1>1 DEF ServerConn, OwnSlots
  <2>3. [conn.rkey EXCEPT ![idx] = key][conn.rcurr] # None
    BY <1>1, NoneFacts DEF ServerConn, ServerOK, OwnSlots
  <2>4. ServerSetPub(conn, idx, key) =
          [conn EXCEPT !.rkey = [conn.rkey EXCEPT ![idx] = key], !.shkey = ClearColumn(conn.shkey, idx)]
    BY <1>1, <1>3 DEF ServerSetPub, ServerConn
  <2> QED BY <1>1, <2>1, <2>2, <2>3, <2>4 DEF ServerConn, ServerOK
<1> QED BY <1>2, <1>3

LEMMA ServerGetPubOK ==
    ASSUME NEW conn, NEW keys, ServerOK(conn, keys), NEW idx \in Slots
    PROVE  ServerOK(ServerGetPub(conn, idx), keys) /\ ServerGetPub(conn, idx).hs = conn.hs
<1>1. conn \in ServerConn
  BY DEF ServerOK
<1>2. ClearRow(conn.shkey, idx) \in Shared
  BY <1>1, Cleared DEF ServerConn
<1> QED BY <1>1, <1>2 DEF ServerGetPub, ServerConn, ServerOK

LEMMA ClientSharedKey ==
    ASSUME ClientOK(cl), NEW s, NEW c, ClientShared(s, c) # NoPair
    PROVE  /\ s \in Slots /\ c \in Slots
           /\ ClientShared(s, c) \in SKeys \X CKeys
           /\ cl.rkey[s] # None
<1>0. cl \in ClientConn
  BY DEF ClientOK
<1>1. s \in Slots /\ c \in Slots
  BY DEF ClientShared
<1>2. cl.shkey[s][c] \in (SKeys \X CKeys) \union {NoPair}
  BY <1>0, <1>1 DEF ClientConn, Shared
<1>3. CASE cl.shkey[s][c] # NoPair
  BY <1>1, <1>2, <1>3 DEF ClientShared, ClientOK
<1>4. CASE cl.shkey[s][c] = NoPair
  <2>1. cl.rkey[s] # None /\ cl.key[c] # None
    BY <1>1, <1>4 DEF ClientShared
  <2>2. cl.rkey[s] \in SKeys /\ cl.key[c] \in CKeys
    BY <1>0, <2>1, <1>1 DEF ClientConn, ServerSlots, OwnSlots
  <2>3. ClientShared(s, c) = <<cl.rkey[s], cl.key[c]>>
    BY <2>1, <1>1, <1>4 DEF ClientShared
  <2> QED BY <1>1, <2>1, <2>2, <2>3
<1> QED BY <1>3, <1>4

LEMMA ClientMeetsOK ==
    ASSUME ClientOK(cl), NEW p, ClientReads(p), p.shared # NoPair
    PROVE  /\ ClientOK(ClientMeets(p))
           /\ ClientMeets(p).rcurr # InvIdx /\ p.s \in Slots /\ p.c \in Slots
           /\ \E sh \in Shared : ClientMeets(p) = [cl EXCEPT !.shkey = sh]
<1>0. cl \in ClientConn
  BY DEF ClientOK
<1>1. /\ p.s \in Slots /\ p.c \in Slots
      /\ ClientShared(p.s, p.c) \in SKeys \X CKeys
      /\ cl.rkey[p.s] # None
  BY ClientSharedKey DEF ClientReads
<1> DEFINE sh == [cl.shkey EXCEPT ![p.s][p.c] = ClientShared(p.s, p.c)]
<1>2. sh \in Shared
  BY <1>0, <1>1, SharedUpdate DEF ClientConn
<1>3. ClientMeets(p) = [cl EXCEPT !.shkey = sh]
  BY <1>0 DEF ClientMeets, ClientConn
<1>4. \A s \in Slots, c \in Slots : sh[s][c] # NoPair => cl.rkey[s] # None
  BY <1>0, <1>1 DEF ClientOK, ClientConn, Shared
<1>5. cl.rcurr # InvIdx
  BY <1>1 DEF ClientOK
<1> HIDE DEF sh
<1>6. ClientOK([cl EXCEPT !.shkey = sh])
  BY <1>0, <1>2, <1>4, <1>5 DEF ClientOK, ClientConn
<1> QED BY <1>0, <1>1, <1>2, <1>3, <1>5, <1>6 DEF ClientConn

\* What the rest of the connection keeps when a shared key or the window is noted.
LEMMA ClientSetPubOK ==
    ASSUME NEW conn, ClientOK(conn), NEW idx \in Slots, NEW key \in SKeys
    PROVE  LET new == ClientSetPub(conn, idx, key) IN
           /\ ClientOK(new) /\ new.rcurr # InvIdx
           /\ new.out = conn.out /\ new.open = conn.open
           /\ new.hs = conn.hs
<1>0. conn \in ClientConn
  BY DEF ClientOK
<1>1. CASE conn.rkey[idx] = key
  BY <1>1, NoneFacts DEF ClientSetPub, ClientOK
<1>2. CASE conn.rkey[idx] # key
  <2> DEFINE rk == [conn.rkey EXCEPT ![idx] = key]
             sh == ClearRow(conn.shkey, idx)
             new == [conn EXCEPT !.rkey = rk, !.rcurr = idx, !.shkey = sh]
  <2>1. sh \in Shared
    BY <1>0, Cleared DEF ClientConn
  <2>2. rk \in ServerSlots /\ rk[idx] = key /\ key # None
    BY <1>0, NoneFacts DEF ClientConn, ServerSlots
  <2>3. ClientSetPub(conn, idx, key) = new
    BY <1>0, <1>2 DEF ClientSetPub, ClientConn
  <2>4. \A s \in Slots, c \in Slots : sh[s][c] # NoPair => rk[s] # None
    BY <1>0, <2>2 DEF ClientOK, ClientConn, Shared, ServerSlots, ClearRow
  <2>5. idx # InvIdx
    BY NoneFacts
  <2> HIDE DEF rk, sh
  <2>6. ClientOK(new)
    BY <1>0, <2>1, <2>2, <2>4, <2>5 DEF ClientOK, ClientConn
  <2> QED BY <1>0, <2>3, <2>5, <2>6 DEF ClientConn
<1> QED BY <1>1, <1>2

LEMMA ClientGetPubOK ==
    ASSUME NEW conn, ClientOK(conn), NEW idx \in Slots
    PROVE  LET new == ClientGetPub(conn, idx) IN
           /\ ClientOK(new)
           /\ \E sh \in Shared : new = [conn EXCEPT !.shkey = sh]
<1>0. conn \in ClientConn
  BY DEF ClientOK
<1> DEFINE sh == ClearColumn(conn.shkey, idx)
<1>1. conn = [conn EXCEPT !.shkey = conn.shkey] /\ conn.shkey \in Shared
  BY <1>0 DEF ClientConn
<1>2. sh \in Shared
  BY <1>0, Cleared DEF ClientConn
<1>3. \A s \in Slots, c \in Slots : sh[s][c] # NoPair => conn.rkey[s] # None
  BY <1>0 DEF ClientOK, ClientConn, Shared, ClearColumn
<1> HIDE DEF sh
<1>4. ClientOK([conn EXCEPT !.shkey = sh])
  BY <1>0, <1>2, <1>3 DEF ClientOK, ClientConn
<1>5. ClientGetPub(conn, idx) = conn \/ ClientGetPub(conn, idx) = [conn EXCEPT !.shkey = sh]
  BY <1>0 DEF ClientGetPub, ClientConn, sh
<1> QED BY <1>1, <1>2, <1>4, <1>5

\* The packet is well formed and the connection as it was, with one more nonce used.
LEMMA ClientSendsOK ==
    ASSUME NEW conn, ClientOK(conn), conn.rcurr # InvIdx,
           NEW cookie, NEW msg, ClientSends(conn, cookie, msg)
    PROVE  LET p == ClientPacket(conn, conn.rcurr, cookie, msg) IN
           /\ ClientOK(cl') /\ cl'.out = conn.out + 1 /\ cl'.open = conn.open
           /\ net' = net \union {p}
           /\ p.to = "srv" /\ p.pub \in CKeys /\ p.s \in Slots /\ p.c \in Slots
           /\ p.nonce = conn.out /\ p.nonce \in 1 .. MaxOut
           /\ p.cookie = cookie /\ p.msg = msg
           /\ p.shared \in SKeys \X CKeys /\ p.shared # NoPair
<1>0. conn \in ClientConn
  BY DEF ClientOK
<1> DEFINE s == conn.rcurr
           c == conn.curr
           sh == ClientPacket(conn, s, cookie, msg).shared
           new == [conn.shkey EXCEPT ![s][c] = sh]
<1>1. s \in Slots /\ c \in Slots /\ conn.rkey[s] \in SKeys /\ conn.key[c] \in CKeys
  BY <1>0 DEF ClientOK, ClientConn, ServerSlots, OwnSlots
<1>2. conn.shkey[s][c] \in (SKeys \X CKeys) \union {NoPair}
  BY <1>0, <1>1 DEF ClientConn, Shared
<1>3. sh \in SKeys \X CKeys /\ sh # NoPair
  BY <1>1, <1>2, PairFacts, NoneFacts DEF ClientPacket
<1>4. new \in Shared
  BY <1>0, <1>1, <1>3, SharedUpdate DEF ClientConn
<1>5. \A t \in Slots, d \in Slots : new[t][d] # NoPair => conn.rkey[t] # None
  BY <1>0, <1>1, NoneFacts DEF ClientOK, ClientConn, Shared
<1>6. cl' = [conn EXCEPT !.out = conn.out + 1, !.shkey = new]
  BY <1>0 DEF ClientSends, ClientConn
<1>7. conn.out + 1 \in Nat \ {0} /\ conn.out \in 1 .. MaxOut
  BY <1>0, Constants DEF ClientSends, ClientConn
<1>8. ClientOK([conn EXCEPT !.out = conn.out + 1, !.shkey = new])
  <2> HIDE DEF new
  <2> QED BY <1>0, <1>4, <1>5, <1>7 DEF ClientOK, ClientConn
<1>9. cl'.out = conn.out + 1 /\ cl'.open = conn.open
  <2> HIDE DEF new
  <2> QED BY <1>0, <1>6 DEF ClientConn
<1>10. LET p == ClientPacket(conn, s, cookie, msg) IN
         /\ p.to = "srv" /\ p.pub = conn.key[c] /\ p.s = s /\ p.c = c
         /\ p.nonce = conn.out /\ p.cookie = cookie /\ p.msg = msg
  BY DEF ClientPacket
<1> QED BY <1>1, <1>3, <1>6, <1>7, <1>8, <1>9, <1>10 DEF ClientSends
-----------------------------------------------------------------------------
(* What one more packet, and more of them and of minkeys, leave as it was *)

LEMMA NetGrows ==
    ASSUME ClientInv, ServerInv, NetInv, ClientInv', ServerInv',
           cl'.out >= cl.out, sock'.gen >= sock.gen,
           \A p \in net' : p \in net \/ PacketOK(p, cl'.out, sock'.gen)
    PROVE  NetInv'
<1>1. cl.out \in Int /\ cl'.out \in Int /\ sock.gen \in Int /\ sock'.gen \in Int
  BY SMT DEF ClientInv, ClientOK, ClientConn, ServerInv
<1>2. SUFFICES ASSUME NEW p \in net, p \in net'
               PROVE  PacketOK(p, cl'.out, sock'.gen)
  BY DEF NetInv
<1>3. PacketOK(p, cl.out, sock.gen)
  BY DEF NetInv
<1>4. CASE ToServer(p, cl.out, sock.gen)
  BY <1>1, <1>4 DEF PacketOK, ToServer
<1>5. CASE ToClient(p, sock.gen)
  BY <1>1, <1>5 DEF PacketOK, ToClient
<1> QED BY <1>3, <1>4, <1>5 DEF PacketOK

LEMMA OnceStays ==
    ASSUME ClientInv, ServerInv, ClientInv', ServerInv', OnceInv, born' = born,
           cl'.out >= cl.out, sock'.gen = sock.gen, sock'.expire = sock.expire,
           \A i \in Conn : Used(i) => Used(i)' /\ inb'[i].hs = inb[i].hs,
           \A p \in net' : p \in net \/ p.msg.type # "OPEN_REQ" \/ p.nonce >= cl.out
    PROVE  OnceInv'
<1>1. cl.out \in Int /\ cl'.out \in Int
  BY SMT DEF ClientInv, ClientOK, ClientConn
<1>2. \A b \in born : b[2] \in Int /\ b[2] < cl.out
  BY SMT, Constants DEF OnceInv
<1>3. \A b \in born' : b[2] < cl'.out
  BY <1>1, <1>2
<1>4. ASSUME NEW p \in net', p.to = "srv", p.msg.type = "OPEN_REQ", <<p.pub, p.nonce>> \in born
      PROVE  Remembered(p)'
  <2>1. p.nonce < cl.out /\ p.nonce \in Int
    BY <1>2, <1>4
  <2>2. p \in net
    BY <1>1, <1>4, <2>1
  <2>3. Remembered(p)
    BY <1>4, <2>2 DEF OnceInv
  <2> QED BY <2>3 DEF Remembered
<1> QED BY <1>3, <1>4 DEF OnceInv

LEMMA ServerKept ==
    ASSUME ServerInv, UNCHANGED <<sock, inb>>, mixed' \in BOOLEAN
    PROVE  ServerInv'
BY DEF ServerInv, Used

\* The step of a connection that sends or receives: what is left to show is the connection itself.
LEMMA ServerStep ==
    ASSUME ServerInv, UNCHANGED sock, mixed' \in BOOLEAN,
           NEW i \in Conn, NEW conn, ServerOK(conn, sock.key),
           inb' = [inb EXCEPT ![i] = conn]
    PROVE  /\ ServerInv'
           /\ \A j \in Conn : j # i => inb'[j] = inb[j]
           /\ inb'[i] = conn /\ Used(i)'
<1>1. conn \in ServerConn /\ conn.state = "open"
  BY DEF ServerOK, ServerConn
<1>2. inb' \in [Conn -> {Free} \union ServerConn] /\ inb'[i] = conn
  BY <1>1 DEF ServerInv
<1>3. Used(i)'
  BY <1>1, <1>2 DEF Used
<1>4. \A j \in Conn : j # i => inb'[j] = inb[j]
  BY DEF ServerInv
<1>5. \A j \in Conn : Used(j)' => ServerOK(inb'[j], sock'.key)
  BY <1>2, <1>4 DEF ServerInv, Used
<1>6. \A j \in sock'.expire : Used(j)'
  <2>1. \A j \in sock.expire : j \in Conn /\ Used(j)
    BY DEF ServerInv
  <2> QED BY <1>3, <1>4, <2>1 DEF Used
<1> QED BY <1>2, <1>3, <1>4, <1>5, <1>6 DEF ServerInv

LEMMA ServerSendsOK ==
    ASSUME ServerInv, UNCHANGED sock, mixed' \in BOOLEAN,
           NEW i \in Conn, NEW conn, ServerOK(conn, sock.key),
           NEW msg, ServerSends(i, conn, msg)
    PROVE  LET p == ServerPacket(conn, msg) IN
           /\ ServerInv' /\ Used(i)' /\ inb'[i].hs = conn.hs
           /\ \A j \in Conn : j # i => inb'[j] = inb[j]
           /\ net' = net \union {p}
           /\ p.to = "cli" /\ p.nonce \in Nat /\ p.c \in Slots /\ p.msg = msg
           /\ p.shared \in SKeys \X CKeys /\ p.shared # NoPair
<1> DEFINE met == Meet(conn, conn.curr, conn.rcurr)
           new == [met EXCEPT !.out = @ + 1]
<1>1. ServerShared(conn, conn.curr, conn.rcurr) \in SKeys \X CKeys
  BY CurrentShared
<1>2. ServerShared(conn, conn.curr, conn.rcurr) # NoPair
  BY <1>1, NoneFacts
<1>3. ServerOK(met, sock.key) /\ met.hs = conn.hs
  BY <1>2, MeetOK
<1> HIDE DEF met
<1>4. ServerOK(new, sock.key) /\ new.hs = conn.hs
  BY <1>3, SentOK
<1>5. inb' = [inb EXCEPT ![i] = new]
  BY DEF ServerSends, met
<1> HIDE DEF new
<1>6. /\ ServerInv' /\ Used(i)' /\ inb'[i] = new
      /\ \A j \in Conn : j # i => inb'[j] = inb[j]
  BY <1>4, <1>5, ServerStep
<1>7. conn.out \in Nat /\ conn.rcurr \in Slots
  BY DEF ServerOK, ServerConn
<1>8. LET p == ServerPacket(conn, msg) IN
        /\ p.to = "cli" /\ p.nonce = conn.out /\ p.c = conn.rcurr /\ p.msg = msg
        /\ p.shared = ServerShared(conn, conn.curr, conn.rcurr)
  BY DEF ServerPacket
<1> QED BY <1>1, <1>2, <1>4, <1>6, <1>7, <1>8 DEF ServerSends
-----------------------------------------------------------------------------
(* The steps *)

\* The property OpenedOnce of one step.
NoneMade == \A i \in Conn : ~Used(i) /\ Used(i)' => born' # born \/ MovedOn(inb'[i].hs)

LEMMA InNet ==
    ASSUME NetInv, NEW p \in net
    PROVE  /\ p.to = "srv" => ToServer(p, cl.out, sock.gen)
           /\ p.to = "cli" => ToClient(p, sock.gen)
BY DEF NetInv, PacketOK, ToServer, ToClient

LEMMA OpeningOK ==
    ASSUME NEW k \in CKeys, NEW idx \in Slots, NEW out \in Nat \ {0}
    PROVE  ClientOK(Opening(k, idx, out)) /\ Opening(k, idx, out).out = out
<1> DEFINE own == [NoKeys EXCEPT ![idx] = k]
           o == Opening(k, idx, out)
<1>1. own \in OwnSlots /\ own[idx] = k /\ k # None /\ InvIdx \notin Slots
  BY NoneFacts DEF OwnSlots, NoKeys
<1>2. Opened(0) \in Window
  BY WindowTypes
<1>3. o = [open |-> FALSE, key |-> own, curr |-> idx, next |-> InvIdx,
           rkey |-> NoKeys, rcurr |-> InvIdx, shkey |-> NoShared,
           out |-> out, win |-> Opened(0), hs |-> k]
  BY DEF Opening
<1> HIDE DEF own, o
<1>4. o \in ClientConn
  BY <1>1, <1>2, <1>3, Empty DEF ClientConn
<1>5. \A s \in Slots, c \in Slots : NoShared[s][c] = NoPair /\ NoKeys[s] = None
  BY DEF NoShared, NoKeys
<1>6. ClientOK(o) /\ o.out = out
  BY <1>1, <1>3, <1>4, <1>5 DEF ClientOK
<1> QED BY <1>6 DEF o

LEMMA InitOK == Init => IInv
<1> SUFFICES ASSUME Init PROVE IInv
  OBVIOUS
<1> USE Constants
<1>0. 1 \in CKeys /\ 1 \in SKeys /\ 0 \in Slots /\ 1 \in Slots /\ InvIdx \notin Slots /\ InvIdx # 0
  BY DEF CKeys, SKeys, Slots, InvIdx
<1> DEFINE own == [NoKeys EXCEPT ![0] = 1]
<1>1. own \in OwnSlots /\ own \in ServerSlots /\ own[0] = 1 /\ own[0] # None
  BY <1>0, NoneFacts DEF OwnSlots, ServerSlots, NoKeys
<1>2. ClientOK(cl) /\ cl.out = 2
  BY <1>0, OpeningOK DEF Init
<1>3. ClientInv
  <2>1. <<SendTries - 1>> \in Seq(0 .. SendTries - 1)
    OBVIOUS
  <2> QED BY <1>0, <1>2, <2>1 DEF ClientInv, Init
<1>4. ServerInv
  <2>1. sock = [key |-> own, curr |-> 0, gen |-> 1, expire |-> {}]
    BY DEF Init
  <2> HIDE DEF own
  <2>2. sock \in [key : ServerSlots, curr : Slots, gen : 1 .. MaxGen, expire : SUBSET Conn]
    BY <1>0, <1>1, <2>1
  <2>3. inb \in [Conn -> {Free} \union ServerConn] /\ \A i \in Conn : ~Used(i)
    BY DEF Init, Free, Used
  <2>4. sock.key[sock.curr] # None /\ sock.expire = {}
    BY <1>1, <2>1
  <2>5. mixed = FALSE
    BY DEF Init
  <2> QED BY <2>2, <2>3, <2>4, <2>5 DEF ServerInv
<1>5. NetInv
  <2> DEFINE p == InitReq(1, 0, 1)
  <2>1. /\ p.to = "srv" /\ p.pub = 1 /\ p.c = 0 /\ p.nonce = 1 /\ p.cookie.gen = 0
        /\ p.msg.type = "INIT_REQ" /\ p.shared = <<Perma, 1>>
    BY DEF InitReq, NoCookie
  <2>2. p.shared # NoPair
    BY <2>1 DEF Perma, NoPair, None
  <2>3. sock.gen = 1
    BY DEF Init
  <2>4. ToServer(p, cl.out, sock.gen)
    <3> HIDE DEF p
    <3> QED BY <1>0, <1>2, <2>1, <2>2, <2>3 DEF ToServer
  <2> QED BY <2>4 DEF NetInv, PacketOK, Init
<1>6. OnceInv
  BY DEF OnceInv, Init
<1> QED BY <1>3, <1>4, <1>5, <1>6 DEF IInv

LEMMA HandleInitReqOK ==
    ASSUME IInv, NEW p \in net, p.to = "srv", HandleInitReq(p)
    PROVE  IInv'
<1> USE DEF IInv
<1>1. ToServer(p, cl.out, sock.gen)
  BY InNet
<1>2. ClientInv' /\ ServerInv'
  BY ServerKept DEF HandleInitReq, ClientInv, ServerInv
<1>3. cl'.out = cl.out /\ sock' = sock /\ inb' = inb /\ born' = born /\ cl.out \in Nat /\ sock.gen \in Nat
  BY SMT DEF HandleInitReq, ClientInv, ClientOK, ClientConn, ServerInv
<1> DEFINE q == [to |-> "cli", pub |-> None, s |-> PermaIdx, c |-> p.c, nonce |-> 0,
                 cookie |-> NoCookie, shared |-> p.shared,
                 msg |-> [type |-> "INIT_REP", idx |-> sock.curr,
                          key |-> sock.key[sock.curr], cookie |-> Cookie(p.pub)]]
<1>4. net' = net \union {q}
  BY DEF HandleInitReq
<1>5. /\ q.to = "cli" /\ q.nonce = 0 /\ q.c = p.c /\ q.msg.type = "INIT_REP" /\ q.shared = p.shared
      /\ q.msg.idx = sock.curr /\ q.msg.key = sock.key[sock.curr] /\ q.msg.cookie.gen = sock.gen
  BY DEF Cookie
<1> HIDE DEF q
<1>6. sock.curr \in Slots /\ sock.key[sock.curr] \in SKeys
  BY DEF ServerInv, ServerSlots
<1>7. ToClient(q, sock.gen)
  BY <1>1, <1>3, <1>5, <1>6 DEF ToClient, ToServer
<1>8. NetInv'
  BY <1>2, <1>3, <1>4, <1>7, NetGrows DEF PacketOK
<1>9. OnceInv'
  BY <1>2, <1>3, <1>4, <1>5, OnceStays DEF Used
<1> QED BY <1>2, <1>8, <1>9

LEMMA HandleOpenReqOK ==
    ASSUME IInv, NEW p \in net, p.to = "srv", HandleOpenReq(p)
    PROVE  /\ IInv'
           /\ NoneMade
<1> USE DEF IInv
<1>1. ToServer(p, cl.out, sock.gen) /\ p.msg.type = "OPEN_REQ"
  BY InNet DEF HandleOpenReq
<1> DEFINE new == [state |-> "open", hs |-> p.pub, curr |-> p.s, rcurr |-> p.c,
                   rkey |-> [NoKeys EXCEPT ![p.c] = p.pub],
                   shkey |-> [NoShared EXCEPT ![p.s][p.c] = p.shared],
                   out |-> 1, win |-> Opened(p.nonce), again |-> \E b \in born : b[1] = p.pub]
<1>2. PICK i \in Conn : ~Used(i) /\ ServerSends(i, new, [type |-> "OPEN_REP"])
  BY DEF HandleOpenReq
<1>3. /\ UNCHANGED <<cl, made, app, rx, timer, sock, mixed>>
      /\ born' = born \union {<<p.pub, p.nonce>>}
      /\ p.shared = <<sock.key[p.s], p.pub>> /\ p.cookie.gen = sock.gen /\ Found(p.pub) = {}
  BY DEF HandleOpenReq, CookieValid, Cookie
<1>4. /\ p.s \in Slots /\ p.c \in Slots /\ p.pub \in CKeys /\ p.nonce \in 1 .. MaxOut /\ p.nonce < cl.out
      /\ p.shared \in SKeys \X CKeys /\ p.nonce \in Nat
  BY <1>1, Constants DEF ToServer
<1>5. ServerOK(new, sock.key)
  <2> DEFINE rk == [NoKeys EXCEPT ![p.c] = p.pub]
             sh == [NoShared EXCEPT ![p.s][p.c] = p.shared]
  <2>1. rk \in OwnSlots /\ rk[p.c] = p.pub /\ p.pub # None
    BY <1>4, NoneFacts DEF NoKeys, OwnSlots
  <2>2. sh \in Shared
    BY <1>4, Empty, SharedUpdate
  <2>3. sock.key[p.s] # None
    BY <1>3, <1>4, NoneFacts
  <2>4. Opened(p.nonce) \in Window /\ (\E b \in born : b[1] = p.pub) \in BOOLEAN
    BY <1>4, WindowTypes
  <2> HIDE DEF rk, sh
  <2>5. new = [state |-> "open", hs |-> p.pub, curr |-> p.s, rcurr |-> p.c, rkey |-> rk, shkey |-> sh,
               out |-> 1, win |-> Opened(p.nonce), again |-> \E b \in born : b[1] = p.pub]
    BY DEF rk, sh
  <2> HIDE DEF new
  <2>6. new \in ServerConn /\ new.rkey = rk /\ new.rcurr = p.c /\ new.curr = p.s
    BY <1>4, <2>1, <2>2, <2>4, <2>5 DEF ServerConn
  <2> QED BY <2>1, <2>3, <2>6 DEF ServerOK
<1>6. new.hs = p.pub
  OBVIOUS
<1> HIDE DEF new
<1> DEFINE q == ServerPacket(new, [type |-> "OPEN_REP"])
<1>7. /\ ServerInv' /\ Used(i)' /\ inb'[i].hs = p.pub
      /\ \A j \in Conn : j # i => inb'[j] = inb[j]
      /\ net' = net \union {q}
      /\ q.to = "cli" /\ q.nonce \in Nat /\ q.c \in Slots /\ q.msg = [type |-> "OPEN_REP"]
      /\ q.shared # NoPair
  <2>1. mixed' \in BOOLEAN /\ UNCHANGED sock
    BY <1>3 DEF ServerInv
  <2> HIDE DEF q
  <2> QED BY <1>2, <1>5, <1>6, <2>1, ServerSendsOK DEF q
<1> HIDE DEF q
<1>8. ClientInv'
  BY <1>3 DEF ClientInv
<1>9. NetInv'
  <2>1. q.msg.type = "OPEN_REP"
    BY <1>7
  <2>2. ToClient(q, sock'.gen)
    BY <1>7, <2>1 DEF ToClient
  <2>3. cl'.out >= cl.out /\ sock'.gen >= sock.gen
    BY <1>3 DEF ClientInv, ClientOK, ClientConn, ServerInv
  <2> QED BY <1>7, <1>8, <2>2, <2>3, NetGrows DEF PacketOK
<1>10. OnceInv'
  <2>1. born' \subseteq CKeys \X (1 .. MaxOut) /\ \A b \in born' : b[2] < cl'.out
    BY <1>3, <1>4 DEF OnceInv
  <2>2. i \notin sock.expire
    BY <1>2 DEF ServerInv
  <2>3. ASSUME NEW r \in net', r.to = "srv", r.msg.type = "OPEN_REQ", <<r.pub, r.nonce>> \in born'
        PROVE  Remembered(r)'
    <3>1. r \in net
      BY <1>7, <2>3
    <3>2. CASE r.pub = p.pub
      BY <1>3, <1>7, <2>2, <3>2 DEF Remembered
    <3>3. CASE r.pub # p.pub
      <4>1. <<r.pub, r.nonce>> \in born
        BY <1>3, <2>3, <3>3
      <4>2. Remembered(r)
        BY <2>3, <3>1, <4>1 DEF OnceInv
      <4>3. ASSUME NEW j \in Conn, Used(j) PROVE Used(j)' /\ inb'[j] = inb[j]
        <5>1. j # i
          BY <1>2, <4>3
        <5> QED BY <1>7, <4>3, <5>1 DEF Used
      <4> QED BY <1>3, <4>2, <4>3 DEF Remembered
    <3> QED BY <3>2, <3>3
  <2> QED BY <2>1, <2>3 DEF OnceInv
<1>11. ASSUME NEW j \in Conn, ~Used(j), Used(j)', born' = born
       PROVE  MovedOn(inb'[j].hs)
  <2>1. j = i
    BY <1>7, <1>11 DEF Used
  <2>2. <<p.pub, p.nonce>> \in born
    BY <1>3, <1>11
  <2>3. Remembered(p)
    BY <1>1, <2>2 DEF OnceInv
  <2>4. sock.gen \in Int
    BY SMT DEF ServerInv
  <2>5. PICK k \in Conn : Used(k) /\ inb[k].hs = p.pub
    BY <1>3, <2>3, <2>4 DEF Remembered
  <2>6. \A c \in Slots : inb[k].rkey[c] # p.pub
    BY <1>3, <2>5 DEF Found
  <2> QED BY <1>7, <2>1, <2>5, <2>6 DEF MovedOn
<1> QED BY <1>7, <1>8, <1>9, <1>10, <1>11 DEF NoneMade

LEMMA HandleKnownOK ==
    ASSUME IInv, NEW p \in net, p.to = "srv", HandleKnown(p)
    PROVE  IInv' /\ NoneMade
<1> USE DEF IInv
<1>1. ToServer(p, cl.out, sock.gen)
  BY InNet
<1> DEFINE Known(i) ==
      /\ ServerShared(inb[i], p.s, p.c) # NoPair
      /\ IF ~Readable(i, p)
         THEN /\ inb' = [inb EXCEPT ![i] = Meet(@, p.s, p.c)]
              /\ UNCHANGED <<net, mixed>>
         ELSE IF p.msg.type = "KEYX_REQ"
         THEN LET told == ServerSetPub(Received(i, p), p.msg.idx, p.msg.key)
              IN  /\ ServerSends(i, ServerGetPub(told, sock.curr),
                       [type |-> "KEYX_REP", idx |-> sock.curr, key |-> sock.key[sock.curr],
                        answers |-> p.msg.key])
                  /\ mixed' = (mixed \/ inb[i].again \/ p.msg.key < inb[i].rkey[p.msg.idx])
         ELSE /\ inb' = [inb EXCEPT ![i] = Received(i, p)]
              /\ UNCHANGED <<net, mixed>>
<1>2. PICK i \in Found(p.pub) : Known(i) /\ UNCHANGED <<cl, made, app, rx, timer, sock, born>>
  BY DEF HandleKnown
<1>3. i \in Conn /\ Used(i) /\ ServerOK(inb[i], sock.key)
  BY <1>2 DEF Found, ServerInv
<1>4. ClientInv'
  BY <1>2 DEF ClientInv
<1> DEFINE met == Meet(inb[i], p.s, p.c)
<1>5. ServerOK(met, sock.key) /\ met.hs = inb[i].hs
  BY <1>2, <1>3, MeetOK
<1>6. ServerOK(Received(i, p), sock.key) /\ Received(i, p).hs = inb[i].hs
  <2> HIDE DEF met
  <2>1. p.nonce \in Nat
    BY <1>1, Constants DEF ToServer
  <2> QED BY <1>5, <2>1, WindowOK DEF Received, met
<1> HIDE DEF met
<1> DEFINE Step(conn) ==
      /\ ServerInv' /\ Used(i)' /\ inb'[i].hs = conn.hs
      /\ \A j \in Conn : j # i => inb'[j] = inb[j]
\* Whatever becomes of the connection, it stays and keeps the key of its handshake.
<1>7. ASSUME NEW conn, Step(conn), conn.hs = inb[i].hs,
             \A q \in net' : q \in net \/ ToClient(q, sock.gen),
             \A q \in net' : q \in net \/ q.msg.type # "OPEN_REQ"
      PROVE  IInv' /\ NoneMade
  <2>1. cl'.out >= cl.out /\ sock'.gen >= sock.gen /\ sock' = sock /\ born' = born
    BY <1>2 DEF ClientInv, ClientOK, ClientConn, ServerInv
  <2>2. \A j \in Conn : Used(j) => Used(j)' /\ inb'[j].hs = inb[j].hs
    BY <1>7 DEF Used
  <2>3. \A j \in Conn : Used(j)' => Used(j)
    BY <1>3, <1>7 DEF Used
  <2>4. NetInv'
    BY <1>4, <1>7, <2>1, NetGrows DEF PacketOK
  <2>5. OnceInv'
    BY <1>4, <1>7, <2>1, <2>2, OnceStays
  <2> QED BY <1>4, <1>7, <2>3, <2>4, <2>5 DEF NoneMade
<1>8. UNCHANGED sock /\ mixed \in BOOLEAN
  BY <1>2 DEF ServerInv
<1>9. CASE ~Readable(i, p)
  <2>1. inb' = [inb EXCEPT ![i] = met] /\ net' = net /\ mixed' = mixed
    BY <1>2, <1>9 DEF met
  <2>2. Step(met)
    BY <1>3, <1>5, <1>8, <2>1, ServerStep
  <2> QED BY <1>5, <1>7, <2>1, <2>2
<1>10. CASE Readable(i, p) /\ p.msg.type = "KEYX_REQ"
  <2> DEFINE told == ServerSetPub(Received(i, p), p.msg.idx, p.msg.key)
             conn == ServerGetPub(told, sock.curr)
             msg == [type |-> "KEYX_REP", idx |-> sock.curr, key |-> sock.key[sock.curr],
                     answers |-> p.msg.key]
             q == ServerPacket(conn, msg)
  <2>1. p.msg.idx \in Slots /\ p.msg.key \in CKeys
    BY <1>1, <1>10 DEF ToServer
  <2>2. ServerOK(told, sock.key) /\ told.hs = inb[i].hs
    BY <1>6, <2>1, ServerSetPubOK
  <2>3. sock.curr \in Slots /\ sock.key[sock.curr] \in SKeys
    BY DEF ServerInv, ServerSlots
  <2>4. ServerSends(i, conn, msg) /\ mixed' = (mixed \/ inb[i].again \/ p.msg.key < inb[i].rkey[p.msg.idx])
    BY <1>2, <1>10
  <2>5. mixed' \in BOOLEAN
    BY <1>8, <2>4
  <2>6. msg.type = "KEYX_REP" /\ msg.idx = sock.curr /\ msg.key = sock.key[sock.curr] /\ msg.answers = p.msg.key
    OBVIOUS
  <2> HIDE DEF told, msg
  <2>7. ServerOK(conn, sock.key) /\ conn.hs = inb[i].hs
    BY <2>2, <2>3, ServerGetPubOK
  <2> HIDE DEF conn
  <2>8. /\ Step(conn) /\ net' = net \union {q}
        /\ q.to = "cli" /\ q.nonce \in Nat /\ q.c \in Slots /\ q.msg = msg
        /\ q.shared # NoPair
    <3> HIDE DEF q
    <3> QED BY <1>3, <1>8, <2>4, <2>5, <2>7, ServerSendsOK DEF q
  <2> HIDE DEF q
  <2>9. q.msg.type = "KEYX_REP"
    BY <2>6, <2>8
  <2>10. ToClient(q, sock.gen)
    BY <2>1, <2>3, <2>6, <2>8 DEF ToClient
  <2> QED BY <1>7, <2>7, <2>8, <2>9, <2>10
<1>11. CASE Readable(i, p) /\ p.msg.type # "KEYX_REQ"
  <2>1. inb' = [inb EXCEPT ![i] = Received(i, p)] /\ net' = net /\ mixed' = mixed
    BY <1>2, <1>11
  <2>2. Step(Received(i, p))
    BY <1>3, <1>6, <1>8, <2>1, ServerStep
  <2> QED BY <1>6, <1>7, <2>1, <2>2
<1> QED BY <1>9, <1>10, <1>11

LEMMA NewSockKeyOK == ASSUME IInv, NewSockKey PROVE IInv' /\ NoneMade
<1> USE DEF IInv
<1> DEFINE n == Next1(sock.curr)
           keys == [sock.key EXCEPT ![n] = sock.key[sock.curr] + 1]
<1>1. UNCHANGED <<cl, made, app, rx, timer, inb, born, mixed, net>>
  BY DEF NewSockKey
<1>2. sock.curr \in Slots /\ sock.key[sock.curr] \in SKeys /\ sock.key \in ServerSlots
  BY DEF ServerInv, ServerSlots
<1>3. n \in Slots /\ sock.key[sock.curr] + 1 \in SKeys
  BY <1>2, Constants DEF NewSockKey, Slots, SKeys, Next1
<1>4. keys \in ServerSlots /\ keys[n] # None /\ \A s \in Slots : sock.key[s] # None => keys[s] # None
  BY <1>2, <1>3, NoneFacts DEF ServerSlots
<1>5. /\ sock' = [sock EXCEPT !.curr = n, !.key = keys]
      /\ sock \in [key : ServerSlots, curr : Slots, gen : 1 .. MaxGen, expire : SUBSET Conn]
  BY DEF NewSockKey, ServerInv
<1> HIDE DEF keys, n
<1>6. /\ sock' \in [key : ServerSlots, curr : Slots, gen : 1 .. MaxGen, expire : SUBSET Conn]
      /\ sock'.key = keys /\ sock'.curr = n /\ sock'.gen = sock.gen /\ sock'.expire = sock.expire
  BY <1>3, <1>4, <1>5
<1>7. \A i \in Conn : Used(i) => ServerOK(inb[i], keys)
  <2> SUFFICES ASSUME NEW i \in Conn, Used(i) PROVE ServerOK(inb[i], keys)
    OBVIOUS
  <2>1. ServerOK(inb[i], sock.key) /\ inb[i].curr \in Slots
    BY DEF ServerInv, ServerOK, ServerConn
  <2> QED BY <1>4, <2>1 DEF ServerOK
<1>8. ServerInv'
  BY <1>1, <1>4, <1>6, <1>7 DEF ServerInv, Used
<1>9. ClientInv'
  BY <1>1 DEF ClientInv
<1>10. NetInv'
  BY <1>1, <1>6 DEF NetInv
<1>11. OnceInv'
  BY <1>1, <1>6 DEF OnceInv, Remembered, Used
<1> QED BY <1>1, <1>8, <1>9, <1>10, <1>11 DEF NoneMade, Used

LEMMA ExpireOK == ASSUME IInv, Expire PROVE IInv' /\ NoneMade
<1> USE DEF IInv
<1>1. UNCHANGED <<cl, made, app, rx, timer, inb, born, mixed, net>> /\ sock.gen < MaxGen
  BY DEF Expire
<1>2. PICK due \in SUBSET {i \in Conn : Used(i)} : sock' = [sock EXCEPT !.gen = @ + 1, !.expire = due]
  BY DEF Expire
<1>3. /\ sock' \in [key : ServerSlots, curr : Slots, gen : 1 .. MaxGen, expire : SUBSET Conn]
      /\ sock'.key = sock.key /\ sock'.curr = sock.curr /\ sock'.gen = sock.gen + 1 /\ sock'.expire = due
  <2>1. due \in SUBSET Conn
    OBVIOUS
  <2>2. /\ sock \in [key : ServerSlots, curr : Slots, gen : 1 .. MaxGen, expire : SUBSET Conn]
        /\ sock.gen + 1 \in 1 .. MaxGen
    BY <1>1, Constants DEF ServerInv
  <2> QED BY <1>2, <2>1, <2>2
<1>4. ServerInv'
  BY <1>1, <1>2, <1>3 DEF ServerInv, Used
<1>5. ClientInv'
  BY <1>1 DEF ClientInv
<1>6. sock.gen \in Nat /\ cl.out \in Nat
  BY SMT DEF ServerInv, ClientInv, ClientOK, ClientConn
<1>7. NetInv'
  BY <1>1, <1>3, <1>4, <1>5, <1>6, NetGrows
\* Every cookie that was handed out is void by now.
<1>8. \A p \in net : p.to = "srv" => p.cookie.gen < sock'.gen
  BY <1>3, <1>6, InNet DEF ToServer
<1>9. OnceInv'
  BY <1>1, <1>8 DEF OnceInv, Remembered
<1> QED BY <1>1, <1>4, <1>5, <1>7, <1>9 DEF NoneMade, Used

LEMMA ExpireOneOK == ASSUME IInv, ExpireOne PROVE IInv' /\ NoneMade
<1> USE DEF IInv
<1>1. UNCHANGED <<cl, made, app, rx, timer, born, mixed, net>>
  BY DEF ExpireOne
<1>2. PICK i \in sock.expire : /\ sock' = [sock EXCEPT !.expire = @ \ {i}]
                               /\ inb' = [inb EXCEPT ![i] = Free]
  BY DEF ExpireOne
<1>3. /\ sock' \in [key : ServerSlots, curr : Slots, gen : 1 .. MaxGen, expire : SUBSET Conn]
      /\ sock'.key = sock.key /\ sock'.curr = sock.curr /\ sock'.gen = sock.gen
      /\ sock'.expire = sock.expire \ {i} /\ i \in Conn
  BY <1>2 DEF ServerInv
<1>4. /\ inb' \in [Conn -> {Free} \union ServerConn] /\ inb'[i] = Free /\ ~Used(i)'
      /\ \A j \in Conn : j # i => inb'[j] = inb[j]
  BY <1>2, <1>3 DEF ServerInv, Used, Free
<1>5. ServerInv'
  BY <1>1, <1>3, <1>4 DEF ServerInv, Used
<1>6. ClientInv'
  BY <1>1 DEF ClientInv
<1>7. NetInv'
  BY <1>1, <1>3 DEF NetInv
<1>8. OnceInv'
  BY <1>1, <1>3, <1>4 DEF OnceInv, Remembered, Used
<1> QED BY <1>4, <1>5, <1>6, <1>7, <1>8 DEF NoneMade, Used

\* A step of the client: the server is as it was, and there is at most a request more.
LEMMA ClientStep ==
    ASSUME IInv, ClientInv', UNCHANGED <<sock, inb, born>>, mixed' \in BOOLEAN,
           cl'.out >= cl.out,
           \A q \in net' : \/ q \in net
                           \/ /\ ToServer(q, cl'.out, sock.gen)
                              /\ q.msg.type # "OPEN_REQ" \/ q.nonce >= cl.out
    PROVE  IInv' /\ NoneMade
<1> USE DEF IInv
<1>1. ServerInv' /\ sock'.gen = sock.gen /\ sock'.expire = sock.expire /\ sock.gen \in Nat
  BY ServerKept, Constants DEF ServerInv
<1>2. \A i \in Conn : Used(i) => Used(i)' /\ inb'[i].hs = inb[i].hs
  BY DEF Used
<1>3. NetInv'
  BY <1>1, NetGrows DEF PacketOK
<1>4. OnceInv'
  BY <1>1, <1>2, OnceStays
<1> QED BY <1>1, <1>3, <1>4 DEF NoneMade, Used

\* What ClientSends may be given.
Sendable(conn, cookie, msg) ==
    /\ ClientOK(conn) /\ conn.rcurr # InvIdx /\ conn.out = cl.out /\ conn.open = cl.open
    /\ cookie.gen \in Nat /\ cookie.gen <= sock.gen
    /\ msg.type \in {"OPEN_REQ", "KEYX_REQ", "DATA"}
    /\ msg.type = "KEYX_REQ" => msg.idx \in Slots /\ msg.key \in CKeys

\* The same when the client's step writes a request by ClientSends.
LEMMA ClientSendsStep ==
    ASSUME IInv, NEW conn, NEW cookie, NEW msg, Sendable(conn, cookie, msg),
           ClientSends(conn, cookie, msg), UNCHANGED <<sock, inb, born, mixed>>,
           ClientOK(cl') /\ cl'.open = cl.open => ClientInv'
    PROVE  IInv' /\ NoneMade
<1> USE DEF Sendable
<1> DEFINE p == ClientPacket(conn, conn.rcurr, cookie, msg)
<1>1. /\ ClientOK(cl') /\ cl'.out = cl.out + 1 /\ cl'.open = cl.open
      /\ net' = net \union {p}
      /\ p.to = "srv" /\ p.pub \in CKeys /\ p.s \in Slots /\ p.c \in Slots
      /\ p.nonce = cl.out /\ p.nonce \in 1 .. MaxOut
      /\ p.cookie = cookie /\ p.msg = msg
      /\ p.shared \in SKeys \X CKeys /\ p.shared # NoPair
  <2> HIDE DEF p
  <2> QED BY ClientSendsOK DEF p
<1> HIDE DEF p
<1>2. cl.out \in Nat /\ mixed' \in BOOLEAN
  BY DEF IInv, ClientInv, ClientOK, ClientConn, ServerInv
<1>3. ToServer(p, cl'.out, sock.gen)
  BY <1>1, <1>2 DEF ToServer
<1> QED BY <1>1, <1>2, <1>3, ClientStep

LEMMA TimerTypes ==
    ASSUME ClientInv
    PROVE  /\ timer # <<>> => Head(timer) \in 0 .. SendTries - 1 /\ Tail(timer) \in Seq(0 .. SendTries - 1)
           /\ \A n \in 0 .. SendTries - 1 : Append(timer, n) \in Seq(0 .. SendTries - 1)
           /\ \A n \in 0 .. SendTries - 1 :
                timer # <<>> => Append(Tail(timer), n) \in Seq(0 .. SendTries - 1)
<1>1. timer \in Seq(0 .. SendTries - 1)
  BY DEF ClientInv
<1>2. timer # <<>> => Head(timer) \in 0 .. SendTries - 1 /\ Tail(timer) \in Seq(0 .. SendTries - 1)
  BY <1>1, HeadTailProperties
<1> QED BY <1>1, <1>2, AppendProperties

LEMMA HandleInitRepOK ==
    ASSUME IInv, NEW p \in net, p.to = "cli", HandleInitRep(p)
    PROVE  IInv' /\ NoneMade
<1>1. ToClient(p, sock.gen) /\ p.msg.type = "INIT_REP"
  BY InNet DEF HandleInitRep, IInv
<1>2. /\ p.msg.idx \in Slots /\ p.msg.key \in SKeys
      /\ p.msg.cookie.gen \in Nat /\ p.msg.cookie.gen <= sock.gen
  BY <1>1 DEF ToClient
<1> DEFINE conn == ClientSetPub(cl, p.msg.idx, p.msg.key)
<1>3. ClientOK(conn) /\ conn.rcurr # InvIdx /\ conn.out = cl.out /\ conn.open = cl.open
  BY <1>2, ClientSetPubOK DEF IInv, ClientInv
<1> DEFINE msg == [type |-> "OPEN_REQ"]
<1>4. ClientSends(conn, p.msg.cookie, msg) /\ UNCHANGED <<made, app, rx, timer, sock, inb, born, mixed>>
  BY DEF HandleInitRep
<1>5. msg.type = "OPEN_REQ"
  OBVIOUS
<1> HIDE DEF conn, msg
<1>6. ClientOK(cl') /\ cl'.open = cl.open => ClientInv'
  BY <1>4 DEF IInv, ClientInv
<1>7. Sendable(conn, p.msg.cookie, msg)
  BY <1>2, <1>3, <1>5 DEF Sendable
<1> QED BY <1>4, <1>6, <1>7, ClientSendsStep

LEMMA HandleOpenRepOK ==
    ASSUME IInv, NEW p \in net, p.to = "cli", HandleOpenRep(p)
    PROVE  IInv' /\ NoneMade
<1>1. ToClient(p, sock.gen)
  BY InNet DEF IInv
<1>2. p.shared # NoPair /\ p.nonce \in Nat
  BY <1>1 DEF ToClient
<1> DEFINE met == ClientMeets(p)
<1>3. /\ ClientOK(met) /\ met.rcurr # InvIdx
      /\ \E sh \in Shared : met = [cl EXCEPT !.shkey = sh]
  <2> HIDE DEF met
  <2> QED BY <1>2, ClientMeetsOK DEF HandleOpenRep, IInv, ClientInv, met
<1>4. met.out = cl.out
  BY <1>3 DEF IInv, ClientInv, ClientOK, ClientConn
<1>5. /\ cl' = [met EXCEPT !.open = TRUE, !.win = Opened(p.nonce)] /\ timer' = Tail(timer) /\ timer # <<>>
      /\ UNCHANGED <<made, app, rx, sock, inb, born, mixed, net>>
  BY DEF HandleOpenRep, Handshaking
<1> HIDE DEF met
<1>6. Opened(p.nonce) \in Window /\ met \in ClientConn
  BY <1>2, <1>3, WindowTypes DEF ClientOK
<1>7. ClientOK(cl') /\ cl'.out = cl.out /\ cl'.open
  BY <1>3, <1>4, <1>5, <1>6 DEF ClientOK, ClientConn
<1>8. timer' \in Seq(0 .. SendTries - 1)
  BY <1>5, TimerTypes DEF IInv
<1>9. ClientInv'
  BY <1>5, <1>7, <1>8 DEF IInv, ClientInv
<1>10. mixed' \in BOOLEAN /\ cl'.out >= cl.out
  BY <1>5, <1>7 DEF IInv, ServerInv, ClientInv, ClientOK, ClientConn
<1> QED BY <1>5, <1>9, <1>10, ClientStep

LEMMA HandleKeyxRepOK ==
    ASSUME IInv, NEW p \in net, p.to = "cli", HandleKeyxRep(p)
    PROVE  IInv' /\ NoneMade
<1>1. ToClient(p, sock.gen) /\ p.msg.type = "KEYX_REP"
  BY InNet DEF IInv, HandleKeyxRep
<1>2. /\ p.shared # NoPair /\ p.nonce \in Nat
      /\ p.msg.idx \in Slots /\ p.msg.key \in SKeys /\ p.msg.answers \in CKeys
  BY <1>1 DEF ToClient
<1> DEFINE met == ClientMeets(p)
           seen == [met EXCEPT !.win = After(@, p.nonce)]
           conn == ClientSetPub(seen, p.msg.idx, p.msg.key)
<1>3. /\ ClientOK(met) /\ met.rcurr # InvIdx
      /\ \E sh \in Shared : met = [cl EXCEPT !.shkey = sh]
  <2> HIDE DEF met
  <2> QED BY <1>2, ClientMeetsOK DEF HandleKeyxRep, IInv, ClientInv, met
<1>4. met.out = cl.out /\ met.open = cl.open /\ cl.open
  BY <1>3 DEF IInv, ClientInv, ClientOK, ClientConn, HandleKeyxRep
<1>5. /\ cl' = conn /\ rx' = p.msg.answers /\ timer' = IF timer = <<>> THEN timer ELSE Tail(timer)
      /\ UNCHANGED <<made, app, sock, inb, born, mixed, net>>
  BY DEF HandleKeyxRep
<1> HIDE DEF met
<1>6. met \in ClientConn /\ After(met.win, p.nonce) \in Window
  BY <1>2, <1>3, WindowTypes DEF ClientOK, ClientConn
<1>7. ClientOK(seen) /\ seen.out = cl.out /\ seen.open = cl.open
  BY <1>3, <1>4, <1>6 DEF ClientOK, ClientConn
<1> HIDE DEF seen
<1>8. ClientOK(conn) /\ conn.out = cl.out /\ conn.open = cl.open
  BY <1>2, <1>7, ClientSetPubOK
<1> HIDE DEF conn
<1>9. timer' \in Seq(0 .. SendTries - 1)
  BY <1>5, TimerTypes DEF IInv, ClientInv
<1>10. ClientInv'
  BY <1>2, <1>5, <1>8, <1>9 DEF IInv, ClientInv
<1>11. mixed' \in BOOLEAN /\ cl'.out >= cl.out
  BY <1>5, <1>8 DEF IInv, ServerInv, ClientInv, ClientOK, ClientConn
<1> QED BY <1>5, <1>10, <1>11, ClientStep

LEMMA SetCurrOK == ASSUME IInv, SetCurr PROVE IInv' /\ NoneMade
<1>1. rx' = None /\ UNCHANGED <<made, app, timer, sock, inb, born, net>>
  BY DEF SetCurr
<1>2. ClientOK(cl') /\ cl'.out = cl.out /\ cl'.open = cl.open /\ mixed' \in BOOLEAN
  <2>1. ClientOK(cl) /\ mixed \in BOOLEAN /\ cl \in ClientConn
    BY DEF IInv, ClientInv, ServerInv, ClientOK
  <2>2. CASE cl.next = InvIdx
    BY <2>1, <2>2 DEF SetCurr
  <2>3. CASE cl.next # InvIdx
    <3>1. cl' = [cl EXCEPT !.curr = cl.next, !.next = InvIdx] /\ mixed' = (mixed \/ rx # cl.key[cl.next])
      BY <2>3 DEF SetCurr
    <3> QED BY <2>1, <2>3, <3>1 DEF ClientOK, ClientConn
  <2> QED BY <2>2, <2>3
<1>3. ClientInv'
  BY <1>1, <1>2 DEF IInv, ClientInv
<1>4. cl'.out >= cl.out
  BY <1>2 DEF IInv, ClientInv, ClientOK, ClientConn
<1> QED BY <1>1, <1>2, <1>3, <1>4, ClientStep

LEMMA RetryHandshakeOK == ASSUME IInv, RetryHandshake PROVE IInv' /\ NoneMade
<1> DEFINE k == made + 1
           idx == Next1(cl.curr)
           p == InitReq(k, idx, cl.out)
<1>1. /\ ~cl.open /\ timer # <<>> /\ Head(timer) > 0
      /\ made' = k /\ cl' = Opening(k, idx, cl.out + 1) /\ net' = net \union {p}
      /\ timer' = Append(Tail(timer), Head(timer) - 1)
      /\ UNCHANGED <<app, rx, sock, inb, born, mixed>>
  BY DEF RetryHandshake, Handshaking
<1>2. /\ k \in CKeys /\ idx \in Slots /\ cl.out \in 1 .. MaxOut /\ cl.out + 1 \in Nat \ {0}
      /\ sock.gen \in Nat
  <2>1. made \in Nat /\ made < MaxKey /\ cl.curr \in Slots /\ cl.out \in Nat \ {0} /\ cl.out <= MaxOut
    BY DEF RetryHandshake, IInv, ClientInv, ClientOK, ClientConn, CKeys
  <2>2. idx \in Slots
    BY <2>1 DEF Next1, Slots
  <2> QED BY <2>1, <2>2, Constants DEF CKeys, IInv, ServerInv
<1>3. /\ p.to = "srv" /\ p.pub = k /\ p.c = idx /\ p.nonce = cl.out /\ p.cookie.gen = 0
      /\ p.msg.type = "INIT_REQ" /\ p.shared = <<Perma, k>>
  BY DEF InitReq, NoCookie
<1>4. p.shared # NoPair
  BY <1>3 DEF Perma, NoPair, None
<1> HIDE DEF k, idx, p
<1>5. ClientOK(cl') /\ cl'.out = cl.out + 1
  BY <1>1, <1>2, OpeningOK
<1>6. timer' \in Seq(0 .. SendTries - 1)
  <2>1. Head(timer) - 1 \in 0 .. SendTries - 1
    BY <1>1, TimerTypes, Constants DEF IInv
  <2> QED BY <1>1, <2>1, TimerTypes DEF IInv
<1>7. ClientInv'
  BY <1>1, <1>2, <1>5, <1>6 DEF IInv, ClientInv
<1>8. ToServer(p, cl'.out, sock.gen)
  BY <1>2, <1>3, <1>4, <1>5 DEF ToServer
<1>9. mixed' \in BOOLEAN /\ cl'.out >= cl.out
  BY <1>1, <1>2, <1>5 DEF IInv, ServerInv
<1> QED BY <1>1, <1>3, <1>7, <1>8, <1>9, ClientStep

LEMMA RetryKeyxOK == ASSUME IInv, RetryKeyx PROVE IInv' /\ NoneMade
<1>1. /\ cl.open /\ timer # <<>> /\ Head(timer) > 0
      /\ UNCHANGED <<made, app, rx, sock, inb, born, mixed>>
  BY DEF RetryKeyx
<1>2. ClientOK(cl) /\ cl \in ClientConn /\ cl.rcurr # InvIdx /\ cl.out >= cl.out
  BY <1>1 DEF IInv, ClientInv, ClientOK, ClientConn
<1>3. CASE cl.next = InvIdx
  <2>1. timer' = Tail(timer) /\ UNCHANGED <<cl, net>>
    BY <1>3 DEF RetryKeyx
  <2>2. ClientInv'
    BY <1>1, <2>1, TimerTypes DEF IInv, ClientInv
  <2>3. mixed' \in BOOLEAN
    BY <1>1 DEF IInv, ServerInv
  <2> QED BY <1>1, <1>2, <2>1, <2>2, <2>3, ClientStep
<1>4. CASE cl.next # InvIdx
  <2> DEFINE conn == ClientGetPub(cl, cl.next)
             msg == KeyxReq(cl, cl.next)
  <2>1. ClientSends(conn, NoCookie, msg) /\ timer' = Append(Tail(timer), Head(timer) - 1)
    BY <1>4 DEF RetryKeyx
  <2>2. cl.next \in Slots /\ cl.key[cl.next] \in CKeys
    BY <1>2, <1>4 DEF ClientOK, ClientConn, OwnSlots
  <2>3. msg.type = "KEYX_REQ" /\ msg.idx = cl.next /\ msg.key = cl.key[cl.next]
    BY DEF KeyxReq
  <2>4. NoCookie.gen \in Nat /\ NoCookie.gen <= sock.gen
    BY DEF NoCookie, IInv, ServerInv
  <2> HIDE DEF conn, msg
  <2>5. ClientOK(conn) /\ \E sh \in Shared : conn = [cl EXCEPT !.shkey = sh]
    BY <1>2, <2>2, ClientGetPubOK DEF conn
  <2>6. conn.rcurr # InvIdx /\ conn.out = cl.out /\ conn.open = cl.open
    BY <1>2, <2>5 DEF ClientConn
  <2>7. timer' \in Seq(0 .. SendTries - 1)
    <3>1. Head(timer) - 1 \in 0 .. SendTries - 1
      BY <1>1, TimerTypes, Constants DEF IInv
    <3> QED BY <1>1, <2>1, <3>1, TimerTypes DEF IInv
  <2>8. ClientOK(cl') /\ cl'.open = cl.open => ClientInv'
    BY <1>1, <2>7 DEF IInv, ClientInv
  <2>9. Sendable(conn, NoCookie, msg)
    BY <2>2, <2>3, <2>4, <2>5, <2>6 DEF Sendable
  <2> QED BY <1>1, <2>1, <2>8, <2>9, ClientSendsStep
<1> QED BY <1>3, <1>4

LEMMA TimedOutOK == ASSUME IInv, TimedOut PROVE IInv' /\ NoneMade
<1>1. timer # <<>> /\ timer' = Tail(timer) /\ UNCHANGED <<cl, made, app, rx, sock, inb, born, mixed, net>>
  BY DEF TimedOut
<1>2. ClientInv'
  BY <1>1, TimerTypes DEF IInv, ClientInv
<1>3. mixed' \in BOOLEAN /\ cl'.out >= cl.out
  BY <1>1 DEF IInv, ServerInv, ClientInv, ClientOK, ClientConn
<1> QED BY <1>1, <1>2, <1>3, ClientStep

LEMMA NewKeyOK == ASSUME IInv, NewKey PROVE IInv' /\ NoneMade
<1> DEFINE k == made + 1
           idx == Next1(cl.curr)
           keys == [cl.key EXCEPT ![idx] = k]
<1>1. /\ cl.open /\ made' = k /\ app' = [at |-> "announce"]
      /\ UNCHANGED <<rx, timer, sock, inb, born, mixed, net>>
  BY DEF NewKey
<1>2. ClientOK(cl) /\ cl \in ClientConn
  BY DEF IInv, ClientInv, ClientOK
<1>3. /\ k \in CKeys /\ idx \in Slots /\ idx # cl.curr
  <2>1. made \in Nat /\ made < MaxKey /\ cl.curr \in Slots
    BY <1>2 DEF NewKey, IInv, ClientInv, ClientConn, CKeys
  <2> QED BY <2>1, Constants DEF CKeys, Next1, Slots
<1>4. cl' = [cl EXCEPT !.key = keys, !.next = idx]
  BY <1>2 DEF NewKey, ClientConn
<1>5. keys \in OwnSlots /\ keys[idx] # None /\ keys[cl.curr] = cl.key[cl.curr]
  BY <1>2, <1>3, NoneFacts DEF ClientConn, OwnSlots
<1> HIDE DEF k, idx, keys
<1>6. ClientOK(cl') /\ cl'.out = cl.out /\ cl'.open
  BY <1>1, <1>2, <1>3, <1>4, <1>5 DEF ClientOK, ClientConn
<1>7. ClientInv'
  BY <1>1, <1>3, <1>6 DEF IInv, ClientInv
<1>8. mixed' \in BOOLEAN /\ cl'.out >= cl.out
  BY <1>1, <1>6 DEF IInv, ServerInv, ClientInv, ClientOK, ClientConn
<1> QED BY <1>1, <1>7, <1>8, ClientStep

LEMMA AnnounceOK == ASSUME IInv, Announce PROVE IInv' /\ NoneMade
<1>1. app.at = "announce" /\ UNCHANGED <<made, rx, timer, sock, inb, born, mixed, net>>
  BY DEF Announce
<1>2. ClientOK(cl) /\ cl \in ClientConn /\ cl.open
  BY <1>1 DEF IInv, ClientInv, ClientOK
<1>3. ClientInv' /\ cl'.out = cl.out
  <2>1. CASE cl.next = InvIdx
    BY <1>1, <2>1 DEF Announce, IInv, ClientInv
  <2>2. CASE cl.next # InvIdx
    <3>1. app' = [at |-> "pack", msg |-> KeyxReq(cl, cl.next)] /\ cl' = ClientGetPub(cl, cl.next)
      BY <2>2 DEF Announce
    <3>2. cl.next \in Slots /\ cl.key[cl.next] \in CKeys
      BY <1>2, <2>2 DEF ClientOK, ClientConn, OwnSlots
    <3>3. ClientOK(cl') /\ \E sh \in Shared : cl' = [cl EXCEPT !.shkey = sh]
      BY <1>2, <3>1, <3>2, ClientGetPubOK
    <3>4. cl'.out = cl.out /\ cl'.open
      BY <1>2, <3>3 DEF ClientConn
    <3>5. app'.at = "pack" /\ app'.msg.type = "KEYX_REQ" /\ app'.msg.idx \in Slots /\ app'.msg.key \in CKeys
      BY <3>1, <3>2 DEF KeyxReq
    <3> QED BY <1>1, <3>3, <3>4, <3>5 DEF IInv, ClientInv
  <2> QED BY <2>1, <2>2
<1>4. mixed' \in BOOLEAN /\ cl'.out >= cl.out
  BY <1>1, <1>2, <1>3 DEF IInv, ServerInv, ClientConn
<1> QED BY <1>1, <1>3, <1>4, ClientStep

LEMMA NoCookieOK == ASSUME IInv PROVE NoCookie.gen \in Nat /\ NoCookie.gen <= sock.gen
BY DEF NoCookie, IInv, ServerInv

LEMMA SendKeyxReqOK == ASSUME IInv, SendKeyxReq PROVE IInv' /\ NoneMade
<1>1. /\ app.at = "pack" /\ ClientSends(cl, NoCookie, app.msg) /\ timer' = Append(timer, SendTries - 1)
      /\ app' = [at |-> "idle"] /\ UNCHANGED <<made, rx, sock, inb, born, mixed>>
  BY DEF SendKeyxReq
<1>2. /\ ClientOK(cl) /\ cl.open /\ cl.rcurr # InvIdx
      /\ app.msg.type = "KEYX_REQ" /\ app.msg.idx \in Slots /\ app.msg.key \in CKeys
  BY <1>1 DEF IInv, ClientInv, ClientOK
<1>3. timer' \in Seq(0 .. SendTries - 1)
  BY <1>1, TimerTypes, Constants DEF IInv
<1>4. ClientOK(cl') /\ cl'.open = cl.open => ClientInv'
  BY <1>1, <1>3 DEF IInv, ClientInv
<1>5. Sendable(cl, NoCookie, app.msg)
  BY <1>2, NoCookieOK DEF Sendable
<1> QED BY <1>1, <1>4, <1>5, ClientSendsStep

LEMMA SendDataOK == ASSUME IInv, SendData PROVE IInv' /\ NoneMade
<1> DEFINE msg == [type |-> "DATA"]
<1>1. /\ cl.open /\ ClientSends(cl, NoCookie, msg) /\ UNCHANGED <<made, app, rx, timer, sock, inb, born, mixed>>
  BY DEF SendData
<1>2. ClientOK(cl) /\ cl.rcurr # InvIdx
  BY <1>1 DEF IInv, ClientInv, ClientOK
<1>3. msg.type = "DATA"
  OBVIOUS
<1>4. ClientOK(cl') /\ cl'.open = cl.open => ClientInv'
  BY <1>1 DEF IInv, ClientInv
<1> HIDE DEF msg
<1>5. Sendable(cl, NoCookie, msg)
  BY <1>2, <1>3, NoCookieOK DEF Sendable
<1> QED BY <1>1, <1>4, <1>5, ClientSendsStep
-----------------------------------------------------------------------------
LEMMA StepOK == ASSUME IInv, [Next]_vars PROVE IInv' /\ (NoneMade \/ UNCHANGED vars)
<1>1. CASE UNCHANGED vars
  BY <1>1 DEF vars, IInv, ClientInv, ServerInv, NetInv, OnceInv, Remembered, Used
<1>2. ASSUME NEW p \in net, p.to = "srv", HandleInitReq(p) \/ HandleOpenReq(p) \/ HandleKnown(p)
      PROVE  IInv' /\ NoneMade
  <2>1. CASE HandleInitReq(p)
    BY <1>2, <2>1, HandleInitReqOK DEF HandleInitReq, NoneMade, Used
  <2>2. CASE HandleOpenReq(p)
    BY <1>2, <2>2, HandleOpenReqOK
  <2>3. CASE HandleKnown(p)
    BY <1>2, <2>3, HandleKnownOK
  <2> QED BY <1>2, <2>1, <2>2, <2>3
<1>3. ASSUME NEW p \in net, p.to = "cli", HandleInitRep(p) \/ HandleOpenRep(p) \/ HandleKeyxRep(p)
      PROVE  IInv' /\ NoneMade
  BY <1>3, HandleInitRepOK, HandleOpenRepOK, HandleKeyxRepOK
<1>4. CASE ServerReceive
  BY <1>2, <1>4 DEF ServerReceive
<1>5. CASE ClientReceive
  BY <1>3, <1>5 DEF ClientReceive
<1>6. CASE NewSockKey \/ Expire \/ ExpireOne
  BY <1>6, NewSockKeyOK, ExpireOK, ExpireOneOK
<1>7. CASE SetCurr \/ RetryHandshake \/ RetryKeyx \/ TimedOut
  BY <1>7, SetCurrOK, RetryHandshakeOK, RetryKeyxOK, TimedOutOK
<1>8. CASE NewKey \/ Announce \/ SendKeyxReq \/ SendData
  BY <1>8, NewKeyOK, AnnounceOK, SendKeyxReqOK, SendDataOK
<1> QED BY <1>1, <1>4, <1>5, <1>6, <1>7, <1>8 DEF Next

\* The invariant holds in every state, however many keys, packets and expiries there are.
THEOREM SessionInvariant == Spec => []IInv
<1>1. Init => IInv
  BY InitOK
<1>2. IInv /\ [Next]_vars => IInv'
  BY StepOK
<1> QED BY <1>1, <1>2, PTL DEF Spec

LEMMA TypesFollow == IInv => TypeOK
<1> SUFFICES ASSUME IInv PROVE TypeOK
  OBVIOUS
<1>1. ClientOK(cl) /\ cl \in ClientConn
  BY DEF IInv, ClientInv, ClientOK
<1>2. /\ cl.open \in BOOLEAN /\ cl.key \in OwnSlots /\ cl.curr \in Slots /\ cl.key[cl.curr] # None
      /\ cl.next \in Slots \union {InvIdx}
      /\ cl.rkey \in ServerSlots /\ cl.rcurr \in Slots \union {InvIdx} /\ cl.shkey \in Shared
  BY <1>1 DEF ClientOK, ClientConn
<1>3. /\ made \in CKeys /\ app.at \in {"idle", "announce", "pack"}
      /\ timer \in Seq(0 .. SendTries - 1)
  BY DEF IInv, ClientInv
<1>4. /\ sock.key \in ServerSlots /\ sock.curr \in Slots /\ sock.gen \in 1 .. MaxGen
      /\ sock.expire \subseteq {i \in Conn : Used(i)} /\ mixed \in BOOLEAN
  BY DEF IInv, ServerInv
<1>5. \A i \in Conn : Used(i) =>
        /\ inb[i].rkey \in OwnSlots /\ inb[i].shkey \in Shared
        /\ inb[i].curr \in Slots /\ inb[i].rcurr \in Slots
        /\ inb[i].rkey[inb[i].rcurr] # None
  BY DEF IInv, ServerInv, ServerOK, ServerConn
<1>6. born \subseteq CKeys \X (1 .. MaxOut)
  BY DEF IInv, OnceInv
<1> QED BY <1>2, <1>3, <1>4, <1>5, <1>6 DEF TypeOK

\* Slots hold keys of the side they are meant for and every connection of the server has a
\* current pair of keys (conn_dhkey_set_pub, conn_shkey_get).
THEOREM SessionTypes == Spec => []TypeOK
BY SessionInvariant, TypesFollow, PTL

\* A copy of an OPEN_REQ makes no second connection (ecp_sock_expire_inb, ecp_unpack).
THEOREM RequestsOpenOnce == Spec => OpenedOnce
<1>1. IInv /\ [Next]_vars =>
        [\A i \in Conn : ~Used(i) /\ Used(i)' => born' # born \/ MovedOn(inb'[i].hs)]_vars
  BY StepOK DEF NoneMade
<1> QED BY <1>1, SessionInvariant, PTL DEF Spec, OpenedOnce
-----------------------------------------------------------------------------
(* The keys of the two sides *)

\* The socket's keys are numbered as they come, one slot after the other.
SockInv ==
    /\ sock.key[sock.curr] = 1 => sock.curr = 0 /\ sock.key[1] = None
    /\ sock.key[sock.curr] = 2 => sock.curr = 1 /\ sock.key[0] = 1

IsRequest(p) == p.to = "srv" /\ p.msg.type \in {"KEYX_REQ", "DATA"}
IsKeyxReq(p) == p.to = "srv" /\ p.msg.type = "KEYX_REQ"
IsKeyxRep(p) == p.to = "cli" /\ p.msg.type = "KEYX_REP"
IsOpenReq(p) == p.to = "srv" /\ p.msg.type = "OPEN_REQ"

\* The client's keys, the oldest of which is that of the handshake.
OwnKeys ==
    /\ \A c \in Slots : cl.key[c] <= made
    /\ \A c \in Slots : cl.key[c] # None => cl.hs <= cl.key[c]
    /\ cl.key[0] # cl.key[1]
    /\ cl.next # cl.curr
    /\ ~cl.open => cl.key[cl.curr] = cl.hs /\ \A c \in Slots : cl.key[c] \in {None, cl.hs}

\* A key goes to one slot: key k is in slot c.
Placed(k, c) == k <= made /\ \A d \in Slots : cl.key[d] = k => d = c

\* What is announced, in a packet or about to be, is no newer than what the slot holds.
Announced(msg) ==
    /\ msg.key <= cl.key[msg.idx] /\ cl.hs <= msg.key
    /\ Placed(msg.key, msg.idx)

PacketKeys(p) ==
    /\ p.to = "srv" => Placed(p.pub, p.c)
    /\ IsRequest(p) => cl.open /\ cl.hs <= p.pub
    /\ IsOpenReq(p) => p.pub <= cl.hs
    /\ IsKeyxReq(p) => Announced(p.msg)
    /\ IsKeyxRep(p) => cl.open /\ p.msg.answers <= made
    /\ p.to = "cli" /\ p.msg.type = "OPEN_REP" => \E b \in born : b[1] = p.pub
    /\ p.to = "srv" /\ p.s \in Slots /\ cl.hs <= p.pub => cl.rkey[p.s] # None

\* A connection of the server, its keys and where it comes from.
ConnKeys(conn) ==
    /\ \A c \in Slots : conn.rkey[c] # None => Placed(conn.rkey[c], c)
    /\ conn.hs <= cl.hs
    /\ conn.hs # cl.hs => \A c \in Slots : conn.rkey[c] < cl.hs
    /\ conn.hs = cl.hs => \A c \in Slots : conn.rkey[c] # None => cl.hs <= conn.rkey[c]
    /\ conn.hs = cl.hs => cl.rkey[conn.curr] # None
    /\ \E b \in born : b[1] = conn.hs

KeyInv ==
    /\ SockInv
    /\ OwnKeys
    /\ app.at = "pack" => Announced(app.msg)
    /\ rx # None => cl.open /\ rx <= made
    /\ \A p \in net : PacketKeys(p)
    /\ \A i \in Conn : Used(i) => ConnKeys(inb[i])
    /\ \A i, j \in Conn :
         Used(i) /\ Used(j) /\ inb[i].hs = inb[j].hs /\ ~inb[i].again /\ ~inb[j].again => i = j
    /\ cl.open => \E b \in born : b[1] = cl.hs

\* As long as the socket has replaced no key, the client's and the cached ones are the socket's.
Fresh(shared, s, k) == shared \in {NoPair, <<sock.key[s], k>>}
Unannounced(k) ==
    /\ \A p \in net : (IsKeyxReq(p) => p.msg.key # k) /\ (IsKeyxRep(p) => p.msg.answers # k)
    /\ rx # k
    /\ app.at = "pack" => app.msg.key # k

FreshConn(conn) == \A s \in Slots, c \in Slots : Fresh(conn.shkey[s][c], s, conn.rkey[c])

SocketKeys ==
    /\ \A s \in Slots : cl.rkey[s] \in {None, sock.key[s]}
    /\ \A p \in net : p.to = "cli" /\ p.msg.type # "OPEN_REP" => p.msg.key = sock.key[p.msg.idx]
    /\ \A i \in Conn : Used(i) => FreshConn(inb[i])
OwnShared ==
    \A s \in Slots, c \in Slots :
      Fresh(cl.shkey[s][c], s, cl.key[c]) \/ (c = cl.next /\ Unannounced(cl.key[c]))

\* The server has the client's current key, and any that was answered.
Answered(k) == rx = k \/ \E p \in net : IsKeyxRep(p) /\ p.msg.answers = k
PeerKeys ==
    \A i \in Peers :
      /\ inb[i].rkey[cl.curr] = cl.key[cl.curr]
      /\ \A d \in Slots : cl.key[d] # None /\ Answered(cl.key[d]) => inb[i].rkey[d] = cl.key[d]

LInv ==
    /\ KeyInv
    /\ ~Replaced => SocketKeys
    /\ ~Replaced /\ ~mixed => OwnShared
    /\ ~mixed => PeerKeys
-----------------------------------------------------------------------------
(* What the steps of the server do to the keys of its connections *)

\* A connection after a packet of slot s: the keys and the handshake's stay.
Derived(new, conn, s) ==
    /\ new \in ServerConn /\ conn \in ServerConn
    /\ new.hs = conn.hs /\ new.again = conn.again /\ new.rkey = conn.rkey
    /\ new.curr \in {conn.curr, s}
    /\ FreshConn(conn) => FreshConn(new)

LEMMA DerivedTransitive ==
    ASSUME NEW a, NEW b, NEW c, NEW s, Derived(b, a, s), Derived(c, b, s)
    PROVE  Derived(c, a, s)
BY DEF Derived

LEMMA DerivedOther ==
    ASSUME NEW conn \in ServerConn, NEW new \in ServerConn, NEW s,
           new.hs = conn.hs, new.again = conn.again, new.rkey = conn.rkey,
           new.curr = conn.curr, new.shkey = conn.shkey
    PROVE  Derived(new, conn, s)
BY DEF Derived, FreshConn

LEMMA MeetDerived ==
    ASSUME ServerInv, NEW conn, ServerOK(conn, sock.key), NEW s, NEW c,
           ServerShared(conn, s, c) # NoPair
    PROVE  Derived(Meet(conn, s, c), conn, s)
<1>0. conn \in ServerConn
  BY DEF ServerOK
<1>1. /\ s \in Slots /\ c \in Slots
      /\ ServerShared(conn, s, c) \in SKeys \X CKeys
  BY <1>0, ServerSharedKey
<1>2. CASE conn.shkey[s][c] # NoPair
  BY <1>0, <1>2 DEF Meet, Derived
<1>3. CASE conn.shkey[s][c] = NoPair
  <2> DEFINE v == ServerShared(conn, s, c)
             row == [conn.shkey EXCEPT ![s][c] = v]
             new == [conn EXCEPT !.shkey = row, !.curr = s, !.rcurr = c]
  <2>1. Meet(conn, s, c) = new
    BY <1>0, <1>3 DEF Meet, ServerConn
  <2>2. v = <<sock.key[s], conn.rkey[c]>>
    BY <1>1, <1>3, NoneFacts DEF ServerShared
  <2>3. row \in Shared
    BY <1>0, <1>1, SharedUpdate DEF ServerConn
  <2>4. FreshConn(conn) => \A t \in Slots, d \in Slots : Fresh(row[t][d], t, conn.rkey[d])
    <3> HIDE DEF v
    <3> QED BY <1>0, <1>1, <2>2 DEF FreshConn, Fresh, ServerConn, Shared
  <2> HIDE DEF v, row
  <2>5. /\ new \in ServerConn /\ new.hs = conn.hs /\ new.again = conn.again /\ new.rkey = conn.rkey
        /\ new.curr = s /\ new.shkey = row
    BY <1>0, <1>1, <2>3 DEF ServerConn
  <2> HIDE DEF new
  <2> QED BY <1>0, <2>1, <2>4, <2>5 DEF Derived, FreshConn
<1> QED BY <1>2, <1>3

LEMMA GetPubDerived ==
    ASSUME NEW conn \in ServerConn, NEW idx \in Slots, NEW s
    PROVE  Derived(ServerGetPub(conn, idx), conn, s)
<1>1. ClearRow(conn.shkey, idx) \in Shared
  BY Cleared DEF ServerConn
<1>2. CASE idx = conn.rcurr
  BY <1>2 DEF ServerGetPub, Derived
<1>3. CASE idx # conn.rcurr
  <2> DEFINE sh == ClearRow(conn.shkey, idx)
             new == [conn EXCEPT !.shkey = sh]
  <2>1. ServerGetPub(conn, idx) = new
    BY <1>3 DEF ServerGetPub, ServerConn
  <2>2. FreshConn(conn) => \A t \in Slots, d \in Slots : Fresh(sh[t][d], t, conn.rkey[d])
    BY DEF FreshConn, Fresh, ServerConn, Shared, ClearRow
  <2> HIDE DEF sh
  <2>3. /\ new \in ServerConn /\ new.hs = conn.hs /\ new.again = conn.again /\ new.rkey = conn.rkey
        /\ new.curr = conn.curr /\ new.shkey = sh
    BY <1>1 DEF ServerConn, sh
  <2> HIDE DEF new
  <2> QED BY <2>1, <2>2, <2>3 DEF Derived, FreshConn
<1> QED BY <1>2, <1>3

\* conn_dhkey_set_pub voids the shared keys of the slot.
LEMMA ServerSetPubFields ==
    ASSUME NEW conn \in ServerConn, NEW idx \in Slots, NEW key \in CKeys
    PROVE  LET new == ServerSetPub(conn, idx, key) IN
           /\ new \in ServerConn
           /\ new.hs = conn.hs /\ new.again = conn.again /\ new.curr = conn.curr
           /\ new.rkey = [conn.rkey EXCEPT ![idx] = key]
           /\ FreshConn(conn) => FreshConn(new)
<1> DEFINE rk == [conn.rkey EXCEPT ![idx] = key]
           sh == ClearColumn(conn.shkey, idx)
           new == [conn EXCEPT !.rkey = rk, !.shkey = sh]
<1>1. CASE conn.rkey[idx] = key
  <2>1. rk = conn.rkey
    BY <1>1 DEF ServerConn, OwnSlots
  <2> QED BY <1>1, <2>1 DEF ServerSetPub
<1>2. CASE conn.rkey[idx] # key
  <2>1. ServerSetPub(conn, idx, key) = new
    BY <1>2 DEF ServerSetPub, ServerConn
  <2>2. rk \in OwnSlots /\ sh \in Shared
    BY Cleared DEF ServerConn, OwnSlots
  <2>3. FreshConn(conn) => \A t \in Slots, d \in Slots : Fresh(sh[t][d], t, rk[d])
    BY DEF FreshConn, Fresh, ServerConn, Shared, ClearColumn, OwnSlots
  <2> HIDE DEF rk, sh
  <2>4. /\ new \in ServerConn /\ new.hs = conn.hs /\ new.again = conn.again /\ new.rkey = rk
        /\ new.curr = conn.curr /\ new.shkey = sh
    BY <2>2 DEF ServerConn
  <2> HIDE DEF new
  <2>5. /\ ServerSetPub(conn, idx, key) = new
        /\ FreshConn(conn) => FreshConn(new)
    BY <2>1, <2>3, <2>4 DEF FreshConn
  <2> QED BY <2>4, <2>5 DEF rk
<1> QED BY <1>1, <1>2

\* The answer to a KEYX_REQ, and what a packet does to the connection that is found by its key.
KeyxAnswer(q, key) ==
    /\ IsKeyxRep(q) /\ q.msg.answers = key /\ q.msg.key = sock.key[q.msg.idx]

LEMMA KnownEffect ==
    ASSUME IInv, NEW p \in net, p.to = "srv", HandleKnown(p)
    PROVE  \E i \in Conn :
             /\ Used(i) /\ Used(i)' /\ p.s \in Slots
             /\ \E c \in Slots : inb[i].rkey[c] = p.pub
             /\ UNCHANGED <<cl, made, app, rx, timer, sock, born>>
             /\ \A j \in Conn : j # i => inb'[j] = inb[j]
             /\ inb'[i].hs = inb[i].hs /\ inb'[i].again = inb[i].again
             /\ inb'[i].curr \in {inb[i].curr, p.s}
             /\ FreshConn(inb[i]) => FreshConn(inb'[i])
             /\ \/ inb'[i].rkey = inb[i].rkey /\ net' = net /\ mixed' = mixed
                \/ /\ IsKeyxReq(p)
                   /\ inb'[i].rkey = [inb[i].rkey EXCEPT ![p.msg.idx] = p.msg.key]
                   /\ mixed' = (mixed \/ inb[i].again \/ p.msg.key < inb[i].rkey[p.msg.idx])
                   /\ \E q : KeyxAnswer(q, p.msg.key) /\ net' = net \union {q}
<1> USE DEF IInv
<1>1. ToServer(p, cl.out, sock.gen)
  BY InNet
<1> DEFINE Known(i) ==
      /\ ServerShared(inb[i], p.s, p.c) # NoPair
      /\ IF ~Readable(i, p)
         THEN /\ inb' = [inb EXCEPT ![i] = Meet(@, p.s, p.c)]
              /\ UNCHANGED <<net, mixed>>
         ELSE IF p.msg.type = "KEYX_REQ"
         THEN LET told == ServerSetPub(Received(i, p), p.msg.idx, p.msg.key)
              IN  /\ ServerSends(i, ServerGetPub(told, sock.curr),
                       [type |-> "KEYX_REP", idx |-> sock.curr, key |-> sock.key[sock.curr],
                        answers |-> p.msg.key])
                  /\ mixed' = (mixed \/ inb[i].again \/ p.msg.key < inb[i].rkey[p.msg.idx])
         ELSE /\ inb' = [inb EXCEPT ![i] = Received(i, p)]
              /\ UNCHANGED <<net, mixed>>
<1>2. PICK i \in Found(p.pub) : Known(i) /\ UNCHANGED <<cl, made, app, rx, timer, sock, born>>
  BY DEF HandleKnown
<1>3. /\ i \in Conn /\ Used(i) /\ ServerOK(inb[i], sock.key) /\ inb[i] \in ServerConn
      /\ \E c \in Slots : inb[i].rkey[c] = p.pub
  BY <1>2 DEF Found, ServerInv, ServerOK
<1>4. p.s \in Slots
  BY <1>2, <1>3, ServerSharedKey
<1> DEFINE met == Meet(inb[i], p.s, p.c)
           got == Received(i, p)
<1>5. ServerOK(met, sock.key) /\ Derived(met, inb[i], p.s)
  BY <1>2, <1>3, MeetOK, MeetDerived
<1>6. got = [met EXCEPT !.win = After(@, p.nonce)]
  BY DEF Received
<1> HIDE DEF met
<1>7. ServerOK(got, sock.key) /\ Derived(got, inb[i], p.s)
  <2>1. p.nonce \in Nat
    BY <1>1, Constants DEF ToServer
  <2>2. ServerOK(got, sock.key)
    BY <1>5, <1>6, <2>1, WindowOK
  <2>3. met \in ServerConn /\ got \in ServerConn
    BY <1>5, <2>2 DEF ServerOK
  <2>4. /\ got.hs = met.hs /\ got.again = met.again /\ got.rkey = met.rkey
        /\ got.curr = met.curr /\ got.shkey = met.shkey
    BY <1>6, <2>3 DEF ServerConn
  <2>5. Derived(got, met, p.s)
    <3> HIDE DEF got
    <3> QED BY <2>3, <2>4, DerivedOther
  <2> QED BY <1>5, <2>2, <2>5, DerivedTransitive
<1> HIDE DEF got
\* A connection that keeps its keys
<1>8. ASSUME NEW new, Derived(new, inb[i], p.s), inb' = [inb EXCEPT ![i] = new]
      PROVE  /\ Used(i)' /\ \A j \in Conn : j # i => inb'[j] = inb[j]
             /\ inb'[i].hs = inb[i].hs /\ inb'[i].again = inb[i].again
             /\ inb'[i].curr \in {inb[i].curr, p.s}
             /\ FreshConn(inb[i]) => FreshConn(inb'[i])
             /\ inb'[i].rkey = inb[i].rkey
  <2>1. inb'[i] = new /\ \A j \in Conn : j # i => inb'[j] = inb[j]
    BY <1>3, <1>8 DEF ServerInv
  <2>2. new.state = "open"
    BY <1>8 DEF Derived, ServerConn
  <2> QED BY <1>8, <2>1, <2>2 DEF Used, Derived
<1>9. CASE ~Readable(i, p)
  <2>1. inb' = [inb EXCEPT ![i] = met] /\ net' = net /\ mixed' = mixed
    BY <1>2, <1>9 DEF met
  <2> QED BY <1>2, <1>3, <1>4, <1>5, <1>8, <2>1
<1>10. CASE Readable(i, p) /\ p.msg.type # "KEYX_REQ"
  <2>1. inb' = [inb EXCEPT ![i] = got] /\ net' = net /\ mixed' = mixed
    BY <1>2, <1>10 DEF got
  <2> QED BY <1>2, <1>3, <1>4, <1>7, <1>8, <2>1
<1>11. CASE Readable(i, p) /\ p.msg.type = "KEYX_REQ"
  <2> DEFINE told == ServerSetPub(got, p.msg.idx, p.msg.key)
             conn == ServerGetPub(told, sock.curr)
             msg == [type |-> "KEYX_REP", idx |-> sock.curr, key |-> sock.key[sock.curr],
                     answers |-> p.msg.key]
             q == ServerPacket(conn, msg)
             last == Meet(conn, conn.curr, conn.rcurr)
             new == [last EXCEPT !.out = @ + 1]
             rk == [inb[i].rkey EXCEPT ![p.msg.idx] = p.msg.key]
  <2>1. p.msg.idx \in Slots /\ p.msg.key \in CKeys /\ IsKeyxReq(p)
    BY <1>1, <1>11 DEF ToServer, IsKeyxReq
  <2>2. sock.curr \in Slots
    BY DEF ServerInv
  <2>3. /\ ServerSends(i, conn, msg)
        /\ mixed' = (mixed \/ inb[i].again \/ p.msg.key < inb[i].rkey[p.msg.idx])
    BY <1>2, <1>11 DEF got
  <2>4. inb' = [inb EXCEPT ![i] = new] /\ net' = net \union {q}
    BY <2>3 DEF ServerSends
  <2>5. KeyxAnswer(q, p.msg.key)
    BY DEF ServerPacket, KeyxAnswer, IsKeyxRep
  <2> HIDE DEF q
  <2>6. /\ ServerOK(told, sock.key) /\ told \in ServerConn
        /\ told.hs = got.hs /\ told.again = got.again /\ told.curr = got.curr
        /\ told.rkey = [got.rkey EXCEPT ![p.msg.idx] = p.msg.key]
        /\ FreshConn(got) => FreshConn(told)
    <3>1. got \in ServerConn
      BY <1>7 DEF ServerOK
    <3>2. ServerOK(told, sock.key)
      BY <1>7, <2>1, ServerSetPubOK
    <3> QED BY <2>1, <3>1, <3>2, ServerSetPubFields
  <2> HIDE DEF told
  <2>7. ServerOK(conn, sock.key) /\ Derived(conn, told, p.s)
    BY <2>2, <2>6, ServerGetPubOK, GetPubDerived
  <2> HIDE DEF conn
  <2>8. conn.curr \in Slots /\ ServerShared(conn, conn.curr, conn.rcurr) # NoPair
    BY <2>7, CurrentShared, NoneFacts DEF ServerOK, ServerConn
  <2>9. ServerOK(last, sock.key) /\ Derived(last, conn, conn.curr)
    BY <2>7, <2>8, MeetOK, MeetDerived
  <2> HIDE DEF last
  <2>10. /\ new \in ServerConn /\ last \in ServerConn
         /\ new.hs = last.hs /\ new.again = last.again /\ new.rkey = last.rkey
         /\ new.curr = last.curr /\ new.shkey = last.shkey /\ new.state = "open"
    BY <2>9 DEF ServerOK, ServerConn
  <2> HIDE DEF new
  <2>11. /\ inb'[i] = new /\ Used(i)' /\ \A j \in Conn : j # i => inb'[j] = inb[j]
    BY <1>3, <2>4, <2>10 DEF ServerInv, Used
  <2>12. new.hs = inb[i].hs /\ new.again = inb[i].again /\ new.curr \in {inb[i].curr, p.s} /\ new.rkey = rk
    BY <1>7, <2>6, <2>7, <2>9, <2>10 DEF Derived
  <2>13. FreshConn(inb[i]) => FreshConn(last)
    BY <1>7, <2>6, <2>7, <2>9 DEF Derived
  <2>14. FreshConn(inb[i]) => FreshConn(new)
    BY <2>10, <2>13 DEF FreshConn
  <2> HIDE DEF rk
  <2>15. inb'[i].hs = inb[i].hs /\ inb'[i].again = inb[i].again /\ inb'[i].curr \in {inb[i].curr, p.s}
         /\ inb'[i].rkey = rk /\ (FreshConn(inb[i]) => FreshConn(inb'[i]))
    BY <2>11, <2>12, <2>14
  <2> QED BY <1>2, <1>3, <1>4, <2>1, <2>3, <2>4, <2>5, <2>11, <2>15 DEF rk
<1> QED BY <1>9, <1>10, <1>11

LEMMA OpenReqEffect ==
    ASSUME IInv, NEW p \in net, p.to = "srv", HandleOpenReq(p)
    PROVE  /\ IsOpenReq(p) /\ p.s \in Slots /\ p.c \in Slots /\ p.pub \in CKeys
           /\ UNCHANGED <<cl, made, app, rx, timer, sock, mixed>>
           /\ born' = born \union {<<p.pub, p.nonce>>}
           /\ \E i \in Conn :
                /\ ~Used(i) /\ Used(i)'
                /\ \A j \in Conn : j # i => inb'[j] = inb[j]
                /\ inb'[i].hs = p.pub /\ (inb'[i].again <=> \E b \in born : b[1] = p.pub)
                /\ inb'[i].curr = p.s
                /\ inb'[i].rkey = [NoKeys EXCEPT ![p.c] = p.pub]
                /\ FreshConn(inb'[i])
           /\ \E q : /\ net' = net \union {q}
                     /\ q.to = "cli" /\ q.msg.type = "OPEN_REP" /\ q.pub = p.pub
<1> USE DEF IInv
<1>1. ToServer(p, cl.out, sock.gen) /\ p.msg.type = "OPEN_REQ"
  BY InNet DEF HandleOpenReq
<1>2. /\ p.s \in Slots /\ p.c \in Slots /\ p.pub \in CKeys /\ p.nonce \in Nat
      /\ p.shared \in SKeys \X CKeys
  BY <1>1, Constants DEF ToServer
<1> DEFINE rk == [NoKeys EXCEPT ![p.c] = p.pub]
           sh == [NoShared EXCEPT ![p.s][p.c] = p.shared]
           old == \E b \in born : b[1] = p.pub
           new == [state |-> "open", hs |-> p.pub, curr |-> p.s, rcurr |-> p.c, rkey |-> rk,
                   shkey |-> sh, out |-> 1, win |-> Opened(p.nonce), again |-> old]
           msg == [type |-> "OPEN_REP"]
           q == ServerPacket(new, msg)
<1>3. PICK i \in Conn : ~Used(i) /\ ServerSends(i, new, msg)
  BY DEF HandleOpenReq
<1>4. /\ UNCHANGED <<cl, made, app, rx, timer, sock, mixed>>
      /\ born' = born \union {<<p.pub, p.nonce>>}
      /\ p.shared = <<sock.key[p.s], p.pub>>
  BY DEF HandleOpenReq
<1>5. rk \in OwnSlots /\ rk[p.c] = p.pub /\ sh \in Shared /\ Opened(p.nonce) \in Window /\ old \in BOOLEAN
  BY <1>2, Empty, SharedUpdate, WindowTypes DEF NoKeys, OwnSlots
<1>6. \A s \in Slots, c \in Slots : Fresh(sh[s][c], s, rk[c])
  BY <1>2, <1>4, <1>5 DEF Fresh, NoShared
<1>7. q.to = "cli" /\ q.msg = msg /\ q.pub = rk[p.c]
  BY DEF ServerPacket
<1>8. msg.type = "OPEN_REP"
  OBVIOUS
<1> HIDE DEF rk, sh, old
<1>9. /\ new \in ServerConn /\ new.hs = p.pub /\ new.again = old /\ new.curr = p.s /\ new.rkey = rk
      /\ new.shkey = sh /\ new.rcurr = p.c
  BY <1>2, <1>5 DEF ServerConn
<1> HIDE DEF new, msg, q
<1>10. FreshConn(new)
  BY <1>6, <1>9 DEF FreshConn
<1>11. new.shkey[p.s][p.c] # NoPair
  BY <1>2, <1>9, NoneFacts DEF sh, NoShared
<1> DEFINE out == [new EXCEPT !.out = @ + 1]
<1>12. inb' = [inb EXCEPT ![i] = out] /\ net' = net \union {q}
  <2>1. Meet(new, new.curr, new.rcurr) = new
    BY <1>9, <1>11 DEF Meet
  <2> QED BY <1>3, <2>1 DEF ServerSends, q
<1>13. /\ out.hs = p.pub /\ out.again = old /\ out.curr = p.s /\ out.rkey = rk /\ out.shkey = sh
       /\ out.state = "open"
  BY <1>9 DEF ServerConn
<1> HIDE DEF out
<1>14. FreshConn(out)
  BY <1>9, <1>10, <1>13 DEF FreshConn
<1>15. /\ inb'[i] = out /\ Used(i)' /\ \A j \in Conn : j # i => inb'[j] = inb[j]
  BY <1>12, <1>13 DEF ServerInv, Used
<1>16. q.to = "cli" /\ q.msg.type = "OPEN_REP" /\ q.pub = p.pub
  BY <1>5, <1>7, <1>8
<1>17. inb'[i].hs = p.pub /\ (inb'[i].again <=> old) /\ inb'[i].curr = p.s /\ inb'[i].rkey = rk
       /\ FreshConn(inb'[i])
  BY <1>13, <1>14, <1>15
<1>18. IsOpenReq(p)
  BY <1>1 DEF IsOpenReq
<1> QED BY <1>2, <1>3, <1>4, <1>12, <1>15, <1>16, <1>17, <1>18 DEF rk, old
-----------------------------------------------------------------------------
(* What the steps of the client do to its keys *)

\* A shared key of the new connection is one of the old, or none, or that of the two keys.
SharedFrom(new, conn) ==
    \A s \in Slots, c \in Slots :
      new.shkey[s][c] \in {conn.shkey[s][c], NoPair, <<new.rkey[s], new.key[c]>>}
SameKeys(new, conn) ==
    /\ new.key = conn.key /\ new.curr = conn.curr /\ new.next = conn.next
    /\ new.hs = conn.hs /\ new.open = conn.open

LEMMA SendsFields ==
    ASSUME NEW conn, ClientOK(conn), conn.rcurr # InvIdx,
           NEW cookie, NEW msg, ClientSends(conn, cookie, msg)
    PROVE  /\ SameKeys(cl', conn) /\ cl'.rkey = conn.rkey /\ SharedFrom(cl', conn)
           /\ \A s \in Slots, c \in Slots :
                c # conn.curr => cl'.shkey[s][c] = conn.shkey[s][c]
           /\ \E p : /\ net' = net \union {p}
                     /\ p.to = "srv" /\ p.msg = msg /\ p.pub = conn.key[conn.curr]
                     /\ p.c = conn.curr /\ p.s \in Slots /\ conn.rkey[p.s] # None
<1>0. conn \in ClientConn
  BY DEF ClientOK
<1> DEFINE s == conn.rcurr
           c == conn.curr
           p == ClientPacket(conn, s, cookie, msg)
           sh == [conn.shkey EXCEPT ![s][c] = p.shared]
<1>1. s \in Slots /\ c \in Slots /\ conn.rkey[s] # None
  BY <1>0 DEF ClientOK, ClientConn
<1>2. /\ p.to = "srv" /\ p.msg = msg /\ p.pub = conn.key[c] /\ p.c = c /\ p.s = s
      /\ p.shared \in {conn.shkey[s][c], <<conn.rkey[s], conn.key[c]>>}
  BY DEF ClientPacket
<1>3. net' = net \union {p} /\ cl' = [conn EXCEPT !.out = @ + 1, !.shkey = sh]
  BY <1>0 DEF ClientSends, ClientConn
<1> HIDE DEF p
<1>4. \A t \in Slots, d \in Slots :
        sh[t][d] = IF t = s /\ d = c THEN p.shared ELSE conn.shkey[t][d]
  BY <1>0, <1>1 DEF ClientConn, Shared
<1> HIDE DEF sh
<1>5. /\ cl'.key = conn.key /\ cl'.curr = conn.curr /\ cl'.next = conn.next
      /\ cl'.hs = conn.hs /\ cl'.open = conn.open /\ cl'.rkey = conn.rkey /\ cl'.shkey = sh
  BY <1>0, <1>3 DEF ClientConn
<1> QED BY <1>1, <1>2, <1>3, <1>4, <1>5 DEF SameKeys, SharedFrom

LEMMA MeetsFields ==
    ASSUME ClientOK(cl), NEW p, ClientReads(p), p.shared # NoPair
    PROVE  LET met == ClientMeets(p) IN
           /\ met \in ClientConn /\ SameKeys(met, cl) /\ met.rkey = cl.rkey /\ SharedFrom(met, cl)
<1>0. cl \in ClientConn
  BY DEF ClientOK
<1> DEFINE v == ClientShared(p.s, p.c)
           sh == [cl.shkey EXCEPT ![p.s][p.c] = v]
<1>1. /\ p.s \in Slots /\ p.c \in Slots /\ v \in SKeys \X CKeys /\ v # NoPair
  BY ClientSharedKey DEF ClientReads
<1>2. v \in {cl.shkey[p.s][p.c], <<cl.rkey[p.s], cl.key[p.c]>>}
  BY <1>1 DEF ClientShared
<1> HIDE DEF v
<1>3. sh \in Shared
  BY <1>0, <1>1, SharedUpdate DEF ClientConn
<1>4. ClientMeets(p) = [cl EXCEPT !.shkey = sh]
  BY <1>0 DEF ClientMeets, ClientConn, v
<1>5. \A s \in Slots, c \in Slots : sh[s][c] \in {cl.shkey[s][c], <<cl.rkey[s], cl.key[c]>>}
  BY <1>0, <1>1, <1>2 DEF ClientConn, Shared
<1> HIDE DEF sh
<1> DEFINE met == ClientMeets(p)
<1>6. /\ met \in ClientConn /\ met.key = cl.key /\ met.curr = cl.curr /\ met.next = cl.next
      /\ met.hs = cl.hs /\ met.open = cl.open /\ met.rkey = cl.rkey /\ met.shkey = sh
  BY <1>0, <1>3, <1>4 DEF ClientConn
<1> QED BY <1>5, <1>6 DEF SameKeys, SharedFrom

LEMMA SetPubFields ==
    ASSUME NEW conn \in ClientConn, NEW idx \in Slots, NEW key \in SKeys
    PROVE  LET new == ClientSetPub(conn, idx, key) IN
           /\ new \in ClientConn /\ SameKeys(new, conn)
           /\ new.rkey = [conn.rkey EXCEPT ![idx] = key]
           /\ \A s \in Slots, c \in Slots :
                /\ new.shkey[s][c] \in {conn.shkey[s][c], NoPair}
                /\ new.rkey[s] # conn.rkey[s] => new.shkey[s][c] = NoPair
<1> DEFINE rk == [conn.rkey EXCEPT ![idx] = key]
           sh == ClearRow(conn.shkey, idx)
           new == [conn EXCEPT !.rkey = rk, !.rcurr = idx, !.shkey = sh]
<1>1. CASE conn.rkey[idx] = key
  <2>1. rk = conn.rkey
    BY <1>1 DEF ClientConn, ServerSlots
  <2> QED BY <1>1, <2>1 DEF ClientSetPub, SameKeys
<1>2. CASE conn.rkey[idx] # key
  <2>1. ClientSetPub(conn, idx, key) = new
    BY <1>2 DEF ClientSetPub, ClientConn
  <2>2. rk \in ServerSlots /\ sh \in Shared
    BY Cleared DEF ClientConn, ServerSlots
  <2>3. \A s \in Slots, c \in Slots :
          /\ sh[s][c] \in {conn.shkey[s][c], NoPair}
          /\ rk[s] # conn.rkey[s] => sh[s][c] = NoPair
    BY DEF ClientConn, Shared, ServerSlots, ClearRow
  <2> HIDE DEF rk, sh
  <2>4. /\ new \in ClientConn /\ new.key = conn.key /\ new.curr = conn.curr /\ new.next = conn.next
        /\ new.hs = conn.hs /\ new.open = conn.open /\ new.rkey = rk /\ new.shkey = sh
    BY <2>2 DEF ClientConn
  <2> HIDE DEF new
  <2> QED BY <2>1, <2>3, <2>4 DEF SameKeys, rk
<1> QED BY <1>1, <1>2

LEMMA GetPubFields ==
    ASSUME NEW conn \in ClientConn, NEW idx \in Slots, idx # conn.curr
    PROVE  LET new == ClientGetPub(conn, idx) IN
           /\ new \in ClientConn /\ SameKeys(new, conn) /\ new.rkey = conn.rkey /\ new.rcurr = conn.rcurr
           /\ \A s \in Slots, c \in Slots :
                new.shkey[s][c] = IF c = idx THEN NoPair ELSE conn.shkey[s][c]
<1> DEFINE sh == ClearColumn(conn.shkey, idx)
           new == [conn EXCEPT !.shkey = sh]
<1>1. ClientGetPub(conn, idx) = new
  BY DEF ClientGetPub, ClientConn
<1>2. sh \in Shared
  BY Cleared DEF ClientConn
<1>3. \A s \in Slots, c \in Slots : sh[s][c] = IF c = idx THEN NoPair ELSE conn.shkey[s][c]
  BY DEF ClientConn, Shared, ClearColumn
<1> HIDE DEF sh
<1>4. /\ new \in ClientConn /\ new.key = conn.key /\ new.curr = conn.curr /\ new.next = conn.next
      /\ new.hs = conn.hs /\ new.open = conn.open /\ new.rkey = conn.rkey /\ new.rcurr = conn.rcurr
      /\ new.shkey = sh
  BY <1>2 DEF ClientConn
<1> HIDE DEF new
<1> QED BY <1>1, <1>3, <1>4 DEF SameKeys
-----------------------------------------------------------------------------
(* KeyInv *)

LEMMA KeyTypes ==
    ASSUME IInv
    PROVE  /\ made \in Nat /\ made <= MaxKey /\ cl.hs \in Nat /\ cl.hs > 0 /\ cl.curr \in Slots
           /\ \A c \in Slots : cl.key[c] \in Int /\ (cl.key[c] = None \/ cl.key[c] > 0)
           /\ cl.key[cl.curr] # None /\ None = -1 /\ Slots = {0, 1}
           /\ \A i \in Conn : Used(i) =>
                /\ inb[i].hs \in Nat /\ inb[i] \in ServerConn
                /\ \A c \in Slots : inb[i].rkey[c] \in Int /\ (inb[i].rkey[c] = None \/ inb[i].rkey[c] > 0)
           /\ \A p \in net : p.to = "srv" => p.pub \in Nat /\ p.pub > 0
           /\ \A p \in net : IsKeyxReq(p) => p.msg.key \in CKeys /\ p.msg.idx \in Slots
           /\ \A p \in net : IsKeyxRep(p) => p.msg.answers \in CKeys
<1>1. cl \in ClientConn /\ made \in CKeys /\ cl.key[cl.curr] # None
  BY DEF IInv, ClientInv, ClientOK
<1>2. \A c \in Slots : cl.key[c] \in CKeys \union {None}
  BY <1>1 DEF ClientConn, OwnSlots
<1>3. \A i \in Conn : Used(i) => inb[i] \in ServerConn
  BY DEF IInv, ServerInv, ServerOK
<1>4. \A i \in Conn : Used(i) =>
        inb[i].hs \in CKeys /\ \A c \in Slots : inb[i].rkey[c] \in CKeys \union {None}
  BY <1>3 DEF ServerConn, OwnSlots
<1>5. \A p \in net : p.to = "srv" => p.pub \in CKeys
  BY InNet DEF IInv, ToServer
<1>6. \A p \in net : IsKeyxReq(p) => p.msg.key \in CKeys /\ p.msg.idx \in Slots
  BY InNet DEF IInv, ToServer, IsKeyxReq
<1>7. \A p \in net : IsKeyxRep(p) => p.msg.answers \in CKeys
  BY InNet DEF IInv, ToClient, IsKeyxRep
<1>8. cl.hs \in CKeys /\ cl.curr \in Slots
  BY <1>1 DEF ClientConn
<1>9. \A k \in CKeys : k \in Nat /\ k > 0 /\ k <= MaxKey
  BY Constants DEF CKeys
<1>10. None = -1 /\ Slots = {0, 1}
  BY DEF None, Slots
<1>11. \A c \in Slots : cl.key[c] \in Int /\ (cl.key[c] = None \/ cl.key[c] > 0)
  BY <1>2, <1>9, <1>10
<1>12. \A i \in Conn : Used(i) =>
         \A c \in Slots : inb[i].rkey[c] \in Int /\ (inb[i].rkey[c] = None \/ inb[i].rkey[c] > 0)
  BY <1>4, <1>9, <1>10
<1> QED BY <1>1, <1>3, <1>4, <1>5, <1>6, <1>7, <1>8, <1>9, <1>10, <1>11, <1>12

LEMMA KeyInit == Init => KeyInv
<1> SUFFICES ASSUME Init PROVE KeyInv
  OBVIOUS
<1>1. IInv
  BY InitOK
<1> DEFINE own == [NoKeys EXCEPT ![0] = 1]
<1>2. /\ cl.open = FALSE /\ cl.key = own /\ cl.curr = 0 /\ cl.next = InvIdx /\ cl.hs = 1
      /\ made = 1 /\ app = [at |-> "idle"] /\ rx = None /\ born = {}
      /\ sock.key = own /\ sock.curr = 0
  BY DEF Init, Opening
<1>3. own[0] = 1 /\ own[1] = None /\ None = -1 /\ InvIdx = 255
  BY DEF NoKeys, Slots, None, InvIdx
<1>4. \A i \in Conn : ~Used(i)
  BY DEF Init, Used, Free
<1> DEFINE p == InitReq(1, 0, 1)
<1>5. p.to = "srv" /\ p.pub = 1 /\ p.c = 0 /\ p.msg.type = "INIT_REQ" /\ p.s \notin Slots /\ net = {p}
  BY DEF InitReq, Init, PermaIdx, Slots
<1> HIDE DEF own, p
<1>6. SockInv
  BY <1>2, <1>3 DEF SockInv
<1>7. OwnKeys
  BY <1>2, <1>3 DEF OwnKeys, Slots
<1>8. PacketKeys(p)
  BY <1>2, <1>3, <1>5 DEF PacketKeys, Placed, IsRequest, IsOpenReq, IsKeyxReq, IsKeyxRep, Slots
<1> QED BY <1>2, <1>4, <1>5, <1>6, <1>7, <1>8 DEF KeyInv

\* A step of the client that makes no key
LEMMA ClientKeys ==
    ASSUME IInv, IInv', KeyInv, OwnKeys',
           cl'.key = cl.key, cl'.hs = cl.hs, UNCHANGED <<made, sock, inb, born>>,
           cl.open => cl'.open,
           cl'.open => \E b \in born : b[1] = cl.hs,
           \A s \in Slots : cl.rkey[s] # None => cl'.rkey[s] # None,
           rx' # None => rx' = rx \/ (cl.open /\ rx' <= made),
           app'.at = "pack" => Announced(app'.msg),
           \A q \in net' :
             \/ q \in net
             \/ /\ q.to = "srv" /\ q.pub = cl.key[cl.curr] /\ q.c = cl.curr
                /\ q.s \in Slots /\ cl'.rkey[q.s] # None
                /\ IsRequest(q) => cl.open
                /\ IsOpenReq(q) => ~cl.open
                /\ IsKeyxReq(q) => Announced(q.msg)
    PROVE  KeyInv'
<1>1. \A k, c : Placed(k, c) => Placed(k, c)'
  BY DEF Placed
<1>2. \A msg : Announced(msg) => Announced(msg)'
  BY DEF Announced, Placed
<1>3. SockInv'
  BY DEF KeyInv, SockInv
<1>4. app'.at = "pack" => Announced(app.msg)'
  BY DEF Announced, Placed
<1>5. rx' # None => cl'.open /\ rx' <= made'
  BY DEF KeyInv
<1>6. ASSUME NEW q \in net', q \in net PROVE PacketKeys(q)'
  <2>1. PacketKeys(q)
    BY <1>6 DEF KeyInv
  <2>2. q.to = "srv" /\ q.msg.type # "INIT_REQ" => q.s \in Slots
    BY <1>6, InNet DEF IInv, ToServer
  <2> QED BY <1>1, <1>2, <2>1, <2>2 DEF PacketKeys
<1>7. ASSUME NEW q \in net', q \notin net PROVE PacketKeys(q)'
  <2>1. OwnKeys
    BY DEF KeyInv
  <2>2. Placed(q.pub, q.c)
    BY <1>7, <2>1, KeyTypes DEF OwnKeys, Placed
  <2>3. cl.hs <= q.pub /\ (~cl.open => q.pub <= cl.hs)
    BY <1>7, <2>1, KeyTypes DEF OwnKeys
  <2> QED BY <1>1, <1>2, <1>7, <2>2, <2>3 DEF PacketKeys, IsKeyxRep, IsRequest, IsOpenReq, IsKeyxReq
<1>8. ASSUME NEW i \in Conn, Used(i)' PROVE ConnKeys(inb[i])'
  <2>1. Used(i) /\ ConnKeys(inb[i]) /\ inb'[i] = inb[i]
    BY <1>8 DEF KeyInv, Used
  <2>2. inb[i].curr \in Slots
    BY <2>1, KeyTypes DEF ServerConn
  <2> QED BY <1>1, <2>1, <2>2 DEF ConnKeys
<1>9. \A i, j \in Conn :
        Used(i)' /\ Used(j)' /\ inb'[i].hs = inb'[j].hs /\ ~inb'[i].again /\ ~inb'[j].again => i = j
  BY DEF KeyInv, Used
<1> QED BY <1>3, <1>4, <1>5, <1>6, <1>7, <1>8, <1>9 DEF KeyInv
-----------------------------------------------------------------------------
(* The invariant of the keys: the steps of the client *)

\* A step of the client that makes no key and moves to none.
ClientMoves ==
    /\ cl'.key = cl.key /\ cl'.hs = cl.hs /\ cl'.curr = cl.curr /\ cl'.next = cl.next
    /\ UNCHANGED <<made, sock, inb, born, mixed>>
    /\ cl.open => cl'.open
    /\ cl'.open => \E b \in born : b[1] = cl.hs
    /\ \A s \in Slots :
         \/ cl'.rkey[s] = cl.rkey[s]
         \/ \E p \in net : /\ p.to = "cli" /\ p.msg.type # "OPEN_REP"
                           /\ p.msg.idx = s /\ p.msg.key = cl'.rkey[s]
    /\ SharedFrom(cl', cl)
    /\ rx' \in {rx, None} \/ (cl.open /\ \E p \in net : IsKeyxRep(p) /\ p.msg.answers = rx')
    /\ app'.at = "pack" => Announced(app'.msg)
    /\ \A q \in net' :
         \/ q \in net
         \/ /\ q.to = "srv" /\ q.pub = cl.key[cl.curr] /\ q.c = cl.curr
            /\ q.s \in Slots /\ cl'.rkey[q.s] # None
            /\ IsRequest(q) => cl.open
            /\ IsOpenReq(q) => ~cl.open
            /\ IsKeyxReq(q) => Announced(q.msg)
    /\ \/ \* nothing is announced that was not
          /\ app'.at = "pack" => app.at = "pack" /\ app'.msg = app.msg
          /\ \A q \in net' : q \in net \/ (IsKeyxReq(q) => app.at = "pack" /\ q.msg = app.msg)
       \/ \* or the shared keys of the slot have been voided
          \A s \in Slots, c \in Slots :
            c = cl.next => cl'.shkey[s][c] \in {NoPair, <<cl'.rkey[s], cl.key[c]>>}

LEMMA SharedTyped ==
    ASSUME NEW conn \in ClientConn, NEW s \in Slots, NEW c \in Slots, NEW a, NEW b,
           conn.shkey[s][c] = <<a, b>>
    PROVE  <<a, b>> = NoPair \/ a # None
<1>1. conn.shkey[s][c] \in (SKeys \X CKeys) \union {NoPair}
  BY DEF ClientConn, Shared
<1> QED BY <1>1, NoneFacts

LEMMA NextKey ==
    ASSUME IInv
    PROVE  \A c \in Slots : c = cl.next => cl.key[c] # None
BY NoneFacts DEF IInv, ClientInv, ClientOK

LEMMA ClientMovesOK ==
    ASSUME IInv, IInv', LInv, ClientMoves
    PROVE  LInv'
<1>1. KeyInv'
  <2>1. OwnKeys'
    BY DEF ClientMoves, LInv, KeyInv, OwnKeys
  <2>2. ASSUME NEW s \in Slots, cl.rkey[s] # None PROVE cl'.rkey[s] # None
    <3>1. CASE cl'.rkey[s] = cl.rkey[s]
      BY <2>2, <3>1
    <3>2. CASE cl'.rkey[s] # cl.rkey[s]
      <4>1. PICK p \in net : p.to = "cli" /\ p.msg.type # "OPEN_REP" /\ p.msg.key = cl'.rkey[s]
        BY <3>2 DEF ClientMoves
      <4>2. p.msg.key \in SKeys
        BY <4>1, InNet DEF IInv, ToClient
      <4> QED BY <4>1, <4>2, NoneFacts
    <3> QED BY <3>1, <3>2
  <2>3. rx' # None => rx' = rx \/ (cl.open /\ rx' <= made)
    <3>1. \A p \in net : IsKeyxRep(p) => p.msg.answers <= made
      BY DEF LInv, KeyInv, PacketKeys
    <3> QED BY <3>1 DEF ClientMoves
  <2>4. UNCHANGED <<made, sock, inb, born>> /\ cl'.key = cl.key /\ cl'.hs = cl.hs
    BY DEF ClientMoves
  <2>5. \A q \in net' :
          \/ q \in net
          \/ /\ q.to = "srv" /\ q.pub = cl.key[cl.curr] /\ q.c = cl.curr
             /\ q.s \in Slots /\ cl'.rkey[q.s] # None
             /\ IsRequest(q) => cl.open
             /\ IsOpenReq(q) => ~cl.open
             /\ IsKeyxReq(q) => Announced(q.msg)
    BY DEF ClientMoves
  <2>6. /\ cl.open => cl'.open
        /\ cl'.open => \E b \in born : b[1] = cl.hs
        /\ app'.at = "pack" => Announced(app'.msg)
    BY DEF ClientMoves
  <2>7. KeyInv
    BY DEF LInv
  <2> QED BY <2>1, <2>2, <2>3, <2>4, <2>5, <2>6, <2>7, ClientKeys
<1>2. Replaced' = Replaced /\ mixed' = mixed /\ sock' = sock /\ inb' = inb
  BY DEF ClientMoves, Replaced
<1>3. ASSUME ~Replaced PROVE SocketKeys'
  <2>1. SocketKeys
    BY <1>3 DEF LInv
  <2>2. \A s \in Slots : cl'.rkey[s] \in {None, sock.key[s]}
    BY <2>1 DEF ClientMoves, SocketKeys
  <2>3. \A q \in net' : q.to = "cli" => q \in net
    BY DEF ClientMoves
  <2>4. \A i \in Conn : Used(i)' => FreshConn(inb[i])'
    BY <1>2, <2>1 DEF SocketKeys, FreshConn, Fresh, Used
  <2> QED BY <1>2, <2>1, <2>2, <2>3, <2>4 DEF SocketKeys
<1>4. ASSUME ~Replaced, ~mixed PROVE OwnShared'
  <2>1. OwnShared
    BY <1>4 DEF LInv
  <2> SUFFICES ASSUME NEW s \in Slots, NEW c \in Slots
               PROVE  \/ Fresh(cl'.shkey[s][c], s, cl.key[c])
                      \/ c = cl.next /\ Unannounced(cl.key[c])'
    BY <1>2 DEF OwnShared, Fresh, ClientMoves, Unannounced
  <2>2. CASE cl'.shkey[s][c] \in {NoPair, <<cl'.rkey[s], cl.key[c]>>}
    <3>1. cl'.shkey[s][c] = NoPair \/ cl'.rkey[s] # None
      <4>1. cl' \in ClientConn
        BY DEF IInv, ClientInv, ClientOK
      <4> QED BY <2>2, <4>1, SharedTyped
    <3>2. cl'.rkey[s] \in {None, sock.key[s]}
      BY <1>2, <1>3, <1>4 DEF SocketKeys
    <3> QED BY <2>2, <3>1, <3>2 DEF Fresh
  <2>3. CASE cl'.shkey[s][c] = cl.shkey[s][c] /\ Fresh(cl.shkey[s][c], s, cl.key[c])
    BY <2>3
  <2>4. CASE /\ c = cl.next /\ Unannounced(cl.key[c])
             /\ cl'.shkey[s][c] \notin {NoPair, <<cl'.rkey[s], cl.key[c]>>}
    <3>1. /\ app'.at = "pack" => app.at = "pack" /\ app'.msg = app.msg
          /\ \A q \in net' : q \in net \/ (IsKeyxReq(q) => app.at = "pack" /\ q.msg = app.msg)
      BY <2>4 DEF ClientMoves
    <3>2. cl.key[c] # None
      BY <2>4, NextKey
    <3>3. rx' # cl.key[c]
      BY <2>4, <3>2 DEF ClientMoves, Unannounced
    <3>4. ASSUME NEW q \in net'
          PROVE  /\ IsKeyxReq(q) => q.msg.key # cl.key[c]
                 /\ IsKeyxRep(q) => q.msg.answers # cl.key[c]
      <4>1. q \in net \/ q.to = "srv"
        BY DEF ClientMoves
      <4> QED BY <2>4, <3>1, <4>1 DEF Unannounced, IsKeyxRep
    <3>5. app'.at = "pack" => app'.msg.key # cl.key[c]
      BY <2>4, <3>1 DEF Unannounced
    <3>6. cl'.key = cl.key
      BY DEF ClientMoves
    <3> QED BY <2>4, <3>3, <3>4, <3>5, <3>6 DEF Unannounced
  <2> QED BY <2>1, <2>2, <2>3, <2>4 DEF OwnShared, ClientMoves, SharedFrom
<1>5. ASSUME ~mixed PROVE PeerKeys'
  <2>1. PeerKeys
    BY <1>5 DEF LInv
  <2>2. Peers' = Peers /\ cl'.key = cl.key /\ cl'.curr = cl.curr
    BY <1>2 DEF Peers, Used, ClientMoves
  <2>3. ASSUME NEW k, k # None, rx' = k \/ \E q \in net' : IsKeyxRep(q) /\ q.msg.answers = k
        PROVE  Answered(k)
    <3>1. \A q \in net' : IsKeyxRep(q) => q \in net
      BY DEF ClientMoves, IsKeyxRep
    <3>2. rx' = k => rx = k \/ \E p \in net : IsKeyxRep(p) /\ p.msg.answers = k
      BY <2>3 DEF ClientMoves
    <3> QED BY <2>3, <3>1, <3>2 DEF Answered
  <2>4. \A d \in Slots : Answered(cl.key[d])' /\ cl.key[d] # None => Answered(cl.key[d])
    <3>1. \A d \in Slots : Answered(cl.key[d])' => rx' = cl.key[d] \/ \E q \in net' : IsKeyxRep(q) /\ q.msg.answers = cl.key[d]
      BY <2>2 DEF Answered
    <3> QED BY <2>3, <3>1
  <2> QED BY <1>2, <2>1, <2>2, <2>4 DEF PeerKeys
<1> QED BY <1>1, <1>2, <1>3, <1>4, <1>5 DEF LInv
-----------------------------------------------------------------------------
\* The connection a request is sent with: perhaps with a key of the server's more, perhaps
\* with shared keys less.
FromClient(conn) ==
    /\ ClientOK(conn) /\ conn.rcurr # InvIdx /\ SameKeys(conn, cl)
    /\ \A s \in Slots :
         \/ conn.rkey[s] = cl.rkey[s]
         \/ \E p \in net : /\ p.to = "cli" /\ p.msg.type # "OPEN_REP"
                           /\ p.msg.idx = s /\ p.msg.key = conn.rkey[s]
    /\ \A s \in Slots, c \in Slots : conn.shkey[s][c] \in {cl.shkey[s][c], NoPair}
MayAnnounce(conn, msg) ==
    \/ msg.type # "KEYX_REQ" \/ (app.at = "pack" /\ msg = app.msg)
    \/ \A s \in Slots, c \in Slots : c = cl.next => c # cl.curr /\ conn.shkey[s][c] = NoPair

LEMMA SendMoves ==
    ASSUME IInv, KeyInv, NEW conn, FromClient(conn),
           NEW cookie, NEW msg, ClientSends(conn, cookie, msg),
           MayAnnounce(conn, msg),
           msg.type = "OPEN_REQ" <=> ~cl.open,
           msg.type = "KEYX_REQ" => Announced(msg),
           app' = app \/ app'.at = "idle",
           UNCHANGED <<made, sock, inb, born, mixed, rx>>
    PROVE  ClientMoves
<1>1. ClientOK(conn) /\ conn.rcurr # InvIdx /\ SameKeys(conn, cl)
  BY DEF FromClient
<1>2. /\ SameKeys(cl', conn) /\ cl'.rkey = conn.rkey /\ SharedFrom(cl', conn)
      /\ \A s \in Slots, c \in Slots :
           c # conn.curr => cl'.shkey[s][c] = conn.shkey[s][c]
  BY <1>1, SendsFields
<1>3. PICK p : /\ net' = net \union {p}
               /\ p.to = "srv" /\ p.msg = msg /\ p.pub = conn.key[conn.curr]
               /\ p.c = conn.curr /\ p.s \in Slots /\ conn.rkey[p.s] # None
  BY <1>1, SendsFields
<1>4. /\ cl'.key = cl.key /\ cl'.hs = cl.hs /\ cl'.curr = cl.curr /\ cl'.next = cl.next
      /\ cl'.open = cl.open /\ conn.key = cl.key /\ conn.curr = cl.curr
  BY <1>1, <1>2 DEF SameKeys
<1>5. cl.open => \E b \in born : b[1] = cl.hs
  BY DEF KeyInv
<1>6. \A s \in Slots :
         \/ cl'.rkey[s] = cl.rkey[s]
         \/ \E q \in net : /\ q.to = "cli" /\ q.msg.type # "OPEN_REP"
                           /\ q.msg.idx = s /\ q.msg.key = cl'.rkey[s]
  BY <1>2 DEF FromClient
<1>7. SharedFrom(cl', cl)
  BY <1>2, <1>4 DEF SharedFrom, FromClient
<1>8. app'.at = "pack" => app' = app /\ Announced(app'.msg)
  BY DEF KeyInv
<1>9. /\ p.to = "srv" /\ p.pub = cl.key[cl.curr] /\ p.c = cl.curr
      /\ p.s \in Slots /\ cl'.rkey[p.s] # None
      /\ IsRequest(p) => cl.open
      /\ IsOpenReq(p) => ~cl.open
      /\ IsKeyxReq(p) => Announced(p.msg)
  BY <1>2, <1>3, <1>4 DEF IsRequest, IsOpenReq, IsKeyxReq
<1>10. \/ /\ app'.at = "pack" => app.at = "pack" /\ app'.msg = app.msg
          /\ \A q \in net' : q \in net \/ (IsKeyxReq(q) => app.at = "pack" /\ q.msg = app.msg)
       \/ \A s \in Slots, c \in Slots :
            c = cl.next => cl'.shkey[s][c] \in {NoPair, <<cl'.rkey[s], cl.key[c]>>}
  <2>1. CASE msg.type # "KEYX_REQ" \/ (app.at = "pack" /\ msg = app.msg)
    BY <1>3, <1>8, <2>1 DEF IsKeyxReq
  <2>2. CASE \A s \in Slots, c \in Slots : c = cl.next => c # cl.curr /\ conn.shkey[s][c] = NoPair
    BY <1>2, <1>4, <2>2
  <2> QED BY <2>1, <2>2 DEF MayAnnounce
<1> QED BY <1>3, <1>4, <1>5, <1>6, <1>7, <1>8, <1>9, <1>10 DEF ClientMoves

LEMMA ClientFacts ==
    ASSUME IInv, KeyInv
    PROVE  /\ ClientOK(cl) /\ cl \in ClientConn
           /\ cl.next # InvIdx => /\ cl.next \in Slots /\ cl.next # cl.curr /\ cl.open
                                  /\ Announced(KeyxReq(cl, cl.next))
           /\ cl.open => cl.rcurr # InvIdx
           /\ FromClient(cl) \/ cl.rcurr = InvIdx
<1>1. ClientOK(cl) /\ cl \in ClientConn /\ (cl.open => cl.rcurr # InvIdx)
  BY DEF IInv, ClientInv, ClientOK
<1>2. ASSUME cl.next # InvIdx
      PROVE  /\ cl.next \in Slots /\ cl.next # cl.curr /\ cl.open
             /\ Announced(KeyxReq(cl, cl.next))
  <2>1. cl.next \in Slots /\ cl.open /\ cl.key[cl.next] # None
    BY <1>1, <1>2 DEF ClientOK, ClientConn
  <2>2. OwnKeys
    BY DEF KeyInv
  <2> DEFINE msg == KeyxReq(cl, cl.next)
  <2>3. msg.idx = cl.next /\ msg.key = cl.key[cl.next]
    BY DEF KeyxReq
  <2> HIDE DEF msg
  <2>4. Placed(msg.key, msg.idx)
    BY <2>1, <2>2, <2>3, KeyTypes DEF OwnKeys, Placed
  <2>5. msg.key <= cl.key[msg.idx] /\ cl.hs <= msg.key
    BY <2>1, <2>2, <2>3, KeyTypes DEF OwnKeys
  <2> QED BY <2>1, <2>2, <2>4, <2>5 DEF Announced, OwnKeys, msg
<1>3. FromClient(cl) \/ cl.rcurr = InvIdx
  BY <1>1 DEF FromClient, SameKeys
<1> QED BY <1>1, <1>2, <1>3

LEMMA SendDataMoves == ASSUME IInv, KeyInv, SendData PROVE ClientMoves
<1> DEFINE msg == [type |-> "DATA"]
<1>1. /\ cl.open /\ ClientSends(cl, NoCookie, msg)
      /\ UNCHANGED <<made, app, rx, timer, sock, inb, born, mixed>>
  BY DEF SendData
<1>2. msg.type = "DATA"
  OBVIOUS
<1>3. FromClient(cl)
  BY <1>1, ClientFacts
<1> HIDE DEF msg
<1>4. MayAnnounce(cl, msg)
  BY <1>2 DEF MayAnnounce
<1> QED BY <1>1, <1>2, <1>3, <1>4, SendMoves

LEMMA SendKeyxReqMoves == ASSUME IInv, KeyInv, SendKeyxReq PROVE ClientMoves
<1>1. /\ app.at = "pack" /\ ClientSends(cl, NoCookie, app.msg) /\ app' = [at |-> "idle"]
      /\ UNCHANGED <<made, rx, sock, inb, born, mixed>>
  BY DEF SendKeyxReq
<1>2. cl.open /\ app.msg.type = "KEYX_REQ"
  BY <1>1 DEF IInv, ClientInv
<1>3. FromClient(cl)
  BY <1>2, ClientFacts
<1>4. MayAnnounce(cl, app.msg) /\ app'.at = "idle" /\ Announced(app.msg)
  BY <1>1 DEF MayAnnounce, KeyInv
<1> QED BY <1>1, <1>2, <1>3, <1>4, SendMoves

LEMMA RetryKeyxMoves == ASSUME IInv, KeyInv, RetryKeyx PROVE ClientMoves
<1>1. /\ cl.open /\ UNCHANGED <<made, app, rx, sock, inb, born, mixed>>
  BY DEF RetryKeyx
<1>2. CASE cl.next = InvIdx
  <2>1. UNCHANGED <<cl, net>>
    BY <1>2 DEF RetryKeyx
  <2> QED BY <1>1, <2>1 DEF ClientMoves, SharedFrom, KeyInv
<1>3. CASE cl.next # InvIdx
  <2> DEFINE conn == ClientGetPub(cl, cl.next)
             msg == KeyxReq(cl, cl.next)
  <2>1. ClientSends(conn, NoCookie, msg)
    BY <1>3 DEF RetryKeyx
  <2>2. /\ cl.next \in Slots /\ cl.next # cl.curr /\ ClientOK(cl) /\ cl \in ClientConn
        /\ cl.rcurr # InvIdx /\ Announced(msg)
    BY <1>1, <1>3, ClientFacts
  <2>3. msg.type = "KEYX_REQ"
    BY DEF KeyxReq
  <2>4. ClientOK(conn)
    BY <2>2, ClientGetPubOK
  <2>5. /\ SameKeys(conn, cl) /\ conn.rkey = cl.rkey /\ conn.rcurr = cl.rcurr
        /\ \A s \in Slots, c \in Slots :
             conn.shkey[s][c] = IF c = cl.next THEN NoPair ELSE cl.shkey[s][c]
    BY <2>2, GetPubFields
  <2> HIDE DEF conn, msg
  <2>6. FromClient(conn)
    BY <2>2, <2>4, <2>5 DEF FromClient
  <2>7. MayAnnounce(conn, msg)
    BY <2>2, <2>5 DEF MayAnnounce
  <2> QED BY <1>1, <2>1, <2>2, <2>3, <2>6, <2>7, SendMoves
<1> QED BY <1>2, <1>3

LEMMA AnnounceMoves == ASSUME IInv, KeyInv, Announce PROVE ClientMoves
<1>1. app.at = "announce" /\ UNCHANGED <<made, rx, timer, sock, inb, born, mixed, net>>
  BY DEF Announce
<1>2. cl.open => \E b \in born : b[1] = cl.hs
  BY DEF KeyInv
<1>3. CASE cl.next = InvIdx
  <2>1. app' = [at |-> "idle"] /\ UNCHANGED cl
    BY <1>3 DEF Announce
  <2> QED BY <1>1, <1>2, <2>1 DEF ClientMoves, SharedFrom
<1>4. CASE cl.next # InvIdx
  <2> DEFINE conn == ClientGetPub(cl, cl.next)
             msg == KeyxReq(cl, cl.next)
  <2>1. app' = [at |-> "pack", msg |-> msg] /\ cl' = conn
    BY <1>4 DEF Announce
  <2>2. cl.next \in Slots /\ cl.next # cl.curr /\ cl \in ClientConn /\ Announced(msg)
    BY <1>4, ClientFacts
  <2>3. /\ SameKeys(conn, cl) /\ conn.rkey = cl.rkey
        /\ \A s \in Slots, c \in Slots :
             conn.shkey[s][c] = IF c = cl.next THEN NoPair ELSE cl.shkey[s][c]
    BY <2>2, GetPubFields
  <2> HIDE DEF conn, msg
  <2> QED BY <1>1, <1>2, <2>1, <2>2, <2>3 DEF ClientMoves, SharedFrom, SameKeys
<1> QED BY <1>3, <1>4

LEMMA HandleInitRepMoves ==
    ASSUME IInv, KeyInv, NEW p \in net, p.to = "cli", HandleInitRep(p)
    PROVE  ClientMoves
<1>1. ToClient(p, sock.gen) /\ p.msg.type = "INIT_REP"
  BY InNet DEF HandleInitRep, IInv
<1>2. p.msg.idx \in Slots /\ p.msg.key \in SKeys
  BY <1>1 DEF ToClient
<1> DEFINE conn == ClientSetPub(cl, p.msg.idx, p.msg.key)
           msg == [type |-> "OPEN_REQ"]
<1>3. /\ ~cl.open /\ ClientSends(conn, p.msg.cookie, msg)
      /\ UNCHANGED <<made, app, rx, timer, sock, inb, born, mixed>>
  BY DEF HandleInitRep, Handshaking
<1>4. ClientOK(cl) /\ cl \in ClientConn
  BY ClientFacts
<1>5. ClientOK(conn) /\ conn.rcurr # InvIdx
  BY <1>2, <1>4, ClientSetPubOK
<1>6. /\ SameKeys(conn, cl)
      /\ conn.rkey = [cl.rkey EXCEPT ![p.msg.idx] = p.msg.key]
      /\ \A s \in Slots, c \in Slots : conn.shkey[s][c] \in {cl.shkey[s][c], NoPair}
  BY <1>2, <1>4, SetPubFields
<1>7. msg.type = "OPEN_REQ"
  OBVIOUS
<1> HIDE DEF conn, msg
<1>8. FromClient(conn)
  BY <1>1, <1>2, <1>4, <1>5, <1>6 DEF FromClient, ClientConn, ServerSlots
<1>9. MayAnnounce(conn, msg)
  BY <1>7 DEF MayAnnounce
<1> QED BY <1>3, <1>7, <1>8, <1>9, SendMoves

LEMMA TimedOutMoves == ASSUME IInv, KeyInv, TimedOut PROVE ClientMoves
BY DEF TimedOut, ClientMoves, SharedFrom, KeyInv

LEMMA HandleOpenRepMoves ==
    ASSUME IInv, KeyInv, NEW p \in net, p.to = "cli", HandleOpenRep(p)
    PROVE  ClientMoves
<1>1. ToClient(p, sock.gen)
  BY InNet DEF IInv
<1>2. p.shared # NoPair /\ p.nonce \in Nat
  BY <1>1 DEF ToClient
<1> DEFINE met == ClientMeets(p)
<1>3. /\ ~cl.open /\ cl' = [met EXCEPT !.open = TRUE, !.win = Opened(p.nonce)]
      /\ p.msg.type = "OPEN_REP" /\ ClientReads(p)
      /\ UNCHANGED <<made, app, rx, sock, inb, born, mixed, net>>
  BY DEF HandleOpenRep, Handshaking
<1>4. met \in ClientConn /\ SameKeys(met, cl) /\ met.rkey = cl.rkey /\ SharedFrom(met, cl)
  BY <1>2, <1>3, ClientFacts, MeetsFields
<1> HIDE DEF met
<1>5. /\ cl'.key = cl.key /\ cl'.hs = cl.hs /\ cl'.curr = cl.curr /\ cl'.next = cl.next
      /\ cl'.open /\ cl'.rkey = cl.rkey /\ cl'.shkey = met.shkey
  BY <1>3, <1>4 DEF SameKeys, ClientConn
<1>6. \E b \in born : b[1] = cl.hs
  <2>1. PICK c \in Slots : cl.key[c] = p.pub /\ p.pub # None
    BY <1>3 DEF ClientReads, ClientFinds
  <2>2. p.pub = cl.hs
    BY <1>3, <2>1 DEF KeyInv, OwnKeys
  <2>3. \E b \in born : b[1] = p.pub
    BY <1>3 DEF KeyInv, PacketKeys
  <2> QED BY <2>2, <2>3
<1>7. SharedFrom(cl', cl)
  BY <1>4, <1>5 DEF SharedFrom, SameKeys
<1>8. app'.at = "pack" => Announced(app'.msg) /\ app.at = "pack" /\ app'.msg = app.msg
  BY <1>3 DEF KeyInv
<1> QED BY <1>3, <1>5, <1>6, <1>7, <1>8 DEF ClientMoves

LEMMA HandleKeyxRepMoves ==
    ASSUME IInv, KeyInv, NEW p \in net, p.to = "cli", HandleKeyxRep(p)
    PROVE  ClientMoves
<1>1. ToClient(p, sock.gen) /\ p.msg.type = "KEYX_REP"
  BY InNet DEF IInv, HandleKeyxRep
<1>2. p.shared # NoPair /\ p.nonce \in Nat /\ p.msg.idx \in Slots /\ p.msg.key \in SKeys
  BY <1>1 DEF ToClient
<1> DEFINE met == ClientMeets(p)
           seen == [met EXCEPT !.win = After(@, p.nonce)]
           conn == ClientSetPub(seen, p.msg.idx, p.msg.key)
<1>3. /\ cl.open /\ cl' = conn /\ rx' = p.msg.answers /\ ClientReads(p)
      /\ UNCHANGED <<made, app, sock, inb, born, mixed, net>>
  BY DEF HandleKeyxRep
<1>4. met \in ClientConn /\ SameKeys(met, cl) /\ met.rkey = cl.rkey /\ SharedFrom(met, cl)
  BY <1>2, <1>3, ClientFacts, MeetsFields
<1> HIDE DEF met
<1>5. /\ seen \in ClientConn /\ SameKeys(seen, cl) /\ seen.rkey = cl.rkey /\ SharedFrom(seen, cl)
  <2>1. After(met.win, p.nonce) \in Window
    BY <1>2, <1>4, WindowTypes DEF ClientConn
  <2>2. /\ seen \in ClientConn /\ seen.key = met.key /\ seen.curr = met.curr /\ seen.next = met.next
        /\ seen.hs = met.hs /\ seen.open = met.open /\ seen.rkey = met.rkey /\ seen.shkey = met.shkey
    BY <1>4, <2>1 DEF ClientConn
  <2> HIDE DEF seen
  <2> QED BY <1>4, <2>2 DEF SameKeys, SharedFrom
<1> HIDE DEF seen
<1>6. /\ conn \in ClientConn /\ SameKeys(conn, seen)
      /\ conn.rkey = [seen.rkey EXCEPT ![p.msg.idx] = p.msg.key]
      /\ \A s \in Slots, c \in Slots :
           /\ conn.shkey[s][c] \in {seen.shkey[s][c], NoPair}
           /\ conn.rkey[s] # seen.rkey[s] => conn.shkey[s][c] = NoPair
  BY <1>2, <1>5, SetPubFields
<1> HIDE DEF conn
<1>7. /\ cl'.key = cl.key /\ cl'.hs = cl.hs /\ cl'.curr = cl.curr /\ cl'.next = cl.next
      /\ cl'.open = cl.open
  BY <1>3, <1>5, <1>6 DEF SameKeys
<1>8. SharedFrom(cl', cl)
  <2> SUFFICES ASSUME NEW s \in Slots, NEW c \in Slots
               PROVE  conn.shkey[s][c] \in {cl.shkey[s][c], NoPair, <<conn.rkey[s], conn.key[c]>>}
    BY <1>3 DEF SharedFrom
  <2>1. seen.shkey[s][c] \in {cl.shkey[s][c], NoPair, <<seen.rkey[s], seen.key[c]>>} /\ conn.key = seen.key
    BY <1>5, <1>6 DEF SharedFrom, SameKeys
  <2> QED BY <1>6, <2>1
<1>9. \A s \in Slots :
         \/ cl'.rkey[s] = cl.rkey[s]
         \/ \E q \in net : /\ q.to = "cli" /\ q.msg.type # "OPEN_REP"
                           /\ q.msg.idx = s /\ q.msg.key = cl'.rkey[s]
  BY <1>1, <1>2, <1>3, <1>5, <1>6 DEF ClientConn, ServerSlots
<1>10. \E q \in net : IsKeyxRep(q) /\ q.msg.answers = rx'
  BY <1>1, <1>3 DEF IsKeyxRep
<1>11. app'.at = "pack" => Announced(app'.msg) /\ app.at = "pack" /\ app'.msg = app.msg
  BY <1>3 DEF KeyInv
<1>12. \E b \in born : b[1] = cl.hs
  BY <1>3 DEF KeyInv
<1> QED BY <1>3, <1>7, <1>8, <1>9, <1>10, <1>11, <1>12 DEF ClientMoves

LEMMA SetCurrKeys == ASSUME IInv, IInv', LInv, SetCurr PROVE LInv'
<1>0. KeyInv
  BY DEF LInv
<1>1. rx # None /\ rx' = None /\ UNCHANGED <<made, app, timer, sock, inb, born, net>>
  BY DEF SetCurr
<1>2. CASE cl.next = InvIdx
  <2>1. UNCHANGED <<cl, mixed>>
    BY <1>2 DEF SetCurr
  <2>2. ClientMoves
    BY <1>0, <1>1, <2>1 DEF ClientMoves, SharedFrom, KeyInv
  <2> QED BY <2>2, ClientMovesOK
<1>3. CASE cl.next # InvIdx
  <2>1. /\ cl \in ClientConn /\ cl.next \in Slots /\ cl.open /\ cl.next # cl.curr
        /\ cl.key[cl.next] # None
    BY <1>0, <1>3, ClientFacts, NextKey
  <2>2. mixed' = (mixed \/ rx # cl.key[cl.next])
    BY <1>3 DEF SetCurr
  <2>3. /\ cl'.key = cl.key /\ cl'.hs = cl.hs /\ cl'.open = cl.open /\ cl'.rkey = cl.rkey
        /\ cl'.shkey = cl.shkey /\ cl'.curr = cl.next /\ cl'.next = InvIdx
    BY <1>3, <2>1 DEF SetCurr, ClientConn
  <2>4. KeyInv'
    <3>1. OwnKeys'
      BY <1>0, <1>1, <2>1, <2>3, NoneFacts DEF KeyInv, OwnKeys
    <3>2. app'.at = "pack" => Announced(app'.msg)
      BY <1>0, <1>1 DEF KeyInv
    <3>3. \E b \in born : b[1] = cl.hs
      BY <1>0, <2>1 DEF KeyInv
    <3> QED BY <1>0, <1>1, <2>1, <2>3, <3>1, <3>2, <3>3, ClientKeys
  <2>5. Replaced' = Replaced /\ Peers' = Peers
    BY <1>1, <2>3 DEF Replaced, Peers, Used
  <2>6. SocketKeys => SocketKeys'
    BY <1>1, <2>3 DEF SocketKeys, FreshConn, Fresh, Used
  <2>7. ASSUME ~Replaced, ~mixed' PROVE OwnShared'
    <3>1. rx = cl.key[cl.next] /\ OwnShared
      BY <2>2, <2>7 DEF LInv
    <3>2. ~Unannounced(cl.key[cl.next])
      BY <3>1 DEF Unannounced
    <3>3. \A s \in Slots, c \in Slots : Fresh(cl.shkey[s][c], s, cl.key[c])
      BY <3>1, <3>2 DEF OwnShared
    <3> QED BY <1>1, <2>3, <3>3 DEF OwnShared, Fresh
  <2>8. ASSUME ~mixed' PROVE PeerKeys'
    <3>1. rx = cl.key[cl.next] /\ PeerKeys
      BY <2>2, <2>8 DEF LInv
    <3>2. \A i \in Peers : inb[i].rkey[cl.next] = cl.key[cl.next]
      BY <2>1, <3>1 DEF PeerKeys, Answered
    <3>3. \A i \in Peers : \A d \in Slots :
            cl.key[d] # None /\ (\E q \in net : IsKeyxRep(q) /\ q.msg.answers = cl.key[d]) =>
              inb[i].rkey[d] = cl.key[d]
      BY <3>1 DEF PeerKeys, Answered
    <3>4. \A d \in Slots : cl.key[d] # None => rx' # cl.key[d]
      BY <1>1
    <3> QED BY <1>1, <2>3, <2>5, <3>2, <3>3, <3>4 DEF PeerKeys, Answered
  <2>9. ~mixed' => ~mixed
    BY <2>2
  <2> QED BY <2>4, <2>5, <2>6, <2>7, <2>8, <2>9 DEF LInv
<1> QED BY <1>2, <1>3

LEMMA NewKeyKeys == ASSUME IInv, IInv', LInv, NewKey PROVE LInv'
<1> USE KeyTypes
<1>0. KeyInv
  BY DEF LInv
<1> DEFINE k == made + 1
<1>1. /\ cl.open /\ made' = k /\ app'.at = "announce"
      /\ UNCHANGED <<rx, timer, sock, inb, born, mixed, net>>
  BY DEF NewKey
<1>2. PICK idx \in Slots : cl \in ClientConn /\ idx # cl.curr /\ idx = Next1(cl.curr)
  BY ClientFacts, <1>0 DEF Next1, Slots
<1>3. /\ cl'.hs = cl.hs /\ cl'.open = cl.open /\ cl'.rkey = cl.rkey /\ cl'.shkey = cl.shkey
      /\ cl'.curr = cl.curr /\ cl'.next = idx /\ cl'.key = [cl.key EXCEPT ![idx] = k]
  BY <1>2 DEF NewKey, ClientConn
<1>4. /\ cl'.key[idx] = k /\ \A c \in Slots : c # idx => cl'.key[c] = cl.key[c]
      /\ k \in Int /\ k > made /\ k > 0
  BY <1>2, <1>3 DEF ClientConn, OwnSlots
<1> HIDE DEF k
<1>5. \A j \in Int : \A c : Placed(j, c) => Placed(j, c)' /\ j < k
  BY <1>1, <1>4 DEF Placed
<1>6. ASSUME NEW msg, msg.key \in CKeys, msg.idx \in Slots, Announced(msg)
      PROVE  Announced(msg)' /\ msg.key < k
  <2>1. msg.key \in Int
    BY <1>6 DEF CKeys
  <2>2. Placed(msg.key, msg.idx)' /\ msg.key < k
    BY <1>5, <1>6, <2>1 DEF Announced
  <2>3. msg.key <= cl'.key[msg.idx]
    BY <1>4, <1>6, <2>1, <2>2 DEF Announced
  <2> QED BY <1>3, <1>6, <2>2, <2>3 DEF Announced
<1>7. KeyInv'
  <2>1. SockInv'
    BY <1>0, <1>1 DEF KeyInv, SockInv
  <2>2. OwnKeys'
    <3>1. OwnKeys
      BY <1>0 DEF KeyInv
    <3>2. cl.hs <= cl.key[cl.curr] /\ cl.key[cl.curr] <= made
      BY <3>1 DEF OwnKeys
    <3> QED BY <1>1, <1>2, <1>3, <1>4, <3>1, <3>2 DEF OwnKeys
  <2>3. ASSUME NEW p \in net PROVE PacketKeys(p)'
    <3>1. PacketKeys(p)
      BY <1>0 DEF KeyInv
    <3>2. IsKeyxReq(p) => Announced(p.msg)'
      BY <1>6, <3>1 DEF PacketKeys
    <3>3. IsKeyxRep(p) => p.msg.answers <= made'
      <4>1. IsKeyxRep(p) => p.msg.answers \in Int /\ p.msg.answers <= made
        BY <3>1 DEF PacketKeys, CKeys
      <4> QED BY <1>1, <1>4, <4>1
    <3>4. p.to = "srv" => Placed(p.pub, p.c)'
      BY <1>5, <3>1 DEF PacketKeys
    <3> QED BY <1>1, <1>3, <3>1, <3>2, <3>3, <3>4 DEF PacketKeys
  <2>4. ASSUME NEW i \in Conn, Used(i)' PROVE ConnKeys(inb[i])'
    <3>1. Used(i) /\ ConnKeys(inb[i])
      BY <1>0, <1>1, <2>4 DEF KeyInv, Used
    <3>2. \A c \in Slots : inb[i].rkey[c] \in Int
      BY <3>1, KeyTypes
    <3>3. ASSUME NEW c \in Slots, inb[i].rkey[c] # None
          PROVE  Placed(inb[i].rkey[c], c)'
      <4>1. PICK j \in Int : j = inb[i].rkey[c]
        BY <3>2
      <4>2. Placed(j, c)'
        BY <1>5, <3>1, <3>3, <4>1 DEF ConnKeys
      <4> QED BY <1>1, <4>1, <4>2 DEF Placed
    <3> QED BY <1>1, <1>3, <3>1, <3>3 DEF ConnKeys
  <2>5. \A i, j \in Conn :
          Used(i)' /\ Used(j)' /\ inb'[i].hs = inb'[j].hs /\ ~inb'[i].again /\ ~inb'[j].again => i = j
    BY <1>0, <1>1 DEF KeyInv, Used
  <2>6. rx' # None => cl'.open /\ rx' <= made'
    <3>1. rx # None => rx \in Int /\ rx <= made
      BY <1>0 DEF KeyInv, IInv, ClientInv, CKeys
    <3> QED BY <1>1, <1>3, <1>4, <3>1
  <2>7. \E b \in born : b[1] = cl.hs
    BY <1>0, <1>1 DEF KeyInv
  <2> QED BY <1>1, <1>3, <2>1, <2>2, <2>3, <2>4, <2>5, <2>6, <2>7 DEF KeyInv
<1>8. Replaced' = Replaced /\ Peers' = Peers
  BY <1>1, <1>3 DEF Replaced, Peers, Used
<1>9. SocketKeys => SocketKeys'
  BY <1>1, <1>3 DEF SocketKeys, FreshConn, Fresh, Used
\* Nobody has heard of the new key.
<1>10. /\ \A p \in net : (IsKeyxReq(p) => p.msg.key # k) /\ (IsKeyxRep(p) => p.msg.answers # k)
       /\ rx # k
  <2>1. ASSUME NEW p \in net, IsKeyxReq(p) PROVE p.msg.key # k
    <3>1. Announced(p.msg) /\ p.msg.key \in CKeys /\ p.msg.idx \in Slots
      BY <1>0, <2>1 DEF KeyInv, PacketKeys
    <3>2. p.msg.key < k /\ p.msg.key \in Int
      BY <1>6, <3>1 DEF CKeys
    <3> QED BY <1>4, <3>2
  <2>2. ASSUME NEW p \in net, IsKeyxRep(p) PROVE p.msg.answers # k
    <3>1. p.msg.answers <= made /\ p.msg.answers \in Int
      BY <1>0, <2>2 DEF KeyInv, PacketKeys, CKeys
    <3> QED BY <1>4, <3>1
  <2>3. rx # k
    BY <1>0, <1>4, NoneFacts DEF KeyInv, IInv, ClientInv, CKeys
  <2> QED BY <2>1, <2>2, <2>3
<1>11. OwnShared => OwnShared'
  <2>1. Unannounced(cl.key[idx])'
    BY <1>1, <1>4, <1>10 DEF Unannounced
  <2>2. ASSUME OwnShared, NEW s \in Slots, NEW c \in Slots, c # idx
        PROVE  Fresh(cl.shkey[s][c], s, cl.key[c])
    <3>1. c = cl.curr
      BY <1>2, <2>2
    <3>2. c # cl.next
      BY <1>0, <3>1 DEF KeyInv, OwnKeys
    <3> QED BY <2>2, <3>2 DEF OwnShared
  <2> QED BY <1>1, <1>3, <1>4, <2>1, <2>2 DEF OwnShared, Fresh
<1>12. PeerKeys => PeerKeys'
  <2> SUFFICES ASSUME PeerKeys, NEW i \in Peers
               PROVE  /\ inb[i].rkey[cl.curr] = cl'.key[cl.curr]
                      /\ \A d \in Slots :
                           cl'.key[d] # None /\ (rx = cl'.key[d] \/ \E p \in net : IsKeyxRep(p) /\ p.msg.answers = cl'.key[d]) =>
                             inb[i].rkey[d] = cl'.key[d]
    BY <1>1, <1>3, <1>8 DEF PeerKeys, Answered
  <2> QED BY <1>2, <1>4, <1>10 DEF PeerKeys, Answered
<1> QED BY <1>1, <1>7, <1>8, <1>9, <1>11, <1>12 DEF LInv

LEMMA RetryHandshakeKeys == ASSUME IInv, IInv', LInv, RetryHandshake PROVE LInv'
<1> USE KeyTypes
<1>0. KeyInv /\ OwnKeys
  BY DEF LInv, KeyInv
<1> DEFINE k == made + 1
<1>1. PICK idx \in Slots : idx = Next1(cl.curr)
  BY DEF Next1, Slots
<1>1a. PICK p : p = InitReq(k, idx, cl.out)
  OBVIOUS
<1>2. /\ ~cl.open /\ rx = None /\ made' = k /\ cl' = Opening(k, idx, cl.out + 1)
      /\ net' = net \union {p} /\ UNCHANGED <<app, rx, sock, inb, born, mixed>>
  BY <1>1, <1>1a DEF RetryHandshake, Handshaking
<1>3. /\ cl'.open = FALSE /\ cl'.key = [NoKeys EXCEPT ![idx] = k] /\ cl'.curr = idx
      /\ cl'.next = InvIdx /\ cl'.hs = k /\ cl'.rkey = NoKeys /\ cl'.shkey = NoShared
  BY <1>2 DEF Opening
<1>4. p.to = "srv" /\ p.pub = k /\ p.c = idx /\ p.msg.type = "INIT_REQ" /\ p.s \notin Slots
  BY <1>1a DEF InitReq, PermaIdx, Slots
<1>5. k \in Int /\ k > made /\ k > 0 /\ cl.hs < k /\ k # None
  BY <1>0 DEF OwnKeys
<1>6. cl'.key[idx] = k /\ \A d \in Slots : d # idx => cl'.key[d] = None
  BY <1>3 DEF NoKeys
<1> HIDE DEF k
<1>7. app.at # "pack"
  BY <1>2 DEF IInv, ClientInv
<1>8. \A j \in Int : \A c : j > 0 /\ Placed(j, c) => Placed(j, c)' /\ j < k
  <2> SUFFICES ASSUME NEW j \in Int, NEW c, j > 0, Placed(j, c)
               PROVE  j <= made' /\ j < k /\ \A d \in Slots : cl'.key[d] # j
    BY DEF Placed
  <2>1. j <= made
    BY DEF Placed
  <2> QED BY <1>2, <1>5, <1>6, <2>1
<1>9. KeyInv'
  <2>1. SockInv'
    BY <1>0, <1>2 DEF KeyInv, SockInv
  <2>2. OwnKeys'
    BY <1>2, <1>3, <1>5, <1>6, NoneFacts DEF OwnKeys
  <2>3. ASSUME NEW q \in net PROVE PacketKeys(q)'
    <3>1. PacketKeys(q)
      BY <1>0 DEF KeyInv
    <3>2. ~IsRequest(q) /\ ~IsKeyxReq(q) /\ ~IsKeyxRep(q)
      BY <1>2, <3>1 DEF PacketKeys, IsRequest, IsKeyxReq
    <3>3. q.to = "srv" => Placed(q.pub, q.c)' /\ q.pub < k
      BY <1>8, <3>1 DEF PacketKeys
    <3> QED BY <1>2, <1>3, <1>5, <3>1, <3>2, <3>3 DEF PacketKeys, IsOpenReq
  <2>4. PacketKeys(p)'
    <3>1. Placed(p.pub, p.c)'
      BY <1>2, <1>4, <1>5, <1>6 DEF Placed
    <3> QED BY <1>4, <3>1 DEF PacketKeys, IsRequest, IsKeyxReq, IsKeyxRep, IsOpenReq
  <2>5. ASSUME NEW i \in Conn, Used(i)' PROVE ConnKeys(inb[i])'
    <3>1. Used(i) /\ ConnKeys(inb[i])
      BY <1>0, <1>2, <2>5 DEF KeyInv, Used
    <3>2. \A c \in Slots : inb[i].rkey[c] \in Int /\ (inb[i].rkey[c] = None \/ inb[i].rkey[c] > 0)
      BY <3>1
    <3>3. ASSUME NEW c \in Slots, inb[i].rkey[c] # None
          PROVE  Placed(inb[i].rkey[c], c)' /\ inb[i].rkey[c] < k
      <4>1. PICK j \in Int : j = inb[i].rkey[c] /\ j > 0
        BY <3>2, <3>3
      <4>2. Placed(j, c)' /\ j < k
        BY <1>8, <3>1, <3>3, <4>1 DEF ConnKeys
      <4> QED BY <1>2, <4>1, <4>2 DEF Placed
    <3>4. inb[i].hs <= cl.hs /\ inb[i].hs \in Nat /\ \E b \in born : b[1] = inb[i].hs
      BY <3>1 DEF ConnKeys
    <3>5. \A c \in Slots : inb[i].rkey[c] < k
      BY <1>5, <3>2, <3>3
    <3> QED BY <1>2, <1>3, <1>5, <3>3, <3>4, <3>5 DEF ConnKeys
  <2>6. \A i, j \in Conn :
          Used(i)' /\ Used(j)' /\ inb'[i].hs = inb'[j].hs /\ ~inb'[i].again /\ ~inb'[j].again => i = j
    BY <1>0, <1>2 DEF KeyInv, Used
  <2> QED BY <1>2, <1>3, <1>7, <2>1, <2>2, <2>3, <2>4, <2>5, <2>6 DEF KeyInv
<1>10. \A s \in Slots, c \in Slots : cl'.rkey[s] = None /\ cl'.shkey[s][c] = NoPair
  BY <1>3 DEF NoKeys, NoShared
<1>11. SocketKeys => SocketKeys'
  BY <1>2, <1>4, <1>10 DEF SocketKeys, FreshConn, Fresh, Used
<1>12. OwnShared'
  BY <1>10 DEF OwnShared, Fresh
<1>13. PeerKeys'
  <2>1. \A i \in Conn : Used(i)' => inb'[i].hs < k
    BY <1>0, <1>2, <1>5 DEF KeyInv, ConnKeys, Used
  <2>2. Peers' = {}
    BY <1>3, <1>5, <2>1 DEF Peers
  <2> QED BY <2>2 DEF PeerKeys
<1>14. Replaced' = Replaced
  BY <1>2 DEF Replaced
<1> QED BY <1>2, <1>9, <1>11, <1>12, <1>13, <1>14 DEF LInv
-----------------------------------------------------------------------------
(* The invariant of the keys: the steps of the server *)

LEMMA HandleInitReqKeys ==
    ASSUME IInv, IInv', LInv, NEW p \in net, p.to = "srv", HandleInitReq(p)
    PROVE  LInv'
<1>0. KeyInv
  BY DEF LInv
<1> DEFINE rep == [to |-> "cli", pub |-> None, s |-> PermaIdx, c |-> p.c, nonce |-> 0,
                   cookie |-> NoCookie, shared |-> p.shared,
                   msg |-> [type |-> "INIT_REP", idx |-> sock.curr,
                            key |-> sock.key[sock.curr], cookie |-> Cookie(p.pub)]]
<1>1. PICK q : /\ net' = net \union {q}
               /\ q.to = "cli" /\ q.msg.type = "INIT_REP"
               /\ q.msg.idx = sock.curr /\ q.msg.key = sock.key[sock.curr]
  <2>1. net' = net \union {rep}
    BY DEF HandleInitReq
  <2>2. /\ rep.to = "cli" /\ rep.msg.type = "INIT_REP"
        /\ rep.msg.idx = sock.curr /\ rep.msg.key = sock.key[sock.curr]
    OBVIOUS
  <2> QED BY <2>1, <2>2
<1>2. UNCHANGED <<cl, made, app, rx, timer, sock, inb, born, mixed>>
  BY DEF HandleInitReq
<1>3. KeyInv'
  <2>1. \A r \in net : PacketKeys(r)'
    BY <1>0, <1>2 DEF KeyInv, PacketKeys, Placed, Announced
  <2>2. PacketKeys(q)'
    BY <1>1 DEF PacketKeys, IsRequest, IsOpenReq, IsKeyxReq, IsKeyxRep
  <2>3. \A i \in Conn : Used(i)' => ConnKeys(inb[i])'
    BY <1>0, <1>2 DEF KeyInv, ConnKeys, Placed, Used
  <2> QED BY <1>0, <1>1, <1>2, <2>1, <2>2, <2>3 DEF KeyInv, SockInv, OwnKeys, Announced, Placed, Used
<1>4. SocketKeys => SocketKeys'
  BY <1>1, <1>2 DEF SocketKeys, FreshConn, Fresh, Used
<1>5. OwnShared => OwnShared'
  BY <1>1, <1>2 DEF OwnShared, Fresh, Unannounced, IsKeyxReq, IsKeyxRep
<1>6. PeerKeys => PeerKeys'
  BY <1>1, <1>2 DEF PeerKeys, Peers, Answered, IsKeyxRep, Used
<1> QED BY <1>2, <1>3, <1>4, <1>5, <1>6 DEF LInv, Replaced

LEMMA ExpireKeys == ASSUME IInv, IInv', LInv, Expire PROVE LInv'
<1>1. UNCHANGED <<cl, made, app, rx, timer, inb, born, mixed, net>>
  BY DEF Expire
<1>2. sock'.key = sock.key /\ sock'.curr = sock.curr
  BY DEF Expire, IInv, ServerInv
<1>3. KeyInv'
  BY <1>1, <1>2 DEF LInv, KeyInv, SockInv, OwnKeys, Announced, Placed, PacketKeys, ConnKeys, Used
<1>4. SocketKeys => SocketKeys'
  BY <1>1, <1>2 DEF SocketKeys, FreshConn, Fresh, Used
<1>5. OwnShared => OwnShared'
  BY <1>1, <1>2 DEF OwnShared, Fresh, Unannounced
<1>6. PeerKeys => PeerKeys'
  BY <1>1 DEF PeerKeys, Peers, Answered, Used
<1> QED BY <1>1, <1>2, <1>3, <1>4, <1>5, <1>6 DEF LInv, Replaced

LEMMA ExpireOneKeys == ASSUME IInv, IInv', LInv, ExpireOne PROVE LInv'
<1>1. UNCHANGED <<cl, made, app, rx, timer, born, mixed, net>>
  BY DEF ExpireOne
<1>2. PICK i \in sock.expire : /\ sock' = [sock EXCEPT !.expire = @ \ {i}]
                               /\ inb' = [inb EXCEPT ![i] = Free]
  BY DEF ExpireOne
<1>3. sock'.key = sock.key /\ sock'.curr = sock.curr /\ i \in Conn
  BY <1>2 DEF IInv, ServerInv
<1>4. \A j \in Conn : Used(j)' => Used(j) /\ inb'[j] = inb[j]
  BY <1>2, <1>3 DEF IInv, ServerInv, Used, Free
<1>5. KeyInv'
  <2>1. \A r \in net : PacketKeys(r)'
    BY <1>1 DEF LInv, KeyInv, PacketKeys, Placed, Announced
  <2>2. \A j \in Conn : Used(j)' => ConnKeys(inb[j])'
    BY <1>1, <1>4 DEF LInv, KeyInv, ConnKeys, Placed
  <2>3. \A j, k \in Conn :
          Used(j)' /\ Used(k)' /\ inb'[j].hs = inb'[k].hs /\ ~inb'[j].again /\ ~inb'[k].again => j = k
    BY <1>4 DEF LInv, KeyInv
  <2> QED BY <1>1, <1>3, <2>1, <2>2, <2>3 DEF LInv, KeyInv, SockInv, OwnKeys, Announced, Placed
<1>6. SocketKeys => SocketKeys'
  BY <1>1, <1>3, <1>4 DEF SocketKeys, FreshConn, Fresh
<1>7. OwnShared => OwnShared'
  BY <1>1, <1>3 DEF OwnShared, Fresh, Unannounced
<1>8. PeerKeys => PeerKeys'
  BY <1>1, <1>4 DEF PeerKeys, Peers, Answered
<1> QED BY <1>1, <1>3, <1>5, <1>6, <1>7, <1>8 DEF LInv, Replaced

LEMMA NewSockKeyKeys == ASSUME IInv, IInv', LInv, NewSockKey PROVE LInv'
<1>1. UNCHANGED <<cl, made, app, rx, timer, inb, born, mixed, net>>
  BY DEF NewSockKey
<1>2. PICK n \in Slots : n = Next1(sock.curr)
  <2>1. sock.curr \in {0, 1}
    BY DEF IInv, ServerInv, Slots
  <2> QED BY <2>1 DEF Next1, Slots
<1>3. /\ sock.curr \in Slots /\ sock.key[sock.curr] \in Nat /\ sock.key[sock.curr] > 0
      /\ \A s \in Slots : sock.key[s] \in SKeys \union {None}
      /\ Slots = {0, 1} /\ n = 1 - sock.curr
  BY <1>2, NoneFacts DEF IInv, ServerInv, ServerSlots, SKeys, Next1, Slots
<1>4. /\ sock'.curr = n /\ sock'.key[n] = sock.key[sock.curr] + 1
      /\ \A s \in Slots : s # n => sock'.key[s] = sock.key[s]
  BY <1>2 DEF NewSockKey, IInv, ServerInv, ServerSlots
<1>5. SockInv
  BY DEF LInv, KeyInv
<1>6. KeyInv'
  <2>1. SockInv'
    BY <1>3, <1>4, <1>5 DEF SockInv
  <2> QED BY <1>1, <2>1 DEF LInv, KeyInv, OwnKeys, Announced, Placed, PacketKeys, ConnKeys, Used
\* The second key takes an empty slot; what is known of a slot with no key is nothing.
<1>7. ASSUME ~Replaced'
      PROVE  ~Replaced /\ \A s \in Slots : sock'.key[s] = sock.key[s] \/ sock.key[s] = None
  BY <1>3, <1>4, <1>5, <1>7 DEF Replaced, SockInv
<1>8. ASSUME NEW shkey \in Shared, NEW s \in Slots, NEW c \in Slots, NEW k,
             sock.key[s] = None, Fresh(shkey[s][c], s, k)
      PROVE  shkey[s][c] = NoPair
  <2>1. shkey[s][c] \in (SKeys \X CKeys) \union {NoPair}
    BY DEF Shared
  <2> QED BY <1>8, <2>1, NoneFacts DEF Fresh
<1>9. ASSUME ~Replaced', NEW shkey \in Shared, NEW s \in Slots, NEW c \in Slots, NEW k,
             Fresh(shkey[s][c], s, k)
      PROVE  shkey[s][c] \in {NoPair, <<sock'.key[s], k>>}
  <2>1. CASE sock'.key[s] = sock.key[s]
    BY <1>9, <2>1 DEF Fresh
  <2>2. CASE sock.key[s] = None
    BY <1>8, <1>9, <2>2
  <2> QED BY <1>7, <1>9, <2>1, <2>2
<1>10. ASSUME ~Replaced' PROVE SocketKeys'
  <2>1. SocketKeys
    BY <1>7, <1>10 DEF LInv
  <2>2. \A s \in Slots : cl.rkey[s] \in {None, sock'.key[s]}
    BY <1>7, <1>10, <2>1 DEF SocketKeys
  <2>3. ASSUME NEW p \in net, p.to = "cli", p.msg.type # "OPEN_REP"
        PROVE  p.msg.key = sock'.key[p.msg.idx]
    <3>1. p.msg.idx \in Slots /\ p.msg.key \in SKeys /\ p.msg.key = sock.key[p.msg.idx]
      BY <2>1, <2>3, InNet DEF SocketKeys, IInv, ToClient
    <3> QED BY <1>7, <1>10, <3>1, NoneFacts
  <2>4. ASSUME NEW i \in Conn, Used(i), NEW s \in Slots, NEW c \in Slots
        PROVE  inb[i].shkey[s][c] \in {NoPair, <<sock'.key[s], inb[i].rkey[c]>>}
    <3>1. inb[i].shkey \in Shared
      BY <2>4, KeyTypes DEF ServerConn
    <3>2. Fresh(inb[i].shkey[s][c], s, inb[i].rkey[c])
      BY <2>1, <2>4 DEF SocketKeys, FreshConn
    <3> QED BY <1>9, <1>10, <3>1, <3>2
  <2> QED BY <1>1, <2>2, <2>3, <2>4 DEF SocketKeys, FreshConn, Fresh, Used
<1>11. ASSUME ~Replaced', ~mixed PROVE OwnShared'
  <2>1. OwnShared /\ cl.shkey \in Shared
    BY <1>7, <1>11 DEF LInv, IInv, ClientInv, ClientOK, ClientConn
  <2>2. \A s \in Slots, c \in Slots :
          Fresh(cl.shkey[s][c], s, cl.key[c]) => cl.shkey[s][c] \in {NoPair, <<sock'.key[s], cl.key[c]>>}
    BY <1>9, <1>11, <2>1
  <2> QED BY <1>1, <2>1, <2>2 DEF OwnShared, Fresh, Unannounced
<1>12. PeerKeys => PeerKeys'
  BY <1>1 DEF PeerKeys, Peers, Answered, Used
<1> QED BY <1>1, <1>6, <1>7, <1>10, <1>11, <1>12 DEF LInv

LEMMA HandleOpenReqKeys ==
    ASSUME IInv, IInv', LInv, NEW p \in net, p.to = "srv", HandleOpenReq(p)
    PROVE  LInv'
<1> USE KeyTypes
<1>0. KeyInv
  BY DEF LInv
<1>1. /\ IsOpenReq(p) /\ p.s \in Slots /\ p.c \in Slots /\ p.pub \in CKeys
      /\ UNCHANGED <<cl, made, app, rx, timer, sock, mixed>>
      /\ born' = born \union {<<p.pub, p.nonce>>}
  BY OpenReqEffect
<1>2. PICK i \in Conn :
        /\ ~Used(i) /\ Used(i)'
        /\ \A j \in Conn : j # i => inb'[j] = inb[j]
        /\ inb'[i].hs = p.pub /\ (inb'[i].again <=> \E b \in born : b[1] = p.pub)
        /\ inb'[i].curr = p.s
        /\ inb'[i].rkey = [NoKeys EXCEPT ![p.c] = p.pub]
        /\ FreshConn(inb'[i])
  BY OpenReqEffect
<1>3. PICK q : /\ net' = net \union {q}
               /\ q.to = "cli" /\ q.msg.type = "OPEN_REP" /\ q.pub = p.pub
  BY OpenReqEffect
<1>4. \A d \in Slots : inb'[i].rkey[d] = IF d = p.c THEN p.pub ELSE None
  BY <1>1, <1>2 DEF NoKeys
<1>5. \A j \in Conn : j # i /\ Used(j)' => Used(j) /\ inb'[j] = inb[j]
  BY <1>2 DEF Used
<1>6. PacketKeys(p)
  BY <1>0 DEF KeyInv
<1>7. Placed(p.pub, p.c) /\ p.pub <= cl.hs /\ (cl.hs <= p.pub => cl.rkey[p.s] # None)
  BY <1>1, <1>6 DEF PacketKeys, IsOpenReq
<1>8. \E b \in born' : b[1] = p.pub
  <2>1. <<p.pub, p.nonce>> \in born'
    BY <1>1
  <2>2. <<p.pub, p.nonce>>[1] = p.pub
    OBVIOUS
  <2> QED BY <2>1, <2>2
\* A connection of the same handshake has made the new one a copy.
<1>9. ASSUME NEW j \in Conn, j # i, Used(j), inb[j].hs = p.pub PROVE inb'[i].again
  BY <1>0, <1>2, <1>9 DEF KeyInv, ConnKeys
<1>10. KeyInv'
  <2>1. ASSUME NEW r \in net PROVE PacketKeys(r)'
    <3>1. PacketKeys(r)
      BY <1>0 DEF KeyInv
    <3> QED BY <1>1, <3>1 DEF PacketKeys, Placed, Announced
  <2>2. PacketKeys(q)'
    BY <1>3, <1>8 DEF PacketKeys, IsRequest, IsOpenReq, IsKeyxReq, IsKeyxRep
  <2>3. ASSUME NEW j \in Conn, Used(j)' PROVE ConnKeys(inb[j])'
    <3>1. CASE j = i
      <4>1. \A d \in Slots : inb'[i].rkey[d] # None => d = p.c /\ inb'[i].rkey[d] = p.pub
        BY <1>4
      <4>2. ASSUME NEW d \in Slots, inb'[i].rkey[d] # None
            PROVE  Placed(inb[i].rkey[d], d)' /\ inb'[i].rkey[d] = p.pub
        BY <1>1, <1>7, <4>1, <4>2 DEF Placed
      <4>3. p.pub # cl.hs => \A d \in Slots : inb'[i].rkey[d] < cl.hs
        BY <1>1, <1>4, <1>7
      <4> QED BY <1>1, <1>2, <1>7, <1>8, <3>1, <4>1, <4>2, <4>3 DEF ConnKeys
    <3>2. CASE j # i
      <4>1. Used(j) /\ inb'[j] = inb[j] /\ ConnKeys(inb[j])
        BY <1>0, <1>5, <2>3, <3>2 DEF KeyInv
      <4> QED BY <1>1, <4>1 DEF ConnKeys, Placed
    <3> QED BY <3>1, <3>2
  <2>4. ASSUME NEW j \in Conn, NEW k \in Conn, Used(j)', Used(k)', inb'[j].hs = inb'[k].hs,
               ~inb'[j].again, ~inb'[k].again
        PROVE  j = k
    BY <1>0, <1>2, <1>5, <1>9, <2>4 DEF KeyInv
  <2>5. cl'.open => \E b \in born' : b[1] = cl.hs
    BY <1>0, <1>1 DEF KeyInv
  <2> QED BY <1>0, <1>1, <1>3, <2>1, <2>2, <2>3, <2>4, <2>5
          DEF KeyInv, SockInv, OwnKeys, Announced, Placed
<1>11. SocketKeys => SocketKeys'
  BY <1>1, <1>2, <1>3, <1>5 DEF SocketKeys, FreshConn, Fresh
<1>12. OwnShared => OwnShared'
  BY <1>1, <1>3 DEF OwnShared, Fresh, Unannounced, IsKeyxReq, IsKeyxRep
<1>13. PeerKeys => PeerKeys'
  <2> SUFFICES ASSUME PeerKeys, NEW j \in Conn, Used(j)', inb'[j].hs = cl.hs, ~inb'[j].again
               PROVE  /\ inb'[j].rkey[cl.curr] = cl.key[cl.curr]
                      /\ \A d \in Slots : cl.key[d] # None /\ Answered(cl.key[d]) =>
                           inb'[j].rkey[d] = cl.key[d]
    BY <1>1, <1>3 DEF PeerKeys, Peers, Answered, IsKeyxRep
  <2>1. CASE j # i
    <3>1. j \in Peers /\ inb'[j] = inb[j]
      BY <1>5, <2>1 DEF Peers
    <3> QED BY <3>1 DEF PeerKeys
  \* The client has not heard of the connection and has one key still.
  <2>2. CASE j = i
    <3>1. p.pub = cl.hs /\ ~cl.open
      BY <1>0, <1>2, <2>2 DEF KeyInv
    <3>2. cl.key[cl.curr] = p.pub /\ \A d \in Slots : cl.key[d] # None => cl.key[d] = p.pub
      BY <1>0, <3>1 DEF KeyInv, OwnKeys
    <3>3. \A d \in Slots : cl.key[d] # None => d = p.c
      BY <1>7, <3>2 DEF Placed
    <3>4. cl.curr = p.c
      BY <3>2, <3>3
    <3> QED BY <1>4, <2>2, <3>2, <3>3, <3>4
  <2> QED BY <2>1, <2>2
<1> QED BY <1>1, <1>10, <1>11, <1>12, <1>13 DEF LInv, Replaced

LEMMA HandleKnownKeys ==
    ASSUME IInv, IInv', LInv, NEW p \in net, p.to = "srv", HandleKnown(p)
    PROVE  LInv'
<1> USE KeyTypes
<1>0. KeyInv
  BY DEF LInv
<1>1. PICK i \in Conn :
        /\ Used(i) /\ Used(i)' /\ p.s \in Slots
        /\ \E c \in Slots : inb[i].rkey[c] = p.pub
        /\ UNCHANGED <<cl, made, app, rx, timer, sock, born>>
        /\ \A j \in Conn : j # i => inb'[j] = inb[j]
        /\ inb'[i].hs = inb[i].hs /\ inb'[i].again = inb[i].again
        /\ inb'[i].curr \in {inb[i].curr, p.s}
        /\ FreshConn(inb[i]) => FreshConn(inb'[i])
        /\ \/ inb'[i].rkey = inb[i].rkey /\ net' = net /\ mixed' = mixed
           \/ /\ IsKeyxReq(p)
              /\ inb'[i].rkey = [inb[i].rkey EXCEPT ![p.msg.idx] = p.msg.key]
              /\ mixed' = (mixed \/ inb[i].again \/ p.msg.key < inb[i].rkey[p.msg.idx])
              /\ \E q : KeyxAnswer(q, p.msg.key) /\ net' = net \union {q}
  BY KnownEffect
<1>2. \A j \in Conn : Used(j)' => Used(j) /\ inb'[j].hs = inb[j].hs /\ inb'[j].again = inb[j].again
  BY <1>1 DEF Used
<1>3. PacketKeys(p) /\ ConnKeys(inb[i])
  BY <1>0, <1>1 DEF KeyInv
\* A slot by which the client of this handshake writes holds a key.
<1>4. inb[i].hs = cl.hs => cl.rkey[inb'[i].curr] # None
  <2>1. inb[i].hs = cl.hs => cl.hs <= p.pub
    BY <1>1, <1>3, NoneFacts DEF ConnKeys
  <2> QED BY <1>1, <1>3, <2>1 DEF PacketKeys, ConnKeys
<1>5. SocketKeys => \A j \in Conn : Used(j)' => FreshConn(inb[j])'
  <2>1. SocketKeys => \A j \in Conn : Used(j)' => FreshConn(inb'[j])
    BY <1>1, <1>2 DEF SocketKeys
  <2> QED BY <1>1, <2>1 DEF FreshConn, Fresh
<1>6. Replaced' = Replaced
  BY <1>1 DEF Replaced
\* The connections the packet is not for
<1>7. ASSUME NEW j \in Conn, j # i, Used(j)' PROVE ConnKeys(inb[j])'
  <2>1. Used(j) /\ ConnKeys(inb[j]) /\ inb'[j] = inb[j]
    BY <1>0, <1>1, <1>2, <1>7 DEF KeyInv
  <2> QED BY <1>1, <2>1 DEF ConnKeys, Placed
<1>8. ASSUME NEW r \in net PROVE PacketKeys(r)'
  <2>1. PacketKeys(r)
    BY <1>0 DEF KeyInv
  <2> QED BY <1>1, <2>1 DEF PacketKeys, Placed, Announced
<1>9. ASSUME ConnKeys(inb[i])', \A q \in net' : q \in net \/ PacketKeys(q)' PROVE KeyInv'
  <2>1. \A j \in Conn : Used(j)' => ConnKeys(inb[j])'
    BY <1>7, <1>9
  <2>2. \A r \in net' : PacketKeys(r)'
    BY <1>8, <1>9
  <2>3. \A j, k \in Conn :
          Used(j)' /\ Used(k)' /\ inb'[j].hs = inb'[k].hs /\ ~inb'[j].again /\ ~inb'[k].again => j = k
    BY <1>0, <1>2 DEF KeyInv
  <2> QED BY <1>0, <1>1, <2>1, <2>2, <2>3 DEF KeyInv, SockInv, OwnKeys, Announced, Placed
<1>10. CASE inb'[i].rkey = inb[i].rkey /\ net' = net /\ mixed' = mixed
  <2>1. ConnKeys(inb[i])'
    <3>1. \A c, k : Placed(k, c) => Placed(k, c)'
      BY <1>1 DEF Placed
    <3> QED BY <1>1, <1>3, <1>4, <1>10 DEF ConnKeys, Placed
  <2>2. KeyInv'
    BY <1>9, <1>10, <2>1
  <2>3. SocketKeys => SocketKeys'
    BY <1>1, <1>5, <1>10 DEF SocketKeys
  <2>4. OwnShared => OwnShared'
    BY <1>1, <1>10 DEF OwnShared, Fresh, Unannounced
  <2>5. PeerKeys => PeerKeys'
    BY <1>1, <1>2, <1>10 DEF PeerKeys, Peers, Answered
  <2> QED BY <1>6, <1>10, <2>2, <2>3, <2>4, <2>5 DEF LInv
<1>11. CASE /\ IsKeyxReq(p)
            /\ inb'[i].rkey = [inb[i].rkey EXCEPT ![p.msg.idx] = p.msg.key]
            /\ mixed' = (mixed \/ inb[i].again \/ p.msg.key < inb[i].rkey[p.msg.idx])
            /\ \E q : KeyxAnswer(q, p.msg.key) /\ net' = net \union {q}
  <2> DEFINE k == p.msg.key
             idx == p.msg.idx
  <2>1. PICK q : KeyxAnswer(q, k) /\ net' = net \union {q}
    BY <1>11
  <2>2. /\ k \in CKeys /\ k \in Int /\ idx \in Slots /\ k # None
        /\ Placed(k, idx) /\ k <= cl.key[idx] /\ cl.hs <= k /\ k <= made
        /\ cl.open /\ cl.hs <= p.pub
    <3>1. k \in CKeys /\ k \in Int /\ idx \in Slots /\ k # None
      BY <1>11, NoneFacts DEF CKeys
    <3>2. Announced(p.msg) /\ cl.open /\ cl.hs <= p.pub
      BY <1>3, <1>11 DEF PacketKeys, IsRequest, IsKeyxReq
    <3> QED BY <3>1, <3>2 DEF Announced, Placed
  <2>3. inb[i].hs = cl.hs
    BY <1>1, <1>3, <2>2 DEF ConnKeys
  <2>4. \A c \in Slots : inb'[i].rkey[c] = IF c = idx THEN k ELSE inb[i].rkey[c]
    BY <1>1, <1>11, <2>2 DEF ServerConn, OwnSlots
  <2>5. ConnKeys(inb[i])'
    <3>1. ASSUME NEW c \in Slots, inb'[i].rkey[c] # None
          PROVE  Placed(inb[i].rkey[c], c)' /\ cl.hs <= inb'[i].rkey[c]
      <4>1. PICK j : j = inb'[i].rkey[c]
        OBVIOUS
      <4>2. Placed(j, c) /\ cl.hs <= j
        BY <1>3, <2>2, <2>3, <2>4, <3>1, <4>1 DEF ConnKeys
      <4> QED BY <1>1, <4>1, <4>2 DEF Placed
    <3>2. \E b \in born : b[1] = inb[i].hs
      BY <1>3 DEF ConnKeys
    <3> QED BY <1>1, <1>4, <2>3, <3>1, <3>2 DEF ConnKeys
  <2>6. PacketKeys(q)'
    BY <1>1, <2>1, <2>2 DEF PacketKeys, KeyxAnswer, IsRequest, IsOpenReq, IsKeyxReq, IsKeyxRep
  <2>7. KeyInv'
    BY <1>9, <2>1, <2>5, <2>6
  <2>8. SocketKeys => SocketKeys'
    BY <1>1, <1>5, <2>1 DEF SocketKeys, KeyxAnswer
  <2>9. OwnShared => OwnShared'
    <3>1. ASSUME NEW j, Unannounced(j) PROVE j # k
      BY <1>11, <3>1 DEF Unannounced
    <3> QED BY <1>1, <2>1, <3>1 DEF OwnShared, Fresh, Unannounced, KeyxAnswer, IsKeyxReq, IsKeyxRep
  <2>10. ASSUME ~mixed' PROVE PeerKeys'
    <3>1. ~mixed /\ ~inb[i].again /\ ~(k < inb[i].rkey[idx]) /\ PeerKeys
      BY <1>11, <2>10 DEF LInv
    <3>2. i \in Peers /\ \A j \in Conn : j \in Peers' => j = i
      BY <1>0, <1>1, <1>2, <2>3, <3>1 DEF Peers, KeyInv
    <3>3. inb[i].rkey[idx] \in Int
      BY <1>1, <2>2
    \* The slot holds a key that is no newer than the one announced.
    <3>4. ASSUME NEW d \in Slots, inb[i].rkey[d] = cl.key[d] PROVE inb'[i].rkey[d] = cl.key[d]
      <4>1. CASE d = idx
        BY <2>2, <2>4, <3>1, <3>3, <3>4, <4>1
      <4>2. CASE d # idx
        BY <2>4, <3>4, <4>2
      <4> QED BY <4>1, <4>2
    <3>5. inb'[i].rkey[cl.curr] = cl.key[cl.curr]
      BY <3>1, <3>2, <3>4 DEF PeerKeys
    <3>6. ASSUME NEW d \in Slots, cl.key[d] # None,
                 rx = cl.key[d] \/ \E r \in net' : IsKeyxRep(r) /\ r.msg.answers = cl.key[d]
          PROVE  inb'[i].rkey[d] = cl.key[d]
      <4>1. CASE Answered(cl.key[d])
        BY <3>1, <3>2, <3>4, <3>6, <4>1 DEF PeerKeys
      <4>2. CASE cl.key[d] = k
        <5>1. d = idx
          BY <2>2, <4>2 DEF Placed
        <5> QED BY <2>4, <4>2, <5>1
      <4>3. Answered(cl.key[d]) \/ cl.key[d] = k
        BY <2>1, <3>6 DEF Answered, KeyxAnswer
      <4> QED BY <4>1, <4>2, <4>3
    <3>7. \A j \in Peers' : j = i
      BY <3>2 DEF Peers
    <3> QED BY <1>1, <3>5, <3>6, <3>7 DEF PeerKeys, Answered
  <2>11. ~mixed' => ~mixed
    BY <1>11
  <2> QED BY <1>6, <2>7, <2>8, <2>9, <2>10, <2>11 DEF LInv
<1> QED BY <1>1, <1>10, <1>11
-----------------------------------------------------------------------------
LEMMA KeysStep == ASSUME IInv, IInv', LInv, [Next]_vars PROVE LInv'
<1>0. KeyInv
  BY DEF LInv
<1>1. CASE UNCHANGED vars
  <2>1. ClientMoves
    BY <1>0, <1>1 DEF vars, ClientMoves, SharedFrom, KeyInv
  <2> QED BY <2>1, ClientMovesOK
<1>2. CASE ServerReceive
  BY <1>2, HandleInitReqKeys, HandleOpenReqKeys, HandleKnownKeys DEF ServerReceive
<1>3. CASE ClientReceive
  <2>1. ClientMoves
    BY <1>0, <1>3, HandleInitRepMoves, HandleOpenRepMoves, HandleKeyxRepMoves DEF ClientReceive
  <2> QED BY <2>1, ClientMovesOK
<1>4. CASE RetryKeyx \/ TimedOut \/ Announce \/ SendKeyxReq \/ SendData
  <2>1. ClientMoves
    BY <1>0, <1>4, RetryKeyxMoves, TimedOutMoves, AnnounceMoves, SendKeyxReqMoves, SendDataMoves
  <2> QED BY <2>1, ClientMovesOK
<1>5. CASE SetCurr \/ RetryHandshake \/ NewKey
  BY <1>5, SetCurrKeys, RetryHandshakeKeys, NewKeyKeys
<1>6. CASE NewSockKey \/ Expire \/ ExpireOne
  BY <1>6, NewSockKeyKeys, ExpireKeys, ExpireOneKeys
<1> QED BY <1>1, <1>2, <1>3, <1>4, <1>5, <1>6 DEF Next

LEMMA KeysInit == Init => LInv
<1> SUFFICES ASSUME Init PROVE LInv
  OBVIOUS
<1>1. /\ cl.rkey = NoKeys /\ cl.shkey = NoShared
      /\ net = {InitReq(1, 0, 1)} /\ \A i \in Conn : ~Used(i)
  BY DEF Init, Opening, Used, Free
<1>2. \A s \in Slots, c \in Slots : cl.rkey[s] = None /\ cl.shkey[s][c] = NoPair
  BY <1>1 DEF NoKeys, NoShared
<1>3. \A p \in net : p.to = "srv"
  BY <1>1 DEF InitReq
<1>4. SocketKeys
  BY <1>1, <1>2, <1>3 DEF SocketKeys
<1>5. OwnShared
  BY <1>2 DEF OwnShared, Fresh
<1>6. PeerKeys
  BY <1>1 DEF PeerKeys, Peers
<1> QED BY <1>4, <1>5, <1>6, KeyInit DEF LInv

\* The two sides compute the same shared key from the client's current key.
LEMMA SameShared ==
    ASSUME IInv, LInv, ~mixed, ~Replaced, NEW i \in Peers,
           NEW s \in Slots, cl.rkey[s] # None
    PROVE  /\ inb[i].rkey[cl.curr] = cl.key[cl.curr]
           /\ ClientShared(s, cl.curr) = <<sock.key[s], cl.key[cl.curr]>>
           /\ ServerShared(inb[i], s, cl.curr) = <<sock.key[s], cl.key[cl.curr]>>
<1>1. cl.curr \in Slots /\ cl.key[cl.curr] # None
  BY KeyTypes
<1>2. cl.curr # cl.next
  BY DEF LInv, KeyInv, OwnKeys
<1>3. inb[i].rkey[cl.curr] = cl.key[cl.curr] /\ i \in Conn /\ Used(i)
  BY DEF LInv, PeerKeys, Peers
<1>4. cl.rkey[s] = sock.key[s]
  BY DEF LInv, SocketKeys
<1>5. cl.shkey[s][cl.curr] \in {NoPair, <<sock.key[s], cl.key[cl.curr]>>}
  BY <1>1, <1>2 DEF LInv, OwnShared, Fresh
<1>6. inb[i].shkey[s][cl.curr] \in {NoPair, <<sock.key[s], cl.key[cl.curr]>>}
  BY <1>1, <1>3 DEF LInv, SocketKeys, FreshConn, Fresh
<1> QED BY <1>1, <1>3, <1>4, <1>5, <1>6 DEF ClientShared, ServerShared

LEMMA NobodyLockedOut == ASSUME IInv, LInv PROVE NoLockout
<1> SUFFICES ASSUME cl.open, ~mixed, ~Replaced, NEW i \in Peers
             PROVE  ClientHeard(i) /\ ServerHeard(i)
  BY DEF NoLockout
<1>1. cl.rcurr \in Slots /\ cl.rkey[cl.rcurr] # None
  BY DEF IInv, ClientInv, ClientOK, ClientConn
<1>2. ClientHeard(i)
  <2>1. cl.key[cl.curr] # None
    BY KeyTypes
  <2> QED BY <1>1, <2>1, SameShared, NoneFacts DEF ClientHeard
<1>3. ServerHeard(i)
  <2> SUFFICES ASSUME inb[i].rkey[inb[i].rcurr] = cl.key[cl.curr]
               PROVE  ClientShared(inb[i].curr, inb[i].rcurr)
                        = ServerShared(inb[i], inb[i].curr, inb[i].rcurr)
    BY DEF ServerHeard
  <2>1. i \in Conn /\ Used(i) /\ inb[i].hs = cl.hs
    BY DEF Peers
  <2>2. inb[i].curr \in Slots /\ inb[i].rcurr \in Slots /\ cl.curr \in Slots /\ cl.key[cl.curr] # None
    BY <2>1, KeyTypes DEF ServerConn
  <2>3. ConnKeys(inb[i])
    BY <2>1 DEF LInv, KeyInv
  <2>4. inb[i].rcurr = cl.curr
    BY <2>2, <2>3 DEF ConnKeys, Placed
  <2>5. cl.rkey[inb[i].curr] # None
    BY <2>1, <2>3 DEF ConnKeys
  <2> QED BY <2>2, <2>4, <2>5, SameShared
<1> QED BY <1>2, <1>3

\* As long as no message of an earlier exchange was taken for the current one and the socket
\* has put no key in another one's place, each side computes the shared key the other writes
\* with (conn_shkey_get, conn_dhkey_set_pub, conn_dhkey_get_pub, ecp_handle_keyx).
THEOREM KeysAgree == Spec => []NoLockout
<1>1. Init => LInv
  BY KeysInit
<1>2. IInv /\ IInv' /\ LInv /\ [Next]_vars => LInv'
  BY KeysStep
<1>3. IInv /\ LInv => NoLockout
  BY NobodyLockedOut
<1> QED BY <1>1, <1>2, <1>3, SessionInvariant, PTL DEF Spec
=============================================================================

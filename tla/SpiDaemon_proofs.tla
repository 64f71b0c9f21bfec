------------------------- MODULE SpiDaemon_proofs --------------------------
(***************************************************************************)
(* SpiDaemon implements Duplex, and clocks only into an ESP32 that waits.  *)
(***************************************************************************)
EXTENDS SpiDaemon, TLAPS

Message == [n : Nat, size : Nat]

\* The types of what carries messages and of what the handshake turns on
DaemonOK ==
    /\ bufq \in Nat /\ errs \in Nat
    /\ in \in Seq(Message) /\ out \in Seq(Message) /\ espq \in Seq(Message)
    /\ tx \in Message /\ offer \in Message /\ recv \in Message
    /\ worker \in {"look", "sleep", "woken", "first", "second", "done", "garbled"}
    /\ task \in {"pop", "offer", "ready", "more", "readyMore", "received"}
    /\ edge \in [{"rts", "cts"} -> Nat]
    /\ sent \in [Sender -> Nat] /\ got \in [Sender -> Seq(Nat)]

\* What is no message is empty, except that the daemon queues packets that are too long.
Real(q) == \A i \in DOMAIN q : q[i].n # 0
Told ==
    /\ Real(in) /\ Real(espq)
    /\ offer = Empty \/ offer.n # 0
    /\ worker \in {"second", "done"} => tx = Empty \/ tx.n # 0
    /\ worker \in {"look", "sleep", "woken", "garbled"} => tx = Empty

Rising(q) == \A i, j \in DOMAIN q : i < j /\ q[i].n # 0 /\ q[j].n # 0 => q[i].n < q[j].n
Before(A, B) == \A a \in A \ {0}, b \in B \ {0} : a < b

\* The stages of each way follow each other, in each the older message first.
EspOrder ==
    /\ Rising(in) /\ Rising(espq)
    /\ Before(Numbers(in), InTx) /\ Before(Numbers(in), InOffer) /\ Before(Numbers(in), Numbers(espq))
    /\ Before(InTx, InOffer) /\ Before(InTx, Numbers(espq))
    /\ Before(InOffer, Numbers(espq))
AppOrder ==
    /\ Rising(out)
    /\ Before(InRecv, OutTx) /\ Before(InRecv, Numbers(out)) /\ Before(OutTx, Numbers(out))

\* An ESP32 that was up first holds the token or its edge only while it waits.
Handshake ==
    ~late =>
      /\ edge.cts \in {0, 1}
      /\ token => edge.cts = 0
      /\ token \/ edge.cts = 1 => task \in {"ready", "readyMore"}
      /\ worker = "second" => task \in {"more", "readyMore"}
      /\ task = "more" => worker = "second"
      /\ (token \/ edge.cts = 1) /\ task = "readyMore" => worker = "second"
      /\ worker # "garbled"

\* What is on its way was sent.
WasSent == \A w \in Sender : \A n \in OnWay[w] : n <= sent[w]

DaemonInv == DaemonOK /\ Told /\ EspOrder /\ AppOrder /\ WasSent /\ Handshake
-----------------------------------------------------------------------------
(* The numbers of a queue *)

LEMMA AppendNumbers ==
    ASSUME NEW q \in Seq(Message), NEW m \in Message
    PROVE  /\ Append(q, m) \in Seq(Message)
           /\ Numbers(Append(q, m)) = Numbers(q) \cup {m.n}
<1> DEFINE r == Append(q, m)
<1>1. r \in Seq(Message) /\ Len(r) = Len(q) + 1 /\ r[Len(q) + 1] = m
  OBVIOUS
<1>2. \A i \in 1 .. Len(q) : r[i] = q[i]
  OBVIOUS
<1>3. DOMAIN r = 1 .. Len(q) + 1 /\ DOMAIN q = 1 .. Len(q) /\ Len(q) \in Nat
  BY <1>1
<1> HIDE DEF r
<1>4. Numbers(r) \subseteq Numbers(q) \cup {m.n}
  BY <1>1, <1>2, <1>3 DEF Numbers
<1>5. Numbers(q) \subseteq Numbers(r)
  BY <1>1, <1>2, <1>3 DEF Numbers
<1>6. m.n \in Numbers(r)
  BY <1>1, <1>3 DEF Numbers
<1> QED BY <1>1, <1>4, <1>5, <1>6 DEF r

LEMMA AppendRises ==
    ASSUME NEW q \in Seq(Message), NEW m \in Message, Rising(q), Before(Numbers(q), {m.n})
    PROVE  Rising(Append(q, m))
<1> DEFINE r == Append(q, m)
<1>1. /\ \A i \in 1 .. Len(q) : r[i] = q[i]
      /\ r[Len(q) + 1] = m /\ Len(r) = Len(q) + 1 /\ r \in Seq(Message) /\ Len(q) \in Nat
  OBVIOUS
<1>2. DOMAIN r = 1 .. Len(q) + 1 /\ DOMAIN q = 1 .. Len(q)
  BY <1>1
<1> HIDE DEF r
<1>3. ASSUME NEW i \in DOMAIN r, NEW j \in DOMAIN r, i < j, r[i].n # 0, r[j].n # 0
      PROVE  r[i].n < r[j].n
  <2>1. i \in 1 .. Len(q) /\ r[i] = q[i] /\ q[i].n \in Numbers(q)
    BY <1>1, <1>2, <1>3 DEF Numbers
  <2>2. CASE j = Len(q) + 1
    BY <2>1, <2>2, <1>1, <1>3 DEF Before
  <2>3. CASE j \in 1 .. Len(q)
    BY <2>1, <2>3, <1>1, <1>2, <1>3 DEF Rising
  <2> QED BY <2>2, <2>3, <1>1, <1>2
<1> QED BY <1>3 DEF Rising, r

LEMMA AppendReal ==
    ASSUME NEW q \in Seq(Message), NEW m \in Message, Real(q), m.n # 0
    PROVE  Real(Append(q, m))
<1>1. /\ \A i \in 1 .. Len(q) : Append(q, m)[i] = q[i]
      /\ Append(q, m)[Len(q) + 1] = m
      /\ DOMAIN Append(q, m) = 1 .. Len(q) + 1 /\ DOMAIN q = 1 .. Len(q) /\ Len(q) \in Nat
  OBVIOUS
<1> QED BY <1>1 DEF Real

LEMMA TailNumbers ==
    ASSUME NEW q \in Seq(Message), q # <<>>
    PROVE  /\ Head(q) \in Message /\ Tail(q) \in Seq(Message)
           /\ Numbers(q) = {Head(q).n} \cup Numbers(Tail(q))
           /\ Rising(q) => Rising(Tail(q)) /\ Before({Head(q).n}, Numbers(Tail(q)))
           /\ Real(q) => Head(q).n # 0 /\ Real(Tail(q))
<1> DEFINE r == Tail(q)
<1>1. /\ r \in Seq(Message) /\ Len(r) = Len(q) - 1 /\ Len(q) \in Nat \ {0} /\ Head(q) = q[1]
      /\ \A i \in 1 .. Len(q) - 1 : r[i] = q[i + 1]
  OBVIOUS
<1>2. DOMAIN r = 1 .. Len(q) - 1 /\ DOMAIN q = 1 .. Len(q) /\ q[1] \in Message
  BY <1>1
<1> HIDE DEF r
<1>3. \A i \in DOMAIN r : i + 1 \in DOMAIN q /\ r[i] = q[i + 1]
  BY <1>1, <1>2
<1>4. \A i \in DOMAIN q : i = 1 \/ (i - 1 \in DOMAIN r /\ r[i - 1] = q[i])
  BY <1>1, <1>2
<1>5. Numbers(q) = {q[1].n} \cup Numbers(r)
  <2>1. Numbers(q) \subseteq {q[1].n} \cup Numbers(r)
    BY <1>4 DEF Numbers
  <2>2. {q[1].n} \cup Numbers(r) \subseteq Numbers(q)
    BY <1>1, <1>2, <1>3 DEF Numbers
  <2> QED BY <2>1, <2>2
<1>6. Rising(q) => Rising(r)
  <2> SUFFICES ASSUME Rising(q), NEW i \in DOMAIN r, NEW j \in DOMAIN r, i < j, r[i].n # 0, r[j].n # 0
               PROVE  r[i].n < r[j].n
    BY DEF Rising
  <2>1. i + 1 < j + 1
    BY <1>2, <1>1
  <2> QED BY <2>1, <1>3 DEF Rising
<1>7. Rising(q) => Before({q[1].n}, Numbers(r))
  <2> SUFFICES ASSUME Rising(q), NEW i \in DOMAIN r, q[1].n # 0, r[i].n # 0 PROVE q[1].n < r[i].n
    BY DEF Before, Numbers
  <2> QED BY <1>1, <1>2, <1>3 DEF Rising
<1>8. Real(q) => q[1].n # 0 /\ Real(r)
  BY <1>1, <1>2, <1>3 DEF Real
<1> QED BY <1>1, <1>2, <1>5, <1>6, <1>7, <1>8 DEF r
-----------------------------------------------------------------------------
(* What every step keeps *)

LEMMA MessageFacts ==
    /\ Empty \in Message /\ Oversize \in Message /\ Empty.n = 0 /\ Oversize.n = 0
    /\ \A n \in Nat, z \in EspSize \cup AppSize : Msg(n, z) \in Message /\ Msg(n, z).n = n
<1>1. \A z \in EspSize \cup AppSize : z \in Nat
  BY DaemonAssumption
<1> QED BY <1>1, DaemonAssumption DEF Empty, Oversize, Msg, Message

\* Types, and which messages are empty.
LEMMA OKStep ==
    ASSUME DaemonOK, Told, Next PROVE DaemonOK' /\ Told'
<1>1. CASE LookOut
  <2>1. Head(out) \in Message /\ Tail(out) \in Seq(Message)
    BY <1>1, TailNumbers DEF LookOut, DaemonOK
  <2> QED BY <1>1, <2>1 DEF LookOut, DaemonOK, Told, queues, work, users, app, hist
<1>2. CASE LookRts
  BY <1>2 DEF LookRts, DaemonOK, Told, queues, work, users, app, hist
<1>3. CASE Wake
  <2>1. out # <<>> => Head(out) \in Message /\ Tail(out) \in Seq(Message)
    BY <1>3, TailNumbers DEF DaemonOK
  <2> QED BY <1>3, <2>1 DEF Wake, DaemonOK, Told, queues, work, users, app, hist
<1>4. CASE Transfer
  BY <1>4 DEF Transfer, DaemonOK, Told, queues, work, users, app, hist
<1>5. CASE TransferRest
  BY <1>5 DEF TransferRest, DaemonOK, Told, queues, work, users, app, hist
<1>6. CASE Premature
  BY <1>6, MessageFacts DEF Premature, DaemonOK, Told, queues, work, users, app, hist
<1>7. CASE TransferFails
  BY <1>7, MessageFacts DEF TransferFails, DaemonOK, Told, queues, work, users, app, hist
<1>8. CASE Refused
  BY <1>8, MessageFacts DEF Refused, DaemonOK, Told, queues, work, users, app, hist
<1>9. CASE Deliver
  <2>1. tx # Empty => in' \in Seq(Message)
    BY <1>9, AppendNumbers DEF Deliver, DaemonOK
  <2>2. tx # Empty => Real(in')
    BY <1>9, AppendReal DEF Deliver, DaemonOK, Told
  <2> QED BY <1>9, <2>1, <2>2, MessageFacts DEF Deliver, DaemonOK, Told, queues, work, users, app, hist
<1>10. CASE HandleIn
  <2>1. Head(in) \in Message /\ Tail(in) \in Seq(Message) /\ Real(Tail(in))
    BY <1>10, TailNumbers DEF HandleIn, DaemonOK, Told
  <2>0. Head(in).n \in Nat /\ got.esp \in Seq(Nat)
    BY <2>1 DEF DaemonOK, Sender, Message
  <2>2. Append(got.esp, Head(in).n) \in Seq(Nat)
    BY <2>0
  <2>3. got' \in [Sender -> Seq(Nat)]
    BY <1>10, <2>2 DEF HandleIn, DaemonOK, Sender
  <2> QED BY <1>10, <2>1, <2>3 DEF HandleIn, DaemonOK, Told, queues, work, users, app, hist
<1>11. CASE HandleDone
  BY <1>11 DEF HandleDone, DaemonOK, Told, queues, work, users, app, hist
<1>12. CASE ReadAlloc
  BY <1>12 DEF ReadAlloc, DaemonOK, Told, queues, work, users, app, hist
<1>13. CASE ReadPacket
  <2>1. sent' \in [Sender -> Nat]
    BY <1>13 DEF ReadPacket, DaemonOK, Sender
  <2>2. out' \in Seq(Message)
    <3>1. sent.app + 1 \in Nat
      BY DEF DaemonOK, Sender
    <3>2. \A m \in Message : Append(out, m) \in Seq(Message)
      BY AppendNumbers DEF DaemonOK
    <3> QED BY <1>13, MessageFacts, <3>1, <3>2 DEF ReadPacket
  <2> QED BY <1>13, <2>1, <2>2 DEF ReadPacket, DaemonOK, Told, queues, work, users, app, hist, Signalled
<1>14. CASE ReadFails
  BY <1>14 DEF ReadFails, DaemonOK, Told, queues, work, users, app, hist
<1>15. CASE RtsEdge
  BY <1>15 DEF RtsEdge, DaemonOK, Told, queues, work, users, app, hist, Signalled
<1>16. CASE CtsEdge
  <2>1. edge' \in [{"rts", "cts"} -> Nat]
    BY <1>16 DEF CtsEdge, DaemonOK
  <2> QED BY <1>16, <2>1 DEF CtsEdge, DaemonOK, Told, queues, work, users, app, hist
<1>17. CASE AppPop
  <2>1. espq # <<>> => Head(espq) \in Message /\ Tail(espq) \in Seq(Message) /\ Head(espq).n # 0 /\ Real(Tail(espq))
    BY <1>17, TailNumbers DEF DaemonOK, Told
  <2> QED BY <1>17, <2>1, MessageFacts DEF AppPop, DaemonOK, Told, queues, work, users, app, hist, NoOffer
<1>18. CASE AppOffer
  BY <1>18 DEF AppOffer, DaemonOK, Told, queues, work, users, app, hist
<1>19. CASE AppReceived
  <2>0. Append(got.app, recv.n) \in Seq(Nat)
    BY DEF DaemonOK, Sender, Message
  <2>1. got' \in [Sender -> Seq(Nat)]
    BY <1>19, <2>0 DEF AppReceived, DaemonOK, Sender
  <2> QED BY <1>19, <2>1 DEF AppReceived, DaemonOK, Told, queues, work, users, app, hist
<1>20. CASE AppSend
  <2>0. sent.esp \in Nat /\ sent.esp + 1 \in Nat
    BY DEF DaemonOK, Sender
  <2>1. sent' \in [Sender -> Nat]
    BY <1>20, <2>0 DEF AppSend, DaemonOK, Sender
  <2>2. PICK s \in EspSize : espq' = Append(espq, Msg(sent.esp + 1, s))
    BY <1>20 DEF AppSend
  <2>3. Msg(sent.esp + 1, s) \in Message /\ Msg(sent.esp + 1, s).n # 0
    BY <2>0, MessageFacts DEF DaemonOK, Sender
  <2>4. espq' \in Seq(Message) /\ Real(espq')
    BY <1>20, <2>2, <2>3, AppendNumbers, AppendReal DEF DaemonOK, Told
  <2>5. [edge EXCEPT !.rts = edge.rts + 1] \in [{"rts", "cts"} -> Nat]
    <3>1. edge.rts + 1 \in Nat
      BY DEF DaemonOK
    <3> QED BY <3>1 DEF DaemonOK
  <2>6. edge' = edge \/ edge' = [edge EXCEPT !.rts = @ + 1]
    BY <1>20 DEF AppSend
  <2> QED BY <1>20, <2>1, <2>4, <2>5, <2>6 DEF AppSend, DaemonOK, Told, queues, work, users, app, hist
<1> QED
  BY <1>1, <1>2, <1>3, <1>4, <1>5, <1>6, <1>7, <1>8, <1>9, <1>10, <1>11, <1>12, <1>13, <1>14, <1>15, <1>16, <1>17, <1>18, <1>19, <1>20 DEF Next, Work, Handle, Edge, App

\* The handshake: who was up first decides whether there is one token or two.
LEMMA HandshakeStep ==
    ASSUME DaemonOK, Handshake, Next PROVE Handshake'
<1>1. CASE LookOut
  BY <1>1 DEF LookOut, DaemonOK, Handshake, queues, work, users, app, hist, Signalled, NoOffer, Asked, More, RestWaits
<1>2. CASE LookRts
  BY <1>2 DEF LookRts, DaemonOK, Handshake, queues, work, users, app, hist, Signalled, NoOffer, Asked, More, RestWaits
<1>3. CASE Wake
  BY <1>3 DEF Wake, DaemonOK, Handshake, queues, work, users, app, hist, Signalled, NoOffer, Asked, More, RestWaits
<1>4. CASE Transfer
  BY <1>4 DEF Transfer, DaemonOK, Handshake, queues, work, users, app, hist, Signalled, NoOffer, Asked, More, RestWaits
<1>5. CASE TransferRest
  BY <1>5 DEF TransferRest, DaemonOK, Handshake, queues, work, users, app, hist, Signalled, NoOffer, Asked, More, RestWaits
<1>6. CASE Premature
  BY <1>6 DEF Premature, DaemonOK, Handshake, queues, work, users, app, hist, Signalled, NoOffer, Asked, More, RestWaits
<1>7. CASE TransferFails
  BY <1>7 DEF TransferFails, DaemonOK, Handshake, queues, work, users, app, hist, Signalled, NoOffer, Asked, More, RestWaits
<1>8. CASE Refused
  BY <1>8 DEF Refused, DaemonOK, Handshake, queues, work, users, app, hist, Signalled, NoOffer, Asked, More, RestWaits
<1>9. CASE Deliver
  BY <1>9 DEF Deliver, DaemonOK, Handshake, queues, work, users, app, hist, Signalled, NoOffer, Asked, More, RestWaits
<1>10. CASE HandleIn
  BY <1>10 DEF HandleIn, DaemonOK, Handshake, queues, work, users, app, hist, Signalled, NoOffer, Asked, More, RestWaits
<1>11. CASE HandleDone
  BY <1>11 DEF HandleDone, DaemonOK, Handshake, queues, work, users, app, hist, Signalled, NoOffer, Asked, More, RestWaits
<1>12. CASE ReadAlloc
  BY <1>12 DEF ReadAlloc, DaemonOK, Handshake, queues, work, users, app, hist, Signalled, NoOffer, Asked, More, RestWaits
<1>13. CASE ReadPacket
  BY <1>13 DEF ReadPacket, DaemonOK, Handshake, queues, work, users, app, hist, Signalled, NoOffer, Asked, More, RestWaits
<1>14. CASE ReadFails
  BY <1>14 DEF ReadFails, DaemonOK, Handshake, queues, work, users, app, hist, Signalled, NoOffer, Asked, More, RestWaits
<1>15. CASE RtsEdge
  BY <1>15 DEF RtsEdge, DaemonOK, Handshake, queues, work, users, app, hist, Signalled, NoOffer, Asked, More, RestWaits
<1>16. CASE CtsEdge
  BY <1>16 DEF CtsEdge, DaemonOK, Handshake, queues, work, users, app, hist, Signalled, NoOffer, Asked, More, RestWaits
<1>17. CASE AppPop
  BY <1>17 DEF AppPop, DaemonOK, Handshake, queues, work, users, app, hist, Signalled, NoOffer, Asked, More, RestWaits
<1>18. CASE AppOffer
  BY <1>18 DEF AppOffer, DaemonOK, Handshake, queues, work, users, app, hist, Signalled, NoOffer, Asked, More, RestWaits
<1>19. CASE AppReceived
  BY <1>19 DEF AppReceived, DaemonOK, Handshake, queues, work, users, app, hist, Signalled, NoOffer, Asked, More, RestWaits
<1>20. CASE AppSend
  BY <1>20 DEF AppSend, DaemonOK, Handshake, queues, work, users, app, hist, Signalled, NoOffer, Asked, More, RestWaits
<1> QED
  BY <1>1, <1>2, <1>3, <1>4, <1>5, <1>6, <1>7, <1>8, <1>9, <1>10, <1>11, <1>12, <1>13, <1>14, <1>15, <1>16, <1>17, <1>18, <1>19, <1>20 DEF Next, Work, Handle, Edge, App
-----------------------------------------------------------------------------
(* The order of each way *)

EspWay == Numbers(in) \cup InTx \cup InOffer \cup Numbers(espq)
AppWay == InRecv \cup OutTx \cup Numbers(out)

LEMMA WayIs == OnWay = [w \in Sender |-> (IF w = "esp" THEN EspWay ELSE AppWay) \ {0}]
  BY DEF OnWay, EspWay, AppWay

LEMMA SameWay ==
    ASSUME EspWay' \ {0} = EspWay \ {0}, AppWay' \ {0} = AppWay \ {0}
    PROVE  OnWay' = OnWay
<1>1. OnWay' = [w \in Sender |-> (IF w = "esp" THEN EspWay' ELSE AppWay') \ {0}]
  BY DEF OnWay, EspWay, AppWay
<1> QED BY <1>1, WayIs

\* What leaves a stage leaves the others in order.
LEMMA EspKeep ==
    ASSUME EspOrder, Rising(in'), Rising(espq'),
           Numbers(in') \ {0} \subseteq Numbers(in), InTx' \ {0} \subseteq InTx,
           InOffer' \ {0} \subseteq InOffer, Numbers(espq') \ {0} \subseteq Numbers(espq)
    PROVE  EspOrder'
<1>1. EspOrder' =
        (/\ Rising(in') /\ Rising(espq')
         /\ Before(Numbers(in'), InTx') /\ Before(Numbers(in'), InOffer')
         /\ Before(Numbers(in'), Numbers(espq'))
         /\ Before(InTx', InOffer') /\ Before(InTx', Numbers(espq'))
         /\ Before(InOffer', Numbers(espq')))
  BY DEF EspOrder, Rising, Before, Numbers
<1> QED BY <1>1 DEF EspOrder, Before

LEMMA AppKeep ==
    ASSUME AppOrder, Rising(out'),
           InRecv' \ {0} \subseteq InRecv, OutTx' \ {0} \subseteq OutTx,
           Numbers(out') \ {0} \subseteq Numbers(out)
    PROVE  AppOrder'
  BY DEF AppOrder, Rising, Before, Numbers

\* Steps that move no message
LEMMA StillStep ==
    ASSUME DaemonInv,
           LookRts \/ HandleDone \/ ReadAlloc \/ ReadFails \/ RtsEdge \/ CtsEdge \/ AppOffer
             \/ TransferRest \/ Refused
    PROVE  EspOrder' /\ AppOrder' /\ OnWay' = OnWay /\ UNCHANGED <<sent, got, errs>>
<1> USE DEF queues, work, users, app, hist, Number
<1>1. UNCHANGED <<in, out, espq, sent, got, errs>>
  BY DEF LookRts, HandleDone, ReadAlloc, ReadFails, RtsEdge, CtsEdge, AppOffer, TransferRest, Refused
<1>2. InTx' = InTx
  BY DEF InTx, LookRts, HandleDone, ReadAlloc, ReadFails, RtsEdge, CtsEdge, AppOffer, TransferRest, Refused,
         Signalled
<1>3. InOffer' = InOffer
  BY DEF InOffer, LookRts, HandleDone, ReadAlloc, ReadFails, RtsEdge, CtsEdge, AppOffer, TransferRest, Refused
<1>4. InRecv' = InRecv
  BY DEF InRecv, LookRts, HandleDone, ReadAlloc, ReadFails, RtsEdge, CtsEdge, AppOffer, TransferRest, Refused
<1>5. OutTx' \ {0} = OutTx \ {0}
  BY MessageFacts DEF OutTx, LookRts, HandleDone, ReadAlloc, ReadFails, RtsEdge, CtsEdge, AppOffer,
         TransferRest, Refused, Signalled, DaemonInv, Told
<1>6. EspOrder'
  BY <1>1, <1>2, <1>3, EspKeep DEF DaemonInv, EspOrder
<1>7. AppOrder'
  BY <1>1, <1>4, <1>5, AppKeep DEF DaemonInv, AppOrder
<1>8. OnWay' = OnWay
  BY <1>1, <1>2, <1>3, <1>4, <1>5, SameWay DEF EspWay, AppWay
<1> QED BY <1>1, <1>6, <1>7, <1>8

\* The daemon takes a message of out for its next transfer.
LEMMA LookStep ==
    ASSUME DaemonInv, LookOut \/ Wake
    PROVE  EspOrder' /\ AppOrder' /\ OnWay' = OnWay /\ UNCHANGED <<sent, got, errs>>
<1> USE DEF app, hist, Number, LookOut, Wake
<1>1. UNCHANGED <<in, espq, sent, got, errs, task, offer, recv>>
  OBVIOUS
<1>2. InTx' = InTx /\ InOffer' = InOffer /\ InRecv' = InRecv
  BY <1>1 DEF InTx, InOffer, InRecv
<1>3. CASE UNCHANGED <<tx, out>> /\ worker' = "look"
  <2>1. OutTx' = OutTx
    BY <1>3 DEF OutTx
  <2> QED BY <1>1, <1>2, <1>3, <2>1, EspKeep, AppKeep, SameWay DEF DaemonInv, EspOrder, AppOrder, EspWay, AppWay
<1>4. CASE out # <<>> /\ tx' = Head(out) /\ out' = Tail(out) /\ worker' = "first"
  <2>1. Numbers(out) = {Head(out).n} \cup Numbers(out') /\ Rising(out') /\ Before({Head(out).n}, Numbers(out'))
    BY <1>4, TailNumbers DEF DaemonInv, DaemonOK, AppOrder
  <2>2. OutTx = {} /\ OutTx' = {Head(out).n}
    BY <1>4 DEF OutTx
  <2>3. AppOrder'
    BY <2>1, <2>2, <1>2 DEF DaemonInv, AppOrder, Before
  <2> QED BY <1>1, <1>2, <2>1, <2>2, <2>3, EspKeep, SameWay DEF DaemonInv, EspOrder, EspWay, AppWay
<1> QED BY <1>3, <1>4

\* The transfer takes a message each way.
LEMMA TransferStep ==
    ASSUME DaemonInv, Transfer
    PROVE  EspOrder' /\ AppOrder' /\ OnWay' = OnWay /\ UNCHANGED <<sent, got, errs>>
<1> USE DEF queues, hist, Number, Transfer
<1>1. UNCHANGED <<in, out, espq, sent, got, errs>>
  OBVIOUS
<1>2. InTx = {} /\ InTx' = {offer.n} /\ InOffer = {offer.n} /\ InOffer' = {}
  BY DEF InTx, InOffer
<1>3. InRecv = {} /\ InRecv' = {tx.n} /\ OutTx = {tx.n} /\ OutTx' = {}
  BY DEF InRecv, OutTx
<1>4. EspOrder'
  BY <1>1, <1>2 DEF DaemonInv, EspOrder, Before
<1>5. AppOrder'
  BY <1>1, <1>3 DEF DaemonInv, AppOrder, Before
<1>6. OnWay' = OnWay
  BY <1>1, <1>2, <1>3, SameWay DEF EspWay, AppWay
<1> QED BY <1>1, <1>4, <1>5, <1>6

\* The message of the ESP32 goes to the handler.
LEMMA DeliverStep ==
    ASSUME DaemonInv, Deliver
    PROVE  EspOrder' /\ AppOrder' /\ OnWay' = OnWay /\ UNCHANGED <<sent, got, errs>>
<1> USE DEF users, app, hist, Number, Deliver
<1>1. UNCHANGED <<out, espq, sent, got, errs>> /\ InOffer' = InOffer /\ InRecv' = InRecv /\ OutTx' = OutTx
  BY DEF InOffer, InRecv, OutTx
<1>2. InTx = {tx.n} /\ InTx' = {}
  BY DEF InTx
<1>3. AppOrder'
  BY <1>1, AppKeep DEF DaemonInv, AppOrder
<1>4. CASE tx = Empty
  BY <1>1, <1>2, <1>3, <1>4, EspKeep, SameWay, MessageFacts DEF DaemonInv, EspOrder, EspWay, AppWay
<1>5. CASE tx # Empty
  <2>1. Before(Numbers(in), {tx.n})
    BY <1>2 DEF DaemonInv, EspOrder
  <2>2. Numbers(in') = Numbers(in) \cup {tx.n} /\ Rising(in')
    BY <1>5, <2>1, AppendNumbers, AppendRises DEF DaemonInv, DaemonOK, EspOrder
  <2>3. EspOrder'
    BY <1>1, <1>2, <2>2 DEF DaemonInv, EspOrder, Before
  <2> QED BY <1>1, <1>2, <1>3, <2>2, <2>3, SameWay DEF EspWay, AppWay
<1> QED BY <1>4, <1>5

\* The ESP32's task takes its next message, or none.
LEMMA PopStep ==
    ASSUME DaemonInv, AppPop
    PROVE  EspOrder' /\ AppOrder' /\ OnWay' = OnWay /\ UNCHANGED <<sent, got, errs>>
<1> USE DEF queues, work, hist, Number, AppPop
<1>1. /\ UNCHANGED <<in, out, sent, got, errs>>
      /\ InTx' = InTx /\ InRecv' = InRecv /\ OutTx' = OutTx
  BY DEF InTx, InRecv, OutTx
<1>2. InOffer = {} /\ InOffer' = {offer'.n}
  BY DEF InOffer
<1>3. AppOrder'
  BY <1>1, AppKeep DEF DaemonInv, AppOrder
<1>4. CASE espq = <<>>
  BY <1>1, <1>2, <1>3, <1>4, EspKeep, SameWay, MessageFacts DEF DaemonInv, EspOrder, EspWay, AppWay, NoOffer
<1>5. CASE espq # <<>>
  <2>1. /\ Numbers(espq) = {offer'.n} \cup Numbers(espq') /\ Rising(espq')
        /\ Before({offer'.n}, Numbers(espq'))
    BY <1>5, TailNumbers DEF DaemonInv, DaemonOK, EspOrder
  <2>2. EspOrder'
    BY <1>1, <1>2, <2>1 DEF DaemonInv, EspOrder, Before
  <2> QED BY <1>1, <1>2, <1>3, <2>1, <2>2, SameWay DEF EspWay, AppWay
<1> QED BY <1>4, <1>5

LEMMA NumbersNat ==
    ASSUME DaemonOK PROVE EspWay \subseteq Nat /\ AppWay \subseteq Nat
<1>1. \A q \in Seq(Message) : Numbers(q) \subseteq Nat
  <2> SUFFICES ASSUME NEW q \in Seq(Message), NEW i \in DOMAIN q PROVE q[i].n \in Nat
    BY DEF Numbers
  <2>1. q[i] \in Message
    OBVIOUS
  <2> QED BY <2>1 DEF Message
<1>2. tx.n \in Nat /\ offer.n \in Nat /\ recv.n \in Nat
  BY DEF DaemonOK, Message
<1>3. Numbers(in) \subseteq Nat /\ Numbers(espq) \subseteq Nat /\ Numbers(out) \subseteq Nat
  BY <1>1 DEF DaemonOK
<1> QED BY <1>2, <1>3 DEF EspWay, AppWay, InTx, InOffer, InRecv, OutTx, Number

\* A message is in one stage only.
LEMMA Apart ==
    ASSUME NEW n \in Nat, n # 0, NEW A, Before({n}, A) \/ Before(A, {n})
    PROVE  n \notin A
  BY DEF Before

\* A transfer that goes wrong loses the message the daemon holds for it.
LEMMA FaultStep ==
    ASSUME DaemonInv, Premature \/ TransferFails
    PROVE  EspOrder' /\ AppOrder' /\ D!Fault
<1> USE DEF queues, users, app, hist, Number, Premature, TransferFails
<1>1. /\ UNCHANGED <<in, out, espq, sent, got, task, offer, recv>> /\ errs' = errs + 1
      /\ worker \in {"first", "second"} /\ worker' \in {"look", "garbled"}
  OBVIOUS
<1>2. InOffer' = InOffer /\ InRecv' = InRecv
  BY <1>1 DEF InOffer, InRecv
<1>3. InTx' = {} /\ OutTx' = {}
  BY <1>1 DEF InTx, OutTx
<1>4. EspOrder' /\ AppOrder'
  BY <1>1, <1>2, <1>3, EspKeep, AppKeep DEF DaemonInv, EspOrder, AppOrder
<1> DEFINE lost == [w \in Sender |-> IF (w = "esp") = (worker = "second") THEN tx.n ELSE 0]
<1>5. EspWay' \ {0} = EspWay \ {0, lost["esp"]}
  <2>1. CASE worker = "second"
    <3>1. InTx = {tx.n} /\ lost["esp"] = tx.n
      BY <2>1 DEF InTx, Sender
    <3>2. tx.n = 0 \/ tx.n \notin Numbers(in) \cup InOffer \cup Numbers(espq)
      <4>1. tx.n \in Nat
        BY DEF DaemonInv, DaemonOK, Message
      <4>2. Before(Numbers(in), {tx.n}) /\ Before({tx.n}, InOffer) /\ Before({tx.n}, Numbers(espq))
        BY <3>1 DEF DaemonInv, EspOrder
      <4> QED BY <4>1, <4>2, Apart
    <3> QED BY <3>1, <3>2, <1>1, <1>2, <1>3 DEF EspWay
  <2>2. CASE worker = "first"
    <3>1. InTx = {} /\ lost["esp"] = 0
      BY <2>2 DEF InTx, Sender
    <3> QED BY <3>1, <1>1, <1>2, <1>3 DEF EspWay
  <2> QED BY <1>1, <2>1, <2>2
<1>6. AppWay' \ {0} = AppWay \ {0, lost["app"]}
  <2>1. CASE worker = "first"
    <3>1. OutTx = {tx.n} /\ lost["app"] = tx.n
      BY <2>1 DEF OutTx, Sender
    <3>2. tx.n = 0 \/ tx.n \notin InRecv \cup Numbers(out)
      <4>1. tx.n \in Nat
        BY DEF DaemonInv, DaemonOK, Message
      <4>2. Before(InRecv, {tx.n}) /\ Before({tx.n}, Numbers(out))
        BY <3>1 DEF DaemonInv, AppOrder
      <4> QED BY <4>1, <4>2, Apart
    <3> QED BY <3>1, <3>2, <1>1, <1>2, <1>3 DEF AppWay
  <2>2. CASE worker = "second"
    <3>1. OutTx = {} /\ lost["app"] = 0
      BY <2>2 DEF OutTx, Sender
    <3> QED BY <3>1, <1>1, <1>2, <1>3 DEF AppWay
  <2> QED BY <1>1, <2>1, <2>2
<1>7. OnWay' = [w \in Sender |-> OnWay[w] \ {lost[w]}]
  <2>1. OnWay' = [w \in Sender |-> (IF w = "esp" THEN EspWay' ELSE AppWay') \ {0}]
    BY DEF OnWay, EspWay, AppWay
  <2>2. \A w \in Sender : (IF w = "esp" THEN EspWay' ELSE AppWay') \ {0} = OnWay[w] \ {lost[w]}
    <3>1. OnWay["esp"] = EspWay \ {0} /\ OnWay["app"] = AppWay \ {0}
      BY WayIs DEF Sender
    <3> HIDE DEF lost
    <3> QED BY <3>1, <1>5, <1>6 DEF Sender
  <2> HIDE DEF lost
  <2> QED BY <2>1, <2>2
<1>8. lost \in [Sender -> UNION {OnWay[w] \cup {0} : w \in Sender}]
  <2>1. tx.n \in OnWay["esp"] \cup {0} \/ tx.n \in OnWay["app"] \cup {0}
    <3>1. OnWay["esp"] = EspWay \ {0} /\ OnWay["app"] = AppWay \ {0}
      BY WayIs DEF Sender
    <3>2. tx.n \in InTx \/ tx.n \in OutTx
      BY <1>1 DEF InTx, OutTx
    <3> QED BY <3>1, <3>2 DEF EspWay, AppWay
  <2>2. {tx.n, 0} \subseteq UNION {OnWay[w] \cup {0} : w \in Sender}
    BY <2>1 DEF Sender
  <2> QED BY <2>2
<1> HIDE DEF lost
<1> QED BY <1>1, <1>4, <1>7, <1>8 DEF D!Fault

LEMMA HandleInStep ==
    ASSUME DaemonInv, HandleIn
    PROVE  EspOrder' /\ AppOrder' /\ D!Receive("esp")
<1> USE DEF work, app, Number, HandleIn
<1>1. UNCHANGED <<out, espq, sent, errs>> /\ got' = [got EXCEPT !["esp"] = Append(@, Head(in).n)]
  OBVIOUS
<1>2. InTx' = InTx /\ InOffer' = InOffer /\ InRecv' = InRecv /\ OutTx' = OutTx
  BY DEF InTx, InOffer, InRecv, OutTx
<1> DEFINE n == Head(in).n
<1>3. /\ Numbers(in) = {n} \cup Numbers(in') /\ Rising(in') /\ Before({n}, Numbers(in'))
      /\ n # 0 /\ n \in Nat
  BY TailNumbers DEF DaemonInv, DaemonOK, EspOrder, Told, Message
<1> HIDE DEF n
<1>4. EspOrder' /\ AppOrder'
  BY <1>1, <1>2, <1>3, EspKeep, AppKeep DEF DaemonInv, EspOrder, AppOrder
<1>5. EspWay' \ {0} = EspWay \ {0, n}
  <2>1. n \notin Numbers(in') \cup InTx \cup InOffer \cup Numbers(espq)
    BY <1>3 DEF DaemonInv, EspOrder, Before
  <2> QED BY <2>1, <1>1, <1>2, <1>3 DEF EspWay
<1>6. AppWay' = AppWay
  BY <1>1, <1>2 DEF AppWay
<1>7. n \in OnWay["esp"] /\ \A m \in OnWay["esp"] : n <= m
  <2>1. OnWay["esp"] = EspWay \ {0}
    BY WayIs DEF Sender
  <2>2. \A m \in EspWay \ {0} : m = n \/ n < m
    BY <1>3 DEF DaemonInv, EspOrder, Before, EspWay
  <2> QED BY <2>1, <2>2, <1>3, NumbersNat DEF EspWay, DaemonInv
<1>8. OnWay' = [OnWay EXCEPT !["esp"] = @ \ {n}]
  <2>1. OnWay' = [w \in Sender |-> (IF w = "esp" THEN EspWay' ELSE AppWay') \ {0}]
    BY DEF OnWay, EspWay, AppWay
  <2> QED BY <2>1, WayIs, <1>5, <1>6
<1> QED BY <1>1, <1>4, <1>7, <1>8 DEF D!Receive, n

LEMMA AppReceivedStep ==
    ASSUME DaemonInv, AppReceived
    PROVE  /\ EspOrder' /\ AppOrder'
           /\ D!Receive("app") \/ (OnWay' = OnWay /\ UNCHANGED <<sent, got, errs>>)
<1> USE DEF queues, work, Number, AppReceived
<1>1. /\ UNCHANGED <<in, out, espq, sent, errs>>
      /\ got' = IF recv.n = 0 THEN got ELSE [got EXCEPT !["app"] = Append(@, recv.n)]
  OBVIOUS
<1>2. InTx' = InTx /\ InOffer' = InOffer /\ OutTx' = OutTx /\ InRecv' = {} /\ InRecv = {recv.n}
  BY DEF InTx, InOffer, InRecv, OutTx
<1>3. EspOrder' /\ AppOrder'
  BY <1>1, <1>2, EspKeep, AppKeep DEF DaemonInv, EspOrder, AppOrder
<1>4. EspWay' = EspWay
  BY <1>1, <1>2 DEF EspWay
<1>5. CASE recv.n = 0
  <2>1. AppWay' \ {0} = AppWay \ {0}
    BY <1>1, <1>2, <1>5 DEF AppWay
  <2> QED BY <2>1, <1>1, <1>3, <1>4, <1>5, SameWay
<1>6. CASE recv.n # 0
  <2> DEFINE n == recv.n
  <2>0. n \in Nat /\ n # 0
    BY <1>6 DEF DaemonInv, DaemonOK, Message
  <2>1. AppWay' \ {0} = AppWay \ {0, n}
    <3>1. n \notin OutTx \cup Numbers(out)
      BY <2>0, <1>2 DEF DaemonInv, AppOrder, Before
    <3> QED BY <3>1, <1>1, <1>2 DEF AppWay
  <2>2. n \in OnWay["app"] /\ \A m \in OnWay["app"] : n <= m
    <3>1. OnWay["app"] = AppWay \ {0}
      BY WayIs DEF Sender
    <3>2. \A m \in AppWay \ {0} : m = n \/ n < m
      BY <2>0, <1>2 DEF DaemonInv, AppOrder, Before, AppWay
    <3> QED BY <3>1, <3>2, <2>0, <1>2, NumbersNat DEF AppWay, DaemonInv
  <2>3. OnWay' = [OnWay EXCEPT !["app"] = @ \ {n}]
    <3>1. OnWay' = [w \in Sender |-> (IF w = "esp" THEN EspWay' ELSE AppWay') \ {0}]
      BY DEF OnWay, EspWay, AppWay
    <3> HIDE DEF n
    <3> QED BY <3>1, WayIs, <2>1, <1>4 DEF Sender
  <2>4. got' = [got EXCEPT !["app"] = Append(@, n)]
    BY <1>1, <1>6
  <2> HIDE DEF n
  <2> QED BY <1>1, <1>3, <2>2, <2>3, <2>4 DEF D!Receive
<1> QED BY <1>5, <1>6

\* A new message has a number above all that are on their way.
LEMMA NewNumber ==
    ASSUME DaemonInv
    PROVE  /\ Before(EspWay, {sent["esp"] + 1}) /\ Before(AppWay, {sent["app"] + 1})
           /\ sent["esp"] + 1 \in Nat \ {0} /\ sent["app"] + 1 \in Nat \ {0}
<1>1. sent["esp"] \in Nat /\ sent["app"] \in Nat
  BY DEF DaemonInv, DaemonOK, Sender
<1>2. OnWay["esp"] = EspWay \ {0} /\ OnWay["app"] = AppWay \ {0}
  BY WayIs DEF Sender
<1>3. (\A n \in EspWay \ {0} : n <= sent["esp"]) /\ (\A n \in AppWay \ {0} : n <= sent["app"])
  BY <1>2 DEF DaemonInv, WasSent, Sender
<1>4. EspWay \subseteq Nat /\ AppWay \subseteq Nat
  BY NumbersNat DEF DaemonInv
<1> QED BY <1>1, <1>3, <1>4 DEF Before

LEMMA ReadPacketStep ==
    ASSUME DaemonInv, ReadPacket
    PROVE  /\ EspOrder' /\ AppOrder'
           /\ D!Send("app") \/ (OnWay' = OnWay /\ UNCHANGED <<sent, got, errs>>)
<1> USE DEF app, Number
<1>1. UNCHANGED <<in, espq, got, errs>> /\ InTx' = InTx /\ InOffer' = InOffer /\ InRecv' = InRecv /\ OutTx' = OutTx
  BY DEF ReadPacket, Signalled, InTx, InOffer, InRecv, OutTx
<1>2. EspOrder' /\ EspWay' = EspWay
  BY <1>1, EspKeep DEF DaemonInv, EspOrder, EspWay
<1>3. ASSUME NEW m \in Message, out' = Append(out, m), Before(AppWay, {m.n})
      PROVE  AppOrder' /\ AppWay' = AppWay \cup {m.n}
  <2>1. Numbers(out') = Numbers(out) \cup {m.n}
    BY <1>3, AppendNumbers DEF DaemonInv, DaemonOK
  <2>2. Before(Numbers(out), {m.n}) /\ Before(InRecv, {m.n}) /\ Before(OutTx, {m.n})
    BY <1>3 DEF AppWay, Before
  <2>3. Rising(out')
    BY <1>3, <2>2, AppendRises DEF DaemonInv, DaemonOK, AppOrder
  <2> QED BY <1>1, <2>1, <2>2, <2>3 DEF DaemonInv, AppOrder, AppWay, Before
<1>4. CASE out' = Append(out, Oversize) /\ UNCHANGED sent
  <2>1. AppOrder' /\ AppWay' = AppWay \cup {0}
    BY <1>3, <1>4, MessageFacts DEF Before
  <2> QED BY <1>1, <1>2, <1>4, <2>1, SameWay
<1>5. CASE sent' = [sent EXCEPT !["app"] = @ + 1] /\ \E z \in AppSize : out' = Append(out, Msg(sent.app + 1, z))
  <2>1. PICK z \in AppSize : out' = Append(out, Msg(sent.app + 1, z))
    BY <1>5
  <2> DEFINE m == Msg(sent.app + 1, z)
  <2>2. m \in Message /\ m.n = sent["app"] + 1
    BY MessageFacts, NewNumber
  <2> HIDE DEF m
  <2>3. AppOrder' /\ AppWay' = AppWay \cup {sent["app"] + 1}
    BY <1>3, <2>1, <2>2, NewNumber DEF m
  <2>4. OnWay' = [OnWay EXCEPT !["app"] = @ \cup {sent["app"] + 1}]
    <3>1. OnWay' = [w \in Sender |-> (IF w = "esp" THEN EspWay' ELSE AppWay') \ {0}]
      BY DEF OnWay, EspWay, AppWay
    <3>2. AppWay' \ {0} = (AppWay \ {0}) \cup {sent["app"] + 1}
      BY <2>3, NewNumber
    <3> QED BY <3>1, <3>2, WayIs, <1>2 DEF Sender
  <2> QED BY <1>1, <1>2, <1>5, <2>3, <2>4 DEF D!Send
<1> QED BY <1>4, <1>5 DEF ReadPacket

LEMMA AppSendStep ==
    ASSUME DaemonInv, AppSend
    PROVE  EspOrder' /\ AppOrder' /\ D!Send("esp")
<1> USE DEF queues, work, users, Number
<1>1. /\ UNCHANGED <<in, out, got, errs>> /\ sent' = [sent EXCEPT !["esp"] = @ + 1]
      /\ InTx' = InTx /\ InOffer' = InOffer /\ InRecv' = InRecv /\ OutTx' = OutTx
  BY DEF AppSend, InTx, InOffer, InRecv, OutTx
<1>2. AppOrder' /\ AppWay' = AppWay
  BY <1>1, AppKeep DEF DaemonInv, AppOrder, AppWay
<1>3. PICK z \in EspSize : espq' = Append(espq, Msg(sent.esp + 1, z))
  BY DEF AppSend
<1> DEFINE m == Msg(sent.esp + 1, z)
<1>4. m \in Message /\ m.n = sent["esp"] + 1
  BY MessageFacts, NewNumber
<1> HIDE DEF m
<1>5. Numbers(espq') = Numbers(espq) \cup {m.n}
  BY <1>3, <1>4, AppendNumbers DEF DaemonInv, DaemonOK, m
<1>6. Before(Numbers(in), {m.n}) /\ Before(InTx, {m.n}) /\ Before(InOffer, {m.n}) /\ Before(Numbers(espq), {m.n})
  BY <1>4, NewNumber DEF EspWay, Before
<1>7. Rising(espq')
  BY <1>3, <1>4, <1>6, AppendRises DEF DaemonInv, DaemonOK, EspOrder, m
<1>8. EspOrder' /\ EspWay' = EspWay \cup {sent["esp"] + 1}
  BY <1>1, <1>4, <1>5, <1>6, <1>7 DEF DaemonInv, EspOrder, EspWay, Before
<1>9. OnWay' = [OnWay EXCEPT !["esp"] = @ \cup {sent["esp"] + 1}]
  <2>1. OnWay' = [w \in Sender |-> (IF w = "esp" THEN EspWay' ELSE AppWay') \ {0}]
    BY DEF OnWay, EspWay, AppWay
  <2>2. EspWay' \ {0} = (EspWay \ {0}) \cup {sent["esp"] + 1}
    BY <1>8, NewNumber
  <2> QED BY <2>1, <2>2, WayIs, <1>2 DEF Sender
<1> QED BY <1>1, <1>2, <1>8, <1>9 DEF D!Send
-----------------------------------------------------------------------------
(* The refinement *)

\* Every step is a step of Duplex or leaves its state alone, and the order stays.
LEMMA DuplexStep ==
    ASSUME DaemonInv, [Next]_vars
    PROVE  EspOrder' /\ AppOrder' /\ [D!Next]_<<sent, OnWay, got, errs>>
<1>1. ASSUME OnWay' = OnWay, UNCHANGED <<sent, got, errs>> PROVE [D!Next]_<<sent, OnWay, got, errs>>
  BY <1>1
<1>2. CASE UNCHANGED vars
  <2> USE <1>2 DEF vars, queues, work, users, app, hist
  <2>1. EspOrder' /\ AppOrder'
    BY DEF DaemonInv, EspOrder, AppOrder, Rising, Before, Numbers, InTx, InOffer, InRecv, OutTx, Number
  <2>2. OnWay' = OnWay
    BY DEF OnWay, Numbers, InTx, InOffer, InRecv, OutTx, Number
  <2> QED BY <2>1, <2>2
<1>3. CASE LookRts \/ HandleDone \/ ReadAlloc \/ ReadFails \/ RtsEdge \/ CtsEdge \/ AppOffer
             \/ TransferRest \/ Refused
  BY <1>1, <1>3, StillStep
<1>4. CASE LookOut \/ Wake
  BY <1>1, <1>4, LookStep
<1>5. CASE Transfer
  BY <1>1, <1>5, TransferStep
<1>6. CASE Deliver
  BY <1>1, <1>6, DeliverStep
<1>7. CASE AppPop
  BY <1>1, <1>7, PopStep
<1>8. CASE Premature \/ TransferFails
  BY <1>8, FaultStep DEF D!Next
<1>9. CASE HandleIn
  BY <1>9, HandleInStep DEF D!Next, Sender
<1>10. CASE AppReceived
  BY <1>1, <1>10, AppReceivedStep DEF D!Next, Sender
<1>11. CASE ReadPacket
  BY <1>1, <1>11, ReadPacketStep DEF D!Next, Sender
<1>12. CASE AppSend
  BY <1>12, AppSendStep DEF D!Next, Sender
<1> QED
  BY <1>2, <1>3, <1>4, <1>5, <1>6, <1>7, <1>8, <1>9, <1>10, <1>11, <1>12 DEF Next, Work, Handle, Edge, App

LEMMA SentStep ==
    ASSUME DaemonOK, WasSent, [D!Next]_<<sent, OnWay, got, errs>>
    PROVE  WasSent'
<1>0. /\ OnWay' = [w \in Sender |-> OnWay'[w]] /\ OnWay = [w \in Sender |-> OnWay[w]]
      /\ \A w \in Sender : OnWay[w] \subseteq Nat
  BY NumbersNat, WayIs DEF OnWay
<1>1. CASE \A w \in Sender : OnWay'[w] \subseteq OnWay[w] /\ UNCHANGED sent
  BY <1>1 DEF WasSent
<1>2. ASSUME NEW v \in Sender, D!Send(v) PROVE WasSent'
  <2>1. sent' = [sent EXCEPT ![v] = @ + 1] /\ OnWay' = [OnWay EXCEPT ![v] = @ \cup {sent[v] + 1}]
    BY <1>2 DEF D!Send
  <2>2. \A w \in Sender : sent[w] \in Nat
    BY DEF DaemonOK
  <2> SUFFICES ASSUME NEW w \in Sender, NEW n \in OnWay'[w] PROVE n <= sent'[w]
    BY DEF WasSent
  <2>3. CASE w = v
    <3>1. sent'[w] = sent[w] + 1 /\ (n \in OnWay[w] \/ n = sent[w] + 1)
      BY <2>1, <2>3, <1>0 DEF DaemonOK
    <3> QED BY <3>1, <2>2, <1>0 DEF WasSent
  <2>4. CASE w # v
    <3>1. sent'[w] = sent[w] /\ n \in OnWay[w]
      BY <2>1, <2>4, <1>0 DEF DaemonOK
    <3> QED BY <3>1 DEF WasSent
  <2> QED BY <2>3, <2>4
<1>3. ASSUME NEW v \in Sender, D!Receive(v) PROVE WasSent'
  <2>1. PICK n : OnWay' = [OnWay EXCEPT ![v] = @ \ {n}]
    BY <1>3 DEF D!Receive
  <2> QED BY <2>1, <1>0, <1>1, <1>3 DEF D!Receive
<1>4. CASE D!Fault
  BY <1>0, <1>1, <1>4 DEF D!Fault
<1> QED BY <1>1, <1>2, <1>3, <1>4 DEF D!Next

LEMMA DaemonInit == Init => DaemonInv /\ D!Init
<1> SUFFICES ASSUME Init PROVE DaemonInv /\ D!Init
  OBVIOUS
<1> USE DEF Init
<1>1. DaemonOK
  BY MessageFacts, DaemonAssumption DEF DaemonOK, Sender
<1>2. /\ Numbers(in) = {} /\ Numbers(out) = {} /\ Numbers(espq) = {}
      /\ InTx = {} /\ OutTx = {} /\ InRecv = {} /\ InOffer \subseteq {0}
  BY MessageFacts DEF Numbers, InTx, OutTx, InRecv, InOffer, Number
<1>3. OnWay = [w \in Sender |-> {}]
  BY <1>2 DEF OnWay
<1>4. EspOrder /\ AppOrder
  BY <1>2 DEF EspOrder, AppOrder, Before, Rising
<1>5. Told /\ Handshake /\ WasSent
  BY <1>3 DEF Told, Real, Handshake, WasSent
<1> QED BY <1>1, <1>3, <1>4, <1>5 DEF DaemonInv, D!Init

LEMMA DaemonStep == DaemonInv /\ [Next]_vars => DaemonInv'
<1> SUFFICES ASSUME DaemonInv, [Next]_vars PROVE DaemonInv'
  OBVIOUS
<1>1. EspOrder' /\ AppOrder' /\ WasSent'
  BY DuplexStep, SentStep DEF DaemonInv
<1>2. CASE Next
  BY <1>1, <1>2, OKStep, HandshakeStep DEF DaemonInv
<1>3. CASE UNCHANGED vars
  <2>1. DaemonOK' /\ Told' /\ Handshake'
    BY <1>3 DEF DaemonInv, DaemonOK, Told, Real, Handshake, vars, queues, work, users, app, hist
  <2> QED BY <1>1, <2>1 DEF DaemonInv
<1> QED BY <1>2, <1>3

\* The messages of each way are in order in every stage, and the handshake is what it should be.
THEOREM DaemonInvariant == Spec => []DaemonInv
<1>1. Init => DaemonInv
  BY DaemonInit
<1> QED
  BY <1>1, DaemonStep, PTL DEF Spec

\* If the ESP32 was up first no transfer is clocked that it does not wait for, whatever the threads'
\* order: there is never a second token (_spi_xchg, spi_rtscts_handler).
THEOREM ClockedWhenReady == Spec => []ReadyWhenClocked
<1>1. DaemonInv => ReadyWhenClocked
  BY DEF DaemonInv, Handshake, ReadyWhenClocked
<1> QED
  BY <1>1, DaemonInvariant, PTL

\* Messages each way arrive once, and in the order they were sent, for any number of buffers and any
\* sizes; a transfer that goes wrong loses at most one each way (spi.c, app.c).
THEOREM DaemonImplementsDuplex == Spec => Implements
<1>1. Init => D!Init
  BY DaemonInit
<1>2. DaemonInv /\ [Next]_vars => [D!Next]_<<sent, OnWay, got, errs>>
  BY DuplexStep
<1> QED
  BY <1>1, <1>2, DaemonInvariant, PTL DEF Spec, Implements, D!Spec
=============================================================================

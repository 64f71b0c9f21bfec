--------------------------- MODULE SpiLink_proofs ---------------------------
(***************************************************************************)
(* Proofs about the FE310's side of the link by itself and about its two   *)
(* ends together, for any set of buffers, queue sizes and messages.        *)
(*                                                                         *)
(* EosNet: the state is typed, every buffer is in one place, and the       *)
(* reservations are counted.  These hold together with what Control says   *)
(* of the main loop at each of its places, so they are one inductive       *)
(* invariant.                                                              *)
(*                                                                         *)
(* SpiLink: the composed link implements EosNet, the FE310's side in an    *)
(* environment that raises CTS once per exchange and never during one.     *)
(* What the theorems of EosNet say of the FE310 therefore holds here, and  *)
(* with it what the two ends promise each other: messages arrive once and  *)
(* in order in both directions, and a reply belongs to its request.        *)
(***************************************************************************)
EXTENDS SpiLink, SequenceTheorems, FiniteSetTheorems, TLAPS

(***************************************************************************)
(* EosNet: the FE310's side                                                *)
(***************************************************************************)

\* What holds at each place of the main loop.
Control ==
    /\ pc = "loop" => ev = "none"
    /\ pc \in {"loop", "dispatch", "acquire", "requeue"} => ~acquired
    /\ pc \in {"loop", "dispatch", "requeue", "release"} => credit = "none" /\ ~dev /\ held = {}
    /\ pc \in {"dispatch", "requeue"} => ev \in Wrapped
    /\ pc = "acquire" => ev \in acq \/ ev \in Explicit
    /\ pc = "requeue" => ev \in acq
    /\ pc = "release" => acquired
    /\ pc \in {"pause", "cts1", "cts2", "done"} => op.buf \in held /\ ~dev
    /\ pc \in {"cts1", "cts2", "done", "stopping"} => ~run
    /\ pc \in {"reselect", "stopping"} => ~dev
    /\ sync <=> pc \in {"cts2", "done"}
    /\ acquired => ev \in Event

\* An exchange has a buffer, and the ESP32 is not ready for another one.
Link ==
    /\ xchg # "idle" => ~cts /\ stBuf \in Buffer
    /\ xchg # "idle" /\ sync => stBuf = op.buf

IndInv ==
    /\ TypeOK /\ Control /\ Link
    /\ OneOwner /\ Reservations
    /\ SendsStarted /\ AcquireHonoured /\ BusOwned

-----------------------------------------------------------------------------
(* Queues *)

\* What Append does to the elements of a queue.
LEMMA AppendElems ==
    ASSUME NEW S, NEW s \in Seq(S), NEW e \in S
    PROVE  /\ Append(s, e) \in Seq(S)
           /\ Elems(Append(s, e)) = Elems(s) \cup {e}
           /\ Distinct(s) /\ e \notin Elems(s) => Distinct(Append(s, e))
<1>1. /\ Append(s, e) \in Seq(S) /\ Len(Append(s, e)) = Len(s) + 1
      /\ DOMAIN Append(s, e) = 1..(Len(s) + 1) /\ DOMAIN s = 1..Len(s) /\ Len(s) \in Nat
      /\ \A i \in 1..Len(s) : Append(s, e)[i] = s[i]
      /\ Append(s, e)[Len(s) + 1] = e
  BY AppendProperties, LenProperties
<1> QED
  BY <1>1 DEF Elems, Distinct

\* What Append does to the buffers of a queue of items.
LEMMA AppendBufs ==
    ASSUME NEW S, NEW s \in Seq(S), NEW e \in S
    PROVE  /\ Append(s, e) \in Seq(S)
           /\ Bufs(Append(s, e)) = Bufs(s) \cup ({e.buf} \ {NoBuf})
           /\ DistinctBufs(s) /\ e.buf \notin Bufs(s) => DistinctBufs(Append(s, e))
<1>1. /\ Append(s, e) \in Seq(S) /\ Len(Append(s, e)) = Len(s) + 1
      /\ DOMAIN Append(s, e) = 1..(Len(s) + 1) /\ DOMAIN s = 1..Len(s) /\ Len(s) \in Nat
      /\ \A i \in 1..Len(s) : Append(s, e)[i] = s[i]
      /\ Append(s, e)[Len(s) + 1] = e
  BY AppendProperties, LenProperties
<1> QED
  BY <1>1 DEF Bufs, DistinctBufs

\* What Head and Tail do to the elements of a queue.
LEMMA TailElems ==
    ASSUME NEW S, NEW s \in Seq(S), s # <<>>
    PROVE  /\ Head(s) \in S /\ Tail(s) \in Seq(S)
           /\ Elems(s) = Elems(Tail(s)) \cup {Head(s)}
           /\ Distinct(s) => Distinct(Tail(s)) /\ Head(s) \notin Elems(Tail(s))
<1>1. /\ Head(s) \in S /\ Tail(s) \in Seq(S) /\ Head(s) = s[1]
      /\ DOMAIN s = 1..Len(s) /\ Len(s) \in Nat /\ Len(s) # 0
      /\ DOMAIN Tail(s) = 1..(Len(s) - 1)
      /\ \A i \in 1..(Len(s) - 1) : Tail(s)[i] = s[i + 1]
  BY HeadTailProperties, LenProperties, EmptySeq
<1>2. \A i \in 1..Len(s) : i = 1 \/ (i - 1 \in 1..(Len(s) - 1) /\ (i - 1) + 1 = i)
  BY <1>1
<1>3. Elems(s) = Elems(Tail(s)) \cup {Head(s)}
  <2>1. ASSUME NEW i \in DOMAIN s
        PROVE  s[i] = Head(s) \/ \E j \in DOMAIN Tail(s) : s[i] = Tail(s)[j]
    BY <1>1, <1>2
  <2>2. ASSUME NEW j \in DOMAIN Tail(s) PROVE \E i \in DOMAIN s : Tail(s)[j] = s[i]
    BY <1>1
  <2>3. \E i \in DOMAIN s : Head(s) = s[i]
    BY <1>1
  <2>4. ASSUME NEW x \in Elems(s) PROVE x \in Elems(Tail(s)) \/ x = Head(s)
    <3>1. PICK i \in DOMAIN s : x = s[i]
      BY DEF Elems
    <3> QED
      BY <3>1, <2>1 DEF Elems
  <2>5. ASSUME NEW x \in Elems(Tail(s)) PROVE x \in Elems(s)
    <3>1. PICK j \in DOMAIN Tail(s) : x = Tail(s)[j]
      BY DEF Elems
    <3> QED
      BY <3>1, <2>2 DEF Elems
  <2>6. Head(s) \in Elems(s)
    BY <2>3 DEF Elems
  <2> QED
    BY <2>4, <2>5, <2>6
<1>4. ASSUME Distinct(s) PROVE Distinct(Tail(s)) /\ Head(s) \notin Elems(Tail(s))
  BY <1>1, <1>4 DEF Elems, Distinct
<1> QED
  BY <1>1, <1>3, <1>4

\* What Head and Tail do to the buffers of a queue of items.
LEMMA TailBufs ==
    ASSUME NEW S, NEW s \in Seq(S), s # <<>>
    PROVE  /\ Head(s) \in S /\ Tail(s) \in Seq(S)
           /\ Bufs(s) = Bufs(Tail(s)) \cup ({Head(s).buf} \ {NoBuf})
           /\ DistinctBufs(s) => DistinctBufs(Tail(s)) /\ Head(s).buf \notin Bufs(Tail(s))
<1>1. /\ Head(s) \in S /\ Tail(s) \in Seq(S) /\ Head(s) = s[1]
      /\ DOMAIN s = 1..Len(s) /\ Len(s) \in Nat /\ Len(s) # 0
      /\ DOMAIN Tail(s) = 1..(Len(s) - 1)
      /\ \A i \in 1..(Len(s) - 1) : Tail(s)[i] = s[i + 1]
  BY HeadTailProperties, LenProperties, EmptySeq
<1>2. \A i \in 1..Len(s) : i = 1 \/ (i - 1 \in 1..(Len(s) - 1) /\ (i - 1) + 1 = i)
  BY <1>1
<1>3. Bufs(s) = Bufs(Tail(s)) \cup ({Head(s).buf} \ {NoBuf})
  <2>1. ASSUME NEW i \in 1..Len(s)
        PROVE  s[i] = Head(s) \/ \E j \in DOMAIN Tail(s) : s[i] = Tail(s)[j]
    BY <1>1, <1>2
  <2>2. ASSUME NEW j \in DOMAIN Tail(s) PROVE \E i \in 1..Len(s) : Tail(s)[j] = s[i]
    BY <1>1
  <2> QED
    BY <1>1, <2>1, <2>2 DEF Bufs
<1>4. ASSUME DistinctBufs(s) PROVE DistinctBufs(Tail(s)) /\ Head(s).buf \notin Bufs(Tail(s))
  BY <1>1, <1>4 DEF Bufs, DistinctBufs
<1> QED
  BY <1>1, <1>3, <1>4

\* The buffers of the queues are buffers.
LEMMA QueuesHoldBuffers ==
    ASSUME TypeOK
    PROVE  Free \subseteq Buffer /\ Sending \subseteq Buffer /\ Received \subseteq Buffer
<1>1. \A i \in DOMAIN bufq : bufq[i] \in Buffer
  BY ElementOfSeq DEF TypeOK
<1>2. \A i \in DOMAIN sendq : sendq[i] \in SendItem
  BY ElementOfSeq DEF TypeOK
<1>3. \A i \in DOMAIN evtq : evtq[i] \in EvtItem
  BY ElementOfSeq DEF TypeOK
<1> QED
  BY <1>1, <1>2, <1>3 DEF Free, Sending, Received, Elems, Bufs, SendItem, EvtItem

-----------------------------------------------------------------------------
(* What an exchange started by net_xchg_next takes and leaves *)

\* The buffer of an exchange that net_xchg_next has started
Taken == IF xchg' # "idle" THEN {stBuf'} ELSE {}

\* net_xchg_next takes at most one buffer from the queues and the one it is
\* given, and leaves CTS up only if nothing waits to be sent.
LEMMA NextEffect ==
    ASSUME TypeOK, OneOwner, xchg = "idle",
           NEW given \in Buffer \cup {NoBuf}, given \notin Free, given \notin Sending,
           NetXchgNext(given)
    PROVE  /\ cts' \in BOOLEAN /\ xchg' \in {"idle", "init"} /\ onew' \in BOOLEAN
           /\ stType' \in {"none", "msg"} /\ stBuf' \in Buffer \cup {NoBuf}
           /\ bufq' \in Seq(Buffer) /\ sendq' \in Seq(SendItem)
           /\ xchg' # "idle" => ~cts' /\ stBuf' \in Buffer
           /\ cts' => sendq' = <<>>
           /\ Distinct(bufq') /\ DistinctBufs(sendq')
           /\ Free' \cup Sending' \cup Taken = Free \cup Sending \cup ({given} \ {NoBuf})
           /\ Free' \cap Sending' = {} /\ Free' \cap Taken = {} /\ Sending' \cap Taken = {}
<1> DEFINE back == IF given = NoBuf THEN bufq ELSE Append(bufq, given)
<1>0. /\ bufq \in Seq(Buffer) /\ sendq \in Seq(SendItem) /\ onew \in BOOLEAN
      /\ stType \in {"none", "msg"} /\ stBuf \in Buffer \cup {NoBuf} /\ NoBuf \notin Buffer
      /\ Distinct(bufq) /\ DistinctBufs(sendq) /\ Free \cap Sending = {}
      /\ Free \subseteq Buffer /\ Sending \subseteq Buffer
  BY BufferAssumption, QueuesHoldBuffers DEF TypeOK, OneOwner
<1>1. /\ back \in Seq(Buffer) /\ Elems(back) = Free \cup ({given} \ {NoBuf}) /\ Distinct(back)
  <2>1. CASE given = NoBuf
    BY <2>1, <1>0 DEF Free
  <2>2. CASE given # NoBuf
    <3>1. given \in Buffer /\ given \notin Elems(bufq)
      BY <2>2 DEF Free
    <3> QED
      BY <2>2, <3>1, <1>0, AppendElems DEF Free
  <2> QED
    BY <2>1, <2>2
<1>2. CASE /\ sendq # <<>>
           /\ NetXchgStart(Head(sendq).onew, Head(sendq).buf)
           /\ sendq' = Tail(sendq)
           /\ bufq' = back
  <2>1. /\ Head(sendq) \in SendItem /\ Tail(sendq) \in Seq(SendItem)
        /\ Sending = Bufs(Tail(sendq)) \cup {Head(sendq).buf}
        /\ DistinctBufs(Tail(sendq)) /\ Head(sendq).buf \notin Bufs(Tail(sendq))
        /\ Head(sendq).buf \in Buffer /\ Head(sendq).onew \in BOOLEAN
    <3>1. /\ Head(sendq) \in SendItem /\ Tail(sendq) \in Seq(SendItem)
          /\ Bufs(sendq) = Bufs(Tail(sendq)) \cup ({Head(sendq).buf} \ {NoBuf})
          /\ DistinctBufs(Tail(sendq)) /\ Head(sendq).buf \notin Bufs(Tail(sendq))
      BY <1>0, <1>2, TailBufs
    <3>2. Head(sendq).buf \in Buffer /\ Head(sendq).onew \in BOOLEAN
      BY <3>1 DEF SendItem
    <3> QED
      BY <3>1, <3>2, <1>0 DEF Sending
  <2>2. /\ cts' = FALSE /\ xchg' = "init" /\ onew' \in BOOLEAN /\ stType' = "none"
        /\ stBuf' = Head(sendq).buf
    BY <1>2, <1>0, <2>1 DEF NetXchgStart, OneWay, Short
  <2>3. Free' = Elems(back) /\ Sending' = Bufs(Tail(sendq)) /\ Taken = {Head(sendq).buf}
    BY <1>2, <2>2 DEF Free, Sending, Taken
  <2> QED
    BY <1>0, <1>1, <1>2, <2>1, <2>2, <2>3
<1>3. CASE /\ sendq = <<>> /\ rts /\ back # <<>>
           /\ NetXchgStart(FALSE, IF given = NoBuf THEN Head(bufq) ELSE given)
           /\ bufq' = IF given = NoBuf THEN Tail(bufq) ELSE bufq
           /\ UNCHANGED sendq
  <2>1. Sending = {} /\ Sending' = {} /\ sendq' \in Seq(SendItem) /\ DistinctBufs(sendq')
    BY <1>0, <1>3 DEF Sending, Bufs
  <2>2. CASE given = NoBuf
    <3>1. /\ Head(bufq) \in Buffer /\ Tail(bufq) \in Seq(Buffer)
          /\ Elems(bufq) = Elems(Tail(bufq)) \cup {Head(bufq)}
          /\ Distinct(Tail(bufq)) /\ Head(bufq) \notin Elems(Tail(bufq))
      BY <1>0, <1>3, <2>2, TailElems
    <3>2. /\ cts' = FALSE /\ xchg' = "init" /\ onew' \in BOOLEAN /\ stType' = "none"
          /\ stBuf' = Head(bufq) /\ bufq' = Tail(bufq)
      BY <1>3, <1>0, <2>2 DEF NetXchgStart, OneWay, Short
    <3>3. Free' = Elems(Tail(bufq)) /\ Taken = {Head(bufq)} /\ Free = Elems(bufq)
      BY <3>2 DEF Free, Taken
    <3> QED
      BY <1>0, <2>1, <2>2, <3>1, <3>2, <3>3
  <2>3. CASE given # NoBuf
    <3>2. /\ cts' = FALSE /\ xchg' = "init" /\ onew' \in BOOLEAN /\ stType' = "none"
          /\ stBuf' = given /\ bufq' = bufq
      BY <1>3, <1>0, <2>3 DEF NetXchgStart, OneWay, Short
    <3>3. Free' = Free /\ Taken = {given}
      BY <3>2 DEF Free, Taken
    <3> QED
      BY <1>0, <2>1, <2>3, <3>2, <3>3
  <2> QED
    BY <2>2, <2>3
<1>4. CASE /\ sendq = <<>> /\ (~rts \/ back = <<>>)
           /\ cts' = TRUE
           /\ bufq' = back
           /\ UNCHANGED <<xchg, onew, stType, stBuf, sendq>>
  <2>1. Sending' = Sending /\ Free' = Elems(back) /\ Taken = {} /\ Sending = {}
    BY <1>4 DEF Sending, Free, Taken, Bufs
  <2> QED
    BY <1>0, <1>1, <1>4, <2>1
<1> HIDE DEF back
<1> QED
  BY <1>2, <1>3, <1>4 DEF NetXchgNext, back

-----------------------------------------------------------------------------
(* What an action keeps by leaving its state alone *)

\* A step that moves no buffer keeps them where they are.
LEMMA OneOwnerStays ==
    ASSUME OneOwner, UNCHANGED <<bufq, sendq, evtq, nextBuf, held, lost>>, OnWire' = OnWire
    PROVE  OneOwner'
<1>1. Free' = Free /\ Sending' = Sending /\ Received' = Received /\ Reserved' = Reserved
  BY DEF Free, Sending, Received, Reserved, Elems, Bufs
<1> QED
  BY <1>1 DEF OneOwner, Distinct, DistinctBufs

\* A step that makes no acquisition and ends none keeps their count.
LEMMA ReservationsStay ==
    ASSUME Reservations, UNCHANGED <<nextCnt, acq, ev, acquired>>,
           pc' = "acquire" <=> pc = "acquire"
    PROVE  Reservations'
BY DEF Reservations, Owed, OwedExplicit

\* The main loop's facts do not depend on what interrupts change.
LEMMA ControlStays ==
    ASSUME Control, UNCHANGED <<run, sync, acq, pc, ev, acquired, held, credit, op, dev>>
    PROVE  Control'
BY DEF Control

\* A step that starts an exchange with net_xchg_next on the idle link, or
\* leaves it idle, and takes the given buffer from the application.
LEMMA NextOwner ==
    ASSUME TypeOK, OneOwner, xchg = "idle",
           NEW given \in Buffer \cup {NoBuf}, given \in held \cup {NoBuf},
           NetXchgNext(given), ~sync',
           UNCHANGED <<evtq, nextBuf, lost>>, held' = held \ {given}
    PROVE  OneOwner'
<1>1. given \notin Free /\ given \notin Sending /\ NoBuf \notin Buffer
  BY BufferAssumption, QueuesHoldBuffers DEF OneOwner
<1>2. /\ Distinct(bufq') /\ DistinctBufs(sendq') /\ xchg' \in {"idle", "init"}
      /\ Free' \cup Sending' \cup Taken = Free \cup Sending \cup ({given} \ {NoBuf})
      /\ Free' \cap Sending' = {} /\ Free' \cap Taken = {} /\ Sending' \cap Taken = {}
  BY <1>1, NextEffect
<1>3. OnWire' = Taken /\ OnWire = {} /\ Received' = Received /\ Reserved' = Reserved
  BY DEF OnWire, Taken, Received, Reserved, Bufs
<1>4. DistinctBufs(evtq')
  BY DEF OneOwner, DistinctBufs
<1>5. NoBuf \notin held
  BY <1>1 DEF TypeOK
<1> DEFINE G == {given} \ {NoBuf}
<1>6. held = held' \cup G /\ held' \cap G = {}
  BY <1>5
<1> HIDE DEF G
<1>7. /\ Buffer = Free \cup Sending \cup Received \cup Reserved \cup held \cup lost
      /\ Free \cap (Sending \cup Received \cup Reserved \cup held \cup lost) = {}
      /\ Sending \cap (Received \cup Reserved \cup held \cup lost) = {}
      /\ Received \cap (Reserved \cup held \cup lost) = {}
      /\ Reserved \cap (held \cup lost) = {}
      /\ held \cap lost = {}
  BY <1>3 DEF OneOwner
<1>8. Free' \cup Sending' \cup Taken = Free \cup Sending \cup G
  BY <1>2 DEF G
<1> QED
  BY <1>2, <1>3, <1>4, <1>6, <1>7, <1>8 DEF OneOwner

-----------------------------------------------------------------------------
(* Interrupts keep the invariant *)

LEMMA HandleCtsInv == ASSUME IndInv, HandleCts PROVE IndInv'
<1>0. /\ TypeOK /\ Control /\ Link /\ OneOwner /\ Reservations
      /\ SendsStarted /\ AcquireHonoured /\ BusOwned
  BY DEF IndInv
<1>1. /\ ~cts /\ xchg = "idle"
      /\ UNCHANGED <<run, sync, rts, evtq, nextCnt, nextBuf, acq, pc, ev, acquired, held>>
      /\ UNCHANGED <<credit, op, dev, ops, armed, dropped, lost>>
  BY DEF HandleCts, CtsHandler, flags, resv, main, srcs
<1>2. Control' /\ Reservations' /\ AcquireHonoured'
  BY <1>0, <1>1, ControlStays, ReservationsStay DEF AcquireHonoured
<1>3. CASE run
  <2>1. NetXchgNext(NoBuf) /\ ~sync
    BY <1>0, <1>3 DEF HandleCts, CtsHandler, Control
  <2>2. NoBuf \notin Free /\ NoBuf \notin Sending
    BY <1>0, BufferAssumption, QueuesHoldBuffers
  <2>3. /\ cts' \in BOOLEAN /\ xchg' \in {"idle", "init"} /\ onew' \in BOOLEAN
        /\ stType' \in {"none", "msg"} /\ stBuf' \in Buffer \cup {NoBuf}
        /\ bufq' \in Seq(Buffer) /\ sendq' \in Seq(SendItem)
        /\ xchg' # "idle" => ~cts' /\ stBuf' \in Buffer
        /\ cts' => sendq' = <<>>
    BY <1>0, <1>1, <2>1, <2>2, NextEffect
  <2>4. OneOwner'
    <3>1. NoBuf \notin held
      BY <1>0, BufferAssumption DEF TypeOK
    <3> QED
      BY <1>0, <1>1, <2>1, <3>1, NextOwner
  <2>5. TypeOK'
    BY <1>0, <1>1, <2>3 DEF TypeOK
  <2>6. Link' /\ SendsStarted' /\ BusOwned'
    BY <1>0, <1>1, <1>3, <2>1, <2>3 DEF Link, SendsStarted, BusOwned
  <2> QED
    BY <1>2, <2>4, <2>5, <2>6 DEF IndInv
<1>4. CASE ~run
  <2>1. cts' = TRUE /\ UNCHANGED <<xchg, onew, stType, stBuf, bufq, sendq>>
    BY <1>4 DEF HandleCts, CtsHandler
  <2>2. OneOwner'
    BY <1>0, <1>1, <2>1, OneOwnerStays DEF OnWire
  <2>3. TypeOK'
    BY <1>0, <1>1, <2>1 DEF TypeOK
  <2>4. Link' /\ SendsStarted' /\ BusOwned'
    BY <1>0, <1>1, <1>4, <2>1 DEF Link, SendsStarted, BusOwned
  <2> QED
    BY <1>2, <2>2, <2>3, <2>4 DEF IndInv
<1> QED
  BY <1>3, <1>4

LEMMA HandleRtsRiseInv == ASSUME IndInv, HandleRtsRise PROVE IndInv'
<1>0. /\ TypeOK /\ Control /\ Link /\ OneOwner /\ Reservations
      /\ SendsStarted /\ AcquireHonoured /\ BusOwned
  BY DEF IndInv
<1>1. /\ rts' = TRUE /\ cts' = (cts /\ ~run)
      /\ UNCHANGED <<run, sync, xchg, onew, stType, stBuf, bufq, sendq, evtq>>
      /\ UNCHANGED <<nextCnt, nextBuf, acq, pc, ev, acquired, held>>
      /\ UNCHANGED <<credit, op, dev, ops, armed, dropped, lost>>
  BY DEF HandleRtsRise, RtsLeavesCts, flags, resv, main, srcs
<1>2. Control' /\ Reservations'
  BY <1>0, <1>1, ControlStays, ReservationsStay
<1>3. OneOwner'
  BY <1>0, <1>1, OneOwnerStays DEF OnWire
<1>4. TypeOK'
  BY <1>0, <1>1 DEF TypeOK
<1>5. Link' /\ SendsStarted' /\ BusOwned' /\ AcquireHonoured'
  BY <1>0, <1>1 DEF Link, SendsStarted, BusOwned, AcquireHonoured
<1> QED
  BY <1>2, <1>3, <1>4, <1>5 DEF IndInv

LEMMA HandleRtsFallInv == ASSUME IndInv, HandleRtsFall PROVE IndInv'
<1>0. /\ TypeOK /\ Control /\ Link /\ OneOwner /\ Reservations
      /\ SendsStarted /\ AcquireHonoured /\ BusOwned
  BY DEF IndInv
<1>1. /\ rts' = FALSE
      /\ UNCHANGED <<run, sync, cts, xchg, onew, stType, stBuf, bufq, sendq, evtq>>
      /\ UNCHANGED <<nextCnt, nextBuf, acq, pc, ev, acquired, held>>
      /\ UNCHANGED <<credit, op, dev, ops, armed, dropped, lost>>
  BY DEF HandleRtsFall, RtsFallHandler, flags, link, resv, main, srcs
<1>2. Control' /\ Reservations'
  BY <1>0, <1>1, ControlStays, ReservationsStay
<1>3. OneOwner'
  BY <1>0, <1>1, OneOwnerStays DEF OnWire
<1>4. TypeOK'
  BY <1>0, <1>1 DEF TypeOK
<1>5. Link' /\ SendsStarted' /\ BusOwned' /\ AcquireHonoured'
  BY <1>0, <1>1 DEF Link, SendsStarted, BusOwned, AcquireHonoured
<1> QED
  BY <1>2, <1>3, <1>4, <1>5 DEF IndInv

LEMMA HandleHeaderInv == ASSUME IndInv, NEW h \in Header, HandleHeader(h) PROVE IndInv'
<1>0. /\ TypeOK /\ Control /\ Link /\ OneOwner /\ Reservations
      /\ SendsStarted /\ AcquireHonoured /\ BusOwned
  BY DEF IndInv
<1>1. /\ xchg = "init" /\ stType' \in {"none", "msg"}
      /\ UNCHANGED <<run, sync, rts, cts, onew, stBuf, bufq, sendq, evtq>>
      /\ UNCHANGED <<nextCnt, nextBuf, acq, pc, ev, acquired, held>>
      /\ UNCHANGED <<credit, op, dev, ops, armed, dropped>>
      /\ \/ xchg' = "data" /\ UNCHANGED lost
         \/ xchg' = "idle" /\ lost' = IF ~sync THEN lost \cup {stBuf} ELSE lost
  BY DEF HandleHeader, flags, resv, main, srcs
<1>2. Control' /\ Reservations'
  BY <1>0, <1>1, ControlStays, ReservationsStay
<1>3. OneOwner'
  <2>1. CASE OnWire' = OnWire /\ UNCHANGED lost
    BY <1>0, <1>1, <2>1, OneOwnerStays
  <2>2. CASE xchg' = "idle" /\ ~sync /\ lost' = lost \cup {stBuf}
    <3>1. Free' = Free /\ Sending' = Sending /\ Received' = Received /\ Reserved' = Reserved
      BY <1>1 DEF Free, Sending, Received, Reserved, Elems, Bufs
    <3>2. OnWire = {stBuf} /\ OnWire' = {}
      BY <1>1, <2>2 DEF OnWire
    <3>3. Distinct(bufq') /\ DistinctBufs(sendq') /\ DistinctBufs(evtq')
      BY <1>0, <1>1 DEF OneOwner
    <3> QED
      BY <1>0, <1>1, <2>2, <3>1, <3>2, <3>3 DEF OneOwner
  <2> QED
    BY <1>1, <2>1, <2>2 DEF OnWire
<1>4. TypeOK'
  BY <1>0, <1>1 DEF TypeOK, Link
<1>5. Link' /\ SendsStarted' /\ BusOwned' /\ AcquireHonoured'
  BY <1>0, <1>1 DEF Link, SendsStarted, BusOwned, AcquireHonoured
<1> QED
  BY <1>2, <1>3, <1>4, <1>5 DEF IndInv

LEMMA HandleDoneInv == ASSUME IndInv, HandleDone PROVE IndInv'
<1>0. /\ TypeOK /\ Control /\ Link /\ OneOwner /\ Reservations
      /\ SendsStarted /\ AcquireHonoured /\ BusOwned
  BY DEF IndInv
<1>1. /\ xchg = "data" /\ xchg' = "idle" /\ onew' = FALSE
      /\ UNCHANGED <<run, sync, rts, cts, stType, stBuf, sendq, nextCnt, acq, pc, ev>>
      /\ UNCHANGED <<acquired, held, credit, op, dev, ops, armed, dropped, lost>>
  BY DEF HandleDone, flags, main, srcs
<1>2. Control' /\ Reservations'
  BY <1>0, <1>1, ControlStays, ReservationsStay
<1>3. Link' /\ SendsStarted' /\ BusOwned'
  BY <1>0, <1>1 DEF Link, SendsStarted, BusOwned
<1>4. CASE sync
  <2>1. UNCHANGED <<evtq, bufq, nextBuf>>
    BY <1>4 DEF HandleDone
  <2>2. OneOwner' /\ AcquireHonoured'
    BY <1>0, <1>1, <1>4, <2>1, OneOwnerStays DEF OnWire, AcquireHonoured
  <2>3. TypeOK'
    BY <1>0, <1>1, <2>1 DEF TypeOK
  <2> QED
    BY <1>2, <1>3, <2>2, <2>3 DEF IndInv
<1>5. CASE ~sync
  <2> DEFINE item == [type |-> "net", buf |-> stBuf]
  <2>1. Deliver(stBuf) /\ stBuf \in Buffer /\ OnWire = {stBuf} /\ OnWire' = {}
    BY <1>0, <1>1, <1>5 DEF HandleDone, OnWire, Link
  <2>2. /\ stBuf \notin Free /\ stBuf \notin Sending /\ stBuf \notin Received
        /\ stBuf \notin Reserved /\ NoBuf \notin Buffer
        /\ item \in EvtItem /\ item.buf = stBuf
        /\ bufq \in Seq(Buffer) /\ evtq \in Seq(EvtItem)
    BY <1>0, <2>1, BufferAssumption DEF OneOwner, TypeOK, EvtItem
  <2> HIDE DEF item
  <2>3. /\ bufq' \in Seq(Buffer) /\ evtq' \in Seq(EvtItem) /\ nextBuf' \in Buffer \cup {NoBuf}
        /\ Distinct(bufq') /\ DistinctBufs(evtq')
        /\ nextBuf # NoBuf => nextBuf' # NoBuf
        /\ \/ Received' = Received \cup {stBuf} /\ Free' = Free /\ Reserved' = Reserved
           \/ Received' = Received /\ Free' = Free \cup {stBuf} /\ Reserved' = Reserved
           \/ Received' = Received /\ Free' = Free /\ Reserved = {} /\ Reserved' = {stBuf}
    <3>1. CASE evtq' = Append(evtq, item) /\ UNCHANGED <<bufq, nextBuf>>
      <4>1. /\ evtq' \in Seq(EvtItem) /\ DistinctBufs(evtq')
            /\ Bufs(evtq') = Bufs(evtq) \cup {stBuf}
        BY <1>0, <2>1, <2>2, <3>1, AppendBufs DEF Received, OneOwner
      <4> QED
        BY <1>0, <3>1, <4>1 DEF Received, Free, Reserved, Elems, OneOwner, Distinct, TypeOK
    <3>2. CASE bufq' = Append(bufq, stBuf) /\ UNCHANGED <<evtq, nextBuf>>
      <4>1. /\ bufq' \in Seq(Buffer) /\ Distinct(bufq') /\ Elems(bufq') = Elems(bufq) \cup {stBuf}
        BY <1>0, <2>1, <2>2, <3>2, AppendElems DEF Free, OneOwner
      <4> QED
        BY <1>0, <3>2, <4>1 DEF Received, Free, Reserved, Bufs, OneOwner, DistinctBufs, TypeOK
    <3>3. CASE nextBuf = NoBuf /\ nextBuf' = stBuf /\ UNCHANGED <<evtq, bufq>>
      BY <1>0, <2>1, <2>2, <3>3
      DEF Received, Free, Reserved, Elems, Bufs, OneOwner, Distinct, DistinctBufs
    <3> QED
      BY <2>1, <3>1, <3>2, <3>3 DEF Deliver, item
  <2>4. OneOwner'
    <3>1. Sending' = Sending /\ DistinctBufs(sendq')
      BY <1>0, <1>1 DEF Sending, Bufs, OneOwner
    <3> QED
      BY <1>0, <1>1, <2>1, <2>3, <3>1 DEF OneOwner
  <2>5. TypeOK'
    BY <1>0, <1>1, <2>3 DEF TypeOK
  <2>6. AcquireHonoured'
    BY <1>0, <1>1, <2>3 DEF AcquireHonoured
  <2> QED
    BY <1>2, <1>3, <2>4, <2>5, <2>6 DEF IndInv
<1> QED
  BY <1>4, <1>5

LEMMA EvtIntrInv == ASSUME IndInv, NEW e \in Event, EvtIntr(e) PROVE IndInv'
<1>0. /\ TypeOK /\ Control /\ Link /\ OneOwner /\ Reservations
      /\ SendsStarted /\ AcquireHonoured /\ BusOwned
  BY DEF IndInv
<1>1. /\ armed' = armed \ {e} /\ dropped' \in {dropped, dropped \cup {e}}
      /\ UNCHANGED <<run, sync, cts, xchg, onew, stType, stBuf, rts, bufq, sendq>>
      /\ UNCHANGED <<nextCnt, nextBuf, acq, pc, ev, acquired, held>>
      /\ UNCHANGED <<credit, op, dev, ops, lost>>
  BY DEF EvtIntr, flags, link, resv, main, srcs
<1>2. Control' /\ Reservations'
  BY <1>0, <1>1, ControlStays, ReservationsStay
<1> DEFINE item == [type |-> e, buf |-> NoBuf]
<1>3. /\ evtq' \in Seq(EvtItem) /\ DistinctBufs(evtq') /\ Received' = Received
  <2>1. CASE evtq' = evtq
    BY <1>0, <2>1 DEF TypeOK, OneOwner, Received, DistinctBufs, Bufs
  <2>2. CASE evtq' = Append(evtq, item)
    <3>1. item \in EvtItem /\ item.buf = NoBuf /\ evtq \in Seq(EvtItem)
      BY <1>0 DEF EvtItem, TypeOK
    <3>2. NoBuf \notin Bufs(evtq) /\ DistinctBufs(evtq)
      BY <1>0 DEF Bufs, OneOwner
    <3> HIDE DEF item
    <3>3. /\ Append(evtq, item) \in Seq(EvtItem)
          /\ Bufs(Append(evtq, item)) = Bufs(evtq) \cup ({item.buf} \ {NoBuf})
          /\ DistinctBufs(evtq) /\ item.buf \notin Bufs(evtq)
                => DistinctBufs(Append(evtq, item))
      BY <3>1, AppendBufs
    <3>4. {item.buf} \ {NoBuf} = {}
      BY <3>1
    <3> QED
      BY <2>2, <3>1, <3>2, <3>3, <3>4 DEF Received
  <2> QED
    BY <2>1, <2>2 DEF EvtIntr
<1>4. OneOwner'
  <2>1. Free' = Free /\ Sending' = Sending /\ Reserved' = Reserved /\ OnWire' = OnWire
    BY <1>1 DEF Free, Sending, Reserved, OnWire, Elems, Bufs
  <2>2. Distinct(bufq') /\ DistinctBufs(sendq')
    BY <1>0, <1>1 DEF OneOwner
  <2> QED
    BY <1>0, <1>1, <1>3, <2>1, <2>2 DEF OneOwner
<1>5. TypeOK'
  BY <1>0, <1>1, <1>3 DEF TypeOK
<1>6. Link' /\ SendsStarted' /\ BusOwned' /\ AcquireHonoured'
  BY <1>0, <1>1 DEF Link, SendsStarted, BusOwned, AcquireHonoured
<1> QED
  BY <1>2, <1>4, <1>5, <1>6 DEF IndInv

-----------------------------------------------------------------------------
(* The event loop keeps the invariant *)

\* net_acquire, of a handler that has no acquisition yet: it succeeds and sets
\* a buffer aside, or it fails and nothing but the count changes.
LEMMA TryAcquireEffect ==
    ASSUME TypeOK, OneOwner, NEW ok, NEW failed, TryAcquire(ok, failed),
           UNCHANGED <<sendq, evtq, held, lost, xchg, sync, stBuf>>
    PROVE  /\ OneOwner' /\ bufq' \in Seq(Buffer) /\ nextBuf' \in Buffer \cup {NoBuf}
           /\ nextCnt' \in Nat /\ acquired' \in BOOLEAN
           /\ credit' \in {"none", "held", "more"}
           /\ \/ /\ pc' = ok /\ acquired' = TRUE /\ nextCnt' = nextCnt
                 /\ nextBuf' # NoBuf /\ credit' = "held"
              \/ /\ pc' = failed /\ UNCHANGED <<acquired, nextBuf, credit>>
                 /\ nextCnt' = nextCnt + 1
<1>1. CASE /\ nextBuf = NoBuf /\ bufq = <<>>
           /\ nextCnt' = nextCnt + 1
           /\ pc' = failed
           /\ UNCHANGED <<nextBuf, bufq, acquired, credit>>
  <2>1. OneOwner'
    BY <1>1, OneOwnerStays DEF OnWire
  <2> QED
    BY <1>1, <2>1 DEF TypeOK
<1>2. CASE /\ nextBuf # NoBuf
           /\ UNCHANGED <<nextBuf, bufq, nextCnt>>
           /\ pc' = ok /\ acquired' = TRUE /\ credit' = "held"
  <2>1. OneOwner'
    BY <1>2, OneOwnerStays DEF OnWire
  <2> QED
    BY <1>2, <2>1 DEF TypeOK
<1>3. CASE /\ nextBuf = NoBuf /\ bufq # <<>>
           /\ nextBuf' = Head(bufq) /\ bufq' = Tail(bufq)
           /\ pc' = ok /\ acquired' = TRUE /\ credit' = "held"
           /\ UNCHANGED nextCnt
  <2>1. /\ Head(bufq) \in Buffer /\ Tail(bufq) \in Seq(Buffer)
        /\ Elems(bufq) = Elems(Tail(bufq)) \cup {Head(bufq)}
        /\ Distinct(Tail(bufq)) /\ Head(bufq) \notin Elems(Tail(bufq))
    BY <1>3, TailElems DEF TypeOK, OneOwner
  <2>2. /\ Free = Free' \cup {Head(bufq)} /\ Head(bufq) \notin Free' /\ Distinct(bufq')
        /\ nextBuf' # NoBuf
    BY <1>3, <2>1, BufferAssumption DEF Free
  <2>3. Reserved = {} /\ Reserved' = {Head(bufq)}
    BY <1>3, <2>2 DEF Reserved
  <2>4. /\ Sending' = Sending /\ Received' = Received /\ OnWire' = OnWire
        /\ DistinctBufs(sendq') /\ DistinctBufs(evtq')
    BY DEF Sending, Received, OnWire, Bufs, OneOwner
  <2>5. OneOwner'
    BY <2>2, <2>3, <2>4 DEF OneOwner
  <2> QED
    BY <1>3, <2>1, <2>2, <2>5 DEF TypeOK
<1> QED
  BY <1>1, <1>2, <1>3 DEF TryAcquire, OneMoreOwed

LEMMA PopInv == ASSUME IndInv, Pop PROVE IndInv'
<1>0. /\ TypeOK /\ Control /\ Link /\ OneOwner /\ Reservations
      /\ SendsStarted /\ AcquireHonoured /\ BusOwned
  BY DEF IndInv
<1>1. /\ pc = "loop" /\ evtq # <<>> /\ evtq' = Tail(evtq) /\ ev' = Head(evtq).type
      /\ held' = held \cup ({Head(evtq).buf} \ {NoBuf})
      /\ pc' = IF ev' \in Wrapped THEN "dispatch" ELSE "handler"
      /\ UNCHANGED <<run, sync, cts, xchg, onew, stType, stBuf, rts, bufq, sendq>>
      /\ UNCHANGED <<nextCnt, nextBuf, acq, acquired, credit, op, dev, ops>>
      /\ UNCHANGED <<armed, dropped, lost>>
  BY DEF Pop, flags, link, resv, srcs
<1>2. /\ Head(evtq) \in EvtItem /\ Tail(evtq) \in Seq(EvtItem)
      /\ Bufs(evtq) = Bufs(Tail(evtq)) \cup ({Head(evtq).buf} \ {NoBuf})
      /\ DistinctBufs(Tail(evtq)) /\ Head(evtq).buf \notin Bufs(Tail(evtq))
  BY <1>0, <1>1, TailBufs DEF TypeOK, OneOwner
<1>3. ev' \in Event \cup {"net"} /\ Head(evtq).buf \in Buffer \cup {NoBuf}
  BY <1>1, <1>2 DEF EvtItem
<1>4. /\ ev = "none" /\ held = {} /\ ~acquired /\ credit = "none" /\ ~dev /\ ~sync
      /\ ~acquired'
  BY <1>0, <1>1 DEF Control
<1>5. Control'
  <2>1. ev' \in Wrapped => Head(evtq).buf = NoBuf
    BY <1>1, <1>2, EventAssumption DEF EvtItem
  <2> QED
    BY <1>0, <1>1, <1>3, <1>4, <2>1, EventAssumption DEF Control
<1>6. Reservations'
  BY <1>0, <1>1, <1>4 DEF Reservations, Owed, OwedExplicit
<1>7. OneOwner'
  <2> DEFINE B == {Head(evtq).buf} \ {NoBuf}
  <2>1. Received = Received' \cup B /\ Received' \cap B = {} /\ DistinctBufs(evtq')
    BY <1>1, <1>2 DEF Received
  <2>2. held = {} /\ held' = B
    BY <1>1, <1>4
  <2>3. Free' = Free /\ Sending' = Sending /\ Reserved' = Reserved /\ OnWire' = OnWire
    BY <1>1 DEF Free, Sending, Reserved, OnWire, Elems, Bufs
  <2>4. Distinct(bufq') /\ DistinctBufs(sendq')
    BY <1>0, <1>1 DEF OneOwner
  <2> HIDE DEF B
  <2> QED
    BY <1>0, <1>1, <2>1, <2>2, <2>3, <2>4 DEF OneOwner
<1>8. TypeOK'
  BY <1>0, <1>1, <1>2, <1>3 DEF TypeOK, Place, Event
<1>9. Link' /\ SendsStarted' /\ BusOwned' /\ AcquireHonoured'
  BY <1>0, <1>1 DEF Link, SendsStarted, BusOwned, AcquireHonoured
<1> QED
  BY <1>5, <1>6, <1>7, <1>8, <1>9 DEF IndInv

LEMMA DispatchInv == ASSUME IndInv, Dispatch PROVE IndInv'
<1>0. /\ TypeOK /\ Control /\ Link /\ OneOwner /\ Reservations
      /\ SendsStarted /\ AcquireHonoured /\ BusOwned
  BY DEF IndInv
<1>1. /\ pc = "dispatch" /\ ev \in Wrapped
      /\ ~acquired /\ credit = "none" /\ ~dev /\ ~sync
      /\ UNCHANGED <<run, sync, cts, xchg, onew, stType, stBuf, rts, sendq, evtq, ev>>
      /\ UNCHANGED <<held, op, dev, ops, armed, dropped, lost>>
  BY <1>0 DEF Dispatch, flags, link, srcs, Control
<1>2. Link' /\ SendsStarted' /\ BusOwned'
  BY <1>0, <1>1 DEF Link, SendsStarted, BusOwned
<1>3. CASE ev \in acq
  <2>1. pc' = "acquire" /\ UNCHANGED <<bufq, nextCnt, nextBuf, acq, acquired, credit>>
    BY <1>3 DEF Dispatch, resv
  <2>2. OneOwner'
    BY <1>0, <1>1, <2>1, OneOwnerStays DEF OnWire
  <2>3. TypeOK'
    BY <1>0, <1>1, <2>1 DEF TypeOK, Place
  <2>4. Control' /\ AcquireHonoured'
    BY <1>0, <1>1, <1>3, <2>1 DEF Control, AcquireHonoured
  <2>5. Reservations'
    BY <1>0, <1>1, <1>3, <2>1 DEF Reservations, Owed, OwedExplicit
  <2> QED
    BY <1>2, <2>2, <2>3, <2>4, <2>5 DEF IndInv
<1>4. CASE ev \notin acq
  <2>1. /\ TryAcquire("handler", "requeue")
        /\ acq' = IF pc' = "requeue" THEN acq \cup {ev} ELSE acq
    BY <1>4 DEF Dispatch, Recorded
  <2>2. /\ OneOwner' /\ bufq' \in Seq(Buffer) /\ nextBuf' \in Buffer \cup {NoBuf}
        /\ nextCnt' \in Nat /\ acquired' \in BOOLEAN
        /\ credit' \in {"none", "held", "more"}
        /\ \/ /\ pc' = "handler" /\ acquired' = TRUE /\ nextCnt' = nextCnt
              /\ nextBuf' # NoBuf /\ credit' = "held"
           \/ /\ pc' = "requeue" /\ UNCHANGED <<acquired, nextBuf, credit>>
              /\ nextCnt' = nextCnt + 1
    BY <1>0, <1>1, <2>1, TryAcquireEffect
  <2>3. TypeOK'
    BY <1>0, <1>1, <2>1, <2>2 DEF TypeOK, Place
  <2>4. Control' /\ AcquireHonoured'
    BY <1>0, <1>1, <2>1, <2>2 DEF Control, AcquireHonoured, Event
  <2>5. Owed = acq /\ OwedExplicit = 0 /\ OwedExplicit' = 0
    BY <1>1, <2>2 DEF Owed, OwedExplicit
  <2>6. Owed' = acq'
    BY <1>1, <1>4, <2>1, <2>2 DEF Owed
  <2>7. IsFiniteSet(acq) /\ Cardinality(acq) \in Nat
    BY <1>0, EventAssumption, FS_Subset, FS_CardinalityType DEF TypeOK
  <2>8. Cardinality(acq \cup {ev}) = Cardinality(acq) + 1
    BY <1>4, <2>7, FS_AddElement
  <2>9. Reservations'
    BY <1>0, <2>1, <2>2, <2>5, <2>6, <2>7, <2>8 DEF Reservations
  <2> QED
    BY <1>2, <2>2, <2>3, <2>4, <2>9 DEF IndInv
<1> QED
  BY <1>3, <1>4

LEMMA AcquireReservedInv == ASSUME IndInv, AcquireReserved PROVE IndInv'
<1>0. /\ TypeOK /\ Control /\ Link /\ OneOwner /\ Reservations
      /\ SendsStarted /\ AcquireHonoured /\ BusOwned
  BY DEF IndInv
<1>1. /\ pc = "acquire" /\ nextBuf # NoBuf /\ nextCnt' = nextCnt - 1
      /\ pc' = "handler" /\ acquired' = TRUE /\ credit' = "held"
      /\ ~acquired /\ ~sync /\ ev \in (Event \cap acq) \cup (Event \ Wrapped)
      /\ UNCHANGED <<run, sync, cts, xchg, onew, stType, stBuf, rts, bufq, sendq, evtq>>
      /\ UNCHANGED <<nextBuf, acq, ev, held, op, dev, ops, armed, dropped, lost>>
  BY <1>0, EventAssumption DEF AcquireReserved, flags, link, srcs, Control, Event, TypeOK
<1>2. IsFiniteSet(acq) /\ Cardinality(acq) \in Nat
  BY <1>0, EventAssumption, FS_Subset, FS_CardinalityType DEF TypeOK
<1>3. Owed = acq /\ Owed' = acq \ {ev} /\ OwedExplicit' = 0
  BY <1>1 DEF Owed, OwedExplicit
<1>4. Cardinality(acq \ {ev}) = IF ev \in acq THEN Cardinality(acq) - 1 ELSE Cardinality(acq)
  BY <1>2, FS_RemoveElement
<1>5. OwedExplicit = IF ev \in acq THEN 0 ELSE 1
  BY <1>0, <1>1 DEF OwedExplicit, TypeOK
<1>6. Reservations'
  BY <1>0, <1>1, <1>2, <1>3, <1>4, <1>5 DEF Reservations
<1>7. nextCnt' \in Nat
  <2>1. Cardinality(acq \ {ev}) \in Nat
    BY <1>2, FS_RemoveElement, FS_CardinalityType
  <2> QED
    BY <1>3, <1>6, <2>1 DEF Reservations
<1>8. OneOwner'
  BY <1>0, <1>1, OneOwnerStays DEF OnWire
<1>9. TypeOK'
  BY <1>0, <1>1, <1>7 DEF TypeOK, Place
<1>10. Control'
  BY <1>0, <1>1 DEF Control
<1>11. Link' /\ SendsStarted' /\ BusOwned' /\ AcquireHonoured'
  BY <1>0, <1>1 DEF Link, SendsStarted, BusOwned, AcquireHonoured
<1> QED
  BY <1>6, <1>8, <1>9, <1>10, <1>11 DEF IndInv

LEMMA RequeueInv == ASSUME IndInv, Requeue PROVE IndInv'
<1>0. /\ TypeOK /\ Control /\ Link /\ OneOwner /\ Reservations
      /\ SendsStarted /\ AcquireHonoured /\ BusOwned
  BY DEF IndInv
<1> DEFINE item == [type |-> ev, buf |-> NoBuf]
<1>1. /\ pc = "requeue" /\ pc' = "loop" /\ ev' = "none"
      /\ evtq' \in {evtq, Append(evtq, item)}
      /\ dropped' \in {dropped, dropped \cup {ev}}
      /\ UNCHANGED <<run, sync, cts, xchg, onew, stType, stBuf, rts, bufq, sendq>>
      /\ UNCHANGED <<nextCnt, nextBuf, acq, acquired, held, credit, op, dev, ops>>
      /\ UNCHANGED <<armed, lost>>
  BY DEF Requeue, QueuedAgain, flags, link, resv
<1>2. ev \in Wrapped /\ ~acquired /\ ev \in acq /\ credit = "none" /\ ~dev /\ ~sync
  BY <1>0, <1>1 DEF Control
<1>3. /\ evtq' \in Seq(EvtItem) /\ DistinctBufs(evtq') /\ Received' = Received
  <2>1. CASE evtq' = evtq
    BY <1>0, <2>1 DEF TypeOK, OneOwner, Received
  <2>2. CASE evtq' = Append(evtq, item)
    <3>1. item \in EvtItem /\ item.buf = NoBuf /\ evtq \in Seq(EvtItem)
      BY <1>0, <1>2 DEF EvtItem, TypeOK, Event
    <3>2. NoBuf \notin Bufs(evtq) /\ DistinctBufs(evtq)
      BY <1>0 DEF Bufs, OneOwner
    <3> HIDE DEF item
    <3>3. /\ Append(evtq, item) \in Seq(EvtItem)
          /\ Bufs(Append(evtq, item)) = Bufs(evtq) \cup ({item.buf} \ {NoBuf})
          /\ DistinctBufs(evtq) /\ item.buf \notin Bufs(evtq)
                => DistinctBufs(Append(evtq, item))
      BY <3>1, AppendBufs
    <3>4. {item.buf} \ {NoBuf} = {}
      BY <3>1
    <3> QED
      BY <2>2, <3>1, <3>2, <3>3, <3>4 DEF Received
  <2> QED
    BY <1>1, <2>1, <2>2
<1>4. OneOwner'
  <2>1. Free' = Free /\ Sending' = Sending /\ Reserved' = Reserved /\ OnWire' = OnWire
    BY <1>1 DEF Free, Sending, Reserved, OnWire, Elems, Bufs
  <2>2. Distinct(bufq') /\ DistinctBufs(sendq')
    BY <1>0, <1>1 DEF OneOwner
  <2> QED
    BY <1>0, <1>1, <1>3, <2>1, <2>2 DEF OneOwner
<1>5. TypeOK'
  BY <1>0, <1>1, <1>2, <1>3 DEF TypeOK, Place, Event
<1>6. held = {}
  BY <1>0, <1>1 DEF Control
<1>7. Control' /\ AcquireHonoured'
  BY <1>0, <1>1, <1>2, <1>6 DEF Control, AcquireHonoured
<1>8. Reservations'
  BY <1>0, <1>1, <1>2 DEF Reservations, Owed, OwedExplicit
<1>9. Link' /\ SendsStarted' /\ BusOwned'
  BY <1>0, <1>1 DEF Link, SendsStarted, BusOwned
<1> QED
  BY <1>4, <1>5, <1>7, <1>8, <1>9 DEF IndInv

LEMMA FinishInv == ASSUME IndInv, Finish PROVE IndInv'
<1>0. /\ TypeOK /\ Control /\ Link /\ OneOwner /\ Reservations
      /\ SendsStarted /\ AcquireHonoured /\ BusOwned
  BY DEF IndInv
<1>1. /\ pc = "handler" /\ held = {} /\ ~dev /\ ~sync
      /\ armed' = armed \cup ({ev} \cap Event)
      /\ credit' = "none" /\ ops' = 0
      /\ \/ acquired /\ pc' = "release" /\ UNCHANGED ev
         \/ ~acquired /\ pc' = "loop" /\ ev' = "none"
      /\ UNCHANGED <<run, sync, cts, xchg, onew, stType, stBuf, rts, bufq, sendq, evtq>>
      /\ UNCHANGED <<nextCnt, nextBuf, acq, acquired, held, op, dev, dropped, lost>>
  BY <1>0 DEF Finish, Control, flags, link, resv
<1>2. OneOwner'
  BY <1>0, <1>1, OneOwnerStays DEF OnWire
<1>3. TypeOK'
  BY <1>0, <1>1, SizeAssumption DEF TypeOK, Place
<1>4. Control' /\ AcquireHonoured'
  BY <1>0, <1>1 DEF Control, AcquireHonoured
<1>5. Reservations'
  BY <1>0, <1>1 DEF Reservations, Owed, OwedExplicit
<1>6. Link' /\ SendsStarted' /\ BusOwned'
  BY <1>0, <1>1 DEF Link, SendsStarted, BusOwned
<1> QED
  BY <1>2, <1>3, <1>4, <1>5, <1>6 DEF IndInv

LEMMA NetReleaseInv == ASSUME IndInv, NetRelease PROVE IndInv'
<1>0. /\ TypeOK /\ Control /\ Link /\ OneOwner /\ Reservations
      /\ SendsStarted /\ AcquireHonoured /\ BusOwned
  BY DEF IndInv
<1>1. /\ pc = "release" /\ acquired /\ credit = "none" /\ ~dev /\ ~sync
      /\ acq' = acq \ {ev} /\ pc' = "loop" /\ ev' = "none" /\ acquired' = FALSE
      /\ \/ nextBuf # NoBuf /\ bufq' = Append(bufq, nextBuf) /\ nextBuf' = NoBuf
         \/ UNCHANGED <<bufq, nextBuf>>
      /\ UNCHANGED <<run, sync, cts, xchg, onew, stType, stBuf, rts, sendq, evtq>>
      /\ UNCHANGED <<nextCnt, held, credit, op, dev, ops, armed, dropped, lost>>
  BY <1>0 DEF NetRelease, Control, flags, link, srcs
<1>2. held = {}
  BY <1>0, <1>1 DEF Control
<1>3. bufq' \in Seq(Buffer) /\ nextBuf' \in Buffer \cup {NoBuf} /\ OneOwner'
  <2>1. CASE UNCHANGED <<bufq, nextBuf>>
    BY <1>0, <1>1, <2>1, OneOwnerStays DEF OnWire, TypeOK
  <2>2. CASE nextBuf # NoBuf /\ bufq' = Append(bufq, nextBuf) /\ nextBuf' = NoBuf
    <3>1. nextBuf \in Buffer /\ Reserved = {nextBuf} /\ Reserved' = {}
      BY <1>0, <2>2 DEF TypeOK, Reserved
    <3>2. nextBuf \notin Free
      BY <1>0, <3>1 DEF OneOwner
    <3>3. bufq' \in Seq(Buffer) /\ Distinct(bufq') /\ Free' = Free \cup {nextBuf}
      BY <1>0, <2>2, <3>1, <3>2, AppendElems DEF Free, TypeOK, OneOwner
    <3>4. /\ Sending' = Sending /\ Received' = Received /\ OnWire' = OnWire
          /\ DistinctBufs(sendq') /\ DistinctBufs(evtq')
      BY <1>0, <1>1 DEF Sending, Received, OnWire, Bufs, OneOwner
    <3>5. OneOwner'
      BY <1>0, <1>1, <3>1, <3>3, <3>4 DEF OneOwner
    <3> QED
      BY <2>2, <3>3, <3>5
  <2> QED
    BY <1>1, <2>1, <2>2
<1>4. TypeOK'
  BY <1>0, <1>1, <1>3 DEF TypeOK, Place
<1>5. Control' /\ AcquireHonoured'
  BY <1>0, <1>1, <1>2 DEF Control, AcquireHonoured
<1>6. Reservations'
  <2>1. Owed' = Owed /\ OwedExplicit = 0 /\ OwedExplicit' = 0
    BY <1>1 DEF Owed, OwedExplicit
  <2> QED
    BY <1>0, <1>1, <2>1 DEF Reservations
<1>7. Link' /\ SendsStarted' /\ BusOwned'
  BY <1>0, <1>1 DEF Link, SendsStarted, BusOwned
<1> QED
  BY <1>3, <1>4, <1>5, <1>6, <1>7 DEF IndInv

-----------------------------------------------------------------------------
(* The calls of a handler keep the invariant *)

LEMMA NetAcquireInv == ASSUME IndInv, NetAcquire PROVE IndInv'
<1>0. /\ TypeOK /\ Control /\ Link /\ OneOwner /\ Reservations
      /\ SendsStarted /\ AcquireHonoured /\ BusOwned
  BY DEF IndInv
<1>1. /\ pc = "handler" /\ ev \in Explicit /\ ev \in Event /\ ev \notin acq
      /\ ~acquired /\ ~sync /\ ops' \in 0..MaxOps
      /\ TryAcquire("handler", "acquire")
      /\ UNCHANGED <<run, sync, cts, xchg, onew, stType, stBuf, rts, sendq, evtq>>
      /\ UNCHANGED <<acq, ev, held, op, dev, armed, dropped, lost>>
  BY <1>0, EventAssumption, SizeAssumption
  DEF NetAcquire, InHandler, MayBlock, Control, TypeOK, Event, flags, link, srcs
<1>2. /\ OneOwner' /\ bufq' \in Seq(Buffer) /\ nextBuf' \in Buffer \cup {NoBuf}
      /\ nextCnt' \in Nat /\ acquired' \in BOOLEAN
      /\ credit' \in {"none", "held", "more"}
      /\ \/ /\ pc' = "handler" /\ acquired' = TRUE /\ nextCnt' = nextCnt
            /\ nextBuf' # NoBuf /\ credit' = "held"
         \/ /\ pc' = "acquire" /\ UNCHANGED <<acquired, nextBuf, credit>>
            /\ nextCnt' = nextCnt + 1
  BY <1>0, <1>1, TryAcquireEffect
<1>3. TypeOK'
  BY <1>0, <1>1, <1>2 DEF TypeOK, Place
<1>4. Control' /\ AcquireHonoured'
  BY <1>0, <1>1, <1>2 DEF Control, AcquireHonoured
<1>5. Reservations'
  <2>1. Owed = acq /\ Owed' = acq /\ OwedExplicit = 0
    BY <1>1, <1>2 DEF Owed, OwedExplicit
  <2>2. OwedExplicit' = IF pc' = "acquire" THEN 1 ELSE 0
    BY <1>1, EventAssumption DEF OwedExplicit
  <2>3. IsFiniteSet(acq) /\ Cardinality(acq) \in Nat
    BY <1>0, EventAssumption, FS_Subset, FS_CardinalityType DEF TypeOK
  <2> QED
    BY <1>0, <1>2, <2>1, <2>2, <2>3 DEF Reservations
<1>6. Link' /\ SendsStarted' /\ BusOwned'
  BY <1>0, <1>1 DEF Link, SendsStarted, BusOwned
<1> QED
  BY <1>2, <1>3, <1>4, <1>5, <1>6 DEF IndInv

LEMMA NetAllocInv == ASSUME IndInv, NetAlloc PROVE IndInv'
<1>0. /\ TypeOK /\ Control /\ Link /\ OneOwner /\ Reservations
      /\ SendsStarted /\ AcquireHonoured /\ BusOwned
  BY DEF IndInv
<1>1. /\ pc = "handler" /\ pc' = "alloc" /\ ~sync /\ ops' \in 0..MaxOps
      /\ UNCHANGED <<run, sync, cts, xchg, onew, stType, stBuf, rts, bufq, sendq, evtq>>
      /\ UNCHANGED <<nextCnt, nextBuf, acq, ev, acquired, held, credit, op, dev>>
      /\ UNCHANGED <<armed, dropped, lost>>
  BY <1>0, SizeAssumption
  DEF NetAlloc, InHandler, MayBlock, Control, TypeOK, flags, link, resv, srcs
<1>2. OneOwner' /\ Reservations'
  BY <1>0, <1>1, OneOwnerStays, ReservationsStay DEF OnWire
<1>3. TypeOK'
  BY <1>0, <1>1 DEF TypeOK, Place
<1>4. Control' /\ Link' /\ SendsStarted' /\ BusOwned' /\ AcquireHonoured'
  BY <1>0, <1>1 DEF Control, Link, SendsStarted, BusOwned, AcquireHonoured
<1> QED
  BY <1>2, <1>3, <1>4 DEF IndInv

LEMMA NetAllocDoneInv == ASSUME IndInv, NetAllocDone PROVE IndInv'
<1>0. /\ TypeOK /\ Control /\ Link /\ OneOwner /\ Reservations
      /\ SendsStarted /\ AcquireHonoured /\ BusOwned
  BY DEF IndInv
<1>1. /\ pc = "alloc" /\ nextBuf # NoBuf /\ ~sync
      /\ held' = held \cup {nextBuf} /\ nextBuf' = NoBuf
      /\ credit' = "none" /\ pc' = "handler"
      /\ UNCHANGED <<run, sync, cts, xchg, onew, stType, stBuf, rts, bufq, sendq, evtq>>
      /\ UNCHANGED <<nextCnt, acq, ev, acquired, op, dev, ops, armed, dropped, lost>>
  BY <1>0 DEF NetAllocDone, Control, flags, link, srcs
<1>2. OneOwner'
  <2>1. nextBuf \in Buffer /\ Reserved = {nextBuf} /\ Reserved' = {}
    BY <1>0, <1>1 DEF TypeOK, Reserved
  <2>2. /\ Free' = Free /\ Sending' = Sending /\ Received' = Received /\ OnWire' = OnWire
        /\ Distinct(bufq') /\ DistinctBufs(sendq') /\ DistinctBufs(evtq')
    BY <1>0, <1>1 DEF Free, Sending, Received, OnWire, Elems, Bufs, OneOwner
  <2> QED
    BY <1>0, <1>1, <2>1, <2>2 DEF OneOwner
<1>3. TypeOK'
  BY <1>0, <1>1 DEF TypeOK, Place
<1>4. Control' /\ Link' /\ SendsStarted' /\ BusOwned' /\ AcquireHonoured'
  BY <1>0, <1>1 DEF Control, Link, SendsStarted, BusOwned, AcquireHonoured
<1>5. Reservations'
  BY <1>0, <1>1, ReservationsStay
<1> QED
  BY <1>2, <1>3, <1>4, <1>5 DEF IndInv

LEMMA NetFreeInv ==
    ASSUME IndInv, NEW b \in Buffer, NEW more \in BOOLEAN, NetFree(b, more)
    PROVE  IndInv'
<1>0. /\ TypeOK /\ Control /\ Link /\ OneOwner /\ Reservations
      /\ SendsStarted /\ AcquireHonoured /\ BusOwned
  BY DEF IndInv
<1>1. /\ pc = "handler" /\ b \in held /\ b # NoBuf /\ ~sync
      /\ held' = held \ {b}
      /\ credit' = IF more THEN "held" ELSE credit
      /\ UNCHANGED <<run, sync, rts, evtq, nextCnt, acq, pc, ev, acquired, op, dev, ops>>
      /\ UNCHANGED <<armed, dropped, lost>>
  BY <1>0, BufferAssumption DEF NetFree, InHandler, Control, flags, main, srcs
<1>2. Control' /\ Reservations'
  BY <1>0, <1>1, ReservationsStay DEF Control
<1>3. CASE SetAside(more) /\ nextBuf' = b /\ UNCHANGED <<link, bufq, sendq>>
  <2>1. /\ nextBuf = NoBuf
        /\ UNCHANGED <<cts, xchg, onew, stType, stBuf, bufq, sendq>>
    BY <1>3 DEF SetAside, link
  <2>2. Reserved = {} /\ Reserved' = {b}
    BY <1>1, <1>3, <2>1 DEF Reserved
  <2>3. /\ Free' = Free /\ Sending' = Sending /\ Received' = Received /\ OnWire' = OnWire
        /\ Distinct(bufq') /\ DistinctBufs(sendq') /\ DistinctBufs(evtq')
    BY <1>0, <1>1, <2>1 DEF Free, Sending, Received, OnWire, Elems, Bufs, OneOwner
  <2>4. OneOwner'
    BY <1>0, <1>1, <2>2, <2>3 DEF OneOwner
  <2>5. TypeOK'
    BY <1>0, <1>1, <1>3, <2>1 DEF TypeOK
  <2>6. Link' /\ SendsStarted' /\ BusOwned' /\ AcquireHonoured'
    BY <1>0, <1>1, <1>3, <2>1 DEF Link, SendsStarted, BusOwned, AcquireHonoured
  <2> QED
    BY <1>2, <2>4, <2>5, <2>6 DEF IndInv
<1>4. CASE /\ ~SetAside(more) /\ UNCHANGED nextBuf
           /\ bufq' = Append(bufq, b) /\ UNCHANGED <<link, sendq>>
  <2>1. UNCHANGED <<cts, xchg, onew, stType, stBuf, sendq>>
    BY <1>4 DEF link
  <2>2. b \notin Free
    BY <1>0, <1>1 DEF OneOwner
  <2>3. bufq' \in Seq(Buffer) /\ Distinct(bufq') /\ Free' = Free \cup {b}
    BY <1>0, <1>4, <2>2, AppendElems DEF Free, TypeOK, OneOwner
  <2>4. /\ Reserved' = Reserved /\ Sending' = Sending /\ Received' = Received
        /\ OnWire' = OnWire /\ DistinctBufs(sendq') /\ DistinctBufs(evtq')
    BY <1>0, <1>1, <1>4, <2>1 DEF Reserved, Sending, Received, OnWire, Bufs, OneOwner
  <2>5. OneOwner'
    BY <1>0, <1>1, <2>3, <2>4 DEF OneOwner
  <2>6. TypeOK'
    BY <1>0, <1>1, <1>4, <2>1, <2>3 DEF TypeOK
  <2>7. Link' /\ SendsStarted' /\ BusOwned'
    BY <1>0, <1>1, <2>1 DEF Link, SendsStarted, BusOwned
  <2>8. AcquireHonoured'
    BY <1>0, <1>1, <1>4 DEF AcquireHonoured, SetAside
  <2> QED
    BY <1>2, <2>5, <2>6, <2>7, <2>8 DEF IndInv
<1>5. CASE ~SetAside(more) /\ UNCHANGED nextBuf /\ run /\ cts /\ NetXchgNext(b)
  <2>1. xchg = "idle" /\ b \notin Free /\ b \notin Sending
    BY <1>0, <1>1, <1>5 DEF Link, OneOwner
  <2>2. /\ cts' \in BOOLEAN /\ xchg' \in {"idle", "init"} /\ onew' \in BOOLEAN
        /\ stType' \in {"none", "msg"} /\ stBuf' \in Buffer \cup {NoBuf}
        /\ bufq' \in Seq(Buffer) /\ sendq' \in Seq(SendItem)
        /\ xchg' # "idle" => ~cts' /\ stBuf' \in Buffer
        /\ cts' => sendq' = <<>>
    BY <1>0, <1>5, <2>1, NextEffect
  <2>3. OneOwner'
    BY <1>0, <1>1, <1>5, <2>1, NextOwner
  <2>4. TypeOK'
    BY <1>0, <1>1, <1>5, <2>2 DEF TypeOK
  <2>5. Link' /\ SendsStarted' /\ BusOwned'
    BY <1>0, <1>1, <1>5, <2>2 DEF Link, SendsStarted, BusOwned
  <2>6. AcquireHonoured'
    BY <1>0, <1>1, <1>5 DEF AcquireHonoured, SetAside
  <2> QED
    BY <1>2, <2>3, <2>4, <2>5, <2>6 DEF IndInv
<1> QED
  BY <1>3, <1>4, <1>5 DEF NetFree, GiveLink, GiveBack

LEMMA NetSendAsyncInv ==
    ASSUME IndInv, NEW b \in Buffer, NEW oneway \in BOOLEAN, NetSendAsync(b, oneway)
    PROVE  IndInv'
<1>0. /\ TypeOK /\ Control /\ Link /\ OneOwner /\ Reservations
      /\ SendsStarted /\ AcquireHonoured /\ BusOwned
  BY DEF IndInv
<1>1. /\ pc = "handler" /\ b \in held /\ b # NoBuf /\ ~sync
      /\ held' = held \ {b}
      /\ credit' \in {credit, "more"}
      /\ UNCHANGED <<run, sync, rts, bufq, evtq, nextCnt, nextBuf, acq>>
      /\ UNCHANGED <<pc, ev, acquired, op, dev, ops, armed, dropped, lost>>
  BY <1>0, BufferAssumption DEF NetSendAsync, InHandler, Control, flags, resv, srcs
<1>2. Control' /\ Reservations' /\ AcquireHonoured'
  BY <1>0, <1>1, ReservationsStay DEF Control, AcquireHonoured
<1>3. /\ Free' = Free /\ Reserved' = Reserved /\ Received' = Received
      /\ Distinct(bufq') /\ DistinctBufs(evtq')
  BY <1>0, <1>1 DEF Free, Received, Reserved, Elems, Bufs, OneOwner
<1>4. CASE run /\ cts /\ NetXchgStart(oneway, b) /\ UNCHANGED sendq
  <2>1. xchg = "idle" /\ ~dev
    BY <1>0, <1>4 DEF Link, BusOwned
  <2>2. /\ cts' = FALSE /\ xchg' = "init" /\ onew' \in BOOLEAN /\ stType' = "none"
        /\ stBuf' = b
    BY <1>0, <1>4 DEF NetXchgStart, OneWay, Short, TypeOK
  <2>3. OnWire = {} /\ OnWire' = {b} /\ Sending' = Sending /\ DistinctBufs(sendq')
    BY <1>0, <1>1, <1>4, <2>1, <2>2 DEF OnWire, Sending, Bufs, OneOwner
  <2>4. OneOwner'
    BY <1>0, <1>1, <1>3, <2>3 DEF OneOwner
  <2>5. TypeOK'
    BY <1>0, <1>1, <1>4, <2>2 DEF TypeOK
  <2>6. Link' /\ SendsStarted' /\ BusOwned'
    BY <1>0, <1>1, <2>1, <2>2 DEF Link, SendsStarted, BusOwned
  <2> QED
    BY <1>2, <2>4, <2>5, <2>6 DEF IndInv
<1>5. CASE /\ ~(run /\ cts) /\ sendq' = Append(sendq, [buf |-> b, onew |-> oneway])
           /\ UNCHANGED link
  <2> DEFINE item == [buf |-> b, onew |-> oneway]
  <2>1. UNCHANGED <<cts, xchg, onew, stType, stBuf>>
    BY <1>5 DEF link
  <2>2. item \in SendItem /\ item.buf = b /\ sendq \in Seq(SendItem) /\ b \notin Sending
    BY <1>0, <1>1 DEF SendItem, TypeOK, OneOwner
  <2> HIDE DEF item
  <2>3. sendq' \in Seq(SendItem) /\ DistinctBufs(sendq') /\ Sending' = Sending \cup {b}
    <3>1. /\ Append(sendq, item) \in Seq(SendItem)
          /\ Bufs(Append(sendq, item)) = Bufs(sendq) \cup ({item.buf} \ {NoBuf})
          /\ DistinctBufs(sendq) /\ item.buf \notin Bufs(sendq)
                => DistinctBufs(Append(sendq, item))
      BY <2>2, AppendBufs
    <3>2. sendq' = Append(sendq, item)
      BY <1>5 DEF item
    <3>3. {item.buf} \ {NoBuf} = {b}
      BY <1>1, <2>2
    <3> QED
      BY <1>0, <2>2, <3>1, <3>2, <3>3 DEF Sending, OneOwner
  <2>4. OneOwner'
    <3>1. OnWire' = OnWire
      BY <1>1, <2>1 DEF OnWire
    <3> QED
      BY <1>0, <1>1, <1>3, <2>3, <3>1 DEF OneOwner
  <2>5. TypeOK'
    BY <1>0, <1>1, <2>1, <2>3 DEF TypeOK
  <2>6. Link' /\ SendsStarted' /\ BusOwned'
    BY <1>0, <1>1, <1>5, <2>1 DEF Link, SendsStarted, BusOwned
  <2> QED
    BY <1>2, <2>4, <2>5, <2>6 DEF IndInv
<1> QED
  BY <1>4, <1>5 DEF NetSendAsync

-----------------------------------------------------------------------------
(* Exchanges that need the bus keep the invariant *)

\* net_resume starts what waited, if the ESP32 is ready.
LEMMA ResumeEffect ==
    ASSUME IndInv, NetResume, ~sync', ~sync \/ xchg = "idle",
           UNCHANGED <<rts, evtq, nextBuf, held, lost>>
    PROVE  /\ run' = TRUE /\ OneOwner'
           /\ cts' \in BOOLEAN /\ xchg' \in {"idle", "init", "data"} /\ onew' \in BOOLEAN
           /\ stType' \in {"none", "msg"} /\ stBuf' \in Buffer \cup {NoBuf}
           /\ bufq' \in Seq(Buffer) /\ sendq' \in Seq(SendItem)
           /\ xchg' # "idle" => ~cts' /\ stBuf' \in Buffer
           /\ cts' => sendq' = <<>>
<1>0. TypeOK /\ OneOwner /\ Link
  BY DEF IndInv
<1>1. run' = TRUE
  BY DEF NetResume
<1>2. CASE cts
  <2>1. xchg = "idle" /\ NetXchgNext(NoBuf)
    BY <1>0, <1>2 DEF Link, NetResume
  <2>2. NoBuf \notin Free /\ NoBuf \notin Sending /\ NoBuf \notin held
    BY <1>0, BufferAssumption, QueuesHoldBuffers DEF TypeOK
  <2>3. OneOwner'
    BY <1>0, <2>1, <2>2, NextOwner
  <2> QED
    BY <1>0, <1>1, <2>1, <2>2, <2>3, NextEffect
<1>3. CASE ~cts
  <2>1. UNCHANGED <<cts, xchg, onew, stType, stBuf, bufq, sendq>>
    BY <1>3 DEF NetResume, link
  <2>2. OneOwner'
    BY <1>0, <2>1, OneOwnerStays DEF OnWire
  <2> QED
    BY <1>0, <1>1, <1>3, <2>1, <2>2 DEF TypeOK, Link
<1> QED
  BY <1>2, <1>3

LEMMA NetXchgBeginInv ==
    ASSUME IndInv, NEW b \in Buffer, NEW s \in BOOLEAN, NEW repl \in BOOLEAN,
           NetXchgBegin(b, s, repl)
    PROVE  IndInv'
<1>0. /\ TypeOK /\ Control /\ Link /\ OneOwner /\ Reservations
      /\ SendsStarted /\ AcquireHonoured /\ BusOwned
  BY DEF IndInv
<1>1. /\ pc = "handler" /\ b \in held /\ ~sync /\ ops' \in 0..MaxOps
      /\ op' \in Op /\ op'.buf = b /\ dev' = FALSE
      /\ UNCHANGED <<sync, rts, evtq, nextCnt, nextBuf, acq, ev, acquired, held, credit>>
      /\ UNCHANGED <<armed, dropped, lost>>
  BY <1>0, SizeAssumption
  DEF NetXchgBegin, InHandler, MayBlock, Control, TypeOK, Op, resv, srcs
<1>2. CASE run' = FALSE /\ pc' = "cts1" /\ UNCHANGED <<link, bufq, sendq>>
  <2>1. UNCHANGED <<cts, xchg, onew, stType, stBuf, bufq, sendq>>
    BY <1>2 DEF link
  <2>2. OneOwner' /\ Reservations'
    BY <1>0, <1>1, <1>2, <2>1, OneOwnerStays, ReservationsStay DEF OnWire
  <2>3. TypeOK'
    BY <1>0, <1>1, <1>2, <2>1 DEF TypeOK, Place
  <2>4. Control'
    BY <1>0, <1>1, <1>2 DEF Control
  <2>5. Link' /\ SendsStarted' /\ BusOwned' /\ AcquireHonoured'
    BY <1>0, <1>1, <1>2, <2>1 DEF Link, SendsStarted, BusOwned, AcquireHonoured
  <2> QED
    BY <2>2, <2>3, <2>4, <2>5 DEF IndInv
<1>3. CASE NetResume /\ pc' = "pause"
  <2>1. /\ run' = TRUE /\ OneOwner'
        /\ cts' \in BOOLEAN /\ xchg' \in {"idle", "init", "data"} /\ onew' \in BOOLEAN
        /\ stType' \in {"none", "msg"} /\ stBuf' \in Buffer \cup {NoBuf}
        /\ bufq' \in Seq(Buffer) /\ sendq' \in Seq(SendItem)
        /\ xchg' # "idle" => ~cts' /\ stBuf' \in Buffer
        /\ cts' => sendq' = <<>>
    BY <1>1, <1>3, ResumeEffect
  <2>2. Reservations'
    BY <1>0, <1>1, <1>3, ReservationsStay
  <2>3. TypeOK'
    BY <1>0, <1>1, <1>3, <2>1 DEF TypeOK, Place
  <2>4. Control'
    BY <1>0, <1>1, <1>3 DEF Control
  <2>5. Link' /\ SendsStarted' /\ BusOwned' /\ AcquireHonoured'
    BY <1>0, <1>1, <2>1 DEF Link, SendsStarted, BusOwned, AcquireHonoured
  <2> QED
    BY <2>1, <2>2, <2>3, <2>4, <2>5 DEF IndInv
<1> QED
  BY <1>2, <1>3 DEF NetXchgBegin

LEMMA NetPauseInv == ASSUME IndInv, NetPause PROVE IndInv'
<1>0. /\ TypeOK /\ Control /\ Link /\ OneOwner /\ Reservations
      /\ SendsStarted /\ AcquireHonoured /\ BusOwned
  BY DEF IndInv
<1>1. /\ pc = "pause" /\ run' = FALSE /\ pc' = "cts1" /\ ~sync
      /\ UNCHANGED <<sync, cts, xchg, onew, stType, stBuf, rts, bufq, sendq, evtq>>
      /\ UNCHANGED <<nextCnt, nextBuf, acq, ev, acquired, held, credit, op, dev, ops>>
      /\ UNCHANGED <<armed, dropped, lost>>
  BY <1>0 DEF NetPause, Control, link, resv, srcs
<1>2. OneOwner' /\ Reservations'
  BY <1>0, <1>1, OneOwnerStays, ReservationsStay DEF OnWire
<1>3. TypeOK'
  BY <1>0, <1>1 DEF TypeOK, Place
<1>4. Control' /\ Link' /\ SendsStarted' /\ BusOwned' /\ AcquireHonoured'
  BY <1>0, <1>1 DEF Control, Link, SendsStarted, BusOwned, AcquireHonoured
<1> QED
  BY <1>2, <1>3, <1>4 DEF IndInv

LEMMA NetXchgSyncInv == ASSUME IndInv, NetXchgSync PROVE IndInv'
<1>0. /\ TypeOK /\ Control /\ Link /\ OneOwner /\ Reservations
      /\ SendsStarted /\ AcquireHonoured /\ BusOwned
  BY DEF IndInv
<1>1. /\ pc = "cts1" /\ cts /\ NetXchgStart(op.onew, op.buf)
      /\ UNCHANGED <<rts, bufq, sendq, evtq, nextCnt, nextBuf, acq, ev, acquired>>
      /\ UNCHANGED <<dev, ops, armed, dropped, lost>>
  BY DEF NetXchgSync, resv, srcs
<1>2. /\ xchg = "idle" /\ op.buf \in held /\ op.buf \in Buffer /\ ~dev /\ ~run /\ ~sync
      /\ op.onew \in BOOLEAN
  BY <1>0, <1>1 DEF Link, Control, TypeOK, Op
<1>3. /\ cts' = FALSE /\ xchg' = "init" /\ onew' \in BOOLEAN /\ stType' = "none"
      /\ stBuf' = op.buf
  BY <1>0, <1>1, <1>2 DEF NetXchgStart, OneWay, Short, TypeOK
<1>4. OnWire = {}
  BY <1>2 DEF OnWire
<1>5. /\ Free' = Free /\ Sending' = Sending /\ Received' = Received /\ Reserved' = Reserved
      /\ Distinct(bufq') /\ DistinctBufs(sendq') /\ DistinctBufs(evtq')
  BY <1>0, <1>1 DEF Free, Sending, Received, Reserved, Elems, Bufs, OneOwner
<1>6. CASE op.sync
  <2>1. /\ sync' = TRUE /\ pc' \in {"cts2", "done"} /\ UNCHANGED <<run, held, credit, op>>
    BY <1>6 DEF NetXchgSync
  <2>2. OneOwner'
    <3>1. OnWire' = {}
      BY <2>1 DEF OnWire
    <3> QED
      BY <1>0, <1>1, <1>4, <1>5, <2>1, <3>1 DEF OneOwner
  <2>3. TypeOK'
    BY <1>0, <1>1, <1>2, <1>3, <2>1 DEF TypeOK, Place
  <2>4. Control' /\ Reservations'
    BY <1>0, <1>1, <1>2, <2>1, ReservationsStay DEF Control
  <2>5. Link' /\ SendsStarted' /\ BusOwned' /\ AcquireHonoured'
    BY <1>0, <1>1, <1>2, <1>3, <2>1 DEF Link, SendsStarted, BusOwned, AcquireHonoured
  <2> QED
    BY <2>2, <2>3, <2>4, <2>5 DEF IndInv
<1>7. CASE ~op.sync
  <2>1. /\ run' = TRUE /\ held' = held \ {op.buf} /\ pc' \in {"handler", "reselect"}
        /\ credit' \in {credit, "more"} /\ op' = NoOp /\ UNCHANGED sync
    BY <1>7 DEF NetXchgSync, AfterXchg
  <2>2. OneOwner'
    <3>1. OnWire' = {op.buf}
      BY <1>2, <1>3, <2>1 DEF OnWire
    <3> QED
      BY <1>0, <1>1, <1>2, <1>4, <1>5, <2>1, <3>1 DEF OneOwner
  <2>3. NoOp \in Op
    BY DEF NoOp, Op
  <2>4. TypeOK'
    BY <1>0, <1>1, <1>2, <1>3, <2>1, <2>3 DEF TypeOK, Place
  <2>5. Control' /\ Reservations'
    BY <1>0, <1>1, <1>2, <2>1, ReservationsStay DEF Control
  <2>6. Link' /\ SendsStarted' /\ BusOwned' /\ AcquireHonoured'
    BY <1>0, <1>1, <1>2, <1>3, <2>1 DEF Link, SendsStarted, BusOwned, AcquireHonoured
  <2> QED
    BY <2>2, <2>4, <2>5, <2>6 DEF IndInv
<1> QED
  BY <1>6, <1>7

LEMMA NetXchgReplyInv == ASSUME IndInv, NetXchgReply PROVE IndInv'
<1>0. /\ TypeOK /\ Control /\ Link /\ OneOwner /\ Reservations
      /\ SendsStarted /\ AcquireHonoured /\ BusOwned
  BY DEF IndInv
<1>1. /\ pc = "cts2" /\ cts /\ NetXchgStart(FALSE, op.buf) /\ pc' = "done"
      /\ UNCHANGED <<run, sync, rts, bufq, sendq, evtq, nextCnt, nextBuf, acq, ev>>
      /\ UNCHANGED <<acquired, held, credit, op, dev, ops, armed, dropped, lost>>
  BY DEF NetXchgReply, flags, resv, srcs
<1>2. xchg = "idle" /\ op.buf \in held /\ op.buf \in Buffer /\ ~dev /\ ~run /\ sync
  BY <1>0, <1>1 DEF Link, Control, TypeOK
<1>3. /\ cts' = FALSE /\ xchg' = "init" /\ onew' \in BOOLEAN /\ stType' = "none"
      /\ stBuf' = op.buf
  BY <1>0, <1>1 DEF NetXchgStart, OneWay, Short, TypeOK
<1>4. OneOwner' /\ Reservations'
  BY <1>0, <1>1, <1>2, OneOwnerStays, ReservationsStay DEF OnWire
<1>5. TypeOK'
  BY <1>0, <1>1, <1>2, <1>3 DEF TypeOK, Place
<1>6. Control' /\ Link' /\ SendsStarted' /\ BusOwned' /\ AcquireHonoured'
  BY <1>0, <1>1, <1>2, <1>3
  DEF Control, Link, SendsStarted, BusOwned, AcquireHonoured
<1> QED
  BY <1>4, <1>5, <1>6 DEF IndInv

LEMMA NetXchgEndInv == ASSUME IndInv, NetXchgEnd PROVE IndInv'
<1>0. /\ TypeOK /\ Control /\ Link /\ OneOwner /\ Reservations
      /\ SendsStarted /\ AcquireHonoured /\ BusOwned
  BY DEF IndInv
<1>1. /\ pc = "done" /\ xchg = "idle" /\ sync' = FALSE /\ NetResume
      /\ pc' \in {"handler", "reselect"} /\ op' = NoOp /\ ~dev
      /\ UNCHANGED <<rts, evtq, nextCnt, nextBuf, acq, ev, acquired, held, credit, dev>>
      /\ UNCHANGED <<ops, armed, dropped, lost>>
  BY <1>0 DEF NetXchgEnd, AfterXchg, Control, resv, srcs
<1>2. /\ run' = TRUE /\ OneOwner'
      /\ cts' \in BOOLEAN /\ xchg' \in {"idle", "init", "data"} /\ onew' \in BOOLEAN
      /\ stType' \in {"none", "msg"} /\ stBuf' \in Buffer \cup {NoBuf}
      /\ bufq' \in Seq(Buffer) /\ sendq' \in Seq(SendItem)
      /\ xchg' # "idle" => ~cts' /\ stBuf' \in Buffer
      /\ cts' => sendq' = <<>>
  BY <1>1, ResumeEffect
<1>3. TypeOK'
  <2>1. NoOp \in Op
    BY DEF NoOp, Op
  <2> QED
    BY <1>0, <1>1, <1>2, <2>1 DEF TypeOK, Place
<1>4. Control' /\ Reservations'
  BY <1>0, <1>1, ReservationsStay DEF Control
<1>5. Link' /\ SendsStarted' /\ BusOwned' /\ AcquireHonoured'
  BY <1>0, <1>1, <1>2 DEF Link, SendsStarted, BusOwned, AcquireHonoured
<1> QED
  BY <1>2, <1>3, <1>4, <1>5 DEF IndInv

LEMMA SpiSelectInv == ASSUME IndInv, SpiSelect PROVE IndInv'
<1>0. /\ TypeOK /\ Control /\ Link /\ OneOwner /\ Reservations
      /\ SendsStarted /\ AcquireHonoured /\ BusOwned
  BY DEF IndInv
<1>1. /\ pc \in {"handler", "reselect"} /\ ops' \in 0..MaxOps /\ ~sync
      /\ run' = FALSE
      /\ \/ xchg = "idle" /\ dev' = TRUE /\ pc' = "handler"
         \/ xchg # "idle" /\ dev' = FALSE /\ pc' = "stopping"
      /\ UNCHANGED <<sync, cts, xchg, onew, stType, stBuf, rts, bufq, sendq, evtq>>
      /\ UNCHANGED <<nextCnt, nextBuf, acq, ev, acquired, held, credit, op>>
      /\ UNCHANGED <<armed, dropped, lost>>
  <2>1. pc \in {"handler", "reselect"} /\ ops' \in 0..MaxOps
    BY <1>0, SizeAssumption DEF SpiSelect, InHandler, MayBlock, TypeOK
  <2>2. ~sync
    BY <1>0, <2>1 DEF Control
  <2>3. CASE xchg = "idle"
    <3>1. BusFree = TRUE
      BY <2>3 DEF BusFree
    <3> QED
      BY <2>1, <2>2, <2>3, <3>1 DEF SpiSelect, link, resv, srcs
  <2>4. CASE xchg # "idle"
    <3>1. BusFree = FALSE
      BY <2>4 DEF BusFree
    <3> QED
      BY <2>1, <2>2, <2>4, <3>1 DEF SpiSelect, link, resv, srcs
  <2> QED
    BY <2>3, <2>4
<1>2. OneOwner' /\ Reservations'
  BY <1>0, <1>1, OneOwnerStays, ReservationsStay DEF OnWire
<1>3. TypeOK'
  BY <1>0, <1>1 DEF TypeOK, Place
<1>4. Control' /\ Link' /\ SendsStarted' /\ BusOwned' /\ AcquireHonoured'
  BY <1>0, <1>1 DEF Control, Link, SendsStarted, BusOwned, AcquireHonoured
<1> QED
  BY <1>2, <1>3, <1>4 DEF IndInv

LEMMA NetStoppedInv == ASSUME IndInv, NetStopped PROVE IndInv'
<1>0. /\ TypeOK /\ Control /\ Link /\ OneOwner /\ Reservations
      /\ SendsStarted /\ AcquireHonoured /\ BusOwned
  BY DEF IndInv
<1>1. /\ pc = "stopping" /\ xchg = "idle" /\ dev' = TRUE /\ pc' = "handler"
      /\ ~sync /\ ~run
      /\ UNCHANGED <<run, sync, cts, xchg, onew, stType, stBuf, rts, bufq, sendq, evtq>>
      /\ UNCHANGED <<nextCnt, nextBuf, acq, ev, acquired, held, credit, op, ops>>
      /\ UNCHANGED <<armed, dropped, lost>>
  BY <1>0 DEF NetStopped, Control, flags, link, resv, srcs
<1>2. OneOwner' /\ Reservations'
  BY <1>0, <1>1, OneOwnerStays, ReservationsStay DEF OnWire
<1>3. TypeOK'
  BY <1>0, <1>1 DEF TypeOK, Place
<1>4. Control' /\ Link' /\ SendsStarted' /\ BusOwned' /\ AcquireHonoured'
  BY <1>0, <1>1 DEF Control, Link, SendsStarted, BusOwned, AcquireHonoured
<1> QED
  BY <1>2, <1>3, <1>4 DEF IndInv

LEMMA SpiDeselectInv == ASSUME IndInv, SpiDeselect PROVE IndInv'
<1>0. /\ TypeOK /\ Control /\ Link /\ OneOwner /\ Reservations
      /\ SendsStarted /\ AcquireHonoured /\ BusOwned
  BY DEF IndInv
<1>1. /\ pc = "handler" /\ dev' = FALSE /\ NetResume /\ ~sync
      /\ UNCHANGED <<sync, rts, evtq, nextCnt, nextBuf, acq, pc, ev, acquired, held>>
      /\ UNCHANGED <<credit, op, ops, armed, dropped, lost>>
  BY <1>0 DEF SpiDeselect, InHandler, Control, resv, srcs
<1>2. /\ run' = TRUE /\ OneOwner'
      /\ cts' \in BOOLEAN /\ xchg' \in {"idle", "init", "data"} /\ onew' \in BOOLEAN
      /\ stType' \in {"none", "msg"} /\ stBuf' \in Buffer \cup {NoBuf}
      /\ bufq' \in Seq(Buffer) /\ sendq' \in Seq(SendItem)
      /\ xchg' # "idle" => ~cts' /\ stBuf' \in Buffer
      /\ cts' => sendq' = <<>>
  BY <1>1, ResumeEffect
<1>3. TypeOK'
  BY <1>0, <1>1, <1>2 DEF TypeOK, Place
<1>4. Control' /\ Reservations'
  BY <1>0, <1>1, ReservationsStay DEF Control
<1>5. Link' /\ SendsStarted' /\ BusOwned' /\ AcquireHonoured'
  BY <1>0, <1>1, <1>2 DEF Link, SendsStarted, BusOwned, AcquireHonoured
<1> QED
  BY <1>2, <1>3, <1>4, <1>5 DEF IndInv

-----------------------------------------------------------------------------
(* The invariant holds in every reachable state *)

\* net_bufq holds each buffer once when the system starts.
LEMMA InitInv == ASSUME Init PROVE IndInv
<1> DEFINE N == Cardinality(Buffer)
<1>1. N \in Nat /\ IsFiniteSet(1..N) /\ Cardinality(1..N) = N /\ IsFiniteSet(Buffer)
  BY BufferAssumption, FS_CardinalityType, FS_Interval
<1>2. bufq \in [1..N -> Buffer] /\ DOMAIN bufq = 1..N /\ Distinct(bufq)
  BY DEF Init, Distinct
<1>3. bufq \in Seq(Buffer)
  BY <1>1, <1>2, SeqDef
<1>4. bufq \in Injection(1..N, Buffer)
  BY <1>2 DEF Injection, IsInjective, Distinct
<1>5. bufq \in Surjection(1..N, Buffer)
  BY <1>1, <1>4, FS_Injection
<1>6. Free = Buffer
  <2>1. \A b \in Buffer : \E i \in 1..N : bufq[i] = b
    BY <1>5 DEF Surjection
  <2> QED
    BY <1>2, <2>1 DEF Free, Elems
<1>7. /\ Sending = {} /\ Received = {} /\ Reserved = {} /\ OnWire = {} /\ held = {} /\ lost = {}
      /\ DistinctBufs(sendq) /\ DistinctBufs(evtq)
  BY DEF Init, Sending, Received, Reserved, OnWire, Bufs, DistinctBufs
<1>8. OneOwner
  BY <1>2, <1>6, <1>7 DEF OneOwner
<1>9. NoOp \in Op
  BY DEF NoOp, Op
<1>10. TypeOK
  <2>1. sendq \in Seq(SendItem) /\ evtq \in Seq(EvtItem)
    BY EmptySeq DEF Init
  <2>2. {run, cts, rts, onew, sync, acquired, dev} \subseteq BOOLEAN
    BY DEF Init
  <2>3. nextCnt \in Nat /\ ops \in 0..MaxOps
    BY SizeAssumption DEF Init
  <2>4. op \in Op
    BY <1>9 DEF Init
  <2> QED
    BY <1>3, <2>1, <2>2, <2>3, <2>4 DEF Init, TypeOK, Place
<1>11. Reservations
  <2>1. Owed = {} /\ OwedExplicit = 0
    BY DEF Init, Owed, OwedExplicit
  <2> QED
    BY <2>1, FS_EmptySet DEF Init, Reservations
<1>12. Control /\ Link /\ SendsStarted /\ AcquireHonoured /\ BusOwned
  BY DEF Init, Control, Link, SendsStarted, AcquireHonoured, BusOwned
<1> QED
  BY <1>8, <1>10, <1>11, <1>12 DEF IndInv

\* A step that changes nothing keeps the invariant.
LEMMA StutterInv == ASSUME IndInv, UNCHANGED vars PROVE IndInv'
<1>0. /\ TypeOK /\ Control /\ Link /\ OneOwner /\ Reservations
      /\ SendsStarted /\ AcquireHonoured /\ BusOwned
  BY DEF IndInv
<1>1. /\ UNCHANGED <<run, sync, cts, xchg, onew, stType, stBuf, rts, bufq, sendq, evtq>>
      /\ UNCHANGED <<nextCnt, nextBuf, acq, pc, ev, acquired, held, credit, op, dev, ops>>
      /\ UNCHANGED <<armed, dropped, lost>>
  BY DEF vars, flags, link, resv, main, srcs
<1>2. OneOwner' /\ Reservations' /\ Control'
  BY <1>0, <1>1, OneOwnerStays, ReservationsStay, ControlStays DEF OnWire
<1>3. TypeOK'
  BY <1>0, <1>1 DEF TypeOK
<1>4. Link' /\ SendsStarted' /\ BusOwned' /\ AcquireHonoured'
  BY <1>0, <1>1 DEF Link, SendsStarted, BusOwned, AcquireHonoured
<1> QED
  BY <1>2, <1>3, <1>4 DEF IndInv

\* Every interrupt, event loop step and call of a handler keeps the invariant.
LEMMA NextInv == ASSUME IndInv, [Next]_vars PROVE IndInv'
<1>1. CASE Interrupt
  BY <1>1, HandleCtsInv, HandleRtsRiseInv, HandleRtsFallInv, HandleHeaderInv,
     HandleDoneInv, EvtIntrInv
  DEF Interrupt
<1>2. CASE Loop
  BY <1>2, PopInv, DispatchInv, AcquireReservedInv, RequeueInv, FinishInv, NetReleaseInv
  DEF Loop
<1>3. CASE Call
  <2>1. CASE NetAcquire \/ NetAlloc \/ NetAllocDone
    BY <2>1, NetAcquireInv, NetAllocInv, NetAllocDoneInv
  <2>2. CASE \E b \in Buffer, more \in BOOLEAN : NetFree(b, more)
    BY <2>2, NetFreeInv
  <2>3. CASE \E b \in Buffer, oneway \in BOOLEAN : NetSendAsync(b, oneway)
    BY <2>3, NetSendAsyncInv
  <2>4. CASE \E b \in Buffer, s, repl \in BOOLEAN : NetXchgBegin(b, s, repl)
    BY <2>4, NetXchgBeginInv
  <2>5. CASE NetPause \/ NetXchgSync \/ NetXchgReply \/ NetXchgEnd
    BY <2>5, NetPauseInv, NetXchgSyncInv, NetXchgReplyInv, NetXchgEndInv
  <2>6. CASE SpiSelect \/ NetStopped \/ SpiDeselect
    BY <2>6, SpiSelectInv, NetStoppedInv, SpiDeselectInv
  <2> QED
    BY <1>3, <2>1, <2>2, <2>3, <2>4, <2>5, <2>6 DEF Call
<1>4. CASE UNCHANGED vars
  BY <1>4, StutterInv
<1> QED
  BY <1>1, <1>2, <1>3, <1>4 DEF Next, MainStep

\* The state of the link, the queues and the main loop stay together what the
\* invariant says, for any buffers and any events.
THEOREM Inductive == Spec => []IndInv
<1>1. Init => IndInv
  BY InitInv
<1>2. IndInv /\ [Next]_vars => IndInv'
  BY NextInv
<1> QED
  BY <1>1, <1>2, PTL DEF Spec

\* The state has its type: in particular nextCnt never counts below zero,
\* whatever the order of acquisitions, exchanges and releases.
THEOREM TypeCorrect == Spec => []TypeOK
<1>1. IndInv => TypeOK
  BY DEF IndInv
<1> QED
  BY <1>1, Inductive, PTL

\* No buffer is ever in two places, and none disappears but by a header whose
\* length is impossible (net.c, net_handle_xchg).
THEOREM BuffersHaveOneOwner == Spec => []OneOwner
<1>1. IndInv => OneOwner
  BY DEF IndInv
<1> QED
  BY <1>1, Inductive, PTL

\* net_state_next_cnt counts the failed acquisitions that wait (net_acquire,
\* evt_handler_wrapper).
THEOREM ReservationsCounted == Spec => []Reservations
<1>1. IndInv => Reservations
  BY DEF IndInv
<1> QED
  BY <1>1, Inductive, PTL

\* A buffer set aside for a handler stays there until eos_net_alloc takes it.
THEOREM AcquisitionsHonoured == Spec => []AcquireHonoured
<1>1. IndInv => AcquireHonoured
  BY DEF IndInv
<1> QED
  BY <1>1, Inductive, PTL

\* A queued message never waits on a link that is running and clear to send.
THEOREM NothingWaitsOnReadyLink == Spec => []SendsStarted
<1>1. IndInv => SendsStarted
  BY DEF IndInv
<1> QED
  BY <1>1, Inductive, PTL

\* While another device has the SPI bus, no exchange is under way.
THEOREM BusHasOneMaster == Spec => []BusOwned
<1>1. IndInv => BusOwned
  BY DEF IndInv
<1> QED
  BY <1>1, Inductive, PTL
-----------------------------------------------------------------------------
(* Where the events are *)

Types(q) == {q[i].type : i \in DOMAIN q}
Once(q) == \A i, j \in DOMAIN q : q[i].type = q[j].type /\ q[i].type # "net" => i = j
Handling(e) == ev = e /\ pc # "release"

\* A source that is disabled has its event in one place, and only one.
Sources ==
    /\ Once(evtq)
    /\ \A e \in Event :
         /\ e \notin armed <=> e \in Types(evtq) \/ Handling(e) \/ e \in dropped
         /\ ~(e \in Types(evtq) /\ Handling(e))
         /\ e \in dropped => e \notin Types(evtq) /\ ~Handling(e)

\* What Append does to the events of the queue.
LEMMA AppendTypes ==
    ASSUME NEW S, NEW q \in Seq(S), NEW x \in S
    PROVE  /\ Types(Append(q, x)) = Types(q) \cup {x.type}
           /\ Once(q) /\ (x.type = "net" \/ x.type \notin Types(q)) => Once(Append(q, x))
<1>1. /\ DOMAIN Append(q, x) = 1..(Len(q) + 1) /\ DOMAIN q = 1..Len(q) /\ Len(q) \in Nat
      /\ \A i \in 1..Len(q) : Append(q, x)[i] = q[i]
      /\ Append(q, x)[Len(q) + 1] = x
  BY AppendProperties, LenProperties
<1> QED
  BY <1>1 DEF Types, Once

\* What Head and Tail do to the events of the queue.
LEMMA TailTypes ==
    ASSUME NEW S, NEW q \in Seq(S), q # <<>>
    PROVE  /\ Types(q) = Types(Tail(q)) \cup {Head(q).type}
           /\ Once(q) => Once(Tail(q)) /\ (Head(q).type # "net" => Head(q).type \notin Types(Tail(q)))
<1>1. /\ Head(q) = q[1] /\ DOMAIN q = 1..Len(q) /\ Len(q) \in Nat /\ Len(q) # 0
      /\ DOMAIN Tail(q) = 1..(Len(q) - 1)
      /\ \A i \in 1..(Len(q) - 1) : Tail(q)[i] = q[i + 1]
  BY HeadTailProperties, LenProperties, EmptySeq
<1>2. \A i \in 1..Len(q) : i = 1 \/ (i - 1 \in 1..(Len(q) - 1) /\ (i - 1) + 1 = i)
  BY <1>1
<1>3. Types(q) = Types(Tail(q)) \cup {Head(q).type}
  <2>1. ASSUME NEW i \in 1..Len(q)
        PROVE  q[i] = Head(q) \/ \E j \in DOMAIN Tail(q) : q[i] = Tail(q)[j]
    BY <1>1, <1>2
  <2>2. ASSUME NEW j \in DOMAIN Tail(q) PROVE \E i \in 1..Len(q) : Tail(q)[j] = q[i]
    BY <1>1
  <2> QED
    BY <1>1, <2>1, <2>2 DEF Types
<1>4. ASSUME Once(q)
      PROVE  Once(Tail(q)) /\ (Head(q).type # "net" => Head(q).type \notin Types(Tail(q)))
  BY <1>1, <1>4 DEF Types, Once
<1> QED
  BY <1>3, <1>4

\* A step that leaves the events where they are.
LEMMA SourcesStay ==
    ASSUME Sources, UNCHANGED <<evtq, armed, dropped, ev>>,
           ev \in Event => (pc' = "release" <=> pc = "release")
    PROVE  Sources'
BY DEF Sources, Handling

LEMMA InterruptSources == ASSUME IndInv, Sources, Interrupt PROVE Sources'
<1>0. TypeOK /\ {"net", "none"} \cap Event = {} /\ evtq \in Seq(EvtItem)
  BY EventAssumption DEF IndInv, TypeOK, Event
<1>1. CASE HandleCts \/ HandleRtsRise \/ HandleRtsFall
  BY <1>1, SourcesStay
     DEF HandleCts, CtsHandler, HandleRtsRise, HandleRtsFall, RtsFallHandler, main, srcs
<1>2. CASE \E h \in Header : HandleHeader(h)
  BY <1>2, SourcesStay DEF HandleHeader, main, srcs
<1>3. CASE HandleDone
  <2>1. UNCHANGED <<armed, dropped, ev, pc>>
    BY <1>3 DEF HandleDone, main, srcs
  <2>2. CASE UNCHANGED evtq
    BY <2>1, <2>2, SourcesStay
  <2>3. CASE evtq' = Append(evtq, [type |-> "net", buf |-> stBuf]) /\ ~sync
    <3>1. stBuf \in Buffer
      BY <1>3 DEF HandleDone, IndInv, Link
    <3>2. [type |-> "net", buf |-> stBuf] \in EvtItem
      BY <3>1 DEF EvtItem
    <3>3. Types(evtq') = Types(evtq) \cup {"net"} /\ Once(evtq')
      BY <2>3, <3>2, <1>0, AppendTypes DEF Sources
    <3> QED
      BY <3>3, <2>1, <1>0 DEF Sources, Handling
  <2> QED
    BY <1>3, <2>2, <2>3 DEF HandleDone, Deliver
<1>4. ASSUME NEW e \in Event, EvtIntr(e) PROVE Sources'
  <2>1. e \in armed /\ armed' = armed \ {e} /\ UNCHANGED <<ev, pc>>
    BY <1>4 DEF EvtIntr, main
  <2>2. e \notin Types(evtq) /\ ~Handling(e) /\ e \notin dropped /\ e # "net"
    BY <2>1, <1>0 DEF Sources
  <2>3. CASE evtq' = Append(evtq, [type |-> e, buf |-> NoBuf]) /\ UNCHANGED dropped
    <3>1. [type |-> e, buf |-> NoBuf] \in EvtItem
      BY DEF EvtItem
    <3>2. Types(evtq') = Types(evtq) \cup {e} /\ Once(evtq')
      BY <2>2, <2>3, <3>1, <1>0, AppendTypes DEF Sources
    <3> QED
      BY <3>2, <2>1, <2>2, <2>3 DEF Sources, Handling
  <2>4. CASE dropped' = dropped \cup {e} /\ UNCHANGED evtq
    BY <2>1, <2>2, <2>4 DEF Sources, Handling
  <2> QED
    BY <1>4, <2>3, <2>4 DEF EvtIntr
<1> QED
  BY <1>1, <1>2, <1>3, <1>4 DEF Interrupt

LEMMA LoopSources == ASSUME IndInv, Sources, Loop PROVE Sources'
<1>0. /\ TypeOK /\ Control /\ {"net", "none"} \cap Event = {} /\ Wrapped \subseteq Event
      /\ evtq \in Seq(EvtItem)
  BY EventAssumption DEF IndInv, TypeOK, Event
<1>1. CASE Pop
  <2>1. /\ pc = "loop" /\ evtq # <<>> /\ evtq' = Tail(evtq) /\ ev' = Head(evtq).type
        /\ pc' \in {"dispatch", "handler"} /\ UNCHANGED <<armed, dropped>> /\ ev = "none"
    BY <1>1, <1>0 DEF Pop, srcs, Control
  <2>2. /\ Types(evtq) = Types(evtq') \cup {ev'} /\ Once(evtq')
        /\ ev' # "net" => ev' \notin Types(evtq')
    BY <2>1, <1>0, TailTypes DEF Sources
  <2> QED
    BY <2>1, <2>2, <1>0 DEF Sources, Handling
<1>2. CASE Dispatch
  BY <1>2, SourcesStay DEF Dispatch, TryAcquire, srcs
<1>3. CASE AcquireReserved
  BY <1>3, SourcesStay DEF AcquireReserved, srcs
<1>4. CASE Requeue
  <2>1. /\ pc = "requeue" /\ pc' = "loop" /\ ev' = "none" /\ ev \in Event /\ UNCHANGED armed
        /\ ev # "net"
    BY <1>4, <1>0 DEF Requeue, Control
  <2>2. Handling(ev) /\ ev \notin Types(evtq) /\ ev \notin dropped
    BY <2>1 DEF Sources, Handling
  <2>3. CASE evtq' = QueuedAgain /\ UNCHANGED dropped
    <3>1. [type |-> ev, buf |-> NoBuf] \in EvtItem
      BY <2>1 DEF EvtItem
    <3>2. Types(evtq') = Types(evtq) \cup {ev} /\ Once(evtq')
      BY <2>1, <2>2, <2>3, <3>1, <1>0, AppendTypes DEF Sources, QueuedAgain
    <3> QED
      BY <3>2, <2>1, <2>2, <2>3, <1>0 DEF Sources, Handling
  <2>4. CASE dropped' = dropped \cup {ev} /\ UNCHANGED evtq
    BY <2>1, <2>2, <2>4, <1>0 DEF Sources, Handling
  <2> QED
    BY <1>4, <2>3, <2>4 DEF Requeue
<1>5. CASE Finish
  <2>1. /\ pc = "handler" /\ armed' = armed \cup ({ev} \cap Event) /\ UNCHANGED <<evtq, dropped>>
        /\ \/ pc' = "release" /\ ev' = ev
           \/ pc' = "loop" /\ ev' = "none"
    BY <1>5 DEF Finish
  <2> QED
    BY <2>1, <1>0 DEF Sources, Handling
<1>6. CASE NetRelease
  <2>1. pc = "release" /\ pc' = "loop" /\ ev' = "none" /\ UNCHANGED <<evtq, armed, dropped>>
    BY <1>6 DEF NetRelease, srcs
  <2> QED
    BY <2>1, <1>0 DEF Sources, Handling
<1> QED
  BY <1>1, <1>2, <1>3, <1>4, <1>5, <1>6 DEF Loop

LEMMA CallSources == ASSUME Sources, Call PROVE Sources'
<1>1. UNCHANGED <<evtq, armed, dropped, ev>> /\ pc # "release" /\ pc' # "release"
  <2>1. CASE NetAcquire \/ NetAlloc \/ NetAllocDone \/ NetPause
    BY <2>1 DEF NetAcquire, TryAcquire, NetAlloc, NetAllocDone, NetPause, InHandler, srcs
  <2>2. CASE \E b \in Buffer, more \in BOOLEAN : NetFree(b, more)
    BY <2>2 DEF NetFree, InHandler, srcs
  <2>3. CASE \E b \in Buffer, oneway \in BOOLEAN : NetSendAsync(b, oneway)
    BY <2>3 DEF NetSendAsync, InHandler, srcs
  <2>4. CASE \E b \in Buffer, s, repl \in BOOLEAN : NetXchgBegin(b, s, repl)
    BY <2>4 DEF NetXchgBegin, InHandler, srcs
  <2>5. CASE NetXchgSync \/ NetXchgReply \/ NetXchgEnd
    BY <2>5 DEF NetXchgSync, NetXchgReply, NetXchgEnd, AfterXchg, srcs
  <2>6. CASE SpiSelect \/ NetStopped \/ SpiDeselect
    BY <2>6 DEF SpiSelect, NetStopped, SpiDeselect, InHandler, srcs
  <2> QED
    BY <2>1, <2>2, <2>3, <2>4, <2>5, <2>6 DEF Call
<1> QED
  BY <1>1, SourcesStay

LEMMA NextSources == ASSUME IndInv, Sources, [Next]_vars PROVE Sources'
<1>1. CASE UNCHANGED vars
  BY <1>1, SourcesStay DEF vars, main, srcs
<1> QED
  BY <1>1, InterruptSources, LoopSources, CallSources DEF Next, MainStep

LEMMA InitSources == ASSUME Init PROVE Sources
<1>1. evtq = <<>> /\ armed = Event /\ dropped = {} /\ ev = "none" /\ "none" \notin Event
  BY EventAssumption DEF Init, Event
<1> QED
  BY <1>1 DEF Sources, Types, Once, Handling

LEMMA SourcesAccounted == ASSUME TypeOK, Sources PROVE Accounted
<1> SUFFICES ASSUME NEW e \in Event
             PROVE  LET queued == {i \in DOMAIN evtq : evtq[i].type = e} IN
                    /\ Cardinality(queued) <= 1
                    /\ e \notin armed <=>
                          queued # {} \/ (ev = e /\ pc # "release") \/ e \in dropped
  BY DEF Accounted
<1> DEFINE queued == {i \in DOMAIN evtq : evtq[i].type = e}
<1>1. e # "net"
  BY EventAssumption DEF Event
<1>2. \A i, j \in queued : i = j
  BY <1>1 DEF Sources, Once
<1>3. queued # {} <=> e \in Types(evtq)
  BY DEF Types
<1>4. Cardinality(queued) <= 1
  <2>1. CASE queued = {}
    BY <2>1, FS_EmptySet
  <2>2. CASE queued # {}
    <3>1. PICK i : queued = {i}
      BY <2>2, <1>2
    <3>2. Cardinality({i}) = 1
      BY FS_Singleton
    <3> HIDE DEF queued
    <3> QED
      BY <3>1, <3>2
  <2> QED
    BY <2>1, <2>2
<1> QED
  BY <1>3, <1>4 DEF Sources, Handling

\* An event source that has disabled itself has its event queued once, under way, or dropped by the
\* full queue: no other source is left without anything that would enable it (eos_evtq_push,
\* evt_handler_wrapper).
THEOREM SourcesAccountedFor == Spec => []Accounted
<1>1. Init => Sources
  BY InitSources
<1>2. IndInv /\ Sources /\ [Next]_vars => Sources'
  BY NextSources
<1>3. IndInv /\ Sources => Accounted
  BY SourcesAccounted DEF IndInv
<1> QED
  BY <1>1, <1>2, <1>3, Inductive, PTL DEF Spec
-----------------------------------------------------------------------------
(* Requests of the ESP32 *)

\* A request waits on a ready link only for want of a buffer, or while a received message is still to be
\* handled: giving back its buffer starts the exchange.  A buffer that is owed goes to who waits for it
\* first, so nothing is owed then.
Requests ==
    run /\ cts /\ rts =>
        /\ nextCnt > 0 => bufq = <<>>
        /\ lost = {} /\ bufq # <<>> => Received # {} \/ (ev = "net" /\ held # {})

\* net_xchg_next leaves a request waiting only if there is no buffer.
LEMMA NextRequests ==
    ASSUME NetXchgNext(NoBuf), UNCHANGED rts PROVE Requests'
<1>1. cts' /\ rts' => bufq' = <<>>
  BY DEF NetXchgNext, NetXchgStart
<1> QED
  BY <1>1 DEF Requests

LEMMA GivenRequests ==
    ASSUME TypeOK, NEW b \in Buffer, NetXchgNext(b), UNCHANGED rts PROVE Requests'
<1>1. b # NoBuf /\ bufq \in Seq(Buffer)
  BY BufferAssumption DEF TypeOK
<1>2. Append(bufq, b) # <<>>
  BY <1>1, AppendProperties
<1>3. ~(cts' /\ rts')
  BY <1>1, <1>2 DEF NetXchgNext, NetXchgStart
<1> QED
  BY <1>3 DEF Requests

LEMMA ResumeRequests == ASSUME NetResume, UNCHANGED rts PROVE Requests'
<1>1. CASE cts
  BY <1>1, NextRequests DEF NetResume
<1>2. CASE ~cts
  BY <1>2 DEF NetResume, link, Requests
<1> QED
  BY <1>1, <1>2

\* A step that gives no buffer back and handles no message.
LEMMA RequestsStay ==
    ASSUME Requests, run' /\ cts' /\ rts' => run /\ cts /\ rts,
           nextCnt' > 0 => nextCnt > 0, bufq' # <<>> => bufq # <<>>,
           lost' = {} => lost = {}, Received \subseteq Received', ev' = ev, held \subseteq held'
    PROVE  Requests'
BY DEF Requests

\* What is done with an event leaves the received messages in the queue.
LEMMA EventRequests ==
    ASSUME Requests, TypeOK, NEW e, e.type \in Event, e.buf = NoBuf, e \in EvtItem,
           evtq' = Append(evtq, e)
    PROVE  Received' = Received
<1>1. Bufs(Append(evtq, e)) = Bufs(evtq) \cup ({e.buf} \ {NoBuf})
  BY AppendBufs DEF TypeOK
<1> QED
  BY <1>1 DEF Received

LEMMA InterruptRequests == ASSUME IndInv, Requests, Interrupt PROVE Requests'
<1>0. TypeOK /\ Link
  BY DEF IndInv
<1>1. CASE HandleCts
  <2>1. CASE run
    BY <1>1, <2>1, NextRequests DEF HandleCts, CtsHandler
  <2>2. CASE ~run
    BY <1>1, <2>2 DEF HandleCts, CtsHandler, flags, Requests
  <2> QED BY <2>1, <2>2
<1>2. CASE HandleRtsRise
  BY <1>2 DEF HandleRtsRise, RtsLeavesCts, flags, Requests
<1>3. CASE HandleRtsFall
  BY <1>3 DEF HandleRtsFall, RtsFallHandler, Requests
<1>4. CASE \E h \in Header : HandleHeader(h)
  BY <1>4, <1>0 DEF HandleHeader, Link, Requests
<1>5. CASE HandleDone
  BY <1>5, <1>0 DEF HandleDone, Link, Requests
<1>6. ASSUME NEW e \in Event, EvtIntr(e) PROVE Requests'
  <2>1. Received' = Received
    <3>1. [type |-> e, buf |-> NoBuf] \in EvtItem
      BY DEF EvtItem
    <3>2. CASE evtq' = Append(evtq, [type |-> e, buf |-> NoBuf])
      BY <3>1, <3>2, <1>0, EventRequests
    <3>3. CASE UNCHANGED evtq
      BY <3>3 DEF Received, Bufs
    <3> QED BY <1>6, <3>2, <3>3 DEF EvtIntr
  <2>2. UNCHANGED <<run, cts, rts, bufq, nextCnt, lost, ev, held>>
    BY <1>6 DEF EvtIntr, flags, link, resv, main
  <2> QED BY <2>1, <2>2, RequestsStay
<1> QED
  BY <1>1, <1>2, <1>3, <1>4, <1>5, <1>6 DEF Interrupt

\* An acquisition takes a buffer, or finds none and is owed one.
LEMMA AcquireRequests ==
    ASSUME Requests, TypeOK, NEW ok, NEW failed, TryAcquire(ok, failed),
           UNCHANGED <<run, cts, rts, lost, ev, held, evtq>>
    PROVE  Requests'
<1>1. Received' = Received
  BY DEF Received, Bufs
<1>2. bufq' # <<>> => bufq # <<>> /\ nextCnt' = nextCnt
  BY EmptySeq, HeadTailProperties DEF TryAcquire, TypeOK
<1> QED
  BY <1>1, <1>2 DEF Requests

LEMMA LoopRequests ==
    ASSUME IndInv, Requests, Loop, NEW b \in Buffer, NEW c \in Buffer, b # c PROVE Requests'
<1>0. TypeOK /\ Control /\ Link /\ OneOwner /\ SendsStarted
  BY DEF IndInv
<1>1. CASE Pop
  <2>1. /\ evtq # <<>> /\ evtq' = Tail(evtq) /\ ev' = Head(evtq).type
        /\ held' = held \cup ({Head(evtq).buf} \ {NoBuf}) /\ ev # "net"
        /\ UNCHANGED <<run, cts, rts, bufq, nextCnt, lost>>
    BY <1>1, <1>0 DEF Pop, Control, flags, link, resv
  <2>2. Received = Received' \cup ({Head(evtq).buf} \ {NoBuf}) /\ Head(evtq) \in EvtItem
    BY <2>1, <1>0, TailBufs DEF TypeOK, Received
  <2>3. Head(evtq).buf = NoBuf \/ Head(evtq).type = "net"
    BY <2>2 DEF EvtItem
  <2> QED
    BY <2>1, <2>2, <2>3 DEF Requests
<1>2. CASE Dispatch
  <2>1. UNCHANGED <<run, cts, rts, lost, ev, held, evtq>>
    BY <1>2 DEF Dispatch, flags, link
  <2>2. CASE UNCHANGED <<bufq, resv>>
    BY <2>1, <2>2, RequestsStay DEF resv, Received, Bufs
  <2>3. CASE TryAcquire("handler", "requeue")
    BY <2>1, <2>3, <1>0, AcquireRequests
  <2> QED BY <1>2, <2>2, <2>3 DEF Dispatch
<1>3. CASE AcquireReserved
  <2>1. UNCHANGED <<run, cts, rts, lost, ev, held, evtq, bufq>> /\ nextCnt' = nextCnt - 1
    BY <1>3 DEF AcquireReserved, flags, link
  <2> QED
    BY <2>1, <1>0, RequestsStay DEF TypeOK, Received, Bufs
<1>4. CASE Requeue
  <2>1. /\ UNCHANGED <<run, cts, rts, bufq, nextCnt, lost, held>> /\ ev' = "none" /\ ev \in Wrapped
        /\ ev # "net"
    BY <1>4, <1>0, EventAssumption DEF Requeue, flags, link, resv, Control, Event
  <2>2. Received' = Received
    <3>1. [type |-> ev, buf |-> NoBuf] \in EvtItem /\ ev \in Event
      BY <2>1 DEF EvtItem, Event
    <3>2. CASE evtq' = QueuedAgain
      BY <3>1, <3>2, <1>0, EventRequests DEF QueuedAgain
    <3>3. CASE UNCHANGED evtq
      BY <3>3 DEF Received, Bufs
    <3> QED BY <1>4, <3>2, <3>3 DEF Requeue
  <2> QED
    BY <2>1, <2>2 DEF Requests
<1>5. CASE Finish
  <2>1. /\ UNCHANGED <<run, cts, rts, bufq, nextCnt, lost, held, evtq>> /\ held = {}
        /\ ev' \in {ev, "none"}
    BY <1>5 DEF Finish, flags, link, resv
  <2>2. Received' = Received
    BY <2>1 DEF Received, Bufs
  <2> QED
    BY <2>1, <2>2 DEF Requests
<1>6. CASE NetRelease
  <2>1. /\ UNCHANGED <<run, cts, rts, nextCnt, lost, evtq, held>> /\ held = {} /\ ev # "net" /\ ev' = "none"
        /\ nextCnt \in Nat
    BY <1>6, <1>0, EventAssumption DEF NetRelease, flags, link, Control, Event, TypeOK
  <2>2. Received' = Received
    BY <2>1 DEF Received, Bufs
  <2>3. CASE nextCnt = 0 /\ nextBuf # NoBuf
    <3>1. ASSUME run, cts, lost = {}, bufq = <<>> PROVE Received # {}
      <4>1. Sending = {} /\ OnWire = {} /\ Free = {}
        BY <1>0, <3>1 DEF SendsStarted, Link, Sending, OnWire, Free, Bufs, Elems
      <4>2. Buffer = Received \cup Reserved /\ Reserved \subseteq {nextBuf}
        BY <1>0, <2>1, <3>1, <4>1 DEF OneOwner, Reserved
      <4> QED
        BY <4>2
    <3> QED
      BY <2>1, <2>2, <2>3, <3>1 DEF Requests
  <2>4. CASE UNCHANGED bufq
    BY <2>1, <2>2, <2>4 DEF Requests
  <2> QED
    BY <1>6, <2>3, <2>4 DEF NetRelease
<1> QED
  BY <1>1, <1>2, <1>3, <1>4, <1>5, <1>6 DEF Loop

LEMMA CallRequests == ASSUME IndInv, Requests, Call PROVE Requests'
<1>0. TypeOK /\ Control /\ Link
  BY DEF IndInv
<1>1. CASE NetAcquire
  BY <1>1, <1>0, AcquireRequests DEF NetAcquire, flags, link
<1>2. CASE NetAlloc \/ NetAllocDone \/ NetStopped
  <2>1. UNCHANGED <<run, cts, rts, bufq, nextCnt, lost, ev, evtq>> /\ held \subseteq held'
    BY <1>2 DEF NetAlloc, NetAllocDone, NetStopped, flags, link, resv
  <2> QED
    BY <2>1, RequestsStay DEF Received, Bufs
<1>3. ASSUME NEW b \in Buffer, NEW more \in BOOLEAN, NetFree(b, more) PROVE Requests'
  <2>1. /\ UNCHANGED <<run, rts, evtq, nextCnt, ev, lost, acquired>> /\ b \in held /\ (more => acquired)
        /\ nextCnt \in Nat
    BY <1>3, <1>0 DEF NetFree, flags, TypeOK
  <2>2. CASE SetAside(more) /\ UNCHANGED <<link, bufq>>
    <3>1. more \/ nextCnt > 0
      BY <2>2 DEF SetAside
    <3>2. CASE nextCnt > 0
      BY <2>1, <2>2, <3>2 DEF link, Requests
    <3>3. CASE acquired
      <4>1. ev # "net"
        BY <3>3, <1>0, EventAssumption DEF Control, Event
      <4>2. Received' = Received
        BY <2>1 DEF Received, Bufs
      <4> QED
        BY <2>1, <2>2, <4>1, <4>2 DEF link, Requests
    <3> QED BY <2>1, <3>1, <3>2, <3>3
  <2>3. CASE run /\ cts /\ NetXchgNext(b)
    BY <2>1, <2>3, <1>0, GivenRequests
  <2>4. CASE ~(run /\ cts) /\ UNCHANGED link
    BY <2>1, <2>4 DEF link, Requests
  <2> QED
    BY <1>3, <2>2, <2>3, <2>4 DEF NetFree, GiveLink, GiveBack
<1>4. ASSUME NEW b \in Buffer, NEW oneway \in BOOLEAN, NetSendAsync(b, oneway) PROVE Requests'
  <2>1. CASE run /\ cts
    BY <1>4, <2>1 DEF NetSendAsync, NetXchgStart, Requests
  <2>2. CASE ~(run /\ cts)
    BY <1>4, <2>2 DEF NetSendAsync, flags, link, Requests
  <2> QED BY <2>1, <2>2
<1>5. ASSUME NEW b \in Buffer, NEW s \in BOOLEAN, NEW repl \in BOOLEAN, NetXchgBegin(b, s, repl)
      PROVE  Requests'
  <2>1. CASE run
    BY <1>5, <2>1 DEF NetXchgBegin, Requests
  <2>2. CASE ~run
    BY <1>5, <2>2, ResumeRequests DEF NetXchgBegin
  <2> QED BY <2>1, <2>2
<1>6. CASE NetPause \/ SpiSelect
  BY <1>6 DEF NetPause, SpiSelect, Requests
<1>7. CASE NetXchgSync \/ NetXchgReply
  BY <1>7 DEF NetXchgSync, NetXchgReply, NetXchgStart, Requests
<1>8. CASE NetXchgEnd \/ SpiDeselect
  BY <1>8, ResumeRequests DEF NetXchgEnd, SpiDeselect
<1> QED
  BY <1>1, <1>2, <1>3, <1>4, <1>5, <1>6, <1>7, <1>8 DEF Call

LEMMA RequestsEmpty ==
    ASSUME IndInv, Requests, NEW b \in Buffer, NEW c \in Buffer, b # c
    PROVE  NoMissedRequest
<1> SUFFICES ASSUME pc = "loop", evtq = <<>>, run, cts, lost = {}, rts PROVE FALSE
  BY DEF NoMissedRequest
<1>0. Control /\ Link /\ OneOwner /\ SendsStarted
  BY DEF IndInv
<1>1. held = {} /\ Received = {} /\ Sending = {} /\ OnWire = {}
  BY <1>0 DEF Control, Link, SendsStarted, Received, Sending, OnWire, Bufs
<1>2. Free = {}
  BY <1>1 DEF Requests, Free, Elems
<1>3. Buffer = Reserved /\ Reserved \subseteq {nextBuf}
  BY <1>0, <1>1, <1>2 DEF OneOwner, Reserved
<1> QED
  BY <1>3

\* With more than one buffer, as net.h has them, no request of the ESP32 is forgotten: an idle main loop on
\* a ready link has answered it (net_handle_rts, net_xchg_next, eos_net_free, eos_net_release).
THEOREM NoRequestMissed ==
    ASSUME NEW b \in Buffer, NEW c \in Buffer, b # c PROVE Spec => []NoMissedRequest
<1>1. Init => Requests
  BY DEF Init, Requests
<1>2. IndInv /\ Requests /\ [Next]_vars => Requests'
  <2> SUFFICES ASSUME IndInv, Requests, [Next]_vars PROVE Requests'
    OBVIOUS
  <2>1. CASE UNCHANGED vars
    BY <2>1, RequestsStay DEF vars, flags, link, resv, main, Received, Bufs
  <2>2. CASE Loop
    BY <2>2, LoopRequests
  <2> QED
    BY <2>1, <2>2, InterruptRequests, CallRequests DEF Next, MainStep
<1>3. IndInv /\ Requests => NoMissedRequest
  BY RequestsEmpty
<1> QED
  BY <1>1, <1>2, <1>3, Inductive, PTL DEF Spec
-----------------------------------------------------------------------------
(***************************************************************************)
(* SpiLink: the two ends together                                          *)
(***************************************************************************)

\* The ESP32 waits in a transaction exactly while the FE310 has its CTS: as an edge that is pending,
\* as a flag, or as the exchange under way, and only as one of the three.
OneToken ==
    /\ wire.cts \in BOOLEAN /\ cts \in BOOLEAN
    /\ wire.cts => ~cts /\ xchg = "idle"
    /\ cts => xchg = "idle"
    /\ at \in {"ready", "replying"} <=> wire.cts \/ cts \/ xchg # "idle"
    /\ wire = [rts |-> wire.rts, rise |-> wire.rise, fall |-> wire.fall, cts |-> wire.cts]

LEMMA InitToken == LinkInit => OneToken
<1> SUFFICES ASSUME LinkInit PROVE OneToken
  OBVIOUS
<1>1. cts = FALSE /\ xchg = "idle"
  BY DEF LinkInit, Init
<1>2. at = "pop" /\ wire = [rts |-> FALSE, rise |-> FALSE, fall |-> FALSE, cts |-> FALSE]
  BY DEF LinkInit
<1> QED BY <1>1, <1>2 DEF OneToken

\* An exchange that starts uses up the CTS it finds.
LEMMA StartToken ==
    ASSUME OneToken, cts, NEW o, NEW b, NetXchgStart(o, b), UNCHANGED <<at, wire>>
    PROVE OneToken'
  BY DEF OneToken, NetXchgStart

LEMMA NextToken ==
    ASSUME OneToken, cts, NEW b, NetXchgNext(b), UNCHANGED <<at, wire>>
    PROVE OneToken'
<1> USE DEF NetXchgNext
<1>1. CASE \E o, c : NetXchgStart(o, c)
  BY <1>1, StartToken
<1>2. CASE cts' = TRUE /\ UNCHANGED xchg
  BY <1>2 DEF OneToken
<1> QED BY <1>1, <1>2

LEMMA ResumeToken ==
    ASSUME OneToken, NetResume, UNCHANGED <<at, wire>> PROVE OneToken'
<1>1. CASE cts
  BY <1>1, NextToken DEF NetResume
<1>2. CASE ~cts
  BY <1>2 DEF NetResume, OneToken, link
<1> QED BY <1>1, <1>2

LEMMA EspToken == ASSUME OneToken, Esp \/ EspSend PROVE OneToken'
<1>1. CASE TakeMessage
  BY <1>1 DEF TakeMessage, OneToken, RtsDown, vars, link
<1>2. CASE OfferExchange
  BY <1>2 DEF OfferExchange, OneToken, vars, link
<1>3. CASE HandleReceived
  BY <1>3 DEF HandleReceived, OneToken, vars, link
<1>4. CASE EspSend
  BY <1>4 DEF EspSend, OneToken, vars, link
<1> QED BY <1>1, <1>2, <1>3, <1>4 DEF Esp

LEMMA InterruptToken == ASSUME OneToken, FeInterrupt PROVE OneToken'
<1>1. CASE TakeRise
  BY <1>1 DEF TakeRise, HandleRtsRise, RtsLeavesCts, Transmitted, OneToken, esp
<1>2. CASE TakeFall
  BY <1>2 DEF TakeFall, RtsFallHandler, OneToken, esp, link
<1>3. CASE TakeCts
  <2> USE <1>3 DEF TakeCts, esp
  <2>1. wire.cts /\ ~cts /\ xchg = "idle" /\ wire'.cts = FALSE
    BY DEF OneToken
  <2>2. CASE \E o, c : NetXchgStart(o, c)
    BY <2>1, <2>2 DEF OneToken, NetXchgStart
  <2>3. CASE cts' = TRUE /\ UNCHANGED xchg
    BY <2>1, <2>3 DEF OneToken
  <2> QED BY <2>2, <2>3 DEF CtsHandler, NetXchgNext
<1>4. CASE TakeHeader
  <2> USE <1>4 DEF TakeHeader, esp
  <2>1. PICK h \in {"none", "msg"} : HandleHeader(h)
    OBVIOUS
  <2> QED BY <2>1 DEF OneToken, HandleHeader
<1>5. CASE TakeDone
  BY <1>5 DEF TakeDone, HandleDone, Transmitted, OneToken
<1> QED BY <1>1, <1>2, <1>3, <1>4, <1>5 DEF FeInterrupt

LEMMA LoopToken == ASSUME OneToken, Loop, UNCHANGED <<at, wire>> PROVE OneToken'
<1>1. UNCHANGED <<cts, xchg>>
  BY DEF Loop, Pop, Dispatch, AcquireReserved, Requeue, Finish, NetRelease, link
<1> QED BY <1>1 DEF OneToken

LEMMA QuietToken ==
    ASSUME OneToken, UNCHANGED <<at, wire>>,
           NetAcquire \/ NetAlloc \/ NetAllocDone \/ NetPause \/ SpiSelect \/ NetStopped
    PROVE OneToken'
<1>1. UNCHANGED <<cts, xchg>>
  BY DEF NetAcquire, NetAlloc, NetAllocDone, NetPause, SpiSelect, NetStopped, link
<1> QED BY <1>1 DEF OneToken

LEMMA FeToken == ASSUME OneToken, Fe \/ TakeEvent PROVE OneToken'
<1>1. UNCHANGED <<at, wire>>
  BY DEF Fe, TakeEvent, SendQueued, SendDirect, FetchReply, OtherStep, Sends, esp
<1>2. CASE SendQueued
  <2>1. PICK b \in Buffer, oneway \in BOOLEAN : NetSendAsync(b, oneway)
    BY <1>2 DEF SendQueued
  <2>2. CASE run /\ cts
    BY <2>1, <2>2, <1>1, StartToken DEF NetSendAsync
  <2>3. CASE ~(run /\ cts)
    BY <2>1, <2>3, <1>1 DEF NetSendAsync, link, OneToken
  <2> QED BY <2>2, <2>3
<1>3. CASE SendDirect
  <2>1. PICK b \in Buffer, s \in BOOLEAN, repl \in BOOLEAN : NetXchgBegin(b, s, repl)
    BY <1>3 DEF SendDirect
  <2>2. CASE run
    BY <2>1, <2>2, <1>1 DEF NetXchgBegin, link, OneToken
  <2>3. CASE ~run
    BY <2>1, <2>3, <1>1, ResumeToken DEF NetXchgBegin
  <2> QED BY <2>2, <2>3
<1>4. CASE FetchReply
  BY <1>4, <1>1, StartToken DEF FetchReply, NetXchgReply
<1>5. CASE Loop
  BY <1>5, <1>1, LoopToken
<1>6. CASE NetAcquire \/ NetAlloc \/ NetAllocDone \/ NetPause \/ SpiSelect \/ NetStopped
  BY <1>6, <1>1, QuietToken
<1>7. CASE \E b \in Buffer, more \in BOOLEAN : NetFree(b, more)
  <2>1. PICK b \in Buffer, more \in BOOLEAN : NetFree(b, more)
    BY <1>7
  <2>2. CASE UNCHANGED link
    BY <2>2, <1>1 DEF link, OneToken
  <2>3. CASE cts /\ NetXchgNext(b)
    BY <2>3, <1>1, NextToken
  <2> QED BY <2>1, <2>2, <2>3 DEF NetFree, GiveLink, GiveBack
<1>8. CASE NetXchgSync
  BY <1>8, <1>1, StartToken DEF NetXchgSync
<1>9. CASE NetXchgEnd \/ SpiDeselect
  BY <1>9, <1>1, ResumeToken DEF NetXchgEnd, SpiDeselect
<1>10. CASE \E e \in Event : EvtIntr(e)
  BY <1>10, <1>1 DEF EvtIntr, link, OneToken
<1> QED
  BY <1>2, <1>3, <1>4, <1>5, <1>6, <1>7, <1>8, <1>9, <1>10 DEF Fe, OtherStep, TakeEvent

LEMMA TokenKept == OneToken /\ [LinkNext]_linkVars => OneToken'
<1> SUFFICES ASSUME OneToken, [LinkNext]_linkVars PROVE OneToken'
  OBVIOUS
<1>1. CASE UNCHANGED linkVars
  BY <1>1 DEF linkVars, OneToken, vars, link, esp
<1> QED BY <1>1, EspToken, InterruptToken, FeToken DEF LinkNext
-----------------------------------------------------------------------------
\* A step of either end is a step EosNet allows, or leaves the FE310 as it is.
LEMMA Step == ASSUME OneToken, rts \in BOOLEAN, [LinkNext]_linkVars PROVE [Next]_vars
<1>1. CASE Esp \/ EspSend \/ UNCHANGED linkVars
  BY <1>1 DEF Esp, TakeMessage, OfferExchange, HandleReceived, EspSend, linkVars
<1>2. CASE FeInterrupt
  <2>1. CASE TakeRise
    BY <2>1 DEF TakeRise, Next, Interrupt
  <2>2. CASE TakeFall /\ rts
    BY <2>2 DEF TakeFall, HandleRtsFall, Next, Interrupt
  <2>3. CASE TakeFall /\ rts = FALSE
    BY <2>3 DEF TakeFall, RtsFallHandler, vars
  <2>4. CASE TakeCts
    BY <2>4 DEF TakeCts, HandleCts, OneToken, Next, Interrupt
  <2>5. CASE TakeHeader
    BY <2>5, LinkAssumption DEF TakeHeader, Next, Interrupt
  <2>6. CASE TakeDone
    BY <2>6 DEF TakeDone, Next, Interrupt
  <2> QED BY <1>2, <2>1, <2>2, <2>3, <2>4, <2>5, <2>6 DEF FeInterrupt
<1>3. CASE Fe
  BY <1>3 DEF Fe, SendQueued, SendDirect, FetchReply, OtherStep, Next, MainStep, Call
<1>4. CASE TakeEvent
  BY <1>4 DEF TakeEvent, Next, Interrupt
<1> QED BY <1>1, <1>2, <1>3, <1>4 DEF LinkNext

\* The token is kept: net_xchg_task and the FE310's handlers hand the CTS back and forth.
THEOREM TokenAlways == LinkSpec => []OneToken
  BY InitToken, TokenKept, PTL DEF LinkSpec

\* The composed link implements EosNet, for any number of buffers, messages and events:
\* the ESP32's task (net_xchg_task) raises CTS only when the FE310 can take it.
THEOREM Composition == LinkSpec => FollowsEosNet
<1> DEFINE Inv == OneToken /\ IndInv
<1>1. LinkInit => Init
  BY DEF LinkInit
<1>2. LinkInit => Inv
  BY <1>1, InitToken, InitInv
<1>3. Inv => rts \in BOOLEAN
  BY DEF IndInv, TypeOK
<1>4. Inv /\ [LinkNext]_linkVars => [Next]_vars
  BY <1>3, Step
<1>5. Inv /\ [LinkNext]_linkVars => Inv'
  BY <1>4, TokenKept, NextInv
<1> QED BY <1>1, <1>2, <1>4, <1>5, PTL DEF LinkSpec, FollowsEosNet, Spec

\* What was proved of the FE310 alone holds of it beside the ESP32: no buffer in two places (net.c),
\* no queued message left behind on a ready link, one master of the bus (spi.c).
THEOREM LinkSafe == LinkSpec => [](OneOwner /\ SendsStarted /\ BusOwned)
  BY Composition, BuffersHaveOneOwner, NothingWaitsOnReadyLink, BusHasOneMaster, PTL
     DEF FollowsEosNet
-----------------------------------------------------------------------------
(* The messages of the ESP32 *)

Message == {None} \cup [way : {"queued", "direct"}, n : Nat \ {0}, repl : BOOLEAN]

\* The types of what the composition adds to EosNet.
LinkTypes ==
    /\ at \in {"pop", "offer", "ready", "received", "reply", "replying"}
    /\ espq \in Seq(Nat \ {0}) /\ offer \in Nat /\ skip \in BOOLEAN
    /\ recv \in [msg : Message, onew : BOOLEAN]
    /\ wire \in [rts : BOOLEAN, rise : BOOLEAN, fall : BOOLEAN, cts : BOOLEAN]
    /\ data \in [Buffer -> Message]
    /\ sent \in [Way -> Nat] /\ got \in [Way -> Seq(Nat)]

\* While the ESP32 has a message RTS is up, so an edge that finds the FE310 ready finds
\* nothing on offer: the exchange it cancels has no message.  What the FE310 has learnt
\* from the header agrees with the offer.
Offering ==
    /\ offer # 0 \/ espq # <<>> => wire.rts
    /\ wire.rise /\ cts => offer = 0
    /\ skip => offer # 0 /\ at \in {"pop", "reply", "replying"}
    /\ xchg = "data" /\ at = "ready" =>
           IF onew THEN stType = "none" ELSE (stType = "msg" <=> offer # 0)

EspInv == LinkTypes /\ Offering /\ EspKept
-----------------------------------------------------------------------------
(* Sequences of numbers *)

LEMMA Counting ==
    ASSUME NEW n \in Nat
    PROVE Seq1(n) \in Seq(Nat) /\ Seq1(n + 1) = Append(Seq1(n), n + 1)
<1>1. Seq1(n) \in Seq(Nat) /\ Len(Seq1(n)) = n
  <2>1. Seq1(n) \in [1 .. n -> Nat]
    BY DEF Seq1
  <2> QED BY <2>1
<1>2. Seq1(n + 1) \in Seq(Nat) /\ Len(Seq1(n + 1)) = n + 1
  <2>1. Seq1(n + 1) \in [1 .. n + 1 -> Nat]
    BY DEF Seq1
  <2> QED BY <2>1
<1>3. Append(Seq1(n), n + 1) \in Seq(Nat) /\ Len(Append(Seq1(n), n + 1)) = n + 1
  BY <1>1, AppendProperties
<1>4. \A i \in 1 .. n + 1 : Seq1(n + 1)[i] = Append(Seq1(n), n + 1)[i]
  BY <1>1, AppendProperties DEF Seq1
<1> QED BY <1>1, <1>2, <1>3, <1>4, SeqEqual

LEMMA Regroup ==
    ASSUME NEW a \in Seq(Nat), NEW b \in Seq(Nat), NEW c \in Seq(Nat)
    PROVE (a \o b) \o c = a \o (b \o c)
<1>1. a \o b \in Seq(Nat) /\ b \o c \in Seq(Nat)
  BY ConcatProperties
<1>2. (a \o b) \o c \in Seq(Nat) /\ a \o (b \o c) \in Seq(Nat)
  BY <1>1, ConcatProperties
<1>3. Len(a) \in Nat /\ Len(b) \in Nat /\ Len(c) \in Nat
  BY LenProperties
<1>4. Len(a \o b) = Len(a) + Len(b) /\ Len(b \o c) = Len(b) + Len(c)
  BY ConcatProperties
<1>5. /\ Len((a \o b) \o c) = Len(a) + Len(b) + Len(c)
      /\ Len(a \o (b \o c)) = Len(a) + Len(b) + Len(c)
  BY <1>1, <1>3, <1>4, ConcatProperties
<1>6. ASSUME NEW i \in 1 .. Len(a) + Len(b) + Len(c)
      PROVE ((a \o b) \o c)[i] = (a \o (b \o c))[i]
  BY <1>1, <1>3, <1>4, ConcatProperties
<1> QED BY <1>2, <1>5, <1>6, SeqEqual

\* A number that moves from the queue to the offer, or from there to what was taken, keeps its turn.
LEMMA HeadMoves ==
    ASSUME NEW g \in Seq(Nat), NEW q \in Seq(Nat), q # <<>>
    PROVE (g \o <<Head(q)>>) \o Tail(q) = (g \o <<>>) \o q
<1>1. Head(q) \in Nat /\ Tail(q) \in Seq(Nat) /\ <<Head(q)>> \in Seq(Nat)
  BY HeadTailProperties
<1>2. <<Head(q)>> \o Tail(q) = q
  <2>1. <<Head(q)>> \o Tail(q) \in Seq(Nat) /\ Len(<<Head(q)>> \o Tail(q)) = Len(q)
    BY <1>1, ConcatProperties, HeadTailProperties, LenProperties
  <2>2. ASSUME NEW i \in 1 .. Len(q) PROVE (<<Head(q)>> \o Tail(q))[i] = q[i]
    <3>1. Len(Tail(q)) = Len(q) - 1 /\ \A j \in 1 .. Len(Tail(q)) : Tail(q)[j] = q[j + 1]
      BY HeadTailProperties
    <3>2. Len(q) \in Nat
      BY LenProperties
    <3>3. (<<Head(q)>> \o Tail(q))[i] = IF i <= 1 THEN <<Head(q)>>[i] ELSE Tail(q)[i - 1]
      BY <1>1, <3>1, <3>2, ConcatProperties
    <3> QED BY <3>1, <3>2, <3>3
  <2> QED BY <2>1, <2>2, SeqEqual
<1>3. (g \o <<Head(q)>>) \o Tail(q) = g \o (<<Head(q)>> \o Tail(q))
  BY <1>1, Regroup
<1>4. (g \o <<Head(q)>>) \o Tail(q) = g \o q
  BY <1>2, <1>3, Zenon
<1> QED BY <1>4, ConcatEmptySeq

LEMMA OfferMoves ==
    ASSUME NEW g \in Seq(Nat), NEW q \in Seq(Nat), NEW x \in Nat
    PROVE (Append(g, x) \o <<>>) \o q = (g \o <<x>>) \o q
<1>1. Append(g, x) \in Seq(Nat)
  BY AppendProperties
<1>2. Append(g, x) = g \o <<x>>
  BY AppendIsConcat
<1> QED BY <1>1, <1>2, ConcatEmptySeq

LEMMA QueueGrows ==
    ASSUME NEW g \in Seq(Nat), NEW p \in Seq(Nat), NEW q \in Seq(Nat), NEW x \in Nat
    PROVE (g \o p) \o Append(q, x) = Append((g \o p) \o q, x)
<1>1. <<x>> \in Seq(Nat) /\ g \o p \in Seq(Nat) /\ (g \o p) \o q \in Seq(Nat)
  BY ConcatProperties
<1> QED BY <1>1, AppendIsConcat, Regroup
-----------------------------------------------------------------------------
(* EspKept *)

LEMMA PendingType == ASSUME LinkTypes PROVE Pending \in Seq(Nat)
  BY DEF LinkTypes, Pending

\* What the FE310's own steps do to an exchange: they start it, and nothing else.
LEMMA FeStarts ==
    ASSUME OneToken, Fe \/ TakeEvent \/ TakeCts \/ TakeFall
    PROVE /\ xchg' # "init" => UNCHANGED <<xchg, onew, stType, stBuf>>
          /\ cts' => cts \/ ~wire.rise
<1> DEFINE Only == xchg' # "init" => UNCHANGED <<xchg, onew, stType, stBuf>>
<1>1. ASSUME NEW o, NEW b, NetXchgStart(o, b)
      PROVE ~cts' /\ Only
  BY <1>1 DEF NetXchgStart
<1>2. ASSUME NEW b, NetXchgNext(b) PROVE Only
  BY <1>1, <1>2 DEF NetXchgNext
<1>3. ASSUME NetResume PROVE Only /\ (cts' => cts)
  BY <1>2, <1>3 DEF NetResume, link
<1>4. ASSUME UNCHANGED link PROVE Only /\ (cts' => cts)
  BY <1>4 DEF link
<1> SUFFICES Only /\ (cts' => cts \/ ~wire.rise)
  OBVIOUS
<1> HIDE DEF Only
<1>5. CASE SendQueued
  <2>1. PICK b \in Buffer, oneway \in BOOLEAN : NetSendAsync(b, oneway)
    BY <1>5 DEF SendQueued
  <2> QED BY <2>1, <1>1, <1>4 DEF NetSendAsync
<1>6. CASE SendDirect
  <2>1. PICK b \in Buffer, s \in BOOLEAN, repl \in BOOLEAN : NetXchgBegin(b, s, repl)
    BY <1>6 DEF SendDirect
  <2> QED BY <2>1, <1>3, <1>4 DEF NetXchgBegin
<1>7. CASE FetchReply \/ NetXchgSync
  BY <1>7, <1>1 DEF FetchReply, NetXchgReply, NetXchgSync
<1>8. CASE Loop
  BY <1>8, <1>4 DEF Loop, Pop, Dispatch, AcquireReserved, Requeue, Finish, NetRelease
<1>9. CASE NetAcquire \/ NetAlloc \/ NetAllocDone \/ NetPause \/ SpiSelect \/ NetStopped
  BY <1>9, <1>4 DEF NetAcquire, NetAlloc, NetAllocDone, NetPause, SpiSelect, NetStopped
<1>10. CASE \E b \in Buffer, more \in BOOLEAN : NetFree(b, more)
  <2>1. PICK b \in Buffer, more \in BOOLEAN : NetFree(b, more)
    BY <1>10
  <2>2. CASE UNCHANGED link
    BY <2>2, <1>4
  <2>3. CASE cts /\ NetXchgNext(b)
    BY <2>3, <1>2
  <2> QED BY <2>1, <2>2, <2>3 DEF NetFree, GiveLink, GiveBack
<1>11. CASE NetXchgEnd \/ SpiDeselect
  BY <1>11, <1>3 DEF NetXchgEnd, SpiDeselect
<1>12. CASE TakeEvent
  BY <1>12, <1>4 DEF TakeEvent, EvtIntr
<1>13. CASE TakeCts
  <2>1. CASE NetXchgNext(NoBuf)
    BY <1>13, <2>1, <1>2 DEF TakeCts
  <2>2. CASE UNCHANGED <<xchg, onew, stType, stBuf>>
    BY <1>13, <2>2 DEF TakeCts, Only
  <2> QED BY <1>13, <2>1, <2>2 DEF TakeCts, CtsHandler
<1>14. CASE TakeFall
  BY <1>14, <1>4 DEF TakeFall, RtsFallHandler
<1> QED
  BY <1>5, <1>6, <1>7, <1>8, <1>9, <1>10, <1>11, <1>12, <1>13, <1>14
     DEF Fe, OtherStep, Only

\* and to what the composition adds to them.
LEMMA FeLeaves ==
    ASSUME Fe \/ TakeEvent \/ TakeCts \/ TakeFall, LinkTypes
    PROVE /\ UNCHANGED <<esp, got>> /\ sent'["esp"] = sent["esp"]
          /\ UNCHANGED <<wire.rts, wire.rise>>
<1>1. CASE TakeEvent \/ OtherStep \/ FetchReply
  BY <1>1 DEF TakeEvent, OtherStep, FetchReply, hist
<1>2. CASE TakeCts \/ TakeFall
  BY <1>2 DEF TakeCts, TakeFall, hist, LinkTypes
<1>3. ASSUME NEW b \in Buffer, NEW way \in {"queued", "direct"}, NEW repl, Sends(b, way, repl)
      PROVE UNCHANGED <<esp, got, wire>> /\ sent'["esp"] = sent["esp"]
  BY <1>3 DEF Sends, LinkTypes, Way
<1>4. CASE SendQueued
  BY <1>4, <1>3 DEF SendQueued
<1>5. CASE SendDirect
  BY <1>5, <1>3 DEF SendDirect
<1> QED BY <1>1, <1>2, <1>3, <1>4, <1>5 DEF Fe
LEMMA TypesKept ==
    ASSUME LinkTypes, OneToken, IndInv, [LinkNext]_linkVars PROVE LinkTypes'
<1> USE DEF LinkTypes
<1>1. CASE UNCHANGED linkVars
  BY <1>1 DEF linkVars, esp, hist
<1>2. CASE TakeMessage
  <2>1. espq # <<>> => Head(espq) \in Nat \ {0} /\ Tail(espq) \in Seq(Nat \ {0})
    BY HeadTailProperties
  <2>2. wire' \in [rts : BOOLEAN, rise : BOOLEAN, fall : BOOLEAN, cts : BOOLEAN]
    <3>1. CASE skip \/ espq # <<>>
      BY <1>2, <3>1 DEF TakeMessage, RtsDown
    <3>2. CASE ~skip /\ espq = <<>>
      <4>1. PICK f \in BOOLEAN : wire' = [wire EXCEPT !.rts = FALSE, !.fall = f]
        BY <1>2, <3>2 DEF TakeMessage, RtsDown
      <4> QED BY <4>1
    <3> QED BY <3>1, <3>2
  <2>3. espq' \in Seq(Nat \ {0}) /\ offer' \in Nat
    <3>1. CASE skip \/ espq = <<>>
      BY <1>2, <3>1 DEF TakeMessage
    <3>2. CASE ~skip /\ espq # <<>>
      BY <1>2, <2>1, <3>2 DEF TakeMessage
    <3> QED BY <3>1, <3>2
  <2>4. at' = "offer" /\ skip' = FALSE /\ UNCHANGED <<recv, data, sent, got>>
    BY <1>2 DEF TakeMessage, hist
  <2> QED BY <2>2, <2>3, <2>4
<1>3. CASE OfferExchange
  BY <1>3 DEF OfferExchange, hist
<1>4. CASE HandleReceived
  <2>1. recv.msg \in Message
    OBVIOUS
  <2>2. recv.msg # None => recv.msg.way \in Way /\ recv.msg.n \in Nat
    BY <2>1 DEF Message, Way
  <2>3. got' \in [Way -> Seq(Nat)]
    BY <1>4, <2>2, AppendProperties DEF HandleReceived, Handled
  <2> QED BY <1>4, <2>3 DEF HandleReceived, KeepOffer
<1>5. CASE EspSend
  <2>1. sent["esp"] \in Nat
    BY DEF Way
  <2>2. espq' \in Seq(Nat \ {0})
    BY <1>5, <2>1, AppendProperties DEF EspSend
  <2>3. wire' \in [rts : BOOLEAN, rise : BOOLEAN, fall : BOOLEAN, cts : BOOLEAN]
    <3>1. PICK r \in BOOLEAN : wire' = [wire EXCEPT !.rts = TRUE, !.rise = r]
      BY <1>5 DEF EspSend
    <3> QED BY <3>1
  <2>4. sent' \in [Way -> Nat]
    <3>1. sent' = [sent EXCEPT !["esp"] = sent["esp"] + 1]
      BY <1>5 DEF EspSend
    <3> QED BY <2>1, <3>1 DEF Way
  <2>5. UNCHANGED <<at, offer, skip, recv, data, got>>
    BY <1>5 DEF EspSend
  <2> QED BY <2>2, <2>3, <2>4, <2>5
<1>6. CASE TakeRise
  BY <1>6 DEF TakeRise, Transmitted, esp, hist
<1>7. CASE TakeFall \/ TakeCts \/ TakeHeader \/ TakeEvent \/ OtherStep \/ FetchReply
  BY <1>7 DEF TakeFall, TakeCts, TakeHeader, TakeEvent, OtherStep, FetchReply, esp, hist
<1>8. CASE TakeDone
  <2>1. stBuf \in Buffer /\ onew \in BOOLEAN
    BY <1>8 DEF TakeDone, HandleDone, IndInv, Link, TypeOK
  <2>2. data' \in [Buffer -> Message]
    BY <1>8 DEF TakeDone, Message
  <2>3. recv' \in [msg : Message, onew : BOOLEAN]
    BY <1>8, <2>1 DEF TakeDone, Transmitted
  <2>4. got' \in [Way -> Seq(Nat)]
    BY <1>8, AppendProperties DEF TakeDone, Way
  <2> QED BY <1>8, <2>2, <2>3, <2>4 DEF TakeDone, Transmitted
<1>9. ASSUME NEW b \in Buffer, NEW way \in {"queued", "direct"}, NEW repl \in BOOLEAN, Sends(b, way, repl)
      PROVE LinkTypes'
  <2>1. sent[way] \in Nat
    BY DEF Way
  <2>2. Msg(way, sent[way] + 1, repl) \in Message
    BY <2>1 DEF Msg, Message
  <2>3. data' \in [Buffer -> Message]
    BY <1>9, <2>2 DEF Sends
  <2>4. sent' \in [Way -> Nat]
    <3>1. sent' = [sent EXCEPT ![way] = sent[way] + 1]
      BY <1>9 DEF Sends
    <3> QED BY <2>1, <3>1 DEF Way
  <2> QED BY <1>9, <2>3, <2>4 DEF Sends, esp
<1>10. CASE SendQueued
  BY <1>9, <1>10 DEF SendQueued
<1>11. CASE SendDirect
  BY <1>9, <1>11 DEF SendDirect
<1> QED
  BY <1>1, <1>2, <1>3, <1>4, <1>5, <1>6, <1>7, <1>8, <1>10, <1>11
     DEF LinkNext, Esp, Fe, FeInterrupt

LEMMA OfferingKept ==
    ASSUME EspInv, OneToken, IndInv, [LinkNext]_linkVars PROVE Offering'
<1> USE DEF EspInv, Offering
<1>1. CASE UNCHANGED linkVars
  BY <1>1 DEF linkVars, vars, link, esp, hist
<1>2. CASE TakeMessage
  <2>1. /\ ~cts /\ UNCHANGED <<cts, xchg>> /\ at' = "offer" /\ skip' = FALSE
        /\ wire'.rise = wire.rise
    BY <1>2 DEF TakeMessage, OneToken, vars, link, RtsDown, LinkTypes
  <2>2. CASE skip
    BY <1>2, <2>1, <2>2 DEF TakeMessage
  <2>3. CASE ~skip /\ espq = <<>>
    BY <1>2, <2>1, <2>3 DEF TakeMessage
  <2>4. CASE ~skip /\ espq # <<>>
    <3>1. wire' = wire /\ wire.rts
      BY <1>2, <2>4 DEF TakeMessage, RtsDown
    <3> QED BY <2>1, <3>1
  <2> QED BY <2>2, <2>3, <2>4 DEF LinkTypes
<1>3. CASE OfferExchange
  BY <1>3 DEF OfferExchange, vars, link, LinkTypes, OneToken
<1>4. CASE HandleReceived
  BY <1>4 DEF HandleReceived, KeepOffer, vars, link
<1>5. CASE EspSend
  BY <1>5 DEF EspSend, vars, link, LinkTypes
<1>6. CASE TakeRise
  BY <1>6 DEF TakeRise, HandleRtsRise, RtsLeavesCts, Transmitted, esp, LinkTypes, OneToken
<1>7. CASE TakeHeader
  BY <1>7 DEF TakeHeader, HandleHeader, Offered, esp, LinkTypes
<1>8. CASE TakeDone
  BY <1>8 DEF TakeDone, HandleDone, Transmitted, OneToken
<1>9. CASE Fe \/ TakeEvent \/ TakeCts \/ TakeFall
  BY <1>9, FeStarts, FeLeaves DEF esp
<1> QED
  BY <1>1, <1>2, <1>3, <1>4, <1>5, <1>6, <1>7, <1>8, <1>9 DEF LinkNext, Esp, FeInterrupt

LEMMA EspKeptStep ==
    ASSUME EspInv, OneToken, IndInv, [LinkNext]_linkVars PROVE EspKept'
<1> USE DEF EspInv, Offering
<1>0. /\ got["esp"] \in Seq(Nat) /\ sent["esp"] \in Nat
      /\ espq \in Seq(Nat) /\ Pending \in Seq(Nat)
  BY PendingType, SeqMonotonic, Nat \ {0} \subseteq Nat DEF LinkTypes, Way
<1>1. ASSUME UNCHANGED <<espq, Pending, got["esp"], sent["esp"]>> PROVE EspKept'
  BY <1>1 DEF EspKept
<1>2. CASE UNCHANGED linkVars
  BY <1>1, <1>2 DEF linkVars, esp, hist, Pending
<1>3. CASE TakeMessage
  <2>1. got' = got /\ sent' = sent /\ at = "pop" /\ at' = "offer" /\ skip' = FALSE
    BY <1>3 DEF TakeMessage, hist
  <2>2. CASE skip \/ espq = <<>>
    BY <1>1, <1>3, <2>1, <2>2 DEF TakeMessage, Pending, LinkTypes
  <2>3. CASE ~skip /\ espq # <<>>
    <3>1. /\ Pending = <<>> /\ Pending' = <<Head(espq)>>
          /\ espq' = Tail(espq)
      BY <1>3, <2>1, <2>3, HeadTailProperties DEF TakeMessage, Pending, LinkTypes
    <3> QED BY <1>0, <2>1, <2>3, <3>1, HeadMoves DEF EspKept
  <2> QED BY <2>2, <2>3
<1>4. CASE OfferExchange
  BY <1>1, <1>4 DEF OfferExchange, Pending, hist
<1>5. CASE HandleReceived
  <2>1. Pending' = Pending
    BY <1>5 DEF HandleReceived, Pending, KeepOffer
  <2>2. recv.msg \in Message
    BY DEF LinkTypes
  <2>3. recv.msg # None => recv.msg.way # "esp"
    BY <2>2 DEF Message
  <2>4. got'["esp"] = got["esp"]
    BY <1>5, <2>3 DEF HandleReceived, Handled, LinkTypes, Way
  <2> QED BY <1>1, <1>5, <2>1, <2>4 DEF HandleReceived
<1>6. CASE EspSend
  <2>1. /\ UNCHANGED <<Pending, got>>
        /\ espq' = Append(espq, sent["esp"] + 1) /\ sent'["esp"] = sent["esp"] + 1
    BY <1>6 DEF EspSend, Pending, LinkTypes, Way
  <2>2. (got["esp"] \o Pending) \o Append(espq, sent["esp"] + 1)
            = Append((got["esp"] \o Pending) \o espq, sent["esp"] + 1)
    BY <1>0, QueueGrows, sent["esp"] + 1 \in Nat
  <2> QED BY <1>0, <2>1, <2>2, Counting DEF EspKept
<1>7. CASE TakeRise
  <2>1. Pending' = Pending
    BY <1>7 DEF TakeRise, Transmitted, Pending, esp
  <2> QED BY <1>1, <1>7, <2>1 DEF TakeRise, Transmitted, esp, hist
<1>8. CASE TakeHeader
  BY <1>1, <1>8 DEF TakeHeader, esp, hist, Pending
<1>9. CASE TakeDone
  <2>1. UNCHANGED <<espq, offer, skip, sent>> /\ xchg = "data"
    BY <1>9 DEF TakeDone, HandleDone, Transmitted
  <2>2. CASE at = "replying"
    BY <1>1, <1>9, <2>1, <2>2 DEF TakeDone, Transmitted, Pending
  <2>3. CASE at = "ready"
    <3>1. ~skip /\ at' = "received" /\ recv'.onew = onew
      BY <1>9, <2>3 DEF TakeDone, Transmitted, LinkTypes
    <3>2. CASE stType = "none"
      <4>1. UNCHANGED <<got, Pending>>
        BY <1>9, <2>1, <2>3, <3>1, <3>2 DEF TakeDone, Pending
      <4> QED BY <1>1, <2>1, <4>1
    <3>3. CASE stType # "none"
      <4>1. ~onew /\ offer # 0 /\ offer \in Nat
        BY <2>1, <2>3, <3>3 DEF IndInv, TypeOK, LinkTypes
      <4>2. Pending = <<offer>> /\ Pending' = <<>>
        BY <2>1, <2>3, <3>1, <4>1 DEF Pending
      <4>3. got'["esp"] = Append(got["esp"], offer)
        BY <1>9, <2>3, <3>3 DEF TakeDone, LinkTypes, Way
      <4>4. (Append(got["esp"], offer) \o <<>>) \o espq = (got["esp"] \o <<offer>>) \o espq
        BY <1>0, <4>1, OfferMoves
      <4> QED BY <2>1, <4>2, <4>3, <4>4 DEF EspKept
    <3> QED BY <3>2, <3>3
  <2> QED BY <2>1, <2>2, <2>3 DEF OneToken
<1>10. CASE Fe \/ TakeEvent \/ TakeCts \/ TakeFall
  BY <1>1, <1>10, FeLeaves DEF esp, Pending
<1> QED
  BY <1>2, <1>3, <1>4, <1>5, <1>6, <1>7, <1>8, <1>9, <1>10 DEF LinkNext, Esp, FeInterrupt
LEMMA InitEsp == LinkInit => EspInv
<1> SUFFICES ASSUME LinkInit PROVE EspInv
  OBVIOUS
<1>1. LinkTypes
  <2>1. sent \in [Way -> Nat] /\ got \in [Way -> Seq(Nat)] /\ data \in [Buffer -> Message]
    BY EmptySeq DEF LinkInit, Message
  <2>2. /\ recv \in [msg : Message, onew : BOOLEAN]
        /\ wire \in [rts : BOOLEAN, rise : BOOLEAN, fall : BOOLEAN, cts : BOOLEAN]
    BY DEF LinkInit, Message
  <2> QED BY <2>1, <2>2, EmptySeq DEF LinkInit, LinkTypes
<1>2. Offering
  BY DEF LinkInit, Offering, Init
<1>3. EspKept
  <2>1. got["esp"] = <<>> /\ Pending = <<>> /\ espq = <<>> /\ sent["esp"] = 0
    BY DEF LinkInit, Pending, Way
  <2>2. Seq1(0) = <<>>
    BY DEF Seq1
  <2>3. (<<>> \o <<>>) \o <<>> = <<>>
    BY EmptySeq, ConcatEmptySeq
  <2> QED BY <2>1, <2>2, <2>3 DEF EspKept
<1> QED BY <1>1, <1>2, <1>3 DEF EspInv

LEMMA LinkStep ==
    ASSUME OneToken, IndInv, [LinkNext]_linkVars PROVE OneToken' /\ IndInv'
  BY TokenKept, Step, NextInv DEF IndInv, TypeOK

\* Whatever the order of the two wires' edges and of the FE310's pauses, resets and one-way
\* exchanges, every message given to eos_net_send is taken once and in its turn.
THEOREM EspMessagesKept == LinkSpec => []EspKept
<1> DEFINE Inv == OneToken /\ IndInv /\ EspInv
<1>1. LinkInit => Inv
  BY InitToken, InitInv, InitEsp DEF LinkInit
<1>2. Inv /\ [LinkNext]_linkVars => Inv'
  BY LinkStep, TypesKept, OfferingKept, EspKeptStep DEF EspInv
<1>3. Inv => EspKept
  BY DEF EspInv
<1> QED BY <1>1, <1>2, <1>3, PTL DEF LinkSpec
-----------------------------------------------------------------------------
(* Replies *)

\* The request of the call under way
Asked == Msg("direct", sent["direct"], TRUE)
\* The ESP32 has a request and is to reply.
Replying == (at = "received" /\ recv.msg.repl) \/ at \in {"reply", "replying"}

\* Where the request of a call that asks for a reply is: in the caller's buffer, on the wire,
\* or with the ESP32, which offers nothing but the reply until it is fetched.
Request ==
    /\ \A b \in Buffer : data[b].repl =>
           /\ op.repl /\ b = op.buf /\ data[b] = Asked
           /\ pc \in {"pause", "cts1"} \/ (pc = "cts2" /\ xchg # "idle")
    /\ Replying =>
           /\ op.repl /\ recv.msg = Asked
           /\ (pc = "cts2" /\ xchg = "idle") \/ (pc = "done" /\ at = "replying" /\ xchg # "idle")
    /\ pc \in {"pause", "cts1"} /\ op.repl => op.sync /\ data[op.buf] = Asked
    /\ pc = "cts2" =>
           /\ op.repl
           /\ IF xchg = "idle" THEN Replying ELSE stBuf = op.buf /\ data[op.buf] = Asked
    /\ pc = "done" /\ op.repl =>
           IF xchg = "idle" THEN answer \in {sent["direct"], Ignored}
           ELSE /\ at = "replying" /\ sent["direct"] > 0
                /\ xchg = "init" /\ onew => answer = Ignored
                /\ xchg = "data" /\ stType = "none" => answer = Ignored
    /\ xchg = "idle" => ~onew

LEMMA ElsewhereRequest ==
    ASSUME Request, UNCHANGED <<at, recv>>,
           pc \notin {"pause", "cts1", "cts2", "done"}, pc' \notin {"pause", "cts1", "cts2", "done"},
           \A b \in Buffer : data'[b].repl => data[b].repl,
           xchg' = "idle" => UNCHANGED <<xchg, onew>>
    PROVE Request'
  BY DEF Request, Replying

\* The ESP32's own steps
LEMMA EspRequest ==
    ASSUME Request, OneToken, LinkTypes, Esp \/ EspSend PROVE Request'
<1>1. CASE TakeMessage
  BY <1>1 DEF TakeMessage, Request, Replying, Asked, vars, link, main, hist, OneToken
<1>2. CASE OfferExchange
  BY <1>2 DEF OfferExchange, Request, Replying, Asked, vars, link, main, hist, OneToken
<1>3. CASE HandleReceived
  BY <1>3 DEF HandleReceived, Request, Replying, Asked, vars, link, main, OneToken
<1>4. CASE EspSend
  <2>1. sent'["direct"] = sent["direct"]
    BY <1>4 DEF EspSend, LinkTypes, Way
  <2> QED BY <1>4, <2>1 DEF EspSend, Request, Replying, Asked, vars, link, main
<1> QED BY <1>1, <1>2, <1>3, <1>4 DEF Esp

LEMMA InterruptRequest ==
    ASSUME Request, OneToken, LinkTypes, IndInv, FeInterrupt \/ TakeEvent PROVE Request'
<1>0. run => pc \notin {"cts1", "cts2", "done"}
  BY DEF IndInv, Control
<1>1. CASE TakeRise
  <2>1. UNCHANGED <<xchg, onew, stType, stBuf, main, recv, hist>>
    BY <1>1 DEF TakeRise, HandleRtsRise, Transmitted, esp
  <2>2. CASE cts /\ run
    <3>1. at = "ready" /\ at' = "pop"
      BY <1>0, <1>1, <2>2 DEF TakeRise, Transmitted, OneToken, Request, Replying
    <3> QED BY <1>0, <2>1, <2>2, <3>1 DEF Request, Replying, Asked, main, hist
  <2>3. CASE ~(cts /\ run)
    BY <1>1, <2>1, <2>3 DEF TakeRise, Request, Replying, Asked, main, hist, esp
  <2> QED BY <2>2, <2>3
<1>2. CASE TakeFall \/ TakeEvent
  <2>1. UNCHANGED <<link, main, esp, hist>>
    BY <1>2 DEF TakeFall, RtsFallHandler, TakeEvent, EvtIntr
  <2> QED BY <2>1 DEF link, main, esp, hist, Request, Replying, Asked
<1>3. CASE TakeCts
  <2>1. UNCHANGED <<main, esp, hist>> /\ xchg = "idle"
    BY <1>3 DEF TakeCts, CtsHandler, OneToken
  <2>2. xchg' # "init" => UNCHANGED <<xchg, onew, stType, stBuf>>
    BY <1>3, FeStarts
  <2>3. CASE UNCHANGED <<xchg, onew, stType, stBuf>>
    BY <2>1, <2>3 DEF Request, Replying, Asked, main, esp, hist
  <2>4. CASE xchg' = "init" /\ run
    BY <1>0, <2>1, <2>4 DEF Request, Replying, Asked, main, esp, hist
  <2> QED BY <1>3, <2>1, <2>2, <2>3, <2>4 DEF TakeCts, CtsHandler
<1>4. CASE TakeHeader
  <2>1. /\ UNCHANGED <<main, onew, stBuf, esp, hist>> /\ xchg = "init" /\ xchg' = "data"
        /\ stType' = IF onew \/ Offered = 0 THEN "none" ELSE "msg"
    BY <1>4 DEF TakeHeader, HandleHeader
  <2>2. pc = "done" /\ op.repl => Offered # 0
    <3> SUFFICES ASSUME pc = "done", op.repl PROVE Offered # 0
      OBVIOUS
    <3>1. at = "replying" /\ recv.msg = Asked /\ sent["direct"] > 0
      BY <2>1 DEF Request, Replying
    <3> QED BY <3>1 DEF Offered, Asked, Msg, LinkTypes, Way
  <2>3. UNCHANGED <<Replying, Asked>>
    BY <2>1 DEF Replying, Asked, esp, hist
  <2> QED BY <2>1, <2>2, <2>3 DEF Request, main, esp, hist
<1>5. CASE TakeDone
  <2>1. /\ UNCHANGED <<main, sent>> /\ xchg = "data" /\ xchg' = "idle" /\ onew' = FALSE
        /\ data' = [data EXCEPT ![stBuf] = None] /\ stBuf \in Buffer
    BY <1>5 DEF TakeDone, HandleDone, IndInv, Link
  <2>2. at \in {"ready", "replying"}
    BY <2>1 DEF OneToken
  <2>3. UNCHANGED Asked
    BY <2>1 DEF Asked
  <2>4. \A b \in Buffer : data'[b].repl => b # stBuf /\ data[b].repl /\ data'[b] = data[b]
    BY <2>1 DEF LinkTypes, None
  <2>5. CASE at = "ready"
    <3>1. /\ at' = "received" /\ recv'.msg = data[stBuf] /\ ~Replying
      BY <1>5, <2>5 DEF TakeDone, Transmitted, Replying
    <3>2. Replying' <=> data[stBuf].repl
      BY <3>1 DEF Replying
    <3>3. pc \in {"pause", "cts1"} => stBuf # op.buf /\ op.buf \in Buffer
      BY <2>1 DEF IndInv, Control, OneOwner, OnWire, TypeOK
    <3>4. pc # "done" \/ ~op.repl
      BY <2>1, <2>5 DEF Request
    <3>5. pc = "cts2" => op.repl /\ stBuf = op.buf /\ data[stBuf] = Asked
      BY <2>1 DEF Request
    <3>6. data[stBuf].repl => op.repl /\ pc = "cts2" /\ data[stBuf] = Asked
      BY <2>1, <3>3 DEF Request
    <3>7. \A b \in Buffer : ~(data'[b].repl /\ pc = "cts2")
      BY <2>4, <3>5 DEF Request
    <3>8. pc \in {"pause", "cts1"} => data'[op.buf] = data[op.buf]
      BY <2>1, <3>3 DEF LinkTypes
    <3>9. Asked.repl
      BY DEF Asked, Msg
    <3> QED
      BY <2>1, <2>3, <2>4, <3>1, <3>2, <3>4, <3>5, <3>6, <3>7, <3>8, <3>9 DEF Request, main
  <2>6. CASE at = "replying"
    <3>1. at' = "pop" /\ Replying /\ ~Replying'
      BY <1>5, <2>6 DEF TakeDone, Transmitted, Replying
    <3>2. /\ pc = "done" /\ recv.msg = Asked
      BY <2>1, <3>1 DEF Request
    <3>3. answer' \in {sent["direct"], Ignored}
      BY <1>5, <2>1, <2>6, <3>1, <3>2 DEF TakeDone, Request, Offered, Asked, Msg
    <3> QED BY <2>1, <2>3, <2>4, <3>1, <3>2, <3>3 DEF Request, main
  <2> QED BY <2>2, <2>5, <2>6
<1> QED BY <1>1, <1>2, <1>3, <1>4, <1>5 DEF FeInterrupt

\* The calls that begin, drive and end an exchange the caller waits for
LEMMA CallRequest ==
    ASSUME Request, OneToken, LinkTypes, IndInv,
           \/ SendDirect \/ FetchReply
           \/ (NetPause \/ NetXchgSync \/ NetXchgEnd) /\ UNCHANGED <<esp, wire, hist>>
    PROVE Request'
<1>0. xchg' # "init" => UNCHANGED <<xchg, onew, stType, stBuf>>
  BY FeStarts DEF Fe, OtherStep
<1>1. CASE SendDirect
  <2>1. PICK b \in Buffer, s \in BOOLEAN, repl \in BOOLEAN :
            NetXchgBegin(b, s, repl) /\ Sends(b, "direct", repl)
    BY <1>1 DEF SendDirect
  <2>2. /\ pc = "handler" /\ pc' \in {"pause", "cts1"} /\ (repl => s)
        /\ op' = [buf |-> b, onew |-> TRUE, sync |-> s, repl |-> repl, back |-> dev]
    BY <2>1 DEF NetXchgBegin, InHandler
  <2>3. /\ UNCHANGED <<esp, wire>> /\ sent'["direct"] = sent["direct"] + 1
        /\ data' = [data EXCEPT ![b] = Msg("direct", sent["direct"] + 1, repl)]
    BY <2>1 DEF Sends, LinkTypes, Way
  <2>4. \A c \in Buffer : ~data[c].repl
    BY <2>2 DEF Request
  <2>5. ~Replying /\ ~Replying'
    BY <2>2, <2>3 DEF Request, Replying, esp
  <2>6. data'[b] = Msg("direct", sent'["direct"], repl) /\ data'[b].repl = repl
    BY <2>3 DEF LinkTypes, Msg
  <2>7. \A c \in Buffer : c # b => data'[c] = data[c]
    BY <2>3 DEF LinkTypes
  <2>8. op'.repl = repl /\ op'.sync = s /\ op'.buf = b
    BY <2>2
  <2>9. repl => data'[b] = Asked'
    BY <2>6 DEF Asked
  <2> QED BY <1>0, <2>2, <2>4, <2>5, <2>6, <2>7, <2>8, <2>9 DEF Request
<1>2. CASE FetchReply
  <2>1. /\ pc = "cts2" /\ pc' = "done" /\ cts /\ xchg = "idle" /\ UNCHANGED <<op, at, recv, data, sent>>
    BY <1>2 DEF FetchReply, NetXchgReply, OneToken, esp
  <2>2. /\ Replying /\ at = "replying" /\ recv.msg = Asked /\ ~onew /\ op.repl
    BY <2>1 DEF Request, OneToken, Replying
  <2>3. xchg' = "init" /\ (onew' => Short)
    BY <1>2, <2>2 DEF FetchReply, NetXchgReply, NetXchgStart, OneWay
  <2>4. onew' => answer' = Ignored
    BY <1>2, <2>3 DEF FetchReply
  <2>5. UNCHANGED <<Replying, Asked>>
    BY <2>1 DEF Replying, Asked
  <2>6. sent["direct"] > 0
    <3>1. recv.msg.n = sent["direct"] /\ recv.msg # None
      BY <2>2 DEF Asked, Msg, None
    <3>2. recv.msg \in Message
      BY DEF LinkTypes
    <3> QED BY <3>1, <3>2 DEF Message
  <2>7. \A b \in Buffer : ~data[b].repl
    BY <2>1 DEF Request
  <2> QED BY <2>1, <2>2, <2>3, <2>4, <2>5, <2>6, <2>7 DEF Request
<1>3. CASE NetPause /\ UNCHANGED <<esp, wire, hist>>
  BY <1>3 DEF NetPause, Request, Replying, Asked, esp, hist, link
<1>4. CASE NetXchgSync /\ UNCHANGED <<esp, wire, hist>>
  <2>1. /\ pc = "cts1" /\ xchg' = "init" /\ stBuf' = op.buf
        /\ UNCHANGED <<at, recv, data, sent, answer>>
    BY <1>4 DEF NetXchgSync, NetXchgStart, esp, hist
  <2>2. ~Replying /\ ~Replying' /\ UNCHANGED Asked
    BY <2>1 DEF Request, Replying, Asked
  <2>3. CASE op.repl
    <3>1. op.sync /\ data[op.buf] = Asked
      BY <2>1, <2>3 DEF Request
    <3>2. pc' = "cts2" /\ op' = op
      BY <1>4, <2>3, <3>1 DEF NetXchgSync
    <3> QED BY <2>1, <2>2, <2>3, <3>1, <3>2 DEF Request
  <2>4. CASE ~op.repl
    <3>1. pc' \in {"done", "handler", "reselect"} /\ (pc' = "done" => op' = op)
      BY <1>4, <2>4 DEF NetXchgSync, AfterXchg
    <3>2. \A b \in Buffer : ~data[b].repl
      BY <2>1, <2>4 DEF Request
    <3> QED BY <2>1, <2>2, <2>4, <3>1, <3>2 DEF Request
  <2> QED BY <2>3, <2>4
<1>5. CASE NetXchgEnd /\ UNCHANGED <<esp, wire, hist>>
  <2>1. /\ pc = "done" /\ xchg = "idle" /\ pc' \in {"handler", "reselect"}
        /\ UNCHANGED <<at, recv, data, sent>>
    BY <1>5 DEF NetXchgEnd, AfterXchg, esp, hist
  <2>2. ~Replying /\ ~Replying' /\ \A b \in Buffer : ~data[b].repl
    BY <2>1 DEF Request, Replying
  <2> QED BY <1>0, <2>1, <2>2 DEF Request
<1> QED BY <1>1, <1>2, <1>3, <1>4, <1>5

LEMMA OtherRequest ==
    ASSUME Request, OneToken, LinkTypes, IndInv,
           \/ SendQueued
           \/ OtherStep /\ ~(NetPause \/ NetXchgSync \/ NetXchgEnd)
    PROVE Request'
<1>0. xchg' = "idle" => UNCHANGED <<xchg, onew>>
  BY FeStarts DEF Fe
<1>1. CASE SendQueued
  <2>1. PICK b \in Buffer, oneway \in BOOLEAN : NetSendAsync(b, oneway) /\ Sends(b, "queued", FALSE)
    BY <1>1 DEF SendQueued
  <2>2. pc = "handler" /\ pc' = "handler" /\ UNCHANGED <<at, recv>>
    BY <2>1 DEF NetSendAsync, InHandler, Sends, esp
  <2>3. \A c \in Buffer : data'[c].repl => data[c].repl
    BY <2>1 DEF Sends, Msg, LinkTypes
  <2> QED BY <1>0, <2>2, <2>3, ElsewhereRequest
<1>2. CASE OtherStep /\ ~(NetPause \/ NetXchgSync \/ NetXchgEnd)
  <2>1. UNCHANGED <<at, recv, data>>
    BY <1>2 DEF OtherStep, esp, hist
  <2>2. CASE Loop
    <3>1. /\ pc \notin {"pause", "cts1", "cts2", "done"}
          /\ pc' \notin {"pause", "cts1", "cts2", "done"}
      BY <2>2 DEF Loop, Pop, Dispatch, TryAcquire, AcquireReserved, Requeue, Finish, NetRelease
    <3> QED BY <1>0, <2>1, <3>1, ElsewhereRequest
  <2>3. CASE NetAcquire \/ NetAlloc \/ NetAllocDone \/ SpiSelect \/ NetStopped \/ SpiDeselect
    <3>1. /\ pc \notin {"pause", "cts1", "cts2", "done"}
          /\ pc' \notin {"pause", "cts1", "cts2", "done"}
      BY <2>3 DEF NetAcquire, TryAcquire, NetAlloc, NetAllocDone, SpiSelect, NetStopped,
                  SpiDeselect, InHandler
    <3> QED BY <1>0, <2>1, <3>1, ElsewhereRequest
  <2>4. CASE \E b \in Buffer, more \in BOOLEAN : NetFree(b, more)
    <3>1. pc = "handler" /\ pc' = "handler"
      BY <2>4 DEF NetFree, InHandler
    <3> QED BY <1>0, <2>1, <3>1, ElsewhereRequest
  <2> QED BY <1>2, <2>2, <2>3, <2>4 DEF OtherStep
<1> QED BY <1>1, <1>2

LEMMA RequestKept ==
    ASSUME Request, OneToken, LinkTypes, IndInv, [LinkNext]_linkVars PROVE Request'
<1>1. CASE UNCHANGED linkVars
  BY <1>1 DEF linkVars, vars, link, main, esp, hist, Request, Replying, Asked
<1>2. CASE Fe
  <2>1. CASE OtherStep /\ (NetPause \/ NetXchgSync \/ NetXchgEnd)
    BY <2>1, CallRequest DEF OtherStep
  <2>2. CASE SendDirect \/ FetchReply
    BY <2>2, CallRequest
  <2>3. CASE SendQueued \/ (OtherStep /\ ~(NetPause \/ NetXchgSync \/ NetXchgEnd))
    BY <2>3, OtherRequest
  <2> QED BY <1>2, <2>1, <2>2, <2>3 DEF Fe
<1> QED BY <1>1, <1>2, EspRequest, InterruptRequest DEF LinkNext

LEMMA InitRequest == LinkInit => Request
  BY DEF LinkInit, Init, Request, Replying, None

\* eos_net_xchg with EOS_NET_FLAG_REPL never returns the reply to an earlier request, nor a message
\* that was not meant as a reply: both sides drop, reset or delay exchanges on their own, and only
\* their order ties the two exchanges of the call together.
THEOREM RepliesFit == LinkSpec => []AnswerFits
<1> DEFINE Inv == OneToken /\ IndInv /\ LinkTypes /\ Request
<1>1. LinkInit => Inv
  BY InitToken, InitInv, InitEsp, InitRequest DEF LinkInit, EspInv
<1>2. Inv /\ [LinkNext]_linkVars => Inv'
  BY LinkStep, TypesKept, RequestKept
<1>3. Inv => AnswerFits
  BY DEF Request, AnswerFits
<1> QED BY <1>1, <1>2, <1>3, PTL DEF LinkSpec
-----------------------------------------------------------------------------
(* The messages of the FE310 *)

\* A buffer with a message that is still to be sent is queued, on the wire, or with the call that waits.
Loaded ==
    /\ \A b \in Buffer : data[b] # None =>
           \/ b \in Sending
           \/ xchg # "idle" /\ b = stBuf
           \/ pc \in {"pause", "cts1"} /\ b = op.buf
    /\ \A b \in Sending : data[b].way = "queued"
    /\ pc \in {"pause", "cts1"} => data[op.buf].way = "direct"
    /\ xchg # "idle" /\ at = "replying" => data[stBuf] = None

\* The parts of FeKept, of either way: with the ESP32, on the wire, not yet on it.
Arrived(way) == IF at = "received" THEN Some(recv.msg, way) ELSE <<>>
InFlight(way) == IF xchg # "idle" THEN Some(data[stBuf], way) ELSE <<>>
Waiting(way) ==
    IF way = "queued" THEN [i \in DOMAIN sendq |-> data[sendq[i].buf].n]
    ELSE IF pc \in {"pause", "cts1"} THEN <<data[op.buf].n>> ELSE <<>>
Cat(a, b) == a \o b
Kept(way) == Cat(Cat(got[way], Arrived(way)), Cat(InFlight(way), Waiting(way)))
Ways == {"queued", "direct"}

LEMMA CatType ==
    ASSUME NEW a \in Seq(Nat), NEW b \in Seq(Nat) PROVE Cat(a, b) \in Seq(Nat)
  BY ConcatProperties DEF Cat

LEMMA CatRegroup ==
    ASSUME NEW a \in Seq(Nat), NEW b \in Seq(Nat), NEW c \in Seq(Nat)
    PROVE Cat(Cat(a, b), c) = Cat(a, Cat(b, c))
  BY Regroup DEF Cat

LEMMA CatEmpty == ASSUME NEW s \in Seq(Nat) PROVE Cat(s, <<>>) = s /\ Cat(<<>>, s) = s
  BY ConcatEmptySeq DEF Cat

LEMMA CatOne == ASSUME NEW s \in Seq(Nat), NEW x \in Nat PROVE Append(s, x) = Cat(s, <<x>>)
  BY AppendIsConcat DEF Cat

LEMMA CatAppend ==
    ASSUME NEW s \in Seq(Nat), NEW q \in Seq(Nat), NEW x \in Nat
    PROVE Cat(s, Append(q, x)) = Append(Cat(s, q), x)
<1>1. <<x>> \in Seq(Nat) /\ Cat(s, q) \in Seq(Nat)
  BY CatType
<1>2. Append(q, x) = Cat(q, <<x>>)
  BY CatOne
<1>3. Append(Cat(s, q), x) = Cat(Cat(s, q), <<x>>)
  BY <1>1, CatOne
<1>4. Cat(Cat(s, q), <<x>>) = Cat(s, Cat(q, <<x>>))
  BY <1>1, CatRegroup
<1> QED BY <1>2, <1>3, <1>4

LEMMA CatFour ==
    ASSUME NEW g \in Seq(Nat), NEW r \in Seq(Nat), NEW f \in Seq(Nat), NEW q \in Seq(Nat)
    PROVE Cat(Cat(g, Cat(r, f)), q) = Cat(Cat(g, r), Cat(f, q))
  BY CatRegroup, CatType

LEMMA CatHead ==
    ASSUME NEW q \in Seq(Nat), q # <<>> PROVE Cat(<<Head(q)>>, Tail(q)) = q
<1>1. Head(q) \in Nat /\ Tail(q) \in Seq(Nat) /\ <<Head(q)>> \in Seq(Nat) /\ <<>> \in Seq(Nat)
  BY HeadTailProperties
<1>2. Cat(Cat(<<>>, <<Head(q)>>), Tail(q)) = Cat(Cat(<<>>, <<>>), q)
  BY <1>1, HeadMoves DEF Cat
<1> QED BY <1>1, <1>2, CatEmpty

LEMMA SomeType == ASSUME NEW m \in Message, NEW way PROVE Some(m, way) \in Seq(Nat)
<1>1. m.n \in Nat
  BY DEF Message, None
<1> QED BY <1>1 DEF Some

LEMMA PartTypes ==
    ASSUME LinkTypes, IndInv, NEW way \in Ways
    PROVE /\ got[way] \in Seq(Nat) /\ sent[way] \in Nat
          /\ Arrived(way) \in Seq(Nat) /\ InFlight(way) \in Seq(Nat) /\ Waiting(way) \in Seq(Nat)
<1>1. got[way] \in Seq(Nat) /\ sent[way] \in Nat
  BY DEF LinkTypes, Way, Ways
<1>2. Arrived(way) \in Seq(Nat)
  <2>1. recv.msg \in Message
    BY DEF LinkTypes
  <2> QED BY <2>1, SomeType, EmptySeq DEF Arrived
<1>3. InFlight(way) \in Seq(Nat)
  <2>1. xchg # "idle" => data[stBuf] \in Message
    BY DEF LinkTypes, IndInv, Link
  <2> QED BY <2>1, SomeType, EmptySeq DEF InFlight
<1>4. \A b \in Buffer : data[b].n \in Nat
  BY DEF LinkTypes, Message, None
<1>5. Waiting("queued") \in Seq(Nat)
  <2>1. sendq \in Seq(SendItem) /\ DOMAIN sendq = 1 .. Len(sendq) /\ Len(sendq) \in Nat
    BY LenProperties DEF IndInv, TypeOK
  <2>2. \A i \in 1 .. Len(sendq) : sendq[i] \in SendItem
    BY <2>1, ElementOfSeq
  <2>3. \A i \in 1 .. Len(sendq) : data[sendq[i].buf].n \in Nat
    BY <1>4, <2>2 DEF SendItem
  <2>4. Waiting("queued") \in [1 .. Len(sendq) -> Nat]
    BY <2>1, <2>3 DEF Waiting
  <2> QED BY <2>1, <2>4, SeqDef
<1>6. Waiting("direct") \in Seq(Nat)
  <2>1. pc \in {"pause", "cts1"} => op.buf \in Buffer
    BY DEF IndInv, Control, TypeOK
  <2> QED BY <1>4, <2>1, EmptySeq DEF Waiting
<1> QED BY <1>1, <1>2, <1>3, <1>5, <1>6 DEF Ways

LEMMA PartTypesNext ==
    (LinkTypes /\ IndInv => \A way \in Ways :
        /\ got[way] \in Seq(Nat) /\ sent[way] \in Nat
        /\ Arrived(way) \in Seq(Nat) /\ InFlight(way) \in Seq(Nat) /\ Waiting(way) \in Seq(Nat))'
<1>1. LinkTypes /\ IndInv => \A way \in Ways :
        /\ got[way] \in Seq(Nat) /\ sent[way] \in Nat
        /\ Arrived(way) \in Seq(Nat) /\ InFlight(way) \in Seq(Nat) /\ Waiting(way) \in Seq(Nat)
  BY PartTypes
<1> QED BY <1>1, PTL

LEMMA KeptForm ==
    LinkTypes /\ IndInv => (FeKept <=> \A way \in Ways : Kept(way) = Seq1(sent[way]))
<1> SUFFICES ASSUME LinkTypes, IndInv
             PROVE FeKept <=> \A way \in Ways : Kept(way) = Seq1(sent[way])
  OBVIOUS
<1>1. ASSUME NEW way \in Ways
      PROVE (got[way] \o OnItsWay(way)) \o Waiting(way) = Kept(way)
  <2>1. OnItsWay(way) = Cat(Arrived(way), InFlight(way))
    BY DEF OnItsWay, Arrived, InFlight, Cat
  <2>2. /\ got[way] \in Seq(Nat) /\ Arrived(way) \in Seq(Nat)
        /\ InFlight(way) \in Seq(Nat) /\ Waiting(way) \in Seq(Nat)
    BY PartTypes
  <2>3. Cat(Cat(got[way], OnItsWay(way)), Waiting(way)) = Kept(way)
    BY <2>1, <2>2, CatFour DEF Kept
  <2> QED BY <2>3 DEF Cat
<1>2. FeKept <=> /\ (got["queued"] \o OnItsWay("queued")) \o Waiting("queued") = Seq1(sent["queued"])
                 /\ (got["direct"] \o OnItsWay("direct")) \o Waiting("direct") = Seq1(sent["direct"])
  BY DEF FeKept, Waiting
<1> QED BY <1>1, <1>2 DEF Ways

LEMMA KeptForm2 ==
    (LinkTypes /\ IndInv => (FeKept <=> \A way \in Ways : Kept(way) = Seq1(sent[way])))'
  BY KeptForm, PTL

\* What leaves Waiting is on the wire or still waits: the count is kept.
LEMMA CountKept ==
    ASSUME LinkTypes, IndInv, LinkTypes', IndInv', FeKept,
           \A way \in Ways :
               /\ got'[way] = got[way] /\ sent'[way] = sent[way] /\ Arrived(way)' = Arrived(way)
               /\ Cat(InFlight(way)', Waiting(way)') = Cat(InFlight(way), Waiting(way))
    PROVE FeKept'
<1>1. \A way \in Ways : Kept(way)' = Kept(way)
  BY DEF Kept
<1> QED BY <1>1, KeptForm, KeptForm2

LEMMA QueuedSame ==
    ASSUME IndInv, UNCHANGED sendq, \A b \in Sending : data'[b] = data[b]
    PROVE Waiting("queued")' = Waiting("queued") /\ Sending' = Sending
<1>1. sendq \in Seq(SendItem) /\ NoBuf \notin Buffer
  BY BufferAssumption DEF IndInv, TypeOK
<1>2. ASSUME NEW i \in DOMAIN sendq PROVE data'[sendq[i].buf] = data[sendq[i].buf]
  <2>1. sendq[i] \in SendItem
    BY <1>1, ElementOfSeq, LenProperties
  <2>2. sendq[i].buf \in Sending
    BY <1>1, <2>1 DEF Sending, Bufs, SendItem
  <2> QED BY <2>2
<1> QED BY <1>2 DEF Waiting, Sending, Bufs

\* A buffer that is free, received or set aside, or that the application has and no call
\* waits for, has no message that is still to be sent.
LEMMA FreeEmpty ==
    ASSUME IndInv, Loaded, xchg = "idle"
    PROVE /\ \A b \in Free : data[b] = None
          /\ \A b \in held : pc \notin {"pause", "cts1"} => data[b] = None
<1>1. pc \in {"pause", "cts1"} => op.buf \in held
  BY DEF IndInv, Control
<1>2. Free \subseteq Buffer /\ held \subseteq Buffer
  BY QueuesHoldBuffers DEF IndInv, TypeOK
<1>3. Free \cap Sending = {} /\ Free \cap held = {} /\ Sending \cap held = {}
  BY DEF IndInv, OneOwner
<1> QED BY <1>1, <1>2, <1>3 DEF Loaded

LEMMA SameRange == ASSUME NEW m \in Nat, NEW n \in Nat, 1 .. m = 1 .. n PROVE m = n
<1>1. \A k \in Int : (1 <= k /\ k <= m) <=> (1 <= k /\ k <= n)
  <2>1. \A k \in Int : k \in 1 .. m <=> k \in 1 .. n
    OBVIOUS
  <2> QED BY <2>1
<1>2. 1 <= m => m <= n
  BY <1>1
<1>3. 1 <= n => n <= m
  BY <1>1
<1> QED BY <1>2, <1>3

\* net_xchg_next takes the oldest queued message, or an empty buffer.
LEMMA NextSent ==
    ASSUME IndInv, IndInv', LinkTypes, LinkTypes', Loaded, xchg = "idle",
           NEW given, given = NoBuf \/ (given \in Buffer /\ data'[given] = None),
           NetXchgNext(given), \A b \in Free \cup Sending : data'[b] = data[b]
    PROVE /\ xchg' \in {"idle", "init"}
          /\ Sending \subseteq Sending' \cup (IF xchg' # "idle" THEN {stBuf'} ELSE {})
          /\ Sending' \subseteq Sending
          /\ InFlight("direct")' = <<>>
          /\ Cat(InFlight("queued")', Waiting("queued")') = Waiting("queued")
<1>0. /\ bufq \in Seq(Buffer) /\ sendq \in Seq(SendItem) /\ NoBuf \notin Buffer
      /\ Waiting("queued") \in Seq(Nat) /\ Waiting("queued")' \in Seq(Nat)
  BY PartTypes, PartTypesNext, BufferAssumption DEF IndInv, TypeOK, Ways
<1> DEFINE back == IF given = NoBuf THEN bufq ELSE Append(bufq, given)
<1>1. CASE /\ sendq # <<>>
           /\ NetXchgStart(Head(sendq).onew, Head(sendq).buf)
           /\ sendq' = Tail(sendq)
           /\ bufq' = back
  <2>1. /\ Head(sendq) \in SendItem /\ Head(sendq) = sendq[1]
        /\ Sending = Bufs(Tail(sendq)) \cup {Head(sendq).buf}
    <3>1. /\ Head(sendq) \in SendItem
          /\ Bufs(sendq) = Bufs(Tail(sendq)) \cup ({Head(sendq).buf} \ {NoBuf})
      BY <1>0, <1>1, TailBufs
    <3>2. Head(sendq).buf \in Buffer
      BY <3>1 DEF SendItem
    <3> QED BY <1>0, <3>1, <3>2 DEF Sending
  <2>2. xchg' = "init" /\ stBuf' = Head(sendq).buf /\ Sending' = Bufs(Tail(sendq))
    BY <1>1 DEF NetXchgStart, Sending
  <2>3. data'[stBuf'] = data[stBuf'] /\ data[stBuf'].way = "queued"
    BY <2>1, <2>2 DEF Loaded
  <2>4. InFlight("direct")' = <<>> /\ InFlight("queued")' = <<data[sendq[1].buf].n>>
    BY <2>1, <2>2, <2>3 DEF InFlight, Some
  <2>5. /\ DOMAIN sendq = 1 .. Len(sendq) /\ Len(sendq) \in Nat \ {0}
        /\ DOMAIN Tail(sendq) = 1 .. (Len(sendq) - 1)
        /\ \A i \in 1 .. (Len(sendq) - 1) : Tail(sendq)[i] = sendq[i + 1]
    BY <1>0, <1>1, HeadTailProperties, LenProperties, EmptySeq
  <2>6. ASSUME NEW i \in 1 .. Len(sendq) PROVE data'[sendq[i].buf] = data[sendq[i].buf]
    <3>1. sendq[i] \in SendItem
      BY <1>0, ElementOfSeq
    <3>2. sendq[i].buf \in Sending
      BY <1>0, <2>5, <3>1 DEF Sending, Bufs, SendItem
    <3> QED BY <3>2
  <2>7. /\ DOMAIN Waiting("queued") = 1 .. Len(sendq) /\ Len(Waiting("queued")) = Len(sendq)
        /\ Waiting("queued") # <<>>
        /\ \A i \in 1 .. Len(sendq) : Waiting("queued")[i] = data[sendq[i].buf].n
    BY <1>0, <2>5, LenProperties, EmptySeq DEF Waiting
  <2>8. Head(Waiting("queued")) = data[sendq[1].buf].n
    BY <2>5, <2>7
  <2>9. Waiting("queued")' = Tail(Waiting("queued"))
    <3> DEFINE w == Waiting("queued")
               v == Waiting("queued")'
    <3>1. /\ Tail(w) \in Seq(Nat) /\ Len(Tail(w)) = Len(sendq) - 1
          /\ \A i \in 1 .. (Len(sendq) - 1) : Tail(w)[i] = w[i + 1]
      BY <1>0, <2>7, HeadTailProperties
    <3>2. /\ DOMAIN v = 1 .. (Len(sendq) - 1)
          /\ \A i \in 1 .. (Len(sendq) - 1) : v[i] = data'[Tail(sendq)[i].buf].n
      BY <1>1, <2>5 DEF Waiting
    <3>3. Len(v) = Len(sendq) - 1
      <4>1. v \in Seq(Nat) /\ DOMAIN v = 1 .. (Len(sendq) - 1)
        BY <1>0, <3>2
      <4> HIDE DEF v
      <4>2. DOMAIN v = 1 .. Len(v) /\ Len(v) \in Nat
        BY <4>1, LenProperties
      <4>3. Len(sendq) - 1 \in Nat
        BY <2>5
      <4> QED BY <4>1, <4>2, <4>3, SameRange
    <3>4. ASSUME NEW i \in 1 .. (Len(sendq) - 1) PROVE v[i] = Tail(w)[i]
      <4>1. i + 1 \in 1 .. Len(sendq)
        BY <2>5
      <4>2. v[i] = data'[sendq[i + 1].buf].n
        BY <2>5, <3>2
      <4>3. v[i] = data[sendq[i + 1].buf].n
        BY <2>6, <4>1, <4>2
      <4>4. w[i + 1] = data[sendq[i + 1].buf].n
        BY <2>7, <4>1
      <4> QED BY <3>1, <4>3, <4>4
    <3> HIDE DEF w, v
    <3>5. v \in Seq(Nat) /\ w \in Seq(Nat)
      BY <1>0 DEF v, w
    <3>6. v = Tail(w)
      BY <3>1, <3>3, <3>4, <3>5, SeqEqual
    <3> QED BY <3>6 DEF v, w
  <2>10. Cat(<<Head(Waiting("queued"))>>, Tail(Waiting("queued"))) = Waiting("queued")
    BY <1>0, <2>7, CatHead
  <2> QED BY <2>1, <2>2, <2>4, <2>8, <2>9, <2>10
<1>2. CASE sendq = <<>> /\ UNCHANGED sendq
  <2>1. Sending = {} /\ Sending' = {} /\ Waiting("queued") = <<>> /\ Waiting("queued")' = <<>>
    BY <1>2 DEF Sending, Bufs, Waiting
  <2>2. CASE UNCHANGED <<xchg, stBuf>>
    BY <2>1, <2>2, CatEmpty, EmptySeq DEF InFlight
  <2>3. CASE back # <<>> /\ NetXchgStart(FALSE, IF given = NoBuf THEN Head(bufq) ELSE given)
    <3>1. data'[stBuf'] = None /\ xchg' = "init"
      <4>1. CASE given = NoBuf
        <5>1. Head(bufq) \in Free
          BY <1>0, <2>3, <4>1, TailElems DEF Free
        <5> QED BY <2>3, <4>1, <5>1, FreeEmpty DEF NetXchgStart
      <4>2. CASE given # NoBuf
        BY <2>3, <4>2 DEF NetXchgStart
      <4> QED BY <4>1, <4>2
    <3>2. InFlight("direct")' = <<>> /\ InFlight("queued")' = <<>>
      BY <3>1 DEF InFlight, Some, None
    <3> QED BY <2>1, <3>1, <3>2, CatEmpty, EmptySeq
  <2> QED BY <1>2, <2>2, <2>3 DEF NetXchgNext
<1> QED BY <1>1, <1>2 DEF NetXchgNext

LEMMA SameKept ==
    ASSUME LinkTypes, IndInv, LinkTypes', IndInv', FeKept,
           \A way \in Ways : Kept(way)' = Kept(way) /\ sent'[way] = sent[way]
    PROVE FeKept'
  BY KeptForm, KeptForm2

\* A message that is numbered joins those that wait.
LEMMA OneMoreKept ==
    ASSUME LinkTypes, IndInv, LinkTypes', IndInv', FeKept,
           \A way \in Ways : got'[way] = got[way] /\ Arrived(way)' = Arrived(way),
           NEW new \in Ways, sent'[new] = sent[new] + 1,
           Cat(InFlight(new)', Waiting(new)') = Append(Cat(InFlight(new), Waiting(new)), sent[new] + 1),
           \A way \in Ways \ {new} :
               /\ sent'[way] = sent[way]
               /\ Cat(InFlight(way)', Waiting(way)') = Cat(InFlight(way), Waiting(way))
    PROVE FeKept'
<1>1. Kept(new) = Seq1(sent[new])
  BY KeptForm
<1>2. /\ sent[new] \in Nat /\ sent[new] + 1 \in Nat
      /\ Cat(got[new], Arrived(new)) \in Seq(Nat) /\ Cat(InFlight(new), Waiting(new)) \in Seq(Nat)
  BY PartTypes, CatType
<1>3. Kept(new)' = Cat(Cat(got[new], Arrived(new)), Append(Cat(InFlight(new), Waiting(new)), sent[new] + 1))
  BY DEF Kept
<1>4. Kept(new)' = Append(Kept(new), sent[new] + 1)
  BY <1>2, <1>3, CatAppend DEF Kept
<1>5. Kept(new)' = Seq1(sent'[new])
  BY <1>1, <1>2, <1>4, Counting
<1>6. \A way \in Ways \ {new} : Kept(way)' = Seq1(sent'[way])
  BY KeptForm DEF Kept
<1> QED BY <1>5, <1>6, KeptForm2

\* A step that leaves the FE310's messages where they are.
LEMMA QuietKept ==
    ASSUME LinkTypes, IndInv, LinkTypes', IndInv', Loaded, FeKept, UNCHANGED <<data, sendq>>,
           \A way \in Ways : got'[way] = got[way] /\ sent'[way] = sent[way],
           at' = "received" <=> at = "received", at = "received" => recv' = recv,
           xchg' = "idle" <=> xchg = "idle", xchg # "idle" => stBuf' = stBuf,
           pc' \in {"pause", "cts1"} <=> pc \in {"pause", "cts1"},
           pc \in {"pause", "cts1"} => op' = op,
           xchg # "idle" /\ at' = "replying" => at = "replying"
    PROVE Loaded' /\ FeKept'
<1>1. Waiting("queued")' = Waiting("queued") /\ Sending' = Sending
  BY QueuedSame
<1>2. \A way \in Ways :
          /\ Arrived(way)' = Arrived(way) /\ InFlight(way)' = InFlight(way)
          /\ Waiting(way)' = Waiting(way)
  BY <1>1 DEF Arrived, InFlight, Waiting, Ways
<1>3. FeKept'
  BY <1>2, CountKept
<1>4. Loaded'
  BY <1>1 DEF Loaded
<1> QED BY <1>3, <1>4

\* A step that lets net_xchg_next start an exchange of the idle link
LEMMA NextKept ==
    ASSUME LinkTypes, IndInv, LinkTypes', IndInv', Loaded, FeKept, xchg = "idle",
           NEW given, given = NoBuf \/ (given \in Buffer /\ data[given] = None), NetXchgNext(given),
           UNCHANGED <<at, recv, data>>, at # "replying",
           \A way \in Ways : got'[way] = got[way] /\ sent'[way] = sent[way],
           pc' \in {"pause", "cts1"} <=> pc \in {"pause", "cts1"},
           pc \in {"pause", "cts1"} => op' = op
    PROVE Loaded' /\ FeKept'
<1>1. /\ xchg' \in {"idle", "init"}
      /\ Sending \subseteq Sending' \cup (IF xchg' # "idle" THEN {stBuf'} ELSE {})
      /\ Sending' \subseteq Sending
      /\ InFlight("direct")' = <<>>
      /\ Cat(InFlight("queued")', Waiting("queued")') = Waiting("queued")
  BY NextSent
<1>2. \A way \in Ways : Arrived(way)' = Arrived(way) /\ InFlight(way) = <<>>
  BY DEF Arrived, InFlight
<1>3. Waiting("direct")' = Waiting("direct")
  BY DEF Waiting
<1>4. Cat(InFlight("queued"), Waiting("queued")) = Waiting("queued")
  BY <1>2, PartTypes, CatEmpty DEF Ways
<1>5. FeKept'
  BY <1>1, <1>2, <1>3, <1>4, CountKept DEF Ways
<1>6. Loaded'
  BY <1>1 DEF Loaded
<1> QED BY <1>5, <1>6

LEMMA ResumeKept ==
    ASSUME LinkTypes, IndInv, LinkTypes', IndInv', Loaded, FeKept, OneToken, NetResume,
           UNCHANGED <<at, recv, data>>, xchg = "idle" => at # "replying",
           \A way \in Ways : got'[way] = got[way] /\ sent'[way] = sent[way],
           pc' \in {"pause", "cts1"} <=> pc \in {"pause", "cts1"},
           pc \in {"pause", "cts1"} => op' = op
    PROVE Loaded' /\ FeKept'
<1>1. CASE cts
  BY <1>1, NextKept DEF OneToken, NetResume
<1>2. CASE ~cts
  <2>1. UNCHANGED <<xchg, stBuf, sendq>>
    BY <1>2 DEF NetResume, link
  <2> QED BY <2>1, QuietKept
<1> QED BY <1>1, <1>2

\* What does not number or deliver messages
LEMMA HistFe ==
    ASSUME UNCHANGED hist
    PROVE UNCHANGED data /\ \A way \in Ways : got'[way] = got[way] /\ sent'[way] = sent[way]
  BY DEF hist

FeInv == LinkTypes /\ IndInv /\ OneToken /\ Request /\ Loaded /\ FeKept
FeTypes == LinkTypes' /\ IndInv'

LEMMA EspFe == ASSUME FeInv, FeTypes, Esp \/ EspSend PROVE Loaded' /\ FeKept'
<1> USE DEF FeInv, FeTypes
<1>1. CASE TakeMessage
  BY <1>1, QuietKept, HistFe DEF TakeMessage, vars, link, main, OneToken
<1>2. CASE OfferExchange
  BY <1>2, QuietKept, HistFe DEF OfferExchange, vars, link, main, OneToken
<1>3. CASE HandleReceived
  <2>1. /\ xchg = "idle" /\ at = "received" /\ at' \in {"reply", "pop"}
        /\ UNCHANGED <<vars, data, sent, recv>> /\ got' = Handled(recv.msg)
    BY <1>3 DEF HandleReceived, OneToken
  <2>2. UNCHANGED <<xchg, stBuf, sendq, pc, op>>
    BY <2>1 DEF vars, link, main
  <2>3. recv.msg \in Message
    BY DEF LinkTypes
  <2>4. ASSUME NEW way \in Ways PROVE Cat(got'[way], Arrived(way)') = Cat(got[way], Arrived(way))
    <3>1. Arrived(way)' = <<>> /\ Arrived(way) = Some(recv.msg, way)
      BY <2>1 DEF Arrived
    <3>2. got[way] \in Seq(Nat) /\ got'[way] \in Seq(Nat)
      BY DEF LinkTypes, Way, Ways
    <3>3. CASE recv.msg.way = way
      <4>1. recv.msg # None /\ recv.msg.n \in Nat
        BY <2>3, <3>3 DEF Message, None, Ways
      <4>2. got'[way] = Append(got[way], recv.msg.n)
        BY <2>1, <3>3, <4>1 DEF Handled, LinkTypes, Way, Ways
      <4> QED BY <3>1, <3>2, <3>3, <4>1, <4>2, CatOne, CatEmpty DEF Some
    <3>4. CASE recv.msg.way # way
      <4>1. got'[way] = got[way]
        BY <2>1, <2>3, <3>4 DEF Handled, LinkTypes, Way, Ways, Message
      <4> QED BY <3>1, <3>4, <4>1 DEF Some
    <3> QED BY <3>3, <3>4
  <2>5. \A way \in Ways : InFlight(way)' = InFlight(way) /\ Waiting(way)' = Waiting(way)
    BY <2>1, <2>2 DEF InFlight, Waiting
  <2>6. FeKept'
    BY <2>1, <2>4, <2>5, SameKept DEF Kept
  <2>7. Loaded'
    BY <2>1, <2>2 DEF Loaded, Sending, Bufs
  <2> QED BY <2>6, <2>7
<1>4. CASE EspSend
  <2>1. \A way \in Ways : got'[way] = got[way] /\ sent'[way] = sent[way]
    BY <1>4 DEF EspSend, LinkTypes, Way, Ways
  <2> QED BY <1>4, <2>1, QuietKept DEF EspSend, vars, link, main
<1> QED BY <1>1, <1>2, <1>3, <1>4 DEF Esp

LEMMA InterruptFe == ASSUME FeInv, FeTypes, FeInterrupt \/ TakeEvent PROVE Loaded' /\ FeKept'
<1> USE DEF FeInv, FeTypes
<1>1. CASE TakeRise
  <2>1. UNCHANGED <<hist, xchg, stBuf, sendq, pc, op>>
    BY <1>1 DEF TakeRise, HandleRtsRise, main
  <2>2. CASE cts /\ run
    <3>1. at # "received" /\ at' = "pop"
      BY <1>1, <2>2 DEF TakeRise, Transmitted, OneToken
    <3> QED BY <2>1, <3>1, QuietKept, HistFe
  <2>3. CASE ~(cts /\ run)
    BY <1>1, <2>1, <2>3, QuietKept, HistFe DEF TakeRise, esp
  <2> QED BY <2>2, <2>3
<1>2. CASE TakeFall \/ TakeEvent
  <2>1. UNCHANGED <<link, main, sendq, esp, hist>>
    BY <1>2 DEF TakeFall, RtsFallHandler, TakeEvent, EvtIntr
  <2> QED BY <2>1, QuietKept, HistFe DEF link, main, esp
<1>3. CASE TakeCts
  <2>1. UNCHANGED <<main, esp, hist>> /\ xchg = "idle"
    BY <1>3 DEF TakeCts, CtsHandler, OneToken
  <2>2. CASE run
    <3>1. at # "replying"
      BY <2>2 DEF Request, Replying, IndInv, Control
    <3>2. NetXchgNext(NoBuf)
      BY <1>3, <2>2 DEF TakeCts, CtsHandler
    <3> QED BY <2>1, <3>1, <3>2, NextKept, HistFe DEF main, esp
  <2>3. CASE ~run
    <3>1. UNCHANGED <<xchg, stBuf, sendq>>
      BY <1>3, <2>3 DEF TakeCts, CtsHandler
    <3> QED BY <2>1, <3>1, QuietKept, HistFe DEF main, esp
  <2> QED BY <2>2, <2>3
<1>4. CASE TakeHeader
  <2>1. UNCHANGED <<main, sendq, stBuf, esp, hist>> /\ xchg = "init" /\ xchg' = "data"
    BY <1>4 DEF TakeHeader, HandleHeader
  <2> QED BY <2>1, QuietKept, HistFe DEF main, esp
<1>5. CASE TakeDone
  <2>1. /\ UNCHANGED <<main, sent, sendq>> /\ xchg = "data" /\ xchg' = "idle"
        /\ data' = [data EXCEPT ![stBuf] = None] /\ stBuf \in Buffer
    BY <1>5 DEF TakeDone, HandleDone, IndInv, Link
  <2>2. at \in {"ready", "replying"}
    BY <2>1 DEF OneToken
  <2>3. /\ stBuf \notin Sending
        /\ pc \in {"pause", "cts1"} => stBuf # op.buf /\ op.buf \in Buffer
    <3>1. CASE sync
      <4>1. stBuf = op.buf /\ op.buf \in held /\ pc \notin {"pause", "cts1"}
        BY <2>1, <3>1 DEF IndInv, Link, Control
      <4> QED BY <4>1 DEF IndInv, OneOwner
    <3>2. CASE ~sync
      BY <2>1, <3>2 DEF IndInv, Control, OneOwner, OnWire, TypeOK
    <3> QED BY <3>1, <3>2
  <2>4. \A b \in Buffer : b # stBuf => data'[b] = data[b]
    BY <2>1 DEF LinkTypes
  <2>5. Sending \subseteq Buffer
    BY QueuesHoldBuffers DEF IndInv
  <2>6. Waiting("queued")' = Waiting("queued") /\ Sending' = Sending
    BY <2>1, <2>3, <2>4, <2>5, QueuedSame
  <2>7. Waiting("direct")' = Waiting("direct")
    BY <2>1, <2>3, <2>4 DEF Waiting, main
  <2>8. ASSUME NEW way \in Ways
        PROVE /\ got'[way] = got[way] /\ Arrived(way) = <<>> /\ InFlight(way)' = <<>>
              /\ Arrived(way)' = InFlight(way)
    <3>1. got'[way] = got[way]
      BY <1>5 DEF TakeDone, LinkTypes, Way, Ways
    <3>2. Arrived(way) = <<>> /\ InFlight(way)' = <<>>
      BY <2>1, <2>2 DEF Arrived, InFlight
    <3>3. CASE at = "ready"
      <4>1. at' = "received" /\ recv'.msg = data[stBuf]
        BY <1>5, <3>3 DEF TakeDone, Transmitted
      <4>2. Arrived(way)' = Some(data[stBuf], way)
        BY <4>1 DEF Arrived, Some
      <4> QED BY <2>1, <3>1, <3>2, <4>2 DEF InFlight
    <3>4. CASE at = "replying"
      <4>1. data[stBuf] = None /\ at' = "pop"
        BY <1>5, <2>1, <3>4 DEF Loaded, TakeDone, Transmitted
      <4>2. InFlight(way) = <<>>
        BY <4>1 DEF InFlight, Some, None, Ways
      <4> QED BY <3>1, <3>2, <4>1, <4>2 DEF Arrived
    <3> QED BY <2>2, <3>1, <3>2, <3>3, <3>4
  <2>9. \A way \in Ways : Kept(way)' = Kept(way)
    <3> SUFFICES ASSUME NEW way \in Ways PROVE Kept(way)' = Kept(way)
      OBVIOUS
    <3>1. Waiting(way)' = Waiting(way)
      BY <2>6, <2>7 DEF Ways
    <3>2. got[way] \in Seq(Nat) /\ InFlight(way) \in Seq(Nat) /\ Waiting(way) \in Seq(Nat)
      BY PartTypes
    <3>3. Kept(way)' = Cat(Cat(got[way], InFlight(way)), Cat(<<>>, Waiting(way)))
      BY <2>8, <3>1 DEF Kept
    <3>4. Kept(way) = Cat(Cat(got[way], <<>>), Cat(InFlight(way), Waiting(way)))
      BY <2>8 DEF Kept
    <3> QED BY <3>2, <3>3, <3>4, CatEmpty, CatRegroup
  <2>10. FeKept'
    BY <2>1, <2>9, SameKept
  <2>11. Loaded'
    <3>1. \A b \in Buffer : data'[b] # None => b # stBuf /\ data[b] # None
      BY <2>1, <2>4 DEF LinkTypes
    <3> QED BY <2>1, <2>3, <2>4, <2>5, <2>6, <3>1 DEF Loaded, main
  <2> QED BY <2>10, <2>11
<1> QED BY <1>1, <1>2, <1>3, <1>4, <1>5 DEF FeInterrupt

\* Whether a call begins or is over, no reply is on its way when the bus is given back.
LEMMA NoReplyDue ==
    ASSUME Request, pc \notin {"cts2"}, xchg = "idle" \/ pc # "done" PROVE at # "replying"
  BY DEF Request, Replying

LEMMA SendFe == ASSUME FeInv, FeTypes, SendQueued \/ SendDirect PROVE Loaded' /\ FeKept'
<1> USE DEF FeInv, FeTypes
<1>0. ASSUME NEW b \in Buffer, NEW way \in Ways, NEW repl \in BOOLEAN, Sends(b, way, repl),
             pc = "handler", b \in held
      PROVE /\ UNCHANGED <<at, recv>>
            /\ \A w \in Ways : got'[w] = got[w] /\ Arrived(w)' = Arrived(w)
            /\ sent'[way] = sent[way] + 1 /\ \A w \in Ways \ {way} : sent'[w] = sent[w]
            /\ data'[b].way = way /\ data'[b].n = sent[way] + 1
            /\ \A c \in Buffer : c # b => data'[c] = data[c]
            /\ b \notin Sending /\ b \notin Free /\ (xchg # "idle" => stBuf # b)
            /\ data[b] = None
  <2>1. UNCHANGED <<at, recv, got>>
    BY <1>0 DEF Sends, esp
  <2>2. sent'[way] = sent[way] + 1 /\ \A w \in Ways \ {way} : sent'[w] = sent[w]
    BY <1>0 DEF Sends, LinkTypes, Way, Ways
  <2>3. data' = [data EXCEPT ![b] = Msg(way, sent[way] + 1, repl)]
    BY <1>0 DEF Sends
  <2>4. data'[b] = Msg(way, sent[way] + 1, repl) /\ \A c \in Buffer : c # b => data'[c] = data[c]
    BY <2>3 DEF LinkTypes
  <2>5. ~sync
    BY <1>0 DEF IndInv, Control
  <2>6. b \notin Sending /\ b \notin Free /\ (xchg # "idle" => stBuf # b)
    BY <1>0, <2>5 DEF IndInv, OneOwner, OnWire
  <2>7. data[b] = None
    BY <1>0, <2>6 DEF Loaded
  <2> QED BY <2>1, <2>2, <2>4, <2>6, <2>7 DEF Msg, Arrived
<1>1. Sending \subseteq Buffer /\ Free \subseteq Buffer
  BY QueuesHoldBuffers DEF IndInv
<1>2. CASE SendQueued
  <2>1. PICK b \in Buffer, oneway \in BOOLEAN : NetSendAsync(b, oneway) /\ Sends(b, "queued", FALSE)
    BY <1>2 DEF SendQueued
  <2>2. pc = "handler" /\ b \in held /\ UNCHANGED <<pc, op>>
    BY <2>1 DEF NetSendAsync, InHandler
  <2> DEFINE n == sent["queued"] + 1
  <2>3. /\ UNCHANGED <<at, recv>>
        /\ \A w \in Ways : got'[w] = got[w] /\ Arrived(w)' = Arrived(w)
        /\ sent'["queued"] = n /\ sent'["direct"] = sent["direct"]
        /\ data'[b].way = "queued" /\ data'[b].n = n
        /\ \A c \in Buffer : c # b => data'[c] = data[c]
        /\ b \notin Sending /\ b \notin Free /\ (xchg # "idle" => stBuf # b)
        /\ data[b] = None
    BY <1>0, <2>1, <2>2 DEF Ways
  <2>4. n \in Nat /\ \A w \in Ways : InFlight(w) \in Seq(Nat) /\ Waiting(w) \in Seq(Nat)
    BY PartTypes DEF Ways
  <2>5. Waiting("direct") = <<>> /\ Waiting("direct")' = <<>>
    BY <2>2 DEF Waiting
  <2> HIDE DEF n
  <2>6. CASE run /\ cts
    <3>1. /\ sendq = <<>> /\ UNCHANGED sendq /\ xchg = "idle"
          /\ xchg' = "init" /\ stBuf' = b
      BY <2>1, <2>6 DEF NetSendAsync, NetXchgStart, IndInv, SendsStarted, OneToken
    <3>2. Waiting("queued") = <<>> /\ Waiting("queued")' = <<>> /\ Sending = {} /\ Sending' = {}
      BY <3>1 DEF Waiting, Sending, Bufs
    <3>3. /\ InFlight("queued") = <<>> /\ InFlight("direct") = <<>>
          /\ InFlight("queued")' = <<n>> /\ InFlight("direct")' = <<>>
      BY <2>3, <3>1 DEF InFlight, Some
    <3>4. Cat(InFlight("queued")', Waiting("queued")') = Append(Cat(InFlight("queued"), Waiting("queued")), n)
      <4>1. Cat(<<>>, <<>>) = <<>> /\ Cat(<<n>>, <<>>) = <<n>> /\ Append(<<>>, n) = <<n>>
        <5>1. <<>> \in Seq(Nat) /\ <<n>> \in Seq(Nat)
          BY <2>4, EmptySeq
        <5>2. Append(<<>>, n) = <<n>>
          BY <2>4
        <5> QED BY <5>1, <5>2, CatEmpty
      <4> QED BY <3>2, <3>3, <4>1
    <3>5. FeKept'
      BY <2>3, <2>5, <3>3, <3>4, OneMoreKept DEF Ways, n
    <3>6. at # "replying"
      BY <2>2, NoReplyDue
    <3>7. Loaded'
      BY <2>2, <2>3, <3>1, <3>2, <3>6 DEF Loaded
    <3> QED BY <3>5, <3>7
  <2>7. CASE ~(run /\ cts)
    <3> DEFINE it == [buf |-> b, onew |-> oneway]
    <3>1. UNCHANGED <<xchg, stBuf>> /\ sendq' = Append(sendq, it) /\ it \in SendItem
      BY <2>1, <2>7 DEF NetSendAsync, link, SendItem
    <3>2. sendq \in Seq(SendItem) /\ NoBuf \notin Buffer
      BY BufferAssumption DEF IndInv, TypeOK
    <3>3. Sending' = Sending \cup {b}
      BY <3>1, <3>2, AppendBufs DEF Sending
    <3>4. Waiting("queued")' = Append(Waiting("queued"), n)
      <4> DEFINE w == Waiting("queued")
                 v == Waiting("queued")'
      <4>1. /\ DOMAIN sendq = 1 .. Len(sendq) /\ Len(sendq) \in Nat
            /\ DOMAIN sendq' = 1 .. (Len(sendq) + 1)
            /\ \A i \in 1 .. Len(sendq) : sendq'[i] = sendq[i]
            /\ sendq'[Len(sendq) + 1] = it
        BY <3>1, <3>2, AppendProperties, LenProperties
      <4>2. ASSUME NEW i \in 1 .. Len(sendq) PROVE data'[sendq[i].buf] = data[sendq[i].buf]
        <5>1. sendq[i] \in SendItem
          BY <3>2, ElementOfSeq
        <5>2. sendq[i].buf \in Sending
          BY <3>2, <4>1, <5>1 DEF Sending, Bufs, SendItem
        <5> QED BY <1>1, <2>3, <5>2
      <4>3. w \in Seq(Nat) /\ v \in Seq(Nat)
        BY PartTypes, PartTypesNext DEF Ways
      <4>4. DOMAIN w = 1 .. Len(sendq) /\ DOMAIN v = 1 .. (Len(sendq) + 1)
        BY <4>1 DEF Waiting
      <4>5. \A i \in 1 .. Len(sendq) : v[i] = w[i]
        BY <4>1, <4>2 DEF Waiting
      <4>6. v[Len(sendq) + 1] = n
        BY <2>3, <4>1 DEF Waiting
      <4> HIDE DEF w, v
      <4>7. Len(w) = Len(sendq) /\ Len(v) = Len(sendq) + 1
        <5>1. /\ DOMAIN w = 1 .. Len(w) /\ Len(w) \in Nat
              /\ DOMAIN v = 1 .. Len(v) /\ Len(v) \in Nat
          BY <4>3, LenProperties
        <5>2. Len(sendq) + 1 \in Nat
          BY <4>1
        <5> QED BY <4>1, <4>4, <5>1, <5>2, SameRange
      <4>8. /\ Append(w, n) \in Seq(Nat) /\ Len(Append(w, n)) = Len(w) + 1
            /\ \A i \in 1 .. Len(w) : Append(w, n)[i] = w[i]
            /\ Append(w, n)[Len(w) + 1] = n
        BY <2>4, <4>3, AppendProperties
      <4>9. \A i \in 1 .. Len(v) : v[i] = Append(w, n)[i]
        BY <4>1, <4>5, <4>6, <4>7, <4>8
      <4>10. v = Append(w, n)
        BY <4>3, <4>7, <4>8, <4>9, SeqEqual
      <4> QED BY <4>10 DEF w, v
    <3>5. \A w \in Ways : InFlight(w)' = InFlight(w)
      <4>1. xchg # "idle" => data'[stBuf] = data[stBuf]
        BY <2>3 DEF IndInv, Link
      <4> QED BY <3>1, <4>1 DEF InFlight
    <3>6. Cat(InFlight("queued")', Waiting("queued")') = Append(Cat(InFlight("queued"), Waiting("queued")), n)
      <4>1. InFlight("queued") \in Seq(Nat) /\ Waiting("queued") \in Seq(Nat)
        BY <2>4 DEF Ways
      <4>2. Cat(InFlight("queued"), Append(Waiting("queued"), n))
                = Append(Cat(InFlight("queued"), Waiting("queued")), n)
        BY <2>4, <4>1, CatAppend
      <4>3. InFlight("queued")' = InFlight("queued")
        BY <3>5 DEF Ways
      <4> QED BY <3>4, <4>2, <4>3
    <3>7. FeKept'
      BY <2>3, <2>5, <3>5, <3>6, OneMoreKept DEF Ways, n
    <3>8. Loaded'
      <4>1. xchg # "idle" => data'[stBuf] = data[stBuf]
        BY <2>3 DEF IndInv, Link
      <4> QED BY <1>1, <2>2, <2>3, <3>1, <3>3, <4>1 DEF Loaded
    <3> QED BY <3>7, <3>8
  <2> QED BY <2>6, <2>7
<1>3. CASE SendDirect
  <2>1. PICK b \in Buffer, s \in BOOLEAN, repl \in BOOLEAN :
            NetXchgBegin(b, s, repl) /\ Sends(b, "direct", repl)
    BY <1>3 DEF SendDirect
  <2>2. pc = "handler" /\ b \in held /\ pc' \in {"pause", "cts1"} /\ op'.buf = b
    BY <2>1 DEF NetXchgBegin, InHandler
  <2> DEFINE n == sent["direct"] + 1
  <2>3. /\ UNCHANGED <<at, recv>>
        /\ \A w \in Ways : got'[w] = got[w] /\ Arrived(w)' = Arrived(w)
        /\ sent'["direct"] = n /\ sent'["queued"] = sent["queued"]
        /\ data'[b].way = "direct" /\ data'[b].n = n
        /\ \A c \in Buffer : c # b => data'[c] = data[c]
        /\ b \notin Sending /\ b \notin Free /\ (xchg # "idle" => stBuf # b)
        /\ data[b] = None
    BY <1>0, <2>1, <2>2 DEF Ways
  <2>4. n \in Nat /\ \A w \in Ways : InFlight(w) \in Seq(Nat) /\ Waiting(w) \in Seq(Nat)
    BY PartTypes DEF Ways
  <2>5. Waiting("direct") = <<>> /\ Waiting("direct")' = <<n>>
    BY <2>2, <2>3 DEF Waiting
  <2> HIDE DEF n
  <2>6. \A c \in Free \cup Sending : data'[c] = data[c]
    BY <1>1, <2>3
  <2>7. at # "replying"
    BY <2>2, NoReplyDue
  <2>8. ASSUME InFlight("direct")' = InFlight("direct"),
               Cat(InFlight("queued")', Waiting("queued")') = Cat(InFlight("queued"), Waiting("queued"))
        PROVE FeKept'
    <3>1. Cat(InFlight("direct")', Waiting("direct")') = Append(Cat(InFlight("direct"), Waiting("direct")), n)
      <4>1. InFlight("direct") \in Seq(Nat)
        BY <2>4 DEF Ways
      <4>2. Cat(InFlight("direct"), <<>>) = InFlight("direct")
        BY <4>1, CatEmpty
      <4>3. Cat(InFlight("direct"), <<n>>) = Append(InFlight("direct"), n)
        BY <2>4, <4>1, CatOne
      <4> QED BY <2>5, <2>8, <4>2, <4>3
    <3> QED BY <2>3, <2>8, <3>1, OneMoreKept DEF Ways, n
  <2>9. CASE UNCHANGED <<xchg, stBuf, sendq>>
    <3>1. xchg # "idle" => data'[stBuf] = data[stBuf]
      BY <2>3 DEF IndInv, Link
    <3>2. \A w \in Ways : InFlight(w)' = InFlight(w)
      BY <2>9, <3>1 DEF InFlight
    <3>3. Waiting("queued")' = Waiting("queued") /\ Sending' = Sending
      BY <2>6, <2>9, QueuedSame
    <3>4. FeKept'
      BY <2>8, <3>2, <3>3 DEF Ways
    <3>5. Loaded'
      BY <1>1, <2>2, <2>3, <2>6, <2>7, <2>9, <3>1, <3>3 DEF Loaded
    <3> QED BY <3>4, <3>5
  <2>10. CASE NetXchgNext(NoBuf) /\ xchg = "idle"
    <3>1. /\ xchg' \in {"idle", "init"}
          /\ Sending \subseteq Sending' \cup (IF xchg' # "idle" THEN {stBuf'} ELSE {})
          /\ Sending' \subseteq Sending
          /\ InFlight("direct")' = <<>>
          /\ Cat(InFlight("queued")', Waiting("queued")') = Waiting("queued")
      BY <2>6, <2>10, NextSent
    <3>2. InFlight("direct") = <<>> /\ InFlight("queued") = <<>>
      BY <2>10 DEF InFlight
    <3>3. Cat(InFlight("queued"), Waiting("queued")) = Waiting("queued")
      BY <2>4, <3>2, CatEmpty DEF Ways
    <3>4. FeKept'
      BY <2>8, <3>1, <3>2, <3>3
    <3>5. Loaded'
      BY <1>1, <2>2, <2>3, <2>6, <2>7, <2>10, <3>1 DEF Loaded
    <3> QED BY <3>4, <3>5
  <2>11. CASE run
    BY <2>1, <2>9, <2>11 DEF NetXchgBegin, link
  <2>12. CASE ~run /\ cts
    BY <2>1, <2>10, <2>12 DEF NetXchgBegin, NetResume, OneToken
  <2>13. CASE ~run /\ ~cts
    BY <2>1, <2>9, <2>13 DEF NetXchgBegin, NetResume, link
  <2> QED BY <2>11, <2>12, <2>13
<1> QED BY <1>2, <1>3

LEMMA OtherFe ==
    ASSUME FeInv, FeTypes, FetchReply \/ OtherStep PROVE Loaded' /\ FeKept'
<1> USE DEF FeInv, FeTypes
<1>1. CASE FetchReply
  <2>1. /\ pc = "cts2" /\ pc' = "done" /\ xchg = "idle" /\ xchg' = "init" /\ stBuf' = op.buf
        /\ UNCHANGED <<at, recv, data, sent, got, sendq, op>>
    BY <1>1 DEF FetchReply, NetXchgReply, NetXchgStart, OneToken, esp
  <2>2. op.buf \in held
    BY <2>1 DEF IndInv, Control
  <2>3. data[op.buf] = None
    BY <2>1, <2>2, FreeEmpty
  <2>4. Waiting("queued")' = Waiting("queued") /\ Sending' = Sending
    BY <2>1, QueuedSame
  <2>5. \A way \in Ways :
            /\ Arrived(way)' = Arrived(way) /\ Waiting(way)' = Waiting(way)
            /\ InFlight(way) = <<>> /\ InFlight(way)' = <<>>
    BY <2>1, <2>3, <2>4 DEF Arrived, Waiting, InFlight, Some, None, Ways
  <2>6. FeKept'
    BY <2>1, <2>5, CountKept
  <2>7. Loaded'
    BY <2>1, <2>3, <2>4 DEF Loaded
  <2> QED BY <2>6, <2>7
<1>2. ASSUME OtherStep PROVE UNCHANGED <<at, recv, hist>>
  BY <1>2 DEF OtherStep, esp
<1>3. CASE OtherStep /\ NetXchgSync
  <2>1. /\ pc = "cts1" /\ pc' \notin {"pause", "cts1"} /\ xchg = "idle" /\ xchg' = "init"
        /\ stBuf' = op.buf /\ UNCHANGED <<sendq, data, at, recv>>
    BY <1>2, <1>3, HistFe DEF NetXchgSync, NetXchgStart, AfterXchg, OneToken
  <2>2. data[op.buf].way = "direct"
    BY <2>1 DEF Loaded
  <2>3. Waiting("queued")' = Waiting("queued") /\ Sending' = Sending
    BY <2>1, QueuedSame
  <2>4. /\ InFlight("queued") = <<>> /\ InFlight("queued")' = <<>>
        /\ InFlight("direct") = <<>> /\ InFlight("direct")' = <<data[op.buf].n>>
        /\ Waiting("direct") = <<data[op.buf].n>> /\ Waiting("direct")' = <<>>
    BY <2>1, <2>2 DEF InFlight, Waiting, Some
  <2>5. Cat(InFlight("direct")', Waiting("direct")') = Cat(InFlight("direct"), Waiting("direct"))
    <3>1. Waiting("direct") \in Seq(Nat)
      BY PartTypes DEF Ways
    <3>2. Cat(Waiting("direct"), <<>>) = Cat(<<>>, Waiting("direct"))
      BY <3>1, CatEmpty
    <3> QED BY <2>4, <3>2
  <2>6. \A way \in Ways : Arrived(way)' = Arrived(way)
    BY <2>1 DEF Arrived
  <2>7. FeKept'
    BY <1>2, <1>3, <2>3, <2>4, <2>5, <2>6, HistFe, CountKept DEF Ways
  <2>8. at # "replying"
    BY <2>1, NoReplyDue
  <2>9. Loaded'
    BY <2>1, <2>3, <2>8 DEF Loaded
  <2> QED BY <2>7, <2>9
<1>4. CASE OtherStep /\ (NetXchgEnd \/ SpiDeselect)
  <2>1. /\ pc \notin {"pause", "cts1", "cts2"} /\ pc' \notin {"pause", "cts1"}
        /\ NetResume /\ (xchg = "idle" \/ pc # "done")
    BY <1>4 DEF NetXchgEnd, SpiDeselect, AfterXchg, InHandler
  <2>2. at # "replying"
    BY <2>1, NoReplyDue
  <2> QED BY <1>2, <1>4, <2>1, <2>2, HistFe, ResumeKept
<1>5. CASE OtherStep /\ \E b \in Buffer, more \in BOOLEAN : NetFree(b, more)
  <2>1. PICK b \in Buffer, more \in BOOLEAN : NetFree(b, more)
    BY <1>5
  <2>2. pc = "handler" /\ pc' = "handler" /\ b \in held
    BY <2>1 DEF NetFree, InHandler
  <2>3. CASE UNCHANGED <<link, sendq>>
    BY <1>2, <1>5, <2>2, <2>3, HistFe, QuietKept DEF link
  <2>4. CASE cts /\ NetXchgNext(b)
    <3>1. xchg = "idle" /\ at # "replying"
      BY <2>2, <2>4, NoReplyDue DEF OneToken
    <3>2. data[b] = None
      BY <2>2, <3>1, FreeEmpty
    <3> QED BY <1>2, <1>5, <2>2, <2>4, <3>1, <3>2, HistFe, NextKept
  <2> QED BY <2>1, <2>3, <2>4 DEF NetFree, GiveLink, GiveBack
<1>6. CASE OtherStep /\ NetPause
  BY <1>2, <1>6, HistFe, QuietKept DEF NetPause, link
<1>7. CASE OtherStep /\ Loop
  <2>1. /\ pc \notin {"pause", "cts1"} /\ pc' \notin {"pause", "cts1"}
        /\ UNCHANGED <<link, sendq>>
    BY <1>7 DEF Loop, Pop, Dispatch, TryAcquire, AcquireReserved, Requeue, Finish, NetRelease
  <2> QED BY <1>2, <1>7, <2>1, HistFe, QuietKept DEF link
<1>8. CASE OtherStep /\ (NetAcquire \/ NetAlloc \/ NetAllocDone \/ SpiSelect \/ NetStopped)
  <2>1. /\ pc \notin {"pause", "cts1"} /\ pc' \notin {"pause", "cts1"}
        /\ UNCHANGED <<link, sendq>>
    BY <1>8 DEF NetAcquire, TryAcquire, NetAlloc, NetAllocDone, SpiSelect, NetStopped, InHandler
  <2> QED BY <1>2, <1>8, <2>1, HistFe, QuietKept DEF link
<1> QED BY <1>1, <1>3, <1>4, <1>5, <1>6, <1>7, <1>8 DEF OtherStep

LEMMA FeStep == FeInv /\ [LinkNext]_linkVars => FeInv'
<1> SUFFICES ASSUME FeInv, [LinkNext]_linkVars PROVE FeInv'
  OBVIOUS
<1>1. OneToken' /\ IndInv' /\ LinkTypes' /\ Request'
  BY LinkStep, TypesKept, RequestKept DEF FeInv
<1>2. CASE UNCHANGED linkVars
  BY <1>1, <1>2, QuietKept, HistFe DEF FeInv, linkVars, vars, link, main, esp
<1> QED
  BY <1>1, <1>2, EspFe, InterruptFe, SendFe, OtherFe DEF FeInv, FeTypes, LinkNext, Fe

LEMMA InitFe == LinkInit => FeInv
<1> SUFFICES ASSUME LinkInit PROVE FeInv
  OBVIOUS
<1>1. LinkTypes /\ IndInv /\ OneToken /\ Request
  BY InitEsp, InitInv, InitToken, InitRequest DEF LinkInit, EspInv
<1>2. /\ sendq = <<>> /\ at = "pop" /\ xchg = "idle" /\ pc = "loop"
      /\ \A way \in Ways : got[way] = <<>> /\ sent[way] = 0
      /\ \A b \in Buffer : data[b] = None
  BY DEF LinkInit, Init, Way, Ways
<1>3. Loaded
  BY <1>2 DEF Loaded, Sending, Bufs
<1>4. \A way \in Ways : Kept(way) = Seq1(sent[way])
  <2> SUFFICES ASSUME NEW way \in Ways PROVE Kept(way) = Seq1(sent[way])
    OBVIOUS
  <2>1. Arrived(way) = <<>> /\ InFlight(way) = <<>> /\ Waiting(way) = <<>>
    BY <1>2 DEF Arrived, InFlight, Waiting
  <2>2. Cat(<<>>, <<>>) = <<>>
    BY CatEmpty, EmptySeq
  <2>3. Seq1(0) = <<>>
    BY DEF Seq1
  <2> QED BY <1>2, <2>1, <2>2, <2>3 DEF Kept
<1> QED BY <1>1, <1>3, <1>4, KeptForm DEF FeInv

\* No message given to net_xchg is lost, sent twice or overtaken by one of its kind, though its buffer
\* is queued while the link is busy or paused, and is the one in which the next message is received.
THEOREM FeMessagesKept == LinkSpec => []FeKept
<1>1. FeInv => FeKept
  BY DEF FeInv
<1> QED BY <1>1, InitFe, FeStep, PTL DEF LinkSpec
=============================================================================

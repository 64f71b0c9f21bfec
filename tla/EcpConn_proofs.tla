--------------------------- MODULE EcpConn_proofs ---------------------------
(***************************************************************************)
(* Proofs about EcpConn, for any number of connections, any size of the    *)
(* timer and any number of tries.                                          *)
(*                                                                         *)
(* The inductive invariant says, next to the accounting of the references, *)
(* where each thread stands with respect to a connection: who may be about *)
(* to destroy it, who still relies on REG, and that the handshake's item   *)
(* is the only one of a connection that is not open yet.                   *)
(***************************************************************************)
EXTENDS EcpConn, FiniteSetTheorems, TLAPS

\* Items of the handshake that a retry may still act on: one that is executed
\* no longer counts once its own retry pushed a new one or gave up.
Spent == rx.pc \in {"err", "errclose", "xdec"}
Active(c) == {s \in ItemsOf(c) : /\ timer[s].mtype = "OPEN_REP"
                                 /\ ~(Spent /\ s = rx.item)}

\* The program counters of the receiver and of the expiry, and what they hold.
ThreadInv ==
    /\ exp.pc \in {"idle", "remove", "destroy"}
    /\ exp.pc = "idle" <=> exp.conn = NoConn
    /\ rx.pc \in {"idle", "exe", "next"} => rx.conn = NoConn
    /\ rx.pc \notin {"idle", "exe", "next"} => rx.conn \in Conn
    /\ rx.pc \in ExecPc =>
          /\ rx.item \in Collected
          /\ timer[rx.item].conn = rx.conn
    /\ rx.pc \in {"reset", "reinit", "reinsert"} =>
          timer[rx.item].mtype = "OPEN_REP" /\ timer[rx.item].cnt > 0
    /\ rx.pc = "reinit" => ~reg[rx.conn]
    /\ rx.pc = "reinsert" /\ rx.conn \notin crossed =>
          reg[rx.conn] /\ rx.conn \notin table
    /\ rx.pc = "resend" => timer[rx.item].cnt > 0
    /\ rx.pc = "err" /\ rx.err = "FAILED" => timer[rx.item].cnt > 0
    /\ rx.pc \in {"idle", "exe"} \cup PacketPc \cup {"destroy"} => Collected = {}
    /\ rx.pc \in {"openrep", "close", "closerm"} => rx.conn \in Inb
    /\ rx.pc \in {"got", "handle"} =>
          /\ rx.mtype = "OPEN_REP" => rx.conn \in Outb
          /\ rx.mtype = "OPEN_REQ" => rx.conn \in Inb
          /\ rx.mtype # "DROP"
    /\ rx.pc = "errclose" => rx.conn \in Outb /\ app[rx.conn] \in {"remove", "destroy", "closed"}
    /\ rx.pc \in {"destroy", "xdestroy"} =>
          /\ refcount[rx.conn] = 0
          /\ ~reg[rx.conn]
          /\ rx.conn \in Outb \ crossed => app[rx.conn] \in {"closed", "gone"}

\* A connection with a reference, registered or open is not destroyed.
LifeOf(c) ==
    c \notin crossed =>
    /\ reg[c] \/ refcount[c] > 0 \/ open[c] => life[c] = "live"
    /\ opened[c] => open[c]
    /\ c \in table => reg[c]
    /\ c = rx.conn => life[c] = "live"

\* Each outbound connection, by what its application does.
OwnAppOf(c) ==
    /\ app[c] \notin {"closed", "gone"} => life[c] = "live"
    /\ Unsent(c) => rx.conn # c /\ ~open[c] /\ c \notin told
    /\ app[c] \in {"new", "insert", "send", "undorm", "failed"} => ItemsOf(c) = {}
    /\ app[c] = "undo" =>
          \A s \in ItemsOf(c) : ~timer[s].exec /\ ~timer[s].due
    /\ app[c] \in {"new", "failed", "closed", "destroy"} => ~reg[c]
    /\ app[c] \in {"insert", "send", "undo", "undorm"} => reg[c]
    /\ app[c] = "insert" => c \notin table
    /\ app[c] = "opening" /\ ~reg[c] =>
          /\ rx.conn = c /\ ~open[c] /\ c \notin told
          /\ \/ rx.pc = "reinit"
             \/ /\ rx.pc = "err" /\ rx.err = "FAILED"
                /\ timer[rx.item].mtype = "OPEN_REP"
    /\ app[c] = "remove" /\ ~reg[c] =>
          \/ rx.conn # c /\ ItemsOf(c) = {}
          \/ rx.conn = c /\ rx.pc = "errclose"
    /\ app[c] = "destroy" => refcount[c] = 0

\* One that was closed while its open was retried is left to the application.
AppOf(c) ==
    /\ c \in crossed => app[c] \in {"remove", "destroy", "closed"}
    /\ life[c] # "free"
    /\ c \notin crossed => OwnAppOf(c)

\* The handshake's item.
OpenOf(c) ==
    Active(c) # {} =>
        /\ c \in Outb
        /\ ~open[c]
        /\ c \notin told
        /\ \/ app[c] \in {"undo", "opening", "gone"}
           \/ c \in crossed
           \/ app[c] \in {"remove", "closed"} /\ \A s \in Active(c) : timer[s].cnt = 0
        /\ \A s \in ItemsOf(c) : timer[s].mtype = "OPEN_REP"
        /\ \A s, q \in Active(c) : s = q
        /\ rx.conn = c /\ Spent => \A s \in Active(c) : ~timer[s].exec
        /\ ~(rx.conn = c /\ rx.pc = "handler")
        /\ ~(rx.conn = c /\ rx.pc = "handle" /\ rx.mtype = "OPEN_REP")
        /\ ~(rx.conn = c /\ rx.pc = "err" /\ rx.err = "TIMEOUT")
        /\ ~(rx.conn = c /\ rx.pc \in {"got", "handle"} /\ rx.mtype \in {"REPLY", "MSG"})

\* Inbound connections and the thread that expires them.
Expiring == keysInb \cup exp.todo \cup {exp.conn}
ExpireOf(c) ==
    /\ c \in keysInb \cup exp.todo => c # exp.conn /\ reg[c] /\ open[c]
    /\ ~(c \in keysInb /\ c \in exp.todo)
    /\ c = exp.conn /\ exp.pc = "remove" => reg[c] /\ open[c]
    /\ c = exp.conn /\ exp.pc = "destroy" =>
          /\ refcount[c] = 0
          /\ ~reg[c]
          /\ life[c] = "live"
          /\ rx.conn # c
    /\ c = rx.conn /\ rx.pc \in {"handler", "openrep", "close", "closerm"} =>
          c \notin Expiring /\ reg[c]
    /\ c = rx.conn /\ rx.pc \in {"got", "handle"} => reg[c] \/ open[c]
    /\ c = rx.conn /\ rx.pc = "openrep" => open[c]

\* Everything the invariant says of one connection.
ConnInv(c) ==
    /\ LifeOf(c)
    /\ OpenOf(c)
    /\ c \in Outb => AppOf(c)
    /\ c \in Inb => ExpireOf(c)

IndInv ==
    /\ TypeOK
    /\ RefsCounted
    /\ ThreadInv
    /\ \A c \in Conn : ConnInv(c)

-----------------------------------------------------------------------------
(* Lemmas about the timer's items and the references they hold.              *)

\* The items of a connection are finitely many.
LEMMA ItemsFinite ==
    ASSUME NEW c
    PROVE  /\ IsFiniteSet(Slot)
           /\ IsFiniteSet(ItemsOf(c)) /\ Cardinality(ItemsOf(c)) \in Nat
           /\ IsFiniteSet(QueuedOf(c)) /\ Cardinality(QueuedOf(c)) \in Nat
           /\ QueuedOf(c) \subseteq ItemsOf(c)
           /\ ItemsOf(c) \subseteq Slot
<1>1. IsFiniteSet(Slot)
  BY FS_Interval, MaxTimerAssumption DEF Slot
<1>2. QueuedOf(c) \subseteq ItemsOf(c) /\ ItemsOf(c) \subseteq Slot
  BY DEF QueuedOf, ItemsOf, Queued, Items
<1>3. IsFiniteSet(ItemsOf(c)) /\ IsFiniteSet(QueuedOf(c))
  BY <1>1, <1>2, FS_Subset
<1> QED
  BY <1>1, <1>2, <1>3, FS_CardinalityType

\* ecp_timer_push: the item and the reference it holds come together, and a
\* reference that has no item is lost.
LEMMA PushFacts ==
    ASSUME TypeOK, NEW c \in Conn, NEW m \in TimerType, NEW n \in 0 .. Tries - 1,
           Push(c, m, n)
    PROVE  /\ timer' \in [Slot -> Item \cup {NoItem}]
           /\ refcount' \in [Conn -> Nat]
           /\ leaked' \in [Conn -> Nat]
           /\ \A d \in Conn :
                 /\ Cardinality(ItemsOf(d)') \in Nat
                 /\ refcount'[d] - Cardinality(ItemsOf(d)') - leaked'[d]
                    = refcount[d] - Cardinality(ItemsOf(d)) - leaked[d]
                 /\ d # c => ItemsOf(d)' = ItemsOf(d) /\ refcount'[d] = refcount[d]
                 /\ ItemsOf(d) \subseteq ItemsOf(d)'
                 /\ ~reg[d] => ItemsOf(d)' = ItemsOf(d) /\ refcount'[d] = refcount[d]
           /\ \A s \in Items : s \in Items' /\ timer'[s] = timer[s]
           /\ \A s \in Items' \ Items :
                 /\ s \in Slot /\ timer'[s].conn = c /\ timer'[s].mtype = m
                 /\ ~timer'[s].exec /\ ~timer'[s].due
           /\ \A s, q \in Items' \ Items : s = q
           /\ Collected' = Collected
<1> DEFINE it == [conn |-> c, mtype |-> m, cnt |-> n, due |-> FALSE, exec |-> FALSE]
<1>a. it \in Item
  BY DEF Item
<1>b. it # NoItem
  BY <1>a, NoItemAssumption
<1>0. it \in Item /\ it # NoItem
  BY <1>a, <1>b
<1>1. CASE ~PushOK(c)
  <2>1. timer' = timer
    BY <1>1 DEF Push
  <2>2. \A d : ItemsOf(d)' = ItemsOf(d)
    BY <2>1 DEF ItemsOf, Items
  <2>3. \A d \in Conn : refcount'[d] - leaked'[d] = refcount[d] - leaked[d]
                       /\ refcount'[d] \in Nat /\ leaked'[d] \in Nat
                       /\ (d # c \/ ~reg[d] => refcount'[d] = refcount[d])
    BY <1>1 DEF Push, PushOK, TypeOK
  <2>4. refcount' \in [Conn -> Nat] /\ leaked' \in [Conn -> Nat]
    BY DEF Push, TypeOK
  <2>5. Items' = Items /\ Collected' = Collected
    BY <2>1 DEF Items, Collected
  <2>6. \A d \in Conn :
            /\ Cardinality(ItemsOf(d)') \in Nat
            /\ refcount'[d] - Cardinality(ItemsOf(d)') - leaked'[d]
               = refcount[d] - Cardinality(ItemsOf(d)) - leaked[d]
    <3> SUFFICES ASSUME NEW d \in Conn
                 PROVE  /\ Cardinality(ItemsOf(d)') \in Nat
                        /\ refcount'[d] - Cardinality(ItemsOf(d)') - leaked'[d]
                           = refcount[d] - Cardinality(ItemsOf(d)) - leaked[d]
      OBVIOUS
    <3>1. ItemsOf(d)' = ItemsOf(d) /\ Cardinality(ItemsOf(d)) \in Nat
      BY <2>2, ItemsFinite
    <3>2. /\ refcount'[d] - leaked'[d] = refcount[d] - leaked[d]
          /\ refcount[d] \in Nat /\ leaked[d] \in Nat
          /\ refcount'[d] \in Nat /\ leaked'[d] \in Nat
      BY <2>3 DEF TypeOK
    <3> QED
      BY <3>1, <3>2
  <2>7. timer' \in [Slot -> Item \cup {NoItem}]
    BY <2>1 DEF TypeOK
  <2> QED
    BY <2>1, <2>2, <2>3, <2>4, <2>5, <2>6, <2>7
<1>2. CASE PushOK(c)
  <2>1. NewSlot \in Slot /\ NewSlot \in FreeSlots
    BY <1>2 DEF Push, NewSlot, FreeSlots
  <2>2. timer' = [timer EXCEPT ![NewSlot] = it]
    BY <1>2 DEF Push
  <2>3. timer' \in [Slot -> Item \cup {NoItem}]
    BY <1>0, <2>1, <2>2 DEF TypeOK
  <2>4. \A s \in Slot : timer'[s] = IF s = NewSlot THEN it ELSE timer[s]
    BY <2>1, <2>2 DEF TypeOK
  <2>5. Items' = Items \cup {NewSlot} /\ NewSlot \notin Items
    BY <1>0, <2>1, <2>4 DEF Items, FreeSlots
  <2>6. ItemsOf(c)' = ItemsOf(c) \cup {NewSlot} /\ NewSlot \notin ItemsOf(c)
    BY <2>1, <2>4, <2>5 DEF ItemsOf, Items
  <2>7. \A d \in Conn : d # c => ItemsOf(d)' = ItemsOf(d)
    BY <2>1, <2>4, <2>5 DEF ItemsOf, Items
  <2>8. Cardinality(ItemsOf(c)') = Cardinality(ItemsOf(c)) + 1
    BY <2>6, ItemsFinite, FS_AddElement
  <2>9. /\ refcount' = [refcount EXCEPT ![c] = @ + 1]
        /\ leaked' = leaked
        /\ reg[c]
    BY <1>2 DEF Push, PushOK, TypeOK
  <2>10. refcount' \in [Conn -> Nat] /\ leaked' \in [Conn -> Nat]
    BY <2>9 DEF TypeOK
  <2>11. \A d \in Conn : refcount'[d] = IF d = c THEN refcount[d] + 1 ELSE refcount[d]
    BY <2>9 DEF TypeOK
  <2>12. \A d \in Conn :
            /\ Cardinality(ItemsOf(d)') \in Nat
            /\ refcount'[d] - Cardinality(ItemsOf(d)') - leaked'[d]
               = refcount[d] - Cardinality(ItemsOf(d)) - leaked[d]
    BY <2>7, <2>8, <2>9, <2>11, ItemsFinite DEF TypeOK
  <2>13. Collected' = Collected
    BY <2>1, <2>4, <2>5 DEF Collected, Items
  <2> QED
    BY <2>1, <2>3, <2>4, <2>5, <2>6, <2>7, <2>9, <2>10, <2>11, <2>12, <2>13 DEF Items
<1> QED
  BY <1>1, <1>2

\* ecp_timer_remove: the queued items of the connection go, with their references.
LEMMA RemoveFacts ==
    ASSUME TypeOK, RefsCounted, NEW c \in Conn, TimerRemove(c)
    PROVE  /\ timer' \in [Slot -> Item \cup {NoItem}]
           /\ refcount' \in [Conn -> Nat]
           /\ \A d \in Conn :
                 /\ Cardinality(ItemsOf(d)') \in Nat
                 /\ refcount'[d] - Cardinality(ItemsOf(d)')
                    = refcount[d] - Cardinality(ItemsOf(d))
                 /\ d # c => ItemsOf(d)' = ItemsOf(d) /\ refcount'[d] = refcount[d]
                 /\ refcount'[d] <= refcount[d]
                 /\ ItemsOf(d)' \subseteq ItemsOf(d)
           /\ \A s \in Items' : s \in Items /\ timer'[s] = timer[s]
           /\ ItemsOf(c)' = ItemsOf(c) \cap Collected
           /\ Collected' = Collected
           /\ \/ UNCHANGED <<life, open, opened>>
              \/ ConnClose(c) /\ ~reg[c] /\ ItemsOf(c) # {} /\ ItemsOf(c) \cap Collected = {}
                 /\ ~RxHolds(c)
<1> DEFINE n == Cardinality(QueuedOf(c))
<1>1. /\ timer' = [s \in Slot |-> IF s \in QueuedOf(c) THEN NoItem ELSE timer[s]]
      /\ refcount' = [refcount EXCEPT ![c] = @ - n]
      /\ IF n > 0 /\ refcount[c] = n /\ ~reg[c]
         THEN ConnClose(c) ELSE UNCHANGED <<life, open, opened>>
  BY DEF TimerRemove
<1> HIDE DEF n
<1>2. \A s \in Slot : timer'[s] = IF s \in QueuedOf(c) THEN NoItem ELSE timer[s]
  BY <1>1
<1>3. timer' \in [Slot -> Item \cup {NoItem}]
  BY <1>1 DEF TypeOK
<1>4. Items' = Items \ QueuedOf(c)
  BY <1>2 DEF Items
<1>5. Collected' = Collected
  BY <1>2, <1>4 DEF Collected, Items, QueuedOf, Queued
<1>6. ItemsOf(c)' = ItemsOf(c) \ QueuedOf(c)
  BY <1>2, <1>4 DEF ItemsOf, Items
<1>7. \A d \in Conn : d # c => ItemsOf(d)' = ItemsOf(d)
  BY <1>2, <1>4 DEF ItemsOf, QueuedOf, Queued, Items
<1>8. ItemsOf(c)' = ItemsOf(c) \cap Collected
  BY <1>6 DEF ItemsOf, QueuedOf, Queued, Collected, Items
<1>9. n \in Nat /\ n <= Cardinality(ItemsOf(c))
      /\ Cardinality(ItemsOf(c)') = Cardinality(ItemsOf(c)) - n
  <2>1. ItemsOf(c) \cap QueuedOf(c) = QueuedOf(c)
    BY ItemsFinite
  <2>2. Cardinality(ItemsOf(c) \ QueuedOf(c)) = Cardinality(ItemsOf(c)) - n
    BY <2>1, ItemsFinite, FS_Difference DEF n
  <2> QED
    BY <1>6, <2>2, ItemsFinite, FS_Subset, SMTT(60) DEF n
<1>10. Cardinality(ItemsOf(c)) <= refcount[c] /\ refcount[c] \in Nat
  BY ItemsFinite DEF RefsCounted, TypeOK
<1>11. refcount'[c] = refcount[c] - n /\ refcount'[c] \in Nat
  BY <1>1, <1>9, <1>10, ItemsFinite DEF TypeOK
<1>12. refcount' \in [Conn -> Nat] /\ \A d \in Conn : d # c => refcount'[d] = refcount[d]
  BY <1>1, <1>11 DEF TypeOK
<1>13. \A d \in Conn :
          /\ Cardinality(ItemsOf(d)') \in Nat
          /\ refcount'[d] - Cardinality(ItemsOf(d)') = refcount[d] - Cardinality(ItemsOf(d))
          /\ refcount'[d] <= refcount[d]
  BY <1>7, <1>9, <1>11, <1>12, ItemsFinite DEF TypeOK
<1>14. n > 0 /\ refcount[c] = n => /\ ItemsOf(c) # {} /\ ItemsOf(c) \cap Collected = {}
                                  /\ ~RxHolds(c)
  <2> SUFFICES ASSUME n > 0, refcount[c] = n
               PROVE  /\ ItemsOf(c) # {} /\ ItemsOf(c) \cap Collected = {}
                      /\ ~RxHolds(c)
    OBVIOUS
  <2>1. Cardinality(ItemsOf(c)) = n /\ ~RxHolds(c)
    BY <1>9, <1>10, ItemsFinite DEF RefsCounted, TypeOK
  <2>2. Cardinality(ItemsOf(c)') = 0
    BY <1>9, <2>1
  <2>3. IsFiniteSet(ItemsOf(c)')
    BY <1>6, ItemsFinite, FS_Subset
  <2>4. ItemsOf(c)' = {}
    BY <2>2, <2>3, FS_EmptySet
  <2>5. ItemsOf(c) # {}
    BY <2>1, FS_EmptySet, <1>9
  <2> QED
    BY <2>1, <2>4, <2>5, <1>8
<1> QED
  BY <1>1, <1>3, <1>4, <1>5, <1>7, <1>6, <1>8, <1>12, <1>13, <1>14, <1>2 DEF Items

\* One item goes: what ecp_timer_pop and the end of an executed item do.
LEMMA DropFacts ==
    ASSUME TypeOK, RefsCounted, NEW c \in Conn, NEW s \in ItemsOf(c),
           timer' = [timer EXCEPT ![s] = NoItem], DropRef(c)
    PROVE  /\ timer' \in [Slot -> Item \cup {NoItem}]
           /\ refcount' \in [Conn -> Nat]
           /\ \A d \in Conn :
                 /\ Cardinality(ItemsOf(d)') \in Nat
                 /\ refcount'[d] - Cardinality(ItemsOf(d)')
                    = refcount[d] - Cardinality(ItemsOf(d))
                 /\ d # c => ItemsOf(d)' = ItemsOf(d) /\ refcount'[d] = refcount[d]
                 /\ ItemsOf(d)' \subseteq ItemsOf(d)
           /\ ItemsOf(c)' = ItemsOf(c) \ {s}
           /\ refcount'[c] = refcount[c] - 1
           /\ Items' = Items \ {s}
           /\ \A q \in Items' : timer'[q] = timer[q]
<1>1. s \in Slot /\ timer[s].conn = c /\ s \in Items
  BY DEF ItemsOf, Items
<1>2. \A q \in Slot : timer'[q] = IF q = s THEN NoItem ELSE timer[q]
  BY <1>1 DEF TypeOK
<1>3. timer' \in [Slot -> Item \cup {NoItem}]
  BY <1>1 DEF TypeOK
<1>4. Items' = Items \ {s}
  BY <1>1, <1>2 DEF Items
<1>5. ItemsOf(c)' = ItemsOf(c) \ {s}
  BY <1>1, <1>2, <1>4 DEF ItemsOf, Items
<1>6. \A d \in Conn : d # c => ItemsOf(d)' = ItemsOf(d)
  BY <1>1, <1>2, <1>4 DEF ItemsOf, Items
<1>7. Cardinality(ItemsOf(c)') = Cardinality(ItemsOf(c)) - 1 /\ Cardinality(ItemsOf(c)') \in Nat
  <2>1. IsFiniteSet(ItemsOf(c)')
    BY <1>5, ItemsFinite, FS_Subset
  <2> QED
    BY <1>5, <2>1, ItemsFinite, FS_RemoveElement, FS_CardinalityType
<1>8. refcount[c] >= Cardinality(ItemsOf(c)) /\ refcount[c] \in Nat
  BY ItemsFinite DEF RefsCounted, TypeOK
<1>9. refcount'[c] = refcount[c] - 1 /\ refcount'[c] \in Nat
  BY <1>7, <1>8, ItemsFinite DEF DropRef, TypeOK
<1>10. refcount' \in [Conn -> Nat] /\ \A d \in Conn : d # c => refcount'[d] = refcount[d]
  BY <1>9 DEF DropRef, TypeOK
<1>11. \A d \in Conn :
          /\ Cardinality(ItemsOf(d)') \in Nat
          /\ refcount'[d] - Cardinality(ItemsOf(d)') = refcount[d] - Cardinality(ItemsOf(d))
  BY <1>6, <1>7, <1>9, <1>10, ItemsFinite DEF TypeOK
<1> QED
  BY <1>2, <1>3, <1>4, <1>5, <1>6, <1>9, <1>10, <1>11 DEF Items

\* A step that leaves the timer alone leaves every set of its items alone.
LEMMA TimerStable ==
    ASSUME timer' = timer
    PROVE  /\ Items' = Items /\ Collected' = Collected /\ Queued' = Queued
           /\ \A c : ItemsOf(c)' = ItemsOf(c)
BY DEF Items, Collected, Queued, ItemsOf

\* Time passes or an item is collected: no item comes, goes or changes owner.
LEMMA FlagFacts ==
    ASSUME TypeOK,
           timer' \in [Slot -> Item \cup {NoItem}],
           \A s \in Slot : timer'[s] = NoItem <=> timer[s] = NoItem,
           \A s \in Items : timer'[s].conn = timer[s].conn
    PROVE  Items' = Items /\ \A c : ItemsOf(c)' = ItemsOf(c)
<1>1. Items' = Items
  BY DEF Items
<1> QED
  BY <1>1 DEF ItemsOf

\* What the constants are.
LEMMA ConnFacts ==
    /\ Outb \subseteq Conn /\ Inb \subseteq Conn
    /\ \A c \in Conn : (c \in Inb <=> c \notin Outb)
    /\ NoConn \notin Conn /\ NoConn \notin Inb /\ NoConn \notin Outb
    /\ Tries \in Nat /\ Tries > 0
    /\ 1 \in Slot
BY OutbAssumption, NoConnAssumption, TriesAssumption, MaxTimerAssumption DEF Conn, Slot

\* A reference held is a reference counted.
LEMMA RefFacts ==
    ASSUME TypeOK, RefsCounted, NEW c \in Conn
    PROVE  /\ refcount[c] = 0 => ItemsOf(c) = {} /\ ~RxHolds(c)
           /\ refcount[c] = 1 /\ RxHolds(c) => ItemsOf(c) = {}
           /\ ItemsOf(c) # {} => refcount[c] > 0
           /\ RxHolds(c) => refcount[c] > 0
           /\ refcount[c] = 1 => \A s, q \in ItemsOf(c) : s = q
<1>1. /\ refcount[c] = Cardinality(ItemsOf(c)) + (IF RxHolds(c) THEN 1 ELSE 0) + leaked[c]
      /\ Cardinality(ItemsOf(c)) \in Nat /\ refcount[c] \in Nat /\ leaked[c] \in Nat
  BY ItemsFinite DEF RefsCounted, TypeOK
<1>2. Cardinality(ItemsOf(c)) = 0 <=> ItemsOf(c) = {}
  BY ItemsFinite, FS_EmptySet
<1>3. ASSUME Cardinality(ItemsOf(c)) = 1, NEW s \in ItemsOf(c), NEW q \in ItemsOf(c)
      PROVE  s = q
  <2>1. PICK x : ItemsOf(c) = {x}
    BY <1>3, ItemsFinite, FS_Singleton
  <2> QED
    BY <2>1
<1>4. Cardinality(ItemsOf(c)) = 1 => \A s, q \in ItemsOf(c) : s = q
  BY <1>3
<1>5. refcount[c] = 1 => \A s, q \in ItemsOf(c) : s = q
  BY <1>1, <1>2, <1>4
<1> QED
  BY <1>1, <1>2, <1>5

\* What the invariants say of one connection, for the steps below.
PerConn(c) ==
    /\ ConnInv(c)
    /\ refcount[c] \in Nat /\ reg[c] \in BOOLEAN /\ open[c] \in BOOLEAN
    /\ opened[c] \in BOOLEAN /\ life[c] \in {"free", "live", "dead"}
    /\ c \in Outb => app[c] \in AppPc
    /\ c \in crossed => c \in Outb
    /\ refcount[c] = 0 => ItemsOf(c) = {} /\ ~RxHolds(c)
    /\ refcount[c] = 1 /\ RxHolds(c) => ItemsOf(c) = {}
    /\ refcount[c] = 1 => \A s, q \in ItemsOf(c) : s = q

LEMMA PerConnFacts ==
    ASSUME IndInv
    PROVE  \A c \in Conn : PerConn(c)
<1> SUFFICES ASSUME NEW c \in Conn PROVE PerConn(c)
  OBVIOUS
<1>1. TypeOK /\ RefsCounted /\ ConnInv(c)
  BY DEF IndInv
<1>2. /\ refcount[c] \in Nat /\ reg[c] \in BOOLEAN /\ open[c] \in BOOLEAN
      /\ opened[c] \in BOOLEAN /\ life[c] \in {"free", "live", "dead"}
      /\ c \in Outb => app[c] \in AppPc
      /\ c \in crossed => c \in Outb
  BY <1>1 DEF TypeOK
<1> QED
  BY <1>1, <1>2, RefFacts DEF PerConn

\* While ecp_conn_reset runs the connection's opening is still undecided.
LEMMA ResetFacts ==
    ASSUME IndInv
    PROVE  /\ rx.pc \in {"reset", "reinit", "reinsert"} =>
                 /\ rx.item \in Active(rx.conn)
                 /\ rx.conn \in Outb
                 /\ rx.conn \in crossed \/ app[rx.conn] \in {"opening", "gone"}
                 /\ ~open[rx.conn] /\ rx.conn \notin told
           /\ rx.pc = "resend" /\ timer[rx.item].mtype = "OPEN_REP" =>
                 /\ rx.item \in Active(rx.conn)
                 /\ rx.conn \in Outb
                 /\ rx.conn \in crossed \/ app[rx.conn] \in {"opening", "gone"}
                 /\ ~open[rx.conn] /\ rx.conn \notin told
<1>1. \A d \in Conn : PerConn(d)
  BY PerConnFacts
<1>2. TypeOK /\ ThreadInv
  BY DEF IndInv
<1>3. ASSUME rx.pc \in ExecPc, timer[rx.item].mtype = "OPEN_REP",
             rx.pc \notin {"err", "errclose", "xdec"}, timer[rx.item].cnt > 0
      PROVE  /\ rx.item \in Active(rx.conn)
             /\ rx.conn \in Outb
             /\ rx.conn \in crossed \/ app[rx.conn] \in {"opening", "gone"}
             /\ ~open[rx.conn] /\ rx.conn \notin told
  <2>1. rx.conn \in Conn /\ rx.item \in Collected /\ timer[rx.item].conn = rx.conn
    BY <1>2, <1>3 DEF ThreadInv, ExecPc
  <2>2. rx.item \in Active(rx.conn) /\ timer[rx.item].exec
    BY <2>1, <1>3 DEF Active, Spent, ItemsOf, Collected
  <2>3. OpenOf(rx.conn) /\ (rx.conn \in Outb => AppOf(rx.conn))
    BY <1>1, <2>1 DEF PerConn, ConnInv
  <2> QED
    BY <1>3, <2>2, <2>3 DEF OpenOf, AppOf, OwnAppOf, Active
<1> QED
  BY <1>2, <1>3 DEF ThreadInv, ExecPc

\* A connection without references in the receiver's hands is about to be destroyed.
LEMMA LastFacts ==
    ASSUME IndInv, NEW c \in Conn, refcount[c] = 0, rx.conn = c
    PROVE  rx.pc \in {"destroy", "xdestroy"} /\ ~reg[c]
<1>1. TypeOK /\ RefsCounted /\ ThreadInv
  BY DEF IndInv
<1>2. ItemsOf(c) = {} /\ ~RxHolds(c)
  BY <1>1, RefFacts
<1>3. rx.pc \notin PacketPc
  BY <1>2 DEF RxHolds
<1>4. rx.pc \notin ExecPc
  BY <1>1, <1>2 DEF ThreadInv, ItemsOf, Collected
<1>5. rx.pc \notin {"idle", "exe", "next"}
  BY <1>1, ConnFacts DEF ThreadInv
<1>6. rx.pc \in RxPc
  BY <1>1 DEF TypeOK, Receiver
<1>7. rx.pc \in {"destroy", "xdestroy"}
  BY <1>3, <1>4, <1>5, <1>6 DEF RxPc
<1> QED
  BY <1>1, <1>7 DEF ThreadInv

\* The receiver's record after a step of its own.
LEMMA RxFacts ==
    ASSUME TypeOK
    PROVE  /\ \A pc \in RxPc : Goto(pc) =>
                 /\ rx' \in Receiver /\ rx'.pc = pc /\ rx'.conn = rx.conn
                 /\ rx'.mtype = rx.mtype /\ rx'.item = rx.item /\ rx'.err = rx.err
           /\ \A pc \in RxPc : Rest(pc) =>
                 /\ rx' \in Receiver /\ rx'.pc = pc /\ rx'.conn = NoConn
                 /\ rx'.mtype = "DROP" /\ rx'.item = 1 /\ rx'.err = "TIMEOUT"
           /\ Failed =>
                 /\ rx' \in Receiver /\ rx'.pc = "err" /\ rx'.conn = rx.conn
                 /\ rx'.mtype = rx.mtype /\ rx'.item = rx.item /\ rx'.err = "FAILED"
<1>1. rx \in Receiver /\ 1 \in Slot
  BY ConnFacts DEF TypeOK
<1>2. ASSUME NEW pc \in RxPc, Goto(pc)
      PROVE  /\ rx' \in Receiver /\ rx'.pc = pc /\ rx'.conn = rx.conn
             /\ rx'.mtype = rx.mtype /\ rx'.item = rx.item /\ rx'.err = rx.err
  BY <1>1, <1>2 DEF Goto, Receiver
<1>3. ASSUME NEW pc \in RxPc, Rest(pc)
      PROVE  /\ rx' \in Receiver /\ rx'.pc = pc /\ rx'.conn = NoConn
             /\ rx'.mtype = "DROP" /\ rx'.item = 1 /\ rx'.err = "TIMEOUT"
  BY <1>1, <1>3 DEF Rest, Receiver, PacketType
<1>4. ASSUME Failed
      PROVE  /\ rx' \in Receiver /\ rx'.pc = "err" /\ rx'.conn = rx.conn
             /\ rx'.mtype = rx.mtype /\ rx'.item = rx.item /\ rx'.err = "FAILED"
  <2>1. "err" \in RxPc
    BY DEF RxPc, ExecPc
  <2> QED
    BY <1>1, <1>4, <2>1 DEF Failed, Receiver
<1> QED
  BY <1>2, <1>3, <1>4

\* Membership in the sets of items, before and after a step.
LEMMA ItemFacts ==
    /\ \A d, s : /\ s \in ItemsOf(d) <=> s \in Items /\ timer[s].conn = d
                 /\ s \in ItemsOf(d)' <=> s \in Items' /\ timer'[s].conn = d
    /\ Collected \subseteq Items /\ \A s \in Collected : timer[s].exec
BY DEF ItemsOf, Collected

\* A step that leaves counters and items alone leaves the references accounted for.
LEMMA RefsStay ==
    ASSUME RefsCounted, refcount' = refcount, leaked' = leaked,
           \A d : ItemsOf(d)' = ItemsOf(d),
           \A d \in Conn : RxHolds(d)' <=> RxHolds(d)
    PROVE  RefsCounted'
<1> SUFFICES ASSUME NEW d \in Conn
             PROVE  refcount'[d] = Cardinality(ItemsOf(d)')
                                   + (IF RxHolds(d)' THEN 1 ELSE 0) + leaked'[d]
  BY DEF RefsCounted
<1>1. refcount[d] = Cardinality(ItemsOf(d)) + (IF RxHolds(d) THEN 1 ELSE 0) + leaked[d]
  BY DEF RefsCounted
<1>2. ItemsOf(d)' = ItemsOf(d) /\ (RxHolds(d)' <=> RxHolds(d))
  OBVIOUS
<1> QED
  BY <1>1, <1>2

\* A step of somebody who works on another connection.
Apart(d) ==
    /\ life'[d] = life[d] /\ reg'[d] = reg[d] /\ open'[d] = open[d]
    /\ opened'[d] = opened[d] /\ refcount'[d] = refcount[d]
    /\ d \in Outb => app'[d] = app[d]
    /\ d \in table' <=> d \in table
    /\ d \in keysInb' <=> d \in keysInb
    /\ d \in told' <=> d \in told
    /\ d \in crossed' <=> d \in crossed
    /\ rx'.conn = d <=> rx.conn = d
    /\ rx.conn = d => rx' = rx
    /\ d \in exp'.todo <=> d \in exp.todo
    /\ exp'.conn = d <=> exp.conn = d
    /\ exp.conn = d => exp'.pc = exp.pc
    /\ ItemsOf(d)' = ItemsOf(d)
    /\ \A s \in ItemsOf(d) : timer'[s] = timer[s]

\* It preserves what the invariant says of this one.
LEMMA Elsewhere ==
    ASSUME IndInv, ThreadInv', NEW d \in Conn, Apart(d)
    PROVE  ConnInv(d)'
<1>1. ConnInv(d) /\ ThreadInv
  BY DEF IndInv
<1>2. LifeOf(d)'
  BY <1>1 DEF Apart, ConnInv, LifeOf
<1>3. rx.conn = d => (Spent' <=> Spent)
  BY DEF Apart, Spent
<1>4. Active(d)' = Active(d)
  <2>1. rx.conn # d /\ Spent => rx.item \notin ItemsOf(d)
    BY <1>1, ItemFacts DEF ThreadInv, Spent, ExecPc
  <2>2. rx'.conn # d /\ Spent' => rx'.item \notin ItemsOf(d)'
    BY ItemFacts DEF ThreadInv, Spent, ExecPc
  <2> QED
    BY <1>3, <2>1, <2>2 DEF Apart, Active
<1>5. OpenOf(d)'
  BY <1>1, <1>3, <1>4 DEF Apart, ConnInv, OpenOf, Active
<1>6. d \in Outb => AppOf(d)'
  <2>1. rx.conn = d /\ rx.pc \in ExecPc => rx.item \in ItemsOf(d)
    BY <1>1, ItemFacts DEF ThreadInv
  <2> QED
    BY <1>1, <2>1 DEF Apart, ConnInv, AppOf, OwnAppOf, Unsent, ExecPc
<1>7. d \in Inb => ExpireOf(d)'
  BY <1>1 DEF Apart, ConnInv, ExpireOf, Expiring
<1> QED
  BY <1>2, <1>5, <1>6, <1>7 DEF ConnInv

-----------------------------------------------------------------------------
(* Every step preserves the inductive invariant.                *)

\* ecp_conn_open sets REG on a connection that nobody else holds.
LEMMA OpenRegisterInv ==
    ASSUME IndInv, NEW c \in Outb, OpenRegister(c)
    PROVE  IndInv'
<1>i. TypeOK /\ RefsCounted /\ ThreadInv
  BY DEF IndInv
<1>n. \A d \in Conn : PerConn(d)
  BY PerConnFacts
<1>k. c \in Conn
  BY ConnFacts
<1>t. timer' = timer /\ Items' = Items /\ Collected' = Collected
      /\ \A d : ItemsOf(d)' = ItemsOf(d)
  BY TimerStable DEF OpenRegister
<1>f. /\ app[c] \in {"new", "failed"}
      /\ UNCHANGED <<life, open, refcount, table, keysInb, rx, told, exp, opened, leaked, crossed>>
  BY <1>i, <1>k, <1>t DEF OpenRegister, TypeOK
<1>o. PerConn(c)
  BY <1>n, <1>k
<1>g. /\ reg' \in [Conn -> BOOLEAN]
      /\ \A d \in Conn : reg'[d] = IF d = c THEN TRUE ELSE reg[d]
      /\ app' \in [Outb -> AppPc]
      /\ \A d \in Outb : app'[d] = IF d = c THEN "insert" ELSE app[d]
  BY <1>i, <1>k, <1>f, <1>o, ConnFacts DEF PerConn, OpenRegister, TypeOK, AppPc,
     RxHolds, PacketPc, ExecPc
<1>p0. rx.conn # c
  BY <1>f, <1>o, ConnFacts DEF PerConn, ConnInv, AppOf, OwnAppOf, Unsent
<1>1. TypeOK'
  BY <1>i, <1>k, <1>t, ItemFacts, <1>f, <1>o, <1>g, <1>p0, ConnFacts DEF TypeOK, Conn
<1>2. RefsCounted'
  <2>1. \A d \in Conn : RxHolds(d)' <=> RxHolds(d)
    BY <1>i, <1>k, <1>f, ConnFacts DEF RxHolds, ThreadInv, PacketPc, ExecPc
  <2> QED
    BY <2>1, <1>i, <1>t, <1>f, RefsStay
<1>3. ThreadInv'
  <2>1. /\ rx.conn \in Conn => reg'[rx.conn] = reg[rx.conn]
        /\ rx.conn \in Outb => app'[rx.conn] = app[rx.conn]
    BY <1>g, <1>p0
  <2> QED
    BY <2>1, <1>i, <1>t, <1>f, <1>p0, ConnFacts DEF ThreadInv
<1>4. ASSUME NEW d \in Conn PROVE ConnInv(d)'
  <2>1. PerConn(d)
    BY <1>n
  <2>2. CASE d = c
    <3>g. /\ reg'[d] = TRUE
          /\ d \in Outb => app'[d] = "insert"
      BY <1>g, <2>1, <2>2
    <3>1. LifeOf(d)'
      BY <2>1, <2>2, <3>g, <1>i, <1>k, <1>t, ItemFacts, <1>f, <1>o, <1>p0, ConnFacts DEF
         PerConn, ConnInv, LifeOf, AppOf, OwnAppOf, Unsent, ExpireOf, Expiring, ThreadInv,
         RxHolds, PacketPc, ExecPc
    <3>2. OpenOf(d)'
      BY <2>1, <2>2, <3>g, <1>i, <1>k, <1>t, ItemFacts, <1>f, <1>o, <1>p0, ConnFacts DEF
         PerConn, ConnInv, OpenOf, Active, Spent, LifeOf, AppOf, OwnAppOf, Unsent, ThreadInv,
         RxHolds, PacketPc, ExecPc
    <3>3. d \in Outb => AppOf(d)'
      BY <2>1, <2>2, <3>g, <1>i, <1>k, <1>t, ItemFacts, <1>f, <1>o, <1>p0, ConnFacts DEF
         PerConn, ConnInv, AppOf, OwnAppOf, Unsent, LifeOf, OpenOf, Active, Spent, ThreadInv,
         RxHolds, PacketPc, ExecPc
    <3>4. d \in Inb => ExpireOf(d)'
      BY <2>1, <2>2, <3>g, <1>i, <1>k, <1>t, ItemFacts, <1>f, <1>o, <1>p0, ConnFacts DEF
         PerConn, ConnInv, ExpireOf, Expiring, LifeOf, AppOf, OwnAppOf, Unsent, ThreadInv,
         RxHolds, PacketPc, ExecPc
    <3> QED
      BY <3>1, <3>2, <3>3, <3>4 DEF ConnInv
  <2>3. CASE d # c
    <3>1. Apart(d)
      BY <2>3, <1>g, <1>t, <1>f, ConnFacts DEF Apart
    <3> QED
      BY <1>3, <3>1, Elsewhere
  <2> QED
    BY <2>2, <2>3
<1> QED
  BY <1>1, <1>2, <1>3, <1>4 DEF IndInv

\* conn_table_insert makes the connection visible to packets; REG is already set.
LEMMA OpenInsertInv ==
    ASSUME IndInv, NEW c \in Outb, NEW ok \in BOOLEAN, OpenInsert(c, ok)
    PROVE  IndInv'
<1>i. TypeOK /\ RefsCounted /\ ThreadInv
  BY DEF IndInv
<1>n. \A d \in Conn : PerConn(d)
  BY PerConnFacts
<1>k. c \in Conn
  BY ConnFacts
<1>t. timer' = timer /\ Items' = Items /\ Collected' = Collected
      /\ \A d : ItemsOf(d)' = ItemsOf(d)
  BY TimerStable DEF OpenInsert
<1>f. /\ app[c] = "insert"
      /\ UNCHANGED <<life, open, refcount, keysInb, rx, told, exp, opened, leaked, crossed>>
  BY <1>i, <1>k, <1>t DEF OpenInsert, TypeOK
<1>o. PerConn(c)
  BY <1>n, <1>k
<1>g. /\ reg' \in [Conn -> BOOLEAN]
      /\ \A d \in Conn : reg'[d] = IF d = c THEN ok ELSE reg[d]
      /\ app' \in [Outb -> AppPc]
      /\ \A d \in Outb : app'[d] = IF d = c THEN IF ok THEN "send" ELSE "failed" ELSE app[d]
  BY <1>i, <1>k, <1>f, <1>o, ConnFacts DEF PerConn, OpenInsert, TypeOK, AppPc, RxHolds,
     PacketPc, ExecPc
<1>h. table' = IF ok THEN table \cup {c} ELSE table
  BY <1>i, <1>k, <1>f, <1>o, ConnFacts DEF PerConn, ConnInv, LifeOf, OpenInsert, TypeOK,
     AppPc, RxHolds, PacketPc, ExecPc
<1>1. TypeOK'
  BY <1>i, <1>k, <1>t, ItemFacts, <1>f, <1>o, <1>g, <1>h, ConnFacts DEF TypeOK, Conn
<1>2. RefsCounted'
  <2>1. \A d \in Conn : RxHolds(d)' <=> RxHolds(d)
    BY <1>i, <1>k, <1>f, ConnFacts DEF RxHolds, ThreadInv, PacketPc, ExecPc
  <2> QED
    BY <2>1, <1>i, <1>t, <1>f, RefsStay
<1>3. ThreadInv'
  BY <1>i, <1>k, <1>t, ItemFacts, <1>f, <1>o, <1>g, <1>h, ConnFacts DEF ThreadInv,
     PerConn, ConnInv, AppOf, OwnAppOf, LifeOf, ExpireOf, Expiring, Unsent, RxHolds, PacketPc,
     ExecPc
<1>4. ASSUME NEW d \in Conn PROVE ConnInv(d)'
  <2>1. PerConn(d)
    BY <1>n
  <2>2. CASE d = c
    <3>g. /\ reg'[d] = ok
          /\ d \in Outb => app'[d] = IF ok THEN "send" ELSE "failed"
      BY <1>g, <2>1, <2>2
    <3>1. LifeOf(d)'
      BY <2>1, <2>2, <3>g, <1>i, <1>k, <1>t, ItemFacts, <1>f, <1>o, <1>h, ConnFacts DEF
         PerConn, ConnInv, LifeOf, AppOf, OwnAppOf, Unsent, ExpireOf, Expiring, ThreadInv,
         RxHolds, PacketPc, ExecPc
    <3>2. OpenOf(d)'
      BY <2>1, <2>2, <3>g, <1>i, <1>k, <1>t, ItemFacts, <1>f, <1>o, <1>h, ConnFacts DEF
         PerConn, ConnInv, OpenOf, Active, Spent, LifeOf, AppOf, OwnAppOf, Unsent, ThreadInv,
         RxHolds, PacketPc, ExecPc
    <3>3. d \in Outb => AppOf(d)'
      BY <2>1, <2>2, <3>g, <1>i, <1>k, <1>t, ItemFacts, <1>f, <1>o, <1>h, ConnFacts DEF
         PerConn, ConnInv, AppOf, OwnAppOf, Unsent, LifeOf, OpenOf, Active, Spent, ThreadInv,
         RxHolds, PacketPc, ExecPc
    <3>4. d \in Inb => ExpireOf(d)'
      BY <2>1, <2>2, <3>g, <1>i, <1>k, <1>t, ItemFacts, <1>f, <1>o, <1>h, ConnFacts DEF
         PerConn, ConnInv, ExpireOf, Expiring, LifeOf, AppOf, OwnAppOf, Unsent, ThreadInv,
         RxHolds, PacketPc, ExecPc
    <3> QED
      BY <3>1, <3>2, <3>3, <3>4 DEF ConnInv
  <2>3. CASE d # c
    <3>1. Apart(d)
      BY <2>3, <1>g, <1>t, <1>f, <1>h, ConnFacts DEF Apart
    <3> QED
      BY <1>3, <3>1, Elsewhere
  <2> QED
    BY <2>2, <2>3
<1> QED
  BY <1>1, <1>2, <1>3, <1>4 DEF IndInv

\* The first INIT_REQ brings the item of the handshake.
LEMMA OpenSendInv ==
    ASSUME IndInv, NEW c \in Outb, NEW ok \in BOOLEAN, OpenSend(c, ok)
    PROVE  IndInv'
<1>i. TypeOK /\ RefsCounted /\ ThreadInv
  BY DEF IndInv
<1>n. \A d \in Conn : PerConn(d)
  BY PerConnFacts
<1>k. c \in Conn
  BY ConnFacts
<1>c. c \in Conn /\ "OPEN_REP" \in TimerType /\ Tries - 1 \in 0 .. Tries - 1
  BY ConnFacts DEF TimerType
<1>t. /\ timer' \in [Slot -> Item \cup {NoItem}]
      /\ refcount' \in [Conn -> Nat]
      /\ leaked' \in [Conn -> Nat]
      /\ \A d \in Conn :
            /\ Cardinality(ItemsOf(d)') \in Nat
            /\ refcount'[d] - Cardinality(ItemsOf(d)') - leaked'[d]
               = refcount[d] - Cardinality(ItemsOf(d)) - leaked[d]
            /\ d # c => ItemsOf(d)' = ItemsOf(d) /\ refcount'[d] = refcount[d]
            /\ ItemsOf(d) \subseteq ItemsOf(d)'
            /\ ~reg[d] => ItemsOf(d)' = ItemsOf(d) /\ refcount'[d] = refcount[d]
      /\ \A s \in Items : s \in Items' /\ timer'[s] = timer[s]
      /\ \A s \in Items' \ Items :
            /\ s \in Slot /\ timer'[s].conn = c /\ timer'[s].mtype = "OPEN_REP"
            /\ ~timer'[s].exec /\ ~timer'[s].due
      /\ \A s, q \in Items' \ Items : s = q
      /\ Collected' = Collected
  BY <1>i, <1>c, PushFacts DEF OpenSend
<1>f. /\ app[c] = "send"
      /\ UNCHANGED <<life, reg, open, table, keysInb, rx, told, exp, opened, crossed>>
  BY <1>i, <1>k, <1>t DEF OpenSend, TypeOK
<1>o. PerConn(c)
  BY <1>n, <1>k
<1>g. app' \in [Outb -> AppPc]
      /\ \A d \in Outb : app'[d] = IF d = c THEN IF PushOK(c) /\ ok THEN "opening" ELSE "undo" ELSE app[d]
  BY <1>i, <1>k, <1>f, <1>o, ConnFacts DEF PerConn, OpenSend, TypeOK, AppPc, RxHolds,
     PacketPc, ExecPc
<1>1. TypeOK'
  BY <1>i, <1>k, <1>t, ItemFacts, <1>f, <1>o, <1>g, ConnFacts DEF TypeOK, Conn
<1>2. RefsCounted'
  <2> SUFFICES ASSUME NEW d \in Conn
               PROVE  refcount'[d] = Cardinality(ItemsOf(d)')
                                     + (IF RxHolds(d)' THEN 1 ELSE 0) + leaked'[d]
    BY DEF RefsCounted
  <2>1. /\ refcount[d] = Cardinality(ItemsOf(d)) + (IF RxHolds(d) THEN 1 ELSE 0) + leaked[d]
        /\ Cardinality(ItemsOf(d)) \in Nat /\ refcount[d] \in Nat /\ leaked[d] \in Nat
    BY <1>i, ItemsFinite DEF RefsCounted, TypeOK
  <2>2. RxHolds(d)' <=> RxHolds(d)
    BY <1>f DEF RxHolds, PacketPc, ExecPc
  <2>3. /\ leaked' \in [Conn -> Nat] /\ refcount' \in [Conn -> Nat]
        /\ Cardinality(ItemsOf(d)') \in Nat
        /\ refcount'[d] - Cardinality(ItemsOf(d)') - leaked'[d]
           = refcount[d] - Cardinality(ItemsOf(d)) - leaked[d]
    BY <1>i, <1>f, <1>t, <2>1 DEF TypeOK
  <2> QED
    BY <2>1, <2>2, <2>3
<1>3. ThreadInv'
  <2>1. CASE rx.conn = c
    BY <2>1, <1>i, <1>k, <1>t, ItemFacts, <1>f, <1>o, <1>g, ConnFacts DEF ThreadInv, PerConn, ConnInv, AppOf, OwnAppOf, ExpireOf, OpenOf, MayClose, Unsent, RxHolds,
       PacketPc, ExecPc
  <2>2. CASE rx.conn # c
    <3>1. /\ rx.conn \in Conn => refcount'[rx.conn] = refcount[rx.conn]
          /\ rx.conn \in Outb => app'[rx.conn] = app[rx.conn]
      BY <2>2, <1>t, <1>f, <1>g, ConnFacts
    <3>2. ASSUME rx.pc \in ExecPc
          PROVE  rx.item \in ItemsOf(rx.conn) /\ rx.item \in Collected
                 /\ timer'[rx.item] = timer[rx.item]
      <4>1. rx.conn \in Conn /\ rx.item \in Collected /\ timer[rx.item].conn = rx.conn
        BY <1>i, <3>2 DEF ThreadInv, ExecPc
      <4>2. rx.item \in ItemsOf(rx.conn)
        BY <4>1, ItemFacts
      <4>3. \A d : d = rx.conn => ItemsOf(d)' = ItemsOf(d)
        BY <4>1, <2>2, <1>t
      <4>4. rx.item \in Items'
        BY <4>2, <4>3, ItemFacts
      <4> QED
        BY <4>1, <4>2, <4>4, <1>t, ItemFacts
    <3> QED
      BY <2>2, <3>1, <3>2, <1>i, <1>t, <1>f, ConnFacts DEF ThreadInv, ExecPc
  <2> QED
    BY <2>1, <2>2
<1>4. ASSUME NEW d \in Conn PROVE ConnInv(d)'
  <2>1. PerConn(d)
    BY <1>n
  <2>2. CASE d = c
    <3>g. /\ d \in Outb => app'[d] = IF PushOK(c) /\ ok THEN "opening" ELSE "undo"
          /\ \A s \in ItemsOf(d) : s \in ItemsOf(d)' /\ timer'[s] = timer[s]
          /\ \A s \in ItemsOf(d)' \ ItemsOf(d) :
              ~timer'[s].exec /\ ~timer'[s].due /\ timer'[s].mtype = "OPEN_REP"
          /\ \A s, q \in ItemsOf(d)' \ ItemsOf(d) : s = q
          /\ ~reg[d] => ItemsOf(d)' = ItemsOf(d) /\ refcount'[d] = refcount[d]
      BY <1>g, <1>t, ItemFacts, <2>1, <2>2
    <3>1. LifeOf(d)'
      BY <2>1, <2>2, <3>g, <1>i, <1>k, <1>t, ItemFacts, <1>f, <1>o, ConnFacts DEF
         PerConn, ConnInv, LifeOf, AppOf, OwnAppOf, Unsent, ExpireOf, Expiring, ThreadInv,
         RxHolds, PacketPc, ExecPc
    <3>2. OpenOf(d)'
      BY <2>1, <2>2, <3>g, <1>i, <1>k, <1>t, ItemFacts, <1>f, <1>o, ConnFacts DEF
         PerConn, ConnInv, OpenOf, Active, Spent, LifeOf, AppOf, OwnAppOf, Unsent, ThreadInv,
         RxHolds, PacketPc, ExecPc
    <3>3. d \in Outb => AppOf(d)'
      BY <2>1, <2>2, <3>g, <1>i, <1>k, <1>t, ItemFacts, <1>f, <1>o, ConnFacts DEF
         PerConn, ConnInv, AppOf, OwnAppOf, Unsent, LifeOf, OpenOf, Active, Spent, ThreadInv,
         RxHolds, PacketPc, ExecPc
    <3>4. d \in Inb => ExpireOf(d)'
      BY <2>1, <2>2, <3>g, <1>i, <1>k, <1>t, ItemFacts, <1>f, <1>o, ConnFacts DEF
         PerConn, ConnInv, ExpireOf, Expiring, LifeOf, AppOf, OwnAppOf, Unsent, ThreadInv,
         RxHolds, PacketPc, ExecPc
    <3> QED
      BY <3>1, <3>2, <3>3, <3>4 DEF ConnInv
  <2>3. CASE d # c
    <3>1. Apart(d)
      BY <2>3, <1>g, <1>t, ItemFacts, <1>f, ConnFacts DEF Apart
    <3> QED
      BY <1>3, <3>1, Elsewhere
  <2> QED
    BY <2>2, <2>3
<1> QED
  BY <1>1, <1>2, <1>3, <1>4 DEF IndInv

\* A failed ecp_conn_open takes its item back.
LEMMA OpenUndoInv ==
    ASSUME IndInv, NEW c \in Outb, OpenUndo(c)
    PROVE  IndInv'
<1>i. TypeOK /\ RefsCounted /\ ThreadInv
  BY DEF IndInv
<1>n. \A d \in Conn : PerConn(d)
  BY PerConnFacts
<1>k. c \in Conn
  BY ConnFacts
<1>c. reg[c] \/ ItemsOf(c) = {} \/ ItemsOf(c) \cap Collected # {} \/ RxHolds(c)
  BY <1>n, <1>k DEF OpenUndo, PerConn, ConnInv, AppOf, OwnAppOf
<1>s. TimerRemove(c)
  BY DEF OpenUndo
<1>t. /\ timer' \in [Slot -> Item \cup {NoItem}]
      /\ refcount' \in [Conn -> Nat]
      /\ \A d \in Conn :
            /\ Cardinality(ItemsOf(d)') \in Nat
            /\ refcount'[d] - Cardinality(ItemsOf(d)') = refcount[d] - Cardinality(ItemsOf(d))
            /\ d # c => ItemsOf(d)' = ItemsOf(d) /\ refcount'[d] = refcount[d]
            /\ refcount'[d] <= refcount[d]
            /\ ItemsOf(d)' \subseteq ItemsOf(d)
            /\ d = c => ItemsOf(d)' = ItemsOf(d) \cap Collected
      /\ \A s \in Items' : s \in Items /\ timer'[s] = timer[s]
      /\ Collected' = Collected
      /\ UNCHANGED <<life, open, opened>>
  BY <1>i, <1>k, <1>c, <1>s, RemoveFacts
<1>f. /\ app[c] = "undo"
      /\ UNCHANGED <<reg, table, keysInb, rx, told, exp, leaked, crossed>>
  BY <1>i, <1>k, <1>t DEF OpenUndo, TypeOK
<1>o. PerConn(c)
  BY <1>n, <1>k
<1>g. app' \in [Outb -> AppPc]
      /\ \A d \in Outb : app'[d] = IF d = c THEN "undorm" ELSE app[d]
  BY <1>i, <1>k, <1>f, <1>o, ConnFacts DEF PerConn, OpenUndo, TypeOK, AppPc, RxHolds,
     PacketPc, ExecPc
<1>1. TypeOK'
  BY <1>i, <1>k, <1>t, ItemFacts, <1>f, <1>o, <1>g, ConnFacts DEF TypeOK, Conn
<1>2. RefsCounted'
  <2> SUFFICES ASSUME NEW d \in Conn
               PROVE  refcount'[d] = Cardinality(ItemsOf(d)')
                                     + (IF RxHolds(d)' THEN 1 ELSE 0) + leaked'[d]
    BY DEF RefsCounted
  <2>1. /\ refcount[d] = Cardinality(ItemsOf(d)) + (IF RxHolds(d) THEN 1 ELSE 0) + leaked[d]
        /\ Cardinality(ItemsOf(d)) \in Nat /\ refcount[d] \in Nat /\ leaked[d] \in Nat
    BY <1>i, ItemsFinite DEF RefsCounted, TypeOK
  <2>2. RxHolds(d)' <=> RxHolds(d)
    BY <1>f DEF RxHolds, PacketPc, ExecPc
  <2>3. /\ leaked' \in [Conn -> Nat] /\ refcount' \in [Conn -> Nat]
        /\ Cardinality(ItemsOf(d)') \in Nat
        /\ refcount'[d] - Cardinality(ItemsOf(d)') - leaked'[d]
           = refcount[d] - Cardinality(ItemsOf(d)) - leaked[d]
    BY <1>i, <1>f, <1>t, <2>1 DEF TypeOK
  <2> QED
    BY <2>1, <2>2, <2>3
<1>3. ThreadInv'
  <2>1. CASE rx.conn = c
    BY <2>1, <1>i, <1>k, <1>t, ItemFacts, <1>f, <1>o, <1>g, ConnFacts DEF ThreadInv, PerConn, ConnInv, AppOf, OwnAppOf, ExpireOf, OpenOf, MayClose, Unsent, RxHolds,
       PacketPc, ExecPc
  <2>2. CASE rx.conn # c
    <3>1. /\ rx.conn \in Conn => refcount'[rx.conn] = refcount[rx.conn]
          /\ rx.conn \in Outb => app'[rx.conn] = app[rx.conn]
      BY <2>2, <1>t, <1>f, <1>g, ConnFacts
    <3>2. ASSUME rx.pc \in ExecPc
          PROVE  rx.item \in ItemsOf(rx.conn) /\ rx.item \in Collected
                 /\ timer'[rx.item] = timer[rx.item]
      <4>1. rx.conn \in Conn /\ rx.item \in Collected /\ timer[rx.item].conn = rx.conn
        BY <1>i, <3>2 DEF ThreadInv, ExecPc
      <4>2. rx.item \in ItemsOf(rx.conn)
        BY <4>1, ItemFacts
      <4>3. \A d : d = rx.conn => ItemsOf(d)' = ItemsOf(d)
        BY <4>1, <2>2, <1>t
      <4>4. rx.item \in Items'
        BY <4>2, <4>3, ItemFacts
      <4> QED
        BY <4>1, <4>2, <4>4, <1>t, ItemFacts
    <3> QED
      BY <2>2, <3>1, <3>2, <1>i, <1>t, <1>f, ConnFacts DEF ThreadInv, ExecPc
  <2> QED
    BY <2>1, <2>2
<1>4. ASSUME NEW d \in Conn PROVE ConnInv(d)'
  <2>1. PerConn(d)
    BY <1>n
  <2>2. CASE d = c
    <3>g. /\ d \in Outb => app'[d] = "undorm"
          /\ \A s \in ItemsOf(d)' : s \in ItemsOf(d) /\ s \in Collected /\ timer'[s] = timer[s]
          /\ \A s \in ItemsOf(d)' : timer[s].exec
          /\ refcount'[d] <= refcount[d] /\ refcount'[d] \in Nat
      BY <1>g, <1>t, ItemFacts, <2>1, <2>2
    <3>1. LifeOf(d)'
      BY <2>1, <2>2, <3>g, <1>i, <1>k, <1>t, ItemFacts, <1>f, <1>o, ConnFacts DEF
         PerConn, ConnInv, LifeOf, AppOf, OwnAppOf, Unsent, ExpireOf, Expiring, ThreadInv,
         RxHolds, PacketPc, ExecPc
    <3>2. OpenOf(d)'
      BY <2>1, <2>2, <3>g, <1>i, <1>k, <1>t, ItemFacts, <1>f, <1>o, ConnFacts DEF
         PerConn, ConnInv, OpenOf, Active, Spent, LifeOf, AppOf, OwnAppOf, Unsent, ThreadInv,
         RxHolds, PacketPc, ExecPc
    <3>3. d \in Outb => AppOf(d)'
      BY <2>1, <2>2, <3>g, <1>i, <1>k, <1>t, ItemFacts, <1>f, <1>o, ConnFacts DEF
         PerConn, ConnInv, AppOf, OwnAppOf, Unsent, LifeOf, OpenOf, Active, Spent, ThreadInv,
         RxHolds, PacketPc, ExecPc
    <3>4. d \in Inb => ExpireOf(d)'
      BY <2>1, <2>2, <3>g, <1>i, <1>k, <1>t, ItemFacts, <1>f, <1>o, ConnFacts DEF
         PerConn, ConnInv, ExpireOf, Expiring, LifeOf, AppOf, OwnAppOf, Unsent, ThreadInv,
         RxHolds, PacketPc, ExecPc
    <3> QED
      BY <3>1, <3>2, <3>3, <3>4 DEF ConnInv
  <2>3. CASE d # c
    <3>1. Apart(d)
      BY <2>3, <1>g, <1>t, ItemFacts, <1>f, ConnFacts DEF Apart
    <3> QED
      BY <1>3, <3>1, Elsewhere
  <2> QED
    BY <2>2, <2>3
<1> QED
  BY <1>1, <1>2, <1>3, <1>4 DEF IndInv

\* A failed ecp_conn_open leaves the connection as it was before.
LEMMA OpenUndoRemoveInv ==
    ASSUME IndInv, NEW c \in Outb, OpenUndoRemove(c)
    PROVE  IndInv'
<1>i. TypeOK /\ RefsCounted /\ ThreadInv
  BY DEF IndInv
<1>n. \A d \in Conn : PerConn(d)
  BY PerConnFacts
<1>k. c \in Conn
  BY ConnFacts
<1>t. timer' = timer /\ Items' = Items /\ Collected' = Collected
      /\ \A d : ItemsOf(d)' = ItemsOf(d)
  BY TimerStable DEF OpenUndoRemove, ConnRemove
<1>f. /\ app[c] = "undorm"
      /\ UNCHANGED <<life, open, refcount, keysInb, rx, told, exp, opened, leaked, crossed>>
  BY <1>i, <1>k, <1>t DEF OpenUndoRemove, ConnRemove, TypeOK, LifeOf
<1>o. PerConn(c)
  BY <1>n, <1>k
<1>g. /\ reg' \in [Conn -> BOOLEAN]
      /\ \A d \in Conn : reg'[d] = IF d = c THEN FALSE ELSE reg[d]
      /\ app' \in [Outb -> AppPc]
      /\ \A d \in Outb : app'[d] = IF d = c THEN "failed" ELSE app[d]
  BY <1>i, <1>k, <1>f, <1>o, ConnFacts DEF PerConn, OpenUndoRemove, ConnRemove, TypeOK,
     AppPc, RxHolds, PacketPc, ExecPc, LifeOf
<1>h. table' = table \ {c}
  BY <1>i, <1>k, <1>f, <1>o, ConnFacts DEF PerConn, ConnInv, AppOf, LifeOf, OpenUndoRemove,
     ConnRemove, TypeOK, AppPc, RxHolds, PacketPc, ExecPc, LifeOf
<1>p0. rx.conn # c
  BY <1>f, <1>o, ConnFacts DEF PerConn, ConnInv, AppOf, OwnAppOf, Unsent
<1>1. TypeOK'
  BY <1>i, <1>k, <1>t, ItemFacts, <1>f, <1>o, <1>g, <1>h, <1>p0, ConnFacts DEF TypeOK,
     Conn
<1>2. RefsCounted'
  <2>1. \A d \in Conn : RxHolds(d)' <=> RxHolds(d)
    BY <1>i, <1>k, <1>f, ConnFacts DEF RxHolds, ThreadInv, PacketPc, ExecPc
  <2> QED
    BY <2>1, <1>i, <1>t, <1>f, RefsStay
<1>3. ThreadInv'
  <2>1. /\ rx.conn \in Conn => reg'[rx.conn] = reg[rx.conn]
        /\ rx.conn \in Outb => app'[rx.conn] = app[rx.conn]
    BY <1>g, <1>p0
  <2> QED
    BY <2>1, <1>i, <1>t, <1>f, <1>p0, <1>h, ConnFacts DEF ThreadInv
<1>4. ASSUME NEW d \in Conn PROVE ConnInv(d)'
  <2>1. PerConn(d)
    BY <1>n
  <2>2. CASE d = c
    <3>g. /\ reg'[d] = FALSE
          /\ d \in Outb => app'[d] = "failed"
      BY <1>g, <2>1, <2>2
    <3>1. LifeOf(d)'
      BY <2>1, <2>2, <3>g, <1>i, <1>k, <1>t, ItemFacts, <1>f, <1>o, <1>h, <1>p0,
         ConnFacts DEF PerConn, ConnInv, LifeOf, AppOf, OwnAppOf, Unsent, ExpireOf, Expiring,
         ThreadInv, RxHolds, PacketPc, ExecPc
    <3>2. OpenOf(d)'
      BY <2>1, <2>2, <3>g, <1>i, <1>k, <1>t, ItemFacts, <1>f, <1>o, <1>h, <1>p0,
         ConnFacts DEF PerConn, ConnInv, OpenOf, Active, Spent, LifeOf, AppOf, OwnAppOf, Unsent,
         ThreadInv, RxHolds, PacketPc, ExecPc
    <3>3. d \in Outb => AppOf(d)'
      BY <2>1, <2>2, <3>g, <1>i, <1>k, <1>t, ItemFacts, <1>f, <1>o, <1>h, <1>p0,
         ConnFacts DEF PerConn, ConnInv, AppOf, OwnAppOf, Unsent, LifeOf, OpenOf, Active, Spent,
         ThreadInv, RxHolds, PacketPc, ExecPc
    <3>4. d \in Inb => ExpireOf(d)'
      BY <2>1, <2>2, <3>g, <1>i, <1>k, <1>t, ItemFacts, <1>f, <1>o, <1>h, <1>p0,
         ConnFacts DEF PerConn, ConnInv, ExpireOf, Expiring, LifeOf, AppOf, OwnAppOf, Unsent,
         ThreadInv, RxHolds, PacketPc, ExecPc
    <3> QED
      BY <3>1, <3>2, <3>3, <3>4 DEF ConnInv
  <2>3. CASE d # c
    <3>1. Apart(d)
      BY <2>3, <1>g, <1>t, <1>f, <1>h, ConnFacts DEF Apart
    <3> QED
      BY <1>3, <3>1, Elsewhere
  <2> QED
    BY <2>2, <2>3
<1> QED
  BY <1>1, <1>2, <1>3, <1>4 DEF IndInv

\* A timed request on an open connection brings an item that waits for a reply.
LEMMA AppRequestInv ==
    ASSUME IndInv, NEW c \in Outb, AppRequest(c)
    PROVE  IndInv'
<1>i. TypeOK /\ RefsCounted /\ ThreadInv
  BY DEF IndInv
<1>n. \A d \in Conn : PerConn(d)
  BY PerConnFacts
<1>k. c \in Conn
  BY ConnFacts
<1>c. c \in Conn /\ "REPLY" \in TimerType /\ Tries - 1 \in 0 .. Tries - 1
  BY ConnFacts DEF TimerType
<1>t. /\ timer' \in [Slot -> Item \cup {NoItem}]
      /\ refcount' \in [Conn -> Nat]
      /\ leaked' \in [Conn -> Nat]
      /\ \A d \in Conn :
            /\ Cardinality(ItemsOf(d)') \in Nat
            /\ refcount'[d] - Cardinality(ItemsOf(d)') - leaked'[d]
               = refcount[d] - Cardinality(ItemsOf(d)) - leaked[d]
            /\ d # c => ItemsOf(d)' = ItemsOf(d) /\ refcount'[d] = refcount[d]
            /\ ItemsOf(d) \subseteq ItemsOf(d)'
            /\ ~reg[d] => ItemsOf(d)' = ItemsOf(d) /\ refcount'[d] = refcount[d]
      /\ \A s \in Items : s \in Items' /\ timer'[s] = timer[s]
      /\ \A s \in Items' \ Items :
            /\ s \in Slot /\ timer'[s].conn = c /\ timer'[s].mtype = "REPLY"
            /\ ~timer'[s].exec /\ ~timer'[s].due
      /\ \A s, q \in Items' \ Items : s = q
      /\ Collected' = Collected
  BY <1>i, <1>c, PushFacts DEF AppRequest
<1>f. /\ app[c] = "opening" /\ open[c]
      /\ UNCHANGED <<life, reg, open, table, keysInb, rx, app, told, exp, opened, crossed>>
  BY <1>i, <1>k, <1>t DEF AppRequest, TypeOK
<1>o. PerConn(c)
  BY <1>n, <1>k
<1>1. TypeOK'
  BY <1>i, <1>k, <1>t, ItemFacts, <1>f, <1>o, ConnFacts DEF TypeOK, Conn
<1>2. RefsCounted'
  <2> SUFFICES ASSUME NEW d \in Conn
               PROVE  refcount'[d] = Cardinality(ItemsOf(d)')
                                     + (IF RxHolds(d)' THEN 1 ELSE 0) + leaked'[d]
    BY DEF RefsCounted
  <2>1. /\ refcount[d] = Cardinality(ItemsOf(d)) + (IF RxHolds(d) THEN 1 ELSE 0) + leaked[d]
        /\ Cardinality(ItemsOf(d)) \in Nat /\ refcount[d] \in Nat /\ leaked[d] \in Nat
    BY <1>i, ItemsFinite DEF RefsCounted, TypeOK
  <2>2. RxHolds(d)' <=> RxHolds(d)
    BY <1>f DEF RxHolds, PacketPc, ExecPc
  <2>3. /\ leaked' \in [Conn -> Nat] /\ refcount' \in [Conn -> Nat]
        /\ Cardinality(ItemsOf(d)') \in Nat
        /\ refcount'[d] - Cardinality(ItemsOf(d)') - leaked'[d]
           = refcount[d] - Cardinality(ItemsOf(d)) - leaked[d]
    BY <1>i, <1>f, <1>t, <2>1 DEF TypeOK
  <2> QED
    BY <2>1, <2>2, <2>3
<1>3. ThreadInv'
  <2>1. CASE rx.conn = c
    BY <2>1, <1>i, <1>k, <1>t, ItemFacts, <1>f, <1>o, ConnFacts DEF ThreadInv, PerConn, ConnInv, AppOf, OwnAppOf, ExpireOf, OpenOf, MayClose, Unsent, RxHolds,
       PacketPc, ExecPc
  <2>2. CASE rx.conn # c
    <3>1. /\ rx.conn \in Conn => refcount'[rx.conn] = refcount[rx.conn]
          /\ rx.conn \in Outb => app'[rx.conn] = app[rx.conn]
      BY <2>2, <1>t, <1>f, ConnFacts
    <3>2. ASSUME rx.pc \in ExecPc
          PROVE  rx.item \in ItemsOf(rx.conn) /\ rx.item \in Collected
                 /\ timer'[rx.item] = timer[rx.item]
      <4>1. rx.conn \in Conn /\ rx.item \in Collected /\ timer[rx.item].conn = rx.conn
        BY <1>i, <3>2 DEF ThreadInv, ExecPc
      <4>2. rx.item \in ItemsOf(rx.conn)
        BY <4>1, ItemFacts
      <4>3. \A d : d = rx.conn => ItemsOf(d)' = ItemsOf(d)
        BY <4>1, <2>2, <1>t
      <4>4. rx.item \in Items'
        BY <4>2, <4>3, ItemFacts
      <4> QED
        BY <4>1, <4>2, <4>4, <1>t, ItemFacts
    <3> QED
      BY <2>2, <3>1, <3>2, <1>i, <1>t, <1>f, ConnFacts DEF ThreadInv, ExecPc
  <2> QED
    BY <2>1, <2>2
<1>4. ASSUME NEW d \in Conn PROVE ConnInv(d)'
  <2>1. PerConn(d)
    BY <1>n
  <2>2. CASE d = c
    <3>g. /\ \A s \in ItemsOf(d) : s \in ItemsOf(d)' /\ timer'[s] = timer[s]
          /\ \A s \in ItemsOf(d)' \ ItemsOf(d) :
              ~timer'[s].exec /\ ~timer'[s].due /\ timer'[s].mtype = "REPLY"
          /\ \A s, q \in ItemsOf(d)' \ ItemsOf(d) : s = q
          /\ ~reg[d] => ItemsOf(d)' = ItemsOf(d) /\ refcount'[d] = refcount[d]
      BY <1>t, ItemFacts, <2>1, <2>2
    <3>1. LifeOf(d)'
      BY <2>1, <2>2, <3>g, <1>i, <1>k, <1>t, ItemFacts, <1>f, <1>o, ConnFacts DEF
         PerConn, ConnInv, LifeOf, AppOf, OwnAppOf, Unsent, ExpireOf, Expiring, ThreadInv,
         RxHolds, PacketPc, ExecPc
    <3>2. OpenOf(d)'
      BY <2>1, <2>2, <3>g, <1>i, <1>k, <1>t, ItemFacts, <1>f, <1>o, ConnFacts DEF
         PerConn, ConnInv, OpenOf, Active, Spent, LifeOf, AppOf, OwnAppOf, Unsent, ThreadInv,
         RxHolds, PacketPc, ExecPc
    <3>3. d \in Outb => AppOf(d)'
      BY <2>1, <2>2, <3>g, <1>i, <1>k, <1>t, ItemFacts, <1>f, <1>o, ConnFacts DEF
         PerConn, ConnInv, AppOf, OwnAppOf, Unsent, LifeOf, OpenOf, Active, Spent, ThreadInv,
         RxHolds, PacketPc, ExecPc
    <3>4. d \in Inb => ExpireOf(d)'
      BY <2>1, <2>2, <3>g, <1>i, <1>k, <1>t, ItemFacts, <1>f, <1>o, ConnFacts DEF
         PerConn, ConnInv, ExpireOf, Expiring, LifeOf, AppOf, OwnAppOf, Unsent, ThreadInv,
         RxHolds, PacketPc, ExecPc
    <3> QED
      BY <3>1, <3>2, <3>3, <3>4 DEF ConnInv
  <2>3. CASE d # c
    <3>1. Apart(d)
      BY <2>3, <1>t, ItemFacts, <1>f, ConnFacts DEF Apart
    <3> QED
      BY <1>3, <3>1, Elsewhere
  <2> QED
    BY <2>2, <2>3
<1> QED
  BY <1>1, <1>2, <1>3, <1>4 DEF IndInv

\* ecp_conn_close takes the waiting items; the table still holds the connection.
LEMMA AppCloseInv ==
    ASSUME IndInv, NEW c \in Outb, AppClose(c)
    PROVE  IndInv'
<1>i. TypeOK /\ RefsCounted /\ ThreadInv
  BY DEF IndInv
<1>n. \A d \in Conn : PerConn(d)
  BY PerConnFacts
<1>k. c \in Conn
  BY ConnFacts
<1>c. reg[c] \/ ItemsOf(c) = {} \/ ItemsOf(c) \cap Collected # {} \/ RxHolds(c)
  <2>1. PerConn(c) /\ app[c] \in {"failed", "opening"}
    BY <1>n, <1>k DEF AppClose, MayClose
  <2>2. CASE app[c] = "failed"
    BY <2>1, <2>2, <1>k DEF PerConn, ConnInv, AppOf, OwnAppOf
  <2>3. CASE app[c] = "opening" /\ ~reg[c]
    <3>1. rx.conn = c /\ rx.pc \in {"reinit", "err"}
      BY <2>1, <2>3 DEF PerConn, ConnInv, AppOf, OwnAppOf
    <3>2. rx.item \in ItemsOf(c) \cap Collected
      BY <1>i, <3>1 DEF ThreadInv, ExecPc, ItemsOf, Collected
    <3> QED
      BY <3>2
  <2> QED
    BY <2>1, <2>2, <2>3
<1>s. TimerRemove(c)
  BY DEF AppClose
<1>t. /\ timer' \in [Slot -> Item \cup {NoItem}]
      /\ refcount' \in [Conn -> Nat]
      /\ \A d \in Conn :
            /\ Cardinality(ItemsOf(d)') \in Nat
            /\ refcount'[d] - Cardinality(ItemsOf(d)') = refcount[d] - Cardinality(ItemsOf(d))
            /\ d # c => ItemsOf(d)' = ItemsOf(d) /\ refcount'[d] = refcount[d]
            /\ refcount'[d] <= refcount[d]
            /\ ItemsOf(d)' \subseteq ItemsOf(d)
            /\ d = c => ItemsOf(d)' = ItemsOf(d) \cap Collected
      /\ \A s \in Items' : s \in Items /\ timer'[s] = timer[s]
      /\ Collected' = Collected
      /\ UNCHANGED <<life, open, opened>>
  BY <1>i, <1>k, <1>c, <1>s, RemoveFacts
<1>f. /\ MayClose(c)
      /\ UNCHANGED <<reg, table, keysInb, rx, told, exp, leaked>>
  BY <1>i, <1>k, <1>t DEF AppClose, TypeOK
<1>o. PerConn(c)
  BY <1>n, <1>k
<1>x. /\ crossed' \in SUBSET Outb
      /\ \A d : d # c => (d \in crossed' <=> d \in crossed)
      /\ c \notin crossed
      /\ c \notin crossed' => ~Retrying(c)
  BY <1>i, <1>f, <1>o DEF AppClose, MayClose, PerConn, ConnInv, AppOf, TypeOK
<1>y. ASSUME c \notin crossed', NEW s \in Active(c), s \in Collected
      PROVE  timer[s].cnt = 0
  <2>1. /\ s \in ItemsOf(c) \cap Collected /\ timer[s].mtype = "OPEN_REP"
        /\ ~(Spent /\ s = rx.item)
    BY <1>y DEF Active
  <2>2. ~(timer[s].cnt > 0)
    BY <1>x, <1>y, <2>1 DEF Retrying, Spent
  <2>3. timer[s] \in Item
    BY <1>i, <2>1 DEF TypeOK, ItemsOf, Items
  <2> QED
    BY <2>2, <2>3, ConnFacts DEF Item
<1>z. c \notin crossed' /\ app[c] = "opening" => reg[c]
  <2> SUFFICES ASSUME c \notin crossed', app[c] = "opening", ~reg[c] PROVE FALSE
    BY <1>o DEF PerConn
  <2>1. /\ rx.conn = c
        /\ \/ rx.pc = "reinit"
           \/ /\ rx.pc = "err" /\ rx.err = "FAILED"
              /\ timer[rx.item].mtype = "OPEN_REP"
    BY <1>k, <1>o, <1>x DEF PerConn, ConnInv, AppOf, OwnAppOf
  <2>2. /\ rx.item \in Collected /\ timer[rx.item].conn = c
        /\ timer[rx.item].mtype = "OPEN_REP" /\ timer[rx.item].cnt > 0
    BY <2>1, <1>i DEF ThreadInv, ExecPc
  <2>3. rx.item \in ItemsOf(c) \cap Collected /\ rx.pc # "xdec"
    BY <2>1, <2>2, ItemFacts
  <2> QED
    BY <2>2, <2>3, <1>x DEF Retrying
<1>g. app' \in [Outb -> AppPc]
      /\ \A d \in Outb : app'[d] = IF d = c THEN "remove" ELSE app[d]
  BY <1>i, <1>k, <1>f, <1>o, <1>x, <1>z, ConnFacts DEF PerConn, AppClose, TypeOK, AppPc, RxHolds,
     PacketPc, ExecPc
<1>1. TypeOK'
  BY <1>i, <1>k, <1>t, ItemFacts, <1>f, <1>o, <1>g, <1>x, <1>z, ConnFacts DEF TypeOK, Conn
<1>2. RefsCounted'
  <2> SUFFICES ASSUME NEW d \in Conn
               PROVE  refcount'[d] = Cardinality(ItemsOf(d)')
                                     + (IF RxHolds(d)' THEN 1 ELSE 0) + leaked'[d]
    BY DEF RefsCounted
  <2>1. /\ refcount[d] = Cardinality(ItemsOf(d)) + (IF RxHolds(d) THEN 1 ELSE 0) + leaked[d]
        /\ Cardinality(ItemsOf(d)) \in Nat /\ refcount[d] \in Nat /\ leaked[d] \in Nat
    BY <1>i, ItemsFinite DEF RefsCounted, TypeOK
  <2>2. RxHolds(d)' <=> RxHolds(d)
    BY <1>f DEF RxHolds, PacketPc, ExecPc
  <2>3. /\ leaked' \in [Conn -> Nat] /\ refcount' \in [Conn -> Nat]
        /\ Cardinality(ItemsOf(d)') \in Nat
        /\ refcount'[d] - Cardinality(ItemsOf(d)') - leaked'[d]
           = refcount[d] - Cardinality(ItemsOf(d)) - leaked[d]
    BY <1>i, <1>f, <1>t, <2>1 DEF TypeOK
  <2> QED
    BY <2>1, <2>2, <2>3
<1>3. ThreadInv'
  <2>1. CASE rx.conn = c
    BY <2>1, <1>i, <1>k, <1>t, ItemFacts, <1>f, <1>o, <1>g, <1>x, <1>z, ConnFacts DEF ThreadInv, PerConn, ConnInv, AppOf, OwnAppOf, ExpireOf, OpenOf, MayClose, Unsent, RxHolds,
       PacketPc, ExecPc
  <2>2. CASE rx.conn # c
    <3>1. /\ rx.conn \in Conn => refcount'[rx.conn] = refcount[rx.conn]
          /\ rx.conn \in Outb => app'[rx.conn] = app[rx.conn]
      BY <2>2, <1>t, <1>f, <1>g, ConnFacts
    <3>2. ASSUME rx.pc \in ExecPc
          PROVE  rx.item \in ItemsOf(rx.conn) /\ rx.item \in Collected
                 /\ timer'[rx.item] = timer[rx.item]
      <4>1. rx.conn \in Conn /\ rx.item \in Collected /\ timer[rx.item].conn = rx.conn
        BY <1>i, <3>2 DEF ThreadInv, ExecPc
      <4>2. rx.item \in ItemsOf(rx.conn)
        BY <4>1, ItemFacts
      <4>3. \A d : d = rx.conn => ItemsOf(d)' = ItemsOf(d)
        BY <4>1, <2>2, <1>t
      <4>4. rx.item \in Items'
        BY <4>2, <4>3, ItemFacts
      <4> QED
        BY <4>1, <4>2, <4>4, <1>t, ItemFacts
    <3> QED
      BY <2>2, <3>1, <3>2, <1>i, <1>t, <1>f, <1>x, <1>z, ConnFacts DEF ThreadInv, ExecPc
  <2> QED
    BY <2>1, <2>2
<1>4. ASSUME NEW d \in Conn PROVE ConnInv(d)'
  <2>1. PerConn(d)
    BY <1>n
  <2>2. CASE d = c
    <3>g. /\ d \in Outb => app'[d] = "remove"
          /\ \A s \in ItemsOf(d)' : s \in ItemsOf(d) /\ s \in Collected /\ timer'[s] = timer[s]
          /\ \A s \in ItemsOf(d)' : timer[s].exec
          /\ refcount'[d] <= refcount[d] /\ refcount'[d] \in Nat
      BY <1>g, <1>t, ItemFacts, <2>1, <2>2
    <3>1. LifeOf(d)'
      BY <2>1, <2>2, <3>g, <1>i, <1>k, <1>t, ItemFacts, <1>f, <1>o, <1>x, <1>z, ConnFacts DEF
         PerConn, ConnInv, LifeOf, AppOf, OwnAppOf, Unsent, ExpireOf, Expiring, MayClose,
         ThreadInv, RxHolds, PacketPc, ExecPc
    <3>y. d \notin crossed' => \A s \in Active(d) : s \in Collected => timer[s].cnt = 0
      BY <1>y, <2>2
    <3>2. OpenOf(d)'
      BY <3>y, <2>1, <2>2, <3>g, <1>i, <1>k, <1>t, ItemFacts, <1>f, <1>o, <1>x, <1>z, ConnFacts DEF
         PerConn, ConnInv, OpenOf, Active, Spent, LifeOf, AppOf, OwnAppOf, Unsent, MayClose,
         ThreadInv, RxHolds, PacketPc, ExecPc
    <3>3. d \in Outb => AppOf(d)'
      BY <2>1, <2>2, <3>g, <1>i, <1>k, <1>t, ItemFacts, <1>f, <1>o, <1>x, <1>z, ConnFacts DEF
         PerConn, ConnInv, AppOf, OwnAppOf, Unsent, LifeOf, OpenOf, Active, Spent, MayClose,
         ThreadInv, RxHolds, PacketPc, ExecPc
    <3>4. d \in Inb => ExpireOf(d)'
      BY <2>1, <2>2, <3>g, <1>i, <1>k, <1>t, ItemFacts, <1>f, <1>o, <1>x, <1>z, ConnFacts DEF
         PerConn, ConnInv, ExpireOf, Expiring, LifeOf, AppOf, OwnAppOf, Unsent, MayClose,
         ThreadInv, RxHolds, PacketPc, ExecPc
    <3> QED
      BY <3>1, <3>2, <3>3, <3>4 DEF ConnInv
  <2>3. CASE d # c
    <3>1. Apart(d)
      BY <2>3, <1>g, <1>t, ItemFacts, <1>f, <1>x, <1>z, ConnFacts DEF Apart
    <3> QED
      BY <1>3, <3>1, Elsewhere
  <2> QED
    BY <2>2, <2>3
<1> QED
  BY <1>1, <1>2, <1>3, <1>4 DEF IndInv

\* _ecp_conn_close out of the table: the application destroys it only when nobody holds
\* a reference.
LEMMA AppRemoveInv ==
    ASSUME IndInv, NEW c \in Outb, AppRemove(c)
    PROVE  IndInv'
<1>i. TypeOK /\ RefsCounted /\ ThreadInv
  BY DEF IndInv
<1>n. \A d \in Conn : PerConn(d)
  BY PerConnFacts
<1>k. c \in Conn
  BY ConnFacts
<1>t. timer' = timer /\ Items' = Items /\ Collected' = Collected
      /\ \A d : ItemsOf(d)' = ItemsOf(d)
  BY TimerStable DEF AppRemove, ConnRemove
<1>f. /\ app[c] = "remove"
      /\ UNCHANGED <<life, open, refcount, keysInb, rx, told, exp, opened, leaked, crossed>>
  BY <1>i, <1>k, <1>t DEF AppRemove, ConnRemove, TypeOK, LifeOf
<1>o. PerConn(c)
  BY <1>n, <1>k
<1>g. /\ reg' \in [Conn -> BOOLEAN]
      /\ \A d \in Conn : reg'[d] = IF d = c THEN FALSE ELSE reg[d]
      /\ app' \in [Outb -> AppPc]
      /\ \A d \in Outb : app'[d] = IF d = c THEN IF refcount[c] = 0 THEN "destroy" ELSE "closed" ELSE app[d]
  BY <1>i, <1>k, <1>f, <1>o, ConnFacts DEF PerConn, AppRemove, ConnRemove, TypeOK,
     AppPc, RxHolds, PacketPc, ExecPc, LifeOf
<1>h. /\ table' \subseteq table /\ table \ {c} \subseteq table'
      /\ c \notin crossed => table' = table \ {c}
  BY <1>i, <1>k, <1>f, <1>o, ConnFacts DEF PerConn, ConnInv, LifeOf, AppRemove,
     ConnRemove, TypeOK, AppPc, RxHolds, PacketPc, ExecPc, LifeOf
<1>p0. /\ rx.pc \in {"reset", "reinit", "reinsert"} =>
              /\ rx.item \in Active(rx.conn)
              /\ rx.conn \in Outb
              /\ rx.conn \in crossed \/ app[rx.conn] \in {"opening", "gone"}
              /\ ~open[rx.conn] /\ rx.conn \notin told
  BY ResetFacts
<1>1. TypeOK'
  BY <1>i, <1>k, <1>t, ItemFacts, <1>f, <1>o, <1>g, <1>h, <1>p0, ConnFacts DEF TypeOK,
     Conn
<1>2. RefsCounted'
  <2>1. \A d \in Conn : RxHolds(d)' <=> RxHolds(d)
    BY <1>i, <1>k, <1>f, ConnFacts DEF RxHolds, ThreadInv, PacketPc, ExecPc
  <2> QED
    BY <2>1, <1>i, <1>t, <1>f, RefsStay
<1>3. ThreadInv'
  <2>1. CASE rx.conn = c
    <3>1. /\ reg'[rx.conn] = FALSE /\ rx.conn \in Outb
          /\ app[rx.conn] = "remove" /\ app'[rx.conn] \in {"destroy", "closed"}
      BY <2>1, <1>g, <1>f, <1>k
    <3>2. rx.conn \notin crossed => rx.pc \notin {"reset", "reinit", "reinsert", "destroy", "xdestroy"}
      BY <3>1, <1>p0, <1>i DEF ThreadInv
    <3> QED
      BY <3>1, <3>2, <1>i, <1>t, <1>f, ConnFacts DEF ThreadInv
  <2>2. CASE rx.conn # c
    <3>1. /\ rx.conn \in Conn => reg'[rx.conn] = reg[rx.conn]
          /\ rx.conn \in Outb => app'[rx.conn] = app[rx.conn]
      BY <2>2, <1>g
    <3> QED
      BY <2>2, <3>1, <1>i, <1>t, <1>f, <1>h, ConnFacts DEF ThreadInv
  <2> QED
    BY <2>1, <2>2
<1>4. ASSUME NEW d \in Conn PROVE ConnInv(d)'
  <2>1. PerConn(d)
    BY <1>n
  <2>2. CASE d = c
    <3>g. /\ reg'[d] = FALSE
          /\ d \in Outb => app'[d] = IF refcount[c] = 0 THEN "destroy" ELSE "closed"
      BY <1>g, <2>1, <2>2
    <3>1. LifeOf(d)'
      BY <2>1, <2>2, <3>g, <1>i, <1>k, <1>t, ItemFacts, <1>f, <1>o, <1>h, <1>p0,
         ConnFacts DEF PerConn, ConnInv, LifeOf, AppOf, OwnAppOf, Unsent, ExpireOf, Expiring,
         ThreadInv, RxHolds, PacketPc, ExecPc
    <3>2. OpenOf(d)'
      BY <2>1, <2>2, <3>g, <1>i, <1>k, <1>t, ItemFacts, <1>f, <1>o, <1>h, <1>p0,
         ConnFacts DEF PerConn, ConnInv, OpenOf, Active, Spent, LifeOf, AppOf, OwnAppOf, Unsent,
         ThreadInv, RxHolds, PacketPc, ExecPc
    <3>3. d \in Outb => AppOf(d)'
      BY <2>1, <2>2, <3>g, <1>i, <1>k, <1>t, ItemFacts, <1>f, <1>o, <1>h, <1>p0,
         ConnFacts DEF PerConn, ConnInv, AppOf, OwnAppOf, Unsent, LifeOf, OpenOf, Active, Spent,
         ThreadInv, RxHolds, PacketPc, ExecPc
    <3>4. d \in Inb => ExpireOf(d)'
      BY <2>1, <2>2, <3>g, <1>i, <1>k, <1>t, ItemFacts, <1>f, <1>o, <1>h, <1>p0,
         ConnFacts DEF PerConn, ConnInv, ExpireOf, Expiring, LifeOf, AppOf, OwnAppOf, Unsent,
         ThreadInv, RxHolds, PacketPc, ExecPc
    <3> QED
      BY <3>1, <3>2, <3>3, <3>4 DEF ConnInv
  <2>3. CASE d # c
    <3>1. Apart(d)
      BY <2>3, <1>g, <1>t, <1>f, <1>h, ConnFacts DEF Apart
    <3> QED
      BY <1>3, <3>1, Elsewhere
  <2> QED
    BY <2>2, <2>3
<1> QED
  BY <1>1, <1>2, <1>3, <1>4 DEF IndInv

\* conn_close by the application: no thread is left that could reach the connection.
LEMMA AppDestroyInv ==
    ASSUME IndInv, NEW c \in Outb, AppDestroy(c)
    PROVE  IndInv'
<1>i. TypeOK /\ RefsCounted /\ ThreadInv
  BY DEF IndInv
<1>n. \A d \in Conn : PerConn(d)
  BY PerConnFacts
<1>k. c \in Conn
  BY ConnFacts
<1>t. timer' = timer /\ Items' = Items /\ Collected' = Collected
      /\ \A d : ItemsOf(d)' = ItemsOf(d)
  BY TimerStable DEF AppDestroy, ConnClose
<1>f. /\ app[c] = "destroy"
      /\ UNCHANGED <<reg, refcount, table, keysInb, rx, told, exp, leaked, crossed>>
  BY <1>i, <1>k, <1>t DEF AppDestroy, ConnClose, TypeOK
<1>o. PerConn(c)
  BY <1>n, <1>k
<1>g. /\ life' \in [Conn -> {"free", "live", "dead"}]
      /\ \A d \in Conn : life'[d] = IF d = c THEN IF c \in Inb THEN "free" ELSE "dead" ELSE life[d]
      /\ open' \in [Conn -> BOOLEAN]
      /\ \A d \in Conn : open'[d] = IF d = c THEN FALSE ELSE open[d]
      /\ opened' \in [Conn -> BOOLEAN]
      /\ \A d \in Conn : opened'[d] = IF d = c THEN (opened[c] /\ ~open[c]) ELSE opened[d]
      /\ app' \in [Outb -> AppPc]
      /\ \A d \in Outb : app'[d] = IF d = c THEN "closed" ELSE app[d]
  BY <1>i, <1>k, <1>f, <1>o, ConnFacts DEF PerConn, AppDestroy, ConnClose, TypeOK,
     AppPc, RxHolds, PacketPc, ExecPc
<1>p0. c \notin crossed => rx.conn # c
  BY <1>i, <1>k, <1>f, <1>o, LastFacts DEF PerConn, ConnInv, AppOf, OwnAppOf, ThreadInv
<1>1. TypeOK'
  BY <1>i, <1>k, <1>t, ItemFacts, <1>f, <1>o, <1>g, <1>p0, ConnFacts DEF TypeOK, Conn
<1>2. RefsCounted'
  <2>1. \A d \in Conn : RxHolds(d)' <=> RxHolds(d)
    BY <1>i, <1>k, <1>f, ConnFacts DEF RxHolds, ThreadInv, PacketPc, ExecPc
  <2> QED
    BY <2>1, <1>i, <1>t, <1>f, RefsStay
<1>3. ThreadInv'
  BY <1>i, <1>k, <1>t, ItemFacts, <1>f, <1>o, <1>g, <1>p0, ConnFacts DEF ThreadInv,
     PerConn, ConnInv, AppOf, OwnAppOf, LifeOf, ExpireOf, Expiring, Unsent, RxHolds, PacketPc,
     ExecPc
<1>4. ASSUME NEW d \in Conn PROVE ConnInv(d)'
  <2>1. PerConn(d)
    BY <1>n
  <2>2. CASE d = c
    <3>g. /\ life'[d] = IF c \in Inb THEN "free" ELSE "dead"
          /\ open'[d] = FALSE
          /\ opened'[d] = (opened[c] /\ ~open[c])
          /\ d \in Outb => app'[d] = "closed"
      BY <1>g, <2>1, <2>2
    <3>1. LifeOf(d)'
      BY <2>1, <2>2, <3>g, <1>i, <1>k, <1>t, ItemFacts, <1>f, <1>o, <1>p0, ConnFacts DEF
         PerConn, ConnInv, LifeOf, AppOf, OwnAppOf, Unsent, ExpireOf, Expiring, ThreadInv,
         RxHolds, PacketPc, ExecPc
    <3>2. OpenOf(d)'
      BY <2>1, <2>2, <3>g, <1>i, <1>k, <1>t, ItemFacts, <1>f, <1>o, <1>p0, ConnFacts DEF
         PerConn, ConnInv, OpenOf, Active, Spent, LifeOf, AppOf, OwnAppOf, Unsent, ThreadInv,
         RxHolds, PacketPc, ExecPc
    <3>3. d \in Outb => AppOf(d)'
      BY <2>1, <2>2, <3>g, <1>i, <1>k, <1>t, ItemFacts, <1>f, <1>o, <1>p0, ConnFacts DEF
         PerConn, ConnInv, AppOf, OwnAppOf, Unsent, LifeOf, OpenOf, Active, Spent, ThreadInv,
         RxHolds, PacketPc, ExecPc
    <3>4. d \in Inb => ExpireOf(d)'
      BY <2>1, <2>2, <3>g, <1>i, <1>k, <1>t, ItemFacts, <1>f, <1>o, <1>p0, ConnFacts DEF
         PerConn, ConnInv, ExpireOf, Expiring, LifeOf, AppOf, OwnAppOf, Unsent, ThreadInv,
         RxHolds, PacketPc, ExecPc
    <3> QED
      BY <3>1, <3>2, <3>3, <3>4 DEF ConnInv
  <2>3. CASE d # c
    <3>1. Apart(d)
      BY <2>3, <1>g, <1>t, <1>f, ConnFacts DEF Apart
    <3> QED
      BY <1>3, <3>1, Elsewhere
  <2> QED
    BY <2>2, <2>3
<1> QED
  BY <1>1, <1>2, <1>3, <1>4 DEF IndInv

\* ecp_unpack takes a reference to a connection it finds, under the mutex of the table.
LEMMA RxLookupInv ==
    ASSUME IndInv, NEW c \in Conn, NEW m \in PacketType, RxLookup(c, m)
    PROVE  IndInv'
<1>i. TypeOK /\ RefsCounted /\ ThreadInv
  BY DEF IndInv
<1>n. \A d \in Conn : PerConn(d)
  BY PerConnFacts
<1>k. c \in Conn
  BY ConnFacts
<1>t. timer' = timer /\ Items' = Items /\ Collected' = Collected
      /\ \A d : ItemsOf(d)' = ItemsOf(d)
  BY TimerStable DEF RxLookup
<1>f. /\ rx.pc = "idle" /\ c \in table /\ ~Unsent(c)
      /\ m = "OPEN_REP" => c \in Outb
      /\ m = "OPEN_REQ" => c \in Inb
      /\ m \in {"REPLY", "MSG"} => open[c]
      /\ UNCHANGED <<life, reg, open, table, keysInb, app, told, exp, opened, leaked, crossed>>
  BY <1>i, <1>k, <1>t DEF RxLookup, TypeOK
<1>o. PerConn(c)
  BY <1>n, <1>k
<1>g. refcount' \in [Conn -> Nat]
      /\ \A d \in Conn : refcount'[d] = IF d = c THEN refcount[c] + 1 ELSE refcount[d]
  BY <1>i, <1>k, <1>f, <1>o, ConnFacts DEF PerConn, RxLookup, TypeOK, AppPc, RxHolds,
     PacketPc, ExecPc
<1>r. /\ rx' \in Receiver /\ rx'.pc = (IF m = "DROP" THEN "dec" ELSE "got") /\ rx'.conn = c
      /\ rx'.mtype = m /\ rx'.item = rx.item /\ rx'.err = rx.err
  <2>1. rx \in Receiver
    BY <1>i DEF TypeOK
  <2>2. rx' = [rx EXCEPT !.pc = IF m = "DROP" THEN "dec" ELSE "got", !.conn = c, !.mtype = m]
    BY DEF RxLookup
  <2>3. (IF m = "DROP" THEN "dec" ELSE "got") \in RxPc
    BY DEF RxPc, PacketPc
  <2> QED
    BY <1>k, <2>1, <2>2, <2>3 DEF Receiver
<1>1. TypeOK'
  BY <1>i, <1>k, <1>t, ItemFacts, <1>f, <1>o, <1>g, <1>r, ConnFacts DEF TypeOK, Conn
<1>2. RefsCounted'
  <2> SUFFICES ASSUME NEW d \in Conn
               PROVE  refcount'[d] = Cardinality(ItemsOf(d)')
                                     + (IF RxHolds(d)' THEN 1 ELSE 0) + leaked'[d]
    BY DEF RefsCounted
  <2>1. /\ refcount[d] = Cardinality(ItemsOf(d)) + (IF RxHolds(d) THEN 1 ELSE 0) + leaked[d]
        /\ Cardinality(ItemsOf(d)) \in Nat /\ refcount[d] \in Nat /\ leaked[d] \in Nat
    BY <1>i, ItemsFinite DEF RefsCounted, TypeOK
  <2> QED
    BY <2>1, <1>i, <1>k, <1>t, ItemFacts, <1>f, <1>o, <1>g, <1>r, ConnFacts DEF RxHolds,
       ThreadInv, PerConn, ConnInv, LifeOf, PacketPc, ExecPc
<1>3. ThreadInv'
  BY <1>i, <1>k, <1>t, ItemFacts, <1>f, <1>o, <1>g, <1>r, ConnFacts DEF ThreadInv,
     PerConn, ConnInv, AppOf, OwnAppOf, LifeOf, ExpireOf, Expiring, Unsent, RxHolds, PacketPc,
     ExecPc
<1>4. ASSUME NEW d \in Conn PROVE ConnInv(d)'
  <2>1. PerConn(d)
    BY <1>n
  <2>2. CASE d = c
    <3>g. refcount'[d] = refcount[c] + 1
      BY <1>g, <2>1, <2>2
    <3>1. LifeOf(d)'
      BY <2>1, <2>2, <3>g, <1>i, <1>k, <1>t, ItemFacts, <1>f, <1>o, <1>r, ConnFacts DEF
         PerConn, ConnInv, LifeOf, AppOf, OwnAppOf, Unsent, ExpireOf, Expiring, ThreadInv,
         RxHolds, PacketPc, ExecPc
    <3>2. OpenOf(d)'
      BY <2>1, <2>2, <3>g, <1>i, <1>k, <1>t, ItemFacts, <1>f, <1>o, <1>r, ConnFacts DEF
         PerConn, ConnInv, OpenOf, Active, Spent, LifeOf, AppOf, OwnAppOf, Unsent, ThreadInv,
         RxHolds, PacketPc, ExecPc
    <3>3. d \in Outb => AppOf(d)'
      BY <2>1, <2>2, <3>g, <1>i, <1>k, <1>t, ItemFacts, <1>f, <1>o, <1>r, ConnFacts DEF
         PerConn, ConnInv, AppOf, OwnAppOf, Unsent, LifeOf, OpenOf, Active, Spent, ThreadInv,
         RxHolds, PacketPc, ExecPc
    <3>4. d \in Inb => ExpireOf(d)'
      BY <2>1, <2>2, <3>g, <1>i, <1>k, <1>t, ItemFacts, <1>f, <1>o, <1>r, ConnFacts DEF
         PerConn, ConnInv, ExpireOf, Expiring, LifeOf, AppOf, OwnAppOf, Unsent, ThreadInv,
         RxHolds, PacketPc, ExecPc
    <3> QED
      BY <3>1, <3>2, <3>3, <3>4 DEF ConnInv
  <2>3. CASE d # c
    <3>0. rx.conn = NoConn
      BY <1>i, <1>f DEF ThreadInv
    <3>1. Apart(d)
      BY <2>3, <3>0, <1>g, <1>t, <1>f, <1>r, ConnFacts DEF Apart
    <3> QED
      BY <1>3, <3>1, Elsewhere
  <2> QED
    BY <2>2, <2>3
<1> QED
  BY <1>1, <1>2, <1>3, <1>4 DEF IndInv

\* A new inbound connection starts with the reference of the receiver.
LEMMA RxAcceptInv ==
    ASSUME IndInv, NEW c \in Inb, RxAccept(c)
    PROVE  IndInv'
<1>i. TypeOK /\ RefsCounted /\ ThreadInv
  BY DEF IndInv
<1>n. \A d \in Conn : PerConn(d)
  BY PerConnFacts
<1>k. c \in Conn
  BY ConnFacts
<1>t. timer' = timer /\ Items' = Items /\ Collected' = Collected
      /\ \A d : ItemsOf(d)' = ItemsOf(d)
  BY TimerStable DEF RxAccept
<1>f. /\ rx.pc = "idle" /\ life[c] = "free"
      /\ UNCHANGED <<open, keysInb, app, told, exp, opened, leaked, crossed>>
  BY <1>i, <1>k, <1>t DEF RxAccept, TypeOK
<1>o. PerConn(c)
  BY <1>n, <1>k
<1>g. /\ life' \in [Conn -> {"free", "live", "dead"}]
      /\ \A d \in Conn : life'[d] = IF d = c THEN "live" ELSE life[d]
      /\ refcount' \in [Conn -> Nat]
      /\ \A d \in Conn : refcount'[d] = IF d = c THEN 1 ELSE refcount[d]
      /\ reg' \in [Conn -> BOOLEAN]
      /\ \A d \in Conn : reg'[d] = IF d = c THEN TRUE ELSE reg[d]
  BY <1>i, <1>k, <1>f, <1>o, ConnFacts DEF PerConn, RxAccept, TypeOK, AppPc, RxHolds,
     PacketPc, ExecPc
<1>h. table' = table \cup {c}
  BY <1>i, <1>k, <1>f, <1>o, ConnFacts DEF PerConn, ConnInv, LifeOf, RxAccept, TypeOK,
     AppPc, RxHolds, PacketPc, ExecPc
<1>r. /\ rx' \in Receiver /\ rx'.pc = "got" /\ rx'.conn = c
      /\ rx'.mtype = "OPEN_REQ" /\ rx'.item = rx.item /\ rx'.err = rx.err
  BY <1>i, <1>k, <1>f, RxFacts, ConnFacts DEF RxAccept, TypeOK, RxPc, PacketType,
     PacketPc, ExecPc, Receiver
<1>1. TypeOK'
  BY <1>i, <1>k, <1>t, ItemFacts, <1>f, <1>o, <1>g, <1>h, <1>r, ConnFacts DEF TypeOK,
     Conn
<1>2. RefsCounted'
  <2> SUFFICES ASSUME NEW d \in Conn
               PROVE  refcount'[d] = Cardinality(ItemsOf(d)')
                                     + (IF RxHolds(d)' THEN 1 ELSE 0) + leaked'[d]
    BY DEF RefsCounted
  <2>1. /\ refcount[d] = Cardinality(ItemsOf(d)) + (IF RxHolds(d) THEN 1 ELSE 0) + leaked[d]
        /\ Cardinality(ItemsOf(d)) \in Nat /\ refcount[d] \in Nat /\ leaked[d] \in Nat
    BY <1>i, ItemsFinite DEF RefsCounted, TypeOK
  <2> QED
    BY <2>1, <1>i, <1>k, <1>t, ItemFacts, <1>f, <1>o, <1>g, <1>h, <1>r, ConnFacts DEF
       RxHolds, ThreadInv, PerConn, ConnInv, LifeOf, PacketPc, ExecPc
<1>3. ThreadInv'
  BY <1>i, <1>k, <1>t, ItemFacts, <1>f, <1>o, <1>g, <1>h, <1>r, ConnFacts DEF ThreadInv,
     PerConn, ConnInv, AppOf, OwnAppOf, LifeOf, ExpireOf, Expiring, Unsent, RxHolds, PacketPc,
     ExecPc
<1>4. ASSUME NEW d \in Conn PROVE ConnInv(d)'
  <2>1. PerConn(d)
    BY <1>n
  <2>2. CASE d = c
    <3>g. /\ life'[d] = "live"
          /\ refcount'[d] = 1
          /\ reg'[d] = TRUE
      BY <1>g, <2>1, <2>2
    <3>1. LifeOf(d)'
      BY <2>1, <2>2, <3>g, <1>i, <1>k, <1>t, ItemFacts, <1>f, <1>o, <1>h, <1>r,
         ConnFacts DEF PerConn, ConnInv, LifeOf, AppOf, OwnAppOf, Unsent, ExpireOf, Expiring,
         ThreadInv, RxHolds, PacketPc, ExecPc
    <3>2. OpenOf(d)'
      BY <2>1, <2>2, <3>g, <1>i, <1>k, <1>t, ItemFacts, <1>f, <1>o, <1>h, <1>r,
         ConnFacts DEF PerConn, ConnInv, OpenOf, Active, Spent, LifeOf, AppOf, OwnAppOf, Unsent,
         ThreadInv, RxHolds, PacketPc, ExecPc
    <3>3. d \in Outb => AppOf(d)'
      BY <2>1, <2>2, <3>g, <1>i, <1>k, <1>t, ItemFacts, <1>f, <1>o, <1>h, <1>r,
         ConnFacts DEF PerConn, ConnInv, AppOf, OwnAppOf, Unsent, LifeOf, OpenOf, Active, Spent,
         ThreadInv, RxHolds, PacketPc, ExecPc
    <3>4. d \in Inb => ExpireOf(d)'
      BY <2>1, <2>2, <3>g, <1>i, <1>k, <1>t, ItemFacts, <1>f, <1>o, <1>h, <1>r,
         ConnFacts DEF PerConn, ConnInv, ExpireOf, Expiring, LifeOf, AppOf, OwnAppOf, Unsent,
         ThreadInv, RxHolds, PacketPc, ExecPc
    <3> QED
      BY <3>1, <3>2, <3>3, <3>4 DEF ConnInv
  <2>3. CASE d # c
    <3>0. rx.conn = NoConn
      BY <1>i, <1>f DEF ThreadInv
    <3>1. Apart(d)
      BY <2>3, <3>0, <1>g, <1>t, <1>f, <1>h, <1>r, ConnFacts DEF Apart
    <3> QED
      BY <1>3, <3>1, Elsewhere
  <2> QED
    BY <2>2, <2>3
<1> QED
  BY <1>1, <1>2, <1>3, <1>4 DEF IndInv

\* Nothing was received: only the timer runs.
LEMMA RxNothingInv ==
    ASSUME IndInv, RxNothing
    PROVE  IndInv'
<1>i. TypeOK /\ RefsCounted /\ ThreadInv
  BY DEF IndInv
<1>n. \A d \in Conn : PerConn(d)
  BY PerConnFacts
<1>t. timer' = timer /\ Items' = Items /\ Collected' = Collected
      /\ \A d : ItemsOf(d)' = ItemsOf(d)
  BY TimerStable DEF RxNothing
<1>f. /\ rx.pc = "idle"
      /\ UNCHANGED <<life, reg, open, refcount, table, keysInb, app, told, exp, opened, leaked, crossed>>
  BY <1>i, <1>t DEF RxNothing, TypeOK
<1>r. /\ rx' \in Receiver /\ rx'.pc = "exe" /\ rx'.conn = NoConn
      /\ rx'.mtype = "DROP" /\ rx'.item = 1 /\ rx'.err = "TIMEOUT"
  BY <1>i, <1>f, RxFacts, ConnFacts DEF RxNothing, TypeOK, RxPc, PacketType, PacketPc,
     ExecPc
<1>1. TypeOK'
  BY <1>i, <1>t, ItemFacts, <1>f, <1>r, ConnFacts DEF TypeOK, Conn
<1>2. RefsCounted'
  <2>1. \A d \in Conn : RxHolds(d)' <=> RxHolds(d)
    BY <1>i, <1>f, <1>r, ConnFacts DEF RxHolds, ThreadInv, PacketPc, ExecPc
  <2> QED
    BY <2>1, <1>i, <1>t, <1>f, RefsStay
<1>3. ThreadInv'
  BY <1>i, <1>t, ItemFacts, <1>f, <1>r, ConnFacts DEF ThreadInv, PerConn, ConnInv,
     AppOf, OwnAppOf, LifeOf, ExpireOf, Expiring, Unsent, RxHolds, PacketPc, ExecPc
<1>4. ASSUME NEW d \in Conn PROVE ConnInv(d)'
  <2>1. PerConn(d)
    BY <1>n
  <2>2. LifeOf(d)'
    BY <2>1, <1>i, <1>t, ItemFacts, <1>f, <1>r, ConnFacts DEF PerConn, ConnInv, LifeOf,
       AppOf, OwnAppOf, Unsent, ExpireOf, Expiring, ThreadInv, RxHolds, PacketPc, ExecPc
  <2>3. OpenOf(d)'
    BY <2>1, <1>i, <1>t, ItemFacts, <1>f, <1>r, ConnFacts DEF PerConn, ConnInv, OpenOf,
       Active, Spent, LifeOf, AppOf, OwnAppOf, Unsent, ThreadInv, RxHolds, PacketPc, ExecPc
  <2>4. d \in Outb => AppOf(d)'
    BY <2>1, <1>i, <1>t, ItemFacts, <1>f, <1>r, ConnFacts DEF PerConn, ConnInv, AppOf, OwnAppOf,
       Unsent, LifeOf, OpenOf, Active, Spent, ThreadInv, RxHolds, PacketPc, ExecPc
  <2>5. d \in Inb => ExpireOf(d)'
    BY <2>1, <1>i, <1>t, ItemFacts, <1>f, <1>r, ConnFacts DEF PerConn, ConnInv,
       ExpireOf, Expiring, LifeOf, AppOf, OwnAppOf, Unsent, ThreadInv, RxHolds, PacketPc, ExecPc
  <2> QED
    BY <2>2, <2>3, <2>4, <2>5 DEF ConnInv
<1> QED
  BY <1>1, <1>2, <1>3, <1>4 DEF IndInv

\* ecp_timer_pop takes the item that was answered; the reference of the packet stays.
LEMMA RxPopInv ==
    ASSUME IndInv, RxPop
    PROVE  IndInv'
<1>i. TypeOK /\ RefsCounted /\ ThreadInv
  BY DEF IndInv
<1>n. \A d \in Conn : PerConn(d)
  BY PerConnFacts
<1>k. rx.conn \in Conn
  BY <1>i, ConnFacts DEF RxPop, ThreadInv, TypeOK, PacketPc, ExecPc
<1>e. Collected = {}
  BY <1>i DEF RxPop, ThreadInv, PacketPc
<1>t. /\ timer' \in [Slot -> Item \cup {NoItem}]
      /\ refcount' \in [Conn -> Nat]
      /\ \A d \in Conn :
            /\ Cardinality(ItemsOf(d)') \in Nat
            /\ refcount'[d] - Cardinality(ItemsOf(d)') = refcount[d] - Cardinality(ItemsOf(d))
            /\ d # rx.conn => ItemsOf(d)' = ItemsOf(d) /\ refcount'[d] = refcount[d]
            /\ ItemsOf(d)' \subseteq ItemsOf(d)
      /\ \A s \in Items' : s \in Items /\ timer'[s] = timer[s]
      /\ Collected' = {}
  <2>1. CASE UNCHANGED <<timer, refcount>>
    BY <2>1, <1>i, <1>e, TimerStable, ItemsFinite DEF TypeOK
  <2>2. CASE ~UNCHANGED <<timer, refcount>>
    <3>0. PICK c \in Conn : c = rx.conn
      BY <1>k
    <3>1. PICK s \in Awaiting(c, rx.mtype) :
             timer' = [timer EXCEPT ![s] = NoItem] /\ DropRef(c)
      BY <2>2, <3>0 DEF RxPop
    <3>2. s \in ItemsOf(c)
      BY <3>1, ItemsFinite DEF Awaiting
    <3>3. /\ timer' \in [Slot -> Item \cup {NoItem}]
          /\ refcount' \in [Conn -> Nat]
          /\ \A d \in Conn :
                /\ Cardinality(ItemsOf(d)') \in Nat
                /\ refcount'[d] - Cardinality(ItemsOf(d)')
                   = refcount[d] - Cardinality(ItemsOf(d))
                /\ d # c => ItemsOf(d)' = ItemsOf(d) /\ refcount'[d] = refcount[d]
                /\ ItemsOf(d)' \subseteq ItemsOf(d)
          /\ Items' = Items \ {s}
          /\ \A q \in Items' : timer'[q] = timer[q]
      BY <3>1, <3>2, <1>i, DropFacts
    <3>4. Collected' = {}
      BY <3>3, <1>e DEF Collected
    <3> QED
      BY <3>0, <3>3, <3>4
  <2> QED
    BY <2>1, <2>2
<1>w. rx.mtype = "OPEN_REP" =>
        \A s \in Items' : timer'[s].conn = rx.conn => timer'[s].mtype # "OPEN_REP"
  <2> SUFFICES ASSUME rx.mtype = "OPEN_REP", NEW s \in Items', timer'[s].conn = rx.conn,
                      timer'[s].mtype = "OPEN_REP"
               PROVE  FALSE
    OBVIOUS
  <2>1. s \in Items /\ timer'[s] = timer[s]
    BY <1>t
  <2>2. s \in Active(rx.conn) /\ s \in Awaiting(rx.conn, rx.mtype)
    BY <2>1, <1>e DEF Active, Awaiting, QueuedOf, Queued, Collected, ItemsOf, Spent, RxPop
  <2>3. PICK q \in Awaiting(rx.conn, rx.mtype) : timer' = [timer EXCEPT ![q] = NoItem]
    BY <2>2 DEF RxPop
  <2>4. q \in Active(rx.conn)
    BY <2>3 DEF Active, Awaiting, QueuedOf, Queued, ItemsOf, Spent, RxPop
  <2>5. q = s
    BY <2>2, <2>4, <1>n, <1>k DEF PerConn, ConnInv, OpenOf
  <2>6. q \in Slot
    BY <2>4 DEF Active, ItemsOf, Items
  <2>7. timer'[s] = NoItem
    BY <2>3, <2>5, <2>6, <1>i DEF TypeOK
  <2> QED
    BY <2>7 DEF Items
<1>f. /\ rx.pc = "got"
      /\ UNCHANGED <<life, reg, open, table, keysInb, app, told, exp, opened, leaked, crossed>>
  BY <1>i, <1>k, <1>t DEF RxPop, TypeOK
<1>o. PerConn(rx.conn)
  BY <1>n, <1>k
<1>r. /\ rx' \in Receiver /\ rx'.pc = "handle" /\ rx'.conn = rx.conn
      /\ rx'.mtype = rx.mtype /\ rx'.item = rx.item /\ rx'.err = rx.err
  BY <1>i, <1>k, <1>f, RxFacts, ConnFacts DEF RxPop, TypeOK, RxPc, PacketType, PacketPc,
     ExecPc
<1>p0. RxHolds(rx.conn)
  BY <1>f DEF RxHolds, PacketPc
<1>p1. rx.mtype = "OPEN_REP" =>
        \A s \in Items' : timer'[s].conn = rx.conn => timer'[s].mtype # "OPEN_REP"
  BY <1>w
<1>1. TypeOK'
  BY <1>i, <1>k, <1>t, ItemFacts, <1>f, <1>o, <1>r, <1>p0, <1>p1, ConnFacts DEF TypeOK,
     Conn
<1>2. RefsCounted'
  <2> SUFFICES ASSUME NEW d \in Conn
               PROVE  refcount'[d] = Cardinality(ItemsOf(d)')
                                     + (IF RxHolds(d)' THEN 1 ELSE 0) + leaked'[d]
    BY DEF RefsCounted
  <2>1. /\ refcount[d] = Cardinality(ItemsOf(d)) + (IF RxHolds(d) THEN 1 ELSE 0) + leaked[d]
        /\ Cardinality(ItemsOf(d)) \in Nat /\ refcount[d] \in Nat /\ leaked[d] \in Nat
    BY <1>i, ItemsFinite DEF RefsCounted, TypeOK
  <2>2. RxHolds(d)' <=> RxHolds(d)
    BY <1>f, <1>r DEF RxHolds, PacketPc, ExecPc
  <2>3. /\ leaked' \in [Conn -> Nat] /\ refcount' \in [Conn -> Nat]
        /\ Cardinality(ItemsOf(d)') \in Nat
        /\ refcount'[d] - Cardinality(ItemsOf(d)') - leaked'[d]
           = refcount[d] - Cardinality(ItemsOf(d)) - leaked[d]
    BY <1>i, <1>f, <1>t, <2>1 DEF TypeOK
  <2> QED
    BY <2>1, <2>2, <2>3
<1>3. ThreadInv'
  BY <1>i, <1>k, <1>t, ItemFacts, <1>f, <1>o, <1>r, <1>p0, <1>p1, ConnFacts DEF
     ThreadInv, PerConn, ConnInv, AppOf, OwnAppOf, LifeOf, ExpireOf, Expiring, Unsent, RxHolds,
     PacketPc, ExecPc
<1>4. ASSUME NEW d \in Conn PROVE ConnInv(d)'
  <2>1. PerConn(d)
    BY <1>n
  <2>2. CASE d = rx.conn
    <3>g. /\ \A s \in ItemsOf(d)' : s \in ItemsOf(d) /\ timer'[s] = timer[s]
          /\ refcount'[d] \in Nat
      BY <1>t, ItemFacts, <2>1, <2>2
    <3>1. LifeOf(d)'
      BY <2>1, <2>2, <3>g, <1>i, <1>k, <1>t, ItemFacts, <1>f, <1>o, <1>r, <1>p0, <1>p1,
         ConnFacts DEF PerConn, ConnInv, LifeOf, AppOf, OwnAppOf, Unsent, ExpireOf, Expiring,
         ThreadInv, RxHolds, PacketPc, ExecPc
    <3>2. OpenOf(d)'
      BY <2>1, <2>2, <3>g, <1>i, <1>k, <1>t, ItemFacts, <1>f, <1>o, <1>r, <1>p0, <1>p1,
         ConnFacts DEF PerConn, ConnInv, OpenOf, Active, Spent, LifeOf, AppOf, OwnAppOf, Unsent,
         ThreadInv, RxHolds, PacketPc, ExecPc
    <3>3. d \in Outb => AppOf(d)'
      BY <2>1, <2>2, <3>g, <1>i, <1>k, <1>t, ItemFacts, <1>f, <1>o, <1>r, <1>p0, <1>p1,
         ConnFacts DEF PerConn, ConnInv, AppOf, OwnAppOf, Unsent, LifeOf, OpenOf, Active, Spent,
         ThreadInv, RxHolds, PacketPc, ExecPc
    <3>4. d \in Inb => ExpireOf(d)'
      BY <2>1, <2>2, <3>g, <1>i, <1>k, <1>t, ItemFacts, <1>f, <1>o, <1>r, <1>p0, <1>p1,
         ConnFacts DEF PerConn, ConnInv, ExpireOf, Expiring, LifeOf, AppOf, OwnAppOf, Unsent,
         ThreadInv, RxHolds, PacketPc, ExecPc
    <3> QED
      BY <3>1, <3>2, <3>3, <3>4 DEF ConnInv
  <2>3. CASE d # rx.conn
    <3>1. Apart(d)
      BY <2>3, <1>t, ItemFacts, <1>f, <1>r, ConnFacts DEF Apart
    <3> QED
      BY <1>3, <3>1, Elsewhere
  <2> QED
    BY <2>2, <2>3
<1> QED
  BY <1>1, <1>2, <1>3, <1>4 DEF IndInv

\* ecp_handle_open sets OPEN: the item of the handshake was popped just before.
LEMMA RxOpenInv ==
    ASSUME IndInv, RxOpen
    PROVE  IndInv'
<1>i. TypeOK /\ RefsCounted /\ ThreadInv
  BY DEF IndInv
<1>n. \A d \in Conn : PerConn(d)
  BY PerConnFacts
<1>k. rx.conn \in Conn
  BY <1>i, ConnFacts DEF RxOpen, ThreadInv, TypeOK, PacketPc, ExecPc
<1>t. timer' = timer /\ Items' = Items /\ Collected' = Collected
      /\ \A d : ItemsOf(d)' = ItemsOf(d)
  BY TimerStable DEF RxOpen
<1>f. /\ rx.pc = "handle" /\ rx.mtype \in {"OPEN_REP", "OPEN_REQ"}
      /\ UNCHANGED <<life, reg, refcount, table, keysInb, app, told, exp, opened, leaked, crossed>>
  BY <1>i, <1>k, <1>t DEF RxOpen, TypeOK
<1>o. PerConn(rx.conn)
  BY <1>n, <1>k
<1>g. open' \in [Conn -> BOOLEAN]
      /\ \A d \in Conn : open'[d] = IF d = rx.conn THEN TRUE ELSE open[d]
  BY <1>i, <1>k, <1>f, <1>o, ConnFacts DEF PerConn, RxOpen, TypeOK, AppPc, RxHolds,
     PacketPc, ExecPc
<1>r. /\ rx' \in Receiver /\ rx'.pc = (IF open[rx.conn] THEN "dec" ELSE "handler") /\ rx'.conn = rx.conn
      /\ rx'.mtype = rx.mtype /\ rx'.item = rx.item /\ rx'.err = rx.err
  BY <1>i, <1>k, <1>f, RxFacts, ConnFacts DEF RxOpen, TypeOK, RxPc, PacketType,
     PacketPc, ExecPc
<1>1. TypeOK'
  BY <1>i, <1>k, <1>t, ItemFacts, <1>f, <1>o, <1>g, <1>r, ConnFacts DEF TypeOK, Conn
<1>2. RefsCounted'
  <2>1. \A d \in Conn : RxHolds(d)' <=> RxHolds(d)
    BY <1>i, <1>k, <1>f, <1>r, ConnFacts DEF RxHolds, ThreadInv, PacketPc, ExecPc
  <2> QED
    BY <2>1, <1>i, <1>t, <1>f, RefsStay
<1>3. ThreadInv'
  BY <1>i, <1>k, <1>t, ItemFacts, <1>f, <1>o, <1>g, <1>r, ConnFacts DEF ThreadInv,
     PerConn, ConnInv, AppOf, OwnAppOf, LifeOf, ExpireOf, Expiring, Unsent, RxHolds, PacketPc,
     ExecPc
<1>4. ASSUME NEW d \in Conn PROVE ConnInv(d)'
  <2>1. PerConn(d)
    BY <1>n
  <2>2. CASE d = rx.conn
    <3>g. open'[d] = TRUE
      BY <1>g, <2>1, <2>2
    <3>1. LifeOf(d)'
      BY <2>1, <2>2, <3>g, <1>i, <1>k, <1>t, ItemFacts, <1>f, <1>o, <1>r, ConnFacts DEF
         PerConn, ConnInv, LifeOf, AppOf, OwnAppOf, Unsent, ExpireOf, Expiring, ThreadInv,
         RxHolds, PacketPc, ExecPc
    <3>2. OpenOf(d)'
      BY <2>1, <2>2, <3>g, <1>i, <1>k, <1>t, ItemFacts, <1>f, <1>o, <1>r, ConnFacts DEF
         PerConn, ConnInv, OpenOf, Active, Spent, LifeOf, AppOf, OwnAppOf, Unsent, ThreadInv,
         RxHolds, PacketPc, ExecPc
    <3>3. d \in Outb => AppOf(d)'
      BY <2>1, <2>2, <3>g, <1>i, <1>k, <1>t, ItemFacts, <1>f, <1>o, <1>r, ConnFacts DEF
         PerConn, ConnInv, AppOf, OwnAppOf, Unsent, LifeOf, OpenOf, Active, Spent, ThreadInv,
         RxHolds, PacketPc, ExecPc
    <3>4. d \in Inb => ExpireOf(d)'
      BY <2>1, <2>2, <3>g, <1>i, <1>k, <1>t, ItemFacts, <1>f, <1>o, <1>r, ConnFacts DEF
         PerConn, ConnInv, ExpireOf, Expiring, LifeOf, AppOf, OwnAppOf, Unsent, ThreadInv,
         RxHolds, PacketPc, ExecPc
    <3> QED
      BY <3>1, <3>2, <3>3, <3>4 DEF ConnInv
  <2>3. CASE d # rx.conn
    <3>1. Apart(d)
      BY <2>3, <1>g, <1>t, <1>f, <1>r, ConnFacts DEF Apart
    <3> QED
      BY <1>3, <3>1, Elsewhere
  <2> QED
    BY <2>2, <2>3
<1> QED
  BY <1>1, <1>2, <1>3, <1>4 DEF IndInv

\* The open handler accepts or refuses.
LEMMA RxOpenHandlerInv ==
    ASSUME IndInv, NEW ok \in BOOLEAN, RxOpenHandler(ok)
    PROVE  IndInv'
<1>i. TypeOK /\ RefsCounted /\ ThreadInv
  BY DEF IndInv
<1>n. \A d \in Conn : PerConn(d)
  BY PerConnFacts
<1>k. rx.conn \in Conn
  BY <1>i, ConnFacts DEF RxOpenHandler, ThreadInv, TypeOK, PacketPc, ExecPc
<1>t. timer' = timer /\ Items' = Items /\ Collected' = Collected
      /\ \A d : ItemsOf(d)' = ItemsOf(d)
  BY TimerStable DEF RxOpenHandler
<1>f. /\ rx.pc = "handler"
      /\ UNCHANGED <<life, reg, refcount, table, keysInb, app, exp, leaked, crossed>>
  BY <1>i, <1>k, <1>t DEF RxOpenHandler, TypeOK
<1>o. PerConn(rx.conn)
  BY <1>n, <1>k
<1>g. /\ open' \in [Conn -> BOOLEAN]
      /\ \A d \in Conn : open'[d] = IF d = rx.conn THEN ok ELSE open[d]
      /\ opened' \in [Conn -> BOOLEAN]
      /\ \A d \in Conn : opened'[d] = IF d = rx.conn THEN ok ELSE opened[d]
  BY <1>i, <1>k, <1>f, <1>o, ConnFacts DEF PerConn, RxOpenHandler, TypeOK, AppPc,
     RxHolds, PacketPc, ExecPc
<1>h. told' = IF ~ok /\ rx.conn \in Outb THEN told \cup {rx.conn} ELSE told
  BY <1>i, <1>k, <1>f, <1>o, ConnFacts DEF PerConn, ConnInv, LifeOf, RxOpenHandler,
     TypeOK, AppPc, RxHolds, PacketPc, ExecPc
<1>r. /\ rx' \in Receiver /\ rx'.pc = (IF rx.conn \in Outb THEN "dec" ELSE IF ok THEN "openrep" ELSE "close") /\ rx'.conn = rx.conn
      /\ rx'.mtype = rx.mtype /\ rx'.item = rx.item /\ rx'.err = rx.err
  BY <1>i, <1>k, <1>f, RxFacts, ConnFacts DEF RxOpenHandler, TypeOK, RxPc, PacketType,
     PacketPc, ExecPc
<1>1. TypeOK'
  BY <1>i, <1>k, <1>t, ItemFacts, <1>f, <1>o, <1>g, <1>h, <1>r, ConnFacts DEF TypeOK,
     Conn
<1>2. RefsCounted'
  <2>1. \A d \in Conn : RxHolds(d)' <=> RxHolds(d)
    BY <1>i, <1>k, <1>f, <1>r, ConnFacts DEF RxHolds, ThreadInv, PacketPc, ExecPc
  <2> QED
    BY <2>1, <1>i, <1>t, <1>f, RefsStay
<1>3. ThreadInv'
  BY <1>i, <1>k, <1>t, ItemFacts, <1>f, <1>o, <1>g, <1>h, <1>r, ConnFacts DEF ThreadInv,
     PerConn, ConnInv, AppOf, OwnAppOf, LifeOf, ExpireOf, Expiring, Unsent, RxHolds, PacketPc,
     ExecPc
<1>4. ASSUME NEW d \in Conn PROVE ConnInv(d)'
  <2>1. PerConn(d)
    BY <1>n
  <2>2. CASE d = rx.conn
    <3>g. /\ open'[d] = ok
          /\ opened'[d] = ok
      BY <1>g, <2>1, <2>2
    <3>1. LifeOf(d)'
      BY <2>1, <2>2, <3>g, <1>i, <1>k, <1>t, ItemFacts, <1>f, <1>o, <1>h, <1>r,
         ConnFacts DEF PerConn, ConnInv, LifeOf, AppOf, OwnAppOf, Unsent, ExpireOf, Expiring,
         ThreadInv, RxHolds, PacketPc, ExecPc
    <3>2. OpenOf(d)'
      BY <2>1, <2>2, <3>g, <1>i, <1>k, <1>t, ItemFacts, <1>f, <1>o, <1>h, <1>r,
         ConnFacts DEF PerConn, ConnInv, OpenOf, Active, Spent, LifeOf, AppOf, OwnAppOf, Unsent,
         ThreadInv, RxHolds, PacketPc, ExecPc
    <3>3. d \in Outb => AppOf(d)'
      BY <2>1, <2>2, <3>g, <1>i, <1>k, <1>t, ItemFacts, <1>f, <1>o, <1>h, <1>r,
         ConnFacts DEF PerConn, ConnInv, AppOf, OwnAppOf, Unsent, LifeOf, OpenOf, Active, Spent,
         ThreadInv, RxHolds, PacketPc, ExecPc
    <3>4. d \in Inb => ExpireOf(d)'
      BY <2>1, <2>2, <3>g, <1>i, <1>k, <1>t, ItemFacts, <1>f, <1>o, <1>h, <1>r,
         ConnFacts DEF PerConn, ConnInv, ExpireOf, Expiring, LifeOf, AppOf, OwnAppOf, Unsent,
         ThreadInv, RxHolds, PacketPc, ExecPc
    <3> QED
      BY <3>1, <3>2, <3>3, <3>4 DEF ConnInv
  <2>3. CASE d # rx.conn
    <3>1. Apart(d)
      BY <2>3, <1>g, <1>t, <1>f, <1>h, <1>r, ConnFacts DEF Apart
    <3> QED
      BY <1>3, <3>1, Elsewhere
  <2> QED
    BY <2>2, <2>3
<1> QED
  BY <1>1, <1>2, <1>3, <1>4 DEF IndInv

\* OPEN_REP is sent and the connection can expire from now on.
LEMMA RxOpenRepInv ==
    ASSUME IndInv, NEW ok \in BOOLEAN, RxOpenRep(ok)
    PROVE  IndInv'
<1>i. TypeOK /\ RefsCounted /\ ThreadInv
  BY DEF IndInv
<1>n. \A d \in Conn : PerConn(d)
  BY PerConnFacts
<1>k. rx.conn \in Conn
  BY <1>i, ConnFacts DEF RxOpenRep, ThreadInv, TypeOK, PacketPc, ExecPc
<1>t. timer' = timer /\ Items' = Items /\ Collected' = Collected
      /\ \A d : ItemsOf(d)' = ItemsOf(d)
  BY TimerStable DEF RxOpenRep
<1>f. /\ rx.pc = "openrep"
      /\ UNCHANGED <<life, reg, open, refcount, table, app, told, exp, opened, leaked, crossed>>
  BY <1>i, <1>k, <1>t DEF RxOpenRep, TypeOK
<1>o. PerConn(rx.conn)
  BY <1>n, <1>k
<1>h. keysInb' = IF ok THEN keysInb \cup {rx.conn} ELSE keysInb
  BY <1>i, <1>k, <1>f, <1>o, ConnFacts DEF PerConn, ConnInv, LifeOf, RxOpenRep, TypeOK,
     AppPc, RxHolds, PacketPc, ExecPc
<1>r. /\ rx' \in Receiver /\ rx'.pc = (IF ok THEN "dec" ELSE "close") /\ rx'.conn = rx.conn
      /\ rx'.mtype = rx.mtype /\ rx'.item = rx.item /\ rx'.err = rx.err
  BY <1>i, <1>k, <1>f, RxFacts, ConnFacts DEF RxOpenRep, TypeOK, RxPc, PacketType,
     PacketPc, ExecPc
<1>1. TypeOK'
  BY <1>i, <1>k, <1>t, ItemFacts, <1>f, <1>o, <1>h, <1>r, ConnFacts DEF TypeOK, ThreadInv, Conn
<1>2. RefsCounted'
  <2>1. \A d \in Conn : RxHolds(d)' <=> RxHolds(d)
    BY <1>i, <1>k, <1>f, <1>r, ConnFacts DEF RxHolds, ThreadInv, PacketPc, ExecPc
  <2> QED
    BY <2>1, <1>i, <1>t, <1>f, RefsStay
<1>3. ThreadInv'
  BY <1>i, <1>k, <1>t, ItemFacts, <1>f, <1>o, <1>h, <1>r, ConnFacts DEF ThreadInv,
     PerConn, ConnInv, AppOf, OwnAppOf, LifeOf, ExpireOf, Expiring, Unsent, RxHolds, PacketPc,
     ExecPc
<1>4. ASSUME NEW d \in Conn PROVE ConnInv(d)'
  <2>1. PerConn(d)
    BY <1>n
  <2>2. CASE d = rx.conn
    <3>1. LifeOf(d)'
      BY <2>1, <2>2, <1>i, <1>k, <1>t, ItemFacts, <1>f, <1>o, <1>h, <1>r, ConnFacts DEF
         PerConn, ConnInv, LifeOf, AppOf, OwnAppOf, Unsent, ExpireOf, Expiring, ThreadInv,
         RxHolds, PacketPc, ExecPc
    <3>2. OpenOf(d)'
      BY <2>1, <2>2, <1>i, <1>k, <1>t, ItemFacts, <1>f, <1>o, <1>h, <1>r, ConnFacts DEF
         PerConn, ConnInv, OpenOf, Active, Spent, LifeOf, AppOf, OwnAppOf, Unsent, ThreadInv,
         RxHolds, PacketPc, ExecPc
    <3>3. d \in Outb => AppOf(d)'
      BY <2>1, <2>2, <1>i, <1>k, <1>t, ItemFacts, <1>f, <1>o, <1>h, <1>r, ConnFacts DEF
         PerConn, ConnInv, AppOf, OwnAppOf, Unsent, LifeOf, OpenOf, Active, Spent, ThreadInv,
         RxHolds, PacketPc, ExecPc
    <3>4. d \in Inb => ExpireOf(d)'
      BY <2>1, <2>2, <1>i, <1>k, <1>t, ItemFacts, <1>f, <1>o, <1>h, <1>r, ConnFacts DEF
         PerConn, ConnInv, ExpireOf, Expiring, LifeOf, AppOf, OwnAppOf, Unsent, ThreadInv,
         RxHolds, PacketPc, ExecPc
    <3> QED
      BY <3>1, <3>2, <3>3, <3>4 DEF ConnInv
  <2>3. CASE d # rx.conn
    <3>1. Apart(d)
      BY <2>3, <1>t, <1>f, <1>h, <1>r, ConnFacts DEF Apart
    <3> QED
      BY <1>3, <3>1, Elsewhere
  <2> QED
    BY <2>2, <2>3
<1> QED
  BY <1>1, <1>2, <1>3, <1>4 DEF IndInv

\* _ecp_conn_close by the receiver takes the waiting items; its own reference stays.
LEMMA RxCloseInv ==
    ASSUME IndInv, RxClose
    PROVE  IndInv'
<1>i. TypeOK /\ RefsCounted /\ ThreadInv
  BY DEF IndInv
<1>n. \A d \in Conn : PerConn(d)
  BY PerConnFacts
<1>k. rx.conn \in Conn
  BY <1>i, ConnFacts DEF RxClose, ThreadInv, TypeOK, PacketPc, ExecPc
<1>c. reg[rx.conn] \/ ItemsOf(rx.conn) = {} \/ ItemsOf(rx.conn) \cap Collected # {} \/ RxHolds(rx.conn)
  BY DEF RxClose, RxHolds, PacketPc
<1>s. PICK c \in Conn : c = rx.conn /\ TimerRemove(c)
  BY <1>k DEF RxClose
<1>t. /\ timer' \in [Slot -> Item \cup {NoItem}]
      /\ refcount' \in [Conn -> Nat]
      /\ \A d \in Conn :
            /\ Cardinality(ItemsOf(d)') \in Nat
            /\ refcount'[d] - Cardinality(ItemsOf(d)') = refcount[d] - Cardinality(ItemsOf(d))
            /\ d # rx.conn => ItemsOf(d)' = ItemsOf(d) /\ refcount'[d] = refcount[d]
            /\ refcount'[d] <= refcount[d]
            /\ ItemsOf(d)' \subseteq ItemsOf(d)
            /\ d = rx.conn => ItemsOf(d)' = ItemsOf(d) \cap Collected
      /\ \A s \in Items' : s \in Items /\ timer'[s] = timer[s]
      /\ Collected' = Collected
      /\ UNCHANGED <<life, open, opened>>
  BY <1>i, <1>k, <1>c, <1>s, RemoveFacts
<1>f. /\ rx.pc = "close"
      /\ UNCHANGED <<reg, table, keysInb, app, told, exp, leaked, crossed>>
  BY <1>i, <1>k, <1>t DEF RxClose, TypeOK
<1>o. PerConn(rx.conn)
  BY <1>n, <1>k
<1>r. /\ rx' \in Receiver /\ rx'.pc = "closerm" /\ rx'.conn = rx.conn
      /\ rx'.mtype = rx.mtype /\ rx'.item = rx.item /\ rx'.err = rx.err
  BY <1>i, <1>k, <1>f, RxFacts, ConnFacts DEF RxClose, TypeOK, RxPc, PacketType,
     PacketPc, ExecPc
<1>1. TypeOK'
  BY <1>i, <1>k, <1>t, ItemFacts, <1>f, <1>o, <1>r, ConnFacts DEF TypeOK, Conn
<1>2. RefsCounted'
  <2> SUFFICES ASSUME NEW d \in Conn
               PROVE  refcount'[d] = Cardinality(ItemsOf(d)')
                                     + (IF RxHolds(d)' THEN 1 ELSE 0) + leaked'[d]
    BY DEF RefsCounted
  <2>1. /\ refcount[d] = Cardinality(ItemsOf(d)) + (IF RxHolds(d) THEN 1 ELSE 0) + leaked[d]
        /\ Cardinality(ItemsOf(d)) \in Nat /\ refcount[d] \in Nat /\ leaked[d] \in Nat
    BY <1>i, ItemsFinite DEF RefsCounted, TypeOK
  <2>2. RxHolds(d)' <=> RxHolds(d)
    BY <1>f, <1>r DEF RxHolds, PacketPc, ExecPc
  <2>3. /\ leaked' \in [Conn -> Nat] /\ refcount' \in [Conn -> Nat]
        /\ Cardinality(ItemsOf(d)') \in Nat
        /\ refcount'[d] - Cardinality(ItemsOf(d)') - leaked'[d]
           = refcount[d] - Cardinality(ItemsOf(d)) - leaked[d]
    BY <1>i, <1>f, <1>t, <2>1 DEF TypeOK
  <2> QED
    BY <2>1, <2>2, <2>3
<1>3. ThreadInv'
  BY <1>i, <1>k, <1>t, ItemFacts, <1>f, <1>o, <1>r, ConnFacts DEF ThreadInv, PerConn,
     ConnInv, AppOf, OwnAppOf, LifeOf, ExpireOf, Expiring, Unsent, RxHolds, PacketPc, ExecPc
<1>4. ASSUME NEW d \in Conn PROVE ConnInv(d)'
  <2>1. PerConn(d)
    BY <1>n
  <2>2. CASE d = rx.conn
    <3>g. /\ \A s \in ItemsOf(d)' : s \in ItemsOf(d) /\ s \in Collected /\ timer'[s] = timer[s]
          /\ \A s \in ItemsOf(d)' : timer[s].exec
          /\ refcount'[d] <= refcount[d] /\ refcount'[d] \in Nat
      BY <1>t, ItemFacts, <2>1, <2>2
    <3>1. LifeOf(d)'
      BY <2>1, <2>2, <3>g, <1>i, <1>k, <1>t, ItemFacts, <1>f, <1>o, <1>r, ConnFacts DEF
         PerConn, ConnInv, LifeOf, AppOf, OwnAppOf, Unsent, ExpireOf, Expiring, ThreadInv,
         RxHolds, PacketPc, ExecPc
    <3>2. OpenOf(d)'
      BY <2>1, <2>2, <3>g, <1>i, <1>k, <1>t, ItemFacts, <1>f, <1>o, <1>r, ConnFacts DEF
         PerConn, ConnInv, OpenOf, Active, Spent, LifeOf, AppOf, OwnAppOf, Unsent, ThreadInv,
         RxHolds, PacketPc, ExecPc
    <3>3. d \in Outb => AppOf(d)'
      BY <2>1, <2>2, <3>g, <1>i, <1>k, <1>t, ItemFacts, <1>f, <1>o, <1>r, ConnFacts DEF
         PerConn, ConnInv, AppOf, OwnAppOf, Unsent, LifeOf, OpenOf, Active, Spent, ThreadInv,
         RxHolds, PacketPc, ExecPc
    <3>4. d \in Inb => ExpireOf(d)'
      BY <2>1, <2>2, <3>g, <1>i, <1>k, <1>t, ItemFacts, <1>f, <1>o, <1>r, ConnFacts DEF
         PerConn, ConnInv, ExpireOf, Expiring, LifeOf, AppOf, OwnAppOf, Unsent, ThreadInv,
         RxHolds, PacketPc, ExecPc
    <3> QED
      BY <3>1, <3>2, <3>3, <3>4 DEF ConnInv
  <2>3. CASE d # rx.conn
    <3>1. Apart(d)
      BY <2>3, <1>t, ItemFacts, <1>f, <1>r, ConnFacts DEF Apart
    <3> QED
      BY <1>3, <3>1, Elsewhere
  <2> QED
    BY <2>2, <2>3
<1> QED
  BY <1>1, <1>2, <1>3, <1>4 DEF IndInv

\* The receiver closes an inbound connection it could not open.
LEMMA RxCloseRemoveInv ==
    ASSUME IndInv, RxCloseRemove
    PROVE  IndInv'
<1>i. TypeOK /\ RefsCounted /\ ThreadInv
  BY DEF IndInv
<1>n. \A d \in Conn : PerConn(d)
  BY PerConnFacts
<1>k. rx.conn \in Conn
  BY <1>i, ConnFacts DEF RxCloseRemove, ThreadInv, TypeOK, PacketPc, ExecPc
<1>t. timer' = timer /\ Items' = Items /\ Collected' = Collected
      /\ \A d : ItemsOf(d)' = ItemsOf(d)
  BY TimerStable DEF RxCloseRemove, ConnRemove
<1>f. /\ rx.pc = "closerm"
      /\ UNCHANGED <<life, open, refcount, keysInb, app, told, exp, opened, leaked, crossed>>
  BY <1>i, <1>k, <1>t DEF RxCloseRemove, ConnRemove, TypeOK, LifeOf
<1>o. PerConn(rx.conn)
  BY <1>n, <1>k
<1>g. reg' \in [Conn -> BOOLEAN]
      /\ \A d \in Conn : reg'[d] = IF d = rx.conn THEN FALSE ELSE reg[d]
  BY <1>i, <1>k, <1>f, <1>o, ConnFacts DEF PerConn, RxCloseRemove, ConnRemove, TypeOK,
     AppPc, RxHolds, PacketPc, ExecPc, LifeOf
<1>h. table' = table \ {rx.conn}
  BY <1>i, <1>k, <1>f, <1>o, ConnFacts DEF PerConn, ConnInv, LifeOf, RxCloseRemove,
     ThreadInv, ConnRemove, TypeOK, AppPc, RxHolds, PacketPc, ExecPc, LifeOf
<1>r. /\ rx' \in Receiver /\ rx'.pc = "dec" /\ rx'.conn = rx.conn
      /\ rx'.mtype = rx.mtype /\ rx'.item = rx.item /\ rx'.err = rx.err
  BY <1>i, <1>k, <1>f, RxFacts, ConnFacts DEF RxCloseRemove, ConnRemove, TypeOK, RxPc,
     PacketType, PacketPc, ExecPc
<1>1. TypeOK'
  BY <1>i, <1>k, <1>t, ItemFacts, <1>f, <1>o, <1>g, <1>h, <1>r, ConnFacts DEF TypeOK,
     Conn
<1>2. RefsCounted'
  <2>1. \A d \in Conn : RxHolds(d)' <=> RxHolds(d)
    BY <1>i, <1>k, <1>f, <1>r, ConnFacts DEF RxHolds, ThreadInv, PacketPc, ExecPc
  <2> QED
    BY <2>1, <1>i, <1>t, <1>f, RefsStay
<1>3. ThreadInv'
  BY <1>i, <1>k, <1>t, ItemFacts, <1>f, <1>o, <1>g, <1>h, <1>r, ConnFacts DEF ThreadInv,
     PerConn, ConnInv, AppOf, OwnAppOf, LifeOf, ExpireOf, Expiring, Unsent, RxHolds, PacketPc,
     ExecPc
<1>4. ASSUME NEW d \in Conn PROVE ConnInv(d)'
  <2>1. PerConn(d)
    BY <1>n
  <2>2. CASE d = rx.conn
    <3>g. reg'[d] = FALSE
      BY <1>g, <2>1, <2>2
    <3>1. LifeOf(d)'
      BY <2>1, <2>2, <3>g, <1>i, <1>k, <1>t, ItemFacts, <1>f, <1>o, <1>h, <1>r,
         ConnFacts DEF PerConn, ConnInv, LifeOf, AppOf, OwnAppOf, Unsent, ExpireOf, Expiring,
         ThreadInv, RxHolds, PacketPc, ExecPc
    <3>2. OpenOf(d)'
      BY <2>1, <2>2, <3>g, <1>i, <1>k, <1>t, ItemFacts, <1>f, <1>o, <1>h, <1>r,
         ConnFacts DEF PerConn, ConnInv, OpenOf, Active, Spent, LifeOf, AppOf, OwnAppOf, Unsent,
         ThreadInv, RxHolds, PacketPc, ExecPc
    <3>3. d \in Outb => AppOf(d)'
      BY <2>1, <2>2, <3>g, <1>i, <1>k, <1>t, ItemFacts, <1>f, <1>o, <1>h, <1>r,
         ConnFacts DEF PerConn, ConnInv, AppOf, OwnAppOf, Unsent, LifeOf, OpenOf, Active, Spent,
         ThreadInv, RxHolds, PacketPc, ExecPc
    <3>4. d \in Inb => ExpireOf(d)'
      BY <2>1, <2>2, <3>g, <1>i, <1>k, <1>t, ItemFacts, <1>f, <1>o, <1>h, <1>r,
         ConnFacts DEF PerConn, ConnInv, ExpireOf, Expiring, LifeOf, AppOf, OwnAppOf, Unsent,
         ThreadInv, RxHolds, PacketPc, ExecPc
    <3> QED
      BY <3>1, <3>2, <3>3, <3>4 DEF ConnInv
  <2>3. CASE d # rx.conn
    <3>1. Apart(d)
      BY <2>3, <1>g, <1>t, <1>f, <1>h, <1>r, ConnFacts DEF Apart
    <3> QED
      BY <1>3, <3>1, Elsewhere
  <2> QED
    BY <2>2, <2>3
<1> QED
  BY <1>1, <1>2, <1>3, <1>4 DEF IndInv

\* A message is handled; its handler may send a timed request.
LEMMA RxMessageInv ==
    ASSUME IndInv, NEW ok \in BOOLEAN, RxMessage(ok)
    PROVE  IndInv'
<1>i. TypeOK /\ RefsCounted /\ ThreadInv
  BY DEF IndInv
<1>n. \A d \in Conn : PerConn(d)
  BY PerConnFacts
<1>k. rx.conn \in Conn
  BY <1>i, ConnFacts DEF RxMessage, ThreadInv, TypeOK, PacketPc, ExecPc
<1>c. rx.conn \in Conn /\ "REPLY" \in TimerType /\ Tries - 1 \in 0 .. Tries - 1
  BY <1>k, ConnFacts DEF TimerType
<1>t. /\ timer' \in [Slot -> Item \cup {NoItem}]
      /\ refcount' \in [Conn -> Nat]
      /\ leaked' \in [Conn -> Nat]
      /\ \A d \in Conn :
            /\ Cardinality(ItemsOf(d)') \in Nat
            /\ refcount'[d] - Cardinality(ItemsOf(d)') - leaked'[d]
               = refcount[d] - Cardinality(ItemsOf(d)) - leaked[d]
            /\ d # rx.conn => ItemsOf(d)' = ItemsOf(d) /\ refcount'[d] = refcount[d]
            /\ ItemsOf(d) \subseteq ItemsOf(d)'
            /\ ~reg[d] => ItemsOf(d)' = ItemsOf(d) /\ refcount'[d] = refcount[d]
      /\ \A s \in Items : s \in Items' /\ timer'[s] = timer[s]
      /\ \A s \in Items' \ Items :
            /\ s \in Slot /\ timer'[s].conn = rx.conn /\ timer'[s].mtype = "REPLY"
            /\ ~timer'[s].exec /\ ~timer'[s].due
      /\ \A s, q \in Items' \ Items : s = q
      /\ Collected' = Collected
  <2>1. CASE ok
    BY <2>1, <1>i, <1>c, PushFacts DEF RxMessage
  <2>2. CASE ~ok
    <3>1. UNCHANGED <<timer, refcount, leaked>>
      BY <2>2 DEF RxMessage
    <3> QED
      BY <3>1, <1>i, TimerStable, ItemsFinite DEF TypeOK
  <2> QED
    BY <2>1, <2>2
<1>f. /\ rx.pc = "handle" /\ rx.mtype \in {"REPLY", "MSG"}
      /\ UNCHANGED <<life, reg, open, table, keysInb, app, told, exp, opened, crossed>>
  BY <1>i, <1>k, <1>t DEF RxMessage, TypeOK
<1>o. PerConn(rx.conn)
  BY <1>n, <1>k
<1>r. /\ rx' \in Receiver /\ rx'.pc = "dec" /\ rx'.conn = rx.conn
      /\ rx'.mtype = rx.mtype /\ rx'.item = rx.item /\ rx'.err = rx.err
  BY <1>i, <1>k, <1>f, RxFacts, ConnFacts DEF RxMessage, TypeOK, RxPc, PacketType,
     PacketPc, ExecPc
<1>1. TypeOK'
  BY <1>i, <1>k, <1>t, ItemFacts, <1>f, <1>o, <1>r, ConnFacts DEF TypeOK, Conn
<1>2. RefsCounted'
  <2> SUFFICES ASSUME NEW d \in Conn
               PROVE  refcount'[d] = Cardinality(ItemsOf(d)')
                                     + (IF RxHolds(d)' THEN 1 ELSE 0) + leaked'[d]
    BY DEF RefsCounted
  <2>1. /\ refcount[d] = Cardinality(ItemsOf(d)) + (IF RxHolds(d) THEN 1 ELSE 0) + leaked[d]
        /\ Cardinality(ItemsOf(d)) \in Nat /\ refcount[d] \in Nat /\ leaked[d] \in Nat
    BY <1>i, ItemsFinite DEF RefsCounted, TypeOK
  <2>2. RxHolds(d)' <=> RxHolds(d)
    BY <1>f, <1>r DEF RxHolds, PacketPc, ExecPc
  <2>3. /\ leaked' \in [Conn -> Nat] /\ refcount' \in [Conn -> Nat]
        /\ Cardinality(ItemsOf(d)') \in Nat
        /\ refcount'[d] - Cardinality(ItemsOf(d)') - leaked'[d]
           = refcount[d] - Cardinality(ItemsOf(d)) - leaked[d]
    BY <1>i, <1>f, <1>t, <2>1 DEF TypeOK
  <2> QED
    BY <2>1, <2>2, <2>3
<1>3. ThreadInv'
  BY <1>i, <1>k, <1>t, ItemFacts, <1>f, <1>o, <1>r, ConnFacts DEF ThreadInv, PerConn,
     ConnInv, AppOf, OwnAppOf, LifeOf, ExpireOf, Expiring, Unsent, RxHolds, PacketPc, ExecPc
<1>4. ASSUME NEW d \in Conn PROVE ConnInv(d)'
  <2>1. PerConn(d)
    BY <1>n
  <2>2. CASE d = rx.conn
    <3>g. /\ \A s \in ItemsOf(d) : s \in ItemsOf(d)' /\ timer'[s] = timer[s]
          /\ \A s \in ItemsOf(d)' \ ItemsOf(d) :
              ~timer'[s].exec /\ ~timer'[s].due /\ timer'[s].mtype = "REPLY"
          /\ \A s, q \in ItemsOf(d)' \ ItemsOf(d) : s = q
          /\ ~reg[d] => ItemsOf(d)' = ItemsOf(d) /\ refcount'[d] = refcount[d]
      BY <1>t, ItemFacts, <2>1, <2>2
    <3>1. LifeOf(d)'
      BY <2>1, <2>2, <3>g, <1>i, <1>k, <1>t, ItemFacts, <1>f, <1>o, <1>r, ConnFacts DEF
         PerConn, ConnInv, LifeOf, AppOf, OwnAppOf, Unsent, ExpireOf, Expiring, ThreadInv,
         RxHolds, PacketPc, ExecPc
    <3>2. OpenOf(d)'
      BY <2>1, <2>2, <3>g, <1>i, <1>k, <1>t, ItemFacts, <1>f, <1>o, <1>r, ConnFacts DEF
         PerConn, ConnInv, OpenOf, Active, Spent, LifeOf, AppOf, OwnAppOf, Unsent, ThreadInv,
         RxHolds, PacketPc, ExecPc
    <3>3. d \in Outb => AppOf(d)'
      BY <2>1, <2>2, <3>g, <1>i, <1>k, <1>t, ItemFacts, <1>f, <1>o, <1>r, ConnFacts DEF
         PerConn, ConnInv, AppOf, OwnAppOf, Unsent, LifeOf, OpenOf, Active, Spent, ThreadInv,
         RxHolds, PacketPc, ExecPc
    <3>4. d \in Inb => ExpireOf(d)'
      BY <2>1, <2>2, <3>g, <1>i, <1>k, <1>t, ItemFacts, <1>f, <1>o, <1>r, ConnFacts DEF
         PerConn, ConnInv, ExpireOf, Expiring, LifeOf, AppOf, OwnAppOf, Unsent, ThreadInv,
         RxHolds, PacketPc, ExecPc
    <3> QED
      BY <3>1, <3>2, <3>3, <3>4 DEF ConnInv
  <2>3. CASE d # rx.conn
    <3>1. Apart(d)
      BY <2>3, <1>t, ItemFacts, <1>f, <1>r, ConnFacts DEF Apart
    <3> QED
      BY <1>3, <3>1, Elsewhere
  <2> QED
    BY <2>2, <2>3
<1> QED
  BY <1>1, <1>2, <1>3, <1>4 DEF IndInv

\* The reference of the packet goes; the last one of a removed connection destroys it.
LEMMA RxDecInv ==
    ASSUME IndInv, RxDec
    PROVE  IndInv'
<1>i. TypeOK /\ RefsCounted /\ ThreadInv
  BY DEF IndInv
<1>n. \A d \in Conn : PerConn(d)
  BY PerConnFacts
<1>k. rx.conn \in Conn
  BY <1>i, ConnFacts DEF RxDec, ThreadInv, TypeOK, PacketPc, ExecPc
<1>t. timer' = timer /\ Items' = Items /\ Collected' = Collected
      /\ \A d : ItemsOf(d)' = ItemsOf(d)
  BY TimerStable DEF RxDec, DropRef, LastRef
<1>f. /\ rx.pc = "dec"
      /\ UNCHANGED <<life, reg, open, table, keysInb, app, told, exp, opened, leaked, crossed>>
  BY <1>i, <1>k, <1>t DEF RxDec, DropRef, LastRef, TypeOK
<1>o. PerConn(rx.conn)
  BY <1>n, <1>k
<1>g. refcount' \in [Conn -> Nat]
      /\ \A d \in Conn : refcount'[d] = IF d = rx.conn THEN refcount[rx.conn] - 1 ELSE refcount[d]
  BY <1>i, <1>k, <1>f, <1>o, ConnFacts DEF PerConn, RxDec, DropRef, LastRef, TypeOK,
     AppPc, RxHolds, PacketPc, ExecPc
<1>r. /\ rx' \in Receiver
      /\ IF refcount[rx.conn] = 1 /\ ~reg[rx.conn]
         THEN rx'.pc = "destroy" /\ rx'.conn = rx.conn
         ELSE rx'.pc = "exe" /\ rx'.conn = NoConn
  BY <1>i, <1>k, <1>f, RxFacts, ConnFacts DEF RxDec, DropRef, LastRef, TypeOK, RxPc,
     PacketType, PacketPc, ExecPc
<1>p0. RxHolds(rx.conn)
  BY <1>f DEF RxHolds, PacketPc
<1>p1. refcount[rx.conn] = 1 /\ ~reg[rx.conn] /\ rx.conn \in Outb \ crossed => app[rx.conn] \in {"closed", "gone"}
  BY <1>f, <1>o, <1>k, <1>p0, ConnFacts DEF PerConn, ConnInv, AppOf, OwnAppOf, AppPc, Unsent
<1>1. TypeOK'
  BY <1>i, <1>k, <1>t, ItemFacts, <1>f, <1>o, <1>g, <1>r, <1>p0, <1>p1, ConnFacts DEF
     TypeOK, Conn
<1>2. RefsCounted'
  <2> SUFFICES ASSUME NEW d \in Conn
               PROVE  refcount'[d] = Cardinality(ItemsOf(d)')
                                     + (IF RxHolds(d)' THEN 1 ELSE 0) + leaked'[d]
    BY DEF RefsCounted
  <2>1. /\ refcount[d] = Cardinality(ItemsOf(d)) + (IF RxHolds(d) THEN 1 ELSE 0) + leaked[d]
        /\ Cardinality(ItemsOf(d)) \in Nat /\ refcount[d] \in Nat /\ leaked[d] \in Nat
    BY <1>i, ItemsFinite DEF RefsCounted, TypeOK
  <2>2. RxHolds(d) <=> d = rx.conn
    BY <1>p0 DEF RxHolds
  <2>3. ~RxHolds(d)'
    BY <1>r DEF RxHolds, PacketPc
  <2>4. refcount'[d] = IF d = rx.conn THEN refcount[d] - 1 ELSE refcount[d]
    BY <1>g
  <2>5. leaked' = leaked /\ ItemsOf(d)' = ItemsOf(d)
    BY <1>f, <1>t
  <2> QED
    BY <2>1, <2>2, <2>3, <2>4, <2>5
<1>3. ThreadInv'
  BY <1>i, <1>k, <1>t, ItemFacts, <1>f, <1>o, <1>g, <1>r, <1>p0, <1>p1, ConnFacts DEF
     ThreadInv, PerConn, ConnInv, AppOf, OwnAppOf, LifeOf, ExpireOf, Expiring, Unsent, RxHolds,
     PacketPc, ExecPc
<1>4. ASSUME NEW d \in Conn PROVE ConnInv(d)'
  <2>1. PerConn(d)
    BY <1>n
  <2>2. CASE d = rx.conn
    <3>g. refcount'[d] = refcount[rx.conn] - 1
      BY <1>g, <2>1, <2>2
    <3>1. LifeOf(d)'
      BY <2>1, <2>2, <3>g, <1>i, <1>k, <1>t, ItemFacts, <1>f, <1>o, <1>r, <1>p0, <1>p1,
         ConnFacts DEF PerConn, ConnInv, LifeOf, AppOf, OwnAppOf, Unsent, ExpireOf, Expiring,
         ThreadInv, RxHolds, PacketPc, ExecPc
    <3>2. OpenOf(d)'
      BY <2>1, <2>2, <3>g, <1>i, <1>k, <1>t, ItemFacts, <1>f, <1>o, <1>r, <1>p0, <1>p1,
         ConnFacts DEF PerConn, ConnInv, OpenOf, Active, Spent, LifeOf, AppOf, OwnAppOf, Unsent,
         ThreadInv, RxHolds, PacketPc, ExecPc
    <3>3. d \in Outb => AppOf(d)'
      BY <2>1, <2>2, <3>g, <1>i, <1>k, <1>t, ItemFacts, <1>f, <1>o, <1>r, <1>p0, <1>p1,
         ConnFacts DEF PerConn, ConnInv, AppOf, OwnAppOf, Unsent, LifeOf, OpenOf, Active, Spent,
         ThreadInv, RxHolds, PacketPc, ExecPc
    <3>4. d \in Inb => ExpireOf(d)'
      BY <2>1, <2>2, <3>g, <1>i, <1>k, <1>t, ItemFacts, <1>f, <1>o, <1>r, <1>p0, <1>p1,
         ConnFacts DEF PerConn, ConnInv, ExpireOf, Expiring, LifeOf, AppOf, OwnAppOf, Unsent,
         ThreadInv, RxHolds, PacketPc, ExecPc
    <3> QED
      BY <3>1, <3>2, <3>3, <3>4 DEF ConnInv
  <2>3. CASE d # rx.conn
    <3>1. Apart(d)
      BY <2>3, <1>g, <1>t, <1>f, <1>r, ConnFacts DEF Apart
    <3> QED
      BY <1>3, <3>1, Elsewhere
  <2> QED
    BY <2>2, <2>3
<1> QED
  BY <1>1, <1>2, <1>3, <1>4 DEF IndInv

\* conn_close by the receiver after the last reference.
LEMMA RxDestroyInv ==
    ASSUME IndInv, RxDestroy
    PROVE  IndInv'
<1>i. TypeOK /\ RefsCounted /\ ThreadInv
  BY DEF IndInv
<1>n. \A d \in Conn : PerConn(d)
  BY PerConnFacts
<1>k. rx.conn \in Conn
  BY <1>i, ConnFacts DEF RxDestroy, ThreadInv, TypeOK, PacketPc, ExecPc
<1>t. timer' = timer /\ Items' = Items /\ Collected' = Collected
      /\ \A d : ItemsOf(d)' = ItemsOf(d)
  BY TimerStable DEF RxDestroy, ConnClose
<1>f. /\ rx.pc = "destroy"
      /\ UNCHANGED <<reg, refcount, table, keysInb, app, told, exp, leaked, crossed>>
  BY <1>i, <1>k, <1>t DEF RxDestroy, ConnClose, TypeOK
<1>o. PerConn(rx.conn)
  BY <1>n, <1>k
<1>g. /\ life' \in [Conn -> {"free", "live", "dead"}]
      /\ \A d \in Conn : life'[d] = IF d = rx.conn THEN IF rx.conn \in Inb THEN "free" ELSE "dead" ELSE life[d]
      /\ open' \in [Conn -> BOOLEAN]
      /\ \A d \in Conn : open'[d] = IF d = rx.conn THEN FALSE ELSE open[d]
      /\ opened' \in [Conn -> BOOLEAN]
      /\ \A d \in Conn : opened'[d] = IF d = rx.conn THEN (opened[rx.conn] /\ ~open[rx.conn]) ELSE opened[d]
  BY <1>i, <1>k, <1>f, <1>o, ConnFacts DEF PerConn, RxDestroy, ConnClose, TypeOK, AppPc,
     RxHolds, PacketPc, ExecPc
<1>r. /\ rx' \in Receiver /\ rx'.pc = "exe" /\ rx'.conn = NoConn
      /\ rx'.mtype = "DROP" /\ rx'.item = 1 /\ rx'.err = "TIMEOUT"
  BY <1>i, <1>k, <1>f, RxFacts, ConnFacts DEF RxDestroy, ConnClose, TypeOK, RxPc,
     PacketType, PacketPc, ExecPc
<1>1. TypeOK'
  BY <1>i, <1>k, <1>t, ItemFacts, <1>f, <1>o, <1>g, <1>r, ConnFacts DEF TypeOK, Conn
<1>2. RefsCounted'
  <2>1. \A d \in Conn : RxHolds(d)' <=> RxHolds(d)
    BY <1>i, <1>k, <1>f, <1>r, ConnFacts DEF RxHolds, ThreadInv, PacketPc, ExecPc
  <2> QED
    BY <2>1, <1>i, <1>t, <1>f, RefsStay
<1>3. ThreadInv'
  BY <1>i, <1>k, <1>t, ItemFacts, <1>f, <1>o, <1>g, <1>r, ConnFacts DEF ThreadInv,
     PerConn, ConnInv, AppOf, OwnAppOf, LifeOf, ExpireOf, Expiring, Unsent, RxHolds, PacketPc,
     ExecPc
<1>4. ASSUME NEW d \in Conn PROVE ConnInv(d)'
  <2>1. PerConn(d)
    BY <1>n
  <2>2. CASE d = rx.conn
    <3>g. /\ life'[d] = IF rx.conn \in Inb THEN "free" ELSE "dead"
          /\ open'[d] = FALSE
          /\ opened'[d] = (opened[rx.conn] /\ ~open[rx.conn])
      BY <1>g, <2>1, <2>2
    <3>1. LifeOf(d)'
      BY <2>1, <2>2, <3>g, <1>i, <1>k, <1>t, ItemFacts, <1>f, <1>o, <1>r, ConnFacts DEF
         PerConn, ConnInv, LifeOf, AppOf, OwnAppOf, Unsent, ExpireOf, Expiring, ThreadInv,
         RxHolds, PacketPc, ExecPc
    <3>2. OpenOf(d)'
      BY <2>1, <2>2, <3>g, <1>i, <1>k, <1>t, ItemFacts, <1>f, <1>o, <1>r, ConnFacts DEF
         PerConn, ConnInv, OpenOf, Active, Spent, LifeOf, AppOf, OwnAppOf, Unsent, ThreadInv,
         RxHolds, PacketPc, ExecPc
    <3>3. d \in Outb => AppOf(d)'
      BY <2>1, <2>2, <3>g, <1>i, <1>k, <1>t, ItemFacts, <1>f, <1>o, <1>r, ConnFacts DEF
         PerConn, ConnInv, AppOf, OwnAppOf, Unsent, LifeOf, OpenOf, Active, Spent, ThreadInv,
         RxHolds, PacketPc, ExecPc
    <3>4. d \in Inb => ExpireOf(d)'
      BY <2>1, <2>2, <3>g, <1>i, <1>k, <1>t, ItemFacts, <1>f, <1>o, <1>r, ConnFacts DEF
         PerConn, ConnInv, ExpireOf, Expiring, LifeOf, AppOf, OwnAppOf, Unsent, ThreadInv,
         RxHolds, PacketPc, ExecPc
    <3> QED
      BY <3>1, <3>2, <3>3, <3>4 DEF ConnInv
  <2>3. CASE d # rx.conn
    <3>1. Apart(d)
      BY <2>3, <1>g, <1>t, <1>f, <1>r, ConnFacts DEF Apart
    <3> QED
      BY <1>3, <3>1, Elsewhere
  <2> QED
    BY <2>2, <2>3
<1> QED
  BY <1>1, <1>2, <1>3, <1>4 DEF IndInv

\* The due items are copied to the stack of ecp_timer_exe, with their references.
LEMMA ExeCollectInv ==
    ASSUME IndInv, ExeCollect
    PROVE  IndInv'
<1>i. TypeOK /\ RefsCounted /\ ThreadInv
  BY DEF IndInv
<1>n. \A d \in Conn : PerConn(d)
  BY PerConnFacts
<1>e. /\ timer' \in [Slot -> Item \cup {NoItem}]
      /\ \A s \in Slot : timer'[s] = NoItem <=> timer[s] = NoItem
      /\ \A s \in Items : /\ timer'[s].conn = timer[s].conn
                          /\ timer'[s].mtype = timer[s].mtype
                          /\ timer'[s].cnt = timer[s].cnt
                          /\ timer'[s] = timer[s] \/ timer[s].due
  <2> SUFFICES ASSUME NEW s \in Slot
               PROVE  /\ timer'[s] \in Item \cup {NoItem}
                      /\ timer'[s] = NoItem <=> timer[s] = NoItem
                      /\ timer[s] # NoItem =>
                            /\ timer'[s].conn = timer[s].conn
                            /\ timer'[s].mtype = timer[s].mtype
                            /\ timer'[s].cnt = timer[s].cnt
                            /\ timer'[s] = timer[s] \/ timer[s].due
    BY DEF ExeCollect, Items
  <2>1. timer[s] \in Item \cup {NoItem}
    BY <1>i DEF TypeOK
  <2>2. CASE timer[s] = NoItem
    BY <2>2 DEF ExeCollect, Items, Queued
  <2>3. CASE timer[s] # NoItem
    <3>1. timer[s] \in Item
      BY <2>1, <2>3
    <3>2. timer'[s] = IF s \in Queued /\ timer[s].due
                      THEN [timer[s] EXCEPT !.exec = TRUE]
                      ELSE timer[s]
      BY DEF ExeCollect
    <3>3. timer'[s] \in Item
      BY <3>1, <3>2 DEF Item
    <3> QED
      BY <3>1, <3>2, <3>3, NoItemAssumption DEF Item
  <2> QED
    BY <2>2, <2>3
<1>t. Items' = Items /\ \A d : ItemsOf(d)' = ItemsOf(d)
  <2>1. \A s \in Items : timer'[s].conn = timer[s].conn
    BY <1>e
  <2> QED
    BY <1>i, <1>e, <2>1, FlagFacts
<1>f. /\ rx.pc = "exe"
      /\ UNCHANGED <<life, reg, open, refcount, table, keysInb, app, told, exp, opened, leaked, crossed>>
  BY <1>i, <1>t DEF ExeCollect, TypeOK
<1>r. /\ rx' \in Receiver /\ rx'.pc = "next" /\ rx'.conn = NoConn
      /\ rx'.mtype = "DROP" /\ rx'.item = 1 /\ rx'.err = "TIMEOUT"
  BY <1>i, <1>f, RxFacts, ConnFacts DEF ExeCollect, TypeOK, RxPc, PacketType, PacketPc,
     ExecPc
<1>p0. \A s \in Items : /\ timer'[s].mtype = timer[s].mtype
                        /\ timer'[s].cnt = timer[s].cnt
                        /\ timer'[s] = timer[s] \/ timer[s].due
  BY <1>e
<1>p1. timer' \in [Slot -> Item \cup {NoItem}]
  BY <1>e
<1>1. TypeOK'
  BY <1>i, <1>t, ItemFacts, <1>f, <1>r, <1>p0, <1>p1, ConnFacts DEF TypeOK, Conn
<1>2. RefsCounted'
  <2>1. \A d \in Conn : RxHolds(d)' <=> RxHolds(d)
    BY <1>i, <1>f, <1>r, ConnFacts DEF RxHolds, ThreadInv, PacketPc, ExecPc
  <2> QED
    BY <2>1, <1>i, <1>t, <1>f, RefsStay
<1>3. ThreadInv'
  BY <1>i, <1>t, ItemFacts, <1>f, <1>r, <1>p0, <1>p1, ConnFacts DEF ThreadInv, PerConn,
     ConnInv, AppOf, OwnAppOf, LifeOf, ExpireOf, Expiring, Unsent, RxHolds, PacketPc, ExecPc
<1>4. ASSUME NEW d \in Conn PROVE ConnInv(d)'
  <2>1. PerConn(d)
    BY <1>n
  <2>g. /\ ItemsOf(d)' = ItemsOf(d)
        /\ \A s \in ItemsOf(d) : /\ timer'[s].mtype = timer[s].mtype
                                /\ timer'[s].cnt = timer[s].cnt
    BY <1>t, ItemFacts, <1>p0, <2>1
  <2>2. LifeOf(d)'
    BY <2>1, <2>g, <1>i, <1>t, ItemFacts, <1>f, <1>r, <1>p0, <1>p1, ConnFacts DEF
       PerConn, ConnInv, LifeOf, AppOf, OwnAppOf, Unsent, ExpireOf, Expiring, ThreadInv, RxHolds,
       PacketPc, ExecPc
  <2>3. OpenOf(d)'
    BY <2>1, <2>g, <1>i, <1>t, ItemFacts, <1>f, <1>r, <1>p0, <1>p1, ConnFacts DEF
       PerConn, ConnInv, OpenOf, Active, Spent, LifeOf, AppOf, OwnAppOf, Unsent, ThreadInv,
       RxHolds, PacketPc, ExecPc
  <2>4. d \in Outb => AppOf(d)'
    BY <2>1, <2>g, <1>i, <1>t, ItemFacts, <1>f, <1>r, <1>p0, <1>p1, ConnFacts DEF
       PerConn, ConnInv, AppOf, OwnAppOf, Unsent, LifeOf, OpenOf, Active, Spent, ThreadInv,
       RxHolds, PacketPc, ExecPc
  <2>5. d \in Inb => ExpireOf(d)'
    BY <2>1, <2>g, <1>i, <1>t, ItemFacts, <1>f, <1>r, <1>p0, <1>p1, ConnFacts DEF
       PerConn, ConnInv, ExpireOf, Expiring, LifeOf, AppOf, OwnAppOf, Unsent, ThreadInv, RxHolds,
       PacketPc, ExecPc
  <2> QED
    BY <2>2, <2>3, <2>4, <2>5 DEF ConnInv
<1> QED
  BY <1>1, <1>2, <1>3, <1>4 DEF IndInv

\* No item is left to execute.
LEMMA ExeDoneInv ==
    ASSUME IndInv, ExeDone
    PROVE  IndInv'
<1>i. TypeOK /\ RefsCounted /\ ThreadInv
  BY DEF IndInv
<1>n. \A d \in Conn : PerConn(d)
  BY PerConnFacts
<1>t. timer' = timer /\ Items' = Items /\ Collected' = Collected
      /\ \A d : ItemsOf(d)' = ItemsOf(d)
  BY TimerStable DEF ExeDone
<1>f. /\ rx.pc = "next" /\ Collected = {}
      /\ UNCHANGED <<life, reg, open, refcount, table, keysInb, app, told, exp, opened, leaked, crossed>>
  BY <1>i, <1>t DEF ExeDone, TypeOK
<1>r. /\ rx' \in Receiver /\ rx'.pc = "idle" /\ rx'.conn = NoConn
      /\ rx'.mtype = "DROP" /\ rx'.item = 1 /\ rx'.err = "TIMEOUT"
  BY <1>i, <1>f, RxFacts, ConnFacts DEF ExeDone, TypeOK, RxPc, PacketType, PacketPc,
     ExecPc
<1>1. TypeOK'
  BY <1>i, <1>t, ItemFacts, <1>f, <1>r, ConnFacts DEF TypeOK, Conn
<1>2. RefsCounted'
  <2>1. \A d \in Conn : RxHolds(d)' <=> RxHolds(d)
    BY <1>i, <1>f, <1>r, ConnFacts DEF RxHolds, ThreadInv, PacketPc, ExecPc
  <2> QED
    BY <2>1, <1>i, <1>t, <1>f, RefsStay
<1>3. ThreadInv'
  BY <1>i, <1>t, ItemFacts, <1>f, <1>r, ConnFacts DEF ThreadInv, PerConn, ConnInv,
     AppOf, OwnAppOf, LifeOf, ExpireOf, Expiring, Unsent, RxHolds, PacketPc, ExecPc
<1>4. ASSUME NEW d \in Conn PROVE ConnInv(d)'
  <2>1. PerConn(d)
    BY <1>n
  <2>2. LifeOf(d)'
    BY <2>1, <1>i, <1>t, ItemFacts, <1>f, <1>r, ConnFacts DEF PerConn, ConnInv, LifeOf,
       AppOf, OwnAppOf, Unsent, ExpireOf, Expiring, ThreadInv, RxHolds, PacketPc, ExecPc
  <2>3. OpenOf(d)'
    BY <2>1, <1>i, <1>t, ItemFacts, <1>f, <1>r, ConnFacts DEF PerConn, ConnInv, OpenOf,
       Active, Spent, LifeOf, AppOf, OwnAppOf, Unsent, ThreadInv, RxHolds, PacketPc, ExecPc
  <2>4. d \in Outb => AppOf(d)'
    BY <2>1, <1>i, <1>t, ItemFacts, <1>f, <1>r, ConnFacts DEF PerConn, ConnInv, AppOf, OwnAppOf,
       Unsent, LifeOf, OpenOf, Active, Spent, ThreadInv, RxHolds, PacketPc, ExecPc
  <2>5. d \in Inb => ExpireOf(d)'
    BY <2>1, <1>i, <1>t, ItemFacts, <1>f, <1>r, ConnFacts DEF PerConn, ConnInv,
       ExpireOf, Expiring, LifeOf, AppOf, OwnAppOf, Unsent, ThreadInv, RxHolds, PacketPc, ExecPc
  <2> QED
    BY <2>2, <2>3, <2>4, <2>5 DEF ConnInv
<1> QED
  BY <1>1, <1>2, <1>3, <1>4 DEF IndInv

\* An item is executed: its reference keeps the connection alive.
LEMMA ExeItemInv ==
    ASSUME IndInv, NEW s \in Slot, ExeItem(s)
    PROVE  IndInv'
<1>i. TypeOK /\ RefsCounted /\ ThreadInv
  BY DEF IndInv
<1>n. \A d \in Conn : PerConn(d)
  BY PerConnFacts
<1>t. timer' = timer /\ Items' = Items /\ Collected' = Collected
      /\ \A d : ItemsOf(d)' = ItemsOf(d)
  BY TimerStable DEF ExeItem
<1>f. /\ rx.pc = "next" /\ s \in Collected
      /\ UNCHANGED <<life, reg, open, refcount, table, keysInb, app, told, exp, opened, leaked, crossed>>
  BY <1>i, <1>t DEF ExeItem, TypeOK
<1>p0. /\ timer[s].conn \in Conn /\ timer[s].cnt \in Nat /\ timer[s].mtype \in TimerType
       /\ s \in ItemsOf(timer[s].conn) /\ timer[s].exec /\ rx.conn = NoConn
  BY <1>i, <1>f, ConnFacts DEF TypeOK, Item, Collected, Items, ItemsOf, ThreadInv
<1>r. /\ rx' \in Receiver /\ rx'.pc = (IF timer[s].cnt = 0 THEN "err" ELSE IF timer[s].mtype = "OPEN_REP" THEN "reset" ELSE "resend") /\ rx'.conn = timer[s].conn
      /\ rx'.mtype = rx.mtype /\ rx'.item = s /\ rx'.err = "TIMEOUT"
  <2> DEFINE at == IF timer[s].cnt = 0 THEN "err"
                   ELSE IF timer[s].mtype = "OPEN_REP" THEN "reset" ELSE "resend"
  <2>1. rx' = [rx EXCEPT !.conn = timer[s].conn, !.item = s, !.err = "TIMEOUT", !.pc = at]
    BY DEF ExeItem
  <2>2. rx \in Receiver
    BY <1>i DEF TypeOK
  <2>3. at \in RxPc
    BY DEF RxPc, ExecPc
  <2> HIDE DEF at
  <2>4. rx' \in Receiver /\ rx'.pc = at /\ rx'.conn = timer[s].conn /\ rx'.mtype = rx.mtype
        /\ rx'.item = s /\ rx'.err = "TIMEOUT"
    BY <2>1, <2>2, <2>3, <1>p0 DEF Receiver
  <2> QED
    BY <2>4 DEF at
<1>1. TypeOK'
  BY <1>i, <1>t, ItemFacts, <1>f, <1>r, <1>p0, ConnFacts DEF TypeOK, Conn
<1>2. RefsCounted'
  <2>1. \A d \in Conn : RxHolds(d)' <=> RxHolds(d)
    BY <1>i, <1>f, <1>r, <1>p0, ConnFacts DEF RxHolds, ThreadInv, PacketPc, ExecPc
  <2> QED
    BY <2>1, <1>i, <1>t, <1>f, RefsStay
<1>3. ThreadInv'
  BY <1>i, <1>t, ItemFacts, <1>f, <1>r, <1>p0, ConnFacts DEF ThreadInv, PerConn,
     ConnInv, AppOf, OwnAppOf, LifeOf, ExpireOf, Expiring, Unsent, RxHolds, PacketPc, ExecPc
<1>4. ASSUME NEW d \in Conn PROVE ConnInv(d)'
  <2>1. PerConn(d)
    BY <1>n
  <2>2. LifeOf(d)'
    BY <2>1, <1>i, <1>t, ItemFacts, <1>f, <1>r, <1>p0, ConnFacts DEF PerConn, ConnInv,
       LifeOf, AppOf, OwnAppOf, Unsent, ExpireOf, Expiring, ThreadInv, RxHolds, PacketPc, ExecPc
  <2>3. OpenOf(d)'
    BY <2>1, <1>i, <1>t, ItemFacts, <1>f, <1>r, <1>p0, ConnFacts DEF PerConn, ConnInv,
       OpenOf, Active, Spent, LifeOf, AppOf, OwnAppOf, Unsent, ThreadInv, RxHolds, PacketPc,
       ExecPc
  <2>4. d \in Outb => AppOf(d)'
    BY <2>1, <1>i, <1>t, ItemFacts, <1>f, <1>r, <1>p0, ConnFacts DEF PerConn, ConnInv,
       AppOf, OwnAppOf, Unsent, LifeOf, OpenOf, Active, Spent, ThreadInv, RxHolds, PacketPc,
       ExecPc
  <2>5. d \in Inb => ExpireOf(d)'
    BY <2>1, <1>i, <1>t, ItemFacts, <1>f, <1>r, <1>p0, ConnFacts DEF PerConn, ConnInv,
       ExpireOf, Expiring, LifeOf, AppOf, OwnAppOf, Unsent, ThreadInv, RxHolds, PacketPc, ExecPc
  <2> QED
    BY <2>2, <2>3, <2>4, <2>5 DEF ConnInv
<1> QED
  BY <1>1, <1>2, <1>3, <1>4 DEF IndInv

\* ecp_conn_reset takes the connection out of the table.
LEMMA ExeResetInv ==
    ASSUME IndInv, ExeReset
    PROVE  IndInv'
<1>i. TypeOK /\ RefsCounted /\ ThreadInv
  BY DEF IndInv
<1>n. \A d \in Conn : PerConn(d)
  BY PerConnFacts
<1>k. rx.conn \in Conn
  BY <1>i, ConnFacts DEF ExeReset, ThreadInv, TypeOK, PacketPc, ExecPc
<1>t. timer' = timer /\ Items' = Items /\ Collected' = Collected
      /\ \A d : ItemsOf(d)' = ItemsOf(d)
  BY TimerStable DEF ExeReset, ConnRemove
<1>f. /\ rx.pc = "reset"
      /\ UNCHANGED <<life, open, refcount, keysInb, app, told, exp, opened, leaked, crossed>>
  BY <1>i, <1>k, <1>t DEF ExeReset, ConnRemove, TypeOK, LifeOf
<1>o. PerConn(rx.conn)
  BY <1>n, <1>k
<1>g. reg' \in [Conn -> BOOLEAN]
      /\ \A d \in Conn : reg'[d] = IF d = rx.conn THEN FALSE ELSE reg[d]
  BY <1>i, <1>k, <1>f, <1>o, ConnFacts DEF PerConn, ExeReset, ConnRemove, TypeOK, AppPc,
     RxHolds, PacketPc, ExecPc, LifeOf
<1>h. /\ table' \subseteq table /\ table \ {rx.conn} \subseteq table'
      /\ rx.conn \notin crossed => table' = table \ {rx.conn}
  BY <1>i, <1>k, <1>f, <1>o, ConnFacts DEF PerConn, ConnInv, LifeOf, ExeReset,
     ConnRemove, TypeOK, AppPc, RxHolds, PacketPc, ExecPc, LifeOf
<1>r. /\ rx' \in Receiver /\ rx'.conn = rx.conn /\ rx'.mtype = rx.mtype /\ rx'.item = rx.item
      /\ IF ~(refcount[rx.conn] > 1)
         THEN rx'.pc = "reinit" /\ rx'.err = rx.err
         ELSE rx'.pc = "err" /\ rx'.err = "FAILED"
  BY <1>i, <1>k, <1>f, RxFacts, ConnFacts DEF ExeReset, ConnRemove, TypeOK, RxPc,
     PacketType, PacketPc, ExecPc
<1>p0. /\ rx.pc \in {"reset", "reinit", "reinsert"} =>
              /\ rx.item \in Active(rx.conn)
              /\ rx.conn \in Outb
              /\ rx.conn \in crossed \/ app[rx.conn] \in {"opening", "gone"}
              /\ ~open[rx.conn] /\ rx.conn \notin told
  BY ResetFacts
<1>1. TypeOK'
  BY <1>i, <1>k, <1>t, ItemFacts, <1>f, <1>o, <1>g, <1>h, <1>r, <1>p0, ConnFacts DEF
     TypeOK, Conn
<1>2. RefsCounted'
  <2>1. \A d \in Conn : RxHolds(d)' <=> RxHolds(d)
    BY <1>i, <1>k, <1>f, <1>r, ConnFacts DEF RxHolds, ThreadInv, PacketPc, ExecPc
  <2> QED
    BY <2>1, <1>i, <1>t, <1>f, RefsStay
<1>3. ThreadInv'
  BY <1>i, <1>k, <1>t, ItemFacts, <1>f, <1>o, <1>g, <1>h, <1>r, <1>p0, ConnFacts DEF
     ThreadInv, PerConn, ConnInv, AppOf, OwnAppOf, LifeOf, ExpireOf, Expiring, Unsent, RxHolds,
     PacketPc, ExecPc
<1>4. ASSUME NEW d \in Conn PROVE ConnInv(d)'
  <2>1. PerConn(d)
    BY <1>n
  <2>2. CASE d = rx.conn
    <3>g. reg'[d] = FALSE
      BY <1>g, <2>1, <2>2
    <3>1. LifeOf(d)'
      BY <2>1, <2>2, <3>g, <1>i, <1>k, <1>t, ItemFacts, <1>f, <1>o, <1>h, <1>r, <1>p0,
         ConnFacts DEF PerConn, ConnInv, LifeOf, AppOf, OwnAppOf, Unsent, ExpireOf, Expiring,
         ThreadInv, RxHolds, PacketPc, ExecPc
    <3>2. OpenOf(d)'
      BY <2>1, <2>2, <3>g, <1>i, <1>k, <1>t, ItemFacts, <1>f, <1>o, <1>h, <1>r, <1>p0,
         ConnFacts DEF PerConn, ConnInv, OpenOf, Active, Spent, LifeOf, AppOf, OwnAppOf, Unsent,
         ThreadInv, RxHolds, PacketPc, ExecPc
    <3>3. d \in Outb => AppOf(d)'
      BY <2>1, <2>2, <3>g, <1>i, <1>k, <1>t, ItemFacts, <1>f, <1>o, <1>h, <1>r, <1>p0,
         ConnFacts DEF PerConn, ConnInv, AppOf, OwnAppOf, Unsent, LifeOf, OpenOf, Active, Spent,
         ThreadInv, RxHolds, PacketPc, ExecPc
    <3>4. d \in Inb => ExpireOf(d)'
      BY <2>1, <2>2, <3>g, <1>i, <1>k, <1>t, ItemFacts, <1>f, <1>o, <1>h, <1>r, <1>p0,
         ConnFacts DEF PerConn, ConnInv, ExpireOf, Expiring, LifeOf, AppOf, OwnAppOf, Unsent,
         ThreadInv, RxHolds, PacketPc, ExecPc
    <3> QED
      BY <3>1, <3>2, <3>3, <3>4 DEF ConnInv
  <2>3. CASE d # rx.conn
    <3>1. Apart(d)
      BY <2>3, <1>g, <1>t, <1>f, <1>h, <1>r, ConnFacts DEF Apart
    <3> QED
      BY <1>3, <3>1, Elsewhere
  <2> QED
    BY <2>2, <2>3
<1> QED
  BY <1>1, <1>2, <1>3, <1>4 DEF IndInv

\* ecp_conn_reinit and ecp_conn_init_outb: a new key, the flags are cleared.
LEMMA ExeReinitInv ==
    ASSUME IndInv, NEW ok \in BOOLEAN, ExeReinit(ok)
    PROVE  IndInv'
<1>i. TypeOK /\ RefsCounted /\ ThreadInv
  BY DEF IndInv
<1>n. \A d \in Conn : PerConn(d)
  BY PerConnFacts
<1>k. rx.conn \in Conn
  BY <1>i, ConnFacts DEF ExeReinit, ThreadInv, TypeOK, PacketPc, ExecPc
<1>t. timer' = timer /\ Items' = Items /\ Collected' = Collected
      /\ \A d : ItemsOf(d)' = ItemsOf(d)
  BY TimerStable DEF ExeReinit
<1>f. /\ rx.pc = "reinit"
      /\ UNCHANGED <<life, refcount, table, keysInb, app, told, exp, opened, leaked, crossed>>
  BY <1>i, <1>k, <1>t DEF ExeReinit, TypeOK
<1>o. PerConn(rx.conn)
  BY <1>n, <1>k
<1>g. /\ open' \in [Conn -> BOOLEAN]
      /\ \A d \in Conn : open'[d] = IF d = rx.conn THEN FALSE ELSE open[d]
      /\ reg' \in [Conn -> BOOLEAN]
      /\ \A d \in Conn : reg'[d] = IF d = rx.conn THEN ok ELSE reg[d]
  BY <1>i, <1>k, <1>f, <1>o, ConnFacts DEF PerConn, ExeReinit, TypeOK, AppPc, RxHolds,
     PacketPc, ExecPc
<1>r. /\ rx' \in Receiver /\ rx'.conn = rx.conn /\ rx'.mtype = rx.mtype /\ rx'.item = rx.item
      /\ IF ok
         THEN rx'.pc = "reinsert" /\ rx'.err = rx.err
         ELSE rx'.pc = "err" /\ rx'.err = "FAILED"
  BY <1>i, <1>k, <1>f, RxFacts, ConnFacts DEF ExeReinit, TypeOK, RxPc, PacketType,
     PacketPc, ExecPc
<1>p0. /\ rx.pc \in {"reset", "reinit", "reinsert"} =>
              /\ rx.item \in Active(rx.conn)
              /\ rx.conn \in Outb
              /\ rx.conn \in crossed \/ app[rx.conn] \in {"opening", "gone"}
              /\ ~open[rx.conn] /\ rx.conn \notin told
  BY ResetFacts
<1>1. TypeOK'
  BY <1>i, <1>k, <1>t, ItemFacts, <1>f, <1>o, <1>g, <1>r, <1>p0, ConnFacts DEF TypeOK,
     Conn
<1>2. RefsCounted'
  <2>1. \A d \in Conn : RxHolds(d)' <=> RxHolds(d)
    BY <1>i, <1>k, <1>f, <1>r, ConnFacts DEF RxHolds, ThreadInv, PacketPc, ExecPc
  <2> QED
    BY <2>1, <1>i, <1>t, <1>f, RefsStay
<1>3. ThreadInv'
  BY <1>i, <1>k, <1>t, ItemFacts, <1>f, <1>o, <1>g, <1>r, <1>p0, ConnFacts DEF
     ThreadInv, PerConn, ConnInv, AppOf, OwnAppOf, LifeOf, ExpireOf, Expiring, Unsent, RxHolds,
     PacketPc, ExecPc
<1>4. ASSUME NEW d \in Conn PROVE ConnInv(d)'
  <2>1. PerConn(d)
    BY <1>n
  <2>2. CASE d = rx.conn
    <3>g. /\ open'[d] = FALSE
          /\ reg'[d] = ok
      BY <1>g, <2>1, <2>2
    <3>1. LifeOf(d)'
      BY <2>1, <2>2, <3>g, <1>i, <1>k, <1>t, ItemFacts, <1>f, <1>o, <1>r, <1>p0,
         ConnFacts DEF PerConn, ConnInv, LifeOf, AppOf, OwnAppOf, Unsent, ExpireOf, Expiring,
         ThreadInv, RxHolds, PacketPc, ExecPc
    <3>2. OpenOf(d)'
      BY <2>1, <2>2, <3>g, <1>i, <1>k, <1>t, ItemFacts, <1>f, <1>o, <1>r, <1>p0,
         ConnFacts DEF PerConn, ConnInv, OpenOf, Active, Spent, LifeOf, AppOf, OwnAppOf, Unsent,
         ThreadInv, RxHolds, PacketPc, ExecPc
    <3>3. d \in Outb => AppOf(d)'
      BY <2>1, <2>2, <3>g, <1>i, <1>k, <1>t, ItemFacts, <1>f, <1>o, <1>r, <1>p0,
         ConnFacts DEF PerConn, ConnInv, AppOf, OwnAppOf, Unsent, LifeOf, OpenOf, Active, Spent,
         ThreadInv, RxHolds, PacketPc, ExecPc
    <3>4. d \in Inb => ExpireOf(d)'
      BY <2>1, <2>2, <3>g, <1>i, <1>k, <1>t, ItemFacts, <1>f, <1>o, <1>r, <1>p0,
         ConnFacts DEF PerConn, ConnInv, ExpireOf, Expiring, LifeOf, AppOf, OwnAppOf, Unsent,
         ThreadInv, RxHolds, PacketPc, ExecPc
    <3> QED
      BY <3>1, <3>2, <3>3, <3>4 DEF ConnInv
  <2>3. CASE d # rx.conn
    <3>1. Apart(d)
      BY <2>3, <1>g, <1>t, <1>f, <1>r, ConnFacts DEF Apart
    <3> QED
      BY <1>3, <3>1, Elsewhere
  <2> QED
    BY <2>2, <2>3
<1> QED
  BY <1>1, <1>2, <1>3, <1>4 DEF IndInv

\* ecp_conn_insert of ecp_conn_reset.
LEMMA ExeReinsertInv ==
    ASSUME IndInv, NEW ok \in BOOLEAN, ExeReinsert(ok)
    PROVE  IndInv'
<1>i. TypeOK /\ RefsCounted /\ ThreadInv
  BY DEF IndInv
<1>n. \A d \in Conn : PerConn(d)
  BY PerConnFacts
<1>k. rx.conn \in Conn
  BY <1>i, ConnFacts DEF ExeReinsert, ThreadInv, TypeOK, PacketPc, ExecPc
<1>t. timer' = timer /\ Items' = Items /\ Collected' = Collected
      /\ \A d : ItemsOf(d)' = ItemsOf(d)
  BY TimerStable DEF ExeReinsert
<1>f. /\ rx.pc = "reinsert"
      /\ UNCHANGED <<life, open, refcount, keysInb, app, told, exp, opened, leaked, crossed>>
  BY <1>i, <1>k, <1>t DEF ExeReinsert, TypeOK
<1>o. PerConn(rx.conn)
  BY <1>n, <1>k
<1>g. reg' \in [Conn -> BOOLEAN]
      /\ \A d \in Conn : reg'[d] = IF d = rx.conn THEN ok /\ reg[d] ELSE reg[d]
  BY <1>i, <1>k, <1>f, <1>o, ConnFacts DEF PerConn, ExeReinsert, TypeOK, AppPc, RxHolds,
     PacketPc, ExecPc
<1>h. table' = IF ok THEN table \cup {rx.conn} ELSE table
  BY <1>i, <1>k, <1>f, <1>o, ConnFacts DEF PerConn, ConnInv, LifeOf, ExeReinsert,
     TypeOK, AppPc, RxHolds, PacketPc, ExecPc
<1>r. /\ rx' \in Receiver /\ rx'.conn = rx.conn /\ rx'.mtype = rx.mtype /\ rx'.item = rx.item
      /\ IF ok
         THEN rx'.pc = "resend" /\ rx'.err = rx.err
         ELSE rx'.pc = "err" /\ rx'.err = "FAILED"
  BY <1>i, <1>k, <1>f, RxFacts, ConnFacts DEF ExeReinsert, TypeOK, RxPc, PacketType,
     PacketPc, ExecPc
<1>p0. /\ rx.pc \in {"reset", "reinit", "reinsert"} =>
              /\ rx.item \in Active(rx.conn)
              /\ rx.conn \in Outb
              /\ rx.conn \in crossed \/ app[rx.conn] \in {"opening", "gone"}
              /\ ~open[rx.conn] /\ rx.conn \notin told
  BY ResetFacts
<1>1. TypeOK'
  BY <1>i, <1>k, <1>t, ItemFacts, <1>f, <1>o, <1>g, <1>h, <1>r, <1>p0, ConnFacts DEF
     TypeOK, Conn
<1>2. RefsCounted'
  <2>1. \A d \in Conn : RxHolds(d)' <=> RxHolds(d)
    BY <1>i, <1>k, <1>f, <1>r, ConnFacts DEF RxHolds, ThreadInv, PacketPc, ExecPc
  <2> QED
    BY <2>1, <1>i, <1>t, <1>f, RefsStay
<1>3. ThreadInv'
  BY <1>i, <1>k, <1>t, ItemFacts, <1>f, <1>o, <1>g, <1>h, <1>r, <1>p0, ConnFacts DEF
     ThreadInv, PerConn, ConnInv, AppOf, OwnAppOf, LifeOf, ExpireOf, Expiring, Unsent, RxHolds,
     PacketPc, ExecPc
<1>4. ASSUME NEW d \in Conn PROVE ConnInv(d)'
  <2>1. PerConn(d)
    BY <1>n
  <2>2. CASE d = rx.conn
    <3>g. reg'[d] = (ok /\ reg[d])
      BY <1>g, <2>1, <2>2
    <3>1. LifeOf(d)'
      BY <2>1, <2>2, <3>g, <1>i, <1>k, <1>t, ItemFacts, <1>f, <1>o, <1>h, <1>r, <1>p0,
         ConnFacts DEF PerConn, ConnInv, LifeOf, AppOf, OwnAppOf, Unsent, ExpireOf, Expiring,
         ThreadInv, RxHolds, PacketPc, ExecPc
    <3>2. OpenOf(d)'
      BY <2>1, <2>2, <3>g, <1>i, <1>k, <1>t, ItemFacts, <1>f, <1>o, <1>h, <1>r, <1>p0,
         ConnFacts DEF PerConn, ConnInv, OpenOf, Active, Spent, LifeOf, AppOf, OwnAppOf, Unsent,
         ThreadInv, RxHolds, PacketPc, ExecPc
    <3>3. d \in Outb => AppOf(d)'
      BY <2>1, <2>2, <3>g, <1>i, <1>k, <1>t, ItemFacts, <1>f, <1>o, <1>h, <1>r, <1>p0,
         ConnFacts DEF PerConn, ConnInv, AppOf, OwnAppOf, Unsent, LifeOf, OpenOf, Active, Spent,
         ThreadInv, RxHolds, PacketPc, ExecPc
    <3>4. d \in Inb => ExpireOf(d)'
      BY <2>1, <2>2, <3>g, <1>i, <1>k, <1>t, ItemFacts, <1>f, <1>o, <1>h, <1>r, <1>p0,
         ConnFacts DEF PerConn, ConnInv, ExpireOf, Expiring, LifeOf, AppOf, OwnAppOf, Unsent,
         ThreadInv, RxHolds, PacketPc, ExecPc
    <3> QED
      BY <3>1, <3>2, <3>3, <3>4 DEF ConnInv
  <2>3. CASE d # rx.conn
    <3>1. Apart(d)
      BY <2>3, <1>g, <1>t, <1>f, <1>h, <1>r, ConnFacts DEF Apart
    <3> QED
      BY <1>3, <3>1, Elsewhere
  <2> QED
    BY <2>2, <2>3
<1> QED
  BY <1>1, <1>2, <1>3, <1>4 DEF IndInv

\* A retry pushes its item again while the executed one still holds its reference.
LEMMA ExeResendInv ==
    ASSUME IndInv, NEW ok \in BOOLEAN, ExeResend(ok)
    PROVE  IndInv'
<1>i. TypeOK /\ RefsCounted /\ ThreadInv
  BY DEF IndInv
<1>n. \A d \in Conn : PerConn(d)
  BY PerConnFacts
<1>k. rx.conn \in Conn
  BY <1>i, ConnFacts DEF ExeResend, ThreadInv, TypeOK, PacketPc, ExecPc
<1>c. rx.conn \in Conn /\ timer[rx.item].mtype \in TimerType /\ TryLess(rx.item) \in 0 .. Tries - 1
  BY <1>i, <1>k, ConnFacts DEF ThreadInv, ExeResend, ExecPc, Collected, Items, TypeOK, Item, TryLess
<1>t. /\ timer' \in [Slot -> Item \cup {NoItem}]
      /\ refcount' \in [Conn -> Nat]
      /\ leaked' \in [Conn -> Nat]
      /\ \A d \in Conn :
            /\ Cardinality(ItemsOf(d)') \in Nat
            /\ refcount'[d] - Cardinality(ItemsOf(d)') - leaked'[d]
               = refcount[d] - Cardinality(ItemsOf(d)) - leaked[d]
            /\ d # rx.conn => ItemsOf(d)' = ItemsOf(d) /\ refcount'[d] = refcount[d]
            /\ ItemsOf(d) \subseteq ItemsOf(d)'
            /\ ~reg[d] => ItemsOf(d)' = ItemsOf(d) /\ refcount'[d] = refcount[d]
      /\ \A s \in Items : s \in Items' /\ timer'[s] = timer[s]
      /\ \A s \in Items' \ Items :
            /\ s \in Slot /\ timer'[s].conn = rx.conn /\ timer'[s].mtype = timer[rx.item].mtype
            /\ ~timer'[s].exec /\ ~timer'[s].due
      /\ \A s, q \in Items' \ Items : s = q
      /\ Collected' = Collected
  BY <1>i, <1>c, PushFacts DEF ExeResend
<1>f. /\ rx.pc = "resend"
      /\ UNCHANGED <<life, reg, open, table, keysInb, app, told, exp, opened, crossed>>
  BY <1>i, <1>k, <1>t DEF ExeResend, TypeOK
<1>o. PerConn(rx.conn)
  BY <1>n, <1>k
<1>r. /\ rx' \in Receiver /\ rx'.conn = rx.conn /\ rx'.mtype = rx.mtype /\ rx'.item = rx.item
      /\ IF ~(PushFull \/ (PushOK(rx.conn) /\ ~ok))
         THEN rx'.pc = "xdec" /\ rx'.err = rx.err
         ELSE rx'.pc = "err" /\ rx'.err = "FAILED"
  BY <1>i, <1>k, <1>f, RxFacts, ConnFacts DEF ExeResend, TypeOK, RxPc, PacketType,
     PacketPc, ExecPc
<1>p0. /\ timer[rx.item].mtype = "OPEN_REP" =>
               /\ rx.item \in Active(rx.conn)
               /\ rx.conn \in Outb
               /\ rx.conn \in crossed \/ app[rx.conn] \in {"opening", "gone"}
               /\ ~open[rx.conn] /\ rx.conn \notin told
  BY <1>f, ResetFacts
<1>1. TypeOK'
  BY <1>i, <1>k, <1>t, ItemFacts, <1>f, <1>o, <1>r, <1>p0, ConnFacts DEF TypeOK, Conn
<1>2. RefsCounted'
  <2> SUFFICES ASSUME NEW d \in Conn
               PROVE  refcount'[d] = Cardinality(ItemsOf(d)')
                                     + (IF RxHolds(d)' THEN 1 ELSE 0) + leaked'[d]
    BY DEF RefsCounted
  <2>1. /\ refcount[d] = Cardinality(ItemsOf(d)) + (IF RxHolds(d) THEN 1 ELSE 0) + leaked[d]
        /\ Cardinality(ItemsOf(d)) \in Nat /\ refcount[d] \in Nat /\ leaked[d] \in Nat
    BY <1>i, ItemsFinite DEF RefsCounted, TypeOK
  <2>2. RxHolds(d)' <=> RxHolds(d)
    BY <1>f, <1>r DEF RxHolds, PacketPc, ExecPc
  <2>3. /\ leaked' \in [Conn -> Nat] /\ refcount' \in [Conn -> Nat]
        /\ Cardinality(ItemsOf(d)') \in Nat
        /\ refcount'[d] - Cardinality(ItemsOf(d)') - leaked'[d]
           = refcount[d] - Cardinality(ItemsOf(d)) - leaked[d]
    BY <1>i, <1>f, <1>t, <2>1 DEF TypeOK
  <2> QED
    BY <2>1, <2>2, <2>3
<1>3. ThreadInv'
  BY <1>i, <1>k, <1>t, ItemFacts, <1>f, <1>o, <1>r, <1>p0, ConnFacts DEF ThreadInv,
     PerConn, ConnInv, AppOf, OwnAppOf, LifeOf, ExpireOf, Expiring, Unsent, RxHolds, PacketPc,
     ExecPc
<1>4. ASSUME NEW d \in Conn PROVE ConnInv(d)'
  <2>1. PerConn(d)
    BY <1>n
  <2>2. CASE d = rx.conn
    <3>g. /\ \A s \in ItemsOf(d) : s \in ItemsOf(d)' /\ timer'[s] = timer[s]
          /\ \A s \in ItemsOf(d)' \ ItemsOf(d) :
              ~timer'[s].exec /\ ~timer'[s].due /\ timer'[s].mtype = timer[rx.item].mtype
          /\ \A s, q \in ItemsOf(d)' \ ItemsOf(d) : s = q
          /\ ~reg[d] => ItemsOf(d)' = ItemsOf(d) /\ refcount'[d] = refcount[d]
      BY <1>t, ItemFacts, <2>1, <2>2
    <3>1. LifeOf(d)'
      BY <2>1, <2>2, <3>g, <1>i, <1>k, <1>t, ItemFacts, <1>f, <1>o, <1>r, <1>p0,
         ConnFacts DEF PerConn, ConnInv, LifeOf, AppOf, OwnAppOf, Unsent, ExpireOf, Expiring,
         ThreadInv, RxHolds, PacketPc, ExecPc
    <3>2. OpenOf(d)'
      BY <2>1, <2>2, <3>g, <1>i, <1>k, <1>t, ItemFacts, <1>f, <1>o, <1>r, <1>p0,
         ConnFacts DEF PerConn, ConnInv, OpenOf, Active, Spent, LifeOf, AppOf, OwnAppOf, Unsent,
         ThreadInv, RxHolds, PacketPc, ExecPc
    <3>3. d \in Outb => AppOf(d)'
      BY <2>1, <2>2, <3>g, <1>i, <1>k, <1>t, ItemFacts, <1>f, <1>o, <1>r, <1>p0,
         ConnFacts DEF PerConn, ConnInv, AppOf, OwnAppOf, Unsent, LifeOf, OpenOf, Active, Spent,
         ThreadInv, RxHolds, PacketPc, ExecPc
    <3>4. d \in Inb => ExpireOf(d)'
      BY <2>1, <2>2, <3>g, <1>i, <1>k, <1>t, ItemFacts, <1>f, <1>o, <1>r, <1>p0,
         ConnFacts DEF PerConn, ConnInv, ExpireOf, Expiring, LifeOf, AppOf, OwnAppOf, Unsent,
         ThreadInv, RxHolds, PacketPc, ExecPc
    <3> QED
      BY <3>1, <3>2, <3>3, <3>4 DEF ConnInv
  <2>3. CASE d # rx.conn
    <3>1. Apart(d)
      BY <2>3, <1>t, ItemFacts, <1>f, <1>r, ConnFacts DEF Apart
    <3> QED
      BY <1>3, <3>1, Elsewhere
  <2> QED
    BY <2>2, <2>3
<1> QED
  BY <1>1, <1>2, <1>3, <1>4 DEF IndInv

\* handle_err returns: the application knows of the timeout, or never touches it again.
LEMMA ExeErrInv ==
    ASSUME IndInv, ExeErr
    PROVE  IndInv'
<1>i. TypeOK /\ RefsCounted /\ ThreadInv
  BY DEF IndInv
<1>n. \A d \in Conn : PerConn(d)
  BY PerConnFacts
<1>k. rx.conn \in Conn
  BY <1>i, ConnFacts DEF ExeErr, ThreadInv, TypeOK, PacketPc, ExecPc
<1>t. timer' = timer /\ Items' = Items /\ Collected' = Collected
      /\ \A d : ItemsOf(d)' = ItemsOf(d)
  BY TimerStable DEF ExeErr
<1>f. /\ rx.pc = "err"
      /\ UNCHANGED <<life, reg, open, refcount, table, keysInb, exp, opened, leaked, crossed>>
  BY <1>i, <1>k, <1>t DEF ExeErr, TypeOK
<1>o. PerConn(rx.conn)
  BY <1>n, <1>k
<1>g. app' \in [Outb -> AppPc]
      /\ \A d \in Outb : app'[d] = IF d = rx.conn THEN IF /\ rx.err = "FAILED" /\ timer[rx.item].mtype = "OPEN_REP"
                                     /\ app[d] = "opening"
                                  THEN "gone" ELSE app[d] ELSE app[d]
  BY <1>i, <1>k, <1>f, <1>o, ConnFacts DEF PerConn, ExeErr, TypeOK, AppPc, RxHolds,
     PacketPc, ExecPc
<1>h. told' = IF rx.err = "TIMEOUT" /\ rx.conn \in Outb THEN told \cup {rx.conn} ELSE told
  BY <1>i, <1>k, <1>f, <1>o, ConnFacts DEF PerConn, ConnInv, LifeOf, ExeErr, TypeOK,
     AppPc, RxHolds, PacketPc, ExecPc
<1>r. /\ rx' \in Receiver /\ rx'.pc = "xdec" /\ rx'.conn = rx.conn
      /\ rx'.mtype = rx.mtype /\ rx'.item = rx.item /\ rx'.err = rx.err
  BY <1>i, <1>k, <1>f, RxFacts, ConnFacts DEF ExeErr, TypeOK, RxPc, PacketType,
     PacketPc, ExecPc
<1>1. TypeOK'
  BY <1>i, <1>k, <1>t, ItemFacts, <1>f, <1>o, <1>g, <1>h, <1>r, ConnFacts DEF TypeOK,
     Conn
<1>2. RefsCounted'
  <2>1. \A d \in Conn : RxHolds(d)' <=> RxHolds(d)
    BY <1>i, <1>k, <1>f, <1>r, ConnFacts DEF RxHolds, ThreadInv, PacketPc, ExecPc
  <2> QED
    BY <2>1, <1>i, <1>t, <1>f, RefsStay
<1>3. ThreadInv'
  BY <1>i, <1>k, <1>t, ItemFacts, <1>f, <1>o, <1>g, <1>h, <1>r, ConnFacts DEF ThreadInv,
     PerConn, ConnInv, AppOf, OwnAppOf, LifeOf, ExpireOf, Expiring, Unsent, RxHolds, PacketPc,
     ExecPc
<1>4. ASSUME NEW d \in Conn PROVE ConnInv(d)'
  <2>1. PerConn(d)
    BY <1>n
  <2>2. CASE d = rx.conn
    <3>g. d \in Outb => app'[d] = IF /\ rx.err = "FAILED" /\ timer[rx.item].mtype = "OPEN_REP"
                                     /\ app[d] = "opening"
                                  THEN "gone" ELSE app[d]
      BY <1>g, <2>1, <2>2
    <3>1. LifeOf(d)'
      BY <2>1, <2>2, <3>g, <1>i, <1>k, <1>t, ItemFacts, <1>f, <1>o, <1>h, <1>r,
         ConnFacts DEF PerConn, ConnInv, LifeOf, AppOf, OwnAppOf, Unsent, ExpireOf, Expiring,
         ThreadInv, RxHolds, PacketPc, ExecPc
    <3>2. OpenOf(d)'
      BY <2>1, <2>2, <3>g, <1>i, <1>k, <1>t, ItemFacts, <1>f, <1>o, <1>h, <1>r,
         ConnFacts DEF PerConn, ConnInv, OpenOf, Active, Spent, LifeOf, AppOf, OwnAppOf, Unsent,
         ThreadInv, RxHolds, PacketPc, ExecPc
    <3>3. d \in Outb => AppOf(d)'
      BY <2>1, <2>2, <3>g, <1>i, <1>k, <1>t, ItemFacts, <1>f, <1>o, <1>h, <1>r,
         ConnFacts DEF PerConn, ConnInv, AppOf, OwnAppOf, Unsent, LifeOf, OpenOf, Active, Spent,
         ThreadInv, RxHolds, PacketPc, ExecPc
    <3>4. d \in Inb => ExpireOf(d)'
      BY <2>1, <2>2, <3>g, <1>i, <1>k, <1>t, ItemFacts, <1>f, <1>o, <1>h, <1>r,
         ConnFacts DEF PerConn, ConnInv, ExpireOf, Expiring, LifeOf, AppOf, OwnAppOf, Unsent,
         ThreadInv, RxHolds, PacketPc, ExecPc
    <3> QED
      BY <3>1, <3>2, <3>3, <3>4 DEF ConnInv
  <2>3. CASE d # rx.conn
    <3>1. Apart(d)
      BY <2>3, <1>g, <1>t, <1>f, <1>h, <1>r, ConnFacts DEF Apart
    <3> QED
      BY <1>3, <3>1, Elsewhere
  <2> QED
    BY <2>2, <2>3
<1> QED
  BY <1>1, <1>2, <1>3, <1>4 DEF IndInv

\* ecp_conn_close from handle_err: the executed item still holds its reference.
LEMMA ExeErrCloseInv ==
    ASSUME IndInv, ExeErrClose
    PROVE  IndInv'
<1>i. TypeOK /\ RefsCounted /\ ThreadInv
  BY DEF IndInv
<1>n. \A d \in Conn : PerConn(d)
  BY PerConnFacts
<1>k. rx.conn \in Conn
  BY <1>i, ConnFacts DEF ExeErrClose, ThreadInv, TypeOK, PacketPc, ExecPc
<1>c. reg[rx.conn] \/ ItemsOf(rx.conn) = {} \/ ItemsOf(rx.conn) \cap Collected # {} \/ RxHolds(rx.conn)
  BY <1>i DEF ExeErrClose, ThreadInv, ExecPc, ItemsOf, Collected
<1>s. PICK c \in Conn : c = rx.conn /\ TimerRemove(c)
  BY <1>k DEF ExeErrClose
<1>t. /\ timer' \in [Slot -> Item \cup {NoItem}]
      /\ refcount' \in [Conn -> Nat]
      /\ \A d \in Conn :
            /\ Cardinality(ItemsOf(d)') \in Nat
            /\ refcount'[d] - Cardinality(ItemsOf(d)') = refcount[d] - Cardinality(ItemsOf(d))
            /\ d # rx.conn => ItemsOf(d)' = ItemsOf(d) /\ refcount'[d] = refcount[d]
            /\ refcount'[d] <= refcount[d]
            /\ ItemsOf(d)' \subseteq ItemsOf(d)
            /\ d = rx.conn => ItemsOf(d)' = ItemsOf(d) \cap Collected
      /\ \A s \in Items' : s \in Items /\ timer'[s] = timer[s]
      /\ Collected' = Collected
      /\ UNCHANGED <<life, open, opened>>
  BY <1>i, <1>k, <1>c, <1>s, RemoveFacts
<1>f. /\ rx.pc = "err" /\ rx.conn \in Outb /\ app[rx.conn] = "opening"
      /\ UNCHANGED <<reg, table, keysInb, told, exp, leaked, crossed>>
  BY <1>i, <1>k, <1>t DEF ExeErrClose, TypeOK
<1>o. PerConn(rx.conn)
  BY <1>n, <1>k
<1>g. app' \in [Outb -> AppPc]
      /\ \A d \in Outb : app'[d] = IF d = rx.conn THEN "remove" ELSE app[d]
  BY <1>i, <1>k, <1>f, <1>o, ConnFacts DEF PerConn, ExeErrClose, TypeOK, AppPc, RxHolds,
     PacketPc, ExecPc
<1>r. /\ rx' \in Receiver /\ rx'.pc = "errclose" /\ rx'.conn = rx.conn
      /\ rx'.mtype = rx.mtype /\ rx'.item = rx.item /\ rx'.err = rx.err
  BY <1>i, <1>k, <1>f, RxFacts, ConnFacts DEF ExeErrClose, TypeOK, RxPc, PacketType,
     PacketPc, ExecPc
<1>1. TypeOK'
  BY <1>i, <1>k, <1>t, ItemFacts, <1>f, <1>o, <1>g, <1>r, ConnFacts DEF TypeOK, Conn
<1>2. RefsCounted'
  <2> SUFFICES ASSUME NEW d \in Conn
               PROVE  refcount'[d] = Cardinality(ItemsOf(d)')
                                     + (IF RxHolds(d)' THEN 1 ELSE 0) + leaked'[d]
    BY DEF RefsCounted
  <2>1. /\ refcount[d] = Cardinality(ItemsOf(d)) + (IF RxHolds(d) THEN 1 ELSE 0) + leaked[d]
        /\ Cardinality(ItemsOf(d)) \in Nat /\ refcount[d] \in Nat /\ leaked[d] \in Nat
    BY <1>i, ItemsFinite DEF RefsCounted, TypeOK
  <2>2. RxHolds(d)' <=> RxHolds(d)
    BY <1>f, <1>r DEF RxHolds, PacketPc, ExecPc
  <2>3. /\ leaked' \in [Conn -> Nat] /\ refcount' \in [Conn -> Nat]
        /\ Cardinality(ItemsOf(d)') \in Nat
        /\ refcount'[d] - Cardinality(ItemsOf(d)') - leaked'[d]
           = refcount[d] - Cardinality(ItemsOf(d)) - leaked[d]
    BY <1>i, <1>f, <1>t, <2>1 DEF TypeOK
  <2> QED
    BY <2>1, <2>2, <2>3
<1>3. ThreadInv'
  BY <1>i, <1>k, <1>t, ItemFacts, <1>f, <1>o, <1>g, <1>r, ConnFacts DEF ThreadInv,
     PerConn, ConnInv, AppOf, OwnAppOf, LifeOf, ExpireOf, Expiring, Unsent, RxHolds, PacketPc,
     ExecPc
<1>4. ASSUME NEW d \in Conn PROVE ConnInv(d)'
  <2>1. PerConn(d)
    BY <1>n
  <2>2. CASE d = rx.conn
    <3>g. /\ d \in Outb => app'[d] = "remove"
          /\ \A s \in ItemsOf(d)' : s \in ItemsOf(d) /\ s \in Collected /\ timer'[s] = timer[s]
          /\ \A s \in ItemsOf(d)' : timer[s].exec
          /\ refcount'[d] <= refcount[d] /\ refcount'[d] \in Nat
      BY <1>g, <1>t, ItemFacts, <2>1, <2>2
    <3>1. LifeOf(d)'
      BY <2>1, <2>2, <3>g, <1>i, <1>k, <1>t, ItemFacts, <1>f, <1>o, <1>r, ConnFacts DEF
         PerConn, ConnInv, LifeOf, AppOf, OwnAppOf, Unsent, ExpireOf, Expiring, ThreadInv,
         RxHolds, PacketPc, ExecPc
    <3>2. OpenOf(d)'
      BY <2>1, <2>2, <3>g, <1>i, <1>k, <1>t, ItemFacts, <1>f, <1>o, <1>r, ConnFacts DEF
         PerConn, ConnInv, OpenOf, Active, Spent, LifeOf, AppOf, OwnAppOf, Unsent, ThreadInv,
         RxHolds, PacketPc, ExecPc
    <3>3. d \in Outb => AppOf(d)'
      BY <2>1, <2>2, <3>g, <1>i, <1>k, <1>t, ItemFacts, <1>f, <1>o, <1>r, ConnFacts DEF
         PerConn, ConnInv, AppOf, OwnAppOf, Unsent, LifeOf, OpenOf, Active, Spent, ThreadInv,
         RxHolds, PacketPc, ExecPc
    <3>4. d \in Inb => ExpireOf(d)'
      BY <2>1, <2>2, <3>g, <1>i, <1>k, <1>t, ItemFacts, <1>f, <1>o, <1>r, ConnFacts DEF
         PerConn, ConnInv, ExpireOf, Expiring, LifeOf, AppOf, OwnAppOf, Unsent, ThreadInv,
         RxHolds, PacketPc, ExecPc
    <3> QED
      BY <3>1, <3>2, <3>3, <3>4 DEF ConnInv
  <2>3. CASE d # rx.conn
    <3>1. Apart(d)
      BY <2>3, <1>g, <1>t, ItemFacts, <1>f, <1>r, ConnFacts DEF Apart
    <3> QED
      BY <1>3, <3>1, Elsewhere
  <2> QED
    BY <2>2, <2>3
<1> QED
  BY <1>1, <1>2, <1>3, <1>4 DEF IndInv

\* handle_err closed the connection and returns.
LEMMA ExeErrClosedInv ==
    ASSUME IndInv, ExeErrClosed
    PROVE  IndInv'
<1>i. TypeOK /\ RefsCounted /\ ThreadInv
  BY DEF IndInv
<1>n. \A d \in Conn : PerConn(d)
  BY PerConnFacts
<1>k. rx.conn \in Conn
  BY <1>i, ConnFacts DEF ExeErrClosed, ThreadInv, TypeOK, PacketPc, ExecPc
<1>t. timer' = timer /\ Items' = Items /\ Collected' = Collected
      /\ \A d : ItemsOf(d)' = ItemsOf(d)
  BY TimerStable DEF ExeErrClosed
<1>f. /\ rx.pc = "errclose" /\ app[rx.conn] = "closed"
      /\ UNCHANGED <<life, reg, open, refcount, table, keysInb, app, told, exp, opened, leaked, crossed>>
  BY <1>i, <1>k, <1>t DEF ExeErrClosed, TypeOK
<1>o. PerConn(rx.conn)
  BY <1>n, <1>k
<1>r. /\ rx' \in Receiver /\ rx'.pc = "xdec" /\ rx'.conn = rx.conn
      /\ rx'.mtype = rx.mtype /\ rx'.item = rx.item /\ rx'.err = rx.err
  BY <1>i, <1>k, <1>f, RxFacts, ConnFacts DEF ExeErrClosed, TypeOK, RxPc, PacketType,
     PacketPc, ExecPc
<1>1. TypeOK'
  BY <1>i, <1>k, <1>t, ItemFacts, <1>f, <1>o, <1>r, ConnFacts DEF TypeOK, Conn
<1>2. RefsCounted'
  <2>1. \A d \in Conn : RxHolds(d)' <=> RxHolds(d)
    BY <1>i, <1>k, <1>f, <1>r, ConnFacts DEF RxHolds, ThreadInv, PacketPc, ExecPc
  <2> QED
    BY <2>1, <1>i, <1>t, <1>f, RefsStay
<1>3. ThreadInv'
  BY <1>i, <1>k, <1>t, ItemFacts, <1>f, <1>o, <1>r, ConnFacts DEF ThreadInv, PerConn,
     ConnInv, AppOf, OwnAppOf, LifeOf, ExpireOf, Expiring, Unsent, RxHolds, PacketPc, ExecPc
<1>4. ASSUME NEW d \in Conn PROVE ConnInv(d)'
  <2>1. PerConn(d)
    BY <1>n
  <2>2. CASE d = rx.conn
    <3>1. LifeOf(d)'
      BY <2>1, <2>2, <1>i, <1>k, <1>t, ItemFacts, <1>f, <1>o, <1>r, ConnFacts DEF
         PerConn, ConnInv, LifeOf, AppOf, OwnAppOf, Unsent, ExpireOf, Expiring, ThreadInv,
         RxHolds, PacketPc, ExecPc
    <3>2. OpenOf(d)'
      BY <2>1, <2>2, <1>i, <1>k, <1>t, ItemFacts, <1>f, <1>o, <1>r, ConnFacts DEF
         PerConn, ConnInv, OpenOf, Active, Spent, LifeOf, AppOf, OwnAppOf, Unsent, ThreadInv,
         RxHolds, PacketPc, ExecPc
    <3>3. d \in Outb => AppOf(d)'
      BY <2>1, <2>2, <1>i, <1>k, <1>t, ItemFacts, <1>f, <1>o, <1>r, ConnFacts DEF
         PerConn, ConnInv, AppOf, OwnAppOf, Unsent, LifeOf, OpenOf, Active, Spent, ThreadInv,
         RxHolds, PacketPc, ExecPc
    <3>4. d \in Inb => ExpireOf(d)'
      BY <2>1, <2>2, <1>i, <1>k, <1>t, ItemFacts, <1>f, <1>o, <1>r, ConnFacts DEF
         PerConn, ConnInv, ExpireOf, Expiring, LifeOf, AppOf, OwnAppOf, Unsent, ThreadInv,
         RxHolds, PacketPc, ExecPc
    <3> QED
      BY <3>1, <3>2, <3>3, <3>4 DEF ConnInv
  <2>3. CASE d # rx.conn
    <3>1. Apart(d)
      BY <2>3, <1>t, <1>f, <1>r, ConnFacts DEF Apart
    <3> QED
      BY <1>3, <3>1, Elsewhere
  <2> QED
    BY <2>2, <2>3
<1> QED
  BY <1>1, <1>2, <1>3, <1>4 DEF IndInv

\* The executed item goes with its reference; the last one destroys the connection.
LEMMA ExeDecInv ==
    ASSUME IndInv, ExeDec
    PROVE  IndInv'
<1>i. TypeOK /\ RefsCounted /\ ThreadInv
  BY DEF IndInv
<1>n. \A d \in Conn : PerConn(d)
  BY PerConnFacts
<1>k. rx.conn \in Conn
  BY <1>i, ConnFacts DEF ExeDec, ThreadInv, TypeOK, PacketPc, ExecPc
<1>e. rx.item \in Collected /\ timer[rx.item].conn = rx.conn /\ rx.item \in ItemsOf(rx.conn)
  BY <1>i DEF ExeDec, ThreadInv, ExecPc, ItemsOf, Collected
<1>s. PICK c \in Conn : c = rx.conn
  BY <1>k
<1>u. PICK x \in ItemsOf(c) :
         x = rx.item /\ timer' = [timer EXCEPT ![x] = NoItem] /\ DropRef(c)
  BY <1>s, <1>e DEF ExeDec
<1>t. /\ timer' \in [Slot -> Item \cup {NoItem}]
      /\ refcount' \in [Conn -> Nat]
      /\ \A d \in Conn :
            /\ Cardinality(ItemsOf(d)') \in Nat
            /\ refcount'[d] - Cardinality(ItemsOf(d)') = refcount[d] - Cardinality(ItemsOf(d))
            /\ d # rx.conn => ItemsOf(d)' = ItemsOf(d) /\ refcount'[d] = refcount[d]
            /\ ItemsOf(d)' \subseteq ItemsOf(d)
      /\ \A s \in Items' : s \in Items /\ timer'[s] = timer[s]
      /\ \A d : d = rx.conn => ItemsOf(d)' = ItemsOf(d) \ {rx.item}
      /\ refcount'[rx.conn] = refcount[rx.conn] - 1
      /\ Collected' = Collected \ {rx.item}
  <2>1. /\ timer' \in [Slot -> Item \cup {NoItem}]
        /\ refcount' \in [Conn -> Nat]
        /\ \A d \in Conn :
              /\ Cardinality(ItemsOf(d)') \in Nat
              /\ refcount'[d] - Cardinality(ItemsOf(d)')
                 = refcount[d] - Cardinality(ItemsOf(d))
              /\ d # c => ItemsOf(d)' = ItemsOf(d) /\ refcount'[d] = refcount[d]
              /\ ItemsOf(d)' \subseteq ItemsOf(d)
        /\ ItemsOf(c)' = ItemsOf(c) \ {x}
        /\ refcount'[c] = refcount[c] - 1
        /\ Items' = Items \ {x}
        /\ \A q \in Items' : timer'[q] = timer[q]
    BY <1>i, <1>u, DropFacts
  <2>2. Collected' = Collected \ {x}
    BY <2>1 DEF Collected
  <2> QED
    BY <1>s, <1>u, <2>1, <2>2
<1>f. /\ rx.pc = "xdec"
      /\ UNCHANGED <<life, reg, open, table, keysInb, app, told, exp, opened, leaked, crossed>>
  BY <1>i, <1>k, <1>t DEF ExeDec, LastRef, TypeOK
<1>o. PerConn(rx.conn)
  BY <1>n, <1>k
<1>r. /\ rx' \in Receiver
      /\ IF refcount[rx.conn] = 1 /\ ~reg[rx.conn]
         THEN rx'.pc = "xdestroy" /\ rx'.conn = rx.conn
         ELSE rx'.pc = "next" /\ rx'.conn = NoConn
  BY <1>i, <1>k, <1>f, RxFacts, ConnFacts DEF ExeDec, LastRef, TypeOK, RxPc, PacketType,
     PacketPc, ExecPc
<1>p0. refcount[rx.conn] = 1 /\ ~reg[rx.conn] /\ rx.conn \in Outb \ crossed => app[rx.conn] \in {"closed", "gone"}
  BY <1>e, <1>f, <1>o, <1>k, ConnFacts DEF PerConn, ConnInv, AppOf, OwnAppOf, AppPc, Unsent
<1>1. TypeOK'
  BY <1>i, <1>k, <1>t, ItemFacts, <1>f, <1>o, <1>r, <1>p0, ConnFacts DEF TypeOK, Conn
<1>2. RefsCounted'
  <2> SUFFICES ASSUME NEW d \in Conn
               PROVE  refcount'[d] = Cardinality(ItemsOf(d)')
                                     + (IF RxHolds(d)' THEN 1 ELSE 0) + leaked'[d]
    BY DEF RefsCounted
  <2>1. /\ refcount[d] = Cardinality(ItemsOf(d)) + (IF RxHolds(d) THEN 1 ELSE 0) + leaked[d]
        /\ Cardinality(ItemsOf(d)) \in Nat /\ refcount[d] \in Nat /\ leaked[d] \in Nat
    BY <1>i, ItemsFinite DEF RefsCounted, TypeOK
  <2>2. RxHolds(d)' <=> RxHolds(d)
    BY <1>f, <1>r DEF RxHolds, PacketPc, ExecPc
  <2>3. /\ leaked' \in [Conn -> Nat] /\ refcount' \in [Conn -> Nat]
        /\ Cardinality(ItemsOf(d)') \in Nat
        /\ refcount'[d] - Cardinality(ItemsOf(d)') - leaked'[d]
           = refcount[d] - Cardinality(ItemsOf(d)) - leaked[d]
    BY <1>i, <1>f, <1>t, <2>1 DEF TypeOK
  <2> QED
    BY <2>1, <2>2, <2>3
<1>3. ThreadInv'
  BY <1>i, <1>k, <1>t, ItemFacts, <1>f, <1>o, <1>r, <1>p0, ConnFacts DEF ThreadInv,
     PerConn, ConnInv, AppOf, OwnAppOf, LifeOf, ExpireOf, Expiring, Unsent, RxHolds, PacketPc,
     ExecPc
<1>4. ASSUME NEW d \in Conn PROVE ConnInv(d)'
  <2>1. PerConn(d)
    BY <1>n
  <2>2. CASE d = rx.conn
    <3>g. /\ \A s \in ItemsOf(d)' : s \in ItemsOf(d) /\ timer'[s] = timer[s]
          /\ refcount'[d] \in Nat
          /\ ItemsOf(d)' = ItemsOf(d) \ {rx.item} /\ refcount'[d] = refcount[d] - 1
      BY <1>t, ItemFacts, <2>1, <2>2
    <3>1. LifeOf(d)'
      BY <2>1, <2>2, <3>g, <1>i, <1>k, <1>t, ItemFacts, <1>f, <1>o, <1>r, <1>p0,
         ConnFacts DEF PerConn, ConnInv, LifeOf, AppOf, OwnAppOf, Unsent, ExpireOf, Expiring,
         ThreadInv, RxHolds, PacketPc, ExecPc
    <3>2. OpenOf(d)'
      BY <2>1, <2>2, <3>g, <1>i, <1>k, <1>t, ItemFacts, <1>f, <1>o, <1>r, <1>p0,
         ConnFacts DEF PerConn, ConnInv, OpenOf, Active, Spent, LifeOf, AppOf, OwnAppOf, Unsent,
         ThreadInv, RxHolds, PacketPc, ExecPc
    <3>3. d \in Outb => AppOf(d)'
      BY <2>1, <2>2, <3>g, <1>i, <1>k, <1>t, ItemFacts, <1>f, <1>o, <1>r, <1>p0,
         ConnFacts DEF PerConn, ConnInv, AppOf, OwnAppOf, Unsent, LifeOf, OpenOf, Active, Spent,
         ThreadInv, RxHolds, PacketPc, ExecPc
    <3>4. d \in Inb => ExpireOf(d)'
      BY <2>1, <2>2, <3>g, <1>i, <1>k, <1>t, ItemFacts, <1>f, <1>o, <1>r, <1>p0,
         ConnFacts DEF PerConn, ConnInv, ExpireOf, Expiring, LifeOf, AppOf, OwnAppOf, Unsent,
         ThreadInv, RxHolds, PacketPc, ExecPc
    <3> QED
      BY <3>1, <3>2, <3>3, <3>4 DEF ConnInv
  <2>3. CASE d # rx.conn
    <3>1. Apart(d)
      BY <2>3, <1>t, ItemFacts, <1>f, <1>r, ConnFacts DEF Apart
    <3> QED
      BY <1>3, <3>1, Elsewhere
  <2> QED
    BY <2>2, <2>3
<1> QED
  BY <1>1, <1>2, <1>3, <1>4 DEF IndInv

\* conn_close by the timer after the last reference.
LEMMA ExeDestroyInv ==
    ASSUME IndInv, ExeDestroy
    PROVE  IndInv'
<1>i. TypeOK /\ RefsCounted /\ ThreadInv
  BY DEF IndInv
<1>n. \A d \in Conn : PerConn(d)
  BY PerConnFacts
<1>k. rx.conn \in Conn
  BY <1>i, ConnFacts DEF ExeDestroy, ThreadInv, TypeOK, PacketPc, ExecPc
<1>t. timer' = timer /\ Items' = Items /\ Collected' = Collected
      /\ \A d : ItemsOf(d)' = ItemsOf(d)
  BY TimerStable DEF ExeDestroy, ConnClose
<1>f. /\ rx.pc = "xdestroy"
      /\ UNCHANGED <<reg, refcount, table, keysInb, app, told, exp, leaked, crossed>>
  BY <1>i, <1>k, <1>t DEF ExeDestroy, ConnClose, TypeOK
<1>o. PerConn(rx.conn)
  BY <1>n, <1>k
<1>g. /\ life' \in [Conn -> {"free", "live", "dead"}]
      /\ \A d \in Conn : life'[d] = IF d = rx.conn THEN IF rx.conn \in Inb THEN "free" ELSE "dead" ELSE life[d]
      /\ open' \in [Conn -> BOOLEAN]
      /\ \A d \in Conn : open'[d] = IF d = rx.conn THEN FALSE ELSE open[d]
      /\ opened' \in [Conn -> BOOLEAN]
      /\ \A d \in Conn : opened'[d] = IF d = rx.conn THEN (opened[rx.conn] /\ ~open[rx.conn]) ELSE opened[d]
  BY <1>i, <1>k, <1>f, <1>o, ConnFacts DEF PerConn, ExeDestroy, ConnClose, TypeOK,
     AppPc, RxHolds, PacketPc, ExecPc
<1>r. /\ rx' \in Receiver /\ rx'.pc = "next" /\ rx'.conn = NoConn
      /\ rx'.mtype = "DROP" /\ rx'.item = 1 /\ rx'.err = "TIMEOUT"
  BY <1>i, <1>k, <1>f, RxFacts, ConnFacts DEF ExeDestroy, ConnClose, TypeOK, RxPc,
     PacketType, PacketPc, ExecPc
<1>1. TypeOK'
  BY <1>i, <1>k, <1>t, ItemFacts, <1>f, <1>o, <1>g, <1>r, ConnFacts DEF TypeOK, Conn
<1>2. RefsCounted'
  <2>1. \A d \in Conn : RxHolds(d)' <=> RxHolds(d)
    BY <1>i, <1>k, <1>f, <1>r, ConnFacts DEF RxHolds, ThreadInv, PacketPc, ExecPc
  <2> QED
    BY <2>1, <1>i, <1>t, <1>f, RefsStay
<1>3. ThreadInv'
  BY <1>i, <1>k, <1>t, ItemFacts, <1>f, <1>o, <1>g, <1>r, ConnFacts DEF ThreadInv,
     PerConn, ConnInv, AppOf, OwnAppOf, LifeOf, ExpireOf, Expiring, Unsent, RxHolds, PacketPc,
     ExecPc
<1>4. ASSUME NEW d \in Conn PROVE ConnInv(d)'
  <2>1. PerConn(d)
    BY <1>n
  <2>2. CASE d = rx.conn
    <3>g. /\ life'[d] = IF rx.conn \in Inb THEN "free" ELSE "dead"
          /\ open'[d] = FALSE
          /\ opened'[d] = (opened[rx.conn] /\ ~open[rx.conn])
      BY <1>g, <2>1, <2>2
    <3>1. LifeOf(d)'
      BY <2>1, <2>2, <3>g, <1>i, <1>k, <1>t, ItemFacts, <1>f, <1>o, <1>r, ConnFacts DEF
         PerConn, ConnInv, LifeOf, AppOf, OwnAppOf, Unsent, ExpireOf, Expiring, ThreadInv,
         RxHolds, PacketPc, ExecPc
    <3>2. OpenOf(d)'
      BY <2>1, <2>2, <3>g, <1>i, <1>k, <1>t, ItemFacts, <1>f, <1>o, <1>r, ConnFacts DEF
         PerConn, ConnInv, OpenOf, Active, Spent, LifeOf, AppOf, OwnAppOf, Unsent, ThreadInv,
         RxHolds, PacketPc, ExecPc
    <3>3. d \in Outb => AppOf(d)'
      BY <2>1, <2>2, <3>g, <1>i, <1>k, <1>t, ItemFacts, <1>f, <1>o, <1>r, ConnFacts DEF
         PerConn, ConnInv, AppOf, OwnAppOf, Unsent, LifeOf, OpenOf, Active, Spent, ThreadInv,
         RxHolds, PacketPc, ExecPc
    <3>4. d \in Inb => ExpireOf(d)'
      BY <2>1, <2>2, <3>g, <1>i, <1>k, <1>t, ItemFacts, <1>f, <1>o, <1>r, ConnFacts DEF
         PerConn, ConnInv, ExpireOf, Expiring, LifeOf, AppOf, OwnAppOf, Unsent, ThreadInv,
         RxHolds, PacketPc, ExecPc
    <3> QED
      BY <3>1, <3>2, <3>3, <3>4 DEF ConnInv
  <2>3. CASE d # rx.conn
    <3>1. Apart(d)
      BY <2>3, <1>g, <1>t, <1>f, <1>r, ConnFacts DEF Apart
    <3> QED
      BY <1>3, <3>1, Elsewhere
  <2> QED
    BY <2>2, <2>3
<1> QED
  BY <1>1, <1>2, <1>3, <1>4 DEF IndInv

\* Silent inbound connections move from keys_inb to to_remove.
LEMMA ExpireScanInv ==
    ASSUME IndInv, NEW S \in SUBSET keysInb, ExpireScan(S)
    PROVE  IndInv'
<1>i. TypeOK /\ RefsCounted /\ ThreadInv
  BY DEF IndInv
<1>n. \A d \in Conn : PerConn(d)
  BY PerConnFacts
<1>t. timer' = timer /\ Items' = Items /\ Collected' = Collected
      /\ \A d : ItemsOf(d)' = ItemsOf(d)
  BY TimerStable DEF ExpireScan
<1>f. /\ exp.pc = "idle" /\ exp.todo = {}
      /\ keysInb' = keysInb \ S
      /\ exp' \in [pc : {"idle", "remove", "destroy"}, todo : SUBSET Inb, conn : Inb \cup {NoConn}]
      /\ exp'.pc = exp.pc /\ exp'.conn = exp.conn /\ exp'.todo = S
      /\ UNCHANGED <<life, reg, open, refcount, table, rx, app, told, opened, leaked, crossed>>
  BY <1>i, <1>t DEF ExpireScan, TypeOK
<1>1. TypeOK'
  BY <1>i, <1>t, ItemFacts, <1>f, ConnFacts DEF TypeOK, Conn
<1>2. RefsCounted'
  <2>1. \A d \in Conn : RxHolds(d)' <=> RxHolds(d)
    BY <1>i, <1>f, ConnFacts DEF RxHolds, ThreadInv, PacketPc, ExecPc
  <2> QED
    BY <2>1, <1>i, <1>t, <1>f, RefsStay
<1>3. ThreadInv'
  BY <1>i, <1>t, ItemFacts, <1>f, ConnFacts DEF ThreadInv, PerConn, ConnInv, AppOf, OwnAppOf,
     LifeOf, ExpireOf, Expiring, Unsent, RxHolds, PacketPc, ExecPc
<1>4. ASSUME NEW d \in Conn PROVE ConnInv(d)'
  <2>1. PerConn(d)
    BY <1>n
  <2>2. LifeOf(d)'
    BY <2>1, <1>i, <1>t, ItemFacts, <1>f, ConnFacts DEF PerConn, ConnInv, LifeOf, AppOf, OwnAppOf,
       Unsent, ExpireOf, Expiring, ThreadInv, RxHolds, PacketPc, ExecPc
  <2>3. OpenOf(d)'
    BY <2>1, <1>i, <1>t, ItemFacts, <1>f, ConnFacts DEF PerConn, ConnInv, OpenOf,
       Active, Spent, LifeOf, AppOf, OwnAppOf, Unsent, ThreadInv, RxHolds, PacketPc, ExecPc
  <2>4. d \in Outb => AppOf(d)'
    BY <2>1, <1>i, <1>t, ItemFacts, <1>f, ConnFacts DEF PerConn, ConnInv, AppOf, OwnAppOf, Unsent,
       LifeOf, OpenOf, Active, Spent, ThreadInv, RxHolds, PacketPc, ExecPc
  <2>5. d \in Inb => ExpireOf(d)'
    BY <2>1, <1>i, <1>t, ItemFacts, <1>f, ConnFacts DEF PerConn, ConnInv, ExpireOf,
       Expiring, LifeOf, AppOf, OwnAppOf, Unsent, ThreadInv, RxHolds, PacketPc, ExecPc
  <2> QED
    BY <2>2, <2>3, <2>4, <2>5 DEF ConnInv
<1> QED
  BY <1>1, <1>2, <1>3, <1>4 DEF IndInv

\* _ecp_conn_close by the expiry takes the waiting items of a registered connection.
LEMMA ExpireCloseInv ==
    ASSUME IndInv, NEW c \in Inb, ExpireClose(c)
    PROVE  IndInv'
<1>i. TypeOK /\ RefsCounted /\ ThreadInv
  BY DEF IndInv
<1>n. \A d \in Conn : PerConn(d)
  BY PerConnFacts
<1>k. c \in Conn
  BY ConnFacts
<1>c. reg[c] \/ ItemsOf(c) = {} \/ ItemsOf(c) \cap Collected # {} \/ RxHolds(c)
  BY <1>n, <1>k DEF ExpireClose, PerConn, ConnInv, ExpireOf
<1>s. TimerRemove(c)
  BY DEF ExpireClose
<1>t. /\ timer' \in [Slot -> Item \cup {NoItem}]
      /\ refcount' \in [Conn -> Nat]
      /\ \A d \in Conn :
            /\ Cardinality(ItemsOf(d)') \in Nat
            /\ refcount'[d] - Cardinality(ItemsOf(d)') = refcount[d] - Cardinality(ItemsOf(d))
            /\ d # c => ItemsOf(d)' = ItemsOf(d) /\ refcount'[d] = refcount[d]
            /\ refcount'[d] <= refcount[d]
            /\ ItemsOf(d)' \subseteq ItemsOf(d)
            /\ d = c => ItemsOf(d)' = ItemsOf(d) \cap Collected
      /\ \A s \in Items' : s \in Items /\ timer'[s] = timer[s]
      /\ Collected' = Collected
      /\ UNCHANGED <<life, open, opened>>
  BY <1>i, <1>k, <1>c, <1>s, RemoveFacts
<1>f. /\ exp.pc = "idle" /\ c \in exp.todo
      /\ exp' \in [pc : {"idle", "remove", "destroy"}, todo : SUBSET Inb, conn : Inb \cup {NoConn}]
      /\ exp'.todo = exp.todo \ {c}
      /\ exp'.pc = "remove" /\ exp'.conn = c
      /\ UNCHANGED <<reg, table, keysInb, rx, app, told, leaked, crossed>>
  BY <1>i, <1>k, <1>t DEF ExpireClose, TypeOK
<1>o. PerConn(c)
  BY <1>n, <1>k
<1>1. TypeOK'
  BY <1>i, <1>k, <1>t, ItemFacts, <1>f, <1>o, ConnFacts DEF TypeOK, Conn
<1>2. RefsCounted'
  <2> SUFFICES ASSUME NEW d \in Conn
               PROVE  refcount'[d] = Cardinality(ItemsOf(d)')
                                     + (IF RxHolds(d)' THEN 1 ELSE 0) + leaked'[d]
    BY DEF RefsCounted
  <2>1. /\ refcount[d] = Cardinality(ItemsOf(d)) + (IF RxHolds(d) THEN 1 ELSE 0) + leaked[d]
        /\ Cardinality(ItemsOf(d)) \in Nat /\ refcount[d] \in Nat /\ leaked[d] \in Nat
    BY <1>i, ItemsFinite DEF RefsCounted, TypeOK
  <2>2. RxHolds(d)' <=> RxHolds(d)
    BY <1>f DEF RxHolds, PacketPc, ExecPc
  <2>3. /\ leaked' \in [Conn -> Nat] /\ refcount' \in [Conn -> Nat]
        /\ Cardinality(ItemsOf(d)') \in Nat
        /\ refcount'[d] - Cardinality(ItemsOf(d)') - leaked'[d]
           = refcount[d] - Cardinality(ItemsOf(d)) - leaked[d]
    BY <1>i, <1>f, <1>t, <2>1 DEF TypeOK
  <2> QED
    BY <2>1, <2>2, <2>3
<1>3. ThreadInv'
  <2>1. CASE rx.conn = c
    BY <2>1, <1>i, <1>k, <1>t, ItemFacts, <1>f, <1>o, ConnFacts DEF ThreadInv, PerConn, ConnInv, AppOf, OwnAppOf, ExpireOf, OpenOf, MayClose, Unsent, RxHolds,
       PacketPc, ExecPc
  <2>2. CASE rx.conn # c
    <3>1. /\ rx.conn \in Conn => refcount'[rx.conn] = refcount[rx.conn]
          /\ rx.conn \in Outb => app'[rx.conn] = app[rx.conn]
      BY <2>2, <1>t, <1>f, ConnFacts
    <3>2. ASSUME rx.pc \in ExecPc
          PROVE  rx.item \in ItemsOf(rx.conn) /\ rx.item \in Collected
                 /\ timer'[rx.item] = timer[rx.item]
      <4>1. rx.conn \in Conn /\ rx.item \in Collected /\ timer[rx.item].conn = rx.conn
        BY <1>i, <3>2 DEF ThreadInv, ExecPc
      <4>2. rx.item \in ItemsOf(rx.conn)
        BY <4>1, ItemFacts
      <4>3. \A d : d = rx.conn => ItemsOf(d)' = ItemsOf(d)
        BY <4>1, <2>2, <1>t
      <4>4. rx.item \in Items'
        BY <4>2, <4>3, ItemFacts
      <4> QED
        BY <4>1, <4>2, <4>4, <1>t, ItemFacts
    <3> QED
      BY <2>2, <3>1, <3>2, <1>i, <1>t, <1>f, ConnFacts DEF ThreadInv, ExecPc
  <2> QED
    BY <2>1, <2>2
<1>4. ASSUME NEW d \in Conn PROVE ConnInv(d)'
  <2>1. PerConn(d)
    BY <1>n
  <2>2. CASE d = c
    <3>g. /\ \A s \in ItemsOf(d)' : s \in ItemsOf(d) /\ s \in Collected /\ timer'[s] = timer[s]
          /\ \A s \in ItemsOf(d)' : timer[s].exec
          /\ refcount'[d] <= refcount[d] /\ refcount'[d] \in Nat
      BY <1>t, ItemFacts, <2>1, <2>2
    <3>1. LifeOf(d)'
      BY <2>1, <2>2, <3>g, <1>i, <1>k, <1>t, ItemFacts, <1>f, <1>o, ConnFacts DEF
         PerConn, ConnInv, LifeOf, AppOf, OwnAppOf, Unsent, ExpireOf, Expiring, ThreadInv,
         RxHolds, PacketPc, ExecPc
    <3>2. OpenOf(d)'
      BY <2>1, <2>2, <3>g, <1>i, <1>k, <1>t, ItemFacts, <1>f, <1>o, ConnFacts DEF
         PerConn, ConnInv, OpenOf, Active, Spent, LifeOf, AppOf, OwnAppOf, Unsent, ThreadInv,
         RxHolds, PacketPc, ExecPc
    <3>3. d \in Outb => AppOf(d)'
      BY <2>1, <2>2, <3>g, <1>i, <1>k, <1>t, ItemFacts, <1>f, <1>o, ConnFacts DEF
         PerConn, ConnInv, AppOf, OwnAppOf, Unsent, LifeOf, OpenOf, Active, Spent, ThreadInv,
         RxHolds, PacketPc, ExecPc
    <3>4. d \in Inb => ExpireOf(d)'
      BY <2>1, <2>2, <3>g, <1>i, <1>k, <1>t, ItemFacts, <1>f, <1>o, ConnFacts DEF
         PerConn, ConnInv, ExpireOf, Expiring, LifeOf, AppOf, OwnAppOf, Unsent, ThreadInv,
         RxHolds, PacketPc, ExecPc
    <3> QED
      BY <3>1, <3>2, <3>3, <3>4 DEF ConnInv
  <2>3. CASE d # c
    <3>0. exp.conn = NoConn
      BY <1>i, <1>f DEF ThreadInv
    <3>1. Apart(d)
      BY <2>3, <3>0, <1>t, ItemFacts, <1>f, ConnFacts DEF Apart
    <3> QED
      BY <1>3, <3>1, Elsewhere
  <2> QED
    BY <2>2, <2>3
<1> QED
  BY <1>1, <1>2, <1>3, <1>4 DEF IndInv

\* _ecp_conn_close by the expiry: it destroys only what nobody holds.
LEMMA ExpireRemoveInv ==
    ASSUME IndInv, ExpireRemove
    PROVE  IndInv'
<1>i. TypeOK /\ RefsCounted /\ ThreadInv
  BY DEF IndInv
<1>n. \A d \in Conn : PerConn(d)
  BY PerConnFacts
<1>k. exp.conn \in Conn
  BY <1>i, ConnFacts DEF ExpireRemove, ThreadInv, TypeOK, PacketPc, ExecPc
<1>t. timer' = timer /\ Items' = Items /\ Collected' = Collected
      /\ \A d : ItemsOf(d)' = ItemsOf(d)
  BY TimerStable DEF ExpireRemove, ConnRemove, ExpireDone
<1>f. /\ exp.pc = "remove" /\ exp.conn \in Inb
      /\ exp' \in [pc : {"idle", "remove", "destroy"}, todo : SUBSET Inb, conn : Inb \cup {NoConn}]
      /\ exp'.todo = exp.todo
      /\ IF refcount[exp.conn] = 0 THEN exp'.pc = "destroy" /\ exp'.conn = exp.conn
                                   ELSE exp'.pc = "idle" /\ exp'.conn = NoConn
      /\ UNCHANGED <<life, open, refcount, keysInb, rx, app, told, opened, leaked, crossed>>
  BY <1>i, <1>k, <1>t DEF ExpireRemove, ConnRemove, ExpireDone, TypeOK, LifeOf,
     ThreadInv
<1>o. PerConn(exp.conn)
  BY <1>n, <1>k
<1>g. reg' \in [Conn -> BOOLEAN]
      /\ \A d \in Conn : reg'[d] = IF d = exp.conn THEN FALSE ELSE reg[d]
  BY <1>i, <1>k, <1>f, <1>o, ConnFacts DEF PerConn, ExpireRemove, ConnRemove,
     ExpireDone, TypeOK, AppPc, RxHolds, PacketPc, ExecPc, LifeOf, ThreadInv
<1>h. table' = table \ {exp.conn}
  BY <1>i, <1>k, <1>f, <1>o, ConnFacts DEF PerConn, ConnInv, LifeOf, ExpireRemove,
     ConnRemove, ExpireDone, TypeOK, AppPc, RxHolds, PacketPc, ExecPc, LifeOf, ThreadInv
<1>p0. refcount[exp.conn] = 0 => rx.conn # exp.conn
  BY <1>k, <1>f, <1>o, LastFacts DEF PerConn, ConnInv, ExpireOf
<1>p1. /\ rx.pc \in {"reset", "reinit", "reinsert"} =>
              /\ rx.item \in Active(rx.conn)
              /\ rx.conn \in Outb
              /\ rx.conn \in crossed \/ app[rx.conn] \in {"opening", "gone"}
              /\ ~open[rx.conn] /\ rx.conn \notin told
  BY ResetFacts
<1>1. TypeOK'
  BY <1>i, <1>k, <1>t, ItemFacts, <1>f, <1>o, <1>g, <1>h, <1>p0, <1>p1, ConnFacts DEF
     TypeOK, Conn
<1>2. RefsCounted'
  <2>1. \A d \in Conn : RxHolds(d)' <=> RxHolds(d)
    BY <1>i, <1>k, <1>f, ConnFacts DEF RxHolds, ThreadInv, PacketPc, ExecPc
  <2> QED
    BY <2>1, <1>i, <1>t, <1>f, RefsStay
<1>3. ThreadInv'
  <2>1. rx.pc # "reinsert" \/ rx.conn # exp.conn
    BY <1>f, <1>p1, ConnFacts
  <2>2. /\ rx.conn \in Conn => reg'[rx.conn] = reg[rx.conn] \/ (rx.conn = exp.conn /\ ~reg'[rx.conn])
        /\ rx.conn \notin table => rx.conn \notin table'
    BY <1>g, <1>h
  <2>3. exp'.pc \in {"idle", "remove", "destroy"} /\ (exp'.pc = "idle" <=> exp'.conn = NoConn)
    BY <1>f, ConnFacts
  <2> QED
    BY <2>1, <2>2, <2>3, <1>i, <1>t, <1>f, ConnFacts DEF ThreadInv, ExecPc, PacketPc
<1>4. ASSUME NEW d \in Conn PROVE ConnInv(d)'
  <2>1. PerConn(d)
    BY <1>n
  <2>2. CASE d = exp.conn
    <3>g. reg'[d] = FALSE
      BY <1>g, <2>1, <2>2
    <3>1. LifeOf(d)'
      BY <2>1, <2>2, <3>g, <1>i, <1>k, <1>t, ItemFacts, <1>f, <1>o, <1>h, <1>p0, <1>p1,
         ConnFacts DEF PerConn, ConnInv, LifeOf, AppOf, OwnAppOf, Unsent, ExpireOf, Expiring,
         ThreadInv, RxHolds, PacketPc, ExecPc
    <3>2. OpenOf(d)'
      BY <2>1, <2>2, <3>g, <1>i, <1>k, <1>t, ItemFacts, <1>f, <1>o, <1>h, <1>p0, <1>p1,
         ConnFacts DEF PerConn, ConnInv, OpenOf, Active, Spent, LifeOf, AppOf, OwnAppOf, Unsent,
         ThreadInv, RxHolds, PacketPc, ExecPc
    <3>3. d \in Outb => AppOf(d)'
      BY <2>1, <2>2, <3>g, <1>i, <1>k, <1>t, ItemFacts, <1>f, <1>o, <1>h, <1>p0, <1>p1,
         ConnFacts DEF PerConn, ConnInv, AppOf, OwnAppOf, Unsent, LifeOf, OpenOf, Active, Spent,
         ThreadInv, RxHolds, PacketPc, ExecPc
    <3>4. d \in Inb => ExpireOf(d)'
      BY <2>1, <2>2, <3>g, <1>i, <1>k, <1>t, ItemFacts, <1>f, <1>o, <1>h, <1>p0, <1>p1,
         ConnFacts DEF PerConn, ConnInv, ExpireOf, Expiring, LifeOf, AppOf, OwnAppOf, Unsent,
         ThreadInv, RxHolds, PacketPc, ExecPc
    <3> QED
      BY <3>1, <3>2, <3>3, <3>4 DEF ConnInv
  <2>3. CASE d # exp.conn
    <3>1. Apart(d)
      BY <2>3, <1>g, <1>t, <1>f, <1>h, ConnFacts DEF Apart
    <3> QED
      BY <1>3, <3>1, Elsewhere
  <2> QED
    BY <2>2, <2>3
<1> QED
  BY <1>1, <1>2, <1>3, <1>4 DEF IndInv

\* conn_close by the expiry.
LEMMA ExpireDestroyInv ==
    ASSUME IndInv, ExpireDestroy
    PROVE  IndInv'
<1>i. TypeOK /\ RefsCounted /\ ThreadInv
  BY DEF IndInv
<1>n. \A d \in Conn : PerConn(d)
  BY PerConnFacts
<1>k. exp.conn \in Conn
  BY <1>i, ConnFacts DEF ExpireDestroy, ThreadInv, TypeOK, PacketPc, ExecPc
<1>t. timer' = timer /\ Items' = Items /\ Collected' = Collected
      /\ \A d : ItemsOf(d)' = ItemsOf(d)
  BY TimerStable DEF ExpireDestroy, ConnClose, ExpireDone
<1>f. /\ exp.pc = "destroy" /\ exp.conn \in Inb
      /\ exp' \in [pc : {"idle", "remove", "destroy"}, todo : SUBSET Inb, conn : Inb \cup {NoConn}]
      /\ exp'.todo = exp.todo
      /\ exp'.pc = "idle" /\ exp'.conn = NoConn
      /\ UNCHANGED <<reg, refcount, table, keysInb, rx, app, told, leaked, crossed>>
  BY <1>i, <1>k, <1>t DEF ExpireDestroy, ConnClose, ExpireDone, TypeOK, ThreadInv
<1>o. PerConn(exp.conn)
  BY <1>n, <1>k
<1>g. /\ life' \in [Conn -> {"free", "live", "dead"}]
      /\ \A d \in Conn : life'[d] = IF d = exp.conn THEN IF exp.conn \in Inb THEN "free" ELSE "dead" ELSE life[d]
      /\ open' \in [Conn -> BOOLEAN]
      /\ \A d \in Conn : open'[d] = IF d = exp.conn THEN FALSE ELSE open[d]
      /\ opened' \in [Conn -> BOOLEAN]
      /\ \A d \in Conn : opened'[d] = IF d = exp.conn THEN (opened[exp.conn] /\ ~open[exp.conn]) ELSE opened[d]
  BY <1>i, <1>k, <1>f, <1>o, ConnFacts DEF PerConn, ExpireDestroy, ConnClose,
     ExpireDone, TypeOK, AppPc, RxHolds, PacketPc, ExecPc, ThreadInv
<1>1. TypeOK'
  BY <1>i, <1>k, <1>t, ItemFacts, <1>f, <1>o, <1>g, ConnFacts DEF TypeOK, Conn
<1>2. RefsCounted'
  <2>1. \A d \in Conn : RxHolds(d)' <=> RxHolds(d)
    BY <1>i, <1>k, <1>f, ConnFacts DEF RxHolds, ThreadInv, PacketPc, ExecPc
  <2> QED
    BY <2>1, <1>i, <1>t, <1>f, RefsStay
<1>3. ThreadInv'
  BY <1>i, <1>k, <1>t, ItemFacts, <1>f, <1>o, <1>g, ConnFacts DEF ThreadInv, PerConn,
     ConnInv, AppOf, OwnAppOf, LifeOf, ExpireOf, Expiring, Unsent, RxHolds, PacketPc, ExecPc
<1>4. ASSUME NEW d \in Conn PROVE ConnInv(d)'
  <2>1. PerConn(d)
    BY <1>n
  <2>2. CASE d = exp.conn
    <3>g. /\ life'[d] = IF exp.conn \in Inb THEN "free" ELSE "dead"
          /\ open'[d] = FALSE
          /\ opened'[d] = (opened[exp.conn] /\ ~open[exp.conn])
      BY <1>g, <2>1, <2>2
    <3>1. LifeOf(d)'
      BY <2>1, <2>2, <3>g, <1>i, <1>k, <1>t, ItemFacts, <1>f, <1>o, ConnFacts DEF
         PerConn, ConnInv, LifeOf, AppOf, OwnAppOf, Unsent, ExpireOf, Expiring, ThreadInv,
         RxHolds, PacketPc, ExecPc
    <3>2. OpenOf(d)'
      BY <2>1, <2>2, <3>g, <1>i, <1>k, <1>t, ItemFacts, <1>f, <1>o, ConnFacts DEF
         PerConn, ConnInv, OpenOf, Active, Spent, LifeOf, AppOf, OwnAppOf, Unsent, ThreadInv,
         RxHolds, PacketPc, ExecPc
    <3>3. d \in Outb => AppOf(d)'
      BY <2>1, <2>2, <3>g, <1>i, <1>k, <1>t, ItemFacts, <1>f, <1>o, ConnFacts DEF
         PerConn, ConnInv, AppOf, OwnAppOf, Unsent, LifeOf, OpenOf, Active, Spent, ThreadInv,
         RxHolds, PacketPc, ExecPc
    <3>4. d \in Inb => ExpireOf(d)'
      BY <2>1, <2>2, <3>g, <1>i, <1>k, <1>t, ItemFacts, <1>f, <1>o, ConnFacts DEF
         PerConn, ConnInv, ExpireOf, Expiring, LifeOf, AppOf, OwnAppOf, Unsent, ThreadInv,
         RxHolds, PacketPc, ExecPc
    <3> QED
      BY <3>1, <3>2, <3>3, <3>4 DEF ConnInv
  <2>3. CASE d # exp.conn
    <3>1. Apart(d)
      BY <2>3, <1>g, <1>t, <1>f, ConnFacts DEF Apart
    <3> QED
      BY <1>3, <3>1, Elsewhere
  <2> QED
    BY <2>2, <2>3
<1> QED
  BY <1>1, <1>2, <1>3, <1>4 DEF IndInv

\* Time passes.
LEMMA TickInv ==
    ASSUME IndInv, Tick
    PROVE  IndInv'
<1>i. TypeOK /\ RefsCounted /\ ThreadInv
  BY DEF IndInv
<1>n. \A d \in Conn : PerConn(d)
  BY PerConnFacts
<1>e. /\ timer' \in [Slot -> Item \cup {NoItem}]
      /\ \A s \in Slot : timer'[s] = NoItem <=> timer[s] = NoItem
      /\ \A s \in Items : /\ timer'[s].conn = timer[s].conn
                          /\ timer'[s].mtype = timer[s].mtype
                          /\ timer'[s].cnt = timer[s].cnt
                          /\ timer'[s].exec = timer[s].exec
  <2> SUFFICES ASSUME NEW s \in Slot
               PROVE  /\ timer'[s] \in Item \cup {NoItem}
                      /\ timer'[s] = NoItem <=> timer[s] = NoItem
                      /\ timer[s] # NoItem =>
                            /\ timer'[s].conn = timer[s].conn
                            /\ timer'[s].mtype = timer[s].mtype
                            /\ timer'[s].cnt = timer[s].cnt
                            /\ timer'[s].exec = timer[s].exec
    BY DEF Tick, Items
  <2>1. timer[s] \in Item \cup {NoItem}
    BY <1>i DEF TypeOK
  <2>2. CASE timer[s] = NoItem
    BY <2>2 DEF Tick, Items, Queued
  <2>3. CASE timer[s] # NoItem
    <3>1. timer[s] \in Item
      BY <2>1, <2>3
    <3>2. timer'[s] = IF s \in Queued THEN [timer[s] EXCEPT !.due = TRUE] ELSE timer[s]
      BY DEF Tick
    <3>3. timer'[s] \in Item
      BY <3>1, <3>2 DEF Item
    <3> QED
      BY <3>1, <3>2, <3>3, NoItemAssumption DEF Item
  <2> QED
    BY <2>2, <2>3
<1>t. Items' = Items /\ \A d : ItemsOf(d)' = ItemsOf(d)
  <2>1. \A s \in Items : timer'[s].conn = timer[s].conn
    BY <1>e
  <2> QED
    BY <1>i, <1>e, <2>1, FlagFacts
<1>f. /\ \A c \in Outb : app[c] \notin {"undo", "undorm"}
      /\ UNCHANGED <<life, reg, open, refcount, table, keysInb, rx, app, told, exp, opened, leaked, crossed>>
  BY <1>i, <1>t DEF Tick, TypeOK
<1>p0. \A s \in Items : /\ timer'[s].conn = timer[s].conn /\ timer'[s].mtype = timer[s].mtype
                        /\ timer'[s].cnt = timer[s].cnt /\ timer'[s].exec = timer[s].exec
  BY <1>e
<1>p1. timer' \in [Slot -> Item \cup {NoItem}] /\ Collected' = Collected
  BY <1>e, <1>t DEF Collected
<1>1. TypeOK'
  BY <1>i, <1>t, ItemFacts, <1>f, <1>p0, <1>p1, ConnFacts DEF TypeOK, Conn
<1>2. RefsCounted'
  <2>1. \A d \in Conn : RxHolds(d)' <=> RxHolds(d)
    BY <1>i, <1>f, ConnFacts DEF RxHolds, ThreadInv, PacketPc, ExecPc
  <2> QED
    BY <2>1, <1>i, <1>t, <1>f, RefsStay
<1>3. ThreadInv'
  BY <1>i, <1>t, ItemFacts, <1>f, <1>p0, <1>p1, ConnFacts DEF ThreadInv, PerConn,
     ConnInv, AppOf, OwnAppOf, LifeOf, ExpireOf, Expiring, Unsent, RxHolds, PacketPc, ExecPc
<1>4. ASSUME NEW d \in Conn PROVE ConnInv(d)'
  <2>1. PerConn(d)
    BY <1>n
  <2>g. /\ ItemsOf(d)' = ItemsOf(d)
        /\ \A s \in ItemsOf(d) : timer'[s].mtype = timer[s].mtype
    BY <1>t, ItemFacts, <1>p0, <2>1
  <2>2. LifeOf(d)'
    BY <2>1, <2>g, <1>i, <1>t, ItemFacts, <1>f, <1>p0, <1>p1, ConnFacts DEF PerConn,
       ConnInv, LifeOf, AppOf, OwnAppOf, Unsent, ExpireOf, Expiring, ThreadInv, RxHolds, PacketPc,
       ExecPc
  <2>3. OpenOf(d)'
    BY <2>1, <2>g, <1>i, <1>t, ItemFacts, <1>f, <1>p0, <1>p1, ConnFacts DEF PerConn,
       ConnInv, OpenOf, Active, Spent, LifeOf, AppOf, OwnAppOf, Unsent, ThreadInv, RxHolds,
       PacketPc, ExecPc
  <2>4. d \in Outb => AppOf(d)'
    BY <2>1, <2>g, <1>i, <1>t, ItemFacts, <1>f, <1>p0, <1>p1, ConnFacts DEF PerConn,
       ConnInv, AppOf, OwnAppOf, Unsent, LifeOf, OpenOf, Active, Spent, ThreadInv, RxHolds,
       PacketPc, ExecPc
  <2>5. d \in Inb => ExpireOf(d)'
    BY <2>1, <2>g, <1>i, <1>t, ItemFacts, <1>f, <1>p0, <1>p1, ConnFacts DEF PerConn,
       ConnInv, ExpireOf, Expiring, LifeOf, AppOf, OwnAppOf, Unsent, ThreadInv, RxHolds, PacketPc,
       ExecPc
  <2> QED
    BY <2>2, <2>3, <2>4, <2>5 DEF ConnInv
<1> QED
  BY <1>1, <1>2, <1>3, <1>4 DEF IndInv

\* The program starts in the inductive invariant.
LEMMA InitInv ==
    ASSUME Init
    PROVE  IndInv
<1>1. TypeOK
  <2>1. rx \in Receiver
    BY ConnFacts DEF Init, Receiver, RxPc, PacketType
  <2>2. app \in [Outb -> AppPc]
    BY DEF Init, AppPc
  <2>3. timer \in [Slot -> Item \cup {NoItem}]
    BY DEF Init
  <2> QED
    BY <2>1, <2>2, <2>3 DEF Init, TypeOK, Conn
<1>2. Items = {} /\ Collected = {} /\ \A d : ItemsOf(d) = {}
  BY DEF Init, Items, Collected, ItemsOf
<1>3. RefsCounted
  <2> SUFFICES ASSUME NEW c \in Conn
               PROVE  refcount[c] = Cardinality(ItemsOf(c))
                                    + (IF RxHolds(c) THEN 1 ELSE 0) + leaked[c]
    BY DEF RefsCounted
  <2>1. Cardinality(ItemsOf(c)) = 0
    BY <1>2, FS_EmptySet
  <2>2. refcount[c] = 0 /\ leaked[c] = 0 /\ ~RxHolds(c)
    BY DEF Init, RxHolds, PacketPc
  <2> QED
    BY <2>1, <2>2
<1>4. ThreadInv
  BY <1>2 DEF Init, ThreadInv, PacketPc, ExecPc
<1>5. ASSUME NEW c \in Conn PROVE ConnInv(c)
  <2>1. LifeOf(c)
    BY ConnFacts DEF Init, LifeOf
  <2>2. OpenOf(c)
    BY <1>2 DEF OpenOf, Active
  <2>3. c \in Outb => AppOf(c)
    BY <1>2, ConnFacts DEF Init, AppOf, OwnAppOf, Unsent
  <2>4. c \in Inb => ExpireOf(c)
    BY ConnFacts DEF Init, ExpireOf, Expiring
  <2> QED
    BY <2>1, <2>2, <2>3, <2>4 DEF ConnInv
<1> QED
  BY <1>1, <1>3, <1>4, <1>5 DEF IndInv

\* A step in which nothing happens.
LEMMA StutterInv ==
    ASSUME IndInv, UNCHANGED vars
    PROVE  IndInv'
<1>1. Items' = Items /\ Collected' = Collected /\ \A d : ItemsOf(d)' = ItemsOf(d)
  BY TimerStable DEF vars
<1>2. TypeOK' /\ RefsCounted' /\ ThreadInv'
  BY <1>1 DEF IndInv, vars, TypeOK, RefsCounted, RxHolds, ThreadInv
<1>3. ASSUME NEW c \in Conn PROVE ConnInv(c)'
  <2>1. ConnInv(c)
    BY DEF IndInv
  <2>2. Active(c)' = Active(c)
    BY <1>1 DEF vars, Active, Spent
  <2>3. Spent' = Spent /\ Unsent(c)' = Unsent(c) /\ Expiring' = Expiring
    BY DEF vars, Spent, Unsent, Expiring
  <2>4. LifeOf(c)'
    BY <2>1 DEF vars, ConnInv, LifeOf
  <2>5. OpenOf(c)'
    BY <1>1, <2>1, <2>2, <2>3 DEF vars, ConnInv, OpenOf
  <2>6. c \in Outb => AppOf(c)'
    BY <1>1, <2>1, <2>3 DEF vars, ConnInv, AppOf, OwnAppOf
  <2>7. c \in Inb => ExpireOf(c)'
    BY <2>1, <2>3 DEF vars, ConnInv, ExpireOf
  <2> QED
    BY <2>4, <2>5, <2>6, <2>7 DEF ConnInv
<1> QED
  BY <1>2, <1>3 DEF IndInv

\* Every step, of any thread, preserves the inductive invariant.
LEMMA StepInv ==
    ASSUME IndInv, [Next]_vars
    PROVE  IndInv'
<1>1. ASSUME NEW c \in Outb, AppCall(c) PROVE IndInv'
  BY <1>1, OpenRegisterInv, AppRequestInv, AppCloseInv DEF AppCall
<1>2. ASSUME NEW c \in Outb, AppStep(c) PROVE IndInv'
  BY <1>2, OpenInsertInv, OpenSendInv, OpenUndoInv, OpenUndoRemoveInv, AppRemoveInv,
     AppDestroyInv DEF AppStep
<1>3. CASE RxPacket
  <2>1. ASSUME NEW c \in table, NEW m \in PacketType, RxLookup(c, m) PROVE IndInv'
    <3>1. c \in Conn
      BY DEF IndInv, TypeOK
    <3> QED
      BY <2>1, <3>1, RxLookupInv
  <2> QED
    BY <1>3, <2>1, RxAcceptInv, RxNothingInv, RxPopInv, RxOpenInv, RxOpenHandlerInv,
       RxOpenRepInv, RxMessageInv, RxCloseInv, RxCloseRemoveInv, RxDecInv, RxDestroyInv
    DEF RxPacket
<1>4. CASE RxTimer
  BY <1>4, ExeCollectInv, ExeDoneInv, ExeItemInv, ExeResetInv, ExeReinitInv,
     ExeReinsertInv, ExeResendInv, ExeErrInv, ExeErrCloseInv, ExeErrClosedInv, ExeDecInv,
     ExeDestroyInv
  DEF RxTimer
<1>5. ASSUME NEW S \in SUBSET keysInb, ExpireScan(S) PROVE IndInv'
  BY <1>5, ExpireScanInv
<1>6. CASE ExpireStep
  BY <1>6, ExpireCloseInv, ExpireRemoveInv, ExpireDestroyInv DEF ExpireStep
<1>7. CASE Tick
  BY <1>7, TickInv
<1>8. CASE UNCHANGED vars
  BY <1>8, StutterInv
<1> QED
  BY <1>1, <1>2, <1>3, <1>4, <1>5, <1>6, <1>7, <1>8 DEF Next

\* The inductive invariant holds in every reachable state.
THEOREM Inductive == Spec => []IndInv
<1>1. Init => IndInv
  BY InitInv
<1>2. IndInv /\ [Next]_vars => IndInv'
  BY StepInv
<1> QED
  BY <1>1, <1>2, PTL DEF Spec

-----------------------------------------------------------------------------
(* What follows from it.                                                     *)

\* The state keeps its types; in particular no reference count, an unsigned short in
\* the code, ever goes below zero.
THEOREM TypeCorrect == Spec => []TypeOK
<1>1. IndInv => TypeOK
  BY DEF IndInv
<1> QED
  BY <1>1, Inductive, PTL

\* Every counted reference has an owner that will drop it, or was lost by an
\* ecp_timer_push into a full timer.
THEOREM ReferencesCounted == Spec => []RefsCounted
<1>1. IndInv => RefsCounted
  BY DEF IndInv
<1> QED
  BY <1>1, Inductive, PTL

\* No thread can reach a connection that was destroyed, but one that was closed
\* while its open was retried.
THEOREM NothingDestroyedIsReachable == Spec => []NoUseAfterDestroy
<1>1. IndInv => NoUseAfterDestroy
  <2> SUFFICES ASSUME IndInv, NEW c \in Conn \ crossed,
                      \/ c \in table \cup keysInb \cup exp.todo
                      \/ ItemsOf(c) # {}
                      \/ c \in {rx.conn, exp.conn}
                      \/ c \in Outb /\ app[c] \notin {"closed", "gone"}
               PROVE  life[c] = "live"
    BY DEF NoUseAfterDestroy
  <2>1. PerConn(c) /\ c \notin crossed /\ (c \in Outb => OwnAppOf(c)) /\ LifeOf(c) /\ (c \in Inb => ExpireOf(c))
    BY PerConnFacts DEF PerConn, ConnInv, AppOf
  <2>2. TypeOK /\ ThreadInv
    BY DEF IndInv
  <2>3. CASE c \in table \cup keysInb \cup exp.todo
    BY <2>1, <2>2, <2>3 DEF LifeOf, ExpireOf, TypeOK
  <2>4. CASE ItemsOf(c) # {}
    BY <2>1, <2>4 DEF LifeOf, PerConn
  <2>5. CASE c = rx.conn
    BY <2>1, <2>5 DEF LifeOf
  <2>6. CASE c = exp.conn
    <3>1. c \in Inb /\ exp.pc \in {"remove", "destroy"}
      BY <2>2, <2>6, ConnFacts DEF TypeOK, ThreadInv
    <3> QED
      BY <2>1, <2>6, <3>1 DEF LifeOf, ExpireOf
  <2>7. CASE c \in Outb /\ app[c] \notin {"closed", "gone"}
    BY <2>1, <2>7 DEF OwnAppOf
  <2> QED
    BY <2>3, <2>4, <2>5, <2>6, <2>7
<1> QED
  BY <1>1, Inductive, PTL

\* Whatever a packet can find is registered: the last ecp_conn_refcount_dec never
\* destroys a connection that is still in the table.  The exception is again the
\* connection closed while its open was retried.
THEOREM FoundIsRegistered == Spec => []TableIsRegistered
<1>1. IndInv => TableIsRegistered
  BY PerConnFacts DEF IndInv, TypeOK, TableIsRegistered, PerConn, ConnInv, LifeOf
<1> QED
  BY <1>1, Inductive, PTL

\* ecp_conn_reset has the connection to itself, but for an application that closes
\* it.  The count of items comes from the handshake's item being the only one, the
\* one of references from the accounting.
THEOREM ResetIsExclusive == Spec => []ResetOwnsConnection
<1>1. IndInv => ResetOwnsConnection
  <2> SUFFICES ASSUME IndInv, rx.pc \in {"reset", "reinit", "reinsert"}
               PROVE  /\ ~open[rx.conn]
                      /\ ItemsOf(rx.conn) = {rx.item}
                      /\ refcount[rx.conn] = 1 + leaked[rx.conn]
    BY DEF ResetOwnsConnection
  <2>1. /\ rx.item \in Active(rx.conn) /\ ~open[rx.conn] /\ rx.conn \in Conn
    BY ResetFacts, ConnFacts
  <2>2. OpenOf(rx.conn)
    BY <2>1, PerConnFacts DEF PerConn, ConnInv
  <2>3. ItemsOf(rx.conn) = Active(rx.conn)
    BY <2>1, <2>2 DEF OpenOf, Active, Spent
  <2>4. ItemsOf(rx.conn) = {rx.item}
    BY <2>1, <2>2, <2>3 DEF OpenOf
  <2>5. Cardinality({rx.item}) = 1
    BY FS_Singleton
  <2>6. ~RxHolds(rx.conn)
    BY DEF RxHolds, PacketPc
  <2>7. /\ leaked[rx.conn] \in Nat
        /\ refcount[rx.conn] = Cardinality(ItemsOf(rx.conn)) + 0 + leaked[rx.conn]
    BY <2>1, <2>6 DEF IndInv, RefsCounted, TypeOK
  <2>8. Cardinality(ItemsOf(rx.conn)) = 1
    BY <2>4, <2>5
  <2>9. refcount[rx.conn] = 1 + leaked[rx.conn]
    BY <2>7, <2>8
  <2> QED
    BY <2>1, <2>4, <2>9
<1> QED
  BY <1>1, Inductive, PTL

\* The open handler of a connection that is destroyed was always followed by its close
\* handler, unless the connection was closed while its open was retried.
THEOREM OpenedIsClosed == Spec => []HandlersPaired
<1>1. IndInv => HandlersPaired
  BY PerConnFacts DEF HandlersPaired, PerConn, ConnInv, LifeOf
<1> QED
  BY <1>1, Inductive, PTL

\* A closed connection is never put back into the table by the receiver or by a
\* retransmission, whatever they were doing when it was closed, in every case but
\* the one in which the code does it: the close met a retry of the open, which
\* ecp_timer_remove could not take.  The application may close at any moment.
THEOREM ClosedIsOut == Spec => []ClosedStaysOut
<1>1. IndInv => ClosedStaysOut
  BY PerConnFacts, ConnFacts DEF ClosedStaysOut, PerConn, ConnInv, AppOf, OwnAppOf, LifeOf
<1> QED
  BY <1>1, Inductive, PTL
=============================================================================

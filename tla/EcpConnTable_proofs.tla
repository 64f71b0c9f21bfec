------------------------ MODULE EcpConnTable_proofs -------------------------
(***************************************************************************)
(* The tables hold what the connections' flags say: an entry that outlives *)
(* its connection, or a connection that is not found, is one of the cases  *)
(* that NoDangling and Found name.                                         *)
(*                                                                         *)
(* Each case is kept apart by what it spoils: a key in doubled, an address *)
(* in shared, a connection in crossed or refused.  The invariant says      *)
(* nothing of those, and everything of the others, so a connection that    *)
(* has its keys for itself keeps what it is promised whatever the peers'   *)
(* requests do to the rest of the table.                                   *)
(***************************************************************************)
EXTENDS EcpConnTable, WellFoundedInduction, TLAPS

KeyEntry == [conn : Conn, slot : Slots, hash : Nat]
Opening  == {"handler", "opened"}
Anew     == {"reset", "rekey", "insert"}

TableTypes ==
    /\ addr \in [Outb -> Addr] /\ req \in [PeerKey -> [under : PeerKey \union {NoKey}, slot : Slots]]
    /\ key \in [Conn -> [Slots -> Nat]] /\ curr \in [Outb -> Slots]
    /\ reg \in [Conn -> BOOLEAN] /\ open \in [Conn -> BOOLEAN]
    /\ app \in [Conn -> {"new", "open", "closing", "closed"}]
    /\ dead \subseteq Conn /\ listed \subseteq Inb /\ exp \subseteq Inb /\ crossed \subseteq Outb
    /\ rx \in [pc : Opening \union Anew, conn : Outb, key : {NoKey}]
              \union [pc : {"accept"}, conn : Inb, key : {NoKey}]
              \union [pc : {"keyx"}, conn : Inb, key : PeerKey] \union {Idle}
    /\ fresh \in 0 .. MaxKey
    /\ keys \in Seq(KeyEntry) /\ addrs \in Seq(Outb)

\* A key brought by KEYX_REQ; no copy of an OPEN_REQ brings it.
Brought(k) == k \in PeerKey /\ req[k].under # NoKey

\* Whose a key may be: outbound connections have fresh ones, inbound ones have each key in the slot it
\* came for.  Only a key brought by KEYX_REQ may fail to be inserted or be had by two.
Owners ==
    /\ \A c \in Outb, i \in Slots : key[c][i] <= fresh
    /\ \A c \in Inb, i \in Slots : key[c][i] # NoKey => key[c][i] \in PeerKey /\ req[key[c][i]].slot = i
    /\ \A c \in Inb, i \in Slots :
          <<c, i>> \in failed => app[c] # "new" /\ (key[c][i] # NoKey => Brought(key[c][i]))
    /\ \A k \in doubled : Brought(k)
Apart ==
    \A c, d \in Conn, i, j \in Slots :
       reg[c] /\ reg[d] /\ key[c][i] = key[d][j] /\ key[c][i] \notin doubled \union {NoKey} => c = d /\ i = j

\* What the receiver may be doing to a connection, and what becomes of the flags of one that is closed.
Lives ==
    /\ \A c \in Conn : app[c] = "new" => /\ ~reg[c] /\ ~open[c] /\ c \notin crossed /\ rx.conn # c
                                         /\ \A i \in Slots : key[c][i] = NoKey
    /\ \A c \in dead : app[c] = "closed" /\ ~reg[c] /\ ~open[c] /\ rx.conn # c /\ c \notin exp
    /\ rx.pc \in Opening => open[rx.conn]
    /\ rx.pc \in Anew => ~open[rx.conn]
    /\ rx.pc \in Anew /\ rx.conn \notin crossed => app[rx.conn] = "open"
    /\ rx.pc = "rekey" => ~reg[rx.conn]
    /\ rx.pc \in {"reset", "insert"} /\ rx.conn \notin crossed => reg[rx.conn]
    /\ rx.pc = "keyx" => Brought(rx.key)

\* keys has the entries it should have, each once.
Once(t, D) == \A p, q \in DOMAIN t : t[p].hash = t[q].hash /\ t[p].hash \notin D => p = q
Hashes == \A e \in Range(keys) :
             IF e.conn \in Outb THEN e.hash \in 1 .. fresh ELSE e.hash \in PeerKey /\ e.slot = req[e.hash].slot
Current == \A e \in Range(keys) :
              e.conn \notin crossed /\ e.hash \notin doubled => e.hash = key[e.conn][e.slot] /\ reg[e.conn]
Present ==
    \A c \in Conn, i \in Slots :
       reg[c] /\ ~Inserting(c) /\ key[c][i] \notin doubled \union {NoKey} /\ <<c, i>> \notin failed =>
          Entry(c, i, key[c][i]) \in Range(keys)
Pending ==
    rx.pc = "insert" =>
       /\ \A i \in Slots : (key[rx.conn][i] # NoKey) <=> (i = curr[rx.conn])
       /\ \A e \in Range(keys) : e.hash # key[rx.conn][curr[rx.conn]]
KeyTable == Once(keys, doubled) /\ Hashes /\ Current /\ Present /\ Pending

\* addrs has the connections that are being opened, each once.
Receiving(c) == rx.conn = c /\ rx.pc \in Opening
Awaited(c) == reg[c] /\ ~Inserting(c) /\ (~open[c] \/ Receiving(c))
AddrOnce(t) == \A p, q \in DOMAIN t : addr[t[p]] = addr[t[q]] /\ addr[t[p]] \notin shared => p = q
AddrTable ==
    /\ AddrOnce(addrs)
    /\ \A c \in Outb : Awaited(c) /\ addr[c] \notin shared => c \in Range(addrs)
    /\ \A c \in Range(addrs) \ (refused \union crossed) : addr[c] \in shared \/ Awaited(c) \/ Receiving(c)

\* Who has an inbound connection in hand.
InbTable ==
    /\ listed \intersect exp = {}
    /\ \A c \in Inb : reg[c] <=> c \in listed \union exp \/ (rx.pc = "accept" /\ rx.conn = c)
    /\ rx.pc = "accept" => rx.conn \notin listed \union exp

TableInv == TableTypes /\ Owners /\ Apart /\ Lives /\ KeyTable /\ AddrTable /\ InbTable
-----------------------------------------------------------------------------
(* Taking an entry out of a table, and putting one in *)

\* Where an entry was before place i was taken out
Old(i, p) == IF i = 0 \/ p < i THEN p ELSE p + 1

LEMMA WithoutPlaces ==
    ASSUME NEW S, NEW t \in Seq(S), NEW i \in 0 .. Len(t)
    PROVE  /\ Without(t, i) \in Seq(S)
           /\ \A p \in DOMAIN Without(t, i) :
                 Old(i, p) \in DOMAIN t \ {i} /\ Without(t, i)[p] = t[Old(i, p)]
           /\ \A p, q \in DOMAIN Without(t, i) : Old(i, p) = Old(i, q) => p = q
           /\ \A r \in DOMAIN t \ {i} : \E p \in DOMAIN Without(t, i) : Old(i, p) = r
<1> DEFINE n == Len(t) - (IF i = 0 THEN 0 ELSE 1)
           w == Without(t, i)
<1>1. n \in Nat /\ Len(t) \in Nat /\ DOMAIN t = 1 .. Len(t)
  OBVIOUS
<1>2. w = [j \in 1 .. n |-> t[Old(i, j)]]
  <2>1. \A j \in 1 .. n : (IF i = 0 \/ j < i THEN t[j] ELSE t[j + 1]) = t[Old(i, j)]
    BY DEF Old
  <2> QED BY <2>1 DEF Without
<1>3. \A p \in 1 .. n : Old(i, p) \in DOMAIN t \ {i}
  BY <1>1 DEF Old
<1>4. \A r \in DOMAIN t \ {i} : \E p \in 1 .. n : Old(i, p) = r
  <2> SUFFICES ASSUME NEW r \in DOMAIN t \ {i} PROVE \E p \in 1 .. n : Old(i, p) = r
    OBVIOUS
  <2>1. CASE i = 0 \/ r < i
    <3>1. r \in 1 .. n /\ Old(i, r) = r
      BY <2>1, <1>1 DEF Old
    <3> QED BY <3>1
  <2>2. CASE ~(i = 0 \/ r < i)
    <3>1. r - 1 \in 1 .. n /\ Old(i, r - 1) = r
      BY <2>2, <1>1 DEF Old
    <3> QED BY <3>1
  <2> QED BY <2>1, <2>2
<1>5. \A p, q \in 1 .. n : Old(i, p) = Old(i, q) => p = q
  BY <1>1 DEF Old
<1>6. \A p \in 1 .. n : t[Old(i, p)] \in S
  BY <1>3
<1> HIDE DEF n
<1>7. w \in Seq(S) /\ DOMAIN w = 1 .. n /\ \A p \in 1 .. n : w[p] = t[Old(i, p)]
  BY <1>1, <1>2, <1>6
<1> HIDE DEF w
<1>8. w \in Seq(S) /\ (\A p \in DOMAIN w : Old(i, p) \in DOMAIN t \ {i} /\ w[p] = t[Old(i, p)])
  BY <1>3, <1>7
<1> QED BY <1>4, <1>5, <1>7, <1>8 DEF w

LEMMA ConsPlaces ==
    ASSUME NEW S, NEW t \in Seq(S), NEW x \in S
    PROVE  /\ <<x>> \o t \in Seq(S) /\ 1 \in DOMAIN (<<x>> \o t) /\ (<<x>> \o t)[1] = x
           /\ \A p \in DOMAIN (<<x>> \o t) : p # 1 => p - 1 \in DOMAIN t /\ (<<x>> \o t)[p] = t[p - 1]
           /\ \A p \in DOMAIN t : p + 1 \in DOMAIN (<<x>> \o t) /\ (<<x>> \o t)[p + 1] = t[p]
           /\ Range(<<x>> \o t) = {x} \union Range(t)
<1> DEFINE w == <<x>> \o t
<1>1. /\ w \in Seq(S) /\ Len(w) = Len(t) + 1 /\ Len(t) \in Nat /\ w[1] = x
      /\ \A p \in 1 .. Len(t) : w[p + 1] = t[p]
  OBVIOUS
<1>2. DOMAIN w = 1 .. Len(t) + 1 /\ DOMAIN t = 1 .. Len(t)
  BY <1>1
<1> HIDE DEF w
<1>3. \A p \in DOMAIN t : p + 1 \in DOMAIN w /\ w[p + 1] = t[p]
  BY <1>1, <1>2
<1>4. \A p \in DOMAIN w : p # 1 => p - 1 \in DOMAIN t /\ w[p] = t[p - 1]
  <2> SUFFICES ASSUME NEW p \in DOMAIN w, p # 1 PROVE p - 1 \in DOMAIN t /\ w[p] = t[p - 1]
    OBVIOUS
  <2>1. p - 1 \in DOMAIN t /\ (p - 1) + 1 = p
    BY <1>1, <1>2
  <2> QED BY <2>1, <1>3
<1>5. 1 \in DOMAIN w
  BY <1>1, <1>2
<1>6. Range(w) = {x} \union Range(t)
  <2>1. Range(w) \subseteq {x} \union Range(t)
    BY <1>1, <1>4 DEF Range
  <2>2. {x} \union Range(t) \subseteq Range(w)
    BY <1>1, <1>3, <1>5 DEF Range
  <2> QED BY <2>1, <2>2
<1> QED BY <1>1, <1>3, <1>4, <1>5, <1>6 DEF w

\* A set of numbers that is not empty has a least one.
LEMMA MinFacts ==
    ASSUME NEW S, S \subseteq Nat, S # {}
    PROVE  Min(S) \in S
<1>1. \A x, y \in Nat : x < y => <<x, y>> \in OpToRel(<, Nat)
  BY Zenon DEF OpToRel
<1>2. PICK m \in S : \A k \in S : ~(<<k, m>> \in OpToRel(<, Nat))
  BY NatLessThanWellFounded, WFMin, Zenon
<1>3. \A k \in S : m =< k
  <2>1. \A k \in S : ~(k < m)
    BY <1>1, <1>2, Zenon
  <2> QED BY <2>1
<1> QED BY <1>3 DEF Min

\* Where a key is found: at an entry with its hash that points to it, if there is one.
LEMMA AtKeyIs ==
    ASSUME NEW t \in Seq(KeyEntry), NEW k
    PROVE  \/ AtKey(t, k) = 0 /\ \A i \in DOMAIN t : ~(t[i].hash = k /\ key[t[i].conn][t[i].slot] = k)
           \/ AtKey(t, k) \in DOMAIN t /\ t[AtKey(t, k)].hash = k
              /\ key[t[AtKey(t, k)].conn][t[AtKey(t, k)].slot] = k
<1> DEFINE M == {i \in DOMAIN t : t[i].hash = k /\ key[t[i].conn][t[i].slot] = k}
<1>1. M \subseteq Nat
  OBVIOUS
<1>2. CASE M = {}
  BY <1>2 DEF AtKey, First
<1>3. CASE M # {}
  <2>1. Min(M) \in M
    BY <1>1, <1>3, MinFacts
  <2>2. AtKey(t, k) = Min(M)
    BY <1>3 DEF AtKey, First
  <2> QED BY <2>1, <2>2
<1> QED BY <1>2, <1>3

LEMMA DropFacts ==
    ASSUME NEW t \in Seq(KeyEntry), NEW D, Once(t, D), NEW k
    PROVE  /\ DropKey(t, k) \in Seq(KeyEntry) /\ Once(DropKey(t, k), D)
           /\ Range(DropKey(t, k)) \subseteq Range(t)
           /\ \A e \in Range(t) : e.hash # k => e \in Range(DropKey(t, k))
           /\ k \notin D \union {NoKey} =>
                 \A e \in Range(DropKey(t, k)) : ~(e.hash = k /\ key[e.conn][e.slot] = k)
<1>1. CASE k = NoKey
  BY <1>1 DEF DropKey
<1>2. CASE k # NoKey
  <2> DEFINE i == AtKey(t, k)
             w == Without(t, i)
  <2>1. i \in 0 .. Len(t) /\ (i # 0 => t[i].hash = k)
        /\ (i = 0 => \A p \in DOMAIN t : ~(t[p].hash = k /\ key[t[p].conn][t[p].slot] = k))
    BY AtKeyIs
  <2>2. DropKey(t, k) = w
    BY <1>2 DEF DropKey
  <2> HIDE DEF i, w
  <2>3. /\ w \in Seq(KeyEntry)
        /\ \A p \in DOMAIN w : Old(i, p) \in DOMAIN t \ {i} /\ w[p] = t[Old(i, p)]
        /\ \A p, q \in DOMAIN w : Old(i, p) = Old(i, q) => p = q
        /\ \A r \in DOMAIN t \ {i} : \E p \in DOMAIN w : Old(i, p) = r
    BY <2>1, WithoutPlaces DEF w
  <2>4. Once(w, D)
    <3> SUFFICES ASSUME NEW p \in DOMAIN w, NEW q \in DOMAIN w, w[p].hash = w[q].hash, w[p].hash \notin D
                 PROVE p = q
      BY DEF Once
    <3>1. Old(i, p) = Old(i, q)
      BY <2>3 DEF Once
    <3> QED BY <3>1, <2>3
  <2>5. ASSUME NEW e \in Range(w) PROVE e \in Range(t) /\ (k \notin D => ~(e.hash = k /\ key[e.conn][e.slot] = k))
    <3>1. PICK p \in DOMAIN w : e = w[p]
      BY <2>5 DEF Range
    <3>2. Old(i, p) \in DOMAIN t /\ Old(i, p) # i /\ e = t[Old(i, p)]
      BY <3>1, <2>3
    <3>3. e \in Range(t)
      BY <3>2 DEF Range
    <3>4. ASSUME k \notin D, e.hash = k, key[e.conn][e.slot] = k PROVE FALSE
      <4>1. i # 0
        BY <2>1, <3>2, <3>4
      <4>2. i \in DOMAIN t /\ t[i].hash = t[Old(i, p)].hash
        BY <4>1, <2>1, <3>2, <3>4
      <4> QED BY <4>2, <3>2, <3>4 DEF Once
    <3> QED BY <3>3, <3>4
  <2>6. ASSUME NEW e \in Range(t), e.hash # k PROVE e \in Range(w)
    <3>1. PICK r \in DOMAIN t : e = t[r]
      BY <2>6 DEF Range
    <3>2. r # i
      BY <3>1, <2>1, <2>6
    <3>3. PICK p \in DOMAIN w : Old(i, p) = r
      BY <3>1, <3>2, <2>3
    <3> QED BY <3>1, <3>3, <2>3 DEF Range
  <2> QED BY <2>2, <2>3, <2>4, <2>5, <2>6
<1> QED BY <1>1, <1>2

\* A new entry goes in front.
LEMMA ConsOnce ==
    ASSUME NEW t \in Seq(KeyEntry), NEW D, Once(t, D), NEW e \in KeyEntry,
           e.hash \in D \/ \A d \in Range(t) : d.hash # e.hash
    PROVE  Once(<<e>> \o t, D)
<1> DEFINE w == <<e>> \o t
<1>1. /\ 1 \in DOMAIN w /\ w[1] = e
      /\ \A p \in DOMAIN w : p # 1 => p - 1 \in DOMAIN t /\ w[p] = t[p - 1]
      /\ w \in Seq(KeyEntry)
  BY ConsPlaces
<1>2. e.hash \in D \/ \A p \in DOMAIN t : t[p].hash # e.hash
  BY DEF Range
<1>3. \A p \in DOMAIN w : p \in Nat
  BY <1>1
<1> HIDE DEF w
<1> SUFFICES ASSUME NEW p \in DOMAIN w, NEW q \in DOMAIN w, w[p].hash = w[q].hash, w[p].hash \notin D PROVE p = q
  BY DEF Once, w
<1>4. CASE p # 1 /\ q # 1
  <2>1. p - 1 = q - 1
    BY <1>4, <1>1 DEF Once
  <2> QED BY <2>1, <1>3
<1> QED BY <1>1, <1>2, <1>4
-----------------------------------------------------------------------------
(* The table of keys *)

LEMMA EntryTypes ==
    ASSUME TableTypes, NEW e \in Range(keys)
    PROVE  e \in KeyEntry /\ e.conn \in Conn /\ e.slot \in Slots /\ e.hash \in Nat
<1>1. PICK p \in DOMAIN keys : e = keys[p]
  BY DEF Range
<1>2. e \in KeyEntry
  BY <1>1 DEF TableTypes
<1> QED BY <1>2 DEF KeyEntry

\* Own keys and peers' keys are different numbers, and NoKey is neither.
LEMMA KeyKinds ==
    ASSUME TableTypes, Owners, KeyTable
    PROVE  /\ fresh \in Nat /\ fresh =< MaxKey /\ NoKey \notin PeerKey /\ PeerKey \subseteq Nat
           /\ \A k \in 0 .. MaxKey : k \notin PeerKey /\ k \notin doubled
           /\ doubled \subseteq PeerKey /\ \A k \in PeerKey : k > fresh
           /\ \A e \in Range(keys) : e.hash # NoKey
           /\ \A e \in Range(keys) : e.hash \in PeerKey => e.conn \in Inb
           /\ \A e \in Range(keys) : e.conn \in Inb => e.hash \in PeerKey /\ e.slot = req[e.hash].slot
<1>1. /\ fresh \in Nat /\ fresh =< MaxKey /\ NoKey \notin PeerKey /\ PeerKey \subseteq Nat
      /\ (\A k \in 0 .. MaxKey : k \notin PeerKey) /\ \A k \in PeerKey : k > fresh
  BY TableAssumption DEF TableTypes, PeerKey, NoKey
<1>2. doubled \subseteq PeerKey
  BY DEF Owners, Brought
<1>3. ASSUME NEW e \in Range(keys)
      PROVE  /\ e.hash # NoKey /\ (e.hash \in PeerKey => e.conn \in Inb)
             /\ (e.conn \in Inb => e.hash \in PeerKey /\ e.slot = req[e.hash].slot)
  <2>1. e.conn \in Conn
    BY EntryTypes
  <2>2. IF e.conn \in Outb THEN e.hash \in 1 .. fresh ELSE e.hash \in PeerKey /\ e.slot = req[e.hash].slot
    BY DEF KeyTable, Hashes
  <2> QED BY <1>1, <2>1, <2>2, TableAssumption DEF Conn, NoKey
<1> QED BY <1>1, <1>2, <1>3

\* How the receiver's place bears on the table: not at all, but while a connection waits to be put back.
SamePlace == rx' = rx \/ (rx.pc # "insert" /\ rx'.pc # "insert")

\* A connection that leaves the tables takes its entries with it, and the other connections keep theirs.
LEMMA RemoveKeys ==
    ASSUME TableTypes, Owners, Apart, KeyTable, NEW c \in Conn, ConnRemove(c),
           UNCHANGED <<key, curr, req, fresh, failed, crossed, doubled>>, SamePlace
    PROVE  keys' \in Seq(KeyEntry) /\ KeyTable' /\ Apart'
<1>0. reg' = [reg EXCEPT ![c] = FALSE] /\ reg \in [Conn -> BOOLEAN]
  BY DEF ConnRemove, TableTypes
<1>a. Apart'
  BY <1>0 DEF Apart
<1>1. CASE ~reg[c]
  <2>1. UNCHANGED keys /\ reg' = reg
    BY <1>0, <1>1 DEF ConnRemove, tables
  <2> QED BY <1>a, <2>1 DEF KeyTable, Hashes, Current, Present, Pending, Inserting, SamePlace, TableTypes, Once
<1>2. CASE reg[c]
  <2> DEFINE t == DropKey(keys, key[c][0])
  <2>0. keys \in Seq(KeyEntry) /\ Once(keys, doubled)
    BY DEF TableTypes, KeyTable
  <2>1. /\ t \in Seq(KeyEntry) /\ Once(t, doubled) /\ Range(t) \subseteq Range(keys)
        /\ \A e \in Range(keys) : e.hash # key[c][0] => e \in Range(t)
        /\ key[c][0] \notin doubled \union {NoKey} =>
              \A e \in Range(t) : ~(e.hash = key[c][0] /\ key[e.conn][e.slot] = key[c][0])
    BY <2>0, DropFacts
  <2>2. keys' = DropKey(t, key[c][1])
    BY <1>2 DEF ConnRemove, TableRemove
  <2> HIDE DEF t
  <2>3. /\ keys' \in Seq(KeyEntry) /\ Once(keys', doubled) /\ Range(keys') \subseteq Range(t)
        /\ \A e \in Range(t) : e.hash # key[c][1] => e \in Range(keys')
        /\ key[c][1] \notin doubled \union {NoKey} =>
              \A e \in Range(keys') : ~(e.hash = key[c][1] /\ key[e.conn][e.slot] = key[c][1])
    BY <2>1, <2>2, DropFacts
  <2>4. Range(keys') \subseteq Range(keys)
    BY <2>1, <2>3
  <2>5. Hashes'
    BY <2>4 DEF KeyTable, Hashes
  <2>6. Current'
    <3> SUFFICES ASSUME NEW e \in Range(keys'), e.conn \notin crossed, e.hash \notin doubled
                 PROVE  e.hash = key[e.conn][e.slot] /\ reg'[e.conn]
      BY DEF Current
    <3>1. e \in Range(keys) /\ e \in Range(t) /\ e.hash = key[e.conn][e.slot] /\ reg[e.conn]
      BY <2>1, <2>3 DEF KeyTable, Current
    <3>2. e.hash # NoKey /\ e.conn \in Conn /\ e.slot \in Slots
      BY <3>1, EntryTypes, KeyKinds
    <3>3. e.conn # c
      <4>1. e.conn = c => e.slot # 0 /\ e.slot # 1
        BY <2>1, <2>3, <3>1, <3>2
      <4> QED BY <4>1, <3>2 DEF Slots
    <3> QED BY <1>0, <3>1, <3>2, <3>3
  <2>7. Present'
    <3> SUFFICES ASSUME NEW d \in Conn, NEW i \in Slots, reg'[d], ~Inserting(d)',
                        key[d][i] \notin doubled \union {NoKey}, <<d, i>> \notin failed
                 PROVE  Entry(d, i, key[d][i]) \in Range(keys')
      BY DEF Present
    <3>1. d # c /\ reg[d] /\ ~Inserting(d)
      BY <1>0 DEF SamePlace, Inserting
    <3>2. Entry(d, i, key[d][i]) \in Range(keys) /\ Entry(d, i, key[d][i]).hash = key[d][i]
      BY <3>1 DEF KeyTable, Present, Entry
    <3>3. key[d][i] # key[c][0] /\ key[d][i] # key[c][1]
      BY <1>2, <3>1 DEF Apart, Slots
    <3> QED BY <2>1, <2>3, <3>2, <3>3
  <2>8. Pending'
    BY <2>4 DEF KeyTable, Pending, SamePlace
  <2> QED BY <1>a, <2>3, <2>5, <2>6, <2>7, <2>8 DEF KeyTable
<1> QED BY <1>1, <1>2

\* A connection out of the tables may get other keys, and come back with one that no entry has.
LEMMA KeysChange ==
    ASSUME TableTypes, Owners, Apart, KeyTable, NEW c \in Conn, ~reg[c], NEW v \in [Slots -> Nat],
           key' = [key EXCEPT ![c] = v], \A d \in Conn \ {c} : reg'[d] = reg[d],
           UNCHANGED <<keys, req, crossed, doubled>>, fresh' \in Nat, fresh =< fresh',
           failed \ ({c} \X Slots) \subseteq failed',
           reg'[c] => \E i \in Slots : /\ v[i] = fresh' /\ fresh' = fresh + 1 /\ \A j \in Slots \ {i} : v[j] = NoKey
                                       /\ rx'.pc = "insert" /\ rx'.conn = c /\ curr'[c] = i,
           rx.pc # "insert" \/ (rx' = rx /\ rx.conn # c /\ curr'[rx.conn] = curr[rx.conn]),
           rx'.pc = "insert" => rx' = rx \/ (rx'.conn = c /\ reg'[c]),
           fresh' =< MaxKey
    PROVE  KeyTable' /\ Apart'
<1>0. key'[c] = v /\ key' \in [Conn -> [Slots -> Nat]] /\ \A d \in Conn \ {c} : key'[d] = key[d]
  BY DEF TableTypes
<1>k. /\ fresh \in Nat /\ NoKey \notin PeerKey /\ \A k \in PeerKey : k > fresh' /\ k \in Nat
      /\ doubled \subseteq PeerKey /\ \A e \in Range(keys) : e.hash # NoKey
  <2>1. \A k \in PeerKey : k > fresh' /\ k \in Nat
    BY TableAssumption DEF PeerKey
  <2> QED BY <2>1, KeyKinds
<1>1. \A e \in Range(keys) : e.conn \in Conn /\ e.slot \in Slots /\ e.hash \in Nat
  BY EntryTypes
<1>2. Once(keys, doubled)' /\ Hashes'
  BY <1>k DEF KeyTable, Hashes, Once
<1>3. Current'
  BY <1>0, <1>1 DEF KeyTable, Current
<1>4. fresh' = fresh + 1 => \A d \in Conn \ {c}, j \in Slots : key[d][j] # fresh'
  <2> SUFFICES ASSUME fresh' = fresh + 1, NEW d \in Conn, NEW j \in Slots PROVE key[d][j] # fresh'
    OBVIOUS
  <2>1. key[d][j] \in Nat /\ (key[d][j] =< fresh \/ key[d][j] = NoKey \/ key[d][j] \in PeerKey)
    BY DEF Owners, Conn, TableTypes
  <2> QED BY <2>1, <1>k DEF NoKey
<1>5. Apart'
  <2> SUFFICES ASSUME NEW d \in Conn, NEW e \in Conn, NEW j \in Slots, NEW l \in Slots, reg'[d], reg'[e],
                      key'[d][j] = key'[e][l], key'[d][j] \notin doubled \union {NoKey}
               PROVE  d = e /\ j = l
    BY DEF Apart
  <2>1. CASE d # c /\ e # c
    BY <2>1, <1>0 DEF Apart
  <2>2. CASE d = c \/ e = c
    BY <2>2, <1>0, <1>4
  <2> QED BY <2>1, <2>2
<1>6. Present'
  <2> SUFFICES ASSUME NEW d \in Conn, NEW i \in Slots, reg'[d], ~Inserting(d)',
                      key'[d][i] \notin doubled \union {NoKey}, <<d, i>> \notin failed'
               PROVE  Entry(d, i, key'[d][i]) \in Range(keys)
    BY DEF Present
  <2>1. d # c
    BY DEF Inserting
  <2>2. reg[d] /\ ~Inserting(d) /\ key'[d] = key[d] /\ <<d, i>> \notin failed
    BY <2>1, <1>0 DEF Inserting
  <2> QED BY <2>2 DEF KeyTable, Present
<1>7. Pending'
  <2> SUFFICES ASSUME rx'.pc = "insert"
               PROVE  /\ \A i \in Slots : (key'[rx'.conn][i] # NoKey) <=> (i = curr'[rx'.conn])
                      /\ \A e \in Range(keys) : e.hash # key'[rx'.conn][curr'[rx'.conn]]
    BY DEF Pending
  <2>1. CASE rx'.conn = c /\ reg'[c]
    <3>1. PICK i \in Slots : /\ v[i] = fresh' /\ fresh' = fresh + 1 /\ \A j \in Slots \ {i} : v[j] = NoKey
                             /\ curr'[c] = i
      BY <2>1
    <3>2. \A e \in Range(keys) : e.hash # fresh'
      <4> SUFFICES ASSUME NEW e \in Range(keys) PROVE e.hash # fresh'
        OBVIOUS
      <4>1. IF e.conn \in Outb THEN e.hash \in 1 .. fresh ELSE e.hash \in PeerKey /\ e.slot = req[e.hash].slot
        BY DEF KeyTable, Hashes
      <4> QED BY <4>1, <3>1, <1>k
    <3>3. fresh' # NoKey
      BY <3>1, <1>k DEF NoKey
    <3> QED BY <2>1, <3>1, <3>2, <3>3, <1>0
  <2>2. CASE ~(rx'.conn = c /\ reg'[c])
    <3>1. rx' = rx /\ rx.pc = "insert" /\ rx.conn # c /\ curr'[rx.conn] = curr[rx.conn]
      BY <2>2
    <3>2. rx.conn \in Conn
      BY <3>1 DEF TableTypes, Conn, Idle, Opening, Anew, At
    <3> QED BY <3>1, <3>2, <1>0 DEF KeyTable, Pending
  <2> QED BY <2>1, <2>2
<1> QED BY <1>2, <1>3, <1>5, <1>6, <1>7 DEF KeyTable

LEMMA Entered ==
    ASSUME NEW t \in Seq(KeyEntry), NEW D, Once(t, D), NEW c \in Conn, NEW i \in Slots, NEW k \in Nat,
           k \in D \/ \A d \in Range(t) : d.hash # k, keys' = <<Entry(c, i, k)>> \o t
    PROVE  /\ keys' \in Seq(KeyEntry) /\ Once(keys', D) /\ Range(keys') = {Entry(c, i, k)} \union Range(t)
           /\ Entry(c, i, k).conn = c /\ Entry(c, i, k).slot = i /\ Entry(c, i, k).hash = k
<1> DEFINE n == Entry(c, i, k)
<1>1. n \in KeyEntry /\ n.conn = c /\ n.slot = i /\ n.hash = k
  BY DEF Entry, KeyEntry
<1> HIDE DEF n
<1>2. keys' = <<n>> \o t
  BY DEF n
<1> QED BY <1>1, <1>2, ConsPlaces, ConsOnce DEF n

\* A connection that starts anew comes back with its only key, or stays out.
LEMMA ReinsertKeys ==
    ASSUME TableInv, Reinsert
    PROVE  keys' \in Seq(KeyEntry) /\ KeyTable' /\ Apart'
<1> DEFINE c == rx.conn
           i == curr[c]
           k == key[c][i]
<1>0. /\ TableTypes /\ Owners /\ Apart /\ Lives /\ KeyTable
      /\ rx.pc = "insert" /\ rx' = Idle /\ UNCHANGED <<key, curr, req, fresh, failed, crossed, doubled>>
  BY DEF TableInv, Reinsert, fixed
<1>1. c \in Outb /\ c \in Conn /\ c \notin Inb
  BY <1>0, TableAssumption DEF TableTypes, Conn, Idle, At
<1>2. /\ i \in Slots /\ k \in Nat /\ k # NoKey /\ \A j \in Slots \ {i} : key[c][j] = NoKey
      /\ \A e \in Range(keys) : e.hash # k
  BY <1>0, <1>1 DEF KeyTable, Pending, TableTypes
<1>3. k \in 1 .. fresh /\ keys \in Seq(KeyEntry)
  BY <1>0, <1>1, <1>2 DEF Owners, TableTypes, NoKey
<1>4. rx'.pc # "insert" /\ rx'.conn \notin Conn
  BY <1>0, TableAssumption DEF Idle, At
<1>5. \A d \in Conn : Inserting(d) <=> d = c
  BY <1>0 DEF Inserting
<1>6. CASE TableInsert(c, i, k) /\ UNCHANGED reg
  <2>1. Once(keys, doubled) /\ keys' = <<Entry(c, i, k)>> \o keys
    BY <1>0, <1>6 DEF KeyTable, TableInsert
  <2> DEFINE n == Entry(c, i, k)
  <2> HIDE DEF c, i, k
  <2>2. /\ keys' \in Seq(KeyEntry) /\ Once(keys', doubled) /\ Range(keys') = {n} \union Range(keys)
        /\ n.conn = c /\ n.slot = i /\ n.hash = k
    BY <2>1, <1>1, <1>2, <1>3, Entered
  <2> HIDE DEF n
  <2>3. Hashes'
    BY <2>2, <1>0, <1>1, <1>3 DEF KeyTable, Hashes
  <2>4. Current'
    <3>1. c \notin crossed => reg[c]
      BY <1>0 DEF Lives, c
    <3> QED BY <2>2, <3>1, <1>0, <1>6 DEF KeyTable, Current, c, i, k
  <2>5. Present'
    <3> SUFFICES ASSUME NEW d \in Conn, NEW j \in Slots, reg[d], key[d][j] \notin doubled \union {NoKey},
                        <<d, j>> \notin failed
                 PROVE  Entry(d, j, key[d][j]) \in Range(keys')
      BY <1>0, <1>6 DEF Present
    <3>1. CASE d = c
      <4>1. j = i
        BY <3>1, <1>2
      <4> QED BY <4>1, <3>1, <2>2 DEF n, k
    <3>2. CASE d # c
      BY <3>2, <1>0, <1>5, <2>2 DEF KeyTable, Present
    <3> QED BY <3>1, <3>2
  <2>6. Pending' /\ Apart'
    BY <1>0, <1>4, <1>6 DEF Pending, Apart
  <2> QED BY <2>2, <2>3, <2>4, <2>5, <2>6, <1>0 DEF KeyTable
<1>7. CASE reg' = [reg EXCEPT ![c] = FALSE] /\ UNCHANGED keys
  <2>1. Once(keys, doubled)' /\ Hashes'
    BY <1>0, <1>7 DEF KeyTable, Once, Hashes
  <2>2. Current'
    <3> SUFFICES ASSUME NEW e \in Range(keys), e.conn \notin crossed, e.hash \notin doubled
                 PROVE  e.hash = key[e.conn][e.slot] /\ reg'[e.conn]
      BY <1>0, <1>7 DEF Current
    <3>1. e.conn \in Conn /\ e.slot \in Slots /\ e.hash # NoKey
      BY <1>0, EntryTypes, KeyKinds
    <3>2. e.hash = key[e.conn][e.slot] /\ reg[e.conn]
      BY <1>0 DEF KeyTable, Current
    <3>3. e.conn # c
      BY <3>1, <3>2, <1>2
    <3> QED BY <3>1, <3>2, <3>3, <1>0, <1>7 DEF TableTypes
  <2>3. Present'
    BY <1>0, <1>1, <1>5, <1>7 DEF Present, KeyTable, TableTypes
  <2>4. Pending'
    BY <1>4 DEF Pending
  <2>5. Apart'
    BY <1>0, <1>1, <1>7 DEF Apart, TableTypes
  <2> QED BY <2>1, <2>2, <2>3, <2>4, <2>5, <1>0, <1>3, <1>7 DEF KeyTable
<1> QED BY <1>0, <1>6, <1>7 DEF Reinsert, tables

\* A key of a registered connection, which nobody else has and memory sufficed for, is found there.
LEMMA KeyFound ==
    ASSUME TableTypes, KeyTable, NEW c \in Conn, NEW i \in Slots, reg[c], ~Inserting(c),
           key[c][i] \notin doubled \union {NoKey}, <<c, i>> \notin failed
    PROVE  FindKey(key[c][i]) = c
<1> DEFINE k == key[c][i]
<1>1. PICK p \in DOMAIN keys : keys[p] = Entry(c, i, k)
  BY DEF KeyTable, Present, Range
<1>2. keys[p].hash = k /\ keys[p].conn = c /\ keys[p].slot = i
  BY <1>1 DEF Entry
<1>3. keys \in Seq(KeyEntry)
  BY DEF TableTypes
<1>4. AtKey(keys, k) \in DOMAIN keys /\ keys[AtKey(keys, k)].hash = k
  BY <1>2, <1>3, AtKeyIs
<1>5. AtKey(keys, k) = p /\ p # 0
  BY <1>2, <1>3, <1>4 DEF KeyTable, Once
<1> QED BY <1>2, <1>5 DEF FindKey

\* What is found by a key has it, unless it was closed while its handshake was being started anew or two
\* had the key.
LEMMA FoundKey ==
    ASSUME TableTypes, Owners, KeyTable, NEW k, FindKey(k) # NoConn
    PROVE  /\ FindKey(k) \in Conn
           /\ FindKey(k) \notin crossed /\ k \notin doubled => reg[FindKey(k)] /\ k \in KeysOf(FindKey(k))
<1>1. keys \in Seq(KeyEntry)
  BY DEF TableTypes
<1>2. PICK p \in DOMAIN keys : p = AtKey(keys, k) /\ keys[p].hash = k /\ FindKey(k) = keys[p].conn
  BY <1>1, AtKeyIs DEF FindKey
<1>3. keys[p] \in Range(keys)
  BY DEF Range
<1>4. keys[p].conn \in Conn /\ keys[p].slot \in Slots /\ keys[p].hash # NoKey
  BY <1>3, EntryTypes, KeyKinds
<1> QED BY <1>2, <1>3, <1>4 DEF KeyTable, Current, KeysOf

LEMMA KeyAbsent ==
    ASSUME TableTypes, Owners, KeyTable, NEW k, FindKey(k) = NoConn
    PROVE  \A e \in Range(keys) : ~(e.hash = k /\ key[e.conn][e.slot] = k)
<1>1. keys \in Seq(KeyEntry)
  BY DEF TableTypes
<1>2. CASE AtKey(keys, k) = 0
  BY <1>1, <1>2, AtKeyIs DEF Range
<1>3. CASE AtKey(keys, k) # 0
  <2>1. AtKey(keys, k) \in DOMAIN keys
    BY <1>1, <1>3, AtKeyIs
  <2>2. keys[AtKey(keys, k)] \in Range(keys)
    BY <2>1 DEF Range
  <2>3. FindKey(k) \in Conn
    BY <1>3, <2>2, EntryTypes DEF FindKey
  <2> QED BY <2>3, TableAssumption
<1> QED BY <1>2, <1>3

\* An OPEN_REQ's key, be it a copy's: no entry has it and no connection.
LEMMA AcceptKeys ==
    ASSUME TableInv, NEW c \in Inb, NEW k \in PeerKey, Accept(c, k)
    PROVE  keys' \in Seq(KeyEntry) /\ KeyTable' /\ Apart'
<1> DEFINE i == req[k].slot
           n == Entry(c, i, k)
<1>0. /\ TableTypes /\ Owners /\ Apart /\ Lives /\ KeyTable
      /\ rx = Idle /\ rx' = At("accept", c) /\ UNCHANGED <<curr, req, fresh, failed, crossed, doubled>>
      /\ app[c] = "new" /\ FindKey(k) = NoConn /\ req[k].under = NoKey
  BY DEF TableInv, Accept, fixed, hist
<1>1. /\ c \in Conn /\ c \notin Outb /\ i \in Slots /\ k \in Nat /\ k # NoKey /\ k \notin doubled
      /\ keys \in Seq(KeyEntry) /\ Once(keys, doubled)
  BY <1>0, KeyKinds, TableAssumption DEF TableTypes, Conn, Owners, Brought, KeyTable
<1>2. /\ reg' = [reg EXCEPT ![c] = TRUE] /\ reg \in [Conn -> BOOLEAN] /\ ~reg[c]
      /\ \A j \in Slots : key'[c][j] = (IF j = i THEN k ELSE NoKey)
      /\ \A d \in Conn \ {c} : key'[d] = key[d]
      /\ \A j \in Slots : key[c][j] = NoKey
  BY <1>0, <1>1 DEF Accept, TableTypes, Lives
<1>3. /\ rx'.pc # "insert" /\ \A d \in Conn : ~Inserting(d) /\ ~Inserting(d)'
  BY <1>0 DEF Inserting, Idle, At
<1>4. \A e \in Range(keys) : e.hash # k
  <2> SUFFICES ASSUME NEW e \in Range(keys), e.hash = k PROVE FALSE
    OBVIOUS
  <2>1. e.conn \in Inb
    BY <1>0, KeyKinds
  <2>2. key[e.conn][e.slot] = k
    BY <2>1, <1>0, <1>1, TableAssumption DEF KeyTable, Current, TableTypes
  <2> QED BY <2>2, <1>0, KeyAbsent
<1>5. \A d \in Conn, j \in Slots : reg[d] => key[d][j] # k
  <2> SUFFICES ASSUME NEW d \in Conn, NEW j \in Slots, reg[d], key[d][j] = k PROVE FALSE
    OBVIOUS
  <2>1. d \in Inb
    BY <1>0, KeyKinds DEF Owners, Conn
  <2>2. <<d, j>> \notin failed
    BY <2>1, <1>0, <1>1 DEF Owners, Brought
  <2>3. FindKey(k) = d
    BY <2>2, <1>0, <1>1, <1>3, KeyFound
  <2> QED BY <2>3, <1>0, TableAssumption
<1>e. keys' = <<n>> \o keys
  BY DEF Accept
<1> HIDE DEF i
<1>6. /\ keys' \in Seq(KeyEntry) /\ Once(keys', doubled) /\ Range(keys') = {n} \union Range(keys)
      /\ n.conn = c /\ n.slot = i /\ n.hash = k
  BY <1>1, <1>4, <1>e, Entered
<1> HIDE DEF n
<1>7. Hashes'
  BY <1>0, <1>1, <1>6 DEF KeyTable, Hashes, i
<1>8. Current'
  <2> SUFFICES ASSUME NEW e \in Range(keys'), e.conn \notin crossed, e.hash \notin doubled
               PROVE  e.hash = key'[e.conn][e.slot] /\ reg'[e.conn]
    BY <1>0 DEF Current
  <2>1. CASE e = n
    BY <2>1, <1>1, <1>2, <1>6
  <2>2. CASE e \in Range(keys)
    <3>1. e.hash = key[e.conn][e.slot] /\ reg[e.conn] /\ e.conn \in Conn
      BY <2>2, <1>0, EntryTypes DEF KeyTable, Current
    <3> QED BY <3>1, <1>2
  <2> QED BY <2>1, <2>2, <1>6
<1>9. Present'
  <2> SUFFICES ASSUME NEW d \in Conn, NEW j \in Slots, reg'[d], key'[d][j] \notin doubled \union {NoKey},
                      <<d, j>> \notin failed
               PROVE  Entry(d, j, key'[d][j]) \in Range(keys')
    BY <1>0 DEF Present
  <2>1. CASE d = c
    <3>1. j = i /\ key'[d][j] = k
      BY <2>1, <1>2
    <3> QED BY <3>1, <2>1, <1>6 DEF n
  <2>2. CASE d # c
    BY <2>2, <1>0, <1>2, <1>3, <1>6 DEF KeyTable, Present
  <2> QED BY <2>1, <2>2
<1>10. Pending'
  BY <1>3 DEF Pending
<1>11. Apart'
  <2> SUFFICES ASSUME NEW d \in Conn, NEW e \in Conn, NEW j \in Slots, NEW l \in Slots, reg'[d], reg'[e],
                      key'[d][j] = key'[e][l], key'[d][j] \notin doubled \union {NoKey}
               PROVE  d = e /\ j = l
    BY <1>0 DEF Apart
  <2>1. CASE d # c /\ e # c
    BY <2>1, <1>0, <1>2 DEF Apart
  <2>2. CASE d = c \/ e = c
    BY <2>2, <1>2, <1>5
  <2> QED BY <2>1, <2>2
<1> QED BY <1>0, <1>6, <1>7, <1>8, <1>9, <1>10, <1>11 DEF KeyTable

\* A new key takes a slot's place.  It is fresh, or a peer's: then another connection may have it, and the
\* key is spoiled for both, but no other key is.
LEMMA SetKeyKeys ==
    ASSUME TableInv, NEW c \in Conn, NEW i \in Slots, NEW k, SetKey(c, i, k),
           \/ c \in Outb /\ reg[c] /\ k = fresh' /\ fresh' = fresh + 1 /\ fresh < MaxKey
           \/ c \in Inb /\ Brought(k) /\ req[k].slot = i /\ key[c][i] # k /\ fresh' = fresh,
           SamePlace, rx.pc = "insert" => rx.conn # c
    PROVE  keys' \in Seq(KeyEntry) /\ KeyTable' /\ Apart'
<1>0. /\ TableTypes /\ Owners /\ Apart /\ Lives /\ KeyTable
      /\ UNCHANGED <<curr, req, reg, crossed>>
      /\ keys \in Seq(KeyEntry) /\ Once(keys, doubled) /\ key[c][i] \in Nat
  BY DEF TableInv, SetKey, fixed, TableTypes, KeyTable
<1>k. /\ fresh \in Nat /\ NoKey \notin PeerKey /\ PeerKey \subseteq Nat /\ doubled \subseteq PeerKey
      /\ \A e \in Range(keys) : e.hash # NoKey /\ e.conn \in Conn /\ e.slot \in Slots
      /\ \A e \in Range(keys) : e.hash \in PeerKey => e.conn \in Inb
      /\ \A e \in Range(keys) : e.conn \in Inb => e.hash \in PeerKey /\ e.slot = req[e.hash].slot
      /\ \A e \in Range(keys) : e.conn \in Outb => e.hash \in 1 .. fresh
      /\ \A d \in Inb : d \notin Outb /\ d \notin crossed
  BY <1>0, KeyKinds, EntryTypes, TableAssumption DEF KeyTable, Hashes, TableTypes
<1>1. /\ k \in Nat /\ k # NoKey /\ fresh =< fresh' /\ fresh' \in Nat
      /\ c \in Outb => k \in 1 .. fresh' /\ k \notin PeerKey
      /\ c \in Inb => k \in PeerKey
  <2>1. CASE c \in Outb /\ k = fresh' /\ fresh' = fresh + 1 /\ fresh < MaxKey
    <3>1. fresh' \in 0 .. MaxKey
      BY <2>1, <1>k, TableAssumption
    <3> QED BY <2>1, <3>1, <1>k, <1>0, KeyKinds, TableAssumption DEF NoKey
  <2>2. CASE c \in Inb /\ Brought(k) /\ fresh' = fresh
    BY <2>2, <1>k DEF Brought
  <2> QED BY <2>1, <2>2
<1>2. /\ key'[c][i] = k /\ \A j \in Slots \ {i} : key'[c][j] = key[c][j]
      /\ \A d \in Conn \ {c} : key'[d] = key[d]
  BY <1>0 DEF SetKey, TableTypes
<1>3. \A j \in Slots \ {i} : key[c][j] # k
  <2> SUFFICES ASSUME NEW j \in Slots \ {i}, key[c][j] = k PROVE FALSE
    OBVIOUS
  <2>1. CASE c \in Outb /\ k = fresh + 1
    <3>1. key[c][j] =< fresh
      BY <2>1, <1>0 DEF Owners
    <3> QED BY <2>1, <3>1, <1>k
  <2>2. CASE c \in Inb /\ req[k].slot = i
    BY <2>2, <1>0, <1>1 DEF Owners
  <2> QED BY <2>1, <2>2
<1>4. CASE ~reg[c]
  <2>0. c \in Inb /\ UNCHANGED <<keys, failed, doubled, fresh>>
    BY <1>4 DEF SetKey
  <2>1. Once(keys, doubled)' /\ Hashes'
    BY <1>0, <2>0 DEF KeyTable, Hashes, Once
  <2>2. Current'
    BY <1>0, <1>2, <1>4, <1>k, <2>0 DEF KeyTable, Current
  <2>3. Present'
    BY <1>0, <1>2, <1>4, <2>0 DEF KeyTable, Present, SamePlace, Inserting
  <2>4. Pending'
    <3> SUFFICES ASSUME rx'.pc = "insert"
                 PROVE  /\ \A j \in Slots : (key'[rx'.conn][j] # NoKey) <=> (j = curr'[rx'.conn])
                        /\ \A e \in Range(keys') : e.hash # key'[rx'.conn][curr'[rx'.conn]]
      BY DEF Pending
    <3>1. rx' = rx /\ rx.pc = "insert" /\ rx.conn # c
      BY DEF SamePlace
    <3>2. rx.conn \in Conn
      BY <3>1, <1>0 DEF TableTypes, Conn, Idle, At
    <3> QED BY <3>1, <3>2, <1>0, <1>2, <2>0 DEF KeyTable, Pending
  <2>5. Apart'
    BY <1>0, <1>2, <1>4, <2>0 DEF Apart
  <2> QED BY <1>0, <2>0, <2>1, <2>2, <2>3, <2>4, <2>5 DEF KeyTable
<1>5. CASE reg[c]
  <2> DEFINE t == OldGone(c, i)
             n == Entry(c, i, k)
  <2>0. /\ \/ keys' = <<n>> \o t /\ failed' = failed \ {<<c, i>>}
           \/ keys' = t /\ failed' = failed \union {<<c, i>>}
        /\ doubled' = IF \E d \in Conn \ {c} : reg[d] /\ k \in KeysOf(d) THEN doubled \union {k} ELSE doubled
    BY <1>5 DEF SetKey
  <2>1. /\ t \in Seq(KeyEntry) /\ Once(t, doubled) /\ Range(t) \subseteq Range(keys)
        /\ \A e \in Range(keys) : e.hash # key[c][i] => e \in Range(t)
        /\ key[c][i] \notin doubled \union {NoKey} =>
              \A e \in Range(t) : ~(e.hash = key[c][i] /\ key[e.conn][e.slot] = key[c][i])
    BY <1>0, DropFacts DEF OldGone
  <2> HIDE DEF t
  <2>2. doubled \subseteq doubled' /\ doubled' \subseteq doubled \union {k}
    BY <2>0
  <2>3. k \in doubled' \/ \A d \in Conn \ {c}, j \in Slots : reg[d] => key[d][j] # k
    BY <2>0, <1>1 DEF KeysOf
  <2>4. k \in doubled' \/ \A e \in Range(t) : e.hash # k
    <3> SUFFICES ASSUME k \notin doubled', NEW e \in Range(t), e.hash = k PROVE FALSE
      OBVIOUS
    <3>1. e \in Range(keys) /\ k \notin doubled
      BY <2>1, <2>2
    <3>2. CASE c \in Outb /\ k = fresh + 1
      BY <3>1, <3>2, <1>1, <1>k, TableAssumption DEF Conn
    <3>3. CASE c \in Inb /\ req[k].slot = i /\ key[c][i] # k
      <4>1. e.conn \in Inb /\ e.slot = i
        BY <3>1, <3>3, <1>1, <1>k
      <4>2. key[e.conn][i] = k /\ reg[e.conn]
        BY <3>1, <4>1, <1>0, <1>k DEF KeyTable, Current
      <4> QED BY <4>1, <4>2, <3>3, <2>3, <1>k DEF Conn
    <3> QED BY <3>2, <3>3
  <2>5. Once(t, doubled')
    BY <2>1, <2>2 DEF Once
  <2>6. /\ keys' \in Seq(KeyEntry) /\ Once(keys', doubled') /\ Range(keys') \subseteq {n} \union Range(t)
        /\ Range(t) \subseteq Range(keys') /\ n.conn = c /\ n.slot = i /\ n.hash = k
        /\ \/ n \in Range(keys') /\ failed' = failed \ {<<c, i>>}
           \/ failed' = failed \union {<<c, i>>}
    <3>1. n.conn = c /\ n.slot = i /\ n.hash = k
      BY DEF Entry
    <3>2. CASE keys' = t /\ failed' = failed \union {<<c, i>>}
      BY <3>1, <3>2, <2>1, <2>5
    <3>3. CASE keys' = <<n>> \o t /\ failed' = failed \ {<<c, i>>}
      <4>1. keys' \in Seq(KeyEntry) /\ Once(keys', doubled') /\ Range(keys') = {n} \union Range(t)
        BY <3>3, <2>1, <2>4, <2>5, <1>1, Entered
      <4> QED BY <3>1, <3>3, <4>1
    <3> QED BY <3>2, <3>3, <2>0
  <2> HIDE DEF n
  <2>7. Hashes'
    <3> SUFFICES ASSUME NEW e \in Range(keys')
                 PROVE  IF e.conn \in Outb THEN e.hash \in 1 .. fresh' ELSE e.hash \in PeerKey /\ e.slot = req[e.hash].slot
      BY <1>0 DEF Hashes
    <3>1. CASE e = n
      <4>1. CASE c \in Outb
        BY <3>1, <4>1, <2>6, <1>1
      <4>2. CASE c \in Inb
        BY <3>1, <4>2, <2>6, <1>1, <1>k
      <4> QED BY <4>1, <4>2 DEF Conn
    <3>2. CASE e \in Range(keys)
      BY <3>2, <1>0, <1>1, <1>k DEF KeyTable, Hashes
    <3> QED BY <3>1, <3>2, <2>1, <2>6
  <2>8. Current'
    <3> SUFFICES ASSUME NEW e \in Range(keys'), e.conn \notin crossed, e.hash \notin doubled'
                 PROVE  e.hash = key'[e.conn][e.slot] /\ reg[e.conn]
      BY <1>0 DEF Current
    <3>1. CASE e = n
      BY <3>1, <1>2, <1>5, <2>6
    <3>2. CASE e \in Range(t)
      <4>1. e \in Range(keys) /\ e.hash \notin doubled
        BY <3>2, <2>1, <2>2
      <4>2. e.hash = key[e.conn][e.slot] /\ reg[e.conn] /\ e.hash # NoKey /\ e.conn \in Conn /\ e.slot \in Slots
        BY <4>1, <1>0, <1>k DEF KeyTable, Current
      <4>3. ~(e.conn = c /\ e.slot = i)
        BY <3>2, <4>1, <4>2, <2>1
      <4> QED BY <4>2, <4>3, <1>2
    <3> QED BY <3>1, <3>2, <2>6
  <2>9. Present'
    <3> SUFFICES ASSUME NEW d \in Conn, NEW j \in Slots, reg[d], ~Inserting(d)',
                        key'[d][j] \notin doubled' \union {NoKey}, <<d, j>> \notin failed'
                 PROVE  Entry(d, j, key'[d][j]) \in Range(keys')
      BY <1>0 DEF Present
    <3>1. CASE d = c /\ j = i
      BY <3>1, <1>2, <2>6 DEF n
    <3>2. CASE ~(d = c /\ j = i)
      <4>1. key'[d][j] = key[d][j] /\ ~Inserting(d) /\ key[d][j] \notin doubled \union {NoKey}
            /\ <<d, j>> \notin failed
        BY <3>2, <1>2, <2>2, <2>6 DEF SamePlace, Inserting
      <4>2. Entry(d, j, key[d][j]) \in Range(keys) /\ Entry(d, j, key[d][j]).hash = key[d][j]
        BY <4>1, <1>0 DEF KeyTable, Present, Entry
      <4>3. key[d][j] # key[c][i]
        BY <4>1, <3>2, <1>0, <1>5 DEF Apart
      <4> QED BY <4>1, <4>2, <4>3, <2>1, <2>6
    <3> QED BY <3>1, <3>2
  <2>10. Pending'
    <3> SUFFICES ASSUME rx'.pc = "insert"
                 PROVE  /\ \A j \in Slots : (key'[rx'.conn][j] # NoKey) <=> (j = curr'[rx'.conn])
                        /\ \A e \in Range(keys') : e.hash # key'[rx'.conn][curr'[rx'.conn]]
      BY DEF Pending
    <3>1. rx' = rx /\ rx.pc = "insert" /\ rx.conn # c
      BY DEF SamePlace
    <3>2. rx.conn \in Outb /\ rx.conn \in Conn
      BY <3>1, <1>0 DEF TableTypes, Conn, Idle, At
    <3>3. /\ \A j \in Slots : (key[rx.conn][j] # NoKey) <=> (j = curr[rx.conn])
          /\ \A e \in Range(keys) : e.hash # key[rx.conn][curr[rx.conn]]
      BY <3>1, <1>0 DEF KeyTable, Pending
    <3>4. key'[rx.conn] = key[rx.conn] /\ curr[rx.conn] \in Slots
      BY <3>1, <3>2, <1>0, <1>2 DEF TableTypes
    <3>5. k # key[rx.conn][curr[rx.conn]]
      <4>1. key[rx.conn][curr[rx.conn]] =< fresh /\ key[rx.conn][curr[rx.conn]] \in Nat
        BY <3>2, <3>4, <1>0 DEF Owners, TableTypes
      <4>2. k \in PeerKey => k > fresh
        BY <1>0, KeyKinds
      <4> QED BY <4>1, <4>2, <1>1, <1>k
    <3> QED BY <3>1, <3>3, <3>4, <3>5, <1>0, <2>1, <2>6
  <2>11. Apart'
    <3> SUFFICES ASSUME NEW d \in Conn, NEW e \in Conn, NEW j \in Slots, NEW l \in Slots, reg[d], reg[e],
                        key'[d][j] = key'[e][l], key'[d][j] \notin doubled' \union {NoKey}
                 PROVE  d = e /\ j = l
      BY <1>0 DEF Apart
    <3>1. CASE ~(d = c /\ j = i) /\ ~(e = c /\ l = i)
      <4>1. key'[d][j] = key[d][j] /\ key'[e][l] = key[e][l] /\ key[d][j] \notin doubled \union {NoKey}
        BY <3>1, <1>2, <2>2
      <4> QED BY <4>1, <1>0 DEF Apart
    <3>2. CASE d = c /\ j = i
      BY <3>2, <1>2, <1>3, <2>3
    <3>3. CASE e = c /\ l = i
      BY <3>3, <1>2, <1>3, <2>3
    <3> QED BY <3>1, <3>2, <3>3
  <2> QED BY <2>6, <2>7, <2>8, <2>9, <2>10, <2>11 DEF KeyTable
<1> QED BY <1>4, <1>5
-----------------------------------------------------------------------------
(* What each action does to the table of keys *)

\* What the receiver is doing, by its place
LEMMA Doing ==
    ASSUME TableTypes
    PROVE  /\ rx.pc \in Opening \union Anew => rx.conn \in Outb
           /\ rx.pc \in {"accept", "keyx"} => rx.conn \in Inb
           /\ rx.pc = "keyx" => rx.key \in PeerKey
           /\ rx.pc \in Opening \union Anew \union {"accept", "keyx", "idle"}
           /\ rx.pc = "idle" <=> rx = Idle
           /\ rx.conn = NoConn <=> rx = Idle
           /\ Idle.pc = "idle" /\ Idle.conn = NoConn /\ NoConn \notin Conn /\ Outb \intersect Inb = {}
           /\ \A pc, c : At(pc, c).pc = pc /\ At(pc, c).conn = c
<1>1. CASE rx \in [pc : Opening \union Anew, conn : Outb, key : {NoKey}]
  BY <1>1, TableAssumption DEF Idle, At, Conn, Opening, Anew
<1>2. CASE rx \in [pc : {"accept"}, conn : Inb, key : {NoKey}]
  BY <1>2, TableAssumption DEF Idle, At, Conn, Opening, Anew
<1>3. CASE rx \in [pc : {"keyx"}, conn : Inb, key : PeerKey]
  BY <1>3, TableAssumption DEF Idle, At, Conn, Opening, Anew
<1>4. CASE rx = Idle
  BY <1>4, TableAssumption DEF Idle, At, Opening, Anew, Conn
<1> QED BY <1>1, <1>2, <1>3, <1>4 DEF TableTypes

KeyTables == keys \in Seq(KeyEntry) /\ KeyTable /\ Apart

LEMMA KeyStep == ASSUME TableInv, Next PROVE KeyTables'
<1> USE DEF tables, expiry, fixed, hist
<1>0. TableTypes /\ Owners /\ Apart /\ KeyTable /\ Lives /\ KeyTables
  BY DEF TableInv, TableTypes, KeyTables
<1>d. /\ \A c : c \in Outb \/ c \in Inb => c \in Conn
      /\ Idle.pc = "idle" /\ \A pc, c : At(pc, c).pc = pc
      /\ rx.pc \in Opening \union Anew => rx.conn \in Outb
      /\ rx.pc \in {"accept", "keyx"} => rx.conn \in Inb
      /\ fresh \in Nat /\ fresh =< MaxKey
  BY <1>0, Doing, KeyKinds DEF Conn
<1>1. ASSUME UNCHANGED <<keys, key, reg, req, curr, fresh, failed, crossed, doubled>>, SamePlace PROVE KeyTables'
  BY <1>0, <1>1 DEF KeyTables, KeyTable, Once, Hashes, Current, Present, Pending, Inserting, Apart, SamePlace
<1>2. ASSUME NEW c \in Conn, ConnRemove(c), UNCHANGED <<key, curr, req, fresh, failed, crossed, doubled>>, SamePlace
      PROVE  KeyTables'
  BY <1>0, <1>2, RemoveKeys DEF KeyTables
<1>3. ASSUME NEW c \in Outb, OpenConn(c) PROVE KeyTables'
  <2> DEFINE k == fresh'
             v == [key[c] EXCEPT ![0] = k]
  <2>1. /\ ~reg[c] /\ rx.conn # c /\ c \notin crossed /\ \A j \in Slots : key[c][j] = NoKey
        /\ fresh' = fresh + 1 /\ fresh < MaxKey
        /\ key' = [key EXCEPT ![c] = v] /\ UNCHANGED <<rx, curr, req, failed, crossed, doubled>>
    BY <1>0, <1>3, <1>d DEF OpenConn, Lives
  <2>2. v \in [Slots -> Nat] /\ v[0] = fresh' /\ \A j \in Slots \ {0} : v[j] = NoKey
    BY <1>0, <1>d, <2>1 DEF TableTypes, Slots
  <2>3. CASE UNCHANGED <<keys, reg>>
    <3>1. /\ \A d \in Conn \ {c} : reg'[d] = reg[d]
          /\ UNCHANGED <<keys, req, crossed, doubled>> /\ fresh' \in Nat /\ fresh =< fresh' /\ fresh' =< MaxKey
          /\ failed \ ({c} \X Slots) \subseteq failed' /\ ~reg'[c] /\ c \in Conn /\ ~reg[c]
          /\ rx.pc # "insert" \/ (rx' = rx /\ rx.conn # c /\ curr'[rx.conn] = curr[rx.conn])
          /\ rx'.pc = "insert" => rx' = rx \/ (rx'.conn = c /\ reg'[c])
      BY <1>d, <2>1, <2>3, TableAssumption
    <3>2. keys' = keys /\ key' = [key EXCEPT ![c] = v] /\ v \in [Slots -> Nat]
      BY <2>1, <2>2, <2>3
    <3> HIDE DEF v
    <3>3. KeyTable' /\ Apart'
      BY <1>0, <3>1, <3>2, KeysChange
    <3> QED BY <1>0, <3>2, <3>3 DEF KeyTables
  <2>4. CASE TableInsert(c, 0, fresh') /\ reg' = [reg EXCEPT ![c] = TRUE]
    <3>0. keys' = <<Entry(c, 0, k)>> \o keys /\ k \in Nat /\ k # NoKey /\ k \notin PeerKey /\ c \in Conn
      <4>1. fresh + 1 \in 0 .. MaxKey /\ c \in Conn
        BY <1>d, <2>1, TableAssumption
      <4>2. fresh + 1 \notin PeerKey
        BY <1>0, <4>1, KeyKinds
      <4> QED BY <1>d, <2>1, <2>4, <4>1, <4>2 DEF TableInsert, NoKey
    <3>1. \A e \in Range(keys) : e.hash # k
      <4> SUFFICES ASSUME NEW e \in Range(keys) PROVE e.hash # k
        OBVIOUS
      <4>1. IF e.conn \in Outb THEN e.hash \in 1 .. fresh ELSE e.hash \in PeerKey /\ e.slot = req[e.hash].slot
        BY <1>0 DEF KeyTable, Hashes
      <4> QED BY <4>1, <3>0, <2>1, <1>d
    <3>2. keys \in Seq(KeyEntry) /\ Once(keys, doubled) /\ 0 \in Slots
      BY <1>0 DEF TableTypes, KeyTable, Slots
    <3> HIDE DEF k
    <3> DEFINE n == Entry(c, 0, k)
    <3>3. /\ keys' \in Seq(KeyEntry) /\ Once(keys', doubled) /\ Range(keys') = {n} \union Range(keys)
          /\ n.conn = c /\ n.slot = 0 /\ n.hash = k
      <4>1. Once(keys', doubled) /\ keys' \in Seq(KeyEntry) /\ Range(keys') = {Entry(c, 0, k)} \union Range(keys)
            /\ Entry(c, 0, k).conn = c /\ Entry(c, 0, k).slot = 0 /\ Entry(c, 0, k).hash = k
        <5> HIDE DEF v, k
        <5> QED BY <3>0, <3>1, <3>2, Entered
      <4> QED BY <4>1
    <3> HIDE DEF n, v
    <3>4. /\ key'[c] = v /\ \A d \in Conn \ {c} : key'[d] = key[d] /\ reg'[d] = reg[d]
          /\ reg'[c] /\ v[0] = k
      <4>1. key \in [Conn -> [Slots -> Nat]] /\ reg \in [Conn -> BOOLEAN] /\ c \in Conn
        BY <1>0, <3>0 DEF TableTypes
      <4> QED BY <4>1, <2>1, <2>2, <2>4 DEF k
    <3>5. Hashes'
      BY <1>0, <1>d, <2>1, <3>0, <3>3 DEF KeyTable, Hashes, k
    <3>6. Current'
      <4>1. \A e \in Range(keys) : e.conn \notin crossed /\ e.hash \notin doubled => e.conn # c /\ e.conn \in Conn
        BY <1>0, <2>1, EntryTypes DEF KeyTable, Current
      <4> QED BY <1>0, <2>1, <3>3, <3>4, <4>1 DEF KeyTable, Current
    <3>7. Present'
      <4> SUFFICES ASSUME NEW d \in Conn, NEW j \in Slots, reg'[d], ~Inserting(d),
                          key'[d][j] \notin doubled \union {NoKey}, <<d, j>> \notin failed
                   PROVE  Entry(d, j, key'[d][j]) \in Range(keys')
        BY <2>1 DEF Present, Inserting
      <4>1. CASE d = c
        <5>1. j = 0
          BY <4>1, <2>2, <3>4
        <5> QED BY <4>1, <5>1, <3>3, <3>4 DEF n
      <4>2. CASE d # c
        BY <4>2, <1>0, <3>3, <3>4 DEF KeyTable, Present
      <4> QED BY <4>1, <4>2
    <3>8. Pending'
      <4> SUFFICES ASSUME rx.pc = "insert"
                   PROVE  /\ \A j \in Slots : (key'[rx.conn][j] # NoKey) <=> (j = curr[rx.conn])
                          /\ \A e \in Range(keys') : e.hash # key'[rx.conn][curr[rx.conn]]
        BY <2>1 DEF Pending
      <4>1. rx.conn \in Outb /\ rx.conn \in Conn
        BY <1>d DEF Anew
      <4>2. key'[rx.conn] = key[rx.conn] /\ curr[rx.conn] \in Slots
        BY <1>0, <2>1, <3>4, <4>1 DEF TableTypes
      <4>3. k # key[rx.conn][curr[rx.conn]]
        <5>1. key[rx.conn][curr[rx.conn]] =< fresh /\ key[rx.conn][curr[rx.conn]] \in Nat
          BY <1>0, <4>1, <4>2 DEF Owners, TableTypes
        <5> QED BY <5>1, <1>d, <2>1 DEF k
      <4> QED BY <1>0, <3>3, <4>2, <4>3 DEF KeyTable, Pending
    <3>9. Apart'
      <4>1. \A d \in Conn, j \in Slots : key[d][j] # k
        <5> SUFFICES ASSUME NEW d \in Conn, NEW j \in Slots PROVE key[d][j] # k
          OBVIOUS
        <5>1. key[d][j] \in Nat /\ (key[d][j] =< fresh \/ key[d][j] = NoKey \/ key[d][j] \in PeerKey)
          BY <1>0 DEF Owners, TableTypes, Conn
        <5> QED BY <5>1, <3>0, <2>1, <1>d DEF k
      <4> SUFFICES ASSUME NEW d \in Conn, NEW e \in Conn, NEW j \in Slots, NEW l \in Slots, reg'[d], reg'[e],
                          key'[d][j] = key'[e][l], key'[d][j] \notin doubled \union {NoKey}
                   PROVE  d = e /\ j = l
        BY <2>1 DEF Apart
      <4>2. CASE d # c /\ e # c
        BY <4>2, <1>0, <3>4 DEF Apart
      <4>3. CASE d = c \/ e = c
        BY <4>1, <4>3, <2>2, <3>4
      <4> QED BY <4>2, <4>3
    <3> QED BY <2>1, <3>3, <3>5, <3>6, <3>7, <3>8, <3>9 DEF KeyTable, KeyTables
  <2> QED BY <1>3, <2>3, <2>4 DEF OpenConn
<1>4. ASSUME NEW c \in Outb, Close(c) PROVE KeyTables'
  BY <1>2, <1>4, <1>d DEF Close, SamePlace
<1>5. ASSUME NEW c \in Outb, CloseBegin(c) PROVE KeyTables'
  <2>1. /\ UNCHANGED <<keys, key, reg, req, curr, fresh, failed, doubled, rx>> /\ crossed \subseteq crossed'
    BY <1>5 DEF CloseBegin
  <2> QED
    BY <1>0, <2>1 DEF KeyTables, KeyTable, Once, Hashes, Current, Present, Pending, Inserting, Apart
<1>6. ASSUME NEW c \in Outb, NewKey(c) PROVE KeyTables'
  <2> DEFINE i == (curr[c] + 1) % 2
  <2>1. i \in Slots
    <3>1. curr[c] \in {0, 1}
      BY <1>0 DEF TableTypes, Slots
    <3> QED BY <3>1 DEF Slots
  <2>2. SetKey(c, i, fresh') /\ reg[c] /\ open[c] /\ fresh' = fresh + 1 /\ fresh < MaxKey /\ rx' = rx
    BY <1>6 DEF NewKey
  <2>3. rx.pc = "insert" => rx.conn # c
    BY <1>0, <2>2 DEF Lives, Anew
  <2> HIDE DEF i
  <2> QED BY <1>d, <2>1, <2>2, <2>3, SetKeyKeys DEF SamePlace, KeyTables
<1>7. ASSUME NEW c \in Conn, Destroy(c) PROVE KeyTables'
  <2>1. CASE UNCHANGED key
    BY <1>1, <1>7, <2>1 DEF Destroy, SamePlace
  <2>2. CASE key' = [key EXCEPT ![c] = [i \in Slots |-> NoKey]]
    <3> DEFINE v == [i \in Slots |-> NoKey]
    <3>1. v \in [Slots -> Nat]
      BY DEF NoKey
    <3>2. ~reg[c] /\ rx.conn # c /\ UNCHANGED <<keys, reg, req, curr, fresh, failed, crossed, doubled, rx>>
      BY <1>7 DEF Destroy
    <3> HIDE DEF v
    <3>3. key' = [key EXCEPT ![c] = v]
      BY <2>2 DEF v
    <3>4. KeyTable' /\ Apart'
      <4>1. /\ \A d \in Conn \ {c} : reg'[d] = reg[d]
            /\ fresh' \in Nat /\ fresh =< fresh' /\ fresh' =< MaxKey
            /\ failed \ ({c} \X Slots) \subseteq failed' /\ ~reg'[c]
            /\ rx.pc # "insert" \/ (rx' = rx /\ rx.conn # c /\ curr'[rx.conn] = curr[rx.conn])
            /\ rx'.pc = "insert" => rx' = rx \/ (rx'.conn = c /\ reg'[c])
        BY <1>d, <3>2
      <4> QED BY <1>0, <4>1, <3>1, <3>2, <3>3, KeysChange
    <3> QED BY <1>0, <3>2, <3>4 DEF KeyTables
  <2> QED BY <1>7, <2>1, <2>2 DEF Destroy
<1>8. ASSUME NEW c \in Outb, SetCurr(c) PROVE KeyTables'
  BY <1>0, <1>8, <1>d DEF SetCurr, KeyTables, KeyTable, Once, Hashes, Current, Present, Pending, Inserting, Apart
<1>9. CASE HandlerTakes \/ HandlerFails \/ Opened \/ (\E c \in Outb : Retry(c)) \/ (\E k \in 1 .. MaxKey : OpenRep(k))
           \/ (\E k \in PeerKey : KeyxReq(k)) \/ Accepted \/ ExpireScan
  BY <1>1, <1>9, <1>d DEF HandlerTakes, HandlerFails, Opened, Retry, OpenRep, KeyxReq, Accepted, ExpireScan, SamePlace
<1>10. CASE Reset
  <2>1. rx.conn \in Conn
    BY <1>10, <1>d DEF Reset, Anew
  <2> QED BY <1>2, <1>10, <1>d, <2>1 DEF Reset, SamePlace
<1>11. CASE Rekey
  <2> DEFINE c == rx.conn
             i == (curr[c] + 1) % 2
             k == fresh'
             v == [j \in Slots |-> IF j = i THEN k ELSE NoKey]
  <2>1. c \in Outb /\ c \in Conn /\ ~reg[c] /\ rx.pc = "rekey" /\ fresh' = fresh + 1 /\ fresh < MaxKey
    BY <1>0, <1>11, <1>d DEF Rekey, Anew, Lives
  <2>2. i \in Slots
    <3>1. curr[c] \in {0, 1}
      BY <1>0, <2>1 DEF TableTypes, Slots
    <3> QED BY <3>1 DEF Slots
  <2>3. v \in [Slots -> Nat] /\ v[i] = fresh' /\ \A j \in Slots \ {i} : v[j] = NoKey
    BY <1>d, <2>1, <2>2 DEF NoKey
  <2>4. /\ key' = [key EXCEPT ![c] = v] /\ curr' = [curr EXCEPT ![c] = i] /\ reg' = [reg EXCEPT ![c] = TRUE]
        /\ rx' = At("insert", c) /\ failed' = failed \ ({c} \X Slots)
        /\ UNCHANGED <<keys, req, crossed, doubled>>
    BY <1>11 DEF Rekey
  <2> HIDE DEF c, i, v, k
  <2>5. /\ rx'.pc = "insert" /\ rx'.conn = c /\ curr'[c] = i /\ \A d \in Conn \ {c} : reg'[d] = reg[d]
    BY <1>0, <2>1, <2>4, Doing DEF TableTypes
  <2>6. KeyTable' /\ Apart'
    <3>1. /\ fresh' \in Nat /\ fresh =< fresh' /\ fresh' =< MaxKey
          /\ failed \ ({c} \X Slots) \subseteq failed'
          /\ rx.pc # "insert" \/ (rx' = rx /\ rx.conn # c /\ curr'[rx.conn] = curr[rx.conn])
          /\ rx'.pc = "insert" => rx' = rx \/ (rx'.conn = c /\ reg'[c])
          /\ \E j \in Slots : /\ v[j] = fresh' /\ fresh' = fresh + 1 /\ \A l \in Slots \ {j} : v[l] = NoKey
                             /\ rx'.pc = "insert" /\ rx'.conn = c /\ curr'[c] = j
          /\ reg'[c]
      BY <1>0, <1>d, <2>1, <2>2, <2>3, <2>4, <2>5, TableAssumption DEF TableTypes
    <3> QED BY <1>0, <2>1, <2>3, <2>4, <2>5, <3>1, KeysChange
  <2> QED BY <1>0, <2>4, <2>6 DEF KeyTables
<1>12. CASE Reinsert
  BY <1>12, ReinsertKeys DEF KeyTables
<1>13. ASSUME NEW c \in Inb, NEW k \in PeerKey, Accept(c, k) PROVE KeyTables'
  BY <1>13, AcceptKeys DEF KeyTables
<1>14. ASSUME NEW c \in Inb, ExpireClose(c) PROVE KeyTables'
  BY <1>2, <1>14, <1>d DEF ExpireClose, CloseInb, SamePlace
<1>15. CASE NotAccepted
  BY <1>2, <1>15, <1>d DEF NotAccepted, CloseInb, SamePlace
<1>16. CASE KeyxHandle
  <2> DEFINE c == rx.conn
             i == req[rx.key].slot
  <2>1. c \in Inb /\ c \in Conn /\ rx.key \in PeerKey /\ i \in Slots /\ Brought(rx.key) /\ rx.pc = "keyx"
    BY <1>0, <1>16, <1>d, Doing DEF KeyxHandle, TableTypes, Lives
  <2>2. SamePlace /\ fresh' = fresh
    BY <1>16, <1>d, <2>1 DEF KeyxHandle, SamePlace
  <2>3. CASE key[c][i] = rx.key
    BY <1>1, <1>16, <2>2, <2>3 DEF KeyxHandle
  <2>4. CASE key[c][i] # rx.key
    <3>1. SetKey(c, i, rx.key)
      BY <1>16, <2>4 DEF KeyxHandle
    <3> HIDE DEF c, i
    <3>2. i = req[rx.key].slot
      BY DEF i
    <3> QED BY <2>1, <2>2, <2>4, <3>1, <3>2, SetKeyKeys DEF KeyTables
  <2> QED BY <2>3, <2>4
<1> QED
  BY <1>3, <1>4, <1>5, <1>6, <1>7, <1>8, <1>9, <1>10, <1>11, <1>12, <1>13, <1>14, <1>15, <1>16 DEF Next
-----------------------------------------------------------------------------
(* The table of addresses *)

LEMMA AtAddrIs ==
    ASSUME addrs \in Seq(Outb), NEW a
    PROVE  \/ AtAddr(a) = 0 /\ \A i \in DOMAIN addrs : addr[addrs[i]] # a
           \/ AtAddr(a) \in DOMAIN addrs /\ addr[addrs[AtAddr(a)]] = a
<1> DEFINE M == {i \in DOMAIN addrs : addr[addrs[i]] = a}
<1>1. M \subseteq Nat
  OBVIOUS
<1>2. CASE M = {}
  BY <1>2 DEF AtAddr, First
<1>3. CASE M # {}
  <2>1. Min(M) \in M
    BY <1>1, <1>3, MinFacts
  <2>2. AtAddr(a) = Min(M)
    BY <1>3 DEF AtAddr, First
  <2> QED BY <2>1, <2>2
<1> QED BY <1>2, <1>3

\* What an address finds is an entry with it.
LEMMA FoundAddr ==
    ASSUME addrs \in Seq(Outb), NEW a
    PROVE  \/ FindAddr(a) = NoConn /\ AtAddr(a) = 0 /\ \A c \in Range(addrs) : addr[c] # a
           \/ FindAddr(a) \in Range(addrs) /\ addr[FindAddr(a)] = a /\ FindAddr(a) # NoConn
              /\ AtAddr(a) \in DOMAIN addrs /\ addrs[AtAddr(a)] = FindAddr(a)
<1>1. CASE AtAddr(a) = 0
  BY <1>1, AtAddrIs DEF FindAddr, Range
<1>2. CASE AtAddr(a) # 0
  <2>1. AtAddr(a) \in DOMAIN addrs /\ addr[addrs[AtAddr(a)]] = a
    BY <1>2, AtAddrIs
  <2>2. FindAddr(a) = addrs[AtAddr(a)] /\ addrs[AtAddr(a)] \in Outb
    BY <1>2, <2>1 DEF FindAddr
  <2>3. FindAddr(a) \in Range(addrs)
    BY <2>1, <2>2 DEF Range
  <2> QED BY <2>1, <2>2, <2>3, TableAssumption DEF Conn
<1> QED BY <1>1, <1>2

\* Removing by an address touches no other address; and if it is not shared, the one connection there
\* goes, or there was none.
LEMMA AddrRemoved ==
    ASSUME addrs \in Seq(Outb), AddrOnce(addrs), NEW c \in Outb, RemoveAddr(c), UNCHANGED addr
    PROVE  /\ addrs' \in Seq(Outb) /\ AddrOnce(addrs)' /\ Range(addrs') \subseteq Range(addrs)
           /\ shared \subseteq shared'
           /\ \A d \in Range(addrs) \ {c} : addr[d] \notin shared' => d \in Range(addrs')
           /\ addr[c] \notin shared' => c \notin Range(addrs')
<1> DEFINE a == addr[c]
           i == AtAddr(a)
           w == Without(addrs, i)
<1>1. addrs' = w /\ shared' = IF FindAddr(a) \in {c, NoConn} THEN shared ELSE shared \union {a}
  BY DEF RemoveAddr
<1>2. i \in 0 .. Len(addrs) /\ (i # 0 => i \in DOMAIN addrs /\ addr[addrs[i]] = a /\ FindAddr(a) = addrs[i])
      /\ (i = 0 => \A d \in Range(addrs) : addr[d] # a)
  BY FoundAddr
<1> HIDE DEF i, a
<1>3. /\ w \in Seq(Outb)
      /\ \A p \in DOMAIN w : Old(i, p) \in DOMAIN addrs \ {i} /\ w[p] = addrs[Old(i, p)]
      /\ \A p, q \in DOMAIN w : Old(i, p) = Old(i, q) => p = q
      /\ \A r \in DOMAIN addrs \ {i} : \E p \in DOMAIN w : Old(i, p) = r
  BY <1>2, WithoutPlaces
<1> HIDE DEF w
<1>4. shared \subseteq shared'
  BY <1>1
<1>5. AddrOnce(addrs)'
  <2> SUFFICES ASSUME NEW p \in DOMAIN w, NEW q \in DOMAIN w, addr[w[p]] = addr[w[q]], addr[w[p]] \notin shared'
               PROVE  p = q
    BY <1>1 DEF AddrOnce
  <2>1. Old(i, p) = Old(i, q)
    BY <1>3, <1>4 DEF AddrOnce
  <2> QED BY <2>1, <1>3
<1>6. Range(w) \subseteq Range(addrs)
  <2> SUFFICES ASSUME NEW d \in Range(w) PROVE d \in Range(addrs)
    OBVIOUS
  <2>1. PICK p \in DOMAIN w : d = w[p]
    BY DEF Range
  <2> QED BY <2>1, <1>3 DEF Range
<1>7. ASSUME NEW d \in Range(addrs), d # c, addr[d] \notin shared' PROVE d \in Range(w)
  <2>1. PICK r \in DOMAIN addrs : d = addrs[r]
    BY DEF Range
  <2>2. r # i
    <3> SUFFICES ASSUME r = i PROVE FALSE
      OBVIOUS
    <3>1. i # 0 /\ FindAddr(a) = d /\ addr[d] = a
      BY <1>2, <2>1
    <3>2. d # NoConn
      BY <2>1, TableAssumption DEF Conn
    <3> QED BY <3>1, <3>2, <1>1, <1>7
  <2>3. PICK p \in DOMAIN w : Old(i, p) = r
    BY <2>1, <2>2, <1>3
  <2> QED BY <2>1, <2>3, <1>3 DEF Range
<1>8. ASSUME addr[c] \notin shared', c \in Range(w) PROVE FALSE
  <2>1. PICK p \in DOMAIN w : c = w[p]
    BY <1>8 DEF Range
  <2>2. Old(i, p) \in DOMAIN addrs /\ Old(i, p) # i /\ addrs[Old(i, p)] = c
    BY <2>1, <1>3
  <2>3. i # 0
    BY <2>2, <1>2 DEF Range, a
  <2>4. addr[addrs[i]] = addr[addrs[Old(i, p)]] /\ i \in DOMAIN addrs
    BY <2>2, <2>3, <1>2 DEF a
  <2>5. addr[addrs[i]] \notin shared
    BY <2>2, <2>4, <1>4, <1>8
  <2> QED BY <2>2, <2>4, <2>5 DEF AddrOnce
<1> QED BY <1>1, <1>3, <1>4, <1>5, <1>6, <1>7, <1>8

LEMMA AddrAdded ==
    ASSUME addrs \in Seq(Outb), AddrOnce(addrs), NEW c \in Outb, NEW i, NEW k, TableInsert(c, i, k), UNCHANGED addr
    PROVE  /\ addrs' \in Seq(Outb) /\ AddrOnce(addrs)' /\ Range(addrs') = {c} \union Range(addrs)
           /\ shared \subseteq shared'
<1>1. /\ addrs' = <<c>> \o addrs /\ shared \subseteq shared'
      /\ addr[c] \notin shared' => \A d \in Range(addrs) : addr[d] # addr[c]
  BY FoundAddr DEF TableInsert
<1>2. /\ 1 \in DOMAIN addrs' /\ addrs'[1] = c /\ addrs' \in Seq(Outb) /\ Range(addrs') = {c} \union Range(addrs)
      /\ \A p \in DOMAIN addrs' : p # 1 => p - 1 \in DOMAIN addrs /\ addrs'[p] = addrs[p - 1]
  BY <1>1, ConsPlaces
<1>3. \A p \in DOMAIN addrs' : p \in Nat
  BY <1>2
<1>4. AddrOnce(addrs)'
  <2> SUFFICES ASSUME NEW p \in DOMAIN addrs', NEW q \in DOMAIN addrs', addr[addrs'[p]] = addr[addrs'[q]],
                      addr[addrs'[p]] \notin shared'
               PROVE  p = q
    BY DEF AddrOnce
  <2>1. CASE p # 1 /\ q # 1
    <3>1. p - 1 = q - 1
      BY <2>1, <1>1, <1>2 DEF AddrOnce
    <3> QED BY <3>1, <1>3
  <2>2. \A r \in DOMAIN addrs' : r # 1 => addrs'[r] \in Range(addrs)
    BY <1>2 DEF Range
  <2>3. CASE p = 1 /\ q # 1
    BY <2>2, <2>3, <1>1, <1>2
  <2>4. CASE p # 1 /\ q = 1
    BY <2>2, <2>4, <1>1, <1>2
  <2> QED BY <2>1, <2>3, <2>4
<1> QED BY <1>1, <1>2, <1>4

\* An address that is not shared finds the connection that has an entry there.
LEMMA AddrFound ==
    ASSUME addrs \in Seq(Outb), AddrOnce(addrs), NEW c \in Range(addrs), addr[c] \notin shared
    PROVE  FindAddr(addr[c]) = c
<1>1. PICK p \in DOMAIN addrs : addrs[p] = c
  BY DEF Range
<1>2. AtAddr(addr[c]) = p /\ p # 0
  BY <1>1, AtAddrIs DEF AddrOnce
<1> QED BY <1>1, <1>2 DEF FindAddr

Expected(c) == Awaited(c) \/ Receiving(c) \/ c \in refused \union crossed

LEMMA AddrIs ==
    AddrTable <=> /\ AddrOnce(addrs)
                  /\ \A c \in Outb : Awaited(c) /\ addr[c] \notin shared => c \in Range(addrs)
                  /\ \A c \in Range(addrs) : addr[c] \in shared \/ Expected(c)
  BY DEF AddrTable, Expected

\* The table stays as it is, and nobody comes to be awaited who was not.
LEMMA AddrKept ==
    ASSUME AddrTable, UNCHANGED <<addrs, addr>>, addrs \in Seq(Outb), shared \subseteq shared',
           \A c \in Outb : Awaited(c)' => Awaited(c),
           \A c \in Outb : Expected(c) => Expected(c)'
    PROVE  AddrTable'
<1>1. \A c \in Range(addrs) : c \in Outb
  BY DEF Range
<1>2. AddrOnce(addrs)'
  BY AddrIs DEF AddrOnce
<1>3. \A c \in Outb : Awaited(c)' /\ addr[c]' \notin shared' => c \in Range(addrs')
  BY AddrIs
<1>4. \A c \in Range(addrs') : addr[c]' \in shared' \/ Expected(c)'
  BY <1>1, AddrIs
<1> QED BY <1>2, <1>3, <1>4 DEF AddrTable, Expected

LEMMA AddrLeft ==
    ASSUME AddrTable, addrs \in Seq(Outb), NEW c \in Outb, RemoveAddr(c), UNCHANGED addr, ~Awaited(c)',
           \A d \in Outb \ {c} : Awaited(d)' => Awaited(d),
           \A d \in Outb \ {c} : Expected(d) => Expected(d)'
    PROVE  AddrTable'
<1>1. AddrOnce(addrs)
  BY AddrIs
<1>2. /\ AddrOnce(addrs)' /\ Range(addrs') \subseteq Range(addrs) /\ shared \subseteq shared'
      /\ \A d \in Range(addrs) \ {c} : addr[d] \notin shared' => d \in Range(addrs')
      /\ addr[c] \notin shared' => c \notin Range(addrs')
  BY <1>1, AddrRemoved
<1>3. \A d \in Range(addrs) : d \in Outb
  BY DEF Range
<1>4. \A d \in Outb : Awaited(d)' /\ addr[d]' \notin shared' => d \in Range(addrs')
  BY <1>2, AddrIs
<1>5. \A d \in Range(addrs') : addr[d]' \in shared' \/ Expected(d)'
  BY <1>2, <1>3, AddrIs
<1> QED BY <1>2, <1>4, <1>5 DEF AddrTable, Expected

LEMMA AddrEntered ==
    ASSUME AddrTable, addrs \in Seq(Outb), NEW c \in Outb, NEW i, NEW k, TableInsert(c, i, k), UNCHANGED addr,
           Expected(c)',
           \A d \in Outb \ {c} : Awaited(d)' => Awaited(d),
           \A d \in Outb \ {c} : Expected(d) => Expected(d)'
    PROVE  AddrTable'
<1>1. AddrOnce(addrs)
  BY AddrIs
<1>2. AddrOnce(addrs)' /\ Range(addrs') = {c} \union Range(addrs) /\ shared \subseteq shared'
  BY <1>1, AddrAdded
<1>3. \A d \in Range(addrs) : d \in Outb
  BY DEF Range
<1>4. \A d \in Outb : Awaited(d)' /\ addr[d]' \notin shared' => d \in Range(addrs')
  BY <1>2, AddrIs
<1>5. \A d \in Range(addrs') : addr[d]' \in shared' \/ Expected(d)'
  BY <1>2, <1>3, AddrIs
<1> QED BY <1>2, <1>4, <1>5 DEF AddrTable, Expected

LEMMA AddrStep == ASSUME TableInv, Next PROVE AddrTable' /\ addrs' \in Seq(Outb)
<1> USE DEF tables, expiry, fixed, hist
<1>0. /\ Lives /\ AddrTable /\ AddrOnce(addrs) /\ addrs \in Seq(Outb)
      /\ open \in [Conn -> BOOLEAN] /\ reg \in [Conn -> BOOLEAN] /\ Outb \subseteq Conn
      /\ rx.pc \in Opening \union Anew => rx.conn \in Outb
      /\ rx.pc \in {"accept", "keyx"} => rx.conn \in Inb
      /\ rx = Idle => rx.pc = "idle" /\ rx.conn = NoConn
      /\ Idle.pc = "idle" /\ Idle.conn = NoConn /\ NoConn \notin Conn
      /\ \A pc, c : At(pc, c).pc = pc /\ At(pc, c).conn = c
      /\ Outb \intersect Inb = {}
  BY Doing DEF TableInv, TableTypes, Conn, AddrTable
<1>1. ASSUME UNCHANGED <<addrs, addr, reg, open, rx>>, shared \subseteq shared', refused \subseteq refused',
             crossed \subseteq crossed'
      PROVE  AddrTable' /\ addrs' \in Seq(Outb)
  BY <1>0, <1>1, AddrKept DEF Awaited, Receiving, Inserting, Expected
<1>2. ASSUME NEW c \in Outb, OpenConn(c) PROVE AddrTable' /\ addrs' \in Seq(Outb)
  <2>1. ~reg[c] /\ ~open[c] /\ rx.conn # c /\ UNCHANGED <<addr, refused, crossed, open, rx>>
    BY <1>0, <1>2 DEF Lives, OpenConn
  <2>2. CASE TableInsert(c, 0, fresh') /\ reg' = [reg EXCEPT ![c] = TRUE]
    <3>1. Expected(c)' /\ \A d \in Outb \ {c} : (Awaited(d)' <=> Awaited(d)) /\ (Expected(d)' <=> Expected(d))
      BY <1>0, <2>1, <2>2 DEF Awaited, Receiving, Inserting, Expected
    <3> QED BY <1>0, <2>1, <2>2, <3>1, AddrEntered, AddrAdded
  <2> QED BY <1>1, <1>2, <2>1, <2>2 DEF OpenConn
<1>3. ASSUME NEW c \in Outb, ConnRemove(c), UNCHANGED <<addr, refused, crossed, open>>,
             rx' = rx \/ (rx.pc = "reset" /\ rx.conn = c /\ rx'.pc \in {"rekey", "idle"}), open[c] => rx' = rx
      PROVE  AddrTable' /\ addrs' \in Seq(Outb)
  <2>1. reg' = [reg EXCEPT ![c] = FALSE]
    BY <1>3 DEF ConnRemove
  <2>2. ~Awaited(c)' /\ \A d \in Outb \ {c} : (Awaited(d)' <=> Awaited(d)) /\ (Expected(d)' <=> Expected(d))
    BY <1>0, <1>3, <2>1 DEF Awaited, Receiving, Inserting, Expected, Opening
  <2>3. CASE reg[c] /\ ~open[c]
    <3>1. RemoveAddr(c)
      BY <1>3, <2>3 DEF ConnRemove, TableRemove, HasAddr
    <3> QED BY <1>0, <1>3, <2>2, <3>1, AddrLeft, AddrRemoved
  <2>4. CASE ~(reg[c] /\ ~open[c])
    <3>1. UNCHANGED <<addrs, shared>>
      BY <1>3, <2>4 DEF ConnRemove, TableRemove, HasAddr
    <3>2. Expected(c) => Expected(c)'
      BY <1>0, <1>3, <2>4 DEF Awaited, Receiving, Inserting, Expected, Opening
    <3> QED BY <1>0, <1>3, <2>2, <3>1, <3>2, AddrKept
  <2> QED BY <2>3, <2>4
<1>4. ASSUME NEW c \in Outb, Close(c) PROVE AddrTable' /\ addrs' \in Seq(Outb)
  BY <1>3, <1>4 DEF Close
<1>5. CASE Reset
  BY <1>0, <1>3, <1>5 DEF Reset, Lives, Anew
<1>6. ASSUME NEW c \in Conn, Destroy(c) PROVE AddrTable' /\ addrs' \in Seq(Outb)
  BY <1>0, <1>6, AddrKept DEF Destroy, Awaited, Receiving, Inserting, Expected
<1>7. ASSUME NEW k \in 1 .. MaxKey, OpenRep(k) PROVE AddrTable' /\ addrs' \in Seq(Outb)
  BY <1>0, <1>7, AddrKept DEF OpenRep, Awaited, Receiving, Inserting, Expected, Opening
<1>8. CASE HandlerTakes
  BY <1>0, <1>8, AddrKept DEF HandlerTakes, Awaited, Receiving, Inserting, Expected, Opening
<1>9. CASE HandlerFails
  <2>1. rx.conn \in Outb /\ rx' = Idle /\ UNCHANGED <<addrs, addr, reg, shared, crossed>> /\ refused \subseteq refused'
        /\ open' = [open EXCEPT ![rx.conn] = FALSE] /\ (reg[rx.conn] \/ rx.conn \in refused')
    BY <1>0, <1>9 DEF HandlerFails, Opening
  <2>2. \A d \in Outb : (Awaited(d)' => Awaited(d)) /\ (Expected(d) => Expected(d)')
    BY <1>0, <1>9, <2>1 DEF HandlerFails, Awaited, Receiving, Inserting, Expected, Opening
  <2> QED BY <1>0, <2>1, <2>2, AddrKept
<1>10. CASE Opened
  <2>1. PICK c \in Outb : c = rx.conn
    BY <1>0, <1>10 DEF Opened, Opening
  <2>2. /\ open[c] /\ RemoveAddr(c) /\ rx' = Idle /\ rx.pc = "opened"
        /\ UNCHANGED <<addr, reg, open, refused, crossed>>
    BY <1>0, <1>10, <2>1 DEF Opened, Lives, Opening
  <2>3. ~Awaited(c)' /\ \A d \in Outb \ {c} : (Awaited(d)' <=> Awaited(d)) /\ (Expected(d)' <=> Expected(d))
    BY <1>0, <2>1, <2>2 DEF Awaited, Receiving, Inserting, Expected, Opening
  <2> QED BY <1>0, <2>2, <2>3, AddrLeft, AddrRemoved
<1>11. CASE (\E c \in Outb : Retry(c)) \/ (\E k \in PeerKey : KeyxReq(k)) \/ KeyxHandle \/ Accepted
  BY <1>0, <1>11, AddrKept DEF Retry, KeyxReq, KeyxHandle, SetKey, Accepted, Awaited, Receiving, Inserting,
                               Expected, Opening
<1>12. CASE Rekey
  <2>1. rx.conn \in Outb /\ ~reg[rx.conn] /\ rx' = At("insert", rx.conn) /\ reg' = [reg EXCEPT ![rx.conn] = TRUE]
        /\ UNCHANGED <<addrs, addr, open, shared, refused, crossed>>
    BY <1>0, <1>12 DEF Rekey, Lives, Anew
  <2>2. \A d \in Outb : (Awaited(d)' => Awaited(d)) /\ (Expected(d) => Expected(d)')
    BY <1>0, <1>12, <2>1 DEF Rekey, Awaited, Receiving, Inserting, Expected, Opening
  <2> QED BY <1>0, <2>1, <2>2, AddrKept
<1>13. CASE Reinsert
  <2>p. PICK c \in Outb : c = rx.conn
    BY <1>0, <1>13 DEF Reinsert, Anew
  <2>0. c = rx.conn /\ ~open[c] /\ rx' = Idle /\ rx.pc = "insert" /\ (c \in crossed \/ reg[c])
        /\ UNCHANGED <<addr, refused, crossed, open>>
    BY <1>0, <1>13, <2>p DEF Reinsert, Lives, Anew
  <2>1. CASE TableInsert(c, curr[c], key[c][curr[c]]) /\ UNCHANGED reg
    <3>1. Expected(c)' /\ \A d \in Outb \ {c} : (Awaited(d)' <=> Awaited(d)) /\ (Expected(d)' <=> Expected(d))
      BY <1>0, <2>0, <2>1 DEF Awaited, Receiving, Inserting, Expected, Opening
    <3> QED BY <1>0, <2>0, <2>1, <3>1, AddrEntered, AddrAdded
  <2>2. CASE reg' = [reg EXCEPT ![c] = FALSE] /\ UNCHANGED <<addrs, shared>>
    <3>1. \A d \in Outb : (Awaited(d)' => Awaited(d)) /\ (Expected(d) => Expected(d)')
      BY <1>0, <2>0, <2>2 DEF Awaited, Receiving, Inserting, Expected, Opening
    <3> QED BY <1>0, <2>0, <2>2, <3>1, AddrKept
  <2> QED BY <1>13, <2>p, <2>1, <2>2 DEF Reinsert
<1>14. ASSUME NEW c \in Inb, CloseInb(c), UNCHANGED rx \/ (rx.pc = "accept" /\ rx' = Idle)
       PROVE  AddrTable' /\ addrs' \in Seq(Outb)
  <2>1. UNCHANGED <<addrs, addr, open, shared, refused, crossed>> /\ reg' = [reg EXCEPT ![c] = FALSE]
    BY <1>0, <1>14 DEF CloseInb, ConnRemove, TableRemove, HasAddr
  <2>2. \A d \in Outb : (Awaited(d)' => Awaited(d)) /\ (Expected(d) => Expected(d)')
    BY <1>0, <1>14, <2>1 DEF Awaited, Receiving, Inserting, Expected, Opening
  <2> QED BY <1>0, <2>1, <2>2, AddrKept
<1>15. ASSUME NEW c \in Inb, NEW k \in PeerKey, Accept(c, k) PROVE AddrTable' /\ addrs' \in Seq(Outb)
  BY <1>0, <1>15, AddrKept DEF Accept, Awaited, Receiving, Inserting, Expected, Opening
<1>16. CASE (\E c \in Outb : NewKey(c) \/ SetCurr(c) \/ CloseBegin(c)) \/ ExpireScan
  BY <1>1, <1>16 DEF NewKey, SetKey, SetCurr, CloseBegin, ExpireScan
<1>17. CASE NotAccepted \/ \E c \in Inb : ExpireClose(c)
  BY <1>0, <1>14, <1>17 DEF NotAccepted, ExpireClose
<1> QED
  BY <1>2, <1>4, <1>5, <1>6, <1>7, <1>8, <1>9, <1>10, <1>11, <1>12, <1>13, <1>15, <1>16, <1>17 DEF Next
-----------------------------------------------------------------------------
(* Types, owners of keys, life and the list of inbound connections *)

LEMMA Slot == \A i \in Slots : (i + 1) % 2 \in Slots
<1>1. (0 + 1) % 2 = 1 /\ (1 + 1) % 2 = 0
  OBVIOUS
<1> QED BY <1>1 DEF Slots

\* What a step does to a connection's keys
LEMMA KeyTypes ==
    ASSUME TableInv, Next
    PROVE  key' \in [Conn -> [Slots -> Nat]] /\ curr' \in [Outb -> Slots] /\ fresh' \in 0 .. MaxKey
<1> USE DEF tables, expiry, fixed, hist
<1>0. /\ key \in [Conn -> [Slots -> Nat]] /\ curr \in [Outb -> Slots] /\ fresh \in 0 .. MaxKey
      /\ fresh < MaxKey => fresh + 1 \in 0 .. MaxKey /\ fresh + 1 \in Nat
      /\ req \in [PeerKey -> [under : PeerKey \union {NoKey}, slot : Slots]] /\ PeerKey \subseteq Nat
      /\ rx.pc \in Opening \union Anew => rx.conn \in Outb
      /\ rx.pc \in {"accept", "keyx"} => rx.conn \in Inb
      /\ rx.pc = "keyx" => rx.key \in PeerKey
      /\ Outb \subseteq Conn /\ Inb \subseteq Conn /\ NoKey \in Nat /\ 0 \in Slots
  BY Doing, KeyKinds, TableAssumption DEF TableInv, TableTypes, Conn, NoKey, Slots
<1>1. ASSUME UNCHANGED key, curr' \in [Outb -> Slots], fresh' \in 0 .. MaxKey
      PROVE  key' \in [Conn -> [Slots -> Nat]] /\ curr' \in [Outb -> Slots] /\ fresh' \in 0 .. MaxKey
  BY <1>0, <1>1
<1>2. CASE \E c \in Outb : OpenConn(c)
  BY <1>0, <1>2 DEF OpenConn
<1>3. CASE \E c \in Outb : NewKey(c)
  BY <1>0, <1>3, Slot DEF NewKey, SetKey
<1>4. CASE \E c \in Outb : SetCurr(c)
  BY <1>0, <1>4, Slot DEF SetCurr
<1>5. CASE \E c \in Conn : Destroy(c)
  BY <1>0, <1>5 DEF Destroy
<1>6. CASE Rekey
  BY <1>0, <1>6, Slot DEF Rekey, Anew
<1>7. CASE \E c \in Inb, k \in PeerKey : Accept(c, k)
  BY <1>0, <1>7 DEF Accept
<1>8. CASE KeyxHandle
  <2>1. rx.conn \in Conn /\ rx.key \in Nat /\ req[rx.key].slot \in Slots /\ fresh' = fresh
    BY <1>0, <1>8 DEF KeyxHandle
  <2>2. CASE SetKey(rx.conn, req[rx.key].slot, rx.key)
    <3> DEFINE c == rx.conn
               i == req[rx.key].slot
               k == rx.key
    <3>1. key' = [key EXCEPT ![c][i] = k] /\ curr' = curr
      BY <2>2 DEF SetKey
    <3> HIDE DEF c, i, k
    <3>2. key' \in [Conn -> [Slots -> Nat]]
      <4>1. c \in Conn /\ i \in Slots /\ k \in Nat
        BY <2>1 DEF c, i, k
      <4> QED BY <1>0, <3>1, <4>1
    <3> QED BY <1>0, <2>1, <3>1, <3>2
  <2> QED BY <1>0, <1>1, <1>8, <2>1, <2>2 DEF KeyxHandle
<1>9. CASE (\E c \in Outb : Close(c) \/ CloseBegin(c) \/ Retry(c)) \/ (\E k \in 1 .. MaxKey : OpenRep(k))
           \/ HandlerTakes \/ HandlerFails \/ Opened \/ Reset \/ Reinsert \/ (\E k \in PeerKey : KeyxReq(k))
           \/ (\E c \in Inb : ExpireClose(c)) \/ Accepted \/ NotAccepted \/ ExpireScan
  BY <1>0, <1>1, <1>9 DEF Close, CloseBegin, Retry, OpenRep, HandlerTakes, HandlerFails, Opened, Reset, Reinsert,
                          KeyxReq, ExpireClose, CloseInb, Accepted, NotAccepted, ExpireScan
<1> QED
  BY <1>2, <1>3, <1>4, <1>5, <1>6, <1>7, <1>8, <1>9 DEF Next

\* The rest of the types
FlagTypes ==
    /\ addr \in [Outb -> Addr] /\ req \in [PeerKey -> [under : PeerKey \union {NoKey}, slot : Slots]]
    /\ reg \in [Conn -> BOOLEAN] /\ open \in [Conn -> BOOLEAN]
    /\ app \in [Conn -> {"new", "open", "closing", "closed"}]
    /\ dead \subseteq Conn /\ listed \subseteq Inb /\ exp \subseteq Inb /\ crossed \subseteq Outb
RxTypes ==
    rx \in [pc : Opening \union Anew, conn : Outb, key : {NoKey}]
           \union [pc : {"accept"}, conn : Inb, key : {NoKey}]
           \union [pc : {"keyx"}, conn : Inb, key : PeerKey] \union {Idle}

LEMMA FlagStep == ASSUME TableInv, Next PROVE FlagTypes'
<1> USE DEF tables, expiry, fixed, hist, FlagTypes
<1>0. /\ FlagTypes /\ Outb \subseteq Conn /\ Inb \subseteq Conn
      /\ rx.pc \in Opening \union Anew => rx.conn \in Outb
      /\ rx.pc \in {"accept", "keyx"} => rx.conn \in Inb
  BY Doing DEF TableInv, TableTypes, Conn
<1>1. CASE \E c \in Outb : OpenConn(c) \/ CloseBegin(c) \/ Close(c) \/ NewKey(c) \/ SetCurr(c) \/ Retry(c)
  BY <1>0, <1>1 DEF OpenConn, CloseBegin, Close, ConnRemove, NewKey, SetKey, SetCurr, Retry
<1>2. CASE \E c \in Conn : Destroy(c)
  BY <1>0, <1>2 DEF Destroy
<1>3. CASE (\E k \in 1 .. MaxKey : OpenRep(k)) \/ HandlerTakes \/ HandlerFails \/ Opened
  <2>1. CASE HandlerTakes \/ HandlerFails \/ Opened
    BY <1>0, <2>1 DEF HandlerTakes, HandlerFails, Opened
  <2>2. CASE \E k \in 1 .. MaxKey : OpenRep(k)
    <3>1. PICK k \in 1 .. MaxKey : OpenRep(k)
      BY <2>2
    <3>2. PICK c \in Outb : c = FindKey(k)
      BY <3>1 DEF OpenRep
    <3>3. open' = [open EXCEPT ![c] = TRUE] /\ UNCHANGED <<addr, req, reg, app, dead, listed, exp, crossed>>
      BY <3>1, <3>2 DEF OpenRep
    <3> QED BY <1>0, <3>3
  <2> QED BY <1>3, <2>1, <2>2
<1>4. CASE Reset \/ Rekey \/ Reinsert
  BY <1>0, <1>4 DEF Reset, ConnRemove, Rekey, Reinsert
<1>5. CASE (\E c \in Inb, k \in PeerKey : Accept(c, k)) \/ (\E k \in PeerKey : KeyxReq(k)) \/ KeyxHandle
  BY <1>0, <1>5 DEF Accept, KeyxReq, KeyxHandle, SetKey
<1>6. CASE (\E c \in Inb : ExpireClose(c)) \/ Accepted \/ NotAccepted \/ ExpireScan
  BY <1>0, <1>6 DEF ExpireClose, CloseInb, ConnRemove, Accepted, NotAccepted, ExpireScan
<1> QED
  BY <1>1, <1>2, <1>3, <1>4, <1>5, <1>6 DEF Next

LEMMA AtTypes ==
    /\ \A pc \in Opening \union Anew, c \in Outb : At(pc, c) \in [pc : Opening \union Anew, conn : Outb, key : {NoKey}]
    /\ \A c \in Inb : At("accept", c) \in [pc : {"accept"}, conn : Inb, key : {NoKey}]
  BY DEF At

LEMMA RxStep == ASSUME TableInv, Next PROVE RxTypes'
<1> USE DEF RxTypes, Opening, Anew
<1>0. /\ RxTypes
      /\ rx.pc \in Opening \union Anew => rx.conn \in Outb
  BY Doing DEF TableInv, TableTypes
<1>1. ASSUME UNCHANGED rx \/ rx' = Idle PROVE RxTypes'
  BY <1>0, <1>1
<1>2. CASE (\E c \in Outb : Retry(c)) \/ (\E k \in 1 .. MaxKey : OpenRep(k)) \/ HandlerTakes \/ Reset \/ Rekey
  BY <1>0, <1>2, AtTypes DEF Retry, OpenRep, HandlerTakes, Reset, Rekey
<1>3. CASE (\E c \in Inb, k \in PeerKey : Accept(c, k)) \/ (\E k \in PeerKey : KeyxReq(k))
  <2>1. ASSUME NEW c \in Inb, NEW k \in PeerKey, Accept(c, k) PROVE RxTypes'
    BY <2>1, AtTypes DEF Accept
  <2>2. ASSUME NEW k \in PeerKey, KeyxReq(k) PROVE RxTypes'
    <3>1. PICK c \in Inb : rx' = [pc |-> "keyx", conn |-> c, key |-> k]
      BY <2>2 DEF KeyxReq
    <3>2. rx' \in [pc : {"keyx"}, conn : Inb, key : PeerKey]
      BY <3>1
    <3> QED BY <3>2
  <2> QED BY <1>3, <2>1, <2>2
<1>4. CASE (\E c \in Outb : OpenConn(c) \/ CloseBegin(c) \/ Close(c) \/ NewKey(c) \/ SetCurr(c))
           \/ (\E c \in Conn : Destroy(c)) \/ HandlerFails \/ Opened \/ Reinsert \/ KeyxHandle
           \/ (\E c \in Inb : ExpireClose(c)) \/ Accepted \/ NotAccepted \/ ExpireScan
  BY <1>1, <1>4 DEF OpenConn, CloseBegin, Close, NewKey, SetCurr, Destroy, HandlerFails, Opened, Reinsert, KeyxHandle,
                    ExpireClose, Accepted, NotAccepted, ExpireScan
<1> QED
  BY <1>2, <1>3, <1>4 DEF Next

LEMMA TypeStep == ASSUME TableInv, Next PROVE TableTypes'
<1>1. keys' \in Seq(KeyEntry) /\ addrs' \in Seq(Outb)
  BY KeyStep, AddrStep DEF KeyTables
<1> QED BY <1>1, KeyTypes, FlagStep, RxStep DEF TableTypes, FlagTypes, RxTypes

\* A key that comes into the tables twice was brought by KEYX_REQ.
LEMMA OwnersStep == ASSUME TableInv, Next PROVE Owners'
<1> USE DEF tables, expiry, fixed, hist
<1>0. /\ TableTypes /\ Owners /\ Lives /\ key \in [Conn -> [Slots -> Nat]] /\ fresh \in Nat
      /\ app \in [Conn -> {"new", "open", "closing", "closed"}]
      /\ Outb \subseteq Conn /\ Inb \subseteq Conn /\ Outb \intersect Inb = {}
      /\ rx.pc \in Opening \union Anew => rx.conn \in Outb
      /\ rx.pc \in {"accept", "keyx"} => rx.conn \in Inb
      /\ rx.pc = "keyx" => rx.key \in PeerKey /\ Brought(rx.key)
      /\ \A k \in PeerKey : k > fresh
  BY Doing, KeyKinds, TableAssumption DEF TableInv, TableTypes, Conn, Lives
\* The application's state and an outbound connection's fresh keys
<1>1. ASSUME UNCHANGED <<req, doubled>>, fresh =< fresh', fresh' \in Nat,
             \A c \in Inb, i \in Slots : key'[c][i] \in {key[c][i], NoKey} /\ (<<c, i>> \in failed' => <<c, i>> \in failed),
             \A c \in Outb, i \in Slots : key'[c][i] \in {key[c][i], NoKey, fresh'},
             \A c \in Inb : app'[c] = "new" => app[c] = "new"
      PROVE  Owners'
  <2>1. \A c \in Outb, i \in Slots : key'[c][i] <= fresh'
    <3> SUFFICES ASSUME NEW c \in Outb, NEW i \in Slots PROVE key'[c][i] <= fresh'
      OBVIOUS
    <3>1. key[c][i] <= fresh /\ key[c][i] \in Nat
      BY <1>0 DEF Owners
    <3> QED BY <1>0, <1>1, <3>1 DEF NoKey
  <2>2. \A c \in Inb, i \in Slots : key'[c][i] # NoKey => key'[c][i] \in PeerKey /\ req'[key'[c][i]].slot = i
    <3> SUFFICES ASSUME NEW c \in Inb, NEW i \in Slots, key'[c][i] # NoKey
                 PROVE  key'[c][i] \in PeerKey /\ req[key'[c][i]].slot = i
      BY <1>1
    <3>1. key'[c][i] = key[c][i]
      BY <1>1
    <3> QED BY <1>0, <3>1 DEF Owners
  <2>3. \A c \in Inb, i \in Slots :
           <<c, i>> \in failed' => app'[c] # "new" /\ (key'[c][i] # NoKey => Brought(key'[c][i]))
    BY <1>0, <1>1 DEF Owners
  <2> QED BY <1>0, <1>1, <2>1, <2>2, <2>3 DEF Owners, Brought
<1>2. CASE \E c \in Outb : OpenConn(c)
  BY <1>0, <1>1, <1>2 DEF OpenConn
<1>3. ASSUME NEW c \in Outb, NewKey(c) PROVE Owners'
  <2> DEFINE i == (curr[c] + 1) % 2
  <2>1. i \in Slots
    BY <1>0, Slot DEF TableTypes
  <2>2. fresh' = fresh + 1 /\ SetKey(c, i, fresh') /\ reg[c]
    BY <1>3 DEF NewKey
  <2> HIDE DEF i
  <2>3. doubled' = doubled
    <3>1. \A d \in Conn, j \in Slots : key[d][j] # fresh'
      <4> SUFFICES ASSUME NEW d \in Conn, NEW j \in Slots PROVE key[d][j] # fresh'
        OBVIOUS
      <4>1. key[d][j] \in Nat /\ (key[d][j] <= fresh \/ key[d][j] = NoKey \/ key[d][j] \in PeerKey)
        BY <1>0 DEF Owners, Conn
      <4>2. fresh' \notin PeerKey
        <5>1. fresh' \in 0 .. MaxKey
          BY KeyTypes
        <5> QED BY <5>1, <1>0, KeyKinds DEF TableInv
      <4> QED BY <4>1, <4>2, <2>2, <1>0 DEF NoKey
    <3> QED BY <2>2, <3>1 DEF SetKey, KeysOf
  <2>4. key' = [key EXCEPT ![c][i] = fresh'] /\ UNCHANGED <<req, app>>
        /\ failed' \subseteq failed \union {<<c, i>>}
    BY <2>2 DEF SetKey
  <2> QED BY <1>0, <1>1, <2>1, <2>2, <2>3, <2>4
<1>4. ASSUME NEW c \in Conn, Destroy(c) PROVE Owners'
  <2>1. UNCHANGED <<req, doubled, fresh, failed, app>>
        /\ (UNCHANGED key \/ key' = [key EXCEPT ![c] = [i \in Slots |-> NoKey]])
    BY <1>4 DEF Destroy
  <2>2. \A d \in Conn, i \in Slots : key'[d][i] \in {key[d][i], NoKey}
    BY <1>0, <2>1
  <2> QED BY <1>0, <1>1, <2>1, <2>2
<1>5. CASE Rekey
  BY <1>0, <1>1, <1>5 DEF Rekey, Anew
<1>6. ASSUME NEW c \in Inb, NEW k \in PeerKey, Accept(c, k) PROVE Owners'
  <2>1. /\ key' = [key EXCEPT ![c][req[k].slot] = k] /\ app' = [app EXCEPT ![c] = "open"] /\ app[c] = "new"
        /\ UNCHANGED <<req, fresh, failed, doubled>>
    BY <1>6 DEF Accept
  <2>2. \A d \in Inb, i \in Slots : key'[d][i] # NoKey => key'[d][i] \in PeerKey /\ req[key'[d][i]].slot = i
    BY <1>0, <2>1 DEF Owners, Lives
  <2>3. \A d \in Inb, i \in Slots : <<d, i>> \in failed => d # c
    BY <1>0, <2>1 DEF Owners
  <2>4. \A d \in Inb \ {c} : key'[d] = key[d] /\ app'[d] = app[d]
    BY <1>0, <2>1
  <2>5. \A d \in Outb : key'[d] = key[d]
    BY <1>0, <2>1
  <2> QED BY <1>0, <2>1, <2>2, <2>3, <2>4, <2>5 DEF Owners, Brought
<1>7. CASE KeyxHandle
  <2>1. PICK c \in Inb, k \in PeerKey, i \in Slots : c = rx.conn /\ k = rx.key /\ i = req[k].slot
    BY <1>0, <1>7 DEF KeyxHandle, TableTypes
  <2>2. Brought(k) /\ fresh' = fresh /\ app[c] # "new"
    BY <1>0, <1>7, <2>1 DEF KeyxHandle, Lives
  <2>3. CASE SetKey(c, i, k)
    <3>1. /\ key' = [key EXCEPT ![c][i] = k] /\ UNCHANGED <<req, app>>
          /\ doubled' \subseteq doubled \union {k} /\ failed' \subseteq failed \union {<<c, i>>}
      BY <2>3 DEF SetKey
    <3>2. \A d \in Inb, j \in Slots : key'[d][j] # NoKey => key'[d][j] \in PeerKey /\ req[key'[d][j]].slot = j
      BY <1>0, <2>1, <3>1 DEF Owners
    <3>3. \A d \in Inb, j \in Slots :
             <<d, j>> \in failed' => app'[d] # "new" /\ (key'[d][j] # NoKey => Brought(key'[d][j]))
      BY <1>0, <2>1, <2>2, <3>1 DEF Owners
    <3>4. \A d \in Outb : key'[d] = key[d]
      BY <1>0, <2>1, <3>1
    <3> QED BY <1>0, <2>1, <2>2, <3>1, <3>2, <3>3, <3>4 DEF Owners, Brought
  <2>4. CASE UNCHANGED <<req, doubled, key, failed, app>>
    BY <1>0, <1>1, <2>2, <2>4
  <2> QED BY <1>7, <2>1, <2>3, <2>4 DEF KeyxHandle
<1>8. CASE (\E c \in Outb : Close(c) \/ CloseBegin(c) \/ SetCurr(c) \/ Retry(c)) \/ (\E k \in 1 .. MaxKey : OpenRep(k))
           \/ HandlerTakes \/ HandlerFails \/ Opened \/ Reset \/ Reinsert \/ (\E k \in PeerKey : KeyxReq(k))
           \/ (\E c \in Inb : ExpireClose(c)) \/ Accepted \/ NotAccepted \/ ExpireScan
  <2>1. UNCHANGED <<req, doubled, key, fresh, failed>>
    BY <1>8 DEF Close, CloseBegin, SetCurr, Retry, OpenRep, HandlerTakes, HandlerFails, Opened, Reset, Reinsert,
                KeyxReq, ExpireClose, CloseInb, Accepted, NotAccepted, ExpireScan
  <2>2. \A c \in Inb : app'[c] = "new" => app[c] = "new"
    BY <1>0, <1>8 DEF Close, CloseBegin, SetCurr, Retry, OpenRep, HandlerTakes, HandlerFails, Opened, Reset, Reinsert,
                KeyxReq, ExpireClose, CloseInb, Accepted, NotAccepted, ExpireScan
  <2> QED BY <1>0, <1>1, <2>1, <2>2
<1> QED
  BY <1>2, <1>3, <1>4, <1>5, <1>6, <1>7, <1>8 DEF Next

\* The state of inbound connections follows who has them in hand.
LEMMA InbStep == ASSUME TableInv, Next PROVE InbTable'
<1> USE DEF tables, expiry, fixed, hist, ConnRemove
<1>0. /\ InbTable /\ Lives /\ reg \in [Conn -> BOOLEAN] /\ listed \subseteq Inb /\ exp \subseteq Inb
      /\ Outb \subseteq Conn /\ Inb \subseteq Conn /\ Outb \intersect Inb = {}
      /\ rx.pc \in Opening \union Anew => rx.conn \in Outb
      /\ rx.pc \in {"accept", "keyx"} => rx.conn \in Inb
      /\ rx = Idle => rx.pc = "idle" /\ rx.conn = NoConn
      /\ Idle.pc = "idle" /\ \A pc, c : At(pc, c).pc = pc /\ At(pc, c).conn = c
  BY Doing, TableAssumption DEF TableInv, TableTypes, Conn
<1>1. ASSUME UNCHANGED <<listed, exp>>, \A c \in Inb : reg'[c] = reg[c],
             rx' = rx \/ (rx.pc # "accept" /\ rx'.pc # "accept")
      PROVE  InbTable'
  BY <1>0, <1>1 DEF InbTable
<1>2. CASE \E c \in Outb : OpenConn(c) \/ CloseBegin(c) \/ Close(c) \/ NewKey(c) \/ SetCurr(c) \/ Retry(c)
  BY <1>0, <1>1, <1>2 DEF OpenConn, CloseBegin, Close, NewKey, SetKey, SetCurr, Retry
<1>3. CASE (\E c \in Conn : Destroy(c)) \/ (\E k \in 1 .. MaxKey : OpenRep(k)) \/ HandlerTakes \/ HandlerFails \/ Opened
  BY <1>0, <1>1, <1>3 DEF Destroy, OpenRep, HandlerTakes, HandlerFails, Opened
<1>4. CASE Reset \/ Rekey \/ Reinsert
  BY <1>0, <1>1, <1>4 DEF Reset, Rekey, Reinsert, Anew
<1>5. ASSUME NEW c \in Inb, NEW k \in PeerKey, Accept(c, k) PROVE InbTable'
  <2>1. ~reg[c] /\ rx = Idle /\ rx' = At("accept", c) /\ UNCHANGED <<listed, exp>> /\ reg' = [reg EXCEPT ![c] = TRUE]
    BY <1>0, <1>5 DEF Accept, Lives
  <2> QED BY <1>0, <2>1 DEF InbTable
<1>6. CASE (\E k \in PeerKey : KeyxReq(k)) \/ KeyxHandle
  <2>1. UNCHANGED <<listed, exp, reg>> /\ rx.pc # "accept" /\ rx'.pc # "accept"
    BY <1>0, <1>6 DEF KeyxReq, KeyxHandle, SetKey
  <2> QED BY <1>1, <2>1
<1>7. ASSUME NEW c \in Inb, ExpireClose(c) PROVE InbTable'
  BY <1>0, <1>7 DEF ExpireClose, CloseInb, InbTable
<1>8. CASE Accepted
  BY <1>0, <1>8 DEF Accepted, InbTable
<1>9. CASE NotAccepted
  BY <1>0, <1>9 DEF NotAccepted, CloseInb, InbTable
<1>10. CASE ExpireScan
  BY <1>0, <1>10 DEF ExpireScan, InbTable
<1> QED
  BY <1>2, <1>3, <1>4, <1>5, <1>6, <1>7, <1>8, <1>9, <1>10 DEF Next

LEMMA LivesStep == ASSUME TableInv, Next PROVE Lives'
<1> USE DEF tables, expiry, fixed, hist, ConnRemove
<1>0. /\ Lives /\ InbTable /\ key \in [Conn -> [Slots -> Nat]] /\ open \in [Conn -> BOOLEAN]
      /\ reg \in [Conn -> BOOLEAN] /\ app \in [Conn -> {"new", "open", "closing", "closed"}]
      /\ dead \subseteq Conn /\ Outb \subseteq Conn /\ Inb \subseteq Conn /\ Outb \intersect Inb = {}
      /\ crossed \subseteq Outb /\ listed \subseteq Inb
      /\ rx.pc \in Opening \union Anew => rx.conn \in Outb
      /\ rx.pc \in {"accept", "keyx"} => rx.conn \in Inb
      /\ rx = Idle => rx.pc = "idle" /\ rx.conn = NoConn
      /\ Idle.pc = "idle" /\ Idle.conn = NoConn /\ NoConn \notin Conn
      /\ \A pc, c : At(pc, c).pc = pc /\ At(pc, c).conn = c
  BY Doing, TableAssumption DEF TableInv, TableTypes, Conn
<1> USE DEF Opening, Anew
<1>1. ASSUME NEW c \in Outb, OpenConn(c) PROVE Lives'
  <2>1. /\ UNCHANGED <<open, dead, rx, req, crossed, exp>> /\ app[c] = "new" /\ app'[c] # "new" /\ rx.conn # c /\ c \notin dead
        /\ \A d \in Conn : d # c => key'[d] = key[d] /\ reg'[d] = reg[d] /\ app'[d] = app[d]
    BY <1>0, <1>1 DEF OpenConn, Lives
  <2>2. rx.pc \in Opening \union Anew => rx.conn # c /\ rx.conn \in Conn
    BY <1>0, <2>1
  <2> QED BY <1>0, <2>1, <2>2 DEF Lives, Brought
<1>2. ASSUME NEW c \in Outb, CloseBegin(c) PROVE Lives'
  <2>1. /\ UNCHANGED <<open, dead, rx, req, key, reg, exp>> /\ app[c] = "open" /\ app' = [app EXCEPT ![c] = "closing"]
        /\ \/ ~(rx.conn = c /\ rx.pc \in {"reset", "rekey", "insert"}) /\ crossed' = crossed
           \/ ~open[c] /\ crossed' = crossed \union {c}
    BY <1>2 DEF CloseBegin
  <2>2. \A d \in Conn : app'[d] = "new" => app[d] = "new" /\ d # c
    BY <1>0, <2>1
  <2>3. \A d \in dead : d # c /\ app'[d] = app[d]
    BY <1>0, <2>1 DEF Lives
  <2>4. rx.pc \in Anew /\ rx.conn \notin crossed' => rx.conn # c /\ rx.conn \notin crossed
    BY <2>1
  <2> QED BY <1>0, <2>1, <2>2, <2>3, <2>4 DEF Lives, Brought
<1>3. ASSUME NEW c \in Outb, Close(c) PROVE Lives'
  <2>1. /\ UNCHANGED <<open, dead, rx, req, key, exp, crossed>> /\ app[c] = "closing" /\ app' = [app EXCEPT ![c] = "closed"]
        /\ reg' = [reg EXCEPT ![c] = FALSE]
    BY <1>3 DEF Close
  <2>2. rx.pc \in Anew /\ rx.conn \notin crossed => rx.conn # c
    BY <1>0, <2>1 DEF Lives
  <2> QED BY <1>0, <2>1, <2>2 DEF Lives, Brought
<1>4. ASSUME NEW c \in Conn, UNCHANGED <<open, dead, rx, req, app, reg, exp, crossed>>,
             \A d \in Conn \ {c} : key'[d] = key[d], app[c] # "new"
      PROVE  Lives'
  BY <1>0, <1>4 DEF Lives, Brought
<1>5. ASSUME NEW c \in Outb, NewKey(c) PROVE Lives'
  BY <1>0, <1>4, <1>5 DEF NewKey, SetKey, Lives
<1>6. ASSUME NEW c \in Conn, Destroy(c) PROVE Lives'
  <2>1. /\ UNCHANGED <<rx, req, app, reg, exp, crossed>> /\ app[c] = "closed" /\ ~reg[c] /\ rx.conn # c /\ c \notin exp
        /\ dead' = dead \union {c} /\ open' = [open EXCEPT ![c] = FALSE]
        /\ \A d \in Conn \ {c} : key'[d] = key[d] /\ open'[d] = open[d]
    BY <1>0, <1>6 DEF Destroy
  <2> QED BY <1>0, <2>1 DEF Lives, Brought
<1>7. ASSUME UNCHANGED <<dead, req, app, key, crossed>>, exp' \subseteq exp \/ UNCHANGED exp,
             \A c \in Conn : reg'[c] => reg[c],
             \A c \in Conn : open'[c] => open[c] \/ rx.conn = c \/ rx'.conn = c,
             \A c \in dead : ~open'[c] /\ rx'.conn # c, \A c \in Conn : app[c] = "new" => rx'.conn # c,
             rx'.pc \in Opening => open'[rx'.conn],
             rx'.pc \in Anew => ~open'[rx'.conn],
             rx'.pc \in Anew /\ rx'.conn \notin crossed => app[rx'.conn] = "open",
             rx'.pc = "rekey" => ~reg'[rx'.conn],
             rx'.pc \in {"reset", "insert"} /\ rx'.conn \notin crossed => reg'[rx'.conn],
             rx'.pc = "keyx" => Brought(rx'.key)
      PROVE  Lives'
  BY <1>0, <1>7 DEF Lives, Brought
<1>8. ASSUME NEW k \in 1 .. MaxKey, OpenRep(k) PROVE Lives'
  <2>1. PICK c \in Outb \ dead : c = FindKey(k) /\ ~open[c]
    BY <1>8 DEF OpenRep
  <2>2. app[c] # "new"
    <3>1. c # NoConn /\ TableTypes /\ Owners /\ KeyTable /\ k \in 0 .. MaxKey
      BY <1>0, <2>1, TableAssumption DEF TableInv
    <3>2. k \notin doubled
      BY <3>1, KeyKinds
    <3>3. c \notin crossed => reg[c]
      BY <2>1, <3>1, <3>2, FoundKey
    <3> QED BY <1>0, <3>3 DEF Lives
  <2>3. /\ open' = [open EXCEPT ![c] = TRUE] /\ rx' = At("handler", c) /\ rx = Idle
        /\ UNCHANGED <<dead, req, app, reg, key, exp, crossed>>
    BY <1>8, <2>1 DEF OpenRep
  <2> QED BY <1>0, <1>7, <2>1, <2>2, <2>3 DEF Lives
<1>9. ASSUME NEW k \in PeerKey, KeyxReq(k) PROVE Lives'
  <2>1. PICK c \in Inb : c = FindKey(req[k].under) /\ open[c]
    BY <1>9 DEF KeyxReq
  <2>c. c \in Conn
    BY <1>0
  <2>2. app[c] # "new" /\ c \notin dead
    BY <1>0, <2>1, <2>c DEF Lives
  <2>3. /\ rx' = [pc |-> "keyx", conn |-> c, key |-> k] /\ Brought(k)
        /\ UNCHANGED <<dead, req, app, reg, key, exp, crossed, open>>
    BY <1>9, <2>1 DEF KeyxReq, Brought
  <2>4. rx'.pc = "keyx" /\ rx'.conn = c /\ rx'.key = k
    BY <2>3
  <2> QED BY <1>0, <1>7, <2>2, <2>3, <2>4, <2>c DEF Lives, Brought
<1>10. CASE HandlerTakes
  BY <1>0, <1>10 DEF HandlerTakes, Lives, Brought
<1>11. CASE HandlerFails
  BY <1>0, <1>11 DEF HandlerFails, Lives, Brought
<1>12. CASE Opened
  BY <1>0, <1>12 DEF Opened, Lives, Brought
<1>13. ASSUME NEW c \in Outb, SetCurr(c) PROVE Lives'
  BY <1>0, <1>13 DEF SetCurr, Lives, Brought
<1>14. ASSUME NEW c \in Outb, Retry(c) PROVE Lives'
  <2>1. app[c] # "new"
    BY <1>0, <1>14 DEF Retry, Lives
  <2> QED BY <1>0, <1>7, <1>14, <2>1 DEF Retry, Lives
<1>15. CASE Reset
  <2>1. PICK c \in Outb : c = rx.conn
    BY <1>0, <1>15 DEF Reset
  <2>2. /\ reg' = [reg EXCEPT ![c] = FALSE] /\ rx' \in {At("rekey", c), Idle} /\ rx.pc = "reset"
        /\ UNCHANGED <<dead, req, app, open, key, exp, crossed>>
    BY <1>15, <2>1 DEF Reset
  <2> QED BY <1>0, <1>7, <2>1, <2>2 DEF Lives
<1>16. CASE Rekey
  <2>1. PICK c \in Outb : c = rx.conn
    BY <1>0, <1>16 DEF Rekey
  <2>2. /\ reg' = [reg EXCEPT ![c] = TRUE] /\ rx' = At("insert", c) /\ rx.pc = "rekey"
        /\ UNCHANGED <<dead, req, app, open, exp, crossed>> /\ \A d \in Conn \ {c} : key'[d] = key[d]
    BY <1>0, <1>16, <2>1 DEF Rekey
  <2>3. app[c] # "new" /\ c \notin dead /\ ~open[c] /\ (c \notin crossed => app[c] = "open")
    BY <1>0, <2>1, <2>2 DEF Lives
  <2> QED BY <1>0, <2>1, <2>2, <2>3 DEF Lives
<1>17. CASE Reinsert
  <2>1. /\ reg' = [reg EXCEPT ![rx.conn] = FALSE] \/ reg' = reg
        /\ rx' = Idle /\ UNCHANGED <<dead, req, app, open, key, exp, crossed>>
    BY <1>17 DEF Reinsert
  <2> QED BY <1>0, <1>7, <2>1 DEF Lives
<1>18. ASSUME NEW c \in Inb, NEW k \in PeerKey, Accept(c, k) PROVE Lives'
  <2>1. /\ app[c] = "new" /\ app' = [app EXCEPT ![c] = "open"] /\ reg' = [reg EXCEPT ![c] = TRUE]
        /\ rx = Idle /\ rx' = At("accept", c) /\ UNCHANGED <<dead, req, open, exp, crossed>>
        /\ \A d \in Conn \ {c} : key'[d] = key[d]
    BY <1>0, <1>18 DEF Accept
  <2> QED BY <1>0, <2>1 DEF Lives
<1>19. CASE Accepted
  <2>1. /\ rx.pc = "accept" /\ rx' = Idle /\ open' = [open EXCEPT ![rx.conn] = TRUE]
        /\ UNCHANGED <<dead, req, app, reg, key, exp, crossed>>
    BY <1>19 DEF Accepted
  <2>2. app[rx.conn] # "new" /\ rx.conn \notin dead /\ rx.conn \in Conn
    BY <1>0, <2>1 DEF Lives
  <2> QED BY <1>0, <2>1, <2>2 DEF Lives
<1>20. ASSUME NEW c \in Inb, CloseInb(c), exp' \subseteq exp,
              UNCHANGED rx \/ (rx' = Idle /\ rx.pc = "accept")
       PROVE  Lives'
  <2>1. /\ app' = [app EXCEPT ![c] = "closed"] /\ reg' = [reg EXCEPT ![c] = FALSE]
        /\ UNCHANGED <<dead, req, open, key, crossed>>
    BY <1>20 DEF CloseInb
  <2>2. rx.pc \in Opening \union Anew => rx.conn # c
    BY <1>0
  <2> QED BY <1>0, <1>20, <2>1, <2>2 DEF Lives, Brought
<1>21. CASE NotAccepted \/ \E c \in Inb : ExpireClose(c)
  BY <1>0, <1>20, <1>21 DEF NotAccepted, ExpireClose
<1>22. CASE KeyxHandle
  <2>1. PICK c \in Inb : c = rx.conn
    BY <1>0, <1>22 DEF KeyxHandle
  <2>2. /\ rx' = Idle /\ UNCHANGED <<open, dead, req, app, reg, exp, crossed>>
        /\ \A d \in Conn \ {c} : key'[d] = key[d]
    BY <1>0, <1>22, <2>1 DEF KeyxHandle, SetKey
  <2>3. app[c] # "new" /\ c \in Conn
    BY <1>0, <2>1 DEF Lives
  <2>4. rx'.pc = "idle" /\ rx'.conn = NoConn /\ \A d \in Conn : app[d] = "new" => key'[d] = key[d]
    BY <1>0, <2>2, <2>3
  <2> QED BY <1>0, <2>2, <2>4 DEF Lives
<1>23. CASE ExpireScan
  <2>1. \A c \in exp' : reg[c]
    BY <1>0, <1>23 DEF ExpireScan, InbTable
  <2>2. UNCHANGED <<open, dead, req, app, reg, key, rx, crossed>>
    BY <1>23 DEF ExpireScan
  <2> QED BY <1>0, <2>1, <2>2 DEF Lives, Brought
<1> QED
  BY <1>1, <1>2, <1>3, <1>5, <1>6, <1>8, <1>9, <1>10, <1>11, <1>12, <1>13, <1>14, <1>15, <1>16, <1>17, <1>18, <1>19,
     <1>21, <1>22, <1>23 DEF Next
-----------------------------------------------------------------------------
(* The theorems *)

LEMMA TableInit == Init => TableInv
<1> SUFFICES ASSUME Init PROVE TableInv
  OBVIOUS
<1> USE DEF Init
<1>1. TableTypes
  <2>1. req \in [PeerKey -> [under : PeerKey \union {NoKey}, slot : Slots]]
    BY DEF Requests
  <2> QED BY <2>1, TableAssumption DEF TableTypes, Slots, NoKey
<1>2. Range(keys) = {} /\ Range(addrs) = {}
  BY DEF Range
<1>3. rx.pc = "idle" /\ rx.conn = NoConn /\ NoConn \notin Conn
  BY TableAssumption DEF Idle, At
<1>4. Owners
  BY DEF Owners, NoKey, Conn
<1>5. Apart
  BY DEF Apart
<1>6. Lives
  BY <1>3 DEF Lives, Opening, Anew
<1>7. InbTable
  BY <1>3 DEF InbTable, Conn
<1>8. KeyTable /\ AddrTable
  BY <1>2, <1>3 DEF KeyTable, Once, Hashes, Current, Present, Pending, AddrTable, AddrOnce, Awaited, Receiving,
                    Inserting, Conn
<1> QED BY <1>1, <1>4, <1>5, <1>6, <1>7, <1>8 DEF TableInv

LEMMA TableStep == TableInv /\ [Next]_vars => TableInv'
<1> SUFFICES ASSUME TableInv, [Next]_vars PROVE TableInv'
  OBVIOUS
<1>1. CASE Next
  BY <1>1, KeyStep, TypeStep, OwnersStep, LivesStep, InbStep, AddrStep DEF TableInv, KeyTables
<1>2. CASE UNCHANGED vars
  <2> USE <1>2 DEF vars, tables, expiry, fixed, hist, TableInv
  <2>1. TableTypes' /\ Owners' /\ Apart' /\ Lives'
    BY DEF TableTypes, Owners, Apart, Lives, Brought
  <2>2. KeyTable' /\ AddrTable' /\ InbTable'
    BY DEF KeyTable, Once, Hashes, Current, Present, Pending, AddrTable, AddrOnce, Awaited, Receiving, Inserting,
           InbTable
  <2> QED BY <2>1, <2>2
<1> QED BY <1>1, <1>2

\* The tables and the connections' flags stay together what TableInv says: whatever keys the peers' requests
\* bring again, a key of one connection alone has one entry, and an address of one connection too.
THEOREM TablesInductive == Spec => []TableInv
<1> QED
  BY TableInit, TableStep, PTL DEF Spec

\* No entry outlives its connection but in the four cases NoDangling names, whatever the order of opening,
\* closing, rekeying, new handshakes, expiry and late or repeated requests (conn_table_remove,
\* conn_dhkey_new, conn_dhkey_set_pub, ecp_conn_remove_addr).
THEOREM NothingDangles == Spec => []NoDangling
<1>1. TableInv => NoDangling
  <2> SUFFICES ASSUME TableInv PROVE NoDangling
    OBVIOUS
  <2>1. \A e \in Range(keys) : e.conn \in dead => e.hash \in doubled \/ e.conn \in crossed
    BY DEF TableInv, KeyTable, Current, Lives
  <2>2. \A c \in Range(addrs) : c \in dead => addr[c] \in shared \/ c \in refused \union crossed
    BY DEF TableInv, AddrTable, Awaited, Receiving, Lives
  <2> QED BY <2>1, <2>2 DEF NoDangling
<1> QED
  BY <1>1, TablesInductive, PTL

\* A registered connection is found by each key that it has for itself and while it is being opened by its
\* address, and what another such key finds has it; an inbound one is in the list or in hand, and no other
\* is (conn_table_insert, conn_dhkey_new, conn_dhkey_set_pub, conn_table_insert_inb).
THEOREM EveryConnectionFound == Spec => []Found
<1>1. TableInv => Found
  <2> SUFFICES ASSUME TableInv PROVE Found
    OBVIOUS
  <2>0. TableTypes /\ Owners /\ KeyTable
    BY DEF TableInv
  <2>1. \A c \in Conn, i \in Slots :
           reg[c] /\ ~Inserting(c) /\ key[c][i] \notin doubled \union {NoKey} /\ <<c, i>> \notin failed
           => FindKey(key[c][i]) = c
    BY <2>0, KeyFound
  <2>2. \A k \in (1 .. fresh) \union (PeerKey \ doubled) :
           FindKey(k) \in Conn \ crossed => reg[FindKey(k)] /\ k \in KeysOf(FindKey(k))
    <3> SUFFICES ASSUME NEW k \in (1 .. fresh) \union (PeerKey \ doubled), FindKey(k) \in Conn \ crossed
                 PROVE  reg[FindKey(k)] /\ k \in KeysOf(FindKey(k))
      OBVIOUS
    <3>1. k \notin doubled
      <4>1. k \in 1 .. fresh => k \in 0 .. MaxKey
        BY <2>0, KeyKinds, TableAssumption
      <4> QED BY <2>0, <4>1, KeyKinds
    <3> QED BY <2>0, <3>1, FoundKey, TableAssumption
  <2>3. \A c \in Outb :
           reg[c] /\ ~open[c] /\ ~Inserting(c) /\ addr[c] \notin shared => FindAddr(addr[c]) = c
    <3> SUFFICES ASSUME NEW c \in Outb, reg[c], ~open[c], ~Inserting(c), addr[c] \notin shared
                 PROVE  FindAddr(addr[c]) = c
      OBVIOUS
    <3>1. c \in Range(addrs) /\ addrs \in Seq(Outb) /\ AddrOnce(addrs)
      BY DEF TableInv, TableTypes, AddrTable, Awaited
    <3> QED BY <3>1, AddrFound
  <2> QED BY <2>1, <2>2, <2>3 DEF Found, TableInv, InbTable
<1> QED
  BY <1>1, TablesInductive, PTL
=============================================================================

-------------------------- MODULE EcpTimer_proofs --------------------------
(***************************************************************************)
(* Proofs about EcpTimer for any set of requests, any size of the array    *)
(* and any range of the clock that is wide enough (TimeAssumption).        *)
(*                                                                         *)
(* As long as every item's time left stays in a window of less than half   *)
(* the clock's range, the comparisons modulo the range agree with those of *)
(* the times left.  So the array is sorted, what ecp_timer_exe cuts off    *)
(* its end is what is due, and every step does to the set of waiting       *)
(* requests what EcpTimerSpec allows.                                      *)
(***************************************************************************)
EXTENDS EcpTimer, SequenceTheorems, WellFoundedInduction, TLAPS

\* No item is later than MaxLate: this is what makes modular times comparable.
InWindow == \A i \in Positions : Left(item[i].abstime) \in -MaxLate .. MaxTimeout

\* The item due next is the last.
Sorted ==
    \A i, j \in Positions : i < j => Left(item[j].abstime) <= Left(item[i].abstime)

\* A request has one item at most.
OneItem ==
    /\ \A i, j \in Positions : i # j => item[i].req # item[j].req
    /\ \A i, j \in DOMAIN exec : i # j => exec[i].req # exec[j].req
    /\ \A i \in Positions, j \in DOMAIN exec : item[i].req # exec[j].req

Idle == ~running => exec = <<>> /\ next = 0

\* What keeps the timer going until the next run.
Armed ==
    /\ port = "posix" => running \/ alarm # Unset \/ evt > 0
    /\ port = "fe310" /\ item # <<>> /\ (running => next = 0) =>
          alarm # Unset \/ evt > 0 \/ lost

\* An item as EcpTimerSpec sees it.
View(x) == [req |-> x.req, cnt |-> x.cnt, left |-> Left(x.abstime)]

\* How late an item can be when the thread that runs the timer is next ready to run it.
Latest == MaxTimeout + MaxDelay + MutexDelay - 1

\* While a run goes on, an item is late by the wait of its push and the run's delay at most.
\* While an alarm is set, no item was due more than Latest ticks before it; the delay of the
\* alarm's event comes on top.
OnTime ==
    ~lost =>
      /\ running => \A x \in Pending : x.left > -(MutexDelay + delay)
      /\ ~running /\ evt > 0 => \A x \in Pending : x.left >= -(Latest + delay)
      /\ ~running /\ evt = 0 =>
            delay = 0 /\ \A x \in Pending : x.left >= alarm - Latest

IInv == TypeOK /\ InWindow /\ Sorted /\ OneItem /\ Idle /\ Armed

-----------------------------------------------------------------------------
(* Positions and sequences *)

\* A set of positions that is not empty has a last one.
LEMMA MaxOfPositions ==
    ASSUME NEW n \in Nat, NEW S, S \subseteq 1 .. n, S # {}
    PROVE  Max(S) \in S /\ \A i \in S : i <= Max(S)
<1> DEFINE T == {n - i : i \in S}
<1>0. \A x, y \in Nat : x < y => <<x, y>> \in OpToRel(<, Nat)
  BY Zenon DEF OpToRel
<1>1. T \subseteq Nat /\ T # {}
  <2>1. \A i \in S : n - i \in Nat
    OBVIOUS
  <2> QED
    BY <2>1
<1>2. PICK m \in T : \A k \in T : ~(<<k, m>> \in OpToRel(<, Nat))
  BY <1>1, NatLessThanWellFounded, WFMin, Zenon
<1>3. \A k \in T : m <= k
  <2>1. \A k \in T : ~(k < m)
    BY <1>0, <1>1, <1>2, Zenon
  <2> HIDE DEF T
  <2> QED
    BY <2>1, <1>1
<1>4. PICK i \in S : m = n - i
  BY <1>2
<1>5. \A j \in S : i >= j
  BY <1>3, <1>4
<1> QED
  BY <1>5 DEF Max

\* What InsertAt does.
LEMMA InsertAtFacts ==
    ASSUME NEW S, NEW s \in Seq(S), NEW p \in 1 .. Len(s) + 1, NEW e \in S
    PROVE  /\ InsertAt(s, p, e) \in Seq(S)
           /\ Len(InsertAt(s, p, e)) = Len(s) + 1
           /\ \A i \in 1 .. Len(s) + 1 :
                InsertAt(s, p, e)[i] = IF i < p THEN s[i] ELSE IF i = p THEN e ELSE s[i - 1]
<1> DEFINE a == SubSeq(s, 1, p - 1)
           b == SubSeq(s, p, Len(s))
<1>1. Len(s) \in Nat /\ \A i \in 1 .. Len(s) : s[i] \in S
  BY LenProperties, ElementOfSeq
<1>2. /\ a \in Seq(S) /\ Len(a) = p - 1
      /\ \A i \in 1 .. p - 1 : a[i] = s[i]
  <2>1. \A i \in 1 .. p - 1 : s[i] \in S
    BY <1>1
  <2> QED
    BY <2>1, <1>1, SubSeqProperties
<1>3. /\ b \in Seq(S) /\ Len(b) = Len(s) - p + 1
      /\ \A i \in 1 .. Len(s) - p + 1 : b[i] = s[p + i - 1]
  <2>1. \A i \in p .. Len(s) : s[i] \in S
    BY <1>1
  <2> QED
    BY <2>1, <1>1, SubSeqProperties
<1>4. <<e>> \in Seq(S) /\ Len(<<e>>) = 1 /\ <<e>>[1] = e
  OBVIOUS
<1> HIDE DEF a, b
<1> DEFINE c == a \o <<e>>
<1>5. /\ c \in Seq(S) /\ Len(c) = p
      /\ \A i \in 1 .. p : c[i] = IF i < p THEN s[i] ELSE e
  BY <1>1, <1>2, <1>4, ConcatProperties
<1> HIDE DEF c
<1>6. Len(c) + Len(b) = Len(s) + 1
  BY <1>1, <1>3, <1>5
<1> DEFINE t == c \o b
<1>7. /\ t \in Seq(S)
      /\ Len(t) = Len(c) + Len(b)
      /\ \A i \in 1 .. Len(c) + Len(b) : t[i] = IF i <= Len(c) THEN c[i] ELSE b[i - Len(c)]
  BY <1>3, <1>5, ConcatProperties
<1>8. InsertAt(s, p, e) = t
  BY DEF InsertAt, a, b, c
<1> HIDE DEF t
<1>9. \A i \in 1 .. Len(s) + 1 : t[i] = IF i < p THEN s[i] ELSE IF i = p THEN e ELSE s[i - 1]
  <2> SUFFICES ASSUME NEW i \in 1 .. Len(s) + 1
               PROVE  t[i] = IF i < p THEN s[i] ELSE IF i = p THEN e ELSE s[i - 1]
    OBVIOUS
  <2>1. t[i] = IF i <= p THEN c[i] ELSE b[i - p]
    BY <1>1, <1>5, <1>6, <1>7
  <2>2. CASE i <= p
    BY <1>5, <2>1, <2>2
  <2>3. CASE i > p
    <3>1. i - p \in 1 .. Len(s) - p + 1 /\ p + (i - p) - 1 = i - 1
      BY <1>1, <2>3
    <3>2. b[i - p] = s[i - 1]
      BY <1>3, <3>1
    <3> QED
      BY <2>1, <2>3, <3>2
  <2> QED
    BY <1>1, <2>2, <2>3
<1> QED
  BY <1>6, <1>7, <1>8, <1>9

\* What RemoveAt does.
LEMMA RemoveAtFacts ==
    ASSUME NEW S, NEW s \in Seq(S), NEW p \in 1 .. Len(s)
    PROVE  /\ RemoveAt(s, p) \in Seq(S)
           /\ Len(RemoveAt(s, p)) = Len(s) - 1
           /\ \A i \in 1 .. Len(s) - 1 :
                RemoveAt(s, p)[i] = IF i < p THEN s[i] ELSE s[i + 1]
<1> DEFINE a == SubSeq(s, 1, p - 1)
           b == SubSeq(s, p + 1, Len(s))
<1>1. Len(s) \in Nat /\ \A i \in 1 .. Len(s) : s[i] \in S
  BY LenProperties, ElementOfSeq
<1>2. /\ a \in Seq(S) /\ Len(a) = p - 1
      /\ \A i \in 1 .. p - 1 : a[i] = s[i]
  <2>1. \A i \in 1 .. p - 1 : s[i] \in S
    BY <1>1
  <2> QED
    BY <2>1, <1>1, SubSeqProperties
<1>3. /\ b \in Seq(S) /\ Len(b) = Len(s) - p
      /\ \A i \in 1 .. Len(s) - p : b[i] = s[p + i]
  <2>1. \A i \in p + 1 .. Len(s) : s[i] \in S
    BY <1>1
  <2> QED
    BY <2>1, <1>1, SubSeqProperties
<1> HIDE DEF a, b
<1>4. Len(a) + Len(b) = Len(s) - 1
  BY <1>1, <1>2, <1>3
<1> DEFINE t == a \o b
<1>5. /\ t \in Seq(S)
      /\ Len(t) = Len(a) + Len(b)
      /\ \A i \in 1 .. Len(a) + Len(b) : t[i] = IF i <= Len(a) THEN a[i] ELSE b[i - Len(a)]
  BY <1>2, <1>3, ConcatProperties
<1>6. RemoveAt(s, p) = t
  BY DEF RemoveAt, a, b
<1> HIDE DEF t
<1>7. \A i \in 1 .. Len(s) - 1 : t[i] = IF i < p THEN s[i] ELSE s[i + 1]
  <2> SUFFICES ASSUME NEW i \in 1 .. Len(s) - 1
               PROVE  t[i] = IF i < p THEN s[i] ELSE s[i + 1]
    OBVIOUS
  <2>1. t[i] = IF i <= p - 1 THEN a[i] ELSE b[i - (p - 1)]
    BY <1>1, <1>2, <1>4, <1>5
  <2>2. CASE i < p
    BY <1>2, <2>1, <2>2
  <2>3. CASE i >= p
    <3>1. i - (p - 1) \in 1 .. Len(s) - p /\ p + (i - (p - 1)) = i + 1
      BY <1>1, <2>3
    <3>2. b[i - (p - 1)] = s[i + 1]
      BY <1>3, <3>1
    <3> QED
      BY <2>1, <2>3, <3>2
  <2> QED
    BY <1>1, <2>2, <2>3
<1> QED
  BY <1>4, <1>5, <1>6, <1>7

-----------------------------------------------------------------------------
(* Time *)

\* The time left lies in half the range either way, and LT(now, a) tells whether any is left.
LEMMA LeftFacts ==
    ASSUME NEW t \in Time, NEW a \in Time
    PROVE  /\ TimeLeft(t, a) \in -Half .. Half - 1
           /\ TimeLeft(t, a) > -Half => (LT(t, a) <=> TimeLeft(t, a) > 0)
           /\ TimeLeft(t, a) > 0 => Minus(a, t) = TimeLeft(t, a)
BY TimeAssumption DEF Time, TimeLeft, LT, Minus

\* Within the window LTE compares the times left.
LEMMA Compare ==
    ASSUME NEW t \in Time, NEW a \in Time, NEW b \in Time,
           TimeLeft(t, a) \in -MaxLate .. MaxTimeout, TimeLeft(t, b) \in -MaxLate .. MaxTimeout
    PROVE  LTE(a, b) <=> TimeLeft(t, a) <= TimeLeft(t, b)
BY TimeAssumption DEF Time, TimeLeft, LTE, Minus

\* What a push enters is its timeout away, less the delay.
LEMMA LeftOfPush ==
    ASSUME NEW t \in Time, NEW d \in 1 .. MaxTimeout, NEW late \in 0 .. MaxDelay
    PROVE  /\ Minus(Plus(t, d), late) \in Time
           /\ TimeLeft(t, Minus(Plus(t, d), late)) = d - late
           /\ d - late \in -MaxLate .. MaxTimeout
BY TimeAssumption DEF Time, TimeLeft, Plus, Minus

\* A tick takes one from the time left.
LEMMA LeftOfTick ==
    ASSUME NEW t \in Time, NEW a \in Time, TimeLeft(t, a) > -MaxLate
    PROVE  Plus(t, 1) \in Time /\ TimeLeft(Plus(t, 1), a) = TimeLeft(t, a) - 1
BY TimeAssumption DEF Time, TimeLeft, Plus, Minus

-----------------------------------------------------------------------------
(* The array *)

\* The place of a push: what stands before it is due no earlier, what follows earlier.
LEMMA SlotFacts ==
    ASSUME TypeOK, InWindow, Sorted, NEW at \in Time, Left(at) \in -MaxLate .. MaxTimeout
    PROVE  /\ Slot(at) \in 1 .. Len(item) + 1
           /\ \A i \in Positions : i < Slot(at) => Left(at) <= Left(item[i].abstime)
           /\ \A i \in Positions : i >= Slot(at) => Left(item[i].abstime) < Left(at)
<1> DEFINE later == {i \in Positions : LTE(at, item[i].abstime)}
<1>1. Len(item) \in Nat /\ Positions = 1 .. Len(item)
  BY LenProperties DEF TypeOK, Positions
<1>2. \A i \in Positions : item[i] \in Item /\ item[i].abstime \in Time
  <2>1. item \in Seq(Item)
    BY DEF TypeOK
  <2>2. \A i \in Positions : item[i] \in Item
    BY <1>1, <2>1, ElementOfSeq
  <2> QED
    BY <2>2 DEF Item
<1>3. \A i \in Positions : Left(item[i].abstime) \in Int
  BY DEF InWindow
<1>4. \A i \in Positions : i \in later <=> Left(at) <= Left(item[i].abstime)
  BY <1>2, Compare DEF TypeOK, InWindow, Left
<1>5. CASE later = {}
  <2>1. Slot(at) = 1
    BY <1>5 DEF Slot
  <2> QED
    BY <1>1, <1>3, <1>4, <1>5, <2>1
<1>6. CASE later # {}
  <2> DEFINE m == Max(later)
  <2>1. m \in later /\ \A i \in later : i <= m
    <3>1. later \subseteq 1 .. Len(item)
      BY <1>1
    <3> HIDE DEF later
    <3> QED
      BY <1>1, <1>6, <3>1, MaxOfPositions
  <2>2. Slot(at) = m + 1
    BY <1>6 DEF Slot
  <2> HIDE DEF m
  <2>3. m \in Positions
    BY <2>1
  <2>4. \A i \in Positions : i <= m => Left(at) <= Left(item[i].abstime)
    <3> SUFFICES ASSUME NEW i \in Positions, i <= m
                 PROVE  Left(at) <= Left(item[i].abstime)
      OBVIOUS
    <3>1. Left(at) <= Left(item[m].abstime)
      BY <1>4, <2>1
    <3>2. i = m \/ i < m
      BY <1>1, <2>3
    <3>3. Left(item[m].abstime) <= Left(item[i].abstime)
      BY <1>3, <2>3, <3>2 DEF Sorted
    <3> QED
      BY <1>3, <2>3, <3>1, <3>3
  <2>5. \A i \in Positions : i > m => Left(item[i].abstime) < Left(at)
    BY <1>1, <1>3, <1>4, <2>1, <2>3
  <2> QED
    BY <1>1, <2>2, <2>3, <2>4, <2>5
<1> QED
  BY <1>5, <1>6

\* A push enters its request and keeps the order; the set of waiting requests gets one more.
LEMMA PushEffect ==
    ASSUME TypeOK, InWindow, Sorted, now' = now,
           NEW r \in Req, NEW cnt \in Nat, NEW late \in 0 .. MaxDelay, Push(r, cnt, late)
    PROVE  /\ item' \in Seq(Item) /\ Len(item') <= MaxTimer
           /\ InWindow' /\ Sorted'
           /\ Pending' = Pending \cup {[req |-> r, cnt |-> cnt, left |-> r.timeout - late]}
           /\ \A i \in Positions' : item'[i].req = r \/ \E j \in Positions : item'[i].req = item[j].req
           /\ (\A i \in Positions : item[i].req # r) /\ (\A i, j \in Positions : i # j => item[i].req # item[j].req)
                => \A i, j \in Positions' : i # j => item'[i].req # item'[j].req
           /\ item' # <<>> /\ alarm' \in 0 .. MaxTimeout \cup {alarm} /\ (port = "fe310" => alarm' # Unset)
<1> DEFINE at == Minus(Plus(now, r.timeout), late)
           p == Slot(at)
           x == [req |-> r, cnt |-> cnt, abstime |-> at]
<1>0. r.timeout \in 1 .. MaxTimeout /\ now \in Time
  BY ReqAssumption DEF TypeOK
<1>1. at \in Time /\ Left(at) = r.timeout - late /\ Left(at) \in -MaxLate .. MaxTimeout
  BY <1>0, LeftOfPush DEF Left
<1> HIDE DEF at
<1>2. x \in Item
  BY <1>1 DEF Item
<1>3. /\ p \in 1 .. Len(item) + 1
      /\ \A i \in Positions : i < p => Left(at) <= Left(item[i].abstime)
      /\ \A i \in Positions : i >= p => Left(item[i].abstime) < Left(at)
  BY <1>1, SlotFacts
<1>4. item' = InsertAt(item, p, x) /\ Len(item) < MaxTimer /\ alarm' = AlarmWith(r.timeout)
  BY DEF Push, HasRoom, at
<1> HIDE DEF p, x
<1>5. /\ item' \in Seq(Item) /\ Len(item') = Len(item) + 1
      /\ \A i \in 1 .. Len(item) + 1 :
            item'[i] = IF i < p THEN item[i] ELSE IF i = p THEN x ELSE item[i - 1]
  <2>1. item \in Seq(Item) /\ p \in 1 .. Len(item) + 1 /\ x \in Item
    BY <1>2, <1>3 DEF TypeOK
  <2>2. /\ InsertAt(item, p, x) \in Seq(Item) /\ Len(InsertAt(item, p, x)) = Len(item) + 1
        /\ \A i \in 1 .. Len(item) + 1 : InsertAt(item, p, x)[i] =
              IF i < p THEN item[i] ELSE IF i = p THEN x ELSE item[i - 1]
    BY <2>1, InsertAtFacts, SMTT(30)
  <2> QED
    BY <1>4, <2>2
<1>6. Len(item) \in Nat /\ Positions = 1 .. Len(item) /\ Positions' = 1 .. Len(item) + 1
  BY <1>5, LenProperties DEF TypeOK, Positions
<1>7. \A a : Left(a)' = Left(a)
  BY DEF Left
<1>8. x.req = r /\ x.cnt = cnt /\ x.abstime = at
  BY DEF x
<1>9. \A i \in Positions : Left(item[i].abstime) \in -MaxLate .. MaxTimeout
  BY DEF InWindow
<1>10. \A i \in Positions' : \/ i < p /\ i \in Positions /\ item'[i] = item[i]
                             \/ i = p /\ item'[i] = x
                             \/ i > p /\ i - 1 \in Positions /\ item'[i] = item[i - 1]
  BY <1>3, <1>5, <1>6
<1>11. InWindow'
  <2> SUFFICES ASSUME NEW i \in Positions'
               PROVE  Left(item'[i].abstime) \in -MaxLate .. MaxTimeout
    BY <1>7 DEF InWindow
  <2> QED
    BY <1>1, <1>8, <1>9, <1>10
<1>12. Sorted'
  <2> SUFFICES ASSUME NEW i \in Positions', NEW j \in Positions', i < j
               PROVE  Left(item'[j].abstime) <= Left(item'[i].abstime)
    BY <1>7 DEF Sorted
  <2>1. i \in Int /\ j \in Int /\ p \in Int
    BY <1>3, <1>6
  <2>2. CASE j < p
    BY <1>10, <2>1, <2>2 DEF Sorted
  <2>3. CASE j = p
    BY <1>3, <1>8, <1>10, <2>1, <2>3
  <2>4. CASE j > p /\ i < p
    <3>1. item'[i] = item[i] /\ i \in Positions /\ item'[j] = item[j - 1] /\ j - 1 \in Positions
      BY <1>10, <2>1, <2>4
    <3>2. i < j - 1
      BY <2>1, <2>4
    <3> QED
      BY <3>1, <3>2 DEF Sorted
  <2>5. CASE j > p /\ i = p
    <3>1. item'[j] = item[j - 1] /\ j - 1 \in Positions /\ j - 1 >= p
      BY <1>10, <2>1, <2>5
    <3>2. Left(item[j - 1].abstime) < Left(at)
      BY <1>3, <3>1
    <3>3. item'[i].abstime = at
      BY <1>8, <1>10, <2>1, <2>5
    <3> QED
      BY <1>1, <1>9, <3>1, <3>2, <3>3
  <2>6. CASE j > p /\ i > p
    <3>1. item'[i] = item[i - 1] /\ i - 1 \in Positions /\ item'[j] = item[j - 1] /\ j - 1 \in Positions
      BY <1>10, <2>1, <2>6
    <3>2. i - 1 < j - 1
      BY <2>1
    <3> QED
      BY <3>1, <3>2 DEF Sorted
  <2> QED
    BY <2>1, <2>2, <2>3, <2>4, <2>5, <2>6
<1>13. \A i \in Positions : (i < p /\ i \in Positions' /\ item'[i] = item[i])
                            \/ (i + 1 \in Positions' /\ item'[i + 1] = item[i])
  BY <1>3, <1>5, <1>6
<1>14. p \in Positions' /\ item'[p] = x
  BY <1>3, <1>5, <1>6
<1>15. Pending' = Pending \cup {[req |-> r, cnt |-> cnt, left |-> r.timeout - late]}
  <2>1. Pending = {View(item[i]) : i \in Positions}
    BY DEF Pending, View
  <2>2. Pending' = {View(item'[i]) : i \in Positions'}
    BY <1>7 DEF Pending, View
  <2>3. View(x) = [req |-> r, cnt |-> cnt, left |-> r.timeout - late]
    BY <1>1, <1>8 DEF View
  <2>4. \A i \in Positions' : View(item'[i]) = View(x) \/ \E j \in Positions : View(item'[i]) = View(item[j])
    BY <1>10
  <2>5. \A j \in Positions : \E i \in Positions' : View(item[j]) = View(item'[i])
    BY <1>13
  <2>6. \E i \in Positions' : View(item'[i]) = View(x)
    BY <1>14
  <2> QED
    <3>1. \A e : e \in Pending' => e \in Pending \cup {View(x)}
      BY <2>1, <2>2, <2>4
    <3>2. \A e : e \in Pending \cup {View(x)} => e \in Pending'
      BY <2>1, <2>2, <2>5, <2>6
    <3> QED
      BY <2>3, <3>1, <3>2
<1>16. \A i \in Positions' : item'[i].req = r \/ \E j \in Positions : item'[i].req = item[j].req
  BY <1>8, <1>10
<1>17. ASSUME \A i \in Positions : item[i].req # r,
              \A i, j \in Positions : i # j => item[i].req # item[j].req,
              NEW i \in Positions', NEW j \in Positions', i # j
       PROVE  item'[i].req # item'[j].req
  <2>1. i \in Int /\ j \in Int /\ p \in Int
    BY <1>3, <1>6
  <2> QED
    BY <1>8, <1>10, <1>17, <2>1
<1>18. item' # <<>> /\ Len(item') <= MaxTimer
  BY <1>4, <1>5, <1>6, SizeAssumption
<1>19. alarm' \in 0 .. MaxTimeout \cup {alarm} /\ (port = "fe310" => alarm' # Unset)
  BY <1>0, <1>4 DEF AlarmWith, Unset, TypeOK
<1> QED
  BY <1>5, <1>11, <1>12, <1>15, <1>16, <1>17, <1>18, <1>19

\* The new array holds the items at the positions at[1] < ... < at[n].
Kept(n, at) ==
    /\ n \in 0 .. Len(item) /\ at \in [1 .. n -> Positions]
    /\ \A i, j \in 1 .. n : i < j => at[i] < at[j]
    /\ item' \in Seq(Item) /\ Len(item') = n
    /\ \A i \in 1 .. n : item'[i] = item[at[i]]

\* Some items stay, in their order: what holds of the array still holds.
LEMMA KeepEffect ==
    ASSUME TypeOK, InWindow, Sorted, now' = now, NEW n, NEW at, Kept(n, at)
    PROVE  /\ Len(item') <= MaxTimer /\ Positions' = 1 .. n
           /\ InWindow' /\ Sorted'
           /\ \A e : e \in Pending' <=> \E i \in 1 .. n : e = View(item[at[i]])
           /\ (\A i, j \in Positions : i # j => item[i].req # item[j].req)
                => \A i, j \in Positions' : i # j => item'[i].req # item'[j].req
<1>0. /\ n \in 0 .. Len(item) /\ at \in [1 .. n -> Positions]
      /\ \A i, j \in 1 .. n : i < j => at[i] < at[j]
      /\ item' \in Seq(Item) /\ Len(item') = n
      /\ \A i \in 1 .. n : item'[i] = item[at[i]]
  BY DEF Kept
<1>1. /\ Len(item) \in Nat /\ Len(item) <= MaxTimer /\ Positions = 1 .. Len(item)
      /\ Positions' = 1 .. n
  BY <1>0, LenProperties DEF TypeOK, Positions
<1>2. \A a : Left(a)' = Left(a)
  BY DEF Left
<1>3. Len(item') <= MaxTimer
  BY <1>0, <1>1, SizeAssumption
<1>4. InWindow'
  BY <1>0, <1>1, <1>2 DEF InWindow
<1>5. Sorted'
  BY <1>0, <1>1, <1>2, SMTT(30) DEF Sorted
<1>6. \A e : e \in Pending' <=> \E i \in 1 .. n : e = View(item[at[i]])
  <2>1. Pending' = {View(item'[i]) : i \in 1 .. n}
    BY <1>0, <1>1, <1>2 DEF Pending, View
  <2>2. \A i \in 1 .. n : View(item'[i]) = View(item[at[i]])
    BY <1>0
  <2>3. \A e : e \in Pending' <=> \E i \in 1 .. n : e = View(item'[i])
    BY <2>1
  <2> QED
    BY <2>2, <2>3
<1>7. ASSUME \A i, j \in Positions : i # j => item[i].req # item[j].req,
             NEW i \in Positions', NEW j \in Positions', i # j
      PROVE  item'[i].req # item'[j].req
  <2>1. i < j \/ j < i
    BY <1>0, <1>1, <1>7
  <2>2. at[i] \in Positions /\ at[j] \in Positions /\ at[i] # at[j]
    BY <1>0, <1>1, <2>1
  <2> QED
    BY <1>0, <1>1, <1>7, <2>2, SMTT(30)
<1> QED
  BY <1>0, <1>1, <1>3, <1>4, <1>5, <1>6, <1>7

\* An answer takes the item of its kind that is due first.
LEMMA PopEffect ==
    ASSUME IInv, NEW r \in Req, Pop(r.conn, r.mtype)
    PROVE  /\ item' \in Seq(Item) /\ Len(item') <= MaxTimer
           /\ InWindow' /\ Sorted'
           /\ \A i, j \in Positions' : i # j => item'[i].req # item'[j].req
           /\ \A i \in Positions' : \E j \in Positions : item'[i] = item[j]
           /\ \E m \in Positions :
                /\ Pending' = Pending \ {View(item[m])}
                /\ \A i \in Positions : 
                      item[i].req.conn = item[m].req.conn /\ item[i].req.mtype = item[m].req.mtype
                        => Left(item[m].abstime) <= Left(item[i].abstime)
<1> DEFINE match == {i \in Positions : item[i].req.conn = r.conn /\ item[i].req.mtype = r.mtype}
           m == Max(match)
           n == Len(item) - 1
           at == [i \in 1 .. n |-> IF i < m THEN i ELSE i + 1]
<1>1. /\ Len(item) \in Nat /\ Positions = 1 .. Len(item)
      /\ TypeOK /\ InWindow /\ Sorted /\ now' = now
      /\ \A i, j \in Positions : i # j => item[i].req # item[j].req
  BY LenProperties DEF IInv, TypeOK, Positions, Pop, OneItem
<1>2. match # {} /\ item' = RemoveAt(item, m)
  BY DEF Pop
<1>3. m \in match /\ \A i \in match : i <= m
  <2>1. match \subseteq 1 .. Len(item)
    BY <1>1
  <2> HIDE DEF match
  <2> QED
    BY <1>1, <1>2, <2>1, MaxOfPositions
<1>4. m \in Positions
  BY <1>3
<1> HIDE DEF m
<1>5. /\ item' \in Seq(Item) /\ Len(item') = n
      /\ \A i \in 1 .. n : item'[i] = IF i < m THEN item[i] ELSE item[i + 1]
  <2>1. item \in Seq(Item) /\ m \in 1 .. Len(item)
    BY <1>1, <1>4 DEF TypeOK
  <2>2. /\ RemoveAt(item, m) \in Seq(Item) /\ Len(RemoveAt(item, m)) = Len(item) - 1
        /\ \A i \in 1 .. Len(item) - 1 :
              RemoveAt(item, m)[i] = IF i < m THEN item[i] ELSE item[i + 1]
    BY <2>1, RemoveAtFacts
  <2> QED
    BY <1>2, <2>2
<1>6. n \in 0 .. Len(item) /\ at \in [1 .. n -> Positions]
  BY <1>1, <1>4
<1>7. \A i, j \in 1 .. n : i < j => at[i] < at[j]
  BY <1>1, <1>4
<1>8. \A i \in 1 .. n : item'[i] = item[at[i]]
  BY <1>5
<1>9. \A i \in Positions : i # m <=> \E k \in 1 .. n : at[k] = i
  <2> SUFFICES ASSUME NEW i \in Positions
               PROVE  i # m <=> \E k \in 1 .. n : at[k] = i
    OBVIOUS
  <2>1. CASE i < m
    <3>1. i \in 1 .. n /\ at[i] = i
      BY <1>1, <1>4, <2>1
    <3> QED
      BY <1>1, <1>4, <2>1, <3>1
  <2>2. CASE i > m
    <3>1. i - 1 \in 1 .. n /\ at[i - 1] = i
      BY <1>1, <1>4, <2>2
    <3> QED
      BY <1>1, <1>4, <2>2, <3>1
  <2>3. CASE i = m
    BY <1>1, <1>4, <2>3
  <2> QED
    BY <1>1, <1>4, <2>1, <2>2, <2>3
<1> HIDE DEF at, n
<1>10. /\ Len(item') <= MaxTimer /\ Positions' = 1 .. n
       /\ InWindow' /\ Sorted'
       /\ \A e : e \in Pending' <=> \E i \in 1 .. n : e = View(item[at[i]])
       /\ \A i, j \in Positions' : i # j => item'[i].req # item'[j].req
  <2>1. Kept(n, at)
    BY <1>5, <1>6, <1>7, <1>8 DEF Kept, n
  <2> QED
    BY <1>1, <2>1, KeepEffect
<1>11. Pending' = Pending \ {View(item[m])}
  <2>1. \A e : e \in Pending <=> \E i \in Positions : e = View(item[i])
    BY DEF Pending, View
  <2>2. \A i \in Positions : i # m => View(item[i]) # View(item[m])
    <3>1. \A i \in Positions : View(item[i]).req = item[i].req
      BY DEF View
    <3> QED
      BY <1>1, <1>4, <3>1
  <2>3. \A i \in 1 .. n : at[i] \in Positions
    BY <1>6
  <2>4. \A e : e \in Pending' <=> \E i \in Positions : i # m /\ e = View(item[i])
    BY <1>9, <1>10, <2>3
  <2>5. \A e : e \in Pending' <=> e \in Pending /\ e # View(item[m])
    BY <1>4, <2>1, <2>2, <2>4
  <2> QED
    BY <2>5
<1>12. \A i \in Positions :
         item[i].req.conn = item[m].req.conn /\ item[i].req.mtype = item[m].req.mtype
           => Left(item[m].abstime) <= Left(item[i].abstime)
  <2>1. \A i \in Positions :
          item[i].req.conn = item[m].req.conn /\ item[i].req.mtype = item[m].req.mtype => i <= m
    BY <1>3
  <2>2. \A i \in Positions : Left(item[i].abstime) \in Int
    BY <1>1 DEF InWindow
  <2> QED
    BY <1>1, <1>4, <2>1, <2>2 DEF Sorted
<1> QED
  BY <1>4, <1>5, <1>6, <1>8, <1>10, <1>11, <1>12

\* Closing a connection takes its items and no other.
LEMMA RemoveAllEffect ==
    ASSUME IInv, NEW r \in Req, RemoveAll(r.conn)
    PROVE  /\ item' \in Seq(Item) /\ Len(item') <= MaxTimer
           /\ InWindow' /\ Sorted'
           /\ \A i, j \in Positions' : i # j => item'[i].req # item'[j].req
           /\ \A i \in Positions' : \E j \in Positions : item'[i] = item[j]
           /\ Pending' = {x \in Pending : x.req.conn # r.conn}
<1> DEFINE stay == {i \in Positions : item[i].req.conn # r.conn}
<1>1. /\ Len(item) \in Nat /\ Positions = 1 .. Len(item)
      /\ TypeOK /\ InWindow /\ Sorted /\ now' = now
      /\ \A i, j \in Positions : i # j => item[i].req # item[j].req
  BY LenProperties DEF IInv, TypeOK, Positions, RemoveAll, OneItem
<1>2. PICK n \in 0 .. Len(item) : \E at \in [1 .. n -> stay] :
              /\ \A i, j \in 1 .. n : i < j => at[i] < at[j]
              /\ \A p \in stay : \E i \in 1 .. n : at[i] = p
              /\ item' = [i \in 1 .. n |-> item[at[i]]]
  BY DEF RemoveAll
<1>3. PICK at \in [1 .. n -> stay] :
              /\ \A i, j \in 1 .. n : i < j => at[i] < at[j]
              /\ \A p \in stay : \E i \in 1 .. n : at[i] = p
              /\ item' = [i \in 1 .. n |-> item[at[i]]]
  BY <1>2
<1>4. n \in Nat /\ at \in [1 .. n -> Positions] /\ \A i \in 1 .. n : at[i] \in stay
  BY <1>1
<1>5. \A i \in 1 .. n : item'[i] = item[at[i]]
  BY <1>3
<1>6. item' \in Seq(Item) /\ Len(item') = n
  <2>1. \A i \in Positions : item[i] \in Item
    BY <1>1, ElementOfSeq DEF TypeOK
  <2>2. \A i \in 1 .. n : item[at[i]] \in Item
    BY <1>4, <2>1
  <2> QED
    BY <1>3, <1>4, <2>2, IsASeq
<1>7. /\ Len(item') <= MaxTimer /\ Positions' = 1 .. n
      /\ InWindow' /\ Sorted'
      /\ \A e : e \in Pending' <=> \E i \in 1 .. n : e = View(item[at[i]])
      /\ \A i, j \in Positions' : i # j => item'[i].req # item'[j].req
  <2>1. \A i, j \in 1 .. n : i < j => at[i] < at[j]
    BY <1>3
  <2>2. n \in 0 .. Len(item) /\ at \in [1 .. n -> Positions]
    BY <1>4
  <2> HIDE DEF stay
  <2> QED
    <3>1. Kept(n, at)
      BY <1>5, <1>6, <2>1, <2>2 DEF Kept
    <3> QED
      BY <1>1, <3>1, KeepEffect
<1>8. Pending' = {x \in Pending : x.req.conn # r.conn}
  <2>1. \A e : e \in Pending <=> \E i \in Positions : e = View(item[i])
    BY DEF Pending, View
  <2>2. \A i \in Positions : View(item[i]).req = item[i].req
    BY DEF View
  <2>3. \A i \in Positions : i \in stay <=> \E k \in 1 .. n : at[k] = i
    BY <1>3, <1>4
  <2>4. \A i \in Positions : i \in stay <=> View(item[i]).req.conn # r.conn
    BY <2>2
  <2> HIDE DEF stay
  <2>5. \A e : e \in Pending' <=> e \in Pending /\ e.req.conn # r.conn
    BY <1>4, <1>7, <2>1, <2>3, <2>4
  <2> QED
    BY <2>5
<1> QED
  BY <1>4, <1>5, <1>6, <1>7, <1>8

\* ecp_timer_exe takes exactly what is due.
LEMMA CollectEffect ==
    ASSUME IInv, now' = now, Collect
    PROVE  /\ item' \in Seq(Item) /\ Len(item') <= MaxTimer
           /\ exec' \in Seq([req : Req, cnt : Nat])
           /\ InWindow' /\ Sorted' /\ OneItem'
           /\ next' \in 0 .. MaxTimeout /\ (next' = 0 => item' = <<>>)
           /\ Pending' = {x \in Pending : x.left > 0}
           /\ Taken' = {[req |-> x.req, cnt |-> x.cnt] : x \in {y \in Pending : y.left <= 0}}
<1> DEFINE ahead == {i \in Positions : LT(now, item[i].abstime)}
           last == IF ahead = {} THEN 0 ELSE Max(ahead)
           at == [i \in 1 .. last |-> i]
<1>1. /\ Len(item) \in Nat /\ Positions = 1 .. Len(item) /\ item \in Seq(Item)
      /\ TypeOK /\ InWindow /\ Sorted
      /\ \A i, j \in Positions : i # j => item[i].req # item[j].req
  BY LenProperties DEF IInv, TypeOK, Positions, OneItem
<1>2. \A i \in Positions : item[i] \in Item /\ item[i].req \in Req /\ item[i].cnt \in Nat /\ item[i].abstime \in Time
  <2>1. \A i \in Positions : item[i] \in Item
    BY <1>1, ElementOfSeq
  <2> QED
    BY <2>1 DEF Item
<1>3. \A i \in Positions : Left(item[i].abstime) \in -MaxLate .. MaxTimeout
  BY <1>1 DEF InWindow
<1>4. \A i \in Positions : /\ i \in ahead <=> Left(item[i].abstime) > 0
                           /\ i \in ahead => Minus(item[i].abstime, now) = Left(item[i].abstime)
  <2> SUFFICES ASSUME NEW i \in Positions
               PROVE  /\ i \in ahead <=> Left(item[i].abstime) > 0
                      /\ i \in ahead => Minus(item[i].abstime, now) = Left(item[i].abstime)
    OBVIOUS
  <2>1. Left(item[i].abstime) > -Half
    BY <1>3, TimeAssumption
  <2>2. now \in Time
    BY <1>1 DEF TypeOK
  <2> QED
    BY <1>2, <2>1, <2>2, LeftFacts DEF Left
<1>5. /\ last \in 0 .. Len(item)
      /\ last # 0 => last \in ahead
      /\ \A i \in Positions : i > last => i \notin ahead
  <2>1. CASE ahead = {}
    BY <1>1, <2>1
  <2>2. CASE ahead # {}
    <3>1. ahead \subseteq 1 .. Len(item)
      BY <1>1
    <3>2. last = Max(ahead)
      BY <2>2
    <3> HIDE DEF ahead
    <3>3. last \in ahead /\ \A i \in ahead : i <= last
      BY <1>1, <2>2, <3>1, <3>2, MaxOfPositions
    <3> HIDE DEF last
    <3>4. last \in 1 .. Len(item)
      BY <3>1, <3>3
    <3>5. \A i \in Positions : i > last => i \notin ahead
      BY <1>1, <3>3, <3>4
    <3> QED
      BY <1>1, <3>3, <3>4, <3>5
  <2> QED
    BY <2>1, <2>2
<1>6. /\ item' = SubSeq(item, 1, last)
      /\ exec' = [i \in 1 .. Len(item) - last |->
                      [req |-> item[last + i].req, cnt |-> item[last + i].cnt]]
      /\ next' = IF last = 0 THEN 0 ELSE Minus(item[last].abstime, now)
      /\ ~running
  BY DEF Collect
<1> HIDE DEF last
<1>7. \A i \in Positions : i <= last <=> Left(item[i].abstime) > 0
  <2> SUFFICES ASSUME NEW i \in Positions
               PROVE  i <= last <=> Left(item[i].abstime) > 0
    OBVIOUS
  <2>1. CASE i > last
    BY <1>1, <1>4, <1>5, <2>1
  <2>2. CASE i <= last
    <3>1. last \in Positions /\ last \in ahead
      BY <1>1, <1>5, <2>2
    <3>2. Left(item[last].abstime) > 0
      BY <1>4, <3>1
    <3>3. Left(item[last].abstime) <= Left(item[i].abstime)
      <4>1. i = last \/ i < last
        BY <1>1, <1>5, <2>2
      <4> QED
        BY <1>1, <1>3, <3>1, <4>1 DEF Sorted
    <3> QED
      BY <1>3, <2>2, <3>1, <3>2, <3>3
  <2> QED
    BY <1>1, <1>5, <2>1, <2>2
<1> HIDE DEF ahead
<1>8. /\ item' \in Seq(Item) /\ Len(item') = last
      /\ \A i \in 1 .. last : item'[i] = item[i]
  <2>1. \A i \in 1 .. last : item[i] \in Item
    BY <1>1, <1>2, <1>5
  <2>2. /\ SubSeq(item, 1, last) \in Seq(Item)
        /\ Len(SubSeq(item, 1, last)) = IF 1 <= last THEN last - 1 + 1 ELSE 0
        /\ \A i \in 1 .. last - 1 + 1 : SubSeq(item, 1, last)[i] = item[1 + i - 1]
    BY <1>5, <2>1, SubSeqProperties
  <2>3. last \in Nat
    BY <1>1, <1>5
  <2>4. Len(item') = last
    BY <1>6, <2>2, <2>3
  <2>5. \A i \in 1 .. last : item'[i] = item[i]
    <3> SUFFICES ASSUME NEW i \in 1 .. last
                 PROVE  item'[i] = item[i]
      OBVIOUS
    <3>1. i \in 1 .. last - 1 + 1 /\ 1 + i - 1 = i
      BY <2>3
    <3> QED
      BY <1>6, <2>2, <3>1
  <2> QED
    BY <1>6, <2>2, <2>4, <2>5
<1>9. at \in [1 .. last -> Positions] /\ \A i \in 1 .. last : at[i] = i
  BY <1>1, <1>5
<1>10. /\ \A i, j \in 1 .. last : i < j => at[i] < at[j]
       /\ \A i \in 1 .. last : item'[i] = item[at[i]]
  BY <1>8, <1>9
<1> HIDE DEF at
<1>11. /\ Len(item') <= MaxTimer /\ Positions' = 1 .. last
       /\ InWindow' /\ Sorted'
       /\ \A e : e \in Pending' <=> \E i \in 1 .. last : e = View(item[at[i]])
       /\ \A i, j \in Positions' : i # j => item'[i].req # item'[j].req
  <2>1. last \in 0 .. Len(item)
    BY <1>5
  <2>2. \A i, j \in 1 .. last : i < j => at[i] < at[j]
    BY <1>10
  <2>3. \A i \in 1 .. last : item'[i] = item[at[i]]
    BY <1>10
  <2> QED
    <3>1. Kept(last, at)
      BY <1>8, <1>9, <2>1, <2>2, <2>3 DEF Kept
    <3> QED
      BY <1>1, <3>1, KeepEffect
<1>12. \A e : e \in Pending <=> \E i \in Positions : e = View(item[i])
  BY DEF Pending, View
<1>13. \A i \in Positions : /\ View(item[i]).left = Left(item[i].abstime)
                            /\ View(item[i]).req = item[i].req
                            /\ View(item[i]).cnt = item[i].cnt
  BY DEF View
<1>14. Pending' = {x \in Pending : x.left > 0}
  <2>1. \A i \in 1 .. last : i \in Positions /\ at[i] = i
    BY <1>9
  <2>2. \A i \in Positions : i \in 1 .. last <=> View(item[i]).left > 0
    BY <1>1, <1>5, <1>7, <1>13
  <2>3. \A e : e \in Pending' <=> e \in Pending /\ e.left > 0
    BY <1>11, <1>12, <2>1, <2>2
  <2> QED
    BY <2>3
<1>15. /\ exec' \in Seq([req : Req, cnt : Nat]) /\ DOMAIN exec' = 1 .. Len(item) - last
       /\ \A i \in DOMAIN exec' : last + i \in Positions /\ last + i > last
       /\ \A i \in DOMAIN exec' : /\ exec'[i] = [req |-> item[last + i].req, cnt |-> item[last + i].cnt]
                                 /\ exec'[i].req = item[last + i].req
  <2>1. DOMAIN exec' = 1 .. Len(item) - last /\ Len(item) - last \in Nat
    BY <1>1, <1>5, <1>6
  <2>2. \A i \in 1 .. Len(item) - last : last + i \in Positions /\ last + i > last
    BY <1>1, <1>5
  <2>3. \A i \in 1 .. Len(item) - last :
            exec'[i] = [req |-> item[last + i].req, cnt |-> item[last + i].cnt]
    BY <1>6
  <2>4. \A i \in 1 .. Len(item) - last :
            [req |-> item[last + i].req, cnt |-> item[last + i].cnt] \in [req : Req, cnt : Nat]
    BY <1>2, <2>2
  <2>5. exec' \in Seq([req : Req, cnt : Nat])
    <3>1. exec' \in [1 .. Len(item) - last -> [req : Req, cnt : Nat]]
      BY <1>6, <2>4
    <3> DEFINE S == [req : Req, cnt : Nat]
    <3>2. exec' \in [1 .. Len(item) - last -> S]
      BY <3>1
    <3> HIDE DEF S
    <3>3. exec' \in UNION {[1 .. m -> S] : m \in Nat}
      BY <2>1, <3>2, Zenon
    <3>4. exec' \in Seq(S)
      BY <3>3, SeqDef, Zenon
    <3> QED
      BY <3>4 DEF S
  <2> QED
    BY <2>1, <2>2, <2>3, <2>5
<1>16. OneItem'
  <2>1. \A i \in Positions' : i \in Positions /\ i <= last /\ item'[i] = item[i]
    BY <1>1, <1>5, <1>8, <1>11
  <2>2. \A i, j \in DOMAIN exec' : i # j => last + i # last + j
    BY <1>1, <1>5, <1>15
  <2>3. \A i, j \in DOMAIN exec' : i # j => exec'[i].req # exec'[j].req
    BY <1>1, <1>15, <2>2
  <2>4. \A i \in Positions', j \in DOMAIN exec' : i # last + j
    BY <1>1, <1>5, <1>15, <2>1
  <2>5. \A i \in Positions', j \in DOMAIN exec' : item'[i].req # exec'[j].req
    BY <1>1, <1>15, <2>1, <2>4, SMTT(30)
  <2> QED
    BY <1>11, <2>3, <2>5 DEF OneItem, Positions
<1>17. Taken' = {[req |-> x.req, cnt |-> x.cnt] : x \in {y \in Pending : y.left <= 0}}
  <2> DEFINE Due0 == {y \in Pending : y.left <= 0}
             Bare(x) == [req |-> x.req, cnt |-> x.cnt]
  <2>1. \A i \in Positions : i > last <=> View(item[i]).left <= 0
    BY <1>1, <1>3, <1>5, <1>7, <1>13
  <2>2. \A i \in Positions : Bare(View(item[i])) = [req |-> item[i].req, cnt |-> item[i].cnt]
    BY <1>13
  <2>3. \A x : x \in Due0 <=> \E i \in Positions : i > last /\ x = View(item[i])
    BY <1>12, <2>1
  <2>4. \A i \in DOMAIN exec' : exec'[i] = Bare(View(item[last + i])) /\ View(item[last + i]) \in Due0
    BY <1>15, <2>2, <2>3
  <2>5. \A k \in Positions : k > last => k - last \in DOMAIN exec' /\ last + (k - last) = k
    BY <1>1, <1>5, <1>15
  <2>6. \A k \in Positions : k > last => \E i \in DOMAIN exec' : exec'[i] = Bare(View(item[k]))
    BY <2>4, <2>5
  <2> HIDE DEF Due0, Bare
  <2>7. Taken' = {Bare(x) : x \in Due0}
    <3>1. \A e : e \in Taken' => e \in {Bare(x) : x \in Due0}
      BY <2>4 DEF Taken
    <3>2. \A e : e \in {Bare(x) : x \in Due0} => e \in Taken'
      BY <2>3, <2>6 DEF Taken
    <3> QED
      BY <3>1, <3>2
  <2> QED
    BY <2>7 DEF Due0, Bare
<1>18. next' \in 0 .. MaxTimeout /\ (next' = 0 => item' = <<>>)
  <2>1. CASE last = 0
    <3>1. next' = 0
      BY <1>6, <2>1
    <3>2. item' = <<>>
      BY <1>8, <2>1, EmptySeq
    <3> QED
      BY <3>1, <3>2, TimeAssumption
  <2>2. CASE last # 0
    <3>1. last \in Positions /\ last \in ahead
      BY <1>1, <1>5, <2>2
    <3>2. next' = Left(item[last].abstime) /\ Left(item[last].abstime) > 0
      BY <1>4, <1>6, <2>2, <3>1
    <3> QED
      BY <1>3, <3>1, <3>2, TimeAssumption
  <2> QED
    BY <2>1, <2>2
<1> QED
  BY <1>8, <1>11, <1>14, <1>15, <1>16, <1>17, <1>18

-----------------------------------------------------------------------------
(* The actions: each keeps the invariant and is a step of EcpTimerSpec. *)

Simulated == Waits!Next \/ (Pending' = Pending /\ Taken' = Taken)

\* Members of the two sets and items of the two sequences.
LEMMA Views ==
    /\ \A x \in Pending : \E i \in Positions : x = View(item[i]) /\ x.req = item[i].req
    /\ \A i \in Positions : View(item[i]) \in Pending
    /\ \A y \in Taken : \E i \in DOMAIN exec : y = exec[i]
BY DEF Pending, Taken, View

LEMMA StartStep ==
    ASSUME IInv, NEW r \in Req, Start(r)
    PROVE  IInv' /\ Simulated
<1>1. PICK late \in Lateness : Push(r, r.cnt, late)
  BY DEF Start
<1>2. late \in 0 .. MaxDelay /\ r.cnt \in Nat
  BY ReqAssumption, TimeAssumption DEF Lateness, MutexDelay
<1>3. /\ ~InUse(r)
      /\ UNCHANGED <<port, now, running, exec, next, evt, lost, delay>>
  BY DEF Start
<1>4. /\ item' \in Seq(Item) /\ Len(item') <= MaxTimer
      /\ InWindow' /\ Sorted'
      /\ Pending' = Pending \cup {[req |-> r, cnt |-> r.cnt, left |-> r.timeout - late]}
      /\ \A i \in Positions' : item'[i].req = r \/ \E j \in Positions : item'[i].req = item[j].req
      /\ \A i, j \in Positions' : i # j => item'[i].req # item'[j].req
      /\ item' # <<>> /\ alarm' \in 0 .. MaxTimeout \cup {alarm} /\ (port = "fe310" => alarm' # Unset)
  BY <1>1, <1>2, <1>3, PushEffect DEF IInv, InUse, OneItem
<1>5. TypeOK'
  BY <1>3, <1>4 DEF IInv, TypeOK
<1>6. OneItem'
  BY <1>3, <1>4 DEF IInv, OneItem, InUse
<1>7. Idle' /\ Armed'
  BY <1>3, <1>4, TimeAssumption DEF IInv, Idle, Armed, TypeOK, Push, AlarmWith, Unset
<1>8. Waits!Add(r, late)
  BY <1>3, <1>4, Views DEF Waits!Add, Waits!InUse, Waits!Waiting, Taken, InUse
<1>9. Simulated
  BY <1>2, <1>8 DEF Simulated, Waits!Next
<1> QED
  BY <1>4, <1>5, <1>6, <1>7, <1>9 DEF IInv

LEMMA PopStep ==
    ASSUME IInv, NEW r \in Req, Pop(r.conn, r.mtype)
    PROVE  IInv' /\ Simulated
<1>1. UNCHANGED <<port, now, running, exec, next, alarm, evt, lost, delay>>
  BY DEF Pop
<1>2. /\ item' \in Seq(Item) /\ Len(item') <= MaxTimer
      /\ InWindow' /\ Sorted'
      /\ \A i, j \in Positions' : i # j => item'[i].req # item'[j].req
      /\ \A i \in Positions' : \E j \in Positions : item'[i] = item[j]
  BY PopEffect
<1>3. PICK m \in Positions :
         /\ Pending' = Pending \ {View(item[m])}
         /\ \A i \in Positions : 
               item[i].req.conn = item[m].req.conn /\ item[i].req.mtype = item[m].req.mtype
                 => Left(item[m].abstime) <= Left(item[i].abstime)
  BY PopEffect
<1>4. TypeOK'
  BY <1>1, <1>2 DEF IInv, TypeOK
<1>5. OneItem'
  BY <1>1, <1>2 DEF IInv, OneItem
<1>6. item # <<>>
  BY <1>3 DEF Positions
<1>7. Idle' /\ Armed'
  BY <1>1, <1>6 DEF IInv, Idle, Armed
<1>8. Waits!Answer(View(item[m]))
  <2>1. Taken' = Taken
    BY <1>1 DEF Taken
  <2>2. \A i \in Positions : View(item[i]).req = item[i].req /\ View(item[i]).left = Left(item[i].abstime)
    BY DEF View
  <2> QED
    BY <1>3, <2>1, <2>2, Views DEF Waits!Answer
<1>9. Simulated
  <2>1. View(item[m]) \in Pending
    BY Views
  <2> QED
    BY <1>8, <2>1 DEF Simulated, Waits!Next
<1> QED
  BY <1>2, <1>4, <1>5, <1>7, <1>9 DEF IInv

LEMMA RemoveAllStep ==
    ASSUME IInv, NEW r \in Req, RemoveAll(r.conn)
    PROVE  IInv' /\ Simulated
<1>1. UNCHANGED <<port, now, running, exec, next, alarm, evt, lost, delay>>
  BY DEF RemoveAll
<1>2. /\ item' \in Seq(Item) /\ Len(item') <= MaxTimer
      /\ InWindow' /\ Sorted'
      /\ \A i, j \in Positions' : i # j => item'[i].req # item'[j].req
      /\ \A i \in Positions' : \E j \in Positions : item'[i] = item[j]
      /\ Pending' = {x \in Pending : x.req.conn # r.conn}
  BY RemoveAllEffect
<1>3. TypeOK'
  BY <1>1, <1>2 DEF IInv, TypeOK
<1>4. OneItem'
  BY <1>1, <1>2 DEF IInv, OneItem
<1>5. item # <<>>
  <2>1. Positions # {}
    BY DEF RemoveAll
  <2> QED
    BY <2>1 DEF Positions
<1>6. Idle' /\ Armed'
  BY <1>1, <1>5 DEF IInv, Idle, Armed
<1>7. Waits!Cancel(r.conn)
  BY <1>1, <1>2 DEF Waits!Cancel, Taken
<1>8. Simulated
  BY <1>7 DEF Simulated, Waits!Next
<1> QED
  BY <1>2, <1>3, <1>4, <1>6, <1>8 DEF IInv

\* Both ways into ecp_timer_exe.
LEMMA CollectStep ==
    ASSUME IInv, Collect, UNCHANGED <<port, now>>, alarm' \in {alarm, Unset}, evt' \in 0 .. MaxEvt
    PROVE  IInv' /\ Simulated
<1>1. /\ item' \in Seq(Item) /\ Len(item') <= MaxTimer
      /\ exec' \in Seq([req : Req, cnt : Nat])
      /\ InWindow' /\ Sorted' /\ OneItem'
      /\ next' \in 0 .. MaxTimeout /\ (next' = 0 => item' = <<>>)
      /\ Pending' = {x \in Pending : x.left > 0}
      /\ Taken' = {[req |-> x.req, cnt |-> x.cnt] : x \in {y \in Pending : y.left <= 0}}
  BY CollectEffect
<1>2. ~running /\ running' = TRUE /\ delay' = 0 /\ lost' = FALSE
  BY DEF Collect
<1>3. TypeOK'
  <2>1. delay' \in 0 .. MaxDelay
    BY <1>2, TimeAssumption
  <2> QED
    BY <1>1, <1>2, <2>1 DEF IInv, TypeOK
<1>4. Idle' /\ Armed'
  BY <1>1, <1>2 DEF Idle, Armed
<1>5. Waits!Collect
  <2>1. Taken = {}
    BY <1>2 DEF IInv, Idle, Taken
  <2> QED
    BY <1>1, <2>1 DEF Waits!Collect
<1>6. Simulated
  BY <1>5 DEF Simulated, Waits!Next
<1> QED
  BY <1>1, <1>3, <1>4, <1>6 DEF IInv

LEMMA HandleAlarmStep ==
    ASSUME IInv, HandleAlarm
    PROVE  IInv' /\ Simulated
<1>1. Collect /\ UNCHANGED <<port, now, alarm>> /\ evt > 0 /\ evt' = evt - 1
  BY DEF HandleAlarm
<1>2. evt' \in 0 .. MaxEvt
  BY <1>1, SizeAssumption DEF IInv, TypeOK
<1> QED
  BY <1>1, <1>2, CollectStep

LEMMA HandlePacketStep ==
    ASSUME IInv, HandlePacket
    PROVE  IInv' /\ Simulated
<1>1. Collect /\ UNCHANGED <<port, now, evt>> /\ alarm' = Unset
  BY DEF HandlePacket
<1>2. evt' \in 0 .. MaxEvt
  BY <1>1 DEF IInv, TypeOK
<1> QED
  BY <1>1, <1>2, CollectStep

\* The item that is run leaves to_exec.
LEMMA TailFacts ==
    ASSUME IInv, exec # <<>>, exec' = Tail(exec)
    PROVE  /\ Head(exec) = exec[1] /\ 1 \in DOMAIN exec
           /\ exec[1] \in Taken /\ exec[1].req \in Req /\ exec[1].cnt \in Nat
           /\ exec' \in Seq([req : Req, cnt : Nat])
           /\ Taken' = Taken \ {exec[1]}
           /\ \A i, j \in DOMAIN exec' : i # j => exec'[i].req # exec'[j].req
           /\ \A i \in DOMAIN exec' : exec'[i].req # exec[1].req
           /\ \A i \in DOMAIN exec' : \E j \in DOMAIN exec : exec'[i] = exec[j]
<1>1. /\ exec \in Seq([req : Req, cnt : Nat])
      /\ \A i, j \in DOMAIN exec : i # j => exec[i].req # exec[j].req
  BY DEF IInv, TypeOK, OneItem
<1>2. Len(exec) \in Nat /\ DOMAIN exec = 1 .. Len(exec) /\ Len(exec) # 0
  BY <1>1, LenProperties, EmptySeq
<1>3. /\ Tail(exec) \in Seq([req : Req, cnt : Nat])
      /\ Len(Tail(exec)) = Len(exec) - 1
      /\ \A i \in 1 .. Len(exec) - 1 : Tail(exec)[i] = exec[i + 1]
      /\ Head(exec) = exec[1]
  BY <1>1, HeadTailProperties
<1>4. exec' \in Seq([req : Req, cnt : Nat]) /\ DOMAIN exec' = 1 .. Len(exec) - 1
  BY <1>3, LenProperties
<1>5. \A i \in DOMAIN exec' : i + 1 \in DOMAIN exec /\ i + 1 # 1 /\ exec'[i] = exec[i + 1]
  BY <1>2, <1>3, <1>4
<1>6. 1 \in DOMAIN exec
  BY <1>2
<1>7. exec[1] \in [req : Req, cnt : Nat]
  <2>1. 1 \in 1 .. Len(exec)
    BY <1>2
  <2> DEFINE S == [req : Req, cnt : Nat]
  <2>2. exec \in Seq(S)
    BY <1>1
  <2> HIDE DEF S
  <2>3. exec[1] \in S
    BY <2>1, <2>2, ElementOfSeq
  <2> QED
    BY <2>3 DEF S
<1>8. \A i, j \in DOMAIN exec' : i # j => i + 1 # j + 1
  BY <1>4
<1>9. Taken' = Taken \ {exec[1]}
  <2>1. \A k \in DOMAIN exec : k # 1 => k - 1 \in DOMAIN exec' /\ (k - 1) + 1 = k
    BY <1>2, <1>4
  <2>2. \A k \in DOMAIN exec : k # 1 => \E i \in DOMAIN exec' : exec'[i] = exec[k]
    BY <1>5, <2>1
  <2>3. \A e : e \in Taken' <=> \E i \in DOMAIN exec' : e = exec'[i]
    BY DEF Taken
  <2>4. \A e : e \in Taken <=> \E i \in DOMAIN exec : e = exec[i]
    BY DEF Taken
  <2>5. \A k \in DOMAIN exec : k # 1 => exec[k] # exec[1]
    BY <1>1, <1>6
  <2>6. \A e : e \in Taken' => e \in Taken /\ e # exec[1]
    BY <1>5, <2>3, <2>4, <2>5
  <2>7. \A e : e \in Taken /\ e # exec[1] => e \in Taken'
    BY <2>2, <2>3, <2>4
  <2> QED
    BY <2>6, <2>7
<1>10. exec[1] \in Taken
  BY <1>6 DEF Taken
<1>11. \A i, j \in DOMAIN exec' : i # j => exec'[i].req # exec'[j].req
  BY <1>1, <1>5, <1>8
<1>12. \A i \in DOMAIN exec' : exec'[i].req # exec[1].req
  BY <1>1, <1>5, <1>6
<1>13. \A i \in DOMAIN exec' : \E j \in DOMAIN exec : exec'[i] = exec[j]
  BY <1>5
<1> QED
  BY <1>3, <1>4, <1>6, <1>7, <1>9, <1>10, <1>11, <1>12, <1>13

LEMMA RunAgainStep ==
    ASSUME IInv, RunAgain
    PROVE  IInv' /\ Simulated
<1> DEFINE r == exec[1].req
           cnt == exec[1].cnt - 1
<1>1. /\ exec # <<>> /\ Head(exec).cnt > 0 /\ exec' = Tail(exec)
      /\ UNCHANGED <<port, now, running, next, evt, lost, delay>>
  BY DEF RunAgain
<1>2. /\ Head(exec) = exec[1] /\ 1 \in DOMAIN exec
      /\ exec[1] \in Taken /\ exec[1].req \in Req /\ exec[1].cnt \in Nat
      /\ exec' \in Seq([req : Req, cnt : Nat])
      /\ Taken' = Taken \ {exec[1]}
      /\ \A i, j \in DOMAIN exec' : i # j => exec'[i].req # exec'[j].req
      /\ \A i \in DOMAIN exec' : exec'[i].req # exec[1].req
      /\ \A i \in DOMAIN exec' : \E j \in DOMAIN exec : exec'[i] = exec[j]
  BY <1>1, TailFacts
<1>3. PICK late \in Lateness : Push(r, cnt, late)
  BY <1>2 DEF RunAgain
<1>4. late \in 0 .. MaxDelay /\ r \in Req /\ cnt \in Nat
  BY <1>1, <1>2, TimeAssumption DEF Lateness, MutexDelay
<1>5. /\ \A i \in Positions : item[i].req # r
      /\ \A i, j \in Positions : i # j => item[i].req # item[j].req
      /\ \A i \in Positions, j \in DOMAIN exec : item[i].req # exec[j].req
      /\ TypeOK /\ InWindow /\ Sorted /\ now' = now
  BY <1>1, <1>2 DEF IInv, OneItem
<1> HIDE DEF r, cnt
<1>6. /\ item' \in Seq(Item) /\ Len(item') <= MaxTimer
      /\ InWindow' /\ Sorted'
      /\ Pending' = Pending \cup {[req |-> r, cnt |-> cnt, left |-> r.timeout - late]}
      /\ \A i \in Positions' : item'[i].req = r \/ \E j \in Positions : item'[i].req = item[j].req
      /\ \A i, j \in Positions' : i # j => item'[i].req # item'[j].req
      /\ item' # <<>> /\ alarm' \in 0 .. MaxTimeout \cup {alarm} /\ (port = "fe310" => alarm' # Unset)
  BY <1>3, <1>4, <1>5, PushEffect
<1>7. TypeOK'
  BY <1>1, <1>2, <1>6 DEF IInv, TypeOK
<1>8. OneItem'
  <2>1. \A i \in Positions', j \in DOMAIN exec' : item'[i].req # exec'[j].req
    BY <1>2, <1>5, <1>6 DEF r
  <2> QED
    BY <1>2, <1>6, <2>1 DEF OneItem
<1>9. Idle' /\ Armed'
  <2>1. running
    BY <1>1 DEF IInv, Idle
  <2> QED
    BY <1>1, <1>6, <2>1 DEF Idle, Armed
<1>10. Waits!Again(exec[1], late)
  BY <1>1, <1>2, <1>6 DEF Waits!Again, Waits!Waiting, r, cnt
<1>11. Simulated
  BY <1>2, <1>4, <1>10 DEF Simulated, Waits!Next
<1> QED
  BY <1>6, <1>7, <1>8, <1>9, <1>11 DEF IInv

LEMMA RunOverStep ==
    ASSUME IInv, RunOver
    PROVE  IInv' /\ Simulated
<1>1. /\ exec # <<>> /\ exec' = Tail(exec)
      /\ UNCHANGED <<port, now, item, running, next, alarm, evt, lost, delay>>
  BY DEF RunOver
<1>2. /\ exec[1] \in Taken
      /\ exec' \in Seq([req : Req, cnt : Nat])
      /\ Taken' = Taken \ {exec[1]}
      /\ \A i, j \in DOMAIN exec' : i # j => exec'[i].req # exec'[j].req
      /\ \A i \in DOMAIN exec' : \E j \in DOMAIN exec : exec'[i] = exec[j]
  BY <1>1, TailFacts
<1>3. Positions' = Positions /\ \A a : Left(a)' = Left(a)
  BY <1>1 DEF Positions, Left
<1>4. TypeOK'
  BY <1>1, <1>2 DEF IInv, TypeOK
<1>5. InWindow' /\ Sorted'
  BY <1>1, <1>3 DEF IInv, InWindow, Sorted
<1>6. OneItem'
  BY <1>1, <1>2, <1>3 DEF IInv, OneItem
<1>7. Idle' /\ Armed'
  BY <1>1 DEF IInv, Idle, Armed
<1>8. Waits!Over(exec[1])
  <2>1. Pending' = Pending
    BY <1>1, <1>3 DEF Pending
  <2> QED
    BY <1>2, <2>1 DEF Waits!Over
<1>9. Simulated
  BY <1>2, <1>8 DEF Simulated, Waits!Next
<1> QED
  BY <1>4, <1>5, <1>6, <1>7, <1>9 DEF IInv

\* Steps that leave the array, to_exec and the clock alone.
LEMMA StillStep ==
    ASSUME IInv, UNCHANGED <<now, item, exec>>
    PROVE  InWindow' /\ Sorted' /\ OneItem' /\ Simulated
<1>1. Positions' = Positions /\ \A a : Left(a)' = Left(a)
  BY DEF Positions, Left
<1>2. InWindow' /\ Sorted' /\ OneItem'
  BY <1>1 DEF IInv, InWindow, Sorted, OneItem
<1>3. Pending' = Pending /\ Taken' = Taken
  BY <1>1 DEF Pending, Taken
<1> QED
  BY <1>2, <1>3 DEF Simulated

LEMMA ReturnStep ==
    ASSUME IInv, Return
    PROVE  IInv' /\ Simulated
<1>1. /\ running /\ exec = <<>> /\ running' = FALSE /\ delay' = 0 /\ next' = 0
      /\ alarm' = AlarmAfterRun
      /\ UNCHANGED <<port, now, item, exec, evt, lost>>
  BY DEF Return
<1>2. InWindow' /\ Sorted' /\ OneItem' /\ Simulated
  BY <1>1, StillStep
<1>3. /\ next # 0 => alarm' = next
      /\ next = 0 /\ port = "posix" => alarm' = PollTimeout
      /\ next = 0 /\ port # "posix" => alarm' = alarm
  BY <1>1 DEF AlarmAfterRun
<1>4. next \in 0 .. MaxTimeout /\ PollTimeout \in 1 .. MaxTimeout
  BY TimeAssumption DEF IInv, TypeOK
<1>5. TypeOK'
  <2>1. alarm' \in {Unset} \cup 0 .. MaxTimeout /\ delay' \in 0 .. MaxDelay /\ next' \in 0 .. MaxTimeout
    BY <1>1, <1>3, <1>4, TimeAssumption DEF IInv, TypeOK
  <2> QED
    BY <1>1, <2>1 DEF IInv, TypeOK
<1>6. Idle' /\ Armed'
  BY <1>1, <1>3, <1>4 DEF IInv, Idle, Armed, Unset
<1> QED
  BY <1>2, <1>5, <1>6 DEF IInv

LEMMA FireStep ==
    ASSUME IInv, Fire
    PROVE  IInv' /\ Simulated
<1>1. /\ alarm = 0 /\ alarm' = Unset
      /\ \/ evt < MaxEvt /\ evt' = evt + 1 /\ UNCHANGED lost
         \/ port = "fe310" /\ lost' = TRUE /\ UNCHANGED evt
      /\ UNCHANGED <<port, now, item, running, exec, next, delay>>
  BY DEF Fire
<1>2. InWindow' /\ Sorted' /\ OneItem' /\ Simulated
  BY <1>1, StillStep
<1>3. TypeOK'
  <2>1. evt' \in 0 .. MaxEvt
    <3>1. evt \in 0 .. MaxEvt
      BY DEF IInv, TypeOK
    <3>2. (evt' = evt) \/ (evt < MaxEvt /\ evt' = evt + 1)
      BY <1>1, Zenon
    <3> QED
      BY <3>1, <3>2, SizeAssumption
  <2>2. lost' \in BOOLEAN
    <3>1. lost \in BOOLEAN
      BY DEF IInv, TypeOK
    <3> QED
      BY <1>1, <3>1, Zenon
  <2> QED
    BY <1>1, <2>1, <2>2 DEF IInv, TypeOK
<1>4. Idle' /\ Armed'
  <2>1. evt \in Nat
    BY SizeAssumption DEF IInv, TypeOK
  <2> QED
    BY <1>1, <2>1 DEF IInv, Idle, Armed
<1> QED
  BY <1>2, <1>3, <1>4 DEF IInv

LEMMA RefuseStep ==
    ASSUME IInv, Refuse
    PROVE  IInv' /\ Simulated
<1>1. /\ evt > 0 /\ evt' = evt - 1 /\ lost' = TRUE /\ port = "fe310"
      /\ UNCHANGED <<port, now, item, running, exec, next, alarm, delay>>
  BY DEF Refuse
<1>2. InWindow' /\ Sorted' /\ OneItem' /\ Simulated
  BY <1>1, StillStep
<1>3. TypeOK'
  <2>1. evt' \in 0 .. MaxEvt
    BY <1>1, SizeAssumption DEF IInv, TypeOK
  <2> QED
    BY <1>1, <2>1 DEF IInv, TypeOK
<1>4. Idle' /\ Armed'
  BY <1>1 DEF IInv, Idle, Armed
<1> QED
  BY <1>2, <1>3, <1>4 DEF IInv

LEMMA TickStep ==
    ASSUME IInv, Tick
    PROVE  IInv' /\ Simulated
<1>1. /\ alarm # 0 /\ (Due => delay < MaxDelay)
      /\ \A i \in Positions : Left(item[i].abstime) > -MaxLate
      /\ now' = Plus(now, 1)
      /\ alarm' = IF alarm = Unset THEN Unset ELSE alarm - 1
      /\ delay' = IF Due THEN delay + 1 ELSE 0
      /\ UNCHANGED <<port, item, running, exec, next, evt, lost>>
  BY DEF Tick
<1>2. \A i \in Positions : item[i].abstime \in Time
  <2>1. \A i \in Positions : item[i] \in Item
    BY ElementOfSeq, LenProperties DEF IInv, TypeOK, Positions
  <2> QED
    BY <2>1 DEF Item
<1>3. Positions' = Positions
  BY <1>1 DEF Positions
<1>4. now \in Time /\ now' \in Time
  BY <1>1, TimeAssumption DEF IInv, TypeOK, Time, Plus
<1>5. \A i \in Positions : Left(item[i].abstime)' = Left(item[i].abstime) - 1
  BY <1>1, <1>2, <1>4, LeftOfTick DEF Left
<1>6. \A i \in Positions : Left(item[i].abstime) \in -MaxLate .. MaxTimeout
  BY DEF IInv, InWindow
<1>7. InWindow'
  BY <1>1, <1>3, <1>5, <1>6, TimeAssumption DEF InWindow
<1>8. Sorted'
  BY <1>1, <1>3, <1>5, <1>6, TimeAssumption DEF IInv, Sorted
<1>9. OneItem'
  BY <1>1, <1>3 DEF IInv, OneItem
<1>10. TypeOK'
  <2>1. alarm' \in {Unset} \cup 0 .. MaxTimeout /\ delay' \in 0 .. MaxDelay
    BY <1>1, TimeAssumption DEF IInv, TypeOK, Unset
  <2> QED
    BY <1>1, <1>4, <2>1 DEF IInv, TypeOK
<1>11. Idle' /\ Armed'
  BY <1>1, TimeAssumption DEF IInv, Idle, Armed, Unset, TypeOK
<1>12. Waits!Tick
  <2>1. \A i \in Positions : [View(item[i]) EXCEPT !.left = @ - 1] = View(item[i])'
    BY <1>1, <1>5 DEF View
  <2>2. Pending = {View(item[i]) : i \in Positions}
    BY DEF Pending, View
  <2>3. Pending' = {View(item[i])' : i \in Positions}
    BY <1>3 DEF Pending, View
  <2>4. Pending' = {[x EXCEPT !.left = @ - 1] : x \in Pending}
    <3>1. \A e : e \in Pending' <=> \E i \in Positions : e = View(item[i])'
      BY <2>3
    <3>2. \A e : e \in Pending <=> \E i \in Positions : e = View(item[i])
      BY <2>2
    <3>3. \A e : e \in Pending' => \E x \in Pending : e = [x EXCEPT !.left = @ - 1]
      <4> SUFFICES ASSUME NEW e, e \in Pending'
                   PROVE  \E x \in Pending : e = [x EXCEPT !.left = @ - 1]
        OBVIOUS
      <4>1. PICK i \in Positions : e = View(item[i])'
        BY <3>1
      <4>2. View(item[i]) \in Pending
        BY <3>2
      <4>3. e = [View(item[i]) EXCEPT !.left = @ - 1]
        BY <2>1, <4>1
      <4> QED
        BY <4>2, <4>3
    <3>4. \A x \in Pending : [x EXCEPT !.left = @ - 1] \in Pending'
      <4> SUFFICES ASSUME NEW x \in Pending
                   PROVE  [x EXCEPT !.left = @ - 1] \in Pending'
        OBVIOUS
      <4>1. PICK i \in Positions : x = View(item[i])
        BY <3>2
      <4>2. [View(item[i]) EXCEPT !.left = @ - 1] = View(item[i])'
        BY <2>1
      <4> QED
        BY <3>1, <4>1, <4>2, Zenon
    <3> QED
      BY <3>3, <3>4
  <2>5. Taken' = Taken
    BY <1>1 DEF Taken
  <2> QED
    BY <2>4, <2>5 DEF Waits!Tick
<1>13. Simulated
  BY <1>12 DEF Simulated, Waits!Next
<1> QED
  BY <1>7, <1>8, <1>9, <1>10, <1>11, <1>13 DEF IInv

-----------------------------------------------------------------------------
(* The specification *)

LEMMA InitFacts ==
    ASSUME Init
    PROVE  IInv /\ Waits!Init
<1>1. Positions = {} /\ DOMAIN exec = {} /\ Len(item) = 0
  BY DEF Init, Positions
<1>2. /\ alarm \in {Unset} \cup 0 .. MaxTimeout
      /\ port = "posix" => alarm # Unset
  BY TimeAssumption DEF Init, Unset
<1>3. /\ Len(item) <= MaxTimer
      /\ next \in 0 .. MaxTimeout /\ evt \in 0 .. MaxEvt /\ delay \in 0 .. MaxDelay
  BY <1>1, TimeAssumption, SizeAssumption DEF Init
<1>4. item \in Seq(Item) /\ exec \in Seq([req : Req, cnt : Nat])
  BY EmptySeq DEF Init
<1>5. TypeOK
  BY <1>2, <1>3, <1>4 DEF Init, TypeOK
<1>6. InWindow /\ Sorted /\ OneItem
  BY <1>1 DEF InWindow, Sorted, OneItem
<1>7. Idle /\ Armed
  BY <1>2 DEF Init, Idle, Armed
<1>8. Pending = {} /\ Taken = {}
  BY <1>1 DEF Pending, Taken
<1> QED
  BY <1>5, <1>6, <1>7, <1>8 DEF IInv, Waits!Init

LEMMA NextStep ==
    ASSUME IInv, [Next]_vars
    PROVE  IInv' /\ Simulated
<1>1. CASE \E r \in Req : Start(r)
  BY <1>1, StartStep
<1>2. CASE \E r \in Req : Pop(r.conn, r.mtype)
  BY <1>2, PopStep
<1>3. CASE \E r \in Req : RemoveAll(r.conn)
  BY <1>3, RemoveAllStep
<1>4. CASE HandleAlarm
  BY <1>4, HandleAlarmStep
<1>5. CASE HandlePacket
  BY <1>5, HandlePacketStep
<1>6. CASE RunAgain
  BY <1>6, RunAgainStep
<1>7. CASE RunOver
  BY <1>7, RunOverStep
<1>8. CASE Return
  BY <1>8, ReturnStep
<1>9. CASE Tick
  BY <1>9, TickStep
<1>10. CASE Fire
  BY <1>10, FireStep
<1>11. CASE Refuse
  BY <1>11, RefuseStep
<1>12. CASE UNCHANGED vars
  <2>1. UNCHANGED <<port, now, item, running, exec, next, alarm, evt, lost, delay>>
    BY <1>12 DEF vars
  <2>2. InWindow' /\ Sorted' /\ OneItem' /\ Simulated
    BY <2>1, StillStep
  <2>3. TypeOK' /\ Idle' /\ Armed'
    BY <2>1 DEF IInv, TypeOK, Idle, Armed
  <2> QED
    BY <2>2, <2>3 DEF IInv
<1> QED
  BY <1>1, <1>2, <1>3, <1>4, <1>5, <1>6, <1>7, <1>8, <1>9, <1>10, <1>11, <1>12 DEF Next

\* The strengthened invariant: modular times stay comparable, the array sorted by them, a
\* request has one item, and what must set the next alarm is under way (timer.c:35-187).
THEOREM Inductive == Spec => []IInv
<1>1. Init => IInv
  BY InitFacts
<1>2. IInv /\ [Next]_vars => IInv'
  BY NextStep
<1> QED
  BY <1>1, <1>2, PTL DEF Spec

\* The array never grows past ECP_MAX_TIMER (timer.c:47), and the rest has its type.
THEOREM TypeCorrect == Spec => []TypeOK
<1>1. IInv => TypeOK
  BY DEF IInv
<1> QED
  BY <1>1, Inductive, PTL

\* The item due next stays the last of the array, wherever the clock wraps, so a run may
\* stop at the first item that is not due (timer.c:56-68, 146-153).
THEOREM SortedAlways == Spec => []Sorted
<1>1. IInv => Sorted
  BY DEF IInv
<1> QED
  BY <1>1, Inductive, PTL

\* While items wait, an alarm is set, its event is queued or a run is under way, unless the
\* full event queue refused an event (fe310/time.c:14-16, 34-37, core.c:2648).
THEOREM KeepsAlarm == Spec => []AlarmKept
<1>1. IInv => AlarmKept
  BY DEF IInv, TypeOK, Armed, AlarmKept
<1> QED
  BY <1>1, Inductive, PTL

\* The array over the wrapping clock implements the set of countdowns.
THEOREM Implementation == Spec => Implements
<1>1. Init => Waits!Init
  BY InitFacts
<1>2. IInv /\ [Next]_vars => [Waits!Next]_(Waits!vars)
  BY NextStep DEF Simulated, Waits!vars
<1> QED
  BY <1>1, <1>2, Inductive, PTL DEF Spec, Implements, Waits!Spec
-----------------------------------------------------------------------------
(* How late an item is *)

\* What the bounds are made of.
LEMMA Bounds ==
    ASSUME IInv
    PROVE  /\ MaxDelay \in Nat /\ MutexDelay \in 0 .. MaxDelay /\ Latest \in Nat
           /\ Latest = MaxTimeout + MaxDelay + MutexDelay - 1
           /\ MaxTimeout \in Nat /\ MaxTimeout > 0
           /\ delay \in 0 .. MaxDelay /\ evt \in Nat /\ next \in 0 .. MaxTimeout
           /\ alarm \in -1 .. MaxTimeout /\ Unset = -1
           /\ \A x \in Pending : x.left \in Int
<1>1. /\ MaxDelay \in Nat /\ MaxTimeout \in Nat /\ MaxTimeout > 0 /\ MutexDelay \in 0 .. MaxDelay
  BY TimeAssumption DEF MutexDelay
<1>2. Latest \in Nat /\ Latest = MaxTimeout + MaxDelay + MutexDelay - 1
  BY <1>1 DEF Latest
<1>3. /\ delay \in 0 .. MaxDelay /\ evt \in Nat /\ next \in 0 .. MaxTimeout
      /\ alarm \in -1 .. MaxTimeout /\ Unset = -1
  BY <1>1, SizeAssumption DEF IInv, TypeOK, Unset
<1>4. \A x \in Pending : x.left \in Int
  BY <1>1, TimeAssumption DEF IInv, InWindow, Pending
<1> QED
  BY <1>1, <1>2, <1>3, <1>4

\* Nothing waits while no run, no event and no alarm is under way.
LEMMA NothingForgotten ==
    ASSUME IInv, ~lost, ~running, evt = 0, alarm = Unset
    PROVE  Pending = {}
<1>1. item = <<>>
  BY DEF IInv, TypeOK, Armed
<1> QED
  BY <1>1 DEF Pending, Positions

\* A request is pushed: it is late by the wait for the mutex at most, and the alarm is set
\* no later than it was.
LEMMA OnTimeAfterPush ==
    ASSUME IInv, OnTime, NEW r \in Req, NEW cnt \in Nat, NEW late \in Lateness,
           Push(r, cnt, late),
           Pending' = Pending \cup {[req |-> r, cnt |-> cnt, left |-> r.timeout - late]},
           UNCHANGED <<port, running, evt, lost, delay>>
    PROVE  OnTime'
<1>1. late \in 0 .. MutexDelay /\ r.timeout \in 1 .. MaxTimeout
  BY ReqAssumption DEF Lateness
<1>2. MutexDelay' = MutexDelay /\ Latest' = Latest
  BY DEF MutexDelay, Latest
<1>3. \A x \in Pending' : x \in Pending \/ x.left = r.timeout - late
  OBVIOUS
<1>4. ASSUME ~lost, running, NEW x \in Pending'
      PROVE  x.left > -(MutexDelay + delay)
  <2>1. CASE x \in Pending
    BY <1>4, <2>1 DEF OnTime
  <2>2. CASE x.left = r.timeout - late
    BY <1>1, <2>2, Bounds
  <2> QED
    BY <1>3, <1>4, <2>1, <2>2
<1>5. ASSUME ~lost, ~running, evt > 0, NEW x \in Pending'
      PROVE  x.left >= -(Latest + delay)
  <2>1. CASE x \in Pending
    BY <1>5, <2>1 DEF OnTime
  <2>2. CASE x.left = r.timeout - late
    BY <1>1, <2>2, Bounds
  <2> QED
    BY <1>3, <1>5, <2>1, <2>2
<1>6. ASSUME ~lost, ~running, evt = 0, NEW x \in Pending'
      PROVE  x.left >= alarm' - Latest
  <2>1. /\ alarm' = IF port = "fe310" /\ (alarm = Unset \/ r.timeout < alarm) THEN r.timeout ELSE alarm
    BY DEF Push, AlarmWith
  <2>2. alarm' <= alarm \/ (alarm = Unset /\ alarm' <= MaxTimeout)
    BY <1>1, <2>1, Bounds
  <2>3. CASE x \in Pending
    <3>1. alarm # Unset
      BY <1>6, <2>3, NothingForgotten
    <3>2. x.left >= alarm - Latest
      BY <1>6, <2>3 DEF OnTime
    <3>3. alarm' <= alarm /\ alarm' \in Int
      BY <1>1, <2>1, <2>2, <3>1, Bounds
    <3> QED
      BY <2>3, <3>2, <3>3, Bounds
  <2>4. CASE x.left = r.timeout - late
    <3>1. CASE port = "fe310"
      <4>1. alarm' <= r.timeout /\ alarm' \in Int /\ late = 0
        BY <1>1, <2>1, <3>1, Bounds DEF MutexDelay
      <4> QED
        BY <1>1, <2>4, <4>1, Bounds
    <3>2. CASE port # "fe310"
      <4>1. MutexDelay = MaxDelay
        BY <3>2 DEF MutexDelay, IInv, TypeOK
      <4> QED
        BY <1>1, <2>1, <2>4, <3>2, <4>1, Bounds
    <3> QED
      BY <3>1, <3>2
  <2> QED
    BY <1>3, <1>6, <2>3, <2>4
<1>7. ~lost /\ ~running /\ evt = 0 => delay = 0
  BY DEF OnTime
<1> QED
  BY <1>2, <1>4, <1>5, <1>6, <1>7 DEF OnTime

\* An item goes: the others are no later than they were.
LEMMA OnTimeAfterLoss ==
    ASSUME OnTime, Pending' \subseteq Pending,
           UNCHANGED <<port, running, alarm, evt, lost, delay>>
    PROVE  OnTime'
<1>1. MutexDelay' = MutexDelay /\ Latest' = Latest
  BY DEF MutexDelay, Latest
<1> QED
  BY <1>1 DEF OnTime

\* A run begins: it leaves what is not due.
LEMMA OnTimeAfterCollect ==
    ASSUME IInv, Collect, UNCHANGED <<port, now>>
    PROVE  OnTime'
<1>1. running' = TRUE /\ delay' = 0
  BY DEF Collect
<1>2. \A x \in Pending' : x \in Pending /\ x.left > 0
  BY CollectEffect
<1>3. MutexDelay' = MutexDelay
  BY DEF MutexDelay
<1>4. \A x \in Pending' : x.left > -(MutexDelay + 0)
  BY <1>2, Bounds
<1> QED
  BY <1>1, <1>3, <1>4 DEF OnTime

\* A run ends: the alarm it sets is MaxTimeout away at most.
LEMMA OnTimeAfterReturn ==
    ASSUME IInv, IInv', OnTime, Return
    PROVE  OnTime'
<1>1. /\ running /\ running' = FALSE /\ delay' = 0
      /\ UNCHANGED <<port, now, item, evt, lost>>
  BY DEF Return
<1>2. Pending' = Pending
  BY <1>1 DEF Pending, Positions, Left
<1>3. MutexDelay' = MutexDelay /\ Latest' = Latest
  BY <1>1 DEF MutexDelay, Latest
<1>4. alarm' \in -1 .. MaxTimeout
  BY TimeAssumption DEF IInv, TypeOK, Unset
<1>5. ASSUME ~lost, NEW x \in Pending
      PROVE  x.left >= -Latest /\ x.left >= alarm' - Latest
  <2>1. x.left > -(MutexDelay + delay)
    BY <1>1, <1>5 DEF OnTime
  <2> QED
    BY <1>4, <1>5, <2>1, Bounds
<1> QED
  BY <1>1, <1>2, <1>3, <1>5, Bounds DEF OnTime

\* The alarm's time has come: whatever waits was due at most Latest ticks ago.
LEMMA OnTimeAfterFire ==
    ASSUME IInv, OnTime, Fire
    PROVE  OnTime'
<1>1. /\ alarm = 0 /\ UNCHANGED <<port, now, item, running, delay>>
      /\ \/ evt' = evt + 1 /\ lost' = lost
         \/ lost' = TRUE
  BY DEF Fire
<1>2. Pending' = Pending
  BY <1>1 DEF Pending, Positions, Left
<1>3. MutexDelay' = MutexDelay /\ Latest' = Latest
  BY <1>1 DEF MutexDelay, Latest
<1>4. CASE lost'
  BY <1>4 DEF OnTime
<1>5. CASE ~lost'
  <2>1. evt' = evt + 1 /\ ~lost
    BY <1>1, <1>5
  <2>2. evt' > 0
    BY <2>1, Bounds
  <2>3. ASSUME ~running, NEW x \in Pending
        PROVE  x.left >= -(Latest + delay)
    <3>1. CASE evt > 0
      BY <2>1, <2>3, <3>1 DEF OnTime
    <3>2. CASE evt = 0
      <4>1. delay = 0 /\ x.left >= 0 - Latest
        BY <1>1, <2>1, <2>3, <3>2 DEF OnTime
      <4> QED
        BY <2>3, <4>1, Bounds
    <3> QED
      BY <3>1, <3>2, Bounds
  <2>4. running => \A x \in Pending : x.left > -(MutexDelay + delay)
    BY <2>1 DEF OnTime
  <2>5. running' = running /\ delay' = delay
    BY <1>1
  <2> QED
    BY <1>2, <1>3, <2>1, <2>2, <2>3, <2>4, <2>5, Bounds DEF OnTime
<1> QED
  BY <1>4, <1>5

\* A tick takes one from what is left, and adds one to the delay or takes one from the alarm.
LEMMA OnTimeAfterTick ==
    ASSUME IInv, OnTime, Tick
    PROVE  OnTime'
<1>1. /\ alarm # 0 /\ alarm' = (IF alarm = Unset THEN Unset ELSE alarm - 1)
      /\ delay' = (IF evt > 0 \/ running THEN delay + 1 ELSE 0)
      /\ UNCHANGED <<port, item, running, evt, lost>>
  BY DEF Tick, Due
<1>2. \A y \in Pending' : \E x \in Pending : y.left = x.left - 1
  <2>1. \A i \in Positions : Left(item[i].abstime)' = Left(item[i].abstime) - 1
    <3>1. \A i \in Positions : item[i].abstime \in Time
      <4>1. \A i \in Positions : item[i] \in Item
        BY ElementOfSeq, LenProperties DEF IInv, TypeOK, Positions
      <4> QED
        BY <4>1 DEF Item
    <3> QED
      BY <1>1, <3>1, LeftOfTick DEF Left, Tick, IInv, TypeOK
  <2>2. Positions' = Positions
    BY <1>1 DEF Positions
  <2>3. ASSUME NEW y \in Pending'
        PROVE  \E x \in Pending : y.left = x.left - 1
    <3>1. PICK i \in Positions : y = View(item[i])'
      BY <1>1, <2>2, <2>3 DEF Pending, View
    <3>2. y.left = Left(item[i].abstime)'
      BY <3>1 DEF View
    <3>3. View(item[i]) \in Pending /\ View(item[i]).left = Left(item[i].abstime)
      BY Views DEF View
    <3> QED
      BY <2>1, <3>2, <3>3
  <2> QED
    BY <2>3
<1>3. MutexDelay' = MutexDelay /\ Latest' = Latest
  BY <1>1 DEF MutexDelay, Latest
<1>4. ASSUME ~lost, running, NEW y \in Pending'
      PROVE  y.left > -(MutexDelay + delay')
  <2>1. PICK x \in Pending : y.left = x.left - 1
    BY <1>2, <1>4
  <2>2. x.left > -(MutexDelay + delay)
    BY <1>4 DEF OnTime
  <2> QED
    BY <1>1, <1>4, <2>1, <2>2, Bounds
<1>5. ASSUME ~lost, ~running, evt > 0, NEW y \in Pending'
      PROVE  y.left >= -(Latest + delay')
  <2>1. PICK x \in Pending : y.left = x.left - 1
    BY <1>2, <1>5
  <2>2. x.left >= -(Latest + delay)
    BY <1>5 DEF OnTime
  <2> QED
    BY <1>1, <1>5, <2>1, <2>2, Bounds
<1>6. ASSUME ~lost, ~running, evt = 0, NEW y \in Pending'
      PROVE  y.left >= alarm' - Latest
  <2>1. PICK x \in Pending : y.left = x.left - 1
    BY <1>2, <1>6
  <2>2. x.left >= alarm - Latest
    BY <1>6 DEF OnTime
  <2>3. alarm # Unset
    BY <1>6, NothingForgotten
  <2> QED
    BY <1>1, <2>1, <2>2, <2>3, Bounds
<1>7. ~running /\ evt = 0 => delay' = 0
  BY <1>1
<1> QED
  BY <1>1, <1>3, <1>4, <1>5, <1>6, <1>7 DEF OnTime

LEMMA OnTimeInit ==
    ASSUME Init
    PROVE  OnTime
<1>1. Pending = {}
  BY DEF Init, Pending, Positions
<1> QED
  BY <1>1 DEF Init, OnTime

LEMMA OnTimeStep ==
    ASSUME IInv, IInv', OnTime, [Next]_vars
    PROVE  OnTime'
<1>1. ASSUME NEW r \in Req, Start(r)
      PROVE  OnTime'
  <2>1. PICK late \in Lateness : Push(r, r.cnt, late)
    BY <1>1 DEF Start
  <2>2. late \in 0 .. MaxDelay /\ r.cnt \in Nat
    BY ReqAssumption, TimeAssumption DEF Lateness, MutexDelay
  <2>3. UNCHANGED <<port, now, running, evt, lost, delay>>
    BY <1>1 DEF Start
  <2>4. Pending' = Pending \cup {[req |-> r, cnt |-> r.cnt, left |-> r.timeout - late]}
    BY <2>1, <2>2, <2>3, PushEffect DEF IInv
  <2> QED
    BY <2>1, <2>2, <2>3, <2>4, OnTimeAfterPush
<1>2. ASSUME NEW r \in Req, Pop(r.conn, r.mtype)
      PROVE  OnTime'
  <2>1. Pending' \subseteq Pending
    BY <1>2, PopEffect
  <2> QED
    BY <1>2, <2>1, OnTimeAfterLoss DEF Pop
<1>3. ASSUME NEW r \in Req, RemoveAll(r.conn)
      PROVE  OnTime'
  <2>1. Pending' \subseteq Pending
    BY <1>3, RemoveAllEffect
  <2> QED
    BY <1>3, <2>1, OnTimeAfterLoss DEF RemoveAll
<1>4. CASE HandleAlarm
  BY <1>4, OnTimeAfterCollect DEF HandleAlarm
<1>5. CASE HandlePacket
  BY <1>5, OnTimeAfterCollect DEF HandlePacket
<1>6. CASE RunAgain
  <2> DEFINE r == exec[1].req
             cnt == exec[1].cnt - 1
  <2>1. /\ exec # <<>> /\ Head(exec).cnt > 0 /\ exec' = Tail(exec)
        /\ UNCHANGED <<port, now, running, evt, lost, delay>>
    BY <1>6 DEF RunAgain
  <2>2. Head(exec) = exec[1] /\ exec[1].req \in Req /\ exec[1].cnt \in Nat
    BY <2>1, TailFacts
  <2>3. PICK late \in Lateness : Push(r, cnt, late)
    BY <1>6, <2>2 DEF RunAgain
  <2>4. late \in 0 .. MaxDelay /\ r \in Req /\ cnt \in Nat
    BY <2>1, <2>2, TimeAssumption DEF Lateness, MutexDelay
  <2> HIDE DEF r, cnt
  <2>5. Pending' = Pending \cup {[req |-> r, cnt |-> cnt, left |-> r.timeout - late]}
    BY <2>1, <2>3, <2>4, PushEffect DEF IInv
  <2> QED
    BY <2>1, <2>3, <2>4, <2>5, OnTimeAfterPush
<1>7. CASE RunOver
  <2>1. Pending' = Pending
    BY <1>7 DEF RunOver, Pending, Positions, Left
  <2> QED
    BY <1>7, <2>1, OnTimeAfterLoss DEF RunOver
<1>8. CASE Return
  BY <1>8, OnTimeAfterReturn
<1>9. CASE Tick
  BY <1>9, OnTimeAfterTick
<1>10. CASE Fire
  BY <1>10, OnTimeAfterFire
<1>11. CASE Refuse
  BY <1>11 DEF Refuse, OnTime
<1>12. CASE UNCHANGED vars
  <2>1. Pending' = Pending
    BY <1>12 DEF vars, Pending, Positions, Left
  <2> QED
    BY <1>12, <2>1, OnTimeAfterLoss DEF vars
<1> QED
  BY <1>1, <1>2, <1>3, <1>4, <1>5, <1>6, <1>7, <1>8, <1>9, <1>10, <1>11, <1>12 DEF Next

\* However the pushes, the runs and the events follow each other, an item is run within one
\* alarm and the delays of the threads of its time, unless its event was lost
\* (fe310/time.c:14-16, timer.c:40-43, 134-187).
THEOREM RunInTime == Spec => []LatenessBounded
<1>1. Init => IInv /\ OnTime
  BY InitFacts, OnTimeInit
<1>2. IInv /\ OnTime /\ [Next]_vars => IInv' /\ OnTime'
  BY NextStep, OnTimeStep
<1>3. IInv /\ OnTime => LatenessBounded
  <2> SUFFICES ASSUME IInv, OnTime, ~lost, NEW i \in Positions
               PROVE  Left(item[i].abstime) > -(MaxTimeout + 2 * MaxDelay + MutexDelay)
    BY DEF LatenessBounded
  <2>1. PICK x \in Pending : x.left = Left(item[i].abstime)
    <3>1. View(item[i]) \in Pending /\ View(item[i]).left = Left(item[i].abstime)
      BY Views DEF View
    <3> QED
      BY <3>1
  <2>2. CASE running
    <3>1. x.left > -(MutexDelay + delay)
      BY <2>2 DEF OnTime
    <3> QED
      BY <2>1, <3>1, Bounds
  <2>3. CASE ~running /\ evt > 0
    <3>1. x.left >= -(Latest + delay)
      BY <2>3 DEF OnTime
    <3> QED
      BY <2>1, <3>1, Bounds
  <2>4. CASE ~running /\ evt = 0
    <3>1. x.left >= alarm - Latest /\ alarm # Unset
      BY <2>4, NothingForgotten DEF OnTime
    <3> QED
      BY <2>1, <3>1, Bounds
  <2> QED
    BY <2>2, <2>3, <2>4, Bounds
<1> QED
  BY <1>1, <1>2, <1>3, PTL DEF Spec
=============================================================================

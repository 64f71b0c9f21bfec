--------------------------- MODULE EcpRbuf_proofs ---------------------------
(***************************************************************************)
(* EcpRbuf implements EcpRbufSpec, and reports nothing that did not come.  *)
(*                                                                         *)
(* Sequence numbers wrap, and slots are reused.  The proofs speak of the   *)
(* numbers of packets instead: of the next one, the greatest one and the   *)
(* one acknowledged, and of the slot that is a number's place.             *)
(***************************************************************************)
EXTENDS EcpRbuf, WellFoundedInduction, TLAPS

-----------------------------------------------------------------------------
(* Sequence numbers *)

LEMMA Sizes ==
    /\ Size \in Nat /\ Size > 0 /\ SeqRange \in Nat /\ 2 * Size <= SeqRange
    /\ Width \in Nat /\ Width > 0 /\ MaxSeq \in Nat /\ SeqStart \in 0 .. SeqRange - 1
    /\ 2 * (MaxSeq + Width) < SeqRange
    /\ 2 * (SeqRange \div 2) = SeqRange /\ SeqRange \div 2 \in Nat
<1>1. \A x \in Nat : x % 2 = 0 => 2 * (x \div 2) = x /\ x \div 2 \in Nat
  OBVIOUS
<1>2. SeqRange \in Nat /\ SeqRange % 2 = 0
  BY RbufAssumption
<1> QED
  BY <1>1, <1>2, RbufAssumption, WindowAssumption

LEMMA Naturals == Size \in Nat /\ Size > 0 /\ MaxSeq \in Nat
BY RbufAssumption

\* A set of integers that is not empty and not below b has a least one.
LEMMA MinFacts ==
    ASSUME NEW S, S \subseteq Int, S # {}, NEW b \in Int, \A x \in S : b <= x
    PROVE  Min(S) \in S /\ \A x \in S : Min(S) <= x
<1> DEFINE T == {x - b : x \in S}
<1>1. \A x, y \in Nat : x < y => <<x, y>> \in OpToRel(<, Nat)
  BY Zenon DEF OpToRel
<1>2. T \subseteq Nat /\ T # {}
  <2>1. \A x \in S : x - b \in Nat
    OBVIOUS
  <2> QED
    BY <2>1
<1>3. PICK m \in T : \A k \in T : ~(<<k, m>> \in OpToRel(<, Nat))
  BY <1>2, NatLessThanWellFounded, WFMin, Zenon
<1>4. \A k \in T : m <= k
  <2>1. \A k \in T : ~(k < m)
    BY <1>1, <1>2, <1>3, Zenon
  <2> HIDE DEF T
  <2> QED
    BY <2>1, <1>2
<1>5. PICK i \in S : m = i - b
  BY <1>3
<1>6. \A x \in S : i <= x
  <2>1. \A x \in S : m <= x - b
    BY <1>4
  <2> QED
    BY <1>5, <2>1
<1> QED
  BY <1>6 DEF Min

\* Numbers whose sequence numbers are told apart
Span == 1 - Width .. SeqRange - Width

LEMMA NumOfSeqNo ==
    ASSUME NEW n \in Span
    PROVE  SeqNo(n) \in 0 .. SeqRange - 1 /\ Num(SeqNo(n)) = n
BY Sizes DEF Span, SeqNo, Num, Minus, Wrap

LEMMA SeqNoOfNum ==
    ASSUME NEW x \in 0 .. SeqRange - 1
    PROVE  Num(x) \in Span /\ SeqNo(Num(x)) = x
BY Sizes DEF Span, SeqNo, Num, Minus, Wrap

LEMMA Distance ==
    ASSUME NEW x \in Span, NEW y \in Span
    PROVE  Minus(SeqNo(x), SeqNo(y)) = IF x >= y THEN x - y ELSE x - y + SeqRange
BY Sizes DEF Span, SeqNo, Minus, Wrap

LEMMA Compare ==
    ASSUME NEW x \in Span, NEW y \in Span, 2 * (x - y) < SeqRange, 2 * (y - x) < SeqRange
    PROVE  /\ LTE(SeqNo(x), SeqNo(y)) <=> x <= y
           /\ LT(SeqNo(x), SeqNo(y)) <=> x < y
<1>1. /\ Minus(SeqNo(x), SeqNo(y)) = IF x >= y THEN x - y ELSE x - y + SeqRange
      /\ Minus(SeqNo(y), SeqNo(x)) = IF y >= x THEN y - x ELSE y - x + SeqRange
  BY Distance
<1>2. x \in Int /\ y \in Int
  BY DEF Span
<1> QED
  BY <1>1, <1>2, Sizes DEF LTE, LT

LEMMA Shifted ==
    ASSUME NEW x \in Span, NEW d \in Int, x + d \in Span
    PROVE  Plus(SeqNo(x), d) = SeqNo(x + d)
BY Sizes DEF Span, SeqNo, Plus, Wrap
-----------------------------------------------------------------------------
(* The ring *)

SlotType == [in : BOOLEAN, n : 0 .. MaxSeq, skip : BOOLEAN, early : BOOLEAN, timer : BOOLEAN]
RingType ==
    [start : 0 .. SeqRange - 1, max : 0 .. SeqRange - 1, idx : 0 .. Size - 1,
     slot : [0 .. Size - 1 -> SlotType]]

\* The next number, the greatest one of the application, and where a number has its slot
NextOf(r) == Num(r.start)
MaxOf(r) == Num(r.max)
Ring(r) == NextOf(r) .. NextOf(r) + Size - 1
IdxOf(r, k) == Wrap(r.idx + (k - NextOf(r)), Size)
Place(r, k) == r.slot[IdxOf(r, k)]

RingOK(r) ==
    /\ r \in RingType
    /\ NextOf(r) \in 1 .. MaxSeq + 1
    /\ MaxOf(r) \in NextOf(r) - 1 .. NextOf(r) + Size - 1 /\ MaxOf(r) <= MaxSeq

\* A ring in numbers
LEMMA RingFacts ==
    ASSUME NEW r, RingOK(r)
    PROVE  /\ r.start = SeqNo(NextOf(r)) /\ r.max = SeqNo(MaxOf(r))
           /\ NextOf(r) \in 1 .. MaxSeq + 1 /\ MaxOf(r) \in 0 .. MaxSeq
           /\ MaxOf(r) \in NextOf(r) - 1 .. NextOf(r) + Size - 1
           /\ r.idx \in 0 .. Size - 1 /\ r.slot \in [0 .. Size - 1 -> SlotType]
           /\ r.start \in 0 .. SeqRange - 1 /\ r.max \in 0 .. SeqRange - 1
<1>1. /\ r.idx \in 0 .. Size - 1 /\ r.slot \in [0 .. Size - 1 -> SlotType]
      /\ r.start \in 0 .. SeqRange - 1 /\ r.max \in 0 .. SeqRange - 1
  BY DEF RingOK, RingType
<1>2. r.start = SeqNo(NextOf(r)) /\ r.max = SeqNo(MaxOf(r))
  BY <1>1, SeqNoOfNum DEF NextOf, MaxOf
<1> QED
  BY <1>1, <1>2, Naturals DEF RingOK

\* Numbers near the ring are in the span.
LEMMA InSpan ==
    ASSUME NEW k \in 0 .. MaxSeq + 1 + Size
    PROVE  k \in Span
BY Sizes DEF Span

LEMMA IdxFacts ==
    ASSUME NEW r, RingOK(r), NEW k \in Ring(r), NEW l \in Ring(r)
    PROVE  /\ IdxOf(r, k) \in 0 .. Size - 1
           /\ Place(r, k) \in SlotType
           /\ IdxOf(r, k) = IdxOf(r, l) <=> k = l
<1>1. r.idx \in 0 .. Size - 1 /\ r.slot \in [0 .. Size - 1 -> SlotType] /\ NextOf(r) \in Nat
  BY RingFacts
<1>2. IdxOf(r, k) \in 0 .. Size - 1 /\ (IdxOf(r, k) = IdxOf(r, l) <=> k = l)
  BY <1>1, Sizes DEF Ring, IdxOf, Wrap
<1> QED
  BY <1>1, <1>2 DEF Place

\* Every slot is some number's.
LEMMA IdxCovers ==
    ASSUME NEW r, RingOK(r), NEW i \in 0 .. Size - 1
    PROVE  \E k \in Ring(r) : IdxOf(r, k) = i
<1>1. r.idx \in 0 .. Size - 1 /\ NextOf(r) \in Nat
  BY RingFacts
<1>2. CASE i >= r.idx
  <2>1. NextOf(r) + (i - r.idx) \in Ring(r) /\ IdxOf(r, NextOf(r) + (i - r.idx)) = i
    BY <1>1, <1>2, Sizes DEF Ring, IdxOf, Wrap
  <2> QED
    BY <2>1
<1>3. CASE i < r.idx
  <2>1. /\ NextOf(r) + (i - r.idx + Size) \in Ring(r)
        /\ IdxOf(r, NextOf(r) + (i - r.idx + Size)) = i
    BY <1>1, <1>3, Sizes DEF Ring, IdxOf, Wrap
  <2> QED
    BY <2>1
<1> QED
  BY <1>1, <1>2, <1>3

\* _ecp_rbuf_msg_idx, for the numbers of packets and of the ring
LEMMA FitsFacts ==
    ASSUME NEW r, RingOK(r), NEW k \in 1 .. MaxSeq + Size
    PROVE  /\ Fits(r, SeqNo(k)) <=> k \in Ring(r)
           /\ k \in Ring(r) => Index(r, SeqNo(k)) = IdxOf(r, k) /\ At(r, SeqNo(k)) = Place(r, k)
<1>1. r.start = SeqNo(NextOf(r)) /\ NextOf(r) \in 1 .. MaxSeq + 1
  BY RingFacts
<1>2. NextOf(r) \in Span /\ k \in Span
  BY <1>1, InSpan, Sizes
<1>3. Minus(SeqNo(k), r.start) = IF k >= NextOf(r) THEN k - NextOf(r) ELSE k - NextOf(r) + SeqRange
  BY <1>1, <1>2, Distance
<1>4. Fits(r, SeqNo(k)) <=> k \in Ring(r)
  BY <1>1, <1>3, Sizes DEF Fits, Ring
<1>5. k \in Ring(r) => Minus(SeqNo(k), r.start) = k - NextOf(r)
  BY <1>1, <1>3, Sizes DEF Ring
<1> QED
  BY <1>4, <1>5 DEF Index, IdxOf, At, Place

\* The slots after the start
LEMMA AheadFacts ==
    ASSUME NEW r, RingOK(r), NEW j \in 0 .. Size - 1
    PROVE  /\ NextOf(r) + j \in Ring(r)
           /\ Plus(r.start, j) = SeqNo(NextOf(r) + j)
           /\ Index(r, Plus(r.start, j)) = IdxOf(r, NextOf(r) + j)
           /\ At(r, Plus(r.start, j)) = Place(r, NextOf(r) + j)
<1>1. r.start = SeqNo(NextOf(r)) /\ NextOf(r) \in 1 .. MaxSeq + 1
  BY RingFacts
<1>2. NextOf(r) \in Span /\ NextOf(r) + j \in Span /\ NextOf(r) + j \in 1 .. MaxSeq + Size
  BY <1>1, InSpan, Sizes
<1>3. NextOf(r) + j \in Ring(r)
  BY <1>1, Sizes DEF Ring
<1>4. Plus(r.start, j) = SeqNo(NextOf(r) + j)
  BY <1>1, <1>2, Shifted
<1> QED
  BY <1>2, <1>3, <1>4, FitsFacts

LEMMA WaitingFacts ==
    ASSUME NEW r, RingOK(r)
    PROVE  Waiting(r) = MaxOf(r) - NextOf(r) + 1 /\ Waiting(r) \in 0 .. Size
<1>1. /\ r.start = SeqNo(NextOf(r)) /\ r.max = SeqNo(MaxOf(r))
      /\ NextOf(r) \in 1 .. MaxSeq + 1 /\ MaxOf(r) \in 0 .. MaxSeq
      /\ MaxOf(r) \in NextOf(r) - 1 .. NextOf(r) + Size - 1
  BY RingFacts
<1>2. NextOf(r) \in Span /\ MaxOf(r) \in Span
  BY <1>1, InSpan, Sizes
<1>3. LTE(r.start, r.max) <=> NextOf(r) <= MaxOf(r)
  BY <1>1, <1>2, Compare, Sizes
<1>4. Minus(r.max, r.start) = IF MaxOf(r) >= NextOf(r) THEN MaxOf(r) - NextOf(r)
                              ELSE MaxOf(r) - NextOf(r) + SeqRange
  BY <1>1, <1>2, Distance
<1> QED
  BY <1>1, <1>3, <1>4, Sizes DEF Waiting
-----------------------------------------------------------------------------
(* What is done to the ring *)

LEMMA NumberFacts == ASSUME NEW n \in Number PROVE n \in 1 .. MaxSeq + Size /\ n \in Span /\ n \in 0 .. MaxSeq
BY Sizes DEF Number, Span

LEMMA StoreFacts ==
    ASSUME NEW r, RingOK(r), NEW n \in Number, CanStore(r, SeqNo(n)), NEW early \in BOOLEAN
    PROVE  /\ RingOK(Store(r, n, early))
           /\ NextOf(Store(r, n, early)) = NextOf(r)
           /\ n \in Ring(r) /\ ~Place(r, n).in
           /\ MaxOf(Store(r, n, early)) = IF kind'[n] = "data" /\ MaxOf(r) < n THEN n ELSE MaxOf(r)
           /\ \A k \in Ring(r) : Place(Store(r, n, early), k) =
                 IF k = n THEN Slot(n, kind'[n] # "data", early) ELSE Place(r, k)
<1> DEFINE s == Store(r, n, early)
           x == Slot(n, kind'[n] # "data", early)
<1>1. /\ r.start = SeqNo(NextOf(r)) /\ r.max = SeqNo(MaxOf(r))
      /\ NextOf(r) \in 1 .. MaxSeq + 1 /\ MaxOf(r) \in 0 .. MaxSeq
      /\ MaxOf(r) \in NextOf(r) - 1 .. NextOf(r) + Size - 1
      /\ r \in RingType
  BY RingFacts DEF RingOK
<1>2. n \in Ring(r) /\ ~Place(r, n).in /\ Index(r, SeqNo(n)) = IdxOf(r, n)
  BY NumberFacts, FitsFacts DEF CanStore
<1>3. LT(r.max, SeqNo(n)) <=> MaxOf(r) < n
  <2>1. MaxOf(r) \in Span /\ n \in Span /\ n \in 0 .. MaxSeq
    BY <1>1, InSpan, NumberFacts, Sizes
  <2> QED
    BY <1>1, <2>1, Compare, Sizes
<1>4. s = [r EXCEPT !.slot[IdxOf(r, n)] = x,
                    !.max = IF kind'[n] = "data" /\ MaxOf(r) < n THEN SeqNo(n) ELSE @]
  BY <1>2, <1>3 DEF Store
<1>5. x \in SlotType
  BY NumberFacts DEF Slot, SlotType
<1>6. IdxOf(r, n) \in 0 .. Size - 1 /\ SeqNo(n) \in 0 .. SeqRange - 1 /\ Num(SeqNo(n)) = n
  BY <1>2, IdxFacts, NumberFacts, NumOfSeqNo
<1> HIDE DEF s, x
<1>7. /\ s \in RingType /\ s.start = r.start /\ s.idx = r.idx
      /\ s.slot = [r.slot EXCEPT ![IdxOf(r, n)] = x]
      /\ s.max = IF kind'[n] = "data" /\ MaxOf(r) < n THEN SeqNo(n) ELSE r.max
  BY <1>1, <1>4, <1>5, <1>6 DEF RingType
<1>8. NextOf(s) = NextOf(r) /\ Ring(s) = Ring(r) /\ \A k : IdxOf(s, k) = IdxOf(r, k)
  BY <1>7 DEF NextOf, Ring, IdxOf
<1>9. MaxOf(s) = IF kind'[n] = "data" /\ MaxOf(r) < n THEN n ELSE MaxOf(r)
  BY <1>6, <1>7 DEF MaxOf
<1>10. RingOK(s)
  <2>1. n \in NextOf(r) .. NextOf(r) + Size - 1 /\ n <= MaxSeq
    BY <1>2, NumberFacts DEF Ring
  <2> QED
    BY <1>1, <1>7, <1>8, <1>9, <2>1 DEF RingOK
<1>11. ASSUME NEW k \in Ring(r)
       PROVE  Place(s, k) = IF k = n THEN x ELSE Place(r, k)
  <2>1. IdxOf(r, k) \in 0 .. Size - 1 /\ (IdxOf(r, k) = IdxOf(r, n) <=> k = n)
    BY <1>2, IdxFacts
  <2>2. r.slot \in [0 .. Size - 1 -> SlotType]
    BY RingFacts
  <2> QED
    BY <1>6, <1>7, <1>8, <2>1, <2>2 DEF Place
<1> QED
  BY <1>2, <1>8, <1>9, <1>10, <1>11 DEF s, x

LEMMA StoreNopFacts ==
    ASSUME NEW r, RingOK(r), NEW names, names \subseteq Number
    PROVE  /\ RingOK(StoreNop(r, names))
           /\ NextOf(StoreNop(r, names)) = NextOf(r) /\ MaxOf(StoreNop(r, names)) = MaxOf(r)
           /\ \A k \in Ring(r) : Place(StoreNop(r, names), k) =
                 IF k \in names /\ ~Place(r, k).in THEN Slot(0, TRUE, FALSE) ELSE Place(r, k)
<1> DEFINE s == StoreNop(r, names)
           x == Slot(0, TRUE, FALSE)
           taken == {i \in 0 .. Size - 1 :
                       \E m \in names : CanStore(r, SeqNo(m)) /\ Index(r, SeqNo(m)) = i}
<1>1. r \in RingType /\ r.slot \in [0 .. Size - 1 -> SlotType]
  BY RingFacts DEF RingOK
<1>2. x \in SlotType
  BY Sizes DEF Slot, SlotType
<1>3. s = [r EXCEPT !.slot = [i \in 0 .. Size - 1 |-> IF i \in taken THEN x ELSE r.slot[i]]]
  <2>1. DOMAIN r.slot = 0 .. Size - 1
    BY <1>1
  <2> QED
    BY <1>1, <2>1 DEF StoreNop, RingType
<1>4. ASSUME NEW k \in Ring(r)
      PROVE  IdxOf(r, k) \in taken <=> k \in names /\ ~Place(r, k).in
  <2>1. ASSUME NEW m \in names
        PROVE  /\ CanStore(r, SeqNo(m)) <=> m \in Ring(r) /\ ~Place(r, m).in
               /\ m \in Ring(r) => Index(r, SeqNo(m)) = IdxOf(r, m)
    BY <2>1, NumberFacts, FitsFacts DEF CanStore
  <2>2. \A m \in Ring(r) : IdxOf(r, k) = IdxOf(r, m) <=> k = m
    BY IdxFacts
  <2>3. IdxOf(r, k) \in 0 .. Size - 1
    BY IdxFacts
  <2> QED
    BY <2>1, <2>2, <2>3
<1> HIDE DEF s, x, taken
<1>5. /\ s \in RingType /\ s.start = r.start /\ s.idx = r.idx /\ s.max = r.max
      /\ s.slot = [i \in 0 .. Size - 1 |-> IF i \in taken THEN x ELSE r.slot[i]]
  BY <1>1, <1>2, <1>3 DEF RingType
<1>6. NextOf(s) = NextOf(r) /\ MaxOf(s) = MaxOf(r) /\ \A k : IdxOf(s, k) = IdxOf(r, k)
  BY <1>5 DEF NextOf, MaxOf, IdxOf
<1>7. RingOK(s)
  BY <1>5, <1>6 DEF RingOK
<1>8. ASSUME NEW k \in Ring(r)
      PROVE  Place(s, k) = IF k \in names /\ ~Place(r, k).in THEN x ELSE Place(r, k)
  <2>1. IdxOf(r, k) \in 0 .. Size - 1
    BY IdxFacts
  <2> QED
    BY <1>4, <1>5, <1>6, <2>1 DEF Place
<1> QED
  BY <1>6, <1>7, <1>8 DEF s, x

LEMMA WrapAfter ==
    ASSUME NEW z \in Nat, z > 0, NEW i \in 0 .. z - 1, NEW d \in 0 .. z, NEW e \in 0 .. z - 1
    PROVE  /\ Wrap(i + d, z) \in 0 .. z - 1
           /\ e >= d => Wrap(Wrap(i + d, z) + (e - d), z) = Wrap(i + e, z)
           /\ e < d => Wrap(Wrap(i + d, z) + (e + z - d), z) = Wrap(i + e, z)
<1>1. Wrap(i + d, z) = IF i + d < z THEN i + d ELSE i + d - z
  BY DEF Wrap
<1>2. Wrap(i + e, z) = IF i + e < z THEN i + e ELSE i + e - z
  BY DEF Wrap
<1>3. ASSUME e >= d
      PROVE  Wrap(Wrap(i + d, z) + (e - d), z) = Wrap(i + e, z)
  <2>1. CASE i + d < z
    BY <1>1, <1>2, <1>3, <2>1 DEF Wrap
  <2>2. CASE i + d >= z
    BY <1>1, <1>2, <1>3, <2>2 DEF Wrap
  <2> QED
    BY <2>1, <2>2
<1>4. ASSUME e < d
      PROVE  Wrap(Wrap(i + d, z) + (e + z - d), z) = Wrap(i + e, z)
  <2>1. CASE i + d < z
    BY <1>1, <1>2, <1>4, <2>1 DEF Wrap
  <2>2. CASE i + d >= z
    BY <1>1, <1>2, <1>4, <2>2 DEF Wrap
  <2> QED
    BY <2>1, <2>2
<1> QED
  BY <1>1, <1>3, <1>4

\* The ring moves on by d slots, and they are free again.
LEMMA AdvanceFacts ==
    ASSUME NEW r, RingOK(r), NEW d \in 0 .. MaxOf(r) - NextOf(r) + 1
    PROVE  /\ RingOK(Advance(r, d))
           /\ NextOf(Advance(r, d)) = NextOf(r) + d /\ MaxOf(Advance(r, d)) = MaxOf(r)
           /\ \A k \in Ring(Advance(r, d)) : Place(Advance(r, d), k) =
                 IF k \in Ring(r) THEN Place(r, k) ELSE NoSlot
<1> DEFINE s == Advance(r, d)
           freed == {i \in 0 .. Size - 1 : \E j \in 0 .. d - 1 : Index(r, Plus(r.start, j)) = i}
<1>1. /\ r \in RingType /\ r.slot \in [0 .. Size - 1 -> SlotType] /\ r.idx \in 0 .. Size - 1
      /\ r.start = SeqNo(NextOf(r)) /\ r.max = SeqNo(MaxOf(r))
      /\ NextOf(r) \in 1 .. MaxSeq + 1 /\ MaxOf(r) \in 0 .. MaxSeq
      /\ MaxOf(r) \in NextOf(r) - 1 .. NextOf(r) + Size - 1
  BY RingFacts DEF RingOK
<1>2. d \in 0 .. Size /\ NextOf(r) + d \in 1 .. MaxSeq + 1
  BY <1>1, Naturals
<1>3. Plus(r.start, d) = SeqNo(NextOf(r) + d)
  BY <1>1, <1>2, InSpan, Shifted, Sizes
<1>4. NextOf(r) + d \in Span
  BY <1>2, InSpan, Sizes
<1>5. Plus(r.start, d) \in 0 .. SeqRange - 1 /\ Num(Plus(r.start, d)) = NextOf(r) + d
  BY <1>3, <1>4, NumOfSeqNo
<1>6. IndexAfter(r, d) = Wrap(r.idx + d, Size) /\ IndexAfter(r, d) \in 0 .. Size - 1
  <2>1. d \in 0 .. Size /\ 0 \in 0 .. Size - 1 /\ Size \in Nat /\ Size > 0
    BY <1>2, Sizes
  <2> QED
    BY <1>1, <2>1, WrapAfter DEF IndexAfter
<1>7. s = [r EXCEPT !.start = Plus(r.start, d), !.idx = IndexAfter(r, d),
                    !.slot = [i \in 0 .. Size - 1 |-> IF i \in freed THEN NoSlot ELSE r.slot[i]]]
  <2>1. DOMAIN r.slot = 0 .. Size - 1
    BY <1>1
  <2> QED
    BY <1>1, <2>1 DEF Advance, RingType
<1>8. NoSlot \in SlotType
  BY Sizes DEF NoSlot, SlotType
<1>9. ASSUME NEW k \in Ring(r)
      PROVE  IdxOf(r, k) \in freed <=> k < NextOf(r) + d
  <2>1. \A j \in 0 .. d - 1 : /\ NextOf(r) + j \in Ring(r)
                              /\ Index(r, Plus(r.start, j)) = IdxOf(r, NextOf(r) + j)
    BY <1>2, AheadFacts, Sizes
  <2>2. \A l \in Ring(r) : IdxOf(r, l) = IdxOf(r, k) <=> l = k
    BY IdxFacts
  <2>3. IdxOf(r, k) \in 0 .. Size - 1
    BY IdxFacts
  <2>4. IdxOf(r, k) \in freed <=> \E j \in 0 .. d - 1 : NextOf(r) + j = k
    BY <2>1, <2>2, <2>3
  <2>5. (\E j \in 0 .. d - 1 : NextOf(r) + j = k) <=> k < NextOf(r) + d
    <3>1. k < NextOf(r) + d => k - NextOf(r) \in 0 .. d - 1 /\ NextOf(r) + (k - NextOf(r)) = k
      BY <1>1, <1>2 DEF Ring
    <3> QED
      BY <1>1, <1>2, <3>1
  <2> QED
    BY <2>4, <2>5
<1> HIDE DEF s, freed
<1>10. /\ s \in RingType /\ s.start = Plus(r.start, d) /\ s.idx = IndexAfter(r, d) /\ s.max = r.max
       /\ s.slot = [i \in 0 .. Size - 1 |-> IF i \in freed THEN NoSlot ELSE r.slot[i]]
  BY <1>1, <1>5, <1>6, <1>7, <1>8 DEF RingType
<1>11. NextOf(s) = NextOf(r) + d /\ MaxOf(s) = MaxOf(r)
  BY <1>5, <1>10 DEF NextOf, MaxOf
<1>12. /\ NextOf(r) \in Nat /\ d \in Nat /\ Size \in Nat
       /\ Ring(r) = NextOf(r) .. NextOf(r) + Size - 1
       /\ Ring(s) = NextOf(r) + d .. NextOf(r) + d + Size - 1
  BY <1>1, <1>2, <1>11, Sizes DEF Ring
<1>13. RingOK(s)
  <2>1. /\ MaxOf(r) \in NextOf(r) + d - 1 .. NextOf(r) + d + Size - 1
        /\ MaxOf(r) <= MaxSeq
    BY <1>1, <1>2, Sizes
  <2> QED
    BY <1>2, <1>10, <1>11, <2>1 DEF RingOK
<1>14. ASSUME NEW k \in Ring(s)
       PROVE  Place(s, k) = IF k \in Ring(r) THEN Place(r, k) ELSE NoSlot
  <2>1. CASE k \in Ring(r)
    <3>1. IdxOf(s, k) = IdxOf(r, k)
      <4> DEFINE e == k - NextOf(r)
      <4>1. e \in 0 .. Size - 1 /\ e >= d
        BY <1>12, <1>14, <2>1
      <4>2. k - (NextOf(r) + d) = e - d
        BY <1>1, <1>2, <1>14, Sizes DEF Ring
      <4>3. IdxOf(s, k) = Wrap(Wrap(r.idx + d, Size) + (e - d), Size) /\ IdxOf(r, k) = Wrap(r.idx + e, Size)
        BY <1>6, <1>10, <1>11, <4>2 DEF IdxOf
      <4> HIDE DEF e
      <4> QED
        BY <1>1, <1>2, <4>1, <4>3, WrapAfter, Sizes
    <3>2. IdxOf(r, k) \in 0 .. Size - 1 /\ IdxOf(r, k) \notin freed
      BY <1>1, <1>2, <1>9, <1>11, <1>14, <2>1, IdxFacts DEF Ring
    <3> QED
      BY <1>10, <2>1, <3>1, <3>2 DEF Place
  <2>2. CASE k \notin Ring(r)
    <3>1. k - Size \in Ring(r) /\ k - Size < NextOf(r) + d
      BY <1>2, <1>12, <1>14, <2>2
    <3>2. IdxOf(s, k) = IdxOf(r, k - Size)
      <4> DEFINE e == k - Size - NextOf(r)
      <4>1. e \in 0 .. Size - 1 /\ e < d
        BY <1>12, <1>14, <3>1
      <4>2. k - (NextOf(r) + d) = e + Size - d
        BY <1>1, <1>2, <3>1, Sizes DEF Ring
      <4>3. /\ IdxOf(s, k) = Wrap(Wrap(r.idx + d, Size) + (e + Size - d), Size)
            /\ IdxOf(r, k - Size) = Wrap(r.idx + e, Size)
        BY <1>6, <1>10, <1>11, <4>2 DEF IdxOf
      <4> HIDE DEF e
      <4> QED
        BY <1>1, <1>2, <4>1, <4>3, WrapAfter, Sizes
    <3>3. IdxOf(r, k - Size) \in freed /\ IdxOf(r, k - Size) \in 0 .. Size - 1
      BY <1>9, <3>1, IdxFacts
    <3> QED
      BY <1>10, <2>2, <3>2, <3>3 DEF Place
  <2> QED
    BY <2>1, <2>2
<1> QED
  BY <1>11, <1>13, <1>14 DEF s
-----------------------------------------------------------------------------
(* What the ring holds: for the kinds f that packets have, the set K of   *)
(* those that came, and the number A up to which they are acknowledged    *)

SystemOf(f) == {k \in DOMAIN f : f[k] # "data"}
DataOf(f) == {k \in DOMAIN f : f[k] = "data"}
KnownOf(f, K) == K \union SystemOf(f)

SlotOK(x, k, f, K, A) ==
    /\ IF x.skip THEN k \in SystemOf(f) ELSE x.n = k /\ k \in DataOf(f) \intersect K
    /\ k \in K \/ k <= A
SlotsOK(r, f, K, A) == \A k \in Ring(r) : Place(r, k).in => SlotOK(Place(r, k), k, f, K, A)
KeptOK(r, K) == \A k \in K : k >= NextOf(r) => k \in Ring(r) /\ Place(r, k).in
PassedOK(r, f, K, A) ==
    flags.reliable => \A k \in 1 .. NextOf(r) - 1 : k \in KnownOf(f, K) /\ (k \in K \/ k <= A)

RingInv(r, f, K, A) ==
    /\ RingOK(r) /\ SlotsOK(r, f, K, A) /\ KeptOK(r, K) /\ PassedOK(r, f, K, A)
    /\ K \subseteq Number /\ A \in Int

\* The messages that wait, and those msg_flush hands over when it passes d slots
WaitingIn(r) == {r.slot[i].n : i \in {j \in DOMAIN r.slot : r.slot[j].in /\ ~r.slot[j].skip}}
HandedOver(r, d) == {k \in WaitingIn(r) : k < NextOf(r) + d}

LEMMA WaitingInRing ==
    ASSUME NEW r, NEW f, NEW K, NEW A, RingInv(r, f, K, A)
    PROVE  /\ WaitingIn(r) = {k \in Ring(r) : Place(r, k).in /\ ~Place(r, k).skip}
           /\ WaitingIn(r) \subseteq DataOf(f) \intersect K
<1>1. RingOK(r) /\ SlotsOK(r, f, K, A)
  BY DEF RingInv
<1>2. DOMAIN r.slot = 0 .. Size - 1
  BY <1>1, RingFacts
<1>3. ASSUME NEW k \in Ring(r), Place(r, k).in, ~Place(r, k).skip
      PROVE  k \in WaitingIn(r) /\ k \in DataOf(f) \intersect K
  <2>1. Place(r, k).n = k /\ k \in DataOf(f) \intersect K
    BY <1>1, <1>3 DEF SlotsOK, SlotOK
  <2>2. IdxOf(r, k) \in DOMAIN r.slot
    BY <1>1, <1>2, IdxFacts
  <2> QED
    BY <1>3, <2>1, <2>2 DEF WaitingIn, Place
<1>4. ASSUME NEW n \in WaitingIn(r)
      PROVE  \E k \in Ring(r) : k = n /\ Place(r, k).in /\ ~Place(r, k).skip
  <2>1. PICK i \in DOMAIN r.slot : r.slot[i].in /\ ~r.slot[i].skip /\ n = r.slot[i].n
    BY <1>4 DEF WaitingIn
  <2>2. PICK k \in Ring(r) : IdxOf(r, k) = i
    BY <1>1, <1>2, <2>1, IdxCovers
  <2>3. Place(r, k) = r.slot[i]
    BY <2>2 DEF Place
  <2> QED
    BY <1>1, <2>1, <2>2, <2>3 DEF SlotsOK, SlotOK
<1> QED
  BY <1>3, <1>4

LEMMA StopFacts ==
    ASSUME NEW r, RingOK(r)
    PROVE  /\ StopAt(r) \in 0 .. MaxOf(r) - NextOf(r) + 1
           /\ StopAt(r) \in 0 .. Size
           /\ \A i \in 0 .. StopAt(r) - 1 : ~Stops(r, Plus(r.start, i))
<1> DEFINE S == {i \in 0 .. Waiting(r) - 1 : Stops(r, Plus(r.start, i))} \union {Waiting(r)}
<1>1. Waiting(r) = MaxOf(r) - NextOf(r) + 1 /\ Waiting(r) \in 0 .. Size /\ Size \in Nat
  BY WaitingFacts, Sizes
<1>2. S \subseteq Int /\ S # {} /\ \A x \in S : 0 <= x
  BY <1>1
<1>3. StopAt(r) = Min(S)
  BY DEF StopAt
<1>4. StopAt(r) \in S /\ \A x \in S : StopAt(r) <= x
  <2> HIDE DEF S
  <2>1. 0 \in Int
    OBVIOUS
  <2>2. Min(S) \in S /\ \A x \in S : Min(S) <= x
    BY <1>2, <2>1, MinFacts, Zenon
  <2> QED
    BY <1>3, <2>2
<1>5. StopAt(r) \in 0 .. Waiting(r)
  BY <1>1, <1>4
<1>6. ASSUME NEW i \in 0 .. StopAt(r) - 1
      PROVE  ~Stops(r, Plus(r.start, i))
  BY <1>1, <1>4, <1>5
<1> QED
  BY <1>1, <1>5, <1>6

\* Whether messages are early, and have a timer, is of no account.
LEMMA Alike ==
    ASSUME NEW r, NEW f, NEW K, NEW A, RingInv(r, f, K, A),
           NEW s, s \in RingType, s.start = r.start, s.max = r.max, s.idx = r.idx,
           \A i \in 0 .. Size - 1 : /\ s.slot[i].in = r.slot[i].in /\ s.slot[i].n = r.slot[i].n
                                    /\ s.slot[i].skip = r.slot[i].skip
    PROVE  /\ RingInv(s, f, K, A) /\ NextOf(s) = NextOf(r) /\ MaxOf(s) = MaxOf(r)
           /\ WaitingIn(s) = WaitingIn(r)
<1>1. NextOf(s) = NextOf(r) /\ MaxOf(s) = MaxOf(r) /\ Ring(s) = Ring(r)
  BY DEF NextOf, MaxOf, Ring
<1>2. RingOK(s) /\ RingOK(r)
  BY <1>1 DEF RingInv, RingOK
<1>3. ASSUME NEW k \in Ring(r)
      PROVE  /\ Place(s, k).in = Place(r, k).in /\ Place(s, k).n = Place(r, k).n
             /\ Place(s, k).skip = Place(r, k).skip
  <2>1. IdxOf(r, k) \in 0 .. Size - 1 /\ IdxOf(s, k) = IdxOf(r, k)
    BY <1>1, <1>2, IdxFacts DEF IdxOf
  <2> QED
    BY <2>1 DEF Place
<1>4. SlotsOK(s, f, K, A)
  BY <1>1, <1>3 DEF RingInv, SlotsOK, SlotOK
<1>5. KeptOK(s, K) /\ PassedOK(s, f, K, A)
  BY <1>1, <1>3 DEF RingInv, KeptOK, PassedOK
<1>6. RingInv(s, f, K, A)
  BY <1>2, <1>4, <1>5 DEF RingInv
<1>7. WaitingIn(s) = WaitingIn(r)
  <2>1. \A k \in Ring(r) : Place(s, k).in /\ ~Place(s, k).skip <=> Place(r, k).in /\ ~Place(r, k).skip
    BY <1>3
  <2>2. WaitingIn(r) = {k \in Ring(r) : Place(r, k).in /\ ~Place(r, k).skip}
    BY WaitingInRing
  <2>3. WaitingIn(s) = {k \in Ring(s) : Place(s, k).in /\ ~Place(s, k).skip}
    BY <1>6, WaitingInRing
  <2> QED
    BY <1>1, <2>1, <2>2, <2>3
<1> QED
  BY <1>1, <1>6, <1>7

\* msg_flush moves on.
LEMMA FlushFacts ==
    ASSUME NEW r, NEW f, NEW K, NEW A, RingInv(r, f, K, A),
           NEW s, NEW d, d = StopAt(r), s = Advance(r, d)
    PROVE  /\ RingInv(s, f, K, A) /\ d \in Nat /\ NextOf(s) = NextOf(r) + d /\ MaxOf(s) = MaxOf(r)
           /\ {x.n : x \in {y \in Passed(r) : y.in /\ ~y.skip}} = HandedOver(r, d)
           /\ WaitingIn(s) = WaitingIn(r) \ HandedOver(r, d)
           /\ flags.reliable =>
                 \A k \in NextOf(r) .. NextOf(s) - 1 : k \in HandedOver(r, d) \union SystemOf(f)
<1>1. RingOK(r) /\ SlotsOK(r, f, K, A) /\ KeptOK(r, K) /\ PassedOK(r, f, K, A) /\ K \subseteq Number
  BY DEF RingInv
<1>2. /\ d \in 0 .. MaxOf(r) - NextOf(r) + 1 /\ d \in 0 .. Size
      /\ \A i \in 0 .. d - 1 : ~Stops(r, Plus(r.start, i))
  BY <1>1, StopFacts
<1>3. /\ RingOK(s) /\ NextOf(s) = NextOf(r) + d /\ MaxOf(s) = MaxOf(r)
      /\ \A k \in Ring(s) : Place(s, k) = IF k \in Ring(r) THEN Place(r, k) ELSE NoSlot
  BY <1>1, <1>2, AdvanceFacts
<1>4. /\ NextOf(r) \in Nat /\ d \in Nat /\ Size \in Nat
      /\ Ring(r) = NextOf(r) .. NextOf(r) + Size - 1
      /\ Ring(s) = NextOf(r) + d .. NextOf(r) + d + Size - 1
  BY <1>1, <1>2, <1>3, RingFacts, Sizes DEF Ring
<1>5. ~NoSlot.in
  BY DEF NoSlot
<1>6. SlotsOK(s, f, K, A)
  BY <1>1, <1>3, <1>5 DEF SlotsOK
<1>7. KeptOK(s, K)
  <2>1. SUFFICES ASSUME NEW k \in K, k >= NextOf(s)
                 PROVE  k \in Ring(s) /\ Place(s, k).in
    BY DEF KeptOK
  <2>2. k \in Nat
    BY <1>1, NumberFacts
  <2>3. k \in Ring(r) /\ Place(r, k).in
    BY <1>1, <1>3, <1>4, <2>1, <2>2 DEF KeptOK
  <2>4. k \in Ring(s)
    BY <1>3, <1>4, <2>1, <2>2, <2>3
  <2> QED
    BY <1>3, <2>3, <2>4
<1>8. \A k \in Ring(r) : k < NextOf(r) + d => /\ k - NextOf(r) \in 0 .. d - 1
                                            /\ At(r, Plus(r.start, k - NextOf(r))) = Place(r, k)
  <2>1. SUFFICES ASSUME NEW k \in Ring(r), k < NextOf(r) + d
                 PROVE  /\ k - NextOf(r) \in 0 .. d - 1
                        /\ At(r, Plus(r.start, k - NextOf(r))) = Place(r, k)
    OBVIOUS
  <2>2. /\ k - NextOf(r) \in 0 .. d - 1 /\ k - NextOf(r) \in 0 .. Size - 1
        /\ NextOf(r) + (k - NextOf(r)) = k
    BY <1>4, <2>1
  <2> QED
    BY <1>1, <2>2, AheadFacts
<1>9. ASSUME flags.reliable, NEW k \in Ring(r), k < NextOf(r) + d
      PROVE  Place(r, k).in /\ SlotOK(Place(r, k), k, f, K, A)
  BY <1>1, <1>2, <1>8, <1>9 DEF Stops, SlotsOK
<1>10. PassedOK(s, f, K, A)
  <2>1. SUFFICES ASSUME flags.reliable, NEW k \in 1 .. NextOf(s) - 1
                 PROVE  k \in KnownOf(f, K) /\ (k \in K \/ k <= A)
    BY DEF PassedOK
  <2>2. CASE k < NextOf(r)
    BY <1>1, <1>4, <2>1, <2>2 DEF PassedOK
  <2>3. CASE k >= NextOf(r)
    <3>1. k \in Ring(r) /\ k < NextOf(r) + d
      BY <1>2, <1>3, <1>4, <2>1, <2>3
    <3> QED
      BY <1>9, <2>1, <3>1 DEF SlotOK, KnownOf
  <2> QED
    BY <1>4, <2>1, <2>2, <2>3
<1>11. RingInv(s, f, K, A)
  BY <1>3, <1>6, <1>7, <1>10 DEF RingInv
<1>12. /\ WaitingIn(r) = {k \in Ring(r) : Place(r, k).in /\ ~Place(r, k).skip}
       /\ WaitingIn(s) = {k \in Ring(s) : Place(s, k).in /\ ~Place(s, k).skip}
  BY <1>11, WaitingInRing
<1>13. HandedOver(r, d) = {k \in Ring(r) : k < NextOf(r) + d /\ Place(r, k).in /\ ~Place(r, k).skip}
  BY <1>12 DEF HandedOver
<1>14. {x.n : x \in {y \in Passed(r) : y.in /\ ~y.skip}} = HandedOver(r, d)
  <2>1. ASSUME NEW k \in HandedOver(r, d)
        PROVE  \E x \in Passed(r) : x.in /\ ~x.skip /\ x.n = k
    <3>1. k \in Ring(r) /\ k < NextOf(r) + d /\ Place(r, k).in /\ ~Place(r, k).skip
      BY <1>13
    <3>2. Place(r, k).n = k
      BY <1>1, <3>1 DEF SlotsOK, SlotOK
    <3>3. Place(r, k) \in Passed(r)
      BY <1>8, <3>1 DEF Passed
    <3> QED
      BY <3>1, <3>2, <3>3
  <2>2. ASSUME NEW x \in Passed(r), x.in, ~x.skip
        PROVE  x.n \in HandedOver(r, d)
    <3>1. PICK i \in 0 .. d - 1 : x = At(r, Plus(r.start, i))
      BY DEF Passed
    <3>2. i \in 0 .. Size - 1 /\ NextOf(r) + i < NextOf(r) + d
      BY <1>2, <1>4, <3>1
    <3>3. NextOf(r) + i \in Ring(r) /\ x = Place(r, NextOf(r) + i)
      BY <1>1, <3>1, <3>2, AheadFacts
    <3>4. x.n = NextOf(r) + i
      BY <1>1, <2>2, <3>3 DEF SlotsOK, SlotOK
    <3> QED
      BY <1>13, <2>2, <3>2, <3>3, <3>4
  <2> QED
    BY <2>1, <2>2
<1>15. WaitingIn(s) = WaitingIn(r) \ HandedOver(r, d)
  <2>1. \A k \in Ring(s) : Place(s, k).in => k \in Ring(r)
    BY <1>3, <1>5
  <2>2. \A k \in Ring(r) : k >= NextOf(r) + d <=> k \in Ring(s)
    BY <1>4
  <2>3. \A k \in Ring(r) : k < NextOf(r) + d <=> ~(k >= NextOf(r) + d)
    BY <1>4
  <2> QED
    BY <1>3, <1>12, <1>13, <2>1, <2>2, <2>3
<1>16. ASSUME flags.reliable, NEW k \in NextOf(r) .. NextOf(s) - 1
       PROVE  k \in HandedOver(r, d) \union SystemOf(f)
  <2>1. k \in Ring(r) /\ k < NextOf(r) + d
    BY <1>2, <1>3, <1>4, <1>16
  <2> QED
    BY <1>9, <1>13, <1>16, <2>1 DEF SlotOK
<1> QED
  BY <1>2, <1>3, <1>11, <1>14, <1>15, <1>16
-----------------------------------------------------------------------------
(* What a packet does to the ring *)

\* A copy of n came, and named names: the kinds of packets as they become are g.
Came(f, g, K, A, n, names) ==
    /\ n \in Number /\ names \subseteq Number
    /\ DOMAIN f \subseteq DOMAIN g /\ n \in DOMAIN g /\ \A k \in DOMAIN f : g[k] = f[k]
    /\ \A m \in names : m \in DOMAIN g /\ m <= A /\ (g[m] = "data" => m \in K)

\* Nothing else that changes meanwhile takes anything away.
LEMMA Onward ==
    ASSUME NEW r, NEW f, NEW K, NEW A, RingInv(r, f, K, A),
           NEW g, DOMAIN f \subseteq DOMAIN g, \A k \in DOMAIN f : g[k] = f[k],
           NEW B \in Int, A <= B
    PROVE  RingInv(r, g, K, B) /\ KnownOf(f, K) \subseteq KnownOf(g, K)
<1>1. SystemOf(f) \subseteq SystemOf(g) /\ DataOf(f) \subseteq DataOf(g)
  BY DEF SystemOf, DataOf
<1>2. KnownOf(f, K) \subseteq KnownOf(g, K)
  BY <1>1 DEF KnownOf
<1>3. \A k \in Int : k <= A => k <= B
  BY DEF RingInv
<1>4. Ring(r) \subseteq Int /\ 1 .. NextOf(r) - 1 \subseteq Int
  BY DEF Ring
<1>5. SlotsOK(r, g, K, B)
  BY <1>1, <1>3, <1>4 DEF RingInv, SlotsOK, SlotOK
<1>6. PassedOK(r, g, K, B)
  BY <1>2, <1>3, <1>4 DEF RingInv, PassedOK
<1> QED
  BY <1>2, <1>5, <1>6 DEF RingInv

\* The slots that RBNOP takes are free ones of system messages.
LEMMA NopStep ==
    ASSUME NEW r, NEW f, NEW K, NEW A, RingInv(r, f, K, A),
           NEW n, NEW names, Came(f, f, K, A, n, names)
    PROVE  /\ RingInv(StoreNop(r, names), f, K, A)
           /\ NextOf(StoreNop(r, names)) = NextOf(r) /\ MaxOf(StoreNop(r, names)) = MaxOf(r)
           /\ WaitingIn(StoreNop(r, names)) = WaitingIn(r)
           /\ \A k \in Ring(r) : Place(r, k).in => Place(StoreNop(r, names), k) = Place(r, k)
           /\ \A k \in Ring(r) : Place(StoreNop(r, names), k).in => Place(r, k).in \/ k \in SystemOf(f)
<1> DEFINE s == StoreNop(r, names)
           x == Slot(0, TRUE, FALSE)
<1>1. RingOK(r) /\ SlotsOK(r, f, K, A) /\ KeptOK(r, K) /\ PassedOK(r, f, K, A)
  BY DEF RingInv
<1>2. names \subseteq Number
  BY DEF Came
<1>3. /\ RingOK(s) /\ NextOf(s) = NextOf(r) /\ MaxOf(s) = MaxOf(r)
      /\ \A k \in Ring(r) : Place(s, k) = IF k \in names /\ ~Place(r, k).in THEN x ELSE Place(r, k)
  BY <1>1, <1>2, StoreNopFacts
<1>4. Ring(s) = Ring(r)
  BY <1>3 DEF Ring
<1>5. x.in /\ x.skip
  BY DEF Slot
<1> HIDE DEF s, x
<1>6. ASSUME NEW k \in Ring(r), k \in names, ~Place(r, k).in
      PROVE  k \in SystemOf(f) /\ k <= A
  <2>1. k \in DOMAIN f /\ k <= A /\ (f[k] = "data" => k \in K)
    BY <1>6 DEF Came
  <2>2. NextOf(r) <= k
    BY <1>1, RingFacts DEF Ring
  <2>3. k \notin K
    BY <1>1, <1>6, <2>2 DEF KeptOK, Ring
  <2> QED
    BY <2>1, <2>3 DEF SystemOf
<1>7. SlotsOK(s, f, K, A)
  BY <1>1, <1>3, <1>4, <1>5, <1>6 DEF SlotsOK, SlotOK
<1>8. KeptOK(s, K)
  BY <1>1, <1>3, <1>5 DEF KeptOK, Ring
<1>9. PassedOK(s, f, K, A)
  BY <1>1, <1>3 DEF PassedOK
<1>10. RingInv(s, f, K, A)
  BY <1>3, <1>7, <1>8, <1>9 DEF RingInv
<1>11. WaitingIn(s) = WaitingIn(r)
  <2>1. /\ WaitingIn(r) = {k \in Ring(r) : Place(r, k).in /\ ~Place(r, k).skip}
        /\ WaitingIn(s) = {k \in Ring(s) : Place(s, k).in /\ ~Place(s, k).skip}
    BY <1>10, WaitingInRing
  <2> QED
    BY <1>3, <1>4, <1>5, <2>1
<1> QED
  BY <1>3, <1>6, <1>10, <1>11 DEF s

\* A message is stored.
LEMMA StoreStep ==
    ASSUME NEW f, NEW K, NEW A, RingInv(rb, f, K, A),
           NEW n, NEW names, Came(f, kind', K, A, n, names), CanStore(rb, SeqNo(n)),
           NEW early \in BOOLEAN, NEW s, s = StoreNop(Store(rb, n, early), names)
    PROVE  /\ RingInv(s, kind', K \union {n}, A)
           /\ NextOf(s) = NextOf(rb) /\ MaxOf(rb) <= MaxOf(s)
           /\ n \in Ring(rb) /\ n \notin WaitingIn(rb)
           /\ WaitingIn(s) = IF kind'[n] = "data" THEN WaitingIn(rb) \union {n} ELSE WaitingIn(rb)
<1> DEFINE r == Store(rb, n, early)
           x == Slot(n, kind'[n] # "data", early)
           L == K \union {n}
<1>1. RingOK(rb) /\ SlotsOK(rb, f, K, A) /\ KeptOK(rb, K) /\ PassedOK(rb, f, K, A) /\ A \in Int
  BY DEF RingInv
<1>2. n \in Number /\ n \in DOMAIN kind'
  BY DEF Came
<1>3. /\ RingOK(r) /\ NextOf(r) = NextOf(rb) /\ n \in Ring(rb) /\ ~Place(rb, n).in
      /\ MaxOf(r) = IF kind'[n] = "data" /\ MaxOf(rb) < n THEN n ELSE MaxOf(rb)
      /\ \A k \in Ring(rb) : Place(r, k) = IF k = n THEN x ELSE Place(rb, k)
  BY <1>1, <1>2, StoreFacts
<1>4. x.in /\ (x.skip <=> kind'[n] # "data") /\ x.n = n
  BY DEF Slot
<1> HIDE DEF r, x
<1>5. RingInv(rb, kind', K, A)
  <2>1. A <= A
    BY <1>1
  <2> QED
    BY <1>1, <2>1, Onward DEF Came
<1>6. Ring(r) = Ring(rb) /\ NextOf(rb) \in Nat
  BY <1>1, <1>3, RingFacts DEF Ring
<1>7. SlotOK(x, n, kind', L, A)
  BY <1>2, <1>4 DEF SlotOK, SystemOf, DataOf
<1>8. SlotsOK(r, kind', L, A)
  <2>1. ASSUME NEW k \in Ring(r), Place(r, k).in
        PROVE  SlotOK(Place(r, k), k, kind', L, A)
    <3>1. CASE k = n
      BY <1>3, <1>6, <1>7, <2>1, <3>1
    <3>2. CASE k # n
      BY <1>3, <1>5, <1>6, <2>1, <3>2 DEF RingInv, SlotsOK, SlotOK
    <3> QED
      BY <3>1, <3>2
  <2> QED
    BY <2>1 DEF SlotsOK
<1>9. KeptOK(r, L)
  BY <1>1, <1>3, <1>4, <1>6 DEF KeptOK
<1>10. PassedOK(r, kind', L, A)
  BY <1>3, <1>5 DEF RingInv, PassedOK, KnownOf
<1>11. RingInv(r, kind', L, A)
  BY <1>2, <1>3, <1>8, <1>9, <1>10, <1>5 DEF RingInv
<1>12. Came(kind', kind', L, A, n, names)
  BY DEF Came
<1>13. WaitingIn(r) = IF kind'[n] = "data" THEN WaitingIn(rb) \union {n} ELSE WaitingIn(rb)
  <2>1. WaitingIn(r) = {k \in Ring(r) : Place(r, k).in /\ ~Place(r, k).skip}
    BY <1>11, WaitingInRing
  <2>2. WaitingIn(rb) = {k \in Ring(rb) : Place(rb, k).in /\ ~Place(rb, k).skip}
    BY WaitingInRing
  <2> QED
    BY <1>3, <1>4, <1>6, <2>1, <2>2
<1>14. n \notin WaitingIn(rb)
  BY <1>3, WaitingInRing
<1>15. MaxOf(rb) <= MaxOf(r)
  BY <1>1, <1>2, <1>3, RingFacts, NumberFacts
<1>16. /\ RingInv(s, kind', L, A) /\ NextOf(s) = NextOf(r) /\ MaxOf(s) = MaxOf(r)
       /\ WaitingIn(s) = WaitingIn(r)
  BY <1>11, <1>12, NopStep DEF r
<1> QED
  BY <1>3, <1>13, <1>14, <1>15, <1>16 DEF r

\* The next message into an empty ring passes through it.
LEMMA DirectStep ==
    ASSUME NEW f, NEW K, NEW A, RingInv(rb, f, K, A),
           NEW n \in Number, n = NextOf(rb), n \in DOMAIN f, ~Place(rb, n).in, Waiting(rb) = 0,
           NEW r, r = [rb EXCEPT !.max = Plus(@, 1), !.start = Plus(@, 1), !.idx = IndexAfter(rb, 1)]
    PROVE  /\ RingInv(r, f, K \union {n}, A)
           /\ NextOf(r) = n + 1 /\ MaxOf(r) = n
           /\ WaitingIn(r) = WaitingIn(rb) /\ \A k \in WaitingIn(rb) : k > n
<1>1. /\ RingOK(rb) /\ SlotsOK(rb, f, K, A) /\ KeptOK(rb, K) /\ PassedOK(rb, f, K, A)
      /\ A \in Int /\ K \subseteq Number
  BY DEF RingInv
<1>2. /\ MaxOf(rb) = n - 1 /\ n \in 1 .. MaxSeq
      /\ Size \in Nat /\ Size > 0 /\ 1 \in 0 .. Size /\ 0 \in 0 .. Size - 1
  <2>1. n \in 1 .. MaxSeq /\ Size \in Nat /\ Size > 0
    BY Sizes DEF Number
  <2>2. Waiting(rb) = MaxOf(rb) - n + 1 /\ MaxOf(rb) \in 0 .. MaxSeq
    BY <1>1, WaitingFacts, RingFacts
  <2> QED
    BY <2>1, <2>2, Sizes
<1>3. /\ rb \in RingType /\ rb.slot \in [0 .. Size - 1 -> SlotType] /\ rb.idx \in 0 .. Size - 1
      /\ rb.start = SeqNo(n) /\ rb.max = SeqNo(n - 1)
  BY <1>1, <1>2, RingFacts DEF RingOK
<1>4. n + 1 \in Span /\ n \in Span /\ n - 1 \in Span
  BY <1>2, InSpan, Sizes
<1>5. Plus(rb.start, 1) = SeqNo(n + 1)
  BY <1>3, <1>4, Shifted
<1>6. Plus(rb.max, 1) = SeqNo(n)
  <2>1. n - 1 + 1 = n /\ n \in Int
    BY <1>2
  <2> QED
    BY <1>3, <1>4, <2>1, Shifted
<1>7. /\ SeqNo(n + 1) \in 0 .. SeqRange - 1 /\ Num(SeqNo(n + 1)) = n + 1
      /\ SeqNo(n) \in 0 .. SeqRange - 1 /\ Num(SeqNo(n)) = n
  BY <1>4, NumOfSeqNo
<1>8. IndexAfter(rb, 1) = Wrap(rb.idx + 1, Size) /\ IndexAfter(rb, 1) \in 0 .. Size - 1
  BY <1>2, <1>3, WrapAfter DEF IndexAfter
<1>9. /\ r \in RingType /\ r.start = SeqNo(n + 1) /\ r.max = SeqNo(n)
      /\ r.idx = IndexAfter(rb, 1) /\ r.slot = rb.slot
  BY <1>3, <1>5, <1>6, <1>7, <1>8 DEF RingType
<1>10. NextOf(r) = n + 1 /\ MaxOf(r) = n
  BY <1>7, <1>9 DEF NextOf, MaxOf
<1>11. RingOK(r)
  <2>1. n + 1 \in 1 .. MaxSeq + 1 /\ n \in n + 1 - 1 .. n + 1 + Size - 1 /\ n <= MaxSeq
    BY <1>2, Sizes
  <2> QED
    BY <1>9, <1>10, <2>1 DEF RingOK
<1>12. Ring(r) = n + 1 .. n + Size /\ Ring(rb) = n .. n + Size - 1
  <2>1. n + 1 + Size - 1 = n + Size
    BY <1>2
  <2> QED
    BY <1>10, <2>1 DEF Ring
<1>13. ASSUME NEW k \in Ring(r), k \in Ring(rb)
       PROVE  Place(r, k) = Place(rb, k)
  <2> DEFINE e == k - n
  <2>1. e \in 0 .. Size - 1 /\ e >= 1 /\ k - (n + 1) = e - 1
    BY <1>2, <1>12, <1>13
  <2>2. /\ IdxOf(r, k) = Wrap(Wrap(rb.idx + 1, Size) + (e - 1), Size)
        /\ IdxOf(rb, k) = Wrap(rb.idx + e, Size)
    BY <1>8, <1>9, <1>10, <2>1 DEF IdxOf
  <2> HIDE DEF e
  <2>3. IdxOf(r, k) = IdxOf(rb, k)
    <3>1. /\ rb.idx \in 0 .. Size - 1 /\ 1 \in 0 .. Size /\ e \in 0 .. Size - 1 /\ e >= 1
          /\ Size \in Nat /\ Size > 0
      BY <1>2, <1>3, <2>1
    <3> QED
      BY <2>2, <3>1, WrapAfter
  <2> QED
    BY <1>9, <2>3 DEF Place
<1>14. ASSUME NEW k \in Ring(r), k \notin Ring(rb)
       PROVE  Place(r, k) = Place(rb, n)
  <2>1. k = n + Size /\ k - (n + 1) = 0 + Size - 1 /\ n - n = 0
    BY <1>2, <1>12, <1>14
  <2>2. /\ IdxOf(r, k) = Wrap(Wrap(rb.idx + 1, Size) + (0 + Size - 1), Size)
        /\ IdxOf(rb, n) = Wrap(rb.idx + 0, Size)
    BY <1>8, <1>9, <1>10, <2>1 DEF IdxOf
  <2>3. IdxOf(r, k) = IdxOf(rb, n)
    <3>1. /\ rb.idx \in 0 .. Size - 1 /\ 1 \in 0 .. Size /\ 0 \in 0 .. Size - 1
          /\ Size \in Nat /\ Size > 0 /\ 0 < 1
      BY <1>2, <1>3
    <3> QED
      BY <2>2, <3>1, WrapAfter
  <2> QED
    BY <1>9, <2>3 DEF Place
<1>15. SlotsOK(r, f, K \union {n}, A)
  BY <1>1, <1>13, <1>14 DEF SlotsOK, SlotOK
<1>16. KeptOK(r, K \union {n})
  <2>1. \A k \in K : k \in Nat
    BY <1>1, NumberFacts
  <2>2. ASSUME NEW k \in K, k >= n + 1
        PROVE  k \in Ring(r) /\ Place(r, k).in
    <3>1. k \in Ring(rb) /\ Place(rb, k).in
      BY <1>1, <1>2, <2>1, <2>2 DEF KeptOK
    <3>2. k \in Ring(r)
      BY <1>2, <1>12, <2>1, <2>2, <3>1
    <3> QED
      BY <1>13, <3>1, <3>2
  <2>3. ~(n >= n + 1)
    BY <1>2
  <2> QED
    BY <1>10, <2>2, <2>3 DEF KeptOK
<1>17. PassedOK(r, f, K \union {n}, A)
  <2>1. SUFFICES ASSUME flags.reliable, NEW k \in 1 .. n
                 PROVE  k \in KnownOf(f, K \union {n}) /\ (k \in K \union {n} \/ k <= A)
    <3>1. NextOf(r) - 1 = n
      BY <1>2, <1>10
    <3>2. 1 .. NextOf(r) - 1 = 1 .. n
      BY <3>1
    <3> QED
      BY <3>2, Zenon DEF PassedOK
  <2>2. CASE k = n
    BY <2>2 DEF KnownOf
  <2>3. CASE k # n
    <3>1. k \in 1 .. NextOf(rb) - 1
      BY <1>2, <2>1, <2>3
    <3> QED
      BY <1>1, <2>1, <3>1 DEF PassedOK, KnownOf
  <2> QED
    BY <2>2, <2>3
<1>18. RingInv(r, f, K \union {n}, A)
  BY <1>1, <1>11, <1>15, <1>16, <1>17 DEF RingInv
<1>19. WaitingIn(r) = WaitingIn(rb) /\ \A k \in WaitingIn(rb) : k > n
  <2>1. DOMAIN r.slot = DOMAIN rb.slot /\ WaitingIn(r) = WaitingIn(rb)
    BY <1>9 DEF WaitingIn
  <2>2. \A k \in WaitingIn(rb) : k \in Ring(rb) /\ k # n
    BY WaitingInRing
  <2> QED
    BY <1>2, <1>12, <2>1, <2>2
<1> QED
  BY <1>10, <1>18, <1>19
-----------------------------------------------------------------------------
(* Acknowledgements *)

AckOK(a) == a.seq \in 0 .. SeqRange - 1 /\ a.gaps \subseteq 0 .. Width - 1 /\ Num(a.seq) \in 0 .. MaxSeq

\* Of what a reliable buffer acknowledges, up to A, the map has a clear bit for each that did not come.
AckKnown(r, f, K, A, gaps) ==
    flags.reliable => \A k \in 1 .. A : k \in KnownOf(f, K) \/ (A - k \in gaps /\ k <= MaxOf(r))

\* ack_shift
LEMMA ShiftFacts ==
    ASSUME NEW r, RingOK(r), NEW a, AckOK(a)
    PROVE  LET A == Num(a.seq)
               b == Shift(r, a)
               B == Num(b.seq)
           IN  /\ AckOK(b) /\ A <= B /\ (B <= A \/ B <= MaxOf(r))
               /\ ~flags.reliable => B = A \/ B = MaxOf(r)
               /\ ~flags.reliable => MaxOf(r) <= B
               /\ flags.reliable =>
                     /\ \A k \in 1 .. A : A - k \in a.gaps => B - k \in b.gaps
                     /\ \A k \in A + 1 .. B : k \in Ring(r) /\ ~Place(r, k).in => B - k \in b.gaps
<1> DEFINE A == Num(a.seq)
           M == MaxOf(r)
           ahead == IF LT(a.seq, r.max) THEN Minus(r.max, a.seq) ELSE 0
           holes == {i \in 1 .. ahead : ~InRing(r, Plus(a.seq, i))}
           open  == {-o : o \in a.gaps} \union holes
           edge  == IF flags.reliable /\ open # {} THEN Min(open) + Width - 1 ELSE ahead + 1
           k     == Min({ahead, edge})
           b     == Shift(r, a)
<1>1. /\ a.seq \in 0 .. SeqRange - 1 /\ a.gaps \subseteq 0 .. Width - 1 /\ A \in 0 .. MaxSeq
      /\ a.seq = SeqNo(A) /\ r.max = SeqNo(M) /\ M \in 0 .. MaxSeq /\ MaxSeq \in Nat
      /\ Width \in Nat /\ Width > 0
  BY SeqNoOfNum, RingFacts, Sizes DEF AckOK
<1>2. A \in Span /\ M \in Span
  BY <1>1, InSpan, Sizes
<1>3. ahead = IF A < M THEN M - A ELSE 0
  <2>1. LT(a.seq, r.max) <=> A < M
    BY <1>1, <1>2, Compare, Sizes
  <2>2. A < M => Minus(r.max, a.seq) = M - A
    BY <1>1, <1>2, Distance
  <2> QED
    BY <2>1, <2>2
<1>4. /\ b.seq = Plus(a.seq, k)
      /\ b.gaps = {k - o : o \in {p \in open : p <= k /\ k - p < Width}}
  BY DEF Shift
<1> HIDE DEF A, M, b, ahead
<1>5. ahead \in Nat
  BY <1>1, <1>3
<1>6. \A x \in open : x \in Int /\ 1 - Width <= x
  <2>1. \A x \in holes : x \in Int /\ 1 - Width <= x
    BY <1>1, <1>5
  <2>2. \A o \in a.gaps : -o \in Int /\ 1 - Width <= -o
    BY <1>1
  <2> HIDE DEF holes
  <2> QED
    BY <2>1, <2>2
<1>7. /\ edge \in Nat /\ (~flags.reliable => edge = ahead + 1)
      /\ flags.reliable => \A x \in open : edge <= x + Width - 1
  <2> HIDE DEF open
  <2>1. CASE flags.reliable /\ open # {}
    <3>1. open \subseteq Int /\ 1 - Width \in Int /\ \A x \in open : 1 - Width <= x
      BY <1>1, <1>6
    <3>2. Min(open) \in open /\ \A x \in open : Min(open) <= x
      BY <2>1, <3>1, MinFacts, Zenon
    <3> QED
      BY <1>1, <1>6, <2>1, <3>2
  <2>2. CASE ~(flags.reliable /\ open # {})
    BY <1>5, <2>2
  <2> QED
    BY <2>1, <2>2
<1> HIDE DEF edge
<1>8. /\ k = IF ahead <= edge THEN ahead ELSE edge
      /\ k \in 0 .. ahead /\ (~flags.reliable => k = ahead)
  <2>1. {ahead, edge} \subseteq Int /\ {ahead, edge} # {} /\ 0 \in Int /\ \A x \in {ahead, edge} : 0 <= x
    BY <1>5, <1>7
  <2>2. k \in {ahead, edge} /\ \A x \in {ahead, edge} : k <= x
    BY <2>1, MinFacts, Zenon
  <2> HIDE DEF k
  <2> QED
    BY <1>5, <1>7, <2>2
<1>9. k <= ahead /\ k <= edge /\ k \in Nat /\ k \in Int
  BY <1>5, <1>7, <1>8
<1> HIDE DEF k
<1>10. A + k \in 0 .. MaxSeq /\ A + k \in Span /\ (A + k <= A \/ A + k <= M) /\ A <= A + k
  <2>1. A + k \in 0 .. MaxSeq /\ (A + k <= A \/ A + k <= M) /\ A <= A + k
    BY <1>1, <1>3, <1>9
  <2> QED
    BY <2>1, InSpan, Sizes
<1>11. b.seq = SeqNo(A + k)
  BY <1>1, <1>2, <1>4, <1>9, <1>10, Shifted
<1>12. b.seq \in 0 .. SeqRange - 1 /\ Num(b.seq) = A + k
  BY <1>10, <1>11, NumOfSeqNo
<1>13. b.gaps \subseteq 0 .. Width - 1
  <2> HIDE DEF open
  <2>1. \A o \in open : o <= k /\ k - o < Width => k - o \in 0 .. Width - 1
    BY <1>1, <1>6, <1>9
  <2> QED
    BY <1>4, <2>1
<1>14. ~flags.reliable => (A + k = A \/ A + k = M) /\ M <= A + k
  <2>1. SUFFICES ASSUME k = ahead
                 PROVE  (A + k = A \/ A + k = M) /\ M <= A + k
    BY <1>8
  <2>2. A \in Int /\ M \in Int
    BY <1>1
  <2> QED
    BY <1>3, <2>1, <2>2
<1>15. ASSUME flags.reliable, NEW x \in open, x <= k
       PROVE  k - x \in b.gaps
  <2>1. x \in Int /\ edge <= x + Width - 1
    BY <1>6, <1>7, <1>15
  <2>2. k - x < Width
    BY <1>1, <1>7, <1>9, <2>1
  <2> QED
    BY <1>4, <1>15, <2>2
<1>16. ASSUME flags.reliable, NEW n \in 1 .. A, A - n \in a.gaps
       PROVE  A + k - n \in b.gaps
  <2>1. -(A - n) \in open /\ -(A - n) <= k /\ k - (-(A - n)) = A + k - n
    BY <1>1, <1>9, <1>16
  <2> QED
    BY <1>15, <1>16, <2>1
<1>17. ASSUME flags.reliable, NEW n \in A + 1 .. A + k, n \in Ring(r), ~Place(r, n).in
       PROVE  A + k - n \in b.gaps
  <2> DEFINE i == n - A
  <2>1. i \in 1 .. ahead /\ i <= k /\ A + i = n /\ k - i = A + k - n /\ i \in Int
    BY <1>1, <1>5, <1>9, <1>17
  <2>2. n \in 0 .. MaxSeq /\ n \in 1 .. MaxSeq + Size /\ n \in Span
    <3>1. n \in 1 .. MaxSeq
      BY <1>1, <1>9, <1>10
    <3> QED
      BY <3>1, InSpan, Sizes
  <2> HIDE DEF i
  <2>3. Plus(a.seq, i) = SeqNo(n)
    BY <1>1, <1>2, <2>1, <2>2, Shifted
  <2>4. ~InRing(r, Plus(a.seq, i))
    BY <1>17, <2>2, <2>3, FitsFacts DEF InRing
  <2>5. i \in open
    BY <2>1, <2>4
  <2> QED
    BY <1>15, <1>17, <2>1, <2>5
<1>18. AckOK(b) /\ Num(b.seq) = A + k
  BY <1>10, <1>12, <1>13 DEF AckOK
<1> DEFINE B == Num(b.seq)
<1>19. /\ AckOK(b) /\ A <= B /\ (B <= A \/ B <= M)
       /\ ~flags.reliable => B = A \/ B = M
       /\ ~flags.reliable => M <= B
  BY <1>10, <1>14, <1>18
<1>20. flags.reliable =>
          /\ \A n \in 1 .. A : A - n \in a.gaps => B - n \in b.gaps
          /\ \A n \in A + 1 .. B : n \in Ring(r) /\ ~Place(r, n).in => B - n \in b.gaps
  <2>1. B = A + k /\ A \in Int /\ k \in Int
    BY <1>1, <1>9, <1>18
  <2> HIDE DEF B
  <2>2. ASSUME flags.reliable
        PROVE  \A n \in 1 .. A : A - n \in a.gaps => B - n \in b.gaps
    <3>1. SUFFICES ASSUME NEW n \in 1 .. A, A - n \in a.gaps
                   PROVE  B - n \in b.gaps
      OBVIOUS
    <3>2. A + k - n \in b.gaps
      BY <1>16, <2>2, <3>1
    <3> QED
      BY <2>1, <3>2
  <2>3. ASSUME flags.reliable
        PROVE  \A n \in A + 1 .. B : n \in Ring(r) /\ ~Place(r, n).in => B - n \in b.gaps
    <3>1. SUFFICES ASSUME NEW n \in A + 1 .. B, n \in Ring(r), ~Place(r, n).in
                   PROVE  B - n \in b.gaps
      OBVIOUS
    <3>2. A + k - n \in b.gaps
      BY <1>17, <2>1, <2>3, <3>1
    <3> QED
      BY <2>1, <3>2
  <2> QED
    BY <2>2, <2>3
<1> QED
  BY <1>19, <1>20 DEF A, b, M

\* What the buffer acknowledges, as far as its ring is r
AckState(r, f, K, a) ==
    /\ AckOK(a)
    /\ ~flags.delay => Num(a.seq) <= MaxOf(r)
    /\ ~flags.delay /\ ~flags.reliable => Num(a.seq) = MaxOf(r)
    /\ AckKnown(r, f, K, Num(a.seq), a.gaps)

LEMMA ShiftStep ==
    ASSUME NEW r, NEW f, NEW K, NEW A, RingInv(r, f, K, A),
           NEW a, AckOK(a), AckKnown(r, f, K, Num(a.seq), a.gaps),
           ~flags.delay => Num(a.seq) <= MaxOf(r)
    PROVE  AckState(r, f, K, Shift(r, a)) /\ Num(a.seq) <= Num(Shift(r, a).seq)
<1> DEFINE b == Shift(r, a)
           S == Num(a.seq)
           B == Num(b.seq)
<1>1. RingOK(r) /\ SlotsOK(r, f, K, A) /\ PassedOK(r, f, K, A)
  BY DEF RingInv
<1>2. /\ AckOK(b) /\ S <= B /\ (B <= S \/ B <= MaxOf(r))
      /\ ~flags.reliable => MaxOf(r) <= B
      /\ flags.reliable =>
            /\ \A k \in 1 .. S : S - k \in a.gaps => B - k \in b.gaps
            /\ \A k \in S + 1 .. B : k \in Ring(r) /\ ~Place(r, k).in => B - k \in b.gaps
  BY <1>1, ShiftFacts
<1>3. /\ S \in Nat /\ B \in Nat /\ MaxOf(r) \in Nat /\ NextOf(r) \in Nat /\ Size \in Nat
      /\ MaxOf(r) <= NextOf(r) + Size - 1
  BY <1>1, <1>2, RingFacts, Sizes DEF AckOK
<1> HIDE DEF b, S, B
<1>4. AckKnown(r, f, K, B, b.gaps)
  <2>1. SUFFICES ASSUME flags.reliable, NEW k \in 1 .. B
                 PROVE  k \in KnownOf(f, K) \/ (B - k \in b.gaps /\ k <= MaxOf(r))
    BY DEF AckKnown
  <2>2. CASE k <= S
    <3>1. k \in 1 .. S
      BY <1>3, <2>1, <2>2
    <3>2. k \in KnownOf(f, K) \/ (S - k \in a.gaps /\ k <= MaxOf(r))
      BY <2>1, <3>1 DEF AckKnown, S
    <3> QED
      BY <1>2, <2>1, <3>1, <3>2
  <2>3. CASE k > S
    <3>1. k \in S + 1 .. B /\ k <= MaxOf(r)
      BY <1>2, <1>3, <2>1, <2>3
    <3>2. CASE k < NextOf(r)
      <4>1. k \in 1 .. NextOf(r) - 1
        BY <1>3, <2>1, <3>2
      <4> QED
        BY <1>1, <2>1, <4>1 DEF PassedOK
    <3>3. CASE k >= NextOf(r)
      <4>1. k \in Ring(r)
        BY <1>3, <2>1, <3>1, <3>3 DEF Ring
      <4>2. CASE Place(r, k).in
        BY <1>1, <4>1, <4>2 DEF SlotsOK, SlotOK, KnownOf
      <4>3. CASE ~Place(r, k).in
        BY <1>2, <2>1, <3>1, <4>1, <4>3
      <4> QED
        BY <4>2, <4>3
    <3> QED
      BY <1>3, <2>1, <3>2, <3>3
  <2> QED
    BY <1>3, <2>1, <2>2, <2>3
<1>5. ~flags.delay => B <= MaxOf(r) /\ (~flags.reliable => B = MaxOf(r))
  BY <1>2, <1>3 DEF S
<1> QED
  BY <1>2, <1>4, <1>5 DEF AckState, b, S, B

\* What a report says, when it leaves out the last h numbers
LEMMA Reported ==
    ASSUME NEW a, AckOK(a), NEW h \in 0 .. Width - 1,
           NEW x, x.seq = SeqNo(Num(a.seq) - h), x.gaps = {o - h : o \in {p \in a.gaps : p >= h}}
    PROVE  /\ \A n \in Claimed(x) : n \in 1 .. Num(a.seq) /\ Num(a.seq) - n \notin a.gaps
           /\ \A n \in Missing(x) : n \in Number /\ n <= Num(a.seq)
<1> DEFINE B == Num(a.seq)
<1>1. B \in 0 .. MaxSeq /\ MaxSeq \in Nat /\ Width \in Nat /\ a.gaps \subseteq 0 .. Width - 1
  BY Sizes DEF AckOK
<1> HIDE DEF B
<1>2. B - h \in Span
  BY <1>1, Sizes DEF Span
<1>3. ASSUME NEW n \in Number
      PROVE  /\ n \in Span /\ n \in 1 .. MaxSeq
             /\ LTE(SeqNo(n), x.seq) <=> n <= B - h
             /\ Minus(x.seq, SeqNo(n)) = IF B - h >= n THEN B - h - n ELSE B - h - n + SeqRange
  <2>1. n \in Span /\ n \in 1 .. MaxSeq
    BY NumberFacts DEF Number
  <2>2. 2 * (n - (B - h)) < SeqRange /\ 2 * (B - h - n) < SeqRange
    BY <1>1, <2>1, Sizes
  <2>3. x.seq = SeqNo(B - h)
    BY DEF B
  <2> QED
    BY <1>2, <2>1, <2>2, <2>3, Compare, Distance
<1>4. \A o : o \in x.gaps => o \in 0 .. Width - 1 /\ o + h \in a.gaps
  BY <1>1
<1>5. \A o \in a.gaps : o >= h => o - h \in x.gaps
  OBVIOUS
<1>6. ASSUME NEW n \in Missing(x)
      PROVE  n \in Number /\ n <= B
  <2>1. n \in Number /\ Minus(x.seq, SeqNo(n)) \in x.gaps
    BY DEF Missing
  <2>2. Minus(x.seq, SeqNo(n)) \in 0 .. Width - 1
    BY <1>4, <2>1
  <2>3. n \in 1 .. MaxSeq /\ B - h >= n
    BY <1>1, <1>3, <2>1, <2>2, Sizes
  <2> QED
    BY <1>1, <2>1, <2>3
<1>7. ASSUME NEW n \in Claimed(x)
      PROVE  n \in 1 .. B /\ B - n \notin a.gaps
  <2>1. n \in Number /\ LTE(SeqNo(n), x.seq) /\ Minus(x.seq, SeqNo(n)) \notin x.gaps
    BY DEF Claimed, Missing
  <2>2. n \in 1 .. MaxSeq /\ n <= B - h /\ Minus(x.seq, SeqNo(n)) = B - h - n
    BY <1>1, <1>3, <2>1
  <2>3. B - n >= h /\ B - n - h = B - h - n
    BY <1>1, <2>2
  <2>4. B - n \notin a.gaps
    BY <1>5, <2>1, <2>2, <2>3
  <2> QED
    BY <1>1, <2>2, <2>4
<1> QED
  BY <1>6, <1>7 DEF B

LEMMA HoleFacts ==
    ASSUME flags \in Flags
    PROVE  flags.hole \in Nat /\ flags.hole + 1 \in 0 .. Width - 1
BY RbufAssumption, HoleAssumption, Sizes

\* ack_send
LEMMA SendFacts ==
    ASSUME flags \in Flags, NEW r, NEW a, AckOK(a), NEW f, NEW K,
           AckKnown(r, f, K, Num(a.seq), a.gaps),
           NEW reports, reports \subseteq {Report(r, a), Raw(a)}, SendAcks(reports),
           claimed \subseteq KnownOf(f, K),
           \A x \in nacked : x[1] \in Number /\ x[1] <= Num(a.seq)
    PROVE  /\ claimed' \subseteq KnownOf(f, K)
           /\ \A x \in nacked' : x[1] \in Number /\ x[1] <= Num(a.seq)
<1> DEFINE B == Num(a.seq)
<1>1. /\ a.seq = SeqNo(B) /\ B \in 0 .. MaxSeq /\ a.gaps \subseteq 0 .. Width - 1 /\ Width \in Nat
      /\ MaxSeq \in Nat
  BY SeqNoOfNum, Sizes DEF AckOK
<1>2. ASSUME NEW x \in reports
      PROVE  /\ \A n \in Claimed(x) : n \in 1 .. B /\ B - n \notin a.gaps
             /\ \A n \in Missing(x) : n \in Number /\ n <= B
  <2> DEFINE h == flags.hole + 1
  <2>1. CASE x.seq = a.seq /\ x.gaps = a.gaps
    <3>1. 0 \in 0 .. Width - 1 /\ B - 0 = B
      BY <1>1, Sizes
    <3>2. x.gaps = {o - 0 : o \in {p \in a.gaps : p >= 0}}
      <4>1. \A o \in a.gaps : o >= 0 /\ o - 0 = o
        BY <1>1
      <4> QED
        BY <2>1, <4>1
    <3>3. x.seq = SeqNo(B - 0)
      BY <1>1, <2>1, <3>1
    <3> QED
      BY <3>1, <3>2, <3>3, Reported
  <2>2. CASE x.seq = Lowered(a.seq, h) /\ x.gaps = {o - h : o \in {p \in a.gaps : p >= h}}
    <3>1. h \in 0 .. Width - 1 /\ -h \in Int /\ B + (-h) = B - h
      BY <1>1, HoleFacts
    <3>2. B \in Span /\ B + (-h) \in Span
      BY <1>1, <3>1, Sizes DEF Span
    <3>3. x.seq = SeqNo(B - h)
      BY <1>1, <2>2, <3>1, <3>2, Shifted DEF Lowered
    <3> HIDE DEF h
    <3> QED
      BY <2>2, <3>1, <3>3, Reported
  <2> QED
    BY <2>1, <2>2 DEF Report, Raw
<1>3. CASE ~flags.reliable
  BY <1>3 DEF SendAcks
<1>4. CASE flags.reliable
  <2>1. /\ claimed' = claimed \union UNION {Claimed(x) : x \in reports}
        /\ nacked' = nacked \union UNION {Missing(x) \X {win'.top} : x \in reports}
    BY <1>4 DEF SendAcks
  <2>2. \A n \in 1 .. B : B - n \notin a.gaps => n \in KnownOf(f, K)
    BY <1>4 DEF AckKnown
  <2>3. \A x \in reports : Claimed(x) \subseteq KnownOf(f, K)
    BY <1>2, <2>2
  <2>4. claimed' \subseteq KnownOf(f, K)
    BY <2>1, <2>3
  <2>5. ASSUME NEW y \in nacked'
        PROVE  y[1] \in Number /\ y[1] <= B
    <3>1. CASE y \in nacked
      BY <3>1
    <3>2. CASE \E x \in reports : y \in Missing(x) \X {win'.top}
      BY <1>2, <3>2
    <3> QED
      BY <2>1, <3>1, <3>2
  <2> QED
    BY <2>4, <2>5
<1> QED
  BY <1>3, <1>4
-----------------------------------------------------------------------------
(* The invariant *)

AckType == [seq : 0 .. SeqRange - 1, gaps : SUBSET (0 .. Width - 1), pkt : Int]

\* As long as no copy was taken for the next message
Sound ==
    /\ RingInv(rb, kind, kept, Num(ack.seq))
    /\ ack \in AckType /\ AckState(rb, kind, kept, ack)
    /\ claimed \subseteq KnownOf(kind, kept)
    /\ \A x \in nacked : x[1] \in Number /\ x[1] <= Num(ack.seq)

IInv ==
    /\ flags \in Flags /\ fails \in Nat /\ twice \in BOOLEAN
    /\ ~twice => Sound

\* What EcpRbufSpec lets a step do, in the terms of the ring
Hands(come) ==
    LET now == (WaitingIn(rb) \union come) \ SystemOf(kind') IN
    /\ \A n \in come : n >= NextOf(rb) /\ n \notin WaitingIn(rb)
    /\ NextOf(rb) <= NextOf(rb')
    /\ given' = given \union {n \in now : n < NextOf(rb')}
    /\ WaitingIn(rb') = {n \in now : n >= NextOf(rb')}
    /\ flags'.reliable /\ fails' = 0 => NextOf(rb) .. NextOf(rb') - 1 \subseteq now \union SystemOf(kind')

LEMMA HandsReceives ==
    ASSUME NEW come \in SUBSET Number, RingOK(rb), RingOK(rb)', WaitingIn(rb) \subseteq Number, Hands(come)
    PROVE  R!Receive(come)
<1> DEFINE now == (WaitingIn(rb) \union come) \ SystemOf(kind')
<1>1. NextOf(rb) \in Nat /\ NextOf(rb') \in Nat
  <2>1. NextOf(rb) \in 1 .. MaxSeq + 1
    BY DEF RingOK
  <2>2. NextOf(rb') \in 1 .. MaxSeq + 1
    BY DEF RingOK
  <2> QED
    BY <2>1, <2>2, Sizes
<1>2. \A n \in now : n \in Nat
  BY NumberFacts
<1>3. /\ \A n \in come : n >= NextOf(rb) /\ n \notin WaitingIn(rb)
      /\ NextOf(rb) <= NextOf(rb')
      /\ given' = given \union {n \in now : n < NextOf(rb')}
      /\ WaitingIn(rb') = {n \in now : n >= NextOf(rb')}
      /\ flags'.reliable /\ fails' = 0 => NextOf(rb) .. NextOf(rb') - 1 \subseteq now \union SystemOf(kind')
  BY DEF Hands
<1> DEFINE P == NextOf(rb) - 1
           Q == NextOf(rb') - 1
<1>4. /\ \A n \in come : n > P
      /\ Q >= P
      /\ {n \in now : n < NextOf(rb')} = {n \in now : n <= Q}
      /\ {n \in now : n >= NextOf(rb')} = {n \in now : n > Q}
      /\ NextOf(rb) .. NextOf(rb') - 1 = P + 1 .. Q
  <2> HIDE DEF now
  <2>1. \A n \in come : n \in Nat
    BY NumberFacts
  <2> QED
    BY <1>1, <1>2, <1>3, <2>1
<1>5. (flags'.reliable /\ fails' = 0) <=> (flags.reliable /\ fails = 0)'
  OBVIOUS
<1> HIDE DEF now
<1>6. /\ \A n \in come : n > P /\ n \notin WaitingIn(rb)
      /\ Q >= P
      /\ given' = given \union {n \in now : n <= Q}
      /\ WaitingIn(rb') = {n \in now : n > Q}
      /\ flags'.reliable /\ fails' = 0 => P + 1 .. Q \subseteq now \union SystemOf(kind')
  BY <1>3, <1>4
<1> QED
  BY <1>6 DEF R!Receive, WaitingIn, NextOf, SystemOf, Systemic, now
-----------------------------------------------------------------------------
(* The steps *)

LEMMA ComesFacts ==
    ASSUME NEW n \in Number, NEW names, Comes(n, names)
    PROVE  /\ DOMAIN kind \subseteq DOMAIN kind' /\ n \in DOMAIN kind'
           /\ \A k \in DOMAIN kind : kind'[k] = kind[k]
           /\ \A m \in names : m \in DOMAIN kind' /\ (kind'[m] = "data" => m \in kept)
<1>1. PICK k \in Kind :
         /\ n \in DOMAIN kind => k = kind[n]
         /\ (k = "nop") = (names # {})
         /\ \A m \in names : m \in DOMAIN kind /\ kind[m] = "data" => m \in kept
         /\ kind' = [m \in DOMAIN kind \union {n} \union names |->
                        IF m \in DOMAIN kind THEN kind[m] ELSE IF m = n THEN k ELSE "flush"]
  BY DEF Comes
<1>2. \A m \in names : m \in DOMAIN kind' /\ (kind'[m] = "data" => m \in kept)
  BY <1>1
<1> QED
  BY <1>1, <1>2

LEMMA ComesCame ==
    ASSUME Sound, NEW n \in Number, NEW names \in SUBSET Nacked(n), Comes(n, names)
    PROVE  Came(kind, kind', kept, Num(ack.seq), n, names)
<1>1. \A m \in names : m \in Number /\ m <= Num(ack.seq)
  BY DEF Sound, Nacked
<1> QED
  BY <1>1, ComesFacts DEF Came

\* The next message in turn: all before it are known.
LEMMA InTurnFacts ==
    ASSUME Sound, NEW n \in Number, InTurn(n)
    PROVE  /\ n = Num(ack.seq) + 1 /\ Plus(ack.seq, 1) = SeqNo(n) /\ Num(SeqNo(n)) = n
           /\ SeqNo(n) \in 0 .. SeqRange - 1
           /\ flags.reliable => \A k \in 1 .. n - 1 : k \in KnownOf(kind, kept)
<1> DEFINE A == Num(ack.seq)
<1>1. /\ RingOK(rb) /\ PassedOK(rb, kind, kept, A) /\ AckOK(ack) /\ AckKnown(rb, kind, kept, A, ack.gaps)
  BY DEF Sound, RingInv, AckState
<1>2. /\ ack.seq = SeqNo(A) /\ A \in 0 .. MaxSeq /\ MaxSeq \in Nat /\ n \in Span /\ n \in 1 .. MaxSeq
      /\ Num(SeqNo(n)) = n /\ SeqNo(n) \in 0 .. SeqRange - 1
  BY <1>1, SeqNoOfNum, NumberFacts, NumOfSeqNo, Sizes DEF AckOK, Number
<1> HIDE DEF A
<1>3. A \in Span /\ A + 1 \in Span
  <2>1. A \in 0 .. MaxSeq + 1 + Size /\ A + 1 \in 0 .. MaxSeq + 1 + Size
    BY <1>2, Sizes
  <2> QED
    BY <2>1, InSpan
<1>4. Plus(ack.seq, 1) = SeqNo(A + 1) /\ Num(SeqNo(A + 1)) = A + 1
  BY <1>2, <1>3, Shifted, NumOfSeqNo
<1>5. Waiting(rb) = 0 /\ SeqNo(n) = Plus(ack.seq, 1)
  BY DEF InTurn
<1>6. n = A + 1
  BY <1>2, <1>4, <1>5
<1>7. MaxOf(rb) = NextOf(rb) - 1 /\ NextOf(rb) \in Nat
  <2>1. Waiting(rb) = MaxOf(rb) - NextOf(rb) + 1 /\ NextOf(rb) \in Nat /\ MaxOf(rb) \in Nat
    BY <1>1, WaitingFacts, RingFacts, Sizes
  <2> QED
    BY <1>5, <2>1
<1>8. ASSUME flags.reliable, NEW k \in 1 .. n - 1
      PROVE  k \in KnownOf(kind, kept)
  <2>1. k \in 1 .. A
    BY <1>2, <1>6, <1>8
  <2>2. k \in KnownOf(kind, kept) \/ k <= MaxOf(rb)
    BY <1>1, <1>8, <2>1 DEF AckKnown
  <2>3. CASE k <= MaxOf(rb)
    <3>1. k \in 1 .. NextOf(rb) - 1
      BY <1>7, <1>8, <2>3
    <3> QED
      BY <1>1, <1>8, <3>1 DEF PassedOK
  <2> QED
    BY <2>2, <2>3
<1> QED
  BY <1>2, <1>5, <1>6, <1>8 DEF A

LEMMA LateFacts ==
    ASSUME Sound, NEW n \in Number
    PROVE  /\ Late(n) <=> n <= Num(ack.seq)
           /\ n <= Num(ack.seq) => Minus(ack.seq, SeqNo(n)) = Num(ack.seq) - n
<1> DEFINE A == Num(ack.seq)
<1>1. /\ ack.seq = SeqNo(A) /\ A \in 0 .. MaxSeq /\ MaxSeq \in Nat /\ n \in Span /\ n \in 1 .. MaxSeq
  BY SeqNoOfNum, NumberFacts, Sizes DEF Sound, AckState, AckOK, Number
<1> HIDE DEF A
<1>2. A \in Span
  BY <1>1, InSpan, Sizes
<1>3. 2 * (n - A) < SeqRange /\ 2 * (A - n) < SeqRange
  BY <1>1, Sizes
<1> QED
  BY <1>1, <1>2, <1>3, Compare, Distance DEF Late, A

LEMMA AcknowledgeFacts ==
    ASSUME flags \in Flags, Sound, NEW n \in Number, NEW r, NEW a, NEW f,
           AckState(r, f, kept', a), KnownOf(kind, kept) \subseteq KnownOf(f, kept'),
           Num(ack.seq) <= Num(a.seq), Acknowledge(n, a, r)
    PROVE  /\ ack' \in AckType /\ ack'.seq = a.seq /\ ack'.gaps = a.gaps
           /\ AckState(r, f, kept', a)
           /\ claimed' \subseteq KnownOf(f, kept')
           /\ \A x \in nacked' : x[1] \in Number /\ x[1] <= Num(a.seq)
           /\ fails' = fails \/ (fails < MaxFail /\ fails' = fails + 1)
<1>1. /\ AckOK(a) /\ AckKnown(r, f, kept', Num(a.seq), a.gaps) /\ AckOK(ack) /\ ack.pkt \in Int
      /\ RingOK(rb)
  BY DEF AckState, Sound, AckType, RingInv
<1>2. a.seq \in 0 .. SeqRange - 1 /\ a.gaps \in SUBSET (0 .. Width - 1)
  BY <1>1 DEF AckOK
<1>3. Counted(n) \in Int
  <2>1. rb.max \in Int /\ SeqNo(n) \in Int
    BY <1>1, RingFacts, NumberFacts, NumOfSeqNo
  <2> QED
    BY <1>1, <2>1, Sizes DEF Counted, Minus, Wrap
<1>4. claimed \subseteq KnownOf(f, kept')
  BY DEF Sound
<1>5. \A x \in nacked : x[1] \in Number /\ x[1] <= Num(a.seq)
  <2>1. \A m \in Number : m <= Num(ack.seq) => m <= Num(a.seq)
    BY <1>1, NumberFacts DEF AckOK
  <2> QED
    BY <2>1 DEF Sound
<1> DEFINE do   == a.do \/ (LT(rb.max, SeqNo(n)) /\ Counted(n) > AckRate)
           asks == kind'[n] = "flush"
           all  == (IF do THEN {Report(r, a)} ELSE {}) \union (IF asks THEN {Raw(a)} ELSE {})
<1>6. \/ /\ SendAcks(all)
         /\ ack' = [seq |-> a.seq, gaps |-> a.gaps, pkt |-> IF do \/ asks THEN 0 ELSE Counted(n)]
         /\ fails' = fails
      \/ /\ SendAcks({})
         /\ ack' = [seq |-> a.seq, gaps |-> a.gaps, pkt |-> Counted(n)]
         /\ fails < MaxFail /\ fails' = fails + 1
  BY DEF Acknowledge
<1>7. all \subseteq {Report(r, a), Raw(a)} /\ {} \subseteq {Report(r, a), Raw(a)}
  OBVIOUS
<1> HIDE DEF all, do, asks
<1>8. \E reports \in SUBSET {Report(r, a), Raw(a)} : SendAcks(reports)
  BY <1>6, <1>7
<1>9. /\ claimed' \subseteq KnownOf(f, kept')
      /\ \A x \in nacked' : x[1] \in Number /\ x[1] <= Num(a.seq)
  BY <1>1, <1>4, <1>5, <1>8, SendFacts
<1>10. ack' \in AckType /\ ack'.seq = a.seq /\ ack'.gaps = a.gaps
  BY <1>2, <1>3, <1>6 DEF AckType
<1> QED
  BY <1>6, <1>9, <1>10

\* A message is acknowledged that takes a slot.
LEMMA AckAfterKept ==
    ASSUME Sound, NEW n \in Number, ~Direct(n), Storable(n),
           NEW r, NEW f, RingInv(r, f, kept \union {n}, Num(ack.seq)), MaxOf(rb) <= MaxOf(r),
           KnownOf(kind, kept) \subseteq KnownOf(f, kept \union {n})
    PROVE  LET a == AckAfter(n, r) IN
           AckState(r, f, kept \union {n}, a) /\ Num(ack.seq) <= Num(a.seq)
<1> DEFINE A == Num(ack.seq)
           L == kept \union {n}
<1>1. /\ RingOK(rb) /\ RingOK(r) /\ AckOK(ack) /\ AckKnown(rb, kind, kept, A, ack.gaps) /\ ack \in AckType
      /\ ~flags.delay => A <= MaxOf(rb)
  BY DEF Sound, RingInv, AckState
<1>2. /\ n \in 1 .. MaxSeq /\ MaxSeq \in Nat /\ A \in 0 .. MaxSeq
      /\ MaxOf(rb) \in Nat /\ MaxOf(r) \in Nat /\ n \in KnownOf(f, L)
  BY <1>1, RingFacts, Sizes DEF Number, AckOK, KnownOf
<1>3. (Late(n) <=> n <= A) /\ (n <= A => Minus(ack.seq, SeqNo(n)) = A - n)
  BY LateFacts
<1> HIDE DEF A, L
<1>4. ~flags.delay => A <= MaxOf(r)
  BY <1>1, <1>2
<1>5. ASSUME flags.reliable, NEW k \in 1 .. A
      PROVE  k \in KnownOf(f, L) \/ (A - k \in ack.gaps /\ k <= MaxOf(r))
  <2>1. k \in KnownOf(kind, kept) \/ (A - k \in ack.gaps /\ k <= MaxOf(rb))
    BY <1>1, <1>5 DEF AckKnown
  <2>2. k \in Int /\ MaxOf(rb) \in Int /\ MaxOf(r) \in Int
    BY <1>2, <1>5
  <2>3. k <= MaxOf(rb) => k <= MaxOf(r)
    BY <2>2
  <2> QED
    BY <2>1, <2>3 DEF L
<1>6. CASE Late(n)
  <2> DEFINE a == [ack EXCEPT !.gaps = @ \ {Minus(ack.seq, SeqNo(n))}]
  <2>1. /\ a.seq = ack.seq /\ a.gaps = ack.gaps \ {A - n} /\ n <= A
        /\ AckAfter(n, r) = Shift(r, a)
    BY <1>1, <1>3, <1>6 DEF AckType, AckAfter
  <2> HIDE DEF a
  <2>2. AckOK(a) /\ Num(a.seq) = A
    BY <1>1, <2>1 DEF AckOK, A
  <2>3. AckKnown(r, f, L, A, a.gaps)
    <3>1. SUFFICES ASSUME flags.reliable, NEW k \in 1 .. A
                   PROVE  k \in KnownOf(f, L) \/ (A - k \in a.gaps /\ k <= MaxOf(r))
      BY DEF AckKnown
    <3>2. CASE k = n
      BY <1>2, <3>2
    <3>3. CASE k # n
      <4>1. A - k # A - n
        BY <1>2, <3>1, <3>3
      <4> QED
        BY <1>5, <2>1, <3>1, <4>1
    <3> QED
      BY <3>2, <3>3
  <2> QED
    BY <1>4, <2>1, <2>2, <2>3, ShiftStep DEF A, L
<1>7. CASE ~Late(n) /\ InTurn(n)
  <2>1. /\ n = A + 1 /\ Plus(ack.seq, 1) = SeqNo(n) /\ Num(SeqNo(n)) = n /\ SeqNo(n) \in 0 .. SeqRange - 1
        /\ flags.reliable => \A k \in 1 .. n - 1 : k \in KnownOf(kind, kept)
    BY <1>7, InTurnFacts DEF A
  <2>2. AckAfter(n, r).seq = SeqNo(n) /\ AckAfter(n, r).gaps = ack.gaps
    BY <1>7, <2>1 DEF AckAfter
  <2>3. AckOK(AckAfter(n, r))
    BY <1>1, <1>2, <2>1, <2>2 DEF AckOK
  <2>4. AckKnown(r, f, L, n, ack.gaps)
    <3>1. ASSUME flags.reliable, NEW k \in 1 .. n, k # n
          PROVE  k \in KnownOf(f, L)
      <4>1. k \in 1 .. n - 1
        BY <1>2, <3>1
      <4> QED
        BY <2>1, <3>1, <4>1 DEF L
    <3> QED
      BY <1>2, <3>1 DEF AckKnown
  <2>5. flags.delay /\ A <= n
    BY <1>2, <1>7, <2>1 DEF Direct
  <2> QED
    BY <2>1, <2>2, <2>3, <2>4, <2>5 DEF AckState, A, L
<1>8. CASE ~Late(n) /\ ~InTurn(n)
  <2>1. AckAfter(n, r) = Shift(r, ack)
    BY <1>8 DEF AckAfter
  <2>2. AckKnown(r, f, L, A, ack.gaps)
    BY <1>5 DEF AckKnown
  <2> QED
    BY <1>1, <1>4, <2>1, <2>2, ShiftStep DEF A, L
<1> QED
  BY <1>6, <1>7, <1>8 DEF A, L

LEMMA FlagsFacts == ASSUME flags \in Flags PROVE flags.delay \in BOOLEAN /\ flags.reliable \in BOOLEAN
BY RbufAssumption

\* How the ring after msg_flush, rb', compares to the one before, r
LEMMA FlushStep ==
    ASSUME NEW r, NEW f, NEW K, NEW A, RingInv(r, f, K, A), NEW pending, Flush(r, pending)
    PROVE  /\ RingInv(rb', f, K, A) /\ MaxOf(rb') = MaxOf(r) /\ NextOf(r) <= NextOf(rb')
           /\ given' = given \union {k \in WaitingIn(r) : k < NextOf(rb')}
           /\ WaitingIn(rb') = {k \in WaitingIn(r) : k >= NextOf(rb')}
           /\ flags.reliable => NextOf(r) .. NextOf(rb') - 1 \subseteq WaitingIn(r) \union SystemOf(f)
<1> DEFINE d == StopAt(r)
           s == Advance(r, d)
<1>1. /\ \/ rb' = s
         \/ rb' = [s EXCEPT !.slot[s.idx].timer = TRUE]
      /\ given' = given \union {x.n : x \in {y \in Passed(r) : y.in /\ ~y.skip}}
  BY DEF Flush
<1> HIDE DEF d, s
<1>2. /\ RingInv(s, f, K, A) /\ d \in Nat /\ NextOf(s) = NextOf(r) + d /\ MaxOf(s) = MaxOf(r)
      /\ {x.n : x \in {y \in Passed(r) : y.in /\ ~y.skip}} = HandedOver(r, d)
      /\ WaitingIn(s) = WaitingIn(r) \ HandedOver(r, d)
      /\ flags.reliable => \A k \in NextOf(r) .. NextOf(s) - 1 : k \in HandedOver(r, d) \union SystemOf(f)
  BY FlushFacts DEF s, d
<1>3. /\ RingInv(rb', f, K, A) /\ NextOf(rb') = NextOf(s) /\ MaxOf(rb') = MaxOf(s)
      /\ WaitingIn(rb') = WaitingIn(s)
  <2>1. CASE rb' = s
    BY <1>2, <2>1
  <2>2. CASE rb' = [s EXCEPT !.slot[s.idx].timer = TRUE]
    <3>1. s \in RingType /\ s.slot \in [0 .. Size - 1 -> SlotType] /\ s.idx \in 0 .. Size - 1
      BY <1>2, RingFacts DEF RingInv, RingOK
    <3>2. s.slot[s.idx] \in SlotType
      BY <3>1
    <3>3. /\ rb'.start = s.start /\ rb'.max = s.max /\ rb'.idx = s.idx
          /\ rb'.slot = [s.slot EXCEPT ![s.idx] = [@ EXCEPT !.timer = TRUE]]
      BY <2>2, <3>1 DEF RingType
    <3>4. [s.slot[s.idx] EXCEPT !.timer = TRUE] \in SlotType
      BY <3>2 DEF SlotType
    <3>5. rb' \in RingType
      <4>1. rb'.slot \in [0 .. Size - 1 -> SlotType]
        BY <3>1, <3>3, <3>4
      <4> QED
        BY <2>2, <3>1, <4>1 DEF RingType
    <3>6. \A i \in 0 .. Size - 1 : /\ rb'.slot[i].in = s.slot[i].in /\ rb'.slot[i].n = s.slot[i].n
                                   /\ rb'.slot[i].skip = s.slot[i].skip
      BY <3>1, <3>2, <3>3 DEF SlotType
    <3> QED
      BY <1>2, <3>3, <3>5, <3>6, Alike
  <2> QED
    BY <1>1, <2>1, <2>2
<1>4. NextOf(r) \in Nat /\ \A k \in WaitingIn(r) : k \in Int
  <2>1. WaitingIn(r) \subseteq Ring(r)
    BY WaitingInRing
  <2> QED
    BY <2>1, RingFacts DEF RingInv, Ring
<1> QED
  BY <1>1, <1>2, <1>3, <1>4 DEF HandedOver

LEMMA KeepStep ==
    ASSUME flags \in Flags, fails \in Nat, Sound,
           NEW n \in Number, NEW names \in SUBSET Nacked(n), NEW early \in BOOLEAN, Keep(n, names, early)
    PROVE  Sound' /\ Hands({n}) /\ fails' \in Nat /\ (fails' = 0 => fails = 0)
<1> DEFINE A == Num(ack.seq)
           L == kept \union {n}
           r == StoreNop(Store(rb, n, early), names)
           a == AckAfter(n, r)
<1>1. /\ Comes(n, names) /\ ~Direct(n) /\ Storable(n) /\ CanStore(rb, SeqNo(n))
      /\ Flush(r, items) /\ Acknowledge(n, a, r)
      /\ kept' = L /\ UNCHANGED <<flags, twice>>
  BY DEF Keep, Storable
<1>2. Came(kind, kind', kept, A, n, names)
  BY <1>1, ComesCame
<1>3. RingInv(rb, kind, kept, A) /\ A \in Int /\ AckOK(ack) /\ A <= A
  BY DEF Sound, RingInv, AckState, AckOK
<1> HIDE DEF a
<1>4. /\ RingInv(r, kind', L, A) /\ NextOf(r) = NextOf(rb) /\ MaxOf(rb) <= MaxOf(r)
      /\ n \in Ring(rb) /\ n \notin WaitingIn(rb)
      /\ WaitingIn(r) = IF kind'[n] = "data" THEN WaitingIn(rb) \union {n} ELSE WaitingIn(rb)
  <2>1. CanStore(rb, SeqNo(n))
    BY <1>1
  <2>2. RingInv(rb, kind, kept, A)
    BY <1>3
  <2>3. r = StoreNop(Store(rb, n, early), names)
    OBVIOUS
  <2> HIDE DEF A, r
  <2> QED
    BY <1>2, <2>1, <2>2, <2>3, StoreStep, ZenonT(60)
<1> HIDE DEF r
<1>5. KnownOf(kind, kept) \subseteq KnownOf(kind', L)
  BY <1>2 DEF Came, KnownOf, SystemOf
<1>6. AckState(r, kind', L, a) /\ A <= Num(a.seq)
  BY <1>1, <1>4, <1>5, AckAfterKept DEF a
<1>7. /\ ack' \in AckType /\ ack'.seq = a.seq /\ ack'.gaps = a.gaps
      /\ claimed' \subseteq KnownOf(kind', L)
      /\ \A x \in nacked' : x[1] \in Number /\ x[1] <= Num(a.seq)
      /\ fails' = fails \/ (fails < MaxFail /\ fails' = fails + 1)
  BY <1>1, <1>5, <1>6, AcknowledgeFacts
<1>8. /\ RingInv(rb', kind', L, A) /\ MaxOf(rb') = MaxOf(r) /\ NextOf(r) <= NextOf(rb')
      /\ given' = given \union {k \in WaitingIn(r) : k < NextOf(rb')}
      /\ WaitingIn(rb') = {k \in WaitingIn(r) : k >= NextOf(rb')}
      /\ flags.reliable => NextOf(r) .. NextOf(rb') - 1 \subseteq WaitingIn(r) \union SystemOf(kind')
  BY <1>1, <1>4, FlushStep
<1>9. Num(ack'.seq) = Num(a.seq) /\ Num(a.seq) \in Int
  BY <1>6, <1>7 DEF AckState, AckOK
<1>10. RingInv(rb', kind', kept', Num(ack'.seq))
  BY <1>1, <1>3, <1>6, <1>8, <1>9, Onward
<1>11. AckState(rb', kind', kept', ack')
  <2>1. AckOK(ack')
    BY <1>6, <1>7, <1>9 DEF AckState, AckOK
  <2>2. AckKnown(rb', kind', L, Num(ack'.seq), ack'.gaps)
    BY <1>1, <1>6, <1>7, <1>8, <1>9 DEF AckState, AckKnown
  <2> QED
    BY <1>1, <1>6, <1>8, <1>9, <2>1, <2>2 DEF AckState
<1>12. Sound'
  BY <1>1, <1>7, <1>9, <1>10, <1>11
    DEF Sound, RingInv, RingOK, RingType, SlotsOK, KeptOK, PassedOK, AckState, AckKnown, AckOK
<1>13. WaitingIn(r) = (WaitingIn(rb) \union {n}) \ SystemOf(kind')
  <2>1. WaitingIn(rb) \subseteq DataOf(kind)
    BY <1>3, WaitingInRing
  <2>2. \A k \in WaitingIn(rb) : k \notin SystemOf(kind')
    BY <1>2, <2>1 DEF Came, DataOf, SystemOf
  <2>3. n \in SystemOf(kind') <=> kind'[n] # "data"
    BY <1>2 DEF Came, SystemOf
  <2> QED
    BY <1>4, <2>2, <2>3
<1>14. n >= NextOf(rb)
  BY <1>3, <1>4, RingFacts DEF Ring, RingInv
<1>15. Hands({n})
  BY <1>1, <1>4, <1>8, <1>13, <1>14 DEF Hands
<1> QED
  BY <1>7, <1>12, <1>15

LEMMA DirectFacts ==
    ASSUME flags \in Flags, Sound, NEW n \in Number, Direct(n), n \notin kept
    PROVE  n = NextOf(rb) /\ ~Place(rb, n).in /\ Waiting(rb) = 0
<1> DEFINE A == Num(ack.seq)
<1>1. /\ RingOK(rb) /\ SlotsOK(rb, kind, kept, A) /\ PassedOK(rb, kind, kept, A)
      /\ ~flags.delay => A <= MaxOf(rb)
      /\ ~flags.delay /\ ~flags.reliable => A = MaxOf(rb)
  BY DEF Sound, RingInv, AckState
<1>2. InTurn(n) /\ ~flags.delay /\ Waiting(rb) = 0
  BY DEF Direct, InTurn
<1>3. n = A + 1
  BY <1>2, InTurnFacts
<1>4. MaxOf(rb) = NextOf(rb) - 1 /\ NextOf(rb) \in Nat /\ A \in Nat /\ n \in Nat /\ Size \in Nat /\ Size > 0
  <2>1. /\ Waiting(rb) = MaxOf(rb) - NextOf(rb) + 1 /\ NextOf(rb) \in Nat /\ MaxOf(rb) \in Nat
        /\ A \in Nat /\ n \in Nat /\ Size \in Nat /\ Size > 0
    BY <1>1, WaitingFacts, RingFacts, NumberFacts, Sizes DEF Sound, AckState, AckOK
  <2> QED
    BY <1>2, <2>1
<1> HIDE DEF A
<1>5. ~(n <= A) /\ n <= NextOf(rb)
  BY <1>1, <1>2, <1>3, <1>4
<1>6. n = NextOf(rb)
  <2>1. CASE flags.reliable
    <3>1. n < NextOf(rb) => n \in 1 .. NextOf(rb) - 1
      BY <1>3, <1>4
    <3> QED
      BY <1>1, <1>4, <1>5, <2>1, <3>1 DEF PassedOK
  <2>2. CASE ~flags.reliable
    BY <1>1, <1>2, <1>3, <1>4, <2>2
  <2> QED
    BY <2>1, <2>2
<1>7. ~Place(rb, n).in
  <2>1. n \in Ring(rb)
    BY <1>4, <1>6 DEF Ring
  <2> QED
    BY <1>1, <1>5, <2>1 DEF SlotsOK, SlotOK
<1> QED
  BY <1>2, <1>6, <1>7

LEMMA DeliverStep ==
    ASSUME flags \in Flags, fails \in Nat, Sound,
           NEW n \in Number, NEW names \in SUBSET Nacked(n), Deliver(n, names), ~twice'
    PROVE  Sound' /\ (Hands({n}) \/ Hands({})) /\ fails' \in Nat /\ (fails' = 0 => fails = 0)
<1> DEFINE A == Num(ack.seq)
           L == kept \union {n}
           r == [rb EXCEPT !.max = Plus(@, 1), !.start = Plus(@, 1), !.idx = IndexAfter(rb, 1)]
           a == AckAfter(n, r)
<1>1. /\ Comes(n, names) /\ Direct(n) /\ Acknowledge(n, a, r)
      /\ rb' = IF fails' = fails THEN StoreNop(r, names) ELSE r
      /\ given' = IF kind'[n] = "data" /\ fails' = fails THEN given \union {n} ELSE given
      /\ kept' = L /\ n \notin kept /\ UNCHANGED flags
  BY DEF Deliver
<1>2. Came(kind, kind', kept, A, n, names)
  BY <1>1, ComesCame
<1>3. RingInv(rb, kind, kept, A) /\ A \in Int /\ AckOK(ack) /\ ack \in AckType
  BY DEF Sound, RingInv, AckState, AckOK
<1> HIDE DEF a
<1>4. n = NextOf(rb) /\ ~Place(rb, n).in /\ Waiting(rb) = 0
  BY <1>1, DirectFacts
<1>5. RingInv(rb, kind', kept, A) /\ KnownOf(kind, kept) \subseteq KnownOf(kind', kept)
  BY <1>2, <1>3, Onward DEF Came
<1>6. n \in DOMAIN kind' /\ (n \in SystemOf(kind') <=> kind'[n] # "data")
  BY <1>2 DEF Came, SystemOf
<1>7. /\ RingInv(r, kind', L, A) /\ NextOf(r) = n + 1 /\ MaxOf(r) = n
      /\ WaitingIn(r) = WaitingIn(rb) /\ \A k \in WaitingIn(rb) : k > n
  <2> HIDE DEF A
  <2>1. r = [rb EXCEPT !.max = Plus(@, 1), !.start = Plus(@, 1), !.idx = IndexAfter(rb, 1)]
    OBVIOUS
  <2> HIDE DEF r
  <2> QED
    BY <1>4, <1>5, <1>6, <2>1, DirectStep
<1> HIDE DEF r
<1>8. KnownOf(kind, kept) \subseteq KnownOf(kind', L)
  BY <1>5 DEF KnownOf
<1>9. /\ n = A + 1 /\ Plus(ack.seq, 1) = SeqNo(n) /\ Num(SeqNo(n)) = n /\ SeqNo(n) \in 0 .. SeqRange - 1
      /\ flags.reliable => \A k \in 1 .. n - 1 : k \in KnownOf(kind, kept)
  BY <1>1, InTurnFacts DEF Direct
<1>10. n \in 1 .. MaxSeq /\ n \in Int /\ MaxSeq \in Nat
  BY Sizes DEF Number
<1>11. a.seq = SeqNo(n) /\ a.gaps = ack.gaps /\ Num(a.seq) = n
  BY <1>1, <1>9 DEF Direct, AckAfter, a
<1>12. AckState(r, kind', L, a) /\ A <= Num(a.seq)
  <2>1. AckOK(a)
    BY <1>3, <1>9, <1>10, <1>11 DEF AckOK
  <2>2. AckKnown(r, kind', L, n, ack.gaps)
    <3>1. ASSUME flags.reliable, NEW k \in 1 .. n, k # n
          PROVE  k \in KnownOf(kind', L)
      <4>1. k \in 1 .. n - 1
        BY <1>10, <3>1
      <4> QED
        BY <1>8, <1>9, <3>1, <4>1
    <3>2. n \in KnownOf(kind', L)
      BY DEF KnownOf
    <3> QED
      BY <3>1, <3>2 DEF AckKnown
  <2>3. A <= n /\ n <= n
    BY <1>3, <1>9, <1>10
  <2> QED
    BY <1>7, <1>11, <2>1, <2>2, <2>3 DEF AckState
<1>13. /\ ack' \in AckType /\ ack'.seq = a.seq /\ ack'.gaps = a.gaps
       /\ claimed' \subseteq KnownOf(kind', L)
       /\ \A x \in nacked' : x[1] \in Number /\ x[1] <= Num(a.seq)
       /\ fails' = fails \/ (fails < MaxFail /\ fails' = fails + 1)
  BY <1>1, <1>8, <1>12, AcknowledgeFacts
<1>14. RingInv(r, kind', L, n)
  BY <1>3, <1>7, <1>10, <1>11, <1>12, Onward
<1>15. Came(kind', kind', L, n, n, names)
  <2>1. \A m \in names : m <= n
    <3>1. \A m \in names : m \in Int /\ m <= A
      BY <1>2, NumberFacts DEF Came
    <3> QED
      BY <1>3, <1>9, <3>1
  <2> QED
    BY <1>2, <2>1 DEF Came
<1>16. /\ RingInv(rb', kind', L, n) /\ NextOf(rb') = n + 1 /\ MaxOf(rb') = n
       /\ WaitingIn(rb') = WaitingIn(rb)
  <2>1. /\ RingInv(StoreNop(r, names), kind', L, n)
        /\ NextOf(StoreNop(r, names)) = NextOf(r) /\ MaxOf(StoreNop(r, names)) = MaxOf(r)
        /\ WaitingIn(StoreNop(r, names)) = WaitingIn(r)
    BY <1>14, <1>15, NopStep
  <2> QED
    BY <1>1, <1>7, <1>14, <2>1
<1>17. AckState(rb', kind', L, ack')
  <2>1. AckOK(ack') /\ Num(ack'.seq) = Num(a.seq)
    BY <1>12, <1>13 DEF AckState, AckOK
  <2>2. AckKnown(rb', kind', L, Num(ack'.seq), ack'.gaps)
    BY <1>7, <1>12, <1>13, <1>16, <2>1 DEF AckState, AckKnown
  <2> QED
    BY <1>7, <1>12, <1>16, <2>1, <2>2, <1>1 DEF AckState
<1>18. Sound'
  BY <1>1, <1>11, <1>13, <1>16, <1>17
    DEF Sound, RingInv, RingOK, RingType, SlotsOK, KeptOK, PassedOK, AckState, AckKnown, AckOK
<1>19. \A k \in WaitingIn(rb) : k \notin SystemOf(kind') /\ k \in Int
  <2>1. WaitingIn(rb) \subseteq DataOf(kind) /\ WaitingIn(rb) \subseteq Number
    BY <1>3, WaitingInRing DEF RingInv
  <2> QED
    BY <1>2, <2>1, NumberFacts DEF Came, DataOf, SystemOf
<1>20. WaitingIn(rb) = {k \in WaitingIn(rb) : k >= n + 1} /\ {k \in WaitingIn(rb) : k < n + 1} = {}
  BY <1>7, <1>10, <1>19
<1>21. n \notin WaitingIn(rb) /\ n >= NextOf(rb) /\ NextOf(rb) <= NextOf(rb') /\ n < n + 1 /\ ~(n >= n + 1)
  BY <1>4, <1>7, <1>10, <1>16
<1>22. CASE kind'[n] = "data" /\ fails' # fails
  <2>1. (WaitingIn(rb) \union {}) \ SystemOf(kind') = WaitingIn(rb)
    BY <1>19
  <2>2. given' = given /\ fails' # 0
    BY <1>1, <1>13, <1>22
  <2> QED
    BY <1>13, <1>16, <1>18, <1>20, <1>21, <2>1, <2>2 DEF Hands
<1>23. CASE ~(kind'[n] = "data" /\ fails' # fails)
  <2>1. (WaitingIn(rb) \union {n}) \ SystemOf(kind') =
           IF kind'[n] = "data" THEN WaitingIn(rb) \union {n} ELSE WaitingIn(rb)
    BY <1>6, <1>19
  <2>2. given' = IF kind'[n] = "data" THEN given \union {n} ELSE given
    BY <1>1, <1>23
  <2>3. NextOf(rb) .. NextOf(rb') - 1 = {n}
    BY <1>4, <1>10, <1>16
  <2>4. Hands({n})
    <3>1. CASE kind'[n] = "data"
      <4>1. /\ {k \in WaitingIn(rb) \union {n} : k < n + 1} = {n}
            /\ {k \in WaitingIn(rb) \union {n} : k >= n + 1} = WaitingIn(rb)
        BY <1>20, <1>21
      <4> QED
        BY <1>16, <1>21, <2>1, <2>2, <2>3, <3>1, <4>1 DEF Hands
    <3>2. CASE kind'[n] # "data"
      BY <1>6, <1>16, <1>20, <1>21, <2>1, <2>2, <2>3, <3>2 DEF Hands
    <3> QED
      BY <3>1, <3>2
  <2> QED
    BY <1>13, <1>18, <2>4
<1> QED
  BY <1>22, <1>23

\* Nothing is handed over.
LEMMA Quiet ==
    ASSUME NEW K, NEW A, RingInv(rb, kind, K, A),
           \A k \in DOMAIN kind : k \in DOMAIN kind' /\ kind'[k] = kind[k],
           NextOf(rb') = NextOf(rb), WaitingIn(rb') = WaitingIn(rb), given' = given
    PROVE  Hands({})
<1>1. \A k \in WaitingIn(rb) : k \in DataOf(kind) /\ k \in Ring(rb)
  BY WaitingInRing
<1>2. (WaitingIn(rb) \union {}) \ SystemOf(kind') = WaitingIn(rb)
  BY <1>1 DEF DataOf, SystemOf
<1>3. NextOf(rb) \in Nat
  BY RingFacts DEF RingInv
<1>4. \A k \in WaitingIn(rb) : k >= NextOf(rb) /\ ~(k < NextOf(rb))
  BY <1>1, <1>3 DEF Ring
<1>5. NextOf(rb) .. NextOf(rb) - 1 = {} /\ NextOf(rb) <= NextOf(rb)
  BY <1>3
<1> QED
  BY <1>2, <1>4, <1>5 DEF Hands

LEMMA RefuseStep ==
    ASSUME Sound, NEW n \in Number, NEW names \in SUBSET Nacked(n), Refuse(n, names)
    PROVE  Sound' /\ Hands({})
<1>1. /\ Comes(n, names)
      /\ UNCHANGED <<flags, rb, ack, items, kept, given, claimed, nacked, fails, twice>>
  BY DEF Refuse
<1>2. /\ DOMAIN kind \subseteq DOMAIN kind' /\ \A k \in DOMAIN kind : kind'[k] = kind[k]
  BY <1>1, ComesFacts
<1>3. RingInv(rb, kind, kept, Num(ack.seq)) /\ Num(ack.seq) \in Int /\ Num(ack.seq) <= Num(ack.seq)
  BY DEF Sound, RingInv
<1>4. RingInv(rb, kind', kept, Num(ack.seq)) /\ KnownOf(kind, kept) \subseteq KnownOf(kind', kept)
  BY <1>2, <1>3, Onward
<1>5. AckState(rb, kind', kept, ack)
  BY <1>4 DEF Sound, AckState, AckKnown
<1>6. Sound'
  BY <1>1, <1>4, <1>5
    DEF Sound, RingInv, RingOK, RingType, SlotsOK, KeptOK, PassedOK, AckState, AckKnown, AckOK
<1>7. NextOf(rb') = NextOf(rb) /\ WaitingIn(rb') = WaitingIn(rb)
  BY <1>1
<1> QED
  BY <1>1, <1>2, <1>3, <1>6, <1>7, Quiet

LEMMA TimerStep ==
    ASSUME Sound, NEW n, TimerFires(n)
    PROVE  Sound' /\ Hands({})
<1> DEFINE A == Num(ack.seq)
<1>1. /\ Flush(rb, items \ {n})
      /\ UNCHANGED <<flags, kind, win, ack, kept, claimed, nacked, fails, twice>>
  BY DEF TimerFires
<1>2. RingInv(rb, kind, kept, A) /\ AckState(rb, kind, kept, ack)
  BY DEF Sound
<1>3. /\ RingInv(rb', kind, kept, A) /\ MaxOf(rb') = MaxOf(rb) /\ NextOf(rb) <= NextOf(rb')
      /\ given' = given \union {k \in WaitingIn(rb) : k < NextOf(rb')}
      /\ WaitingIn(rb') = {k \in WaitingIn(rb) : k >= NextOf(rb')}
      /\ flags.reliable => NextOf(rb) .. NextOf(rb') - 1 \subseteq WaitingIn(rb) \union SystemOf(kind)
  BY <1>1, <1>2, FlushStep
<1>4. AckState(rb', kind, kept, ack)
  BY <1>2, <1>3 DEF AckState, AckKnown
<1>5. Sound'
  BY <1>1, <1>3, <1>4
    DEF Sound, RingInv, RingOK, RingType, SlotsOK, KeptOK, PassedOK, AckState, AckKnown, AckOK
<1>6. (WaitingIn(rb) \union {}) \ SystemOf(kind') = WaitingIn(rb)
  <2>1. WaitingIn(rb) \subseteq DataOf(kind)
    BY <1>2, WaitingInRing
  <2> QED
    BY <1>1, <2>1 DEF DataOf, SystemOf
<1>7. Hands({})
  BY <1>1, <1>3, <1>6 DEF Hands
<1> QED
  BY <1>5, <1>7

LEMMA RipenStep ==
    ASSUME Sound, NEW i \in DOMAIN rb.slot, Ripen(i)
    PROVE  Sound' /\ Hands({})
<1> DEFINE A == Num(ack.seq)
<1>1. /\ rb' = [rb EXCEPT !.slot[i].early = FALSE]
      /\ UNCHANGED <<flags, kind, win, ack, items, kept, given, claimed, nacked, fails, twice>>
  BY DEF Ripen
<1>2. RingInv(rb, kind, kept, A) /\ AckState(rb, kind, kept, ack)
  BY DEF Sound
<1>3. rb \in RingType /\ rb.slot \in [0 .. Size - 1 -> SlotType] /\ i \in 0 .. Size - 1
  BY <1>2, RingFacts DEF RingInv, RingOK
<1>4. rb.slot[i] \in SlotType
  BY <1>3
<1>5. /\ rb'.start = rb.start /\ rb'.max = rb.max /\ rb'.idx = rb.idx
      /\ rb'.slot = [rb.slot EXCEPT ![i] = [@ EXCEPT !.early = FALSE]]
  BY <1>1, <1>3 DEF RingType
<1>6. [rb.slot[i] EXCEPT !.early = FALSE] \in SlotType
  BY <1>4 DEF SlotType
<1>7. rb' \in RingType
  <2>1. rb'.slot \in [0 .. Size - 1 -> SlotType]
    BY <1>3, <1>5, <1>6
  <2> QED
    BY <1>1, <1>3, <2>1 DEF RingType
<1>8. \A j \in 0 .. Size - 1 : /\ rb'.slot[j].in = rb.slot[j].in /\ rb'.slot[j].n = rb.slot[j].n
                               /\ rb'.slot[j].skip = rb.slot[j].skip
  BY <1>3, <1>4, <1>5 DEF SlotType
<1>9. /\ RingInv(rb', kind, kept, A) /\ NextOf(rb') = NextOf(rb) /\ MaxOf(rb') = MaxOf(rb)
      /\ WaitingIn(rb') = WaitingIn(rb)
  BY <1>2, <1>5, <1>7, <1>8, Alike
<1>10. AckState(rb', kind, kept, ack)
  BY <1>2, <1>9 DEF AckState, AckKnown
<1>11. Sound'
  BY <1>1, <1>9, <1>10
    DEF Sound, RingInv, RingOK, RingType, SlotsOK, KeptOK, PassedOK, AckState, AckKnown, AckOK
<1> QED
  BY <1>1, <1>2, <1>9, <1>11, Quiet

\* What holds of every step, even after a copy was taken
LEMMA AnyStep ==
    ASSUME IInv, [Next]_vars
    PROVE  /\ flags' = flags /\ (fails' = fails \/ fails' = fails + 1)
           /\ twice' \in BOOLEAN /\ (twice => twice')
           /\ \A k \in DOMAIN kind : k \in DOMAIN kind' /\ kind'[k] = kind[k]
<1>1. fails \in Nat /\ twice \in BOOLEAN
  BY DEF IInv
<1>2. ASSUME NEW n \in Number, NEW names, Comes(n, names)
      PROVE  \A k \in DOMAIN kind : k \in DOMAIN kind' /\ kind'[k] = kind[k]
  BY <1>2, ComesFacts
<1>3. Sent \subseteq Number
  BY DEF Sent
<1>4. ASSUME NEW n \in Sent, NEW names, Refuse(n, names)
      PROVE  /\ flags' = flags /\ fails' = fails /\ twice' = twice
             /\ \A k \in DOMAIN kind : k \in DOMAIN kind' /\ kind'[k] = kind[k]
  BY <1>2, <1>3, <1>4 DEF Refuse
<1>5. ASSUME NEW n \in Sent, NEW names, Deliver(n, names)
      PROVE  /\ flags' = flags /\ (fails' = fails \/ fails' = fails + 1)
             /\ twice' = (twice \/ n \in kept)
             /\ \A k \in DOMAIN kind : k \in DOMAIN kind' /\ kind'[k] = kind[k]
  BY <1>2, <1>3, <1>5 DEF Deliver, Acknowledge
<1>6. ASSUME NEW n \in Sent, NEW names, NEW early, Keep(n, names, early)
      PROVE  /\ flags' = flags /\ (fails' = fails \/ fails' = fails + 1) /\ twice' = twice
             /\ \A k \in DOMAIN kind : k \in DOMAIN kind' /\ kind'[k] = kind[k]
  BY <1>2, <1>3, <1>6 DEF Keep, Acknowledge
<1>7. ASSUME NEW n, TimerFires(n)
      PROVE  flags' = flags /\ fails' = fails /\ twice' = twice /\ kind' = kind
  BY <1>7 DEF TimerFires
<1>8. ASSUME NEW i, Ripen(i)
      PROVE  flags' = flags /\ fails' = fails /\ twice' = twice /\ kind' = kind
  BY <1>8 DEF Ripen
<1>9. CASE UNCHANGED vars
  BY <1>1, <1>9 DEF vars
<1>10. CASE Next
  BY <1>1, <1>4, <1>5, <1>6, <1>7, <1>8, <1>10 DEF Next
<1> QED
  BY <1>9, <1>10

LEMMA SoundStep ==
    ASSUME flags \in Flags, fails \in Nat, Sound, Next, ~twice'
    PROVE  Sound' /\ (Hands({}) \/ \E n \in Number : Hands({n}))
<1>1. Sent \subseteq Number /\ Timing \subseteq BOOLEAN
  BY FlagsFacts DEF Sent, Timing
<1>2. CASE \E n \in Sent : \E names \in SUBSET Nacked(n) : Refuse(n, names) \/ Deliver(n, names)
  BY <1>1, <1>2, RefuseStep, DeliverStep
<1>3. CASE \E n \in Sent, early \in Timing : \E names \in SUBSET Nacked(n) : Keep(n, names, early)
  BY <1>1, <1>3, KeepStep
<1>4. CASE \E n \in items : TimerFires(n)
  BY <1>4, TimerStep
<1>5. CASE \E i \in DOMAIN rb.slot : Ripen(i)
  BY <1>5, RipenStep
<1> QED
  BY <1>2, <1>3, <1>4, <1>5 DEF Next

LEMMA InitFacts == ASSUME Init PROVE IInv /\ R!Init
<1>1. /\ flags \in Flags /\ kind = [n \in {} |-> "data"]
      /\ rb = [start |-> SeqNo(1), max |-> SeqNo(0), idx |-> 0, slot |-> [i \in 0 .. Size - 1 |-> NoSlot]]
      /\ ack = [seq |-> SeqNo(0), gaps |-> {}, pkt |-> 0]
      /\ kept = {} /\ given = {} /\ claimed = {} /\ nacked = {} /\ fails = 0 /\ twice = FALSE
  BY DEF Init
<1>2. 0 \in Span /\ 1 \in Span /\ Size \in Nat /\ Size > 0 /\ MaxSeq \in Nat
  BY Sizes DEF Span
<1>3. /\ SeqNo(0) \in 0 .. SeqRange - 1 /\ Num(SeqNo(0)) = 0
      /\ SeqNo(1) \in 0 .. SeqRange - 1 /\ Num(SeqNo(1)) = 1
  BY <1>2, NumOfSeqNo
<1>4. NoSlot \in SlotType /\ ~NoSlot.in
  BY <1>2 DEF NoSlot, SlotType
<1>5. rb \in RingType /\ NextOf(rb) = 1 /\ MaxOf(rb) = 0
  BY <1>1, <1>2, <1>3, <1>4 DEF RingType, NextOf, MaxOf
<1>6. RingOK(rb)
  BY <1>2, <1>5 DEF RingOK
<1>7. \A k \in Ring(rb) : ~Place(rb, k).in
  BY <1>1, <1>4, <1>6, IdxFacts DEF Place
<1>8. RingInv(rb, kind, kept, Num(ack.seq))
  <2>1. SlotsOK(rb, kind, kept, 0) /\ KeptOK(rb, kept) /\ PassedOK(rb, kind, kept, 0)
    <3>1. SlotsOK(rb, kind, kept, 0)
      BY <1>7 DEF SlotsOK
    <3>2. KeptOK(rb, kept)
      BY <1>1 DEF KeptOK
    <3>3. PassedOK(rb, kind, kept, 0)
      <4>1. 1 .. NextOf(rb) - 1 = {}
        BY <1>5
      <4> QED
        BY <4>1 DEF PassedOK
    <3> QED
      BY <3>1, <3>2, <3>3
  <2> QED
    BY <1>1, <1>3, <1>6, <2>1 DEF RingInv
<1>9. ack \in AckType /\ AckState(rb, kind, kept, ack)
  BY <1>1, <1>2, <1>3, <1>5 DEF AckType, AckState, AckOK, AckKnown
<1>10. IInv
  BY <1>1, <1>8, <1>9 DEF IInv, Sound
<1>11. R!Init
  <2>1. WaitingIn(rb) = {}
    BY <1>7, <1>8, WaitingInRing
  <2>2. Systemic = {}
    BY <1>1 DEF Systemic
  <2>3. Num(rb.start) - 1 = 0
    BY <1>5 DEF NextOf
  <2>4. (flags.reliable /\ fails = 0) \in BOOLEAN
    BY <1>1, FlagsFacts
  <2> QED
    BY <1>1, <2>1, <2>2, <2>3, <2>4 DEF R!Init, WaitingIn
<1> QED
  BY <1>10, <1>11
-----------------------------------------------------------------------------
\* The inductive invariant: every slot is that of its number, all a reliable buffer has passed or acknowledges
\* is known or a clear bit of the map, and what was reported as missing was acknowledged before.
THEOREM RbufInvariant == Spec => []IInv
<1>1. Init => IInv
  BY InitFacts
<1>2. ASSUME IInv, [Next]_vars
      PROVE  IInv'
  <2>1. /\ flags' = flags /\ (fails' = fails \/ fails' = fails + 1)
        /\ twice' \in BOOLEAN /\ (twice => twice')
    BY <1>2, AnyStep
  <2>2. ASSUME ~twice'
        PROVE  Sound'
    <3>1. flags \in Flags /\ fails \in Nat /\ Sound
      BY <2>1, <2>2, <1>2 DEF IInv
    <3>2. CASE Next
      BY <2>2, <3>1, <3>2, SoundStep
    <3>3. CASE UNCHANGED vars
      BY <3>1, <3>3
        DEF vars, Sound, RingInv, RingOK, RingType, SlotsOK, KeptOK, PassedOK, AckState, AckKnown, AckOK
    <3> QED
      BY <1>2, <3>2, <3>3
  <2> QED
    BY <1>2, <2>1, <2>2 DEF IInv
<1> QED
  BY <1>1, <1>2, PTL DEF Spec

\* A reliable buffer never reports a message of the application as received that was not (ack_shift,
\* ecp_rbuf_store, ecp_rbuf_handle_flush).
THEOREM ReportsHonest == Spec => []AcksHonest
<1>1. IInv => AcksHonest
  BY DEF IInv, Sound, AcksHonest, KnownOf, SystemOf, Systemic
<1> QED
  BY <1>1, RbufInvariant, PTL

\* Messages are handed over in order and once, and a strict buffer leaves out none (ecp_rbuf_store,
\* msg_store, msg_flush).
THEOREM RbufImplements == Spec => Implements
<1>1. Init => R!Init
  BY InitFacts
<1>2. ASSUME IInv, IInv', [Next]_vars
      PROVE  [R!Next]_<<{rb.slot[i].n : i \in {j \in DOMAIN rb.slot : rb.slot[j].in /\ ~rb.slot[j].skip}},
                        given, Num(rb.start) - 1, Systemic, flags.reliable /\ fails = 0, ~twice>>
  <2>1. CASE UNCHANGED vars
    BY <2>1 DEF vars, Systemic
  <2>2. CASE Next
    <3>1. /\ flags' = flags /\ (fails' = fails \/ fails' = fails + 1) /\ fails \in Nat
          /\ twice' \in BOOLEAN /\ twice \in BOOLEAN /\ (twice => twice')
          /\ \A k \in DOMAIN kind : k \in DOMAIN kind' /\ kind'[k] = kind[k]
      BY <1>2, AnyStep DEF IInv
    <3>2. Systemic \subseteq Systemic'
      BY <3>1 DEF Systemic
    <3>3. (flags'.reliable /\ fails' = 0) => (flags.reliable /\ fails = 0)
      BY <3>1
    <3>4. ASSUME ~twice'
          PROVE  R!Receive({}) \/ \E n \in Number : R!Receive({n})
      <4>1. flags \in Flags /\ Sound /\ Sound'
        BY <1>2, <3>1, <3>4 DEF IInv
      <4>2. Hands({}) \/ \E n \in Number : Hands({n})
        BY <2>2, <3>1, <3>4, <4>1, SoundStep
      <4>3. RingOK(rb) /\ RingOK(rb)' /\ WaitingIn(rb) \subseteq Number
        <5>1. WaitingIn(rb) \subseteq kept /\ kept \subseteq Number
          BY <4>1, WaitingInRing DEF Sound, RingInv
        <5> QED
          BY <4>1, <5>1 DEF Sound, RingInv
      <4> QED
        BY <4>2, <4>3, HandsReceives
    <3>5. R!Next
      BY <3>1, <3>2, <3>3, <3>4 DEF R!Next
    <3> QED
      BY <3>5
  <2> QED
    BY <1>2, <2>1, <2>2
<1> QED
  BY <1>1, <1>2, RbufInvariant, PTL DEF Spec, Implements, R!Spec
=============================================================================

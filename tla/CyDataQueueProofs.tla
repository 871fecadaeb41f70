-------------------------- MODULE CyDataQueueProofs -------------------------
(***************************************************************************)
(* What the two queue helpers return and leave, for every ring size: the   *)
(* lemmas that the proofs about the queue's users rest on.                 *)
(***************************************************************************)
EXTENDS CyDataQueue, SequenceTheorems, TLAPS

(* The ring has at least one cell. *)
LEMMA CapacityType == Capacity \in Nat \ {0}
BY QueueAssumption DEF Capacity

(* A position moved on by at most one turn of the ring is a position. *)
LEMMA WrapType ==
  ASSUME NEW p \in 0 .. 2 * Capacity - 1
  PROVE  Wrap(p) \in Position
BY CapacityType DEF Wrap, Position

(* Moving on in two steps is moving on once, as long as the ring is not    *)
(* passed twice.                                                           *)
LEMMA WrapSum ==
  ASSUME NEW p \in Position, NEW m \in 0 .. Capacity, NEW n \in 0 .. Capacity,
         m + n <= Capacity
  PROVE  Wrap(Wrap(p + m) + n) = Wrap(p + (m + n))
BY CapacityType DEF Wrap, Position

(* Distinct distances of less than one turn lead to distinct cells. *)
LEMMA WrapInjective ==
  ASSUME NEW p \in Position, NEW m \in 0 .. Capacity - 1,
         NEW n \in 0 .. Capacity - 1, Wrap(p + m) = Wrap(p + n)
  PROVE  m = n
BY CapacityType DEF Wrap, Position

(* Where the cell i places after the head h lies, seen from the tail t of  *)
(* a ring of C cells that holds a bytes.                                   *)
LEMMA RingDistance ==
  ASSUME NEW C \in Nat, NEW h \in Nat, h < C, NEW a \in Nat, a <= C,
         NEW t \in Nat, t = IF h + a < C THEN h + a ELSE (h + a) - C,
         NEW i \in Nat, 1 <= i, i <= C,
         NEW c \in Nat, c = IF h + i - 1 < C THEN h + i - 1 ELSE (h + i - 1) - C
  PROVE  (IF c >= t THEN c - t + 1 ELSE c + C - t + 1) =
           (IF i <= a THEN i - a + C ELSE i - a)
OBVIOUS

(* The bytes read from the head on are a sequence of bytes. *)
LEMMA FromHeadType ==
  ASSUME NEW q \in CyDataQueue, NEW n \in 0 .. Capacity
  PROVE  /\ FromHead(q, n) \in Seq(Byte)
         /\ Len(FromHead(q, n)) = n
         /\ \A i \in 1 .. n : FromHead(q, n)[i] = q.cells[Wrap(q.head + i - 1)]
<1>1. n \in Nat
  BY CapacityType
<1>2. ASSUME NEW i \in 1 .. n
      PROVE  q.cells[Wrap(q.head + i - 1)] \in Byte
  <2>1. q.head + i - 1 \in 0 .. 2 * Capacity - 1
    BY CapacityType DEF CyDataQueue, Position
  <2>2. Wrap(q.head + i - 1) \in Position
    BY <2>1, WrapType
  <2>. QED  BY <2>2 DEF CyDataQueue
<1>3. FromHead(q, n) \in [1 .. n -> Byte]
  BY <1>2 DEF FromHead
<1>. QED  BY <1>1, <1>3 DEF FromHead

-----------------------------------------------------------------------------
(* What well-formedness says of the fields of a queue. *)
LEMMA Fields ==
  ASSUME NEW q, WellFormed(q)
  PROVE  /\ q \in CyDataQueue
         /\ q.cells \in [Position -> Byte]
         /\ q.head \in Nat /\ q.head < Capacity
         /\ q.tail \in Nat /\ q.tail < Capacity
         /\ q.avail \in Nat /\ q.avail <= Capacity
         /\ q.tail = IF q.head + q.avail < Capacity
                     THEN q.head + q.avail ELSE (q.head + q.avail) - Capacity
BY CapacityType DEF WellFormed, CyDataQueue, Position, Wrap

(* The zeroed queue is well formed and holds nothing. *)
LEMMA EmptyQueueType == WellFormed(EmptyQueue) /\ EmptyQueue.avail = 0
BY CapacityType, QueueAssumption
   DEF EmptyQueue, CyDataQueue, Position, WellFormed, Wrap

(* The content of a queue is a sequence as long as its fill level, read    *)
(* off the ring from the head on.                                          *)
LEMMA ContentType ==
  ASSUME NEW q \in CyDataQueue
  PROVE  /\ Content(q) \in Seq(Byte)
         /\ Len(Content(q)) = q.avail
         /\ q.avail \in Nat
         /\ \A i \in 1 .. q.avail : Content(q)[i] = q.cells[Wrap(q.head + i - 1)]
<1>1. q.avail \in 0 .. Capacity /\ q.avail \in Nat
  BY CapacityType DEF CyDataQueue
<1>. QED  BY <1>1, FromHeadType DEF Content

(* GetDataFromTheQueue delivers all it can: the buffer's length or the     *)
(* fill level, whichever is less, on either path through the wrap-around.  *)
(* From a ring that is completely full it delivers nothing.                *)
LEMMA GetCountIsMin ==
  ASSUME NEW q, WellFormed(q), NEW n \in Nat \ {0}
  PROVE  GetCount(q, n) = IF q.avail = Capacity THEN 0
                          ELSE IF n < q.avail THEN n ELSE q.avail
BY Fields, CapacityType DEF GetCount, GetRefused

(* It hands out the oldest bytes and leaves a well formed queue with the   *)
(* others.                                                                 *)
LEMMA GetLeaves ==
  ASSUME NEW q, WellFormed(q), NEW n \in Nat \ {0}
  PROVE  /\ WellFormed(AfterGet(q, n))
         /\ GetData(q, n) = FromHead(q, GetCount(q, n))
         /\ GetData(q, n) \in Seq(Byte)
         /\ Len(GetData(q, n)) = GetCount(q, n)
         /\ AfterGet(q, n).avail = q.avail - GetCount(q, n)
         /\ \A i \in 1 .. AfterGet(q, n).avail :
              AfterGet(q, n).cells[Wrap(AfterGet(q, n).head + i - 1)] =
                q.cells[Wrap(q.head + GetCount(q, n) + i - 1)]
<1> DEFINE k == GetCount(q, n)
           left == AfterGet(q, n)
<1>1. k = IF q.avail = Capacity THEN 0 ELSE IF n < q.avail THEN n ELSE q.avail
  BY GetCountIsMin
<1>2. q \in CyDataQueue /\ k \in 0 .. Capacity
  BY <1>1, Fields, CapacityType
<1>3. GetData(q, n) = FromHead(q, k) /\ GetData(q, n) \in Seq(Byte) /\ Len(GetData(q, n)) = k
  BY <1>2, FromHeadType DEF GetData
<1>4. CASE GetRefused(q, n)
  <2>1. left = q /\ k = 0
    BY <1>4 DEF AfterGet, GetCount
  <2>2. left.avail = q.avail - k
    BY <2>1, Fields
  <2>3. \A i \in 1 .. left.avail : q.head + k + i - 1 = q.head + i - 1
    BY <2>1, Fields
  <2>. QED  BY <1>3, <2>1, <2>2, <2>3
<1>5. CASE ~GetRefused(q, n) /\ n >= q.avail
  <2>1. left = [cells |-> q.cells, head |-> 0, tail |-> 0, avail |-> 0]
    BY <1>5 DEF AfterGet
  <2>2. k = q.avail
    BY <1>1, <1>5, Fields, CapacityType DEF GetRefused
  <2>3. left \in CyDataQueue
    BY <2>1, Fields, CapacityType DEF CyDataQueue, Position
  <2>4. WellFormed(left)
    BY <2>1, <2>3, CapacityType DEF WellFormed, Wrap
  <2>5. left.avail = 0 /\ q.avail - k = 0 /\ 1 .. left.avail = {}
    BY <2>1, <2>2, Fields
  <2>. QED  BY <1>3, <2>4, <2>5
<1>6. CASE ~GetRefused(q, n) /\ ~(n >= q.avail)
  <2>1. /\ left = [cells |-> q.cells, head |-> Wrap(q.head + n),
                   tail |-> q.tail, avail |-> q.avail - n]
        /\ n < q.avail
        /\ k = n
    BY <1>6, <1>1, Fields, CapacityType DEF AfterGet, GetRefused
  <2>2. Wrap(q.head + n) = IF q.head + n < Capacity
                           THEN q.head + n ELSE (q.head + n) - Capacity
    BY DEF Wrap
  <2>3. left \in CyDataQueue
    BY <2>1, <2>2, Fields, CapacityType DEF CyDataQueue, Position
  <2>4. WellFormed(left)
    BY <2>1, <2>2, <2>3, Fields, CapacityType DEF WellFormed, Wrap
  <2>5. ASSUME NEW i \in 1 .. left.avail
        PROVE  Wrap(left.head + i - 1) = Wrap(q.head + k + i - 1)
    BY <2>1, <2>2, Fields, CapacityType DEF Wrap
  <2>. QED  BY <1>3, <2>1, <2>4, <2>5
<1>. QED  BY <1>4, <1>5, <1>6

(* The byte that AddDataToQueue writes i cells after the head is the one    *)
(* after the bytes that are there; to those it writes nothing.             *)
LEMMA OffsetOf ==
  ASSUME NEW q, WellFormed(q), NEW i \in 1 .. Capacity
  PROVE  Offset(q, Wrap(q.head + i - 1)) =
           IF i <= q.avail THEN i - q.avail + Capacity ELSE i - q.avail
<1> DEFINE h == q.head
           a == q.avail
           t == q.tail
           C == Capacity
           c == Wrap(q.head + i - 1)
<1>1. /\ C \in Nat /\ h \in Nat /\ h < C /\ a \in Nat /\ a <= C /\ t \in Nat
      /\ t = IF h + a < C THEN h + a ELSE (h + a) - C
      /\ i \in Nat /\ 1 <= i /\ i <= C
  BY Fields, CapacityType
<1>2. c = IF h + i - 1 < C THEN h + i - 1 ELSE (h + i - 1) - C
  BY DEF Wrap
<1>3. c \in Nat
  BY <1>1, <1>2
<1>4. Offset(q, c) = IF c >= t THEN c - t + 1 ELSE c + C - t + 1
  BY DEF Offset
<1>5. (IF c >= t THEN c - t + 1 ELSE c + C - t + 1) =
        (IF i <= a THEN i - a + C ELSE i - a)
  <2>. HIDE DEF h, a, t, C, c
  <2>. QED  BY ONLY <1>1, <1>2, <1>3, RingDistance
<1>. QED  BY <1>4, <1>5, Zenon

(* AddDataToQueue leaves a well formed queue with the new bytes behind the *)
(* old ones, if there is room for them ...                                 *)
LEMMA AddLeaves ==
  ASSUME NEW q, WellFormed(q), NEW s \in Seq(Byte), q.avail + Len(s) <= Capacity
  PROVE  /\ WellFormed(AfterAdd(q, s))
         /\ AfterAdd(q, s).avail = q.avail + Len(s)
         /\ \A i \in 1 .. AfterAdd(q, s).avail :
              AfterAdd(q, s).cells[Wrap(AfterAdd(q, s).head + i - 1)] =
                IF i <= q.avail THEN q.cells[Wrap(q.head + i - 1)]
                                ELSE s[i - q.avail]
<1> DEFINE new == AfterAdd(q, s)
<1>1. Len(s) \in Nat /\ \A i \in 1 .. Len(s) : s[i] \in Byte
  OBVIOUS
<1>2. CASE Len(s) = 0
  <2>1. new = q
    BY <1>2 DEF AfterAdd, AddRefused
  <2>. QED  BY <1>2, <2>1, Fields
<1>3. CASE Len(s) # 0
  <2>1. ~AddRefused(q, s)
    BY <1>1, <1>3, Fields, CapacityType DEF AddRefused
  <2>2. new = [cells |-> [i \in Position |->
                            IF Offset(q, i) <= Len(s) THEN s[Offset(q, i)]
                                                      ELSE q.cells[i]],
               head |-> q.head, tail |-> Wrap(q.tail + Len(s)),
               avail |-> q.avail + Len(s)]
    BY <2>1 DEF AfterAdd
  <2>3. ASSUME NEW i \in Position
        PROVE  Offset(q, i) \in 1 .. Capacity
    BY Fields, CapacityType DEF Offset, Position
  <2>4. new.cells \in [Position -> Byte]
    BY <1>1, <2>2, <2>3, Fields
  <2>5. Wrap(q.tail + Len(s)) = IF q.tail + Len(s) < Capacity
                                THEN q.tail + Len(s) ELSE (q.tail + Len(s)) - Capacity
    BY DEF Wrap
  <2>6. new \in CyDataQueue
    BY <1>1, <2>2, <2>4, <2>5, Fields, CapacityType DEF CyDataQueue, Position
  <2>7. WellFormed(new)
    BY <1>1, <2>2, <2>5, <2>6, Fields, CapacityType DEF WellFormed, Wrap
  <2>8. ASSUME NEW i \in 1 .. new.avail
        PROVE  new.cells[Wrap(new.head + i - 1)] =
                 IF i <= q.avail THEN q.cells[Wrap(q.head + i - 1)]
                                 ELSE s[i - q.avail]
    <3> DEFINE c == Wrap(q.head + i - 1)
    <3>1. /\ i \in Nat /\ i >= 1 /\ i <= q.avail + Len(s)
          /\ i <= Capacity
      BY <1>1, <2>2, Fields, CapacityType
    <3>2. c = IF q.head + i - 1 < Capacity
              THEN q.head + i - 1 ELSE (q.head + i - 1) - Capacity
      BY DEF Wrap
    <3>3. c \in Position
      BY <3>1, <3>2, Fields, CapacityType DEF Position
    <3>4. Offset(q, c) = IF i <= q.avail THEN i - q.avail + Capacity
                                         ELSE i - q.avail
      BY <3>1, CapacityType, OffsetOf
    <3>5. new.cells[c] = IF Offset(q, c) <= Len(s) THEN s[Offset(q, c)]
                                                   ELSE q.cells[c]
      BY <2>2, <3>3
    <3>6. Offset(q, c) <= Len(s) <=> ~(i <= q.avail)
      BY <1>1, <3>1, <3>4, Fields, CapacityType
    <3>. QED  BY <2>2, <3>4, <3>5, <3>6
  <2>9. new.avail = q.avail + Len(s)
    BY <2>2
  <2>. QED  BY ONLY <2>7, <2>8, <2>9
<1>. QED  BY <1>2, <1>3
(* ... and drops them otherwise. *)
LEMMA AddDrops ==
  ASSUME NEW q, WellFormed(q), NEW s \in Seq(Byte), q.avail + Len(s) > Capacity
  PROVE  AfterAdd(q, s) = q
BY DEF AfterAdd, AddRefused

-----------------------------------------------------------------------------
(* In terms of the content, an addition appends ... *)
LEMMA AddAppends ==
  ASSUME NEW q, WellFormed(q), NEW s \in Seq(Byte), q.avail + Len(s) <= Capacity
  PROVE  Content(AfterAdd(q, s)) = Content(q) \o s
<1> DEFINE old  == Content(q)
           left == AfterAdd(q, s)
           new  == Content(left)
<1>1. q \in CyDataQueue /\ left \in CyDataQueue
  BY AddLeaves DEF WellFormed
<1>2. /\ old \in Seq(Byte) /\ Len(old) = q.avail
      /\ new \in Seq(Byte) /\ Len(new) = left.avail
      /\ q.avail \in Nat /\ left.avail \in Nat
  BY <1>1, ContentType
<1>3. /\ left.avail = q.avail + Len(s) /\ Len(s) \in Nat
      /\ \A i \in 1 .. left.avail :
           left.cells[Wrap(left.head + i - 1)] =
             IF i <= q.avail THEN q.cells[Wrap(q.head + i - 1)] ELSE s[i - q.avail]
  BY AddLeaves, LenProperties
<1>4. ASSUME NEW i \in 1 .. Len(old)
      PROVE  new[i] = old[i]
  <2>1. i \in 1 .. q.avail /\ i \in 1 .. left.avail /\ i <= q.avail
    BY <1>2, <1>3
  <2>2. left.cells[Wrap(left.head + i - 1)] = q.cells[Wrap(q.head + i - 1)]
    BY <2>1, <1>3
  <2>. QED  BY <1>1, <2>1, <2>2, ContentType
<1>5. ASSUME NEW i \in 1 .. Len(s)
      PROVE  new[Len(old) + i] = s[i]
  <2>1. /\ Len(old) + i \in 1 .. left.avail
        /\ ~ (Len(old) + i <= q.avail)
        /\ (Len(old) + i) - q.avail = i
    BY <1>2, <1>3
  <2>2. left.cells[Wrap(left.head + (Len(old) + i) - 1)] = s[i]
    BY <2>1, <1>3
  <2>. QED  BY <1>1, <2>1, <2>2, ContentType
<1>. HIDE DEF old, new, left
<1>6. new = old \o s
  <2>1. /\ old \o s \in Seq(Byte)
        /\ Len(old \o s) = Len(old) + Len(s)
        /\ \A i \in 1 .. Len(old) + Len(s) :
             (old \o s)[i] = IF i <= Len(old) THEN old[i] ELSE s[i - Len(old)]
    BY <1>2, ConcatProperties
  <2>2. ASSUME NEW i \in 1 .. Len(new)
        PROVE  new[i] = (old \o s)[i]
    <3>1. i \in 1 .. Len(old) + Len(s)
      BY <1>2, <1>3
    <3>2. CASE i <= Len(old)
      BY <1>2, <1>4, <2>1, <3>1, <3>2
    <3>3. CASE ~ (i <= Len(old))
      <4>1. i - Len(old) \in 1 .. Len(s) /\ Len(old) + (i - Len(old)) = i
        BY <1>2, <1>3, <3>1, <3>3
      <4>. QED  BY <1>5, <2>1, <3>1, <3>3, <4>1
    <3>. QED  BY <3>2, <3>3
  <2>. QED  BY <1>2, <1>3, <2>1, <2>2, SeqEqual
<1>. QED  BY <1>6 DEF old, new, left

(* ... and a drain takes a prefix. *)
LEMMA GetTakes ==
  ASSUME NEW q, WellFormed(q), NEW n \in Nat \ {0}
  PROVE  /\ GetData(q, n) = SubSeq(Content(q), 1, GetCount(q, n))
         /\ Content(AfterGet(q, n)) = SubSeq(Content(q), GetCount(q, n) + 1, q.avail)
<1> DEFINE old  == Content(q)
           data == GetData(q, n)
           left == AfterGet(q, n)
           new  == Content(left)
           k    == GetCount(q, n)
           m    == q.avail
<1>1. q \in CyDataQueue /\ left \in CyDataQueue
  BY GetLeaves DEF WellFormed
<1>2. /\ old \in Seq(Byte) /\ Len(old) = m
      /\ new \in Seq(Byte) /\ Len(new) = left.avail
      /\ m \in Nat /\ left.avail \in Nat
  BY <1>1, ContentType
<1>3. k = IF m = Capacity THEN 0 ELSE IF n < m THEN n ELSE m
  BY GetCountIsMin
<1>4. k \in Nat /\ k <= m /\ k \in 0 .. Capacity
  BY <1>2, <1>3, Fields, CapacityType
<1>5. /\ data = FromHead(q, k) /\ data \in Seq(Byte) /\ Len(data) = k
      /\ left.avail = m - k
      /\ \A i \in 1 .. left.avail :
           left.cells[Wrap(left.head + i - 1)] = q.cells[Wrap(q.head + k + i - 1)]
  BY GetLeaves
<1>6. \A i \in 1 .. k : data[i] = old[i]
  <2>1. \A i \in 1 .. k : data[i] = q.cells[Wrap(q.head + i - 1)]
    BY <1>1, <1>4, <1>5, FromHeadType
  <2>2. \A i \in 1 .. k : i \in 1 .. q.avail
    BY <1>2, <1>4
  <2>. QED  BY <1>1, <2>1, <2>2, ContentType
<1>7. ASSUME NEW i \in 1 .. m - k
      PROVE  new[i] = old[k + i]
  <2>1. i \in 1 .. left.avail /\ k + i \in 1 .. q.avail
    BY <1>2, <1>4, <1>5
  <2>2. left.cells[Wrap(left.head + i - 1)] = q.cells[Wrap(q.head + k + i - 1)]
    BY <2>1, <1>5
  <2>3. q.head + k + i - 1 = q.head + (k + i) - 1
    BY <1>4, <2>1, Fields
  <2>. QED  BY <1>1, <2>1, <2>2, <2>3, ContentType
<1>. HIDE DEF old, new, k, data, left, m
<1>8. \A i \in 1 .. m : old[i] \in Byte
  BY <1>2
<1>9. data = SubSeq(old, 1, k)
  <2>1. /\ SubSeq(old, 1, k) \in Seq(Byte)
        /\ Len(SubSeq(old, 1, k)) = k
        /\ \A i \in 1 .. k : SubSeq(old, 1, k)[i] = old[i]
    BY <1>2, <1>4, <1>8, SubSeqProperties
  <2>. QED  BY <1>5, <1>6, <2>1, SeqEqual
<1>10. new = SubSeq(old, k + 1, m)
  <2>1. \A i \in k + 1 .. m : old[i] \in Byte
    BY <1>2, <1>4, <1>8
  <2>2. /\ SubSeq(old, k + 1, m) \in Seq(Byte)
        /\ Len(SubSeq(old, k + 1, m)) = m - k
        /\ \A i \in 1 .. m - k : SubSeq(old, k + 1, m)[i] = old[k + i]
    BY <1>2, <1>4, <2>1, SubSeqProperties
  <2>3. Len(new) = m - k
    BY <1>2, <1>5
  <2>4. \A i \in 1 .. Len(new) : new[i] = SubSeq(old, k + 1, m)[i]
    BY <1>7, <2>2, <2>3
  <2>. QED  BY <1>2, <2>2, <2>3, <2>4, SeqEqual
<1>. QED  BY <1>9, <1>10 DEF old, new, k, data, left, m

(* So what it delivers and what it leaves are, one after the other, what   *)
(* was there.                                                              *)
LEMMA GetSplits ==
  ASSUME NEW q, WellFormed(q), NEW n \in Nat \ {0}
  PROVE  Content(q) = GetData(q, n) \o Content(AfterGet(q, n))
<1> DEFINE old == Content(q)
           k   == GetCount(q, n)
           m   == q.avail
<1>1. old \in Seq(Byte) /\ Len(old) = m /\ m \in Nat
  BY ContentType DEF WellFormed
<1>2. k \in 0 .. m
  BY <1>1, GetCountIsMin
<1>3. GetData(q, n) = SubSeq(old, 1, k) /\ Content(AfterGet(q, n)) = SubSeq(old, k + 1, m)
  BY GetTakes
<1>. HIDE DEF old, k, m
<1>4. SubSeq(old, 1, k) \o SubSeq(old, k + 1, m) = SubSeq(old, 1, m)
  BY <1>1, <1>2, ConcatAdjacentSubSeq
<1>5. SubSeq(old, 1, m) = old
  BY <1>1, SubSeqFull
<1>. QED  BY <1>3, <1>4, <1>5 DEF old

(* The empty queue has no content. *)
LEMMA EmptyContent ==
  ASSUME NEW q \in CyDataQueue, q.avail = 0
  PROVE  Content(q) = <<>>
BY ContentType, EmptySeq
=============================================================================

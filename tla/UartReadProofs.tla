---------------------------- MODULE UartReadProofs --------------------------
(***************************************************************************)
(* Proofs about CyUartRead, for every number of devices and threads, page  *)
(* count, packet size, buffer length and timeout.                          *)
(*                                                                         *)
(* First the types, which need no assumption on how the library is used,   *)
(* and with them that success means a full buffer.  Then the argument      *)
(* behind the comment at the size of the left-over queue: with no more     *)
(* reading threads than the queue has pages it is never full, even when    *)
(* libusb fails to submit.  With that, and if libusb does submit, every    *)
(* byte is in exactly one place.  Last, devices on serial blocks of their  *)
(* own hand out their own bytes, and in order to a single reader, however  *)
(* full the queues are.                                                    *)
(***************************************************************************)
EXTENDS UartRead, CyDataQueueProofs, FiniteSetTheorems

(* A call inside its loop. *)
Looping(r) == call[r].pc \in {"bulk", "copy"}

(* The types with what they rest on: the positions of the queues agree,    *)
(* and a call stays in its loop only while its buffer has room.            *)
TypeInv ==
  /\ TypeOK
  /\ \A s \in Scbs : WellFormed(queue[s])
  /\ \A r \in Readers : Looping(r) => Len(call[r].buffer) < call[r].length
  /\ SuccessMeansFull

-----------------------------------------------------------------------------
(* Multiplication is monotonic in its first factor. *)
LEMMA TimesMonotonic ==
  ASSUME NEW a \in Nat, NEW b \in Nat, NEW e \in Nat, a <= b
  PROVE  a * e <= b * e
OBVIOUS

(* One more left-over of m bytes. *)
LEMMA TimesSuccessor ==
  ASSUME NEW a \in Nat, NEW m \in Nat
  PROVE  a * m \in Nat /\ (a + 1) * m = a * m + m
OBVIOUS

(* As many left-overs as there are pages do not fill the queue. *)
LEMMA PagesSuffice ==
  ASSUME NEW n \in Nat, n <= Pages, NEW m \in Nat, m <= n * (EpSize - 1)
  PROVE  m < Capacity
<1>1. n * (EpSize - 1) <= Pages * (EpSize - 1)
  BY TimesMonotonic, QueueAssumption
<1>2. Pages * (EpSize - 1) = Capacity - Pages
  BY QueueAssumption DEF Capacity
<1>. QED  BY <1>1, <1>2, QueueAssumption, CapacityType

(* A set of readers is finite and no larger than the set of all readers. *)
LEMMA ReadersCount ==
  ASSUME NEW S \in SUBSET Readers
  PROVE  /\ IsFiniteSet(S)
         /\ Cardinality(S) \in Nat
         /\ Cardinality(S) <= Cardinality(Readers)
BY UartReadAssumption, FS_Subset, FS_CardinalityType

(* Concatenation of three sequences of bytes. *)
LEMMA ConcatThree ==
  ASSUME NEW u \in Seq(Byte), NEW v \in Seq(Byte), NEW w \in Seq(Byte)
  PROVE  (u \o v) \o w = u \o (v \o w)
BY ConcatAssociative

(* The fields of a call. *)
LEMMA CallType ==
  ASSUME TypeOK, NEW r \in Readers, call[r].pc # "idle"
  PROVE  /\ call[r] \in Call
         /\ call[r].dev \in Devices
         /\ Scb[call[r].dev] \in Scbs
         /\ call[r].length \in Nat \ {0}
         /\ call[r].buffer \in Seq(Byte)
         /\ Len(call[r].buffer) \in Nat
         /\ Len(call[r].buffer) <= call[r].length
         /\ call[r].packet \in Seq(Byte)
         /\ Len(call[r].packet) \in 0 .. EpSize
<1>1. call[r] \in Call /\ Len(call[r].buffer) <= call[r].length
  BY DEF TypeOK, Idle
<1>2. call[r].packet \in Packet
  BY <1>1 DEF Call
<1>3. call[r].packet \in Seq(Byte) /\ Len(call[r].packet) \in 0 .. EpSize
  BY <1>2, QueueAssumption DEF Packet
<1>4. call[r].dev \in Devices /\ call[r].length \in Lengths
      /\ call[r].buffer \in Seq(Byte)
  BY <1>1 DEF Call
<1>5. call[r].length \in Nat \ {0} /\ Scb[call[r].dev] \in Scbs
  BY <1>4, UartReadAssumption
<1>6. Len(call[r].buffer) \in Nat
  BY <1>4, LenProperties
<1>. QED  BY <1>1, <1>3, <1>4, <1>5, <1>6

(* The bytes copied to the caller's buffer and the left-over of a packet. *)
LEMMA CopySplit ==
  ASSUME TypeOK, NEW r \in Readers, call[r].pc = "copy",
         Len(call[r].buffer) < call[r].length
  PROVE  /\ call[r].packet = Copied(call[r]) \o LeftOver(call[r])
         /\ Copied(call[r]) \in Seq(Byte)
         /\ Len(Copied(call[r])) \in Nat
         /\ Len(call[r].buffer) + Len(Copied(call[r])) <= call[r].length
         /\ LeftOver(call[r]) \in Seq(Byte)
         /\ Len(LeftOver(call[r])) \in 0 .. EpSize - 1
         /\ LeftOver(call[r]) # <<>> =>
              Len(call[r].buffer) + Len(Copied(call[r])) = call[r].length
<1> DEFINE c == call[r]
           p == c.packet
           n == Room(c)
           m == Len(c.buffer)
<1>1. /\ p \in Seq(Byte) /\ Len(p) \in Nat /\ Len(p) <= EpSize /\ EpSize \in Nat
      /\ n \in Nat /\ n >= 1 /\ m + n = c.length
      /\ m \in Nat /\ c.length \in Nat
  BY CallType, QueueAssumption DEF Room
<1>2. CASE Len(p) <= n
  <2>1. Copied(c) = p /\ LeftOver(c) = <<>>
    BY <1>2 DEF Copied, LeftOver
  <2>2. <<>> \in Seq(Byte) /\ Len(<<>>) = 0
    BY EmptySeq
  <2>3. Len(Copied(c)) \in Nat /\ m + Len(Copied(c)) <= c.length
    <3>. HIDE DEF p, n, m
    <3>. QED  BY <1>1, <1>2, <2>1
  <2>4. Len(LeftOver(c)) \in 0 .. EpSize - 1
    BY <2>1, <2>2, QueueAssumption
  <2>5. p = Copied(c) \o LeftOver(c)
    <3>. HIDE DEF p, c
    <3>. QED  BY <1>1, <2>1, ConcatEmptySeq
  <2>. QED  BY <1>1, <2>1, <2>2, <2>3, <2>4, <2>5
<1>3. CASE ~(Len(p) <= n)
  <2>1. \A i \in 1 .. n : p[i] \in Byte
    BY <1>1, <1>3
  <2>2. \A i \in n + 1 .. Len(p) : p[i] \in Byte
    BY <1>1, <1>3
  <2>3. /\ Copied(c) = SubSeq(p, 1, n)
        /\ LeftOver(c) = SubSeq(p, n + 1, Len(p))
    BY <1>3 DEF Copied, LeftOver
  <2>4. Copied(c) \in Seq(Byte) /\ Len(Copied(c)) = n
    <3>. HIDE DEF p, n
    <3>. QED  BY <1>1, <2>1, <2>3, SubSeqProperties
  <2>5. LeftOver(c) \in Seq(Byte) /\ Len(LeftOver(c)) = Len(p) - n
    <3>. HIDE DEF p, n
    <3>. QED  BY <1>1, <1>3, <2>2, <2>3, SubSeqProperties
  <2>6. Len(LeftOver(c)) \in 0 .. EpSize - 1
    <3>. HIDE DEF p, n
    <3>. QED  BY <1>1, <1>3, <2>5
  <2>7. m + Len(Copied(c)) = c.length /\ c.length \in Nat
    <3>. HIDE DEF p, n, m
    <3>. QED  BY <1>1, <2>4
  <2>8. p = Copied(c) \o LeftOver(c)
    <3>. HIDE DEF p, n, c
    <3>1. SubSeq(p, 1, n) \o SubSeq(p, n + 1, Len(p)) = SubSeq(p, 1, Len(p))
      BY <1>1, <1>3, ConcatAdjacentSubSeq
    <3>. QED  BY <1>1, <2>3, <3>1, SubSeqFull
  <2>. QED  BY <1>1, <2>4, <2>5, <2>6, <2>7, <2>8
<1>. QED  BY <1>2, <1>3

-----------------------------------------------------------------------------
(***************************************************************************)
(* What the steps do.                                                      *)
(***************************************************************************)

(* The start of a call: the buffer takes the oldest bytes of the queue. A  *)
(* queue that is not full is emptied before the call goes on to its loop.  *)
LEMMA BeginEffect ==
  ASSUME TypeInv, NEW r \in Readers, NEW d \in Reads[r], NEW n \in Lengths,
         NEW t \in Timeouts, Begin(r, d, n, t)
  PROVE  \E c \in Call, left \in CyDataQueue :
           /\ d \in Devices /\ Scb[d] \in Scbs
           /\ call[r].pc = "idle"
           /\ c.dev = d /\ c.length = n /\ c.status = "SUCCESS"
           /\ n \in Nat /\ Len(c.buffer) \in Nat /\ Len(c.buffer) <= n
           /\ c.pc = IF Len(c.buffer) = n THEN "return" ELSE "bulk"
           /\ WellFormed(left)
           /\ Content(queue[Scb[d]]) = c.buffer \o Content(left)
           /\ left.avail <= queue[Scb[d]].avail
           /\ queue[Scb[d]].avail < Capacity /\ c.pc = "bulk" => left.avail = 0
           /\ queue' = [queue EXCEPT ![Scb[d]] = left]
           /\ added' = [added EXCEPT ![Scb[d]] = IF left.avail = 0 THEN {} ELSE @]
           /\ call' = [call EXCEPT ![r] = c]
           /\ UNCHANGED <<sent, delivered, discarded>>
<1> DEFINE s0   == Scb[d]
           q    == queue[s0]
           took == GetData(q, n)
           left == AfterGet(q, n)
           c    == [pc |-> IF Len(took) = n THEN "return" ELSE "bulk", dev |-> d,
                    length |-> n, buffer |-> took, timeout |-> t,
                    packet |-> <<>>, status |-> "SUCCESS"]
<1>1. d \in Devices /\ s0 \in Scbs /\ n \in Nat \ {0} /\ t \in 0 .. TimeMod - 1
  BY UartReadAssumption
<1>2. WellFormed(q)
  BY <1>1 DEF TypeInv
<1>3. /\ WellFormed(left)
      /\ took \in Seq(Byte)
      /\ Len(took) = IF q.avail = Capacity THEN 0 ELSE IF n < q.avail THEN n ELSE q.avail
      /\ left.avail = q.avail - Len(took)
      /\ q.avail \in Nat /\ q.avail <= Capacity
      /\ Content(q) = took \o Content(left)
  <2>. HIDE DEF q
  <2>1. WellFormed(left) /\ took \in Seq(Byte) /\ Len(took) = GetCount(q, n)
        /\ left.avail = q.avail - GetCount(q, n)
    BY <1>1, <1>2, GetLeaves
  <2>2. GetCount(q, n) = IF q.avail = Capacity THEN 0 ELSE IF n < q.avail THEN n ELSE q.avail
    BY <1>1, <1>2, GetCountIsMin
  <2>3. q.avail \in Nat /\ q.avail <= Capacity
    BY <1>2, Fields
  <2>4. Content(q) = took \o Content(left)
    BY <1>1, <1>2, GetSplits
  <2>. QED  BY <2>1, <2>2, <2>3, <2>4
<1>4. /\ queue' = [queue EXCEPT ![s0] = left]
      /\ added' = [added EXCEPT ![s0] = IF left.avail = 0 THEN {} ELSE @]
      /\ call' = [call EXCEPT ![r] = c]
      /\ UNCHANGED <<sent, delivered, discarded>>
      /\ call[r].pc = "idle"
  BY DEF Begin
<1>5. /\ Len(took) \in Nat /\ Len(took) <= n /\ left.avail <= q.avail
      /\ q.avail < Capacity /\ Len(took) # n => left.avail = 0
  BY <1>1, <1>3, CapacityType
<1>6. c \in Call
  <2>1. <<>> \in Packet
    BY QueueAssumption DEF Packet
  <2>. HIDE DEF took
  <2>. QED  BY <1>1, <1>3, <2>1 DEF Call, Status
<1>7. /\ c.dev = d /\ c.length = n /\ c.status = "SUCCESS" /\ c.buffer = took
      /\ c.pc = IF Len(took) = n THEN "return" ELSE "bulk"
  OBVIOUS
<1>8. left \in CyDataQueue
  BY <1>3 DEF WellFormed
<1>. HIDE DEF s0, left, c, took, q
<1>. QED  BY <1>1, <1>3, <1>4, <1>5, <1>6, <1>7, <1>8 DEF s0, q

(* A transfer fetches the next bytes of the device. *)
LEMMA TransferEffect ==
  ASSUME TypeInv, NEW r \in Readers, Transfer(r)
  PROVE  \E k \in 0 .. EpSize, c \in Call :
           /\ call[r].pc = "bulk" /\ call[r] \in Call
           /\ c.pc = "copy" /\ c.dev = call[r].dev /\ c.length = call[r].length
           /\ c.buffer = call[r].buffer
           /\ c.packet = Stream(call[r].dev, k)
           /\ sent[c.dev] \in Nat /\ sent[c.dev] + k <= MaxSent
           /\ sent' = [sent EXCEPT ![c.dev] = @ + k]
           /\ sent' \in [Devices -> 0 .. MaxSent]
           /\ call' = [call EXCEPT ![r] = c]
           /\ UNCHANGED <<queue, delivered, discarded, added>>
<1> DEFINE b == call[r]
<1>1. b.pc = "bulk" /\ b \in Call /\ b.dev \in Devices
  BY CallType DEF Transfer, TypeInv
<1>2. PICK k \in 0 .. EpSize, st \in Status,
           e \in Elapsed(b.timeout, "TIMEOUT") \cup Elapsed(b.timeout, "SUCCESS") :
        /\ sent[b.dev] + k <= MaxSent
        /\ sent' = [sent EXCEPT ![b.dev] = @ + k]
        /\ call' = [call EXCEPT ![r] =
             [b EXCEPT !.pc = "copy", !.packet = Stream(b.dev, k), !.status = st,
                       !.timeout = (b.timeout + TimeMod - e) % TimeMod]]
  BY DEF Transfer, Elapsed, Status
<1>3. b.timeout \in Nat /\ TimeMod \in Nat \ {0} /\ e \in Int /\ EpSize \in Nat
  BY <1>1, UartReadAssumption, QueueAssumption DEF Call, Elapsed
<1> DEFINE rest == (b.timeout + TimeMod - e) % TimeMod
           c    == [b EXCEPT !.pc = "copy", !.packet = Stream(b.dev, k), !.status = st,
                             !.timeout = rest]
<1>4. rest \in 0 .. TimeMod - 1
  BY <1>3
<1>5. sent[b.dev] \in 0 .. MaxSent
  BY <1>1 DEF TypeInv, TypeOK
<1>6. Stream(b.dev, k) \in Packet
  <2>1. \A i \in 1 .. k : <<b.dev, sent[b.dev] + i>> \in Byte
    BY <1>1, <1>2, <1>3, <1>5, UartReadAssumption
  <2>. QED  BY <1>3, <2>1 DEF Stream, Packet
<1>7. sent' \in [Devices -> 0 .. MaxSent]
  BY <1>1, <1>2, <1>3, <1>5, UartReadAssumption DEF TypeInv, TypeOK
<1>8. /\ c \in Call /\ c.pc = "copy" /\ c.dev = b.dev /\ c.length = b.length
      /\ c.buffer = b.buffer /\ c.packet = Stream(b.dev, k)
  <2>. HIDE DEF rest, b
  <2>. QED  BY <1>1, <1>4, <1>6 DEF Call
<1>9. call' = [call EXCEPT ![r] = c] /\ UNCHANGED <<queue, delivered, discarded, added>>
  BY <1>2 DEF Transfer
<1>. HIDE DEF c, rest
<1>10. sent[c.dev] \in Nat /\ sent[c.dev] + k <= MaxSent /\ sent' = [sent EXCEPT ![c.dev] = @ + k]
  BY <1>2, <1>5, <1>8, UartReadAssumption
<1>. QED  BY <1>1, <1>7, <1>8, <1>9, <1>10

(* A transfer that is not submitted leaves the packet of the last one, or  *)
(* what happens to be there.                                               *)
LEMMA SubmitFailsEffect ==
  ASSUME TypeInv, NEW r \in Readers, SubmitFails(r)
  PROVE  \E c \in Call :
           /\ call[r].pc = "bulk" /\ call[r] \in Call
           /\ c.pc = "copy" /\ c.dev = call[r].dev /\ c.length = call[r].length
           /\ c.buffer = call[r].buffer
           /\ call' = [call EXCEPT ![r] = c]
           /\ UNCHANGED <<queue, sent, delivered, discarded, added>>
<1> DEFINE b == call[r]
<1>1. b.pc = "bulk" /\ b \in Call
  BY CallType DEF SubmitFails, TypeInv
<1>2. PICK k \in 0 .. EpSize :
        call' = [call EXCEPT ![r] =
          [b EXCEPT !.pc = "copy", !.status = "ERROR",
                    !.packet = IF @ = <<>> THEN [i \in 1 .. k |-> Zero] ELSE @]]
  BY DEF SubmitFails
<1> DEFINE p == IF b.packet = <<>> THEN [i \in 1 .. k |-> Zero] ELSE b.packet
           c == [b EXCEPT !.pc = "copy", !.status = "ERROR", !.packet = p]
<1>3. [i \in 1 .. k |-> Zero] \in Packet
  BY QueueAssumption DEF Packet
<1>4. p \in Packet
  BY <1>1, <1>3 DEF Call
<1>5. call' = [call EXCEPT ![r] = c]
  BY <1>1, <1>2 DEF Call
<1>. HIDE DEF p, b
<1>6. /\ c \in Call /\ c.pc = "copy" /\ c.dev = b.dev /\ c.length = b.length
      /\ c.buffer = b.buffer
  BY <1>1, <1>4 DEF Call, Status
<1>. HIDE DEF c
<1>. QED  BY <1>1, <1>5, <1>6 DEF b, SubmitFails

(* The copy divides the packet: the buffer takes what it has room for, the *)
(* rest, less than a packet, goes to the queue.  A call that stays in its  *)
(* loop has room left and nothing for the queue.                           *)
LEMMA CopyEffect ==
  ASSUME TypeInv, NEW r \in Readers, Copy(r)
  PROVE  \E c \in Call, rest \in Seq(Byte) :
           /\ call[r].pc = "copy" /\ call[r] \in Call
           /\ Scb[c.dev] \in Scbs
           /\ c.dev = call[r].dev /\ c.length = call[r].length
           /\ c.pc \in {"bulk", "return"}
           /\ c.length \in Nat /\ Len(c.buffer) \in Nat /\ Len(c.buffer) <= c.length
           /\ c.pc = "bulk" => rest = <<>> /\ Len(c.buffer) < c.length
           /\ c.pc = "return" /\ c.status = "SUCCESS" => Len(c.buffer) = c.length
           /\ Len(rest) \in 0 .. EpSize - 1
           /\ call[r].buffer \o call[r].packet = c.buffer \o rest
           /\ WellFormed(AfterAdd(queue[Scb[c.dev]], rest))
           /\ queue' = [queue EXCEPT ![Scb[c.dev]] = AfterAdd(@, rest)]
           /\ added' = [added EXCEPT ![Scb[c.dev]] =
                          IF rest = <<>> THEN @ ELSE @ \cup {r}]
           /\ call' = [call EXCEPT ![r] = c]
           /\ UNCHANGED <<sent, delivered, discarded>>
<1> DEFINE b    == call[r]
           s0   == Scb[b.dev]
           q    == queue[s0]
           rest == LeftOver(b)
           buf  == b.buffer \o Copied(b)
           more == b.status = "SUCCESS" /\ ~(Len(buf) = b.length) /\ b.timeout > 0
           st   == IF b.timeout = 0 /\ ~(Len(buf) = b.length) THEN "TIMEOUT" ELSE b.status
           c    == [b EXCEPT !.pc = IF more THEN "bulk" ELSE "return",
                             !.buffer = buf, !.status = st]
<1>1. /\ b.pc = "copy" /\ b \in Call
      /\ s0 \in Scbs
      /\ b.length \in Nat /\ b.buffer \in Seq(Byte) /\ Len(b.buffer) \in Nat
      /\ Len(b.buffer) < b.length /\ b.timeout \in Nat
  BY CallType, UartReadAssumption DEF Copy, LastStatus, TypeInv, Looping, Call
<1>2. /\ queue' = [queue EXCEPT ![s0] = AfterAdd(@, rest)]
      /\ added' = [added EXCEPT ![s0] = IF rest = <<>> THEN @ ELSE @ \cup {r}]
      /\ call' = [call EXCEPT ![r] = c]
      /\ UNCHANGED <<sent, delivered, discarded>>
  BY DEF Copy, LastStatus
<1>3. /\ Copied(b) \in Seq(Byte) /\ Len(Copied(b)) \in Nat
      /\ Len(b.buffer) + Len(Copied(b)) <= b.length
      /\ rest \in Seq(Byte)
      /\ Len(rest) \in 0 .. EpSize - 1
      /\ rest # <<>> => Len(b.buffer) + Len(Copied(b)) = b.length
      /\ b.packet = Copied(b) \o rest
  BY <1>1, CopySplit DEF TypeInv
<1>4. /\ buf \in Seq(Byte) /\ Len(buf) = Len(b.buffer) + Len(Copied(b))
      /\ Len(buf) \in Nat /\ Len(buf) <= b.length
      /\ rest # <<>> => Len(buf) = b.length
  <2>1. buf \in Seq(Byte) /\ Len(buf) = Len(b.buffer) + Len(Copied(b))
    BY <1>1, <1>3, ConcatProperties
  <2>. HIDE DEF buf, rest, b
  <2>2. Len(buf) \in Nat
    BY <1>1, <1>3, <2>1
  <2>3. Len(buf) <= b.length
    BY <1>1, <1>3, <2>1
  <2>4. rest # <<>> => Len(buf) = b.length
    BY <1>1, <1>3, <2>1
  <2>. QED  BY <2>1, <2>2, <2>3, <2>4
<1>5. b.buffer \o b.packet = buf \o rest
  <2>. HIDE DEF rest, b
  <2>0. b.buffer \in Seq(Byte) /\ Copied(b) \in Seq(Byte) /\ rest \in Seq(Byte)
    BY <1>1, <1>3
  <2>1. (b.buffer \o Copied(b)) \o rest = b.buffer \o (Copied(b) \o rest)
    BY <2>0, ConcatThree
  <2>. QED  BY <1>3, <2>1
<1>6. WellFormed(AfterAdd(q, rest))
  <2>1. WellFormed(q)
    BY <1>1 DEF TypeInv
  <2>2. q.avail \in Nat /\ Len(rest) \in Nat /\ Capacity \in Nat
    BY <1>3, <2>1, Fields, CapacityType
  <2>. HIDE DEF q, rest, b
  <2>3. rest \in Seq(Byte)
    BY <1>3
  <2>4. CASE q.avail + Len(rest) <= Capacity
    BY <2>1, <2>3, <2>4, AddLeaves
  <2>5. CASE q.avail + Len(rest) > Capacity
    <3>1. AfterAdd(q, rest) = q
      BY <2>1, <2>3, <2>5, AddDrops
    <3>. QED  BY <2>1, <3>1
  <2>6. q.avail + Len(rest) <= Capacity \/ q.avail + Len(rest) > Capacity
    BY <2>2
  <2>. QED  BY <2>4, <2>5, <2>6
<1>. HIDE DEF rest
<1>7. /\ c \in Call /\ c.pc = (IF more THEN "bulk" ELSE "return") /\ c.status = st
      /\ c.dev = b.dev /\ c.buffer = buf /\ c.length = b.length
  <2>. HIDE DEF buf
  <2>. QED  BY <1>1, <1>4 DEF Call, Status
<1>8. /\ more => rest = <<>> /\ Len(buf) < b.length
      /\ ~more /\ st = "SUCCESS" => Len(buf) = b.length
  <2>. HIDE DEF buf, b
  <2>. QED  BY <1>1, <1>4
<1>. HIDE DEF c, buf, more, st
<1>. QED  BY <1>1, <1>2, <1>3, <1>4, <1>5, <1>6, <1>7, <1>8 DEF s0, q

(* The end of a call hands its buffer to the caller. *)
LEMMA ReturnEffect ==
  ASSUME TypeInv, NEW r \in Readers, Return(r)
  PROVE  /\ call[r].pc = "return" /\ call[r] \in Call
         /\ call[r].dev \in Devices /\ call[r].buffer \in Seq(Byte)
         /\ delivered' = [delivered EXCEPT ![call[r].dev] = @ \o call[r].buffer]
         /\ delivered' \in [Devices -> Seq(Byte)]
         /\ call' = [call EXCEPT ![r] = Idle]
         /\ UNCHANGED <<queue, sent, discarded, added>>
<1>1. /\ call[r].pc = "return"
      /\ delivered' = [delivered EXCEPT ![call[r].dev] = @ \o call[r].buffer]
      /\ call' = [call EXCEPT ![r] = Idle]
      /\ UNCHANGED <<queue, sent, discarded, added>>
  BY DEF Return
<1>2. call[r] \in Call /\ call[r].dev \in Devices /\ call[r].buffer \in Seq(Byte)
  BY <1>1, CallType DEF TypeInv
<1>3. delivered' \in [Devices -> Seq(Byte)]
  BY <1>1, <1>2, ConcatProperties DEF TypeInv, TypeOK
<1>. QED  BY <1>1, <1>2, <1>3
-----------------------------------------------------------------------------
(***************************************************************************)
(* The types.                                                              *)
(***************************************************************************)

(* What a step that changes one call and one queue has to show. *)
LEMMA TypesKept ==
  ASSUME TypeInv, NEW r \in Readers, NEW c \in Call \cup {Idle},
         call' = [call EXCEPT ![r] = c],
         c.pc # "idle" => Len(c.buffer) <= c.length,
         c.pc \in {"bulk", "copy"} => Len(c.buffer) < c.length,
         c.pc = "return" /\ c.status = "SUCCESS" => Len(c.buffer) = c.length,
         NEW s0 \in Scbs, NEW q, WellFormed(q), queue' = [queue EXCEPT ![s0] = q],
         NEW S \in SUBSET Readers, added' = [added EXCEPT ![s0] = S],
         sent' \in [Devices -> 0 .. MaxSent],
         delivered' \in [Devices -> Seq(Byte)],
         discarded' \subseteq Byte
  PROVE  TypeInv'
<1>1. \A s \in Scbs : queue'[s] = IF s = s0 THEN q ELSE queue[s]
  BY DEF TypeInv, TypeOK
<1>2. \A x \in Readers : call'[x] = IF x = r THEN c ELSE call[x]
  BY DEF TypeInv, TypeOK
<1>3. TypeOK'
  <2>1. queue' \in [Scbs -> CyDataQueue] /\ added' \in [Scbs -> SUBSET Readers]
    BY DEF TypeInv, TypeOK, WellFormed
  <2>2. call' \in [Readers -> Call \cup {Idle}]
    BY DEF TypeInv, TypeOK
  <2>3. \A x \in Readers : call'[x].pc # "idle" => Len(call'[x].buffer) <= call'[x].length
    BY <1>2 DEF TypeInv, TypeOK
  <2>. QED  BY <2>1, <2>2, <2>3 DEF TypeOK
<1>4. \A s \in Scbs : WellFormed(queue'[s])
  BY <1>1 DEF TypeInv
<1>5. \A x \in Readers : Looping(x)' => Len(call'[x].buffer) < call'[x].length
  BY <1>2 DEF TypeInv, Looping
<1>6. SuccessMeansFull'
  BY <1>2 DEF TypeInv, SuccessMeansFull
<1>. QED  BY <1>3, <1>4, <1>5, <1>6 DEF TypeInv

(* The same for a step that changes no queue. *)
LEMMA TypesKeptIfQueuesStay ==
  ASSUME TypeInv, NEW r \in Readers, NEW c \in Call \cup {Idle},
         call' = [call EXCEPT ![r] = c],
         c.pc # "idle" => Len(c.buffer) <= c.length,
         c.pc \in {"bulk", "copy"} => Len(c.buffer) < c.length,
         c.pc = "return" /\ c.status = "SUCCESS" => Len(c.buffer) = c.length,
         UNCHANGED <<queue, added>>,
         sent' \in [Devices -> 0 .. MaxSent],
         delivered' \in [Devices -> Seq(Byte)],
         discarded' \subseteq Byte
  PROVE  TypeInv'
<1>1. 0 \in Scbs
  BY DEF Scbs
<1>2. /\ WellFormed(queue[0]) /\ queue' = [queue EXCEPT ![0] = queue[0]]
      /\ added[0] \in SUBSET Readers /\ added' = [added EXCEPT ![0] = added[0]]
  BY <1>1 DEF TypeInv, TypeOK
<1>. QED  BY <1>1, <1>2, TypesKept

LEMMA TypeInitial == Init => TypeInv
<1> SUFFICES ASSUME Init PROVE TypeInv
  OBVIOUS
<1>1. \A r \in Readers : call[r].pc = "idle"
  BY DEF Init, Idle
<1>2. TypeOK
  BY <1>1, EmptyQueueType, UartReadAssumption DEF Init, TypeOK, WellFormed
<1>3. \A s \in Scbs : WellFormed(queue[s])
  BY EmptyQueueType DEF Init
<1>. QED  BY <1>1, <1>2, <1>3 DEF TypeInv, Looping, SuccessMeansFull

LEMMA TypeStep == TypeInv /\ [Next]_vars => TypeInv'
<1> SUFFICES ASSUME TypeInv, [Next]_vars PROVE TypeInv'
  OBVIOUS
<1>1. TypeOK
  BY DEF TypeInv
<1>2. ASSUME NEW r \in Readers, NEW d \in Reads[r], NEW n \in Lengths,
             NEW t \in Timeouts, Begin(r, d, n, t)
      PROVE  TypeInv'
  <2>1. PICK c \in Call, left \in CyDataQueue :
          /\ Scb[d] \in Scbs
          /\ c.length = n /\ n \in Nat /\ Len(c.buffer) \in Nat /\ Len(c.buffer) <= n
          /\ c.pc = IF Len(c.buffer) = n THEN "return" ELSE "bulk"
          /\ WellFormed(left)
          /\ queue' = [queue EXCEPT ![Scb[d]] = left]
          /\ added' = [added EXCEPT ![Scb[d]] = IF left.avail = 0 THEN {} ELSE @]
          /\ call' = [call EXCEPT ![r] = c]
          /\ UNCHANGED <<sent, delivered, discarded>>
    BY <1>2, BeginEffect
  <2>2. PICK S \in SUBSET Readers : added' = [added EXCEPT ![Scb[d]] = S]
    BY <1>1, <2>1 DEF TypeOK
  <2>3. Len(c.buffer) # n => Len(c.buffer) < n
    BY <2>1
  <2>. QED  BY <1>1, <2>1, <2>2, <2>3, TypesKept DEF TypeOK
<1>3. ASSUME NEW r \in Readers, Transfer(r)
      PROVE  TypeInv'
  <2>1. PICK c \in Call :
          /\ call[r].pc = "bulk"
          /\ c.pc = "copy" /\ c.length = call[r].length /\ c.buffer = call[r].buffer
          /\ sent' \in [Devices -> 0 .. MaxSent]
          /\ call' = [call EXCEPT ![r] = c]
          /\ UNCHANGED <<queue, delivered, discarded, added>>
    BY <1>3, TransferEffect
  <2>2. Len(c.buffer) <= c.length /\ Len(c.buffer) < c.length
    BY <1>1, <2>1 DEF TypeInv, TypeOK, Looping
  <2>. QED  BY <1>1, <2>1, <2>2, TypesKeptIfQueuesStay DEF TypeOK
<1>4. ASSUME NEW r \in Readers, SubmitFails(r)
      PROVE  TypeInv'
  <2>1. PICK c \in Call :
          /\ call[r].pc = "bulk"
          /\ c.pc = "copy" /\ c.length = call[r].length /\ c.buffer = call[r].buffer
          /\ call' = [call EXCEPT ![r] = c]
          /\ UNCHANGED <<queue, sent, delivered, discarded, added>>
    BY <1>4, SubmitFailsEffect
  <2>2. Len(c.buffer) <= c.length /\ Len(c.buffer) < c.length
    BY <1>1, <2>1 DEF TypeInv, TypeOK, Looping
  <2>. QED  BY <1>1, <2>1, <2>2, TypesKeptIfQueuesStay DEF TypeOK
<1>5. ASSUME NEW r \in Readers, Copy(r)
      PROVE  TypeInv'
  <2>1. PICK c \in Call, rest \in Seq(Byte) :
          /\ Scb[c.dev] \in Scbs
          /\ c.pc \in {"bulk", "return"}
          /\ c.length \in Nat /\ Len(c.buffer) \in Nat /\ Len(c.buffer) <= c.length
          /\ c.pc = "bulk" => rest = <<>> /\ Len(c.buffer) < c.length
          /\ c.pc = "return" /\ c.status = "SUCCESS" => Len(c.buffer) = c.length
          /\ WellFormed(AfterAdd(queue[Scb[c.dev]], rest))
          /\ queue' = [queue EXCEPT ![Scb[c.dev]] = AfterAdd(@, rest)]
          /\ added' = [added EXCEPT ![Scb[c.dev]] =
                         IF rest = <<>> THEN @ ELSE @ \cup {r}]
          /\ call' = [call EXCEPT ![r] = c]
          /\ UNCHANGED <<sent, delivered, discarded>>
    BY <1>5, CopyEffect
  <2>2. PICK S \in SUBSET Readers : added' = [added EXCEPT ![Scb[c.dev]] = S]
    BY <1>1, <2>1 DEF TypeOK
  <2>. QED  BY <1>1, <2>1, <2>2, TypesKept DEF TypeOK
<1>6. ASSUME NEW r \in Readers, Return(r)
      PROVE  TypeInv'
  <2>1. Idle.pc = "idle"
    BY DEF Idle
  <2>. QED  BY <1>1, <1>6, <2>1, ReturnEffect, TypesKeptIfQueuesStay DEF TypeOK
<1>7. ASSUME NEW d \in Devices, SetConfig(d)
      PROVE  TypeInv'
  <2> DEFINE q == queue[Scb[d]]
  <2>1. /\ discarded' = discarded \cup {Content(q)[i] : i \in 1 .. q.avail}
        /\ queue' = [queue EXCEPT ![Scb[d]] = EmptyQueue]
        /\ added' = [added EXCEPT ![Scb[d]] = {}]
        /\ UNCHANGED <<sent, call, delivered>>
    BY <1>7 DEF SetConfig
  <2>2. Scb[d] \in Scbs /\ q \in CyDataQueue
    BY <1>1, UartReadAssumption DEF TypeOK
  <2>3. discarded' \subseteq Byte
    <3>1. Content(q) \in Seq(Byte) /\ Len(Content(q)) = q.avail
      BY <2>2, ContentType
    <3>2. \A i \in 1 .. q.avail : Content(q)[i] \in Byte
      BY <3>1
    <3>. QED  BY <1>1, <2>1, <3>2 DEF TypeOK
  <2>. HIDE DEF q
  <2>4. TypeOK'
    BY <1>1, <2>1, <2>2, <2>3, EmptyQueueType DEF TypeOK, WellFormed
  <2>5. \A s \in Scbs : WellFormed(queue'[s])
    BY <1>1, <2>1, EmptyQueueType DEF TypeInv, TypeOK
  <2>. QED  BY <2>1, <2>4, <2>5 DEF TypeInv, Looping, SuccessMeansFull
<1>8. CASE UNCHANGED vars
  BY <1>8 DEF vars, TypeInv, TypeOK, Looping, SuccessMeansFull
<1>. QED  BY <1>2, <1>3, <1>4, <1>5, <1>6, <1>7, <1>8 DEF Next

LEMMA TypeInvariant == Spec => []TypeInv
BY TypeInitial, TypeStep, PTL DEF Spec

(* Every variable keeps its type, however many threads read and whatever   *)
(* libusb does; in particular no call copies more bytes to its caller's    *)
(* buffer than fit, and no position leaves the ring.                       *)
THEOREM ReadersTypeCorrect == Spec => []TypeOK
BY TypeInvariant, PTL DEF TypeInv

(* A call that reports success has filled its caller's buffer: neither the *)
(* end of its time nor a short or an empty packet looks like the whole     *)
(* read.                                                                   *)
THEOREM ReadSuccessMeansFull == Spec => []SuccessMeansFull
BY TypeInvariant, PTL DEF TypeInv

-----------------------------------------------------------------------------
(***************************************************************************)
(* The left-over queues with no more threads than pages.                   *)
(***************************************************************************)

(* A queue holds at most one left-over per thread that added to it, and a  *)
(* thread in its loop has not added to the queue since it was empty.       *)
FillInv ==
  /\ \A s \in Scbs : queue[s].avail <= Cardinality(added[s]) * (EpSize - 1)
  /\ \A r \in Readers : Looping(r) => r \notin added[Scb[call[r].dev]]

(* The bound on a queue is a number, and below the capacity of the ring.   *)
LEMMA FillBound ==
  ASSUME Cardinality(Readers) <= Pages, NEW S \in SUBSET Readers
  PROVE  /\ Cardinality(S) \in Nat
         /\ Cardinality(S) * (EpSize - 1) \in Nat
         /\ \A m \in Nat : m <= Cardinality(S) * (EpSize - 1) => m < Capacity
<1>1. Cardinality(S) \in Nat /\ Cardinality(S) <= Cardinality(Readers)
  BY ReadersCount
<1>2. Cardinality(Readers) \in Nat
  BY ReadersCount
<1>3. Cardinality(S) <= Pages
  BY <1>1, <1>2, QueueAssumption
<1>4. EpSize - 1 \in Nat
  BY QueueAssumption
<1>. QED  BY <1>1, <1>3, <1>4, TimesSuccessor, PagesSuffice

LEMMA FillFits ==
  ASSUME Cardinality(Readers) <= Pages, TypeInv, FillInv
  PROVE  QueueFits
<1> SUFFICES ASSUME NEW s \in Scbs
             PROVE  /\ queue[s].avail <= Cardinality(added[s]) * (EpSize - 1)
                    /\ queue[s].avail < Capacity
  BY DEF QueueFits
<1>1. queue[s].avail \in Nat /\ added[s] \in SUBSET Readers
  BY Fields DEF TypeInv, TypeOK
<1>. QED  BY <1>1, FillBound DEF FillInv

(* A step that leaves the queues and keeps every loop to its device keeps  *)
(* the bound.                                                              *)
LEMMA FillKeptIfQueuesStay ==
  ASSUME FillInv, UNCHANGED <<queue, added>>,
         \A r \in Readers : Looping(r)' => Looping(r) /\ call'[r].dev = call[r].dev
  PROVE  FillInv'
BY DEF FillInv

(* The start of a call that goes on to its loop leaves the queue empty.    *)
LEMMA FillBegin ==
  ASSUME Cardinality(Readers) <= Pages, TypeInv, FillInv, NEW r \in Readers,
         NEW d \in Reads[r], NEW n \in Lengths, NEW t \in Timeouts, Begin(r, d, n, t)
  PROVE  FillInv'
<1>1. PICK c \in Call, left \in CyDataQueue :
        /\ Scb[d] \in Scbs
        /\ c.dev = d
        /\ WellFormed(left)
        /\ left.avail <= queue[Scb[d]].avail
        /\ queue[Scb[d]].avail < Capacity /\ c.pc = "bulk" => left.avail = 0
        /\ c.pc = IF Len(c.buffer) = n THEN "return" ELSE "bulk"
        /\ queue' = [queue EXCEPT ![Scb[d]] = left]
        /\ added' = [added EXCEPT ![Scb[d]] = IF left.avail = 0 THEN {} ELSE @]
        /\ call' = [call EXCEPT ![r] = c]
  BY BeginEffect
<1>2. QueueFits
  BY FillFits
<1>3. c.pc = "bulk" => left.avail = 0
  BY <1>1, <1>2 DEF QueueFits
<1>4. /\ \A s \in Scbs : queue'[s] = IF s = Scb[d] THEN left ELSE queue[s]
      /\ \A s \in Scbs : added'[s] = IF s = Scb[d] /\ left.avail = 0 THEN {} ELSE added[s]
      /\ \A x \in Readers : call'[x] = IF x = r THEN c ELSE call[x]
  BY <1>1 DEF TypeInv, TypeOK
<1>5. ASSUME NEW s \in Scbs
      PROVE  queue'[s].avail <= Cardinality(added'[s]) * (EpSize - 1)
  <2>1. CASE s = Scb[d] /\ left.avail = 0
    <3>1. Cardinality(added'[s]) = 0
      BY <1>4, <2>1, FS_EmptySet
    <3>. QED  BY <1>4, <2>1, <3>1, QueueAssumption
  <2>2. CASE s = Scb[d] /\ left.avail # 0
    <3>1. queue[s].avail \in Nat /\ left.avail \in Nat
      BY <1>1, Fields DEF TypeInv
    <3>2. added[s] \in SUBSET Readers
      BY DEF TypeInv, TypeOK
    <3>3. Cardinality(added[s]) * (EpSize - 1) \in Nat
      BY <3>2, FillBound
    <3>4. queue[s].avail <= Cardinality(added[s]) * (EpSize - 1)
      BY DEF FillInv
    <3>. QED  BY <1>1, <1>4, <2>2, <3>1, <3>3, <3>4
  <2>3. CASE s # Scb[d]
    BY <1>4, <2>3 DEF FillInv
  <2>. QED  BY <2>1, <2>2, <2>3
<1>6. ASSUME NEW x \in Readers, Looping(x)'
      PROVE  x \notin added'[Scb[call'[x].dev]]
  <2>1. CASE x = r
    <3>1. left.avail = 0 /\ call'[x].dev = d
      BY <1>1, <1>3, <1>4, <1>6, <2>1 DEF Looping
    <3>. QED  BY <1>1, <1>4, <3>1
  <2>2. CASE x # r
    <3>1. call'[x] = call[x] /\ Looping(x)
      BY <1>4, <1>6, <2>2 DEF Looping
    <3>2. Scb[call[x].dev] \in Scbs
      BY <3>1, CallType DEF Looping, TypeInv
    <3>. QED  BY <1>4, <3>1, <3>2 DEF FillInv
  <2>. QED  BY <2>1, <2>2
<1>. QED  BY <1>5, <1>6 DEF FillInv

(* A thread in its loop can add a left-over of less than a packet: it is   *)
(* its first since the queue was empty, and the ring has room for it.      *)
LEMMA FillRoom ==
  ASSUME Cardinality(Readers) <= Pages, TypeInv, FillInv,
         NEW r \in Readers, Looping(r), NEW s \in Scbs, s = Scb[call[r].dev],
         NEW k \in 0 .. EpSize - 1
  PROVE  /\ queue[s].avail + k <= Cardinality(added[s] \cup {r}) * (EpSize - 1)
         /\ queue[s].avail + k < Capacity
<1> DEFINE n == Cardinality(added[s])
           m == EpSize - 1
<1>1. /\ added[s] \in SUBSET Readers /\ added[s] \cup {r} \in SUBSET Readers
      /\ r \notin added[s]
      /\ queue[s].avail \in Nat /\ queue[s].avail <= n * m
  BY Fields DEF TypeInv, TypeOK, FillInv
<1>2. n \in Nat /\ Cardinality(added[s] \cup {r}) = n + 1 /\ m \in Nat /\ k \in Nat /\ k <= m
  BY <1>1, ReadersCount, FS_AddElement, QueueAssumption
<1>3. n * m \in Nat /\ (n + 1) * m = n * m + m
  <2> HIDE DEF n, m
  <2>. QED  BY <1>2, TimesSuccessor
<1>4. queue[s].avail + k \in Nat /\ queue[s].avail + k <= (n + 1) * m
  <2> HIDE DEF n, m
  <2>. QED  BY <1>1, <1>2, <1>3
<1>5. queue[s].avail + k < Capacity
  BY <1>1, <1>2, <1>4, FillBound
<1>. QED  BY <1>2, <1>4, <1>5

(* A call that adds to the queue leaves its loop. *)
LEMMA FillCopy ==
  ASSUME Cardinality(Readers) <= Pages, TypeInv, FillInv, NEW r \in Readers, Copy(r)
  PROVE  FillInv'
<1>1. PICK c \in Call, rest \in Seq(Byte) :
        /\ call[r].pc = "copy"
        /\ Scb[c.dev] \in Scbs
        /\ c.dev = call[r].dev
        /\ c.pc \in {"bulk", "return"}
        /\ c.pc = "bulk" => rest = <<>>
        /\ Len(rest) \in 0 .. EpSize - 1
        /\ queue' = [queue EXCEPT ![Scb[c.dev]] = AfterAdd(@, rest)]
        /\ added' = [added EXCEPT ![Scb[c.dev]] = IF rest = <<>> THEN @ ELSE @ \cup {r}]
        /\ call' = [call EXCEPT ![r] = c]
  BY CopyEffect
<1> DEFINE s0 == Scb[c.dev]
           q  == queue[s0]
<1>2. /\ \A s \in Scbs : queue'[s] = IF s = s0 THEN AfterAdd(q, rest) ELSE queue[s]
      /\ \A s \in Scbs : added'[s] = IF s = s0 /\ rest # <<>>
                                     THEN added[s] \cup {r} ELSE added[s]
      /\ \A x \in Readers : call'[x] = IF x = r THEN c ELSE call[x]
  BY <1>1 DEF TypeInv, TypeOK
<1>3. /\ s0 \in Scbs /\ r \notin added[s0]
      /\ WellFormed(q) /\ q.avail \in Nat /\ Len(rest) \in Nat /\ Capacity \in Nat
  BY <1>1, Fields, CapacityType DEF TypeInv, FillInv, Looping
<1>4. /\ q.avail + Len(rest) <= Cardinality(added[s0] \cup {r}) * (EpSize - 1)
      /\ q.avail + Len(rest) < Capacity
  BY <1>1, <1>3, FillRoom DEF Looping
<1>5. AfterAdd(q, rest).avail = q.avail + Len(rest)
  BY <1>3, <1>4, AddLeaves
<1>. HIDE DEF q, s0
<1>6. ASSUME NEW s \in Scbs
      PROVE  queue'[s].avail <= Cardinality(added'[s]) * (EpSize - 1)
  <2>1. CASE s = s0 /\ rest # <<>>
    BY <1>2, <1>4, <1>5, <2>1
  <2>2. CASE s = s0 /\ rest = <<>>
    <3>1. Len(rest) = 0
      BY <2>2
    <3>2. AfterAdd(q, rest).avail = q.avail
      BY <1>3, <1>5, <3>1
    <3>. QED  BY <1>2, <2>2, <3>2 DEF q, FillInv
  <2>3. CASE s # s0
    BY <1>2, <2>3 DEF FillInv
  <2>. QED  BY <2>1, <2>2, <2>3
<1>7. ASSUME NEW x \in Readers, Looping(x)'
      PROVE  x \notin added'[Scb[call'[x].dev]]
  <2>1. CASE x = r
    <3>1. rest = <<>> /\ call'[x].dev = c.dev
      BY <1>1, <1>2, <1>7, <2>1 DEF Looping
    <3>. QED  BY <1>2, <1>3, <2>1, <3>1 DEF s0
  <2>2. CASE x # r
    <3>1. call'[x] = call[x] /\ Looping(x)
      BY <1>2, <1>7, <2>2 DEF Looping
    <3>2. Scb[call[x].dev] \in Scbs
      BY <3>1, CallType DEF Looping, TypeInv
    <3>3. x \notin added[Scb[call[x].dev]]
      BY <3>1 DEF FillInv
    <3>4. \A s \in Scbs : added'[s] \subseteq added[s] \cup {r}
      BY <1>2
    <3>. QED  BY <2>2, <3>1, <3>2, <3>3, <3>4
  <2>. QED  BY <2>1, <2>2
<1>. QED  BY <1>6, <1>7 DEF FillInv

(* A queue that is wiped is empty, and nobody has added to it. *)
LEMMA FillSetConfig ==
  ASSUME TypeInv, FillInv, NEW d \in Devices, SetConfig(d)
  PROVE  FillInv'
<1>1. /\ queue' = [queue EXCEPT ![Scb[d]] = EmptyQueue]
      /\ added' = [added EXCEPT ![Scb[d]] = {}]
      /\ UNCHANGED call
  BY DEF SetConfig
<1>2. /\ \A s \in Scbs : queue'[s] = IF s = Scb[d] THEN EmptyQueue ELSE queue[s]
      /\ \A s \in Scbs : added'[s] = IF s = Scb[d] THEN {} ELSE added[s]
  BY <1>1 DEF TypeInv, TypeOK
<1>3. ASSUME NEW s \in Scbs
      PROVE  queue'[s].avail <= Cardinality(added'[s]) * (EpSize - 1)
  <2>1. CASE s = Scb[d]
    <3>1. Cardinality(added'[s]) = 0 /\ queue'[s].avail = 0
      BY <1>2, <2>1, FS_EmptySet, EmptyQueueType
    <3>. QED  BY <3>1, QueueAssumption
  <2>2. CASE s # Scb[d]
    BY <1>2, <2>2 DEF FillInv
  <2>. QED  BY <2>1, <2>2
<1>4. ASSUME NEW x \in Readers, Looping(x)'
      PROVE  x \notin added'[Scb[call'[x].dev]]
  <2>1. call'[x] = call[x] /\ Looping(x)
    BY <1>1, <1>4 DEF Looping
  <2>2. Scb[call[x].dev] \in Scbs
    BY <2>1, CallType DEF Looping, TypeInv
  <2>. QED  BY <1>2, <2>1, <2>2 DEF FillInv
<1>. QED  BY <1>3, <1>4 DEF FillInv

LEMMA FillStep ==
  ASSUME Cardinality(Readers) <= Pages, TypeInv, FillInv, [Next]_vars
  PROVE  FillInv'
<1>1. ASSUME NEW r \in Readers, NEW d \in Reads[r], NEW n \in Lengths,
             NEW t \in Timeouts, Begin(r, d, n, t)
      PROVE  FillInv'
  BY <1>1, FillBegin
<1>2. ASSUME NEW r \in Readers, Transfer(r) \/ SubmitFails(r)
      PROVE  FillInv'
  <2>1. PICK c \in Call :
          /\ call[r].pc = "bulk" /\ c.dev = call[r].dev
          /\ call' = [call EXCEPT ![r] = c]
          /\ UNCHANGED <<queue, added>>
    BY <1>2, TransferEffect, SubmitFailsEffect
  <2>2. \A x \in Readers : call'[x] = IF x = r THEN c ELSE call[x]
    BY <2>1 DEF TypeInv, TypeOK
  <2>. QED  BY <2>1, <2>2, FillKeptIfQueuesStay DEF Looping
<1>3. ASSUME NEW r \in Readers, Copy(r)
      PROVE  FillInv'
  BY <1>3, FillCopy
<1>4. ASSUME NEW r \in Readers, Return(r)
      PROVE  FillInv'
  <2>1. call' = [call EXCEPT ![r] = Idle] /\ UNCHANGED <<queue, added>>
    BY <1>4, ReturnEffect
  <2>2. \A x \in Readers : call'[x] = IF x = r THEN Idle ELSE call[x]
    BY <2>1 DEF TypeInv, TypeOK
  <2>. QED  BY <2>1, <2>2, FillKeptIfQueuesStay DEF Looping, Idle
<1>5. ASSUME NEW d \in Devices, SetConfig(d)
      PROVE  FillInv'
  BY <1>5, FillSetConfig
<1>6. CASE UNCHANGED vars
  BY <1>6, FillKeptIfQueuesStay DEF vars, Looping
<1>. QED  BY <1>1, <1>2, <1>3, <1>4, <1>5, <1>6 DEF Next

LEMMA FillInitial == Init => FillInv
<1> SUFFICES ASSUME Init PROVE FillInv
  OBVIOUS
<1>1. \A s \in Scbs : queue[s].avail = 0 /\ Cardinality(added[s]) = 0
  BY EmptyQueueType, FS_EmptySet DEF Init
<1>2. \A r \in Readers : ~Looping(r)
  BY DEF Init, Idle, Looping
<1>. QED  BY <1>1, <1>2, QueueAssumption DEF FillInv

(* With no more threads than pages, a queue holds at most one left-over    *)
(* per thread that added to it and is never full: no byte is dropped and   *)
(* none stays behind, which is what the comment at the queue's size says   *)
(* of the library's architecture.                                          *)
THEOREM ReadersNeverFillQueue ==
  ASSUME Cardinality(Readers) <= Pages
  PROVE  Spec => []QueueFits
<1>1. TypeInv /\ FillInv /\ [Next]_vars => FillInv'
  BY FillStep
<1>2. TypeInv /\ FillInv => QueueFits
  BY FillFits
<1>. QED  BY <1>1, <1>2, FillInitial, TypeInvariant, PTL DEF Spec

-----------------------------------------------------------------------------
(***************************************************************************)
(* Every byte in one place.  The bytes are kept in accounts: what each     *)
(* device's readers were handed, what each call has in hand, and what each *)
(* queue holds.  A step moves bytes from one account to another, pays in   *)
(* the bytes of a packet, or writes those of a queue off.                  *)
(***************************************************************************)
Owners ==
  ({"delivered"} \X Devices) \cup ({"call"} \X Readers) \cup ({"queue"} \X Scbs)

HeldBy(del, calls, queues) ==
  [o \in Owners |-> IF o[1] = "delivered" THEN del[o[2]]
                    ELSE IF o[1] = "call" THEN InHand(calls[o[2]])
                    ELSE Content(queues[o[2]])]

Held == HeldBy(delivered, call, queue)

(* The bytes the devices have sent. *)
SentBytes == {b \in Devices \X (1 .. MaxSent) : b[2] <= sent[b[1]]}

(* The accounts H and the discarded bytes X share out the bytes S: no byte *)
(* is twice in an account, in two of them, or in one and discarded.        *)
Accounts(H, X, S) ==
  /\ H \in [Owners -> Seq(Byte)]
  /\ \A o \in Owners : IsInjective(H[o])
  /\ \A o, p \in Owners : o # p => Range(H[o]) \cap Range(H[p]) = {}
  /\ \A o \in Owners : Range(H[o]) \cap X = {}
  /\ \A b : b \in S <=> b \in X \/ \E o \in Owners : b \in Range(H[o])

ByteInv == Accounts(Held, discarded, SentBytes)

(* A concatenation has the bytes of both parts, and repeats none when      *)
(* neither part does and they have none in common.                         *)
LEMMA ConcatBytes ==
  ASSUME NEW u \in Seq(Byte), NEW v \in Seq(Byte)
  PROVE  /\ u \o v \in Seq(Byte)
         /\ Range(u \o v) = Range(u) \cup Range(v)
         /\ IsInjective(u \o v) <=>
              IsInjective(u) /\ IsInjective(v) /\ Range(u) \cap Range(v) = {}
<1> DEFINE w == u \o v
           m == Len(u)
           k == Len(v)
<1>1. /\ w \in Seq(Byte) /\ Len(w) = m + k /\ m \in Nat /\ k \in Nat
      /\ DOMAIN u = 1 .. m /\ DOMAIN v = 1 .. k /\ DOMAIN w = 1 .. m + k
  BY ConcatProperties, LenProperties
<1>2. \A i \in 1 .. m + k : w[i] = IF i <= m THEN u[i] ELSE v[i - m]
  BY ConcatProperties
<1>3. /\ \A i \in DOMAIN u : i \in DOMAIN w /\ i <= m /\ w[i] = u[i]
      /\ \A i \in DOMAIN v : m + i \in DOMAIN w /\ m + i > m /\ w[m + i] = v[i]
      /\ \A i \in DOMAIN w : \/ i \in DOMAIN u /\ w[i] = u[i]
                             \/ i - m \in DOMAIN v /\ w[i] = v[i - m]
  <2>. HIDE DEF w, m, k
  <2>. QED  BY <1>1, <1>2
<1>4. Range(w) = Range(u) \cup Range(v)
  BY RangeConcatenation
<1>5. ASSUME IsInjective(w)
      PROVE  IsInjective(u) /\ IsInjective(v) /\ Range(u) \cap Range(v) = {}
  <2>. HIDE DEF w
  <2>1. ASSUME NEW i \in DOMAIN u, NEW j \in DOMAIN u, u[i] = u[j]
        PROVE  i = j
    BY <1>3, <1>5, <2>1 DEF IsInjective
  <2>2. ASSUME NEW i \in DOMAIN v, NEW j \in DOMAIN v, v[i] = v[j]
        PROVE  i = j
    <3>1. m + i = m + j
      BY <1>3, <1>5, <2>2 DEF IsInjective
    <3>. HIDE DEF m
    <3>. QED  BY <1>1, <3>1
  <2>3. ASSUME NEW i \in DOMAIN u, NEW j \in DOMAIN v, u[i] = v[j]
        PROVE  FALSE
    <3>1. i = m + j
      BY <1>3, <1>5, <2>3 DEF IsInjective
    <3>2. i <= m /\ m + j > m
      BY <1>3
    <3>. HIDE DEF m
    <3>. QED  BY <1>1, <3>1, <3>2
  <2>. QED  BY <2>1, <2>2, <2>3 DEF IsInjective, Range
<1>6. ASSUME IsInjective(u), IsInjective(v), Range(u) \cap Range(v) = {},
             NEW i \in DOMAIN w, NEW j \in DOMAIN w, w[i] = w[j]
      PROVE  i = j
  <2>1. \A a \in DOMAIN u, b \in DOMAIN v : u[a] # v[b]
    BY <1>6 DEF Range
  <2>2. CASE i \in DOMAIN u /\ w[i] = u[i] /\ j \in DOMAIN u /\ w[j] = u[j]
    BY <1>6, <2>2 DEF IsInjective
  <2>3. CASE i - m \in DOMAIN v /\ w[i] = v[i - m] /\ j - m \in DOMAIN v /\ w[j] = v[j - m]
    <3>1. i - m = j - m
      BY <1>6, <2>3 DEF IsInjective
    <3>2. i \in Nat /\ j \in Nat
      BY <1>1, <1>6
    <3>. HIDE DEF m
    <3>. QED  BY <1>1, <3>1, <3>2
  <2>. QED  BY <1>3, <1>6, <2>1, <2>2, <2>3
<1>. HIDE DEF w
<1>7. IsInjective(w) <=> IsInjective(u) /\ IsInjective(v) /\ Range(u) \cap Range(v) = {}
  BY <1>5, <1>6 DEF IsInjective
<1>. QED  BY <1>1, <1>4, <1>7 DEF w

(* No bytes. *)
LEMMA NoBytes == <<>> \in Seq(Byte) /\ Range(<<>>) = {} /\ IsInjective(<<>>)
BY DEF Range, IsInjective

(* From H to H2, account x passes the bytes v on to account y and keeps u. *)
Moved(H, H2, x, y, u, v) ==
  /\ H2 \in [Owners -> Seq(Byte)]
  /\ x \in Owners /\ y \in Owners /\ x # y
  /\ u \in Seq(Byte) /\ v \in Seq(Byte)
  /\ H[x] = u \o v \/ H[x] = v \o u
  /\ H2[x] = u /\ H2[y] = H[y] \o v
  /\ \A o \in Owners : o # x /\ o # y => H2[o] = H[o]

LEMMA BytesMoved ==
  ASSUME NEW H, NEW X, NEW S, Accounts(H, X, S), NEW H2,
         NEW x, NEW y, NEW u, NEW v, Moved(H, H2, x, y, u, v)
  PROVE  Accounts(H2, X, S)
<1>. /\ H2 \in [Owners -> Seq(Byte)]
     /\ x \in Owners /\ y \in Owners /\ x # y
     /\ u \in Seq(Byte) /\ v \in Seq(Byte)
     /\ H[x] = u \o v \/ H[x] = v \o u
     /\ H2[x] = u /\ H2[y] = H[y] \o v
     /\ \A o \in Owners : o # x /\ o # y => H2[o] = H[o]
  BY DEF Moved
<1>1. /\ Range(H[x]) = Range(u) \cup Range(v)
      /\ IsInjective(u) /\ IsInjective(v) /\ Range(u) \cap Range(v) = {}
  <2>1. IsInjective(H[x])
    BY DEF Accounts
  <2>2. CASE H[x] = u \o v
    BY <2>1, <2>2, ConcatBytes
  <2>3. CASE H[x] = v \o u
    BY <2>1, <2>3, ConcatBytes
  <2>. QED  BY <2>2, <2>3
<1>2. H[y] \in Seq(Byte) /\ IsInjective(H[y]) /\ Range(H[x]) \cap Range(H[y]) = {}
  BY DEF Accounts
<1>3. Range(H2[y]) = Range(H[y]) \cup Range(v) /\ IsInjective(H2[y])
  <2>1. Range(H[y]) \cap Range(v) = {}
    BY <1>1, <1>2
  <2>. QED  BY <1>1, <1>2, <2>1, ConcatBytes
<1>4. \A o \in Owners : IsInjective(H2[o])
  BY <1>1, <1>3 DEF Accounts
<1>5. /\ \A o \in Owners : o # x /\ o # y => Range(H2[o]) = Range(H[o])
      /\ Range(H2[x]) = Range(u)
  OBVIOUS
<1>6. ASSUME NEW o \in Owners, NEW p \in Owners, o # p
      PROVE  Range(H2[o]) \cap Range(H2[p]) = {}
  <2>1. \A a, b \in Owners : a # b => Range(H[a]) \cap Range(H[b]) = {}
    BY DEF Accounts
  <2>2. \A a \in Owners : a # x /\ a # y => Range(H2[a]) \cap Range(u) = {}
                                         /\ Range(H2[a]) \cap Range(v) = {}
                                         /\ Range(H2[a]) \cap Range(H[y]) = {}
    BY <1>1, <1>5, <2>1
  <2>3. \A a \in Owners : a # x /\ a # y => Range(H2[a]) \cap Range(H2[x]) = {}
                                         /\ Range(H2[a]) \cap Range(H2[y]) = {}
    BY <1>3, <1>5, <2>2
  <2>4. Range(H2[x]) \cap Range(H2[y]) = {} /\ Range(H2[y]) \cap Range(H2[x]) = {}
    BY <1>1, <1>2, <1>3, <1>5
  <2>5. CASE o \in {x, y} /\ p \in {x, y}
    <3>1. (o = x /\ p = y) \/ (o = y /\ p = x)
      BY <1>6, <2>5
    <3>. QED  BY <2>4, <3>1
  <2>6. CASE o \notin {x, y} /\ p \in {x, y}
    BY <2>3, <2>6
  <2>7. CASE o \in {x, y} /\ p \notin {x, y}
    BY <2>3, <2>7
  <2>8. CASE o \notin {x, y} /\ p \notin {x, y}
    BY <1>5, <1>6, <2>1, <2>8
  <2>. QED  BY <2>5, <2>6, <2>7, <2>8
<1>7. \A o \in Owners : Range(H2[o]) \cap X = {}
  BY <1>1, <1>3, <1>5 DEF Accounts
<1>8. ASSUME NEW b
      PROVE  (\E o \in Owners : b \in Range(H2[o])) <=> (\E o \in Owners : b \in Range(H[o]))
  BY <1>1, <1>3, <1>5
<1>. QED  BY <1>4, <1>6, <1>7, <1>8 DEF Accounts

(* From H to H2, the bytes v are paid in to account x. *)
PaidIn(H, H2, x, v) ==
  /\ H2 \in [Owners -> Seq(Byte)]
  /\ x \in Owners /\ v \in Seq(Byte)
  /\ H2[x] = H[x] \o v
  /\ \A o \in Owners : o # x => H2[o] = H[o]

LEMMA BytesPaidIn ==
  ASSUME NEW H, NEW X, NEW S, Accounts(H, X, S), NEW H2,
         NEW x, NEW v, PaidIn(H, H2, x, v), IsInjective(v), Range(v) \cap S = {}
  PROVE  Accounts(H2, X, S \cup Range(v))
<1>. /\ H2 \in [Owners -> Seq(Byte)]
     /\ x \in Owners /\ v \in Seq(Byte)
     /\ H2[x] = H[x] \o v
     /\ \A o \in Owners : o # x => H2[o] = H[o]
  BY DEF PaidIn
<1>1. /\ \A o \in Owners : Range(H[o]) \cap Range(v) = {}
      /\ X \cap Range(v) = {}
  BY DEF Accounts
<1>2. Range(H2[x]) = Range(H[x]) \cup Range(v) /\ IsInjective(H2[x])
  <2>1. H[x] \in Seq(Byte) /\ IsInjective(H[x])
    BY DEF Accounts
  <2>. QED  BY <1>1, <2>1, ConcatBytes
<1>3. \A o \in Owners : IsInjective(H2[o])
  BY <1>2 DEF Accounts
<1>4. ASSUME NEW o \in Owners, NEW p \in Owners, o # p
      PROVE  Range(H2[o]) \cap Range(H2[p]) = {}
  <2>1. Range(H[o]) \cap Range(H[p]) = {}
    BY <1>4 DEF Accounts
  <2>. QED  BY <1>1, <1>2, <1>4, <2>1
<1>5. \A o \in Owners : Range(H2[o]) \cap X = {}
  BY <1>1, <1>2 DEF Accounts
<1>6. ASSUME NEW b
      PROVE  (\E o \in Owners : b \in Range(H2[o])) <=>
               b \in Range(v) \/ \E o \in Owners : b \in Range(H[o])
  BY <1>2
<1>. QED  BY <1>3, <1>4, <1>5, <1>6 DEF Accounts

(* From H to H2, the bytes of account x are written off. *)
WrittenOff(H, H2, x) ==
  /\ H2 \in [Owners -> Seq(Byte)]
  /\ x \in Owners
  /\ H2[x] = <<>>
  /\ \A o \in Owners : o # x => H2[o] = H[o]

LEMMA BytesWrittenOff ==
  ASSUME NEW H, NEW X, NEW S, Accounts(H, X, S), NEW H2, NEW x, WrittenOff(H, H2, x)
  PROVE  Accounts(H2, X \cup Range(H[x]), S)
<1>. /\ H2 \in [Owners -> Seq(Byte)]
     /\ x \in Owners
     /\ H2[x] = <<>>
     /\ \A o \in Owners : o # x => H2[o] = H[o]
  BY DEF WrittenOff
<1>1. Range(H2[x]) = {} /\ IsInjective(H2[x])
  BY NoBytes
<1>2. \A o \in Owners : IsInjective(H2[o])
  BY <1>1 DEF Accounts
<1>3. ASSUME NEW o \in Owners, NEW p \in Owners, o # p
      PROVE  Range(H2[o]) \cap Range(H2[p]) = {}
  <2>1. Range(H[o]) \cap Range(H[p]) = {}
    BY <1>3 DEF Accounts
  <2>. QED  BY <1>1, <1>3, <2>1
<1>4. ASSUME NEW o \in Owners
      PROVE  Range(H2[o]) \cap (X \cup Range(H[x])) = {}
  BY <1>1 DEF Accounts
<1>5. ASSUME NEW b
      PROVE  (\E o \in Owners : b \in Range(H[o])) <=>
               b \in Range(H[x]) \/ \E o \in Owners : b \in Range(H2[o])
  BY <1>1
<1>. QED  BY <1>2, <1>3, <1>4, <1>5 DEF Accounts

(* The owners of the accounts. *)
LEMMA OwnerCases ==
  /\ \A d \in Devices : <<"delivered", d>> \in Owners
  /\ \A r \in Readers : <<"call", r>> \in Owners
  /\ \A s \in Scbs : <<"queue", s>> \in Owners
  /\ \A o \in Owners : \/ \E d \in Devices : o = <<"delivered", d>>
                       \/ \E r \in Readers : o = <<"call", r>>
                       \/ \E s \in Scbs : o = <<"queue", s>>
BY DEF Owners

(* What a call has in hand is a sequence of bytes. *)
LEMMA InHandType ==
  ASSUME NEW c \in Call \cup {Idle}
  PROVE  InHand(c) \in Seq(Byte)
<1>1. CASE c.pc = "idle"
  BY <1>1, NoBytes DEF InHand
<1>2. CASE c.pc # "idle"
  <2>1. c.buffer \in Seq(Byte) /\ c.packet \in Packet
    BY <1>2 DEF Call, Idle
  <2>2. c.packet \in Seq(Byte)
    BY <2>1, QueueAssumption DEF Packet
  <2>. QED  BY <2>1, <2>2, NoBytes, ConcatProperties DEF InHand
<1>. QED  BY <1>1, <1>2

(* The accounts one by one. *)
LEMMA HeldParts ==
  ASSUME NEW del \in [Devices -> Seq(Byte)],
         NEW calls \in [Readers -> Call \cup {Idle}],
         NEW queues \in [Scbs -> CyDataQueue]
  PROVE  /\ HeldBy(del, calls, queues) \in [Owners -> Seq(Byte)]
         /\ \A d \in Devices :
              HeldBy(del, calls, queues)[<<"delivered", d>>] = del[d]
         /\ \A r \in Readers :
              HeldBy(del, calls, queues)[<<"call", r>>] = InHand(calls[r])
         /\ \A s \in Scbs :
              HeldBy(del, calls, queues)[<<"queue", s>>] = Content(queues[s])
<1> DEFINE H == HeldBy(del, calls, queues)
<1>1. /\ \A d \in Devices : del[d] \in Seq(Byte)
      /\ \A r \in Readers : InHand(calls[r]) \in Seq(Byte)
      /\ \A s \in Scbs : Content(queues[s]) \in Seq(Byte)
  BY InHandType, ContentType
<1>2. /\ \A d \in Devices : H[<<"delivered", d>>] = del[d]
      /\ \A r \in Readers : H[<<"call", r>>] = InHand(calls[r])
      /\ \A s \in Scbs : H[<<"queue", s>>] = Content(queues[s])
  BY DEF HeldBy, Owners
<1>3. H = [o \in Owners |-> H[o]]
  BY DEF HeldBy
<1>. HIDE DEF H
<1>4. \A o \in Owners : H[o] \in Seq(Byte)
  BY <1>1, <1>2, OwnerCases
<1>5. H \in [Owners -> Seq(Byte)]
  BY <1>3, <1>4
<1>. QED  BY <1>2, <1>5 DEF H

LEMMA HeldNow ==
  ASSUME TypeOK
  PROVE  /\ Held \in [Owners -> Seq(Byte)]
         /\ \A d \in Devices : Held[<<"delivered", d>>] = delivered[d]
         /\ \A r \in Readers : Held[<<"call", r>>] = InHand(call[r])
         /\ \A s \in Scbs : Held[<<"queue", s>>] = Content(queue[s])
<1>1. /\ delivered \in [Devices -> Seq(Byte)]
      /\ call \in [Readers -> Call \cup {Idle}]
      /\ queue \in [Scbs -> CyDataQueue]
  BY DEF TypeOK
<1>. QED  BY <1>1, HeldParts DEF Held

LEMMA HeldNext ==
  ASSUME TypeOK'
  PROVE  /\ Held' \in [Owners -> Seq(Byte)]
         /\ \A d \in Devices : Held'[<<"delivered", d>>] = delivered'[d]
         /\ \A r \in Readers : Held'[<<"call", r>>] = InHand(call'[r])
         /\ \A s \in Scbs : Held'[<<"queue", s>>] = Content(queue'[s])
<1>1. /\ delivered' \in [Devices -> Seq(Byte)]
      /\ call' \in [Readers -> Call \cup {Idle}]
      /\ queue' \in [Scbs -> CyDataQueue]
  BY DEF TypeOK
<1>. QED  BY <1>1, HeldParts DEF Held

(* The start of a call moves bytes from the queue to the call's hand. *)
LEMMA BytesBegin ==
  ASSUME TypeInv, TypeInv', ByteInv, NEW r \in Readers, NEW d \in Reads[r],
         NEW n \in Lengths, NEW t \in Timeouts, Begin(r, d, n, t)
  PROVE  ByteInv'
<1>1. PICK c \in Call, left \in CyDataQueue :
        /\ Scb[d] \in Scbs
        /\ call[r].pc = "idle"
        /\ c.pc \in {"return", "bulk"}
        /\ WellFormed(left)
        /\ Content(queue[Scb[d]]) = c.buffer \o Content(left)
        /\ queue' = [queue EXCEPT ![Scb[d]] = left]
        /\ call' = [call EXCEPT ![r] = c]
        /\ UNCHANGED <<sent, delivered, discarded>>
  <2>1. PICK c \in Call, left \in CyDataQueue :
          /\ Scb[d] \in Scbs
          /\ call[r].pc = "idle"
          /\ c.pc = IF Len(c.buffer) = n THEN "return" ELSE "bulk"
          /\ WellFormed(left)
          /\ Content(queue[Scb[d]]) = c.buffer \o Content(left)
          /\ queue' = [queue EXCEPT ![Scb[d]] = left]
          /\ call' = [call EXCEPT ![r] = c]
          /\ UNCHANGED <<sent, delivered, discarded>>
    BY BeginEffect
  <2>2. c.pc \in {"return", "bulk"}
    BY <2>1
  <2>. QED  BY <2>1, <2>2
<1>2. /\ \A s \in Scbs : queue'[s] = IF s = Scb[d] THEN left ELSE queue[s]
      /\ \A x \in Readers : call'[x] = IF x = r THEN c ELSE call[x]
  BY <1>1 DEF TypeInv, TypeOK
<1> DEFINE x == <<"queue", Scb[d]>>
           y == <<"call", r>>
<1>3. /\ x \in Owners /\ y \in Owners /\ x # y /\ Held' \in [Owners -> Seq(Byte)]
      /\ Held[x] = Content(queue[Scb[d]]) /\ Held'[x] = Content(queue'[Scb[d]])
      /\ Held[y] = InHand(call[r]) /\ Held'[y] = InHand(call'[r])
  BY <1>1, OwnerCases, HeldNow, HeldNext DEF TypeInv
<1>4. c.buffer \in Seq(Byte) /\ Content(left) \in Seq(Byte)
  BY <1>1, ContentType DEF Call, WellFormed
<1>5. InHand(call[r]) = <<>> /\ InHand(c) = c.buffer
  BY <1>1 DEF InHand
<1>6. /\ Held[x] = c.buffer \o Content(left) /\ Held'[x] = Content(left)
      /\ Held'[y] = Held[y] \o c.buffer
  <2>1. Held[y] = <<>> /\ Held'[y] = c.buffer
    BY <1>2, <1>3, <1>5
  <2>2. <<>> \o c.buffer = c.buffer
    BY <1>4, ConcatEmptySeq
  <2>. QED  BY <1>1, <1>2, <1>3, <2>1, <2>2
<1>7. ASSUME NEW o \in Owners, o # x, o # y
      PROVE  Held'[o] = Held[o]
  <2>1. CASE \E e \in Devices : o = <<"delivered", e>>
    BY <1>1, <2>1, HeldNow, HeldNext DEF TypeInv
  <2>2. CASE \E q \in Readers : o = <<"call", q>>
    BY <1>2, <1>7, <2>2, HeldNow, HeldNext DEF TypeInv
  <2>3. CASE \E s \in Scbs : o = <<"queue", s>>
    <3>1. PICK s \in Scbs : o = <<"queue", s>>
      BY <2>3
    <3>2. queue'[s] = queue[s]
      BY <1>2, <1>7, <3>1
    <3>. QED  BY <3>1, <3>2, HeldNow, HeldNext DEF TypeInv
  <2>. QED  BY <2>1, <2>2, <2>3, OwnerCases
<1>8. Accounts(Held', discarded, SentBytes)
  <2>. HIDE DEF x, y
  <2>1. Accounts(Held, discarded, SentBytes)
    BY DEF ByteInv
  <2>2. \A o \in Owners : o # x /\ o # y => Held'[o] = Held[o]
    BY <1>7
  <2>3. Held[x] = Content(left) \o c.buffer \/ Held[x] = c.buffer \o Content(left)
    BY <1>6
  <2>4. Moved(Held, Held', x, y, Content(left), c.buffer)
    BY <1>3, <1>4, <1>6, <2>2, <2>3 DEF Moved
  <2>. QED  BY <2>1, <2>4, BytesMoved
<1>. QED  BY <1>1, <1>8 DEF ByteInv, SentBytes, Accounts, Owners

(* The accounts of calls and queues that a step leaves alone stay as they  *)
(* are.                                                                    *)
LEMMA OthersStay ==
  ASSUME TypeOK, TypeOK', NEW o \in Owners,
         \A d \in Devices : o = <<"delivered", d>> => delivered'[d] = delivered[d],
         \A r \in Readers : o = <<"call", r>> => call'[r] = call[r],
         \A s \in Scbs : o = <<"queue", s>> => queue'[s] = queue[s]
  PROVE  Held'[o] = Held[o]
<1>1. CASE \E d \in Devices : o = <<"delivered", d>>
  BY <1>1, HeldNow, HeldNext
<1>2. CASE \E r \in Readers : o = <<"call", r>>
  BY <1>2, HeldNow, HeldNext
<1>3. CASE \E s \in Scbs : o = <<"queue", s>>
  BY <1>3, HeldNow, HeldNext
<1>. QED  BY <1>1, <1>2, <1>3, OwnerCases

(* A packet pays in bytes that had not been sent. *)
LEMMA BytesTransfer ==
  ASSUME TypeInv, TypeInv', ByteInv, NEW r \in Readers, Transfer(r)
  PROVE  ByteInv'
<1>1. PICK k \in 0 .. EpSize, c \in Call :
        /\ call[r].pc = "bulk" /\ call[r] \in Call
        /\ c.pc = "copy" /\ c.dev = call[r].dev
        /\ c.buffer = call[r].buffer
        /\ c.packet = Stream(call[r].dev, k)
        /\ sent[c.dev] \in Nat /\ sent[c.dev] + k <= MaxSent
        /\ sent' = [sent EXCEPT ![c.dev] = @ + k]
        /\ call' = [call EXCEPT ![r] = c]
        /\ UNCHANGED <<queue, delivered, discarded, added>>
  BY TransferEffect
<1> DEFINE d == c.dev
           v == c.packet
           y == <<"call", r>>
<1>2. d \in Devices /\ k \in Nat /\ sent[d] \in Nat /\ MaxSent \in Nat
      /\ v \in Packet /\ v = [i \in 1 .. k |-> <<d, sent[d] + i>>]
      /\ sent[d] + k <= MaxSent
  <2>1. d \in Devices /\ v \in Packet
    BY DEF Call
  <2>2. k \in Nat /\ MaxSent \in Nat
    BY QueueAssumption, UartReadAssumption
  <2>3. v = [i \in 1 .. k |-> <<d, sent[d] + i>>]
    BY <1>1 DEF Stream
  <2>. QED  BY <1>1, <2>1, <2>2, <2>3
<1>3. /\ v \in Seq(Byte)
      /\ IsInjective(v)
      /\ Range(v) = {d} \X (sent[d] + 1 .. sent[d] + k)
  <2>1. v \in Seq(Byte)
    BY <1>2, QueueAssumption DEF Packet
  <2>2. IsInjective(v)
    <3> SUFFICES ASSUME NEW i \in 1 .. k, NEW j \in 1 .. k, v[i] = v[j]
                 PROVE  i = j
      BY <1>2 DEF IsInjective
    <3>1. sent[d] + i = sent[d] + j
      BY <1>2
    <3>. HIDE DEF d
    <3>. QED  BY <1>2, <3>1
  <2>3. \A i \in 1 .. k : v[i] \in {d} \X (sent[d] + 1 .. sent[d] + k)
    BY <1>2
  <2>4. \A j \in sent[d] + 1 .. sent[d] + k : j - sent[d] \in 1 .. k
                                              /\ v[j - sent[d]] = <<d, j>>
    BY <1>2
  <2>5. DOMAIN v = 1 .. k
    BY <1>2
  <2>6. Range(v) \subseteq {d} \X (sent[d] + 1 .. sent[d] + k)
    BY <2>3, <2>5 DEF Range
  <2>7. ASSUME NEW b \in {d} \X (sent[d] + 1 .. sent[d] + k)
        PROVE  b \in Range(v)
    <3>1. PICK j \in sent[d] + 1 .. sent[d] + k : b = <<d, j>>
      OBVIOUS
    <3>. QED  BY <2>4, <2>5, <3>1 DEF Range
  <2>. HIDE DEF v
  <2>. QED  BY <2>1, <2>2, <2>6, <2>7
<1>4. SentBytes' = SentBytes \cup Range(v) /\ Range(v) \cap SentBytes = {}
  <2>1. sent \in [Devices -> 0 .. MaxSent]
    BY DEF TypeInv, TypeOK
  <2>2. \A e \in Devices : sent'[e] = IF e = d THEN sent[d] + k ELSE sent[e]
    BY <1>1, <2>1
  <2>. HIDE DEF v, d
  <2>3. ASSUME NEW b \in Devices \X (1 .. MaxSent)
        PROVE  b \in Range(v) <=> b[1] = d /\ b[2] > sent[d] /\ b[2] <= sent[d] + k
    BY <1>2, <1>3
  <2>4. Range(v) \subseteq Devices \X (1 .. MaxSent)
    <3>1. sent[d] + 1 .. sent[d] + k \subseteq 1 .. MaxSent
      BY <1>2
    <3>. QED  BY <1>2, <1>3, <3>1
  <2>5. ASSUME NEW b \in Devices \X (1 .. MaxSent)
        PROVE  b[2] <= sent'[b[1]] <=> b[2] <= sent[b[1]] \/ b \in Range(v)
    <3>1. b[1] \in Devices /\ b[2] \in Nat
      OBVIOUS
    <3>2. CASE b[1] = d
      <4>1. b \in Range(v) <=> b[2] > sent[d] /\ b[2] <= sent[d] + k
        BY <2>3, <3>2
      <4>2. sent'[b[1]] = sent[d] + k /\ sent[b[1]] = sent[d]
        BY <2>2, <3>1, <3>2
      <4>. QED  BY <1>2, <3>1, <4>1, <4>2
    <3>3. CASE b[1] # d
      BY <2>2, <2>3, <3>1, <3>3
    <3>. QED  BY <3>2, <3>3
  <2>6. ASSUME NEW b \in Devices \X (1 .. MaxSent), b \in Range(v)
        PROVE  ~(b[2] <= sent[b[1]])
    BY <1>2, <2>3, <2>6
  <2>. QED  BY <2>4, <2>5, <2>6 DEF SentBytes
<1>5. PaidIn(Held, Held', y, v)
  <2>1. call'[r] = c /\ \A x \in Readers : x # r => call'[x] = call[x]
    BY <1>1 DEF TypeInv, TypeOK
  <2>2. InHand(call[r]) = c.buffer /\ InHand(c) = c.buffer \o v
    BY <1>1 DEF InHand
  <2>3. y \in Owners /\ Held' \in [Owners -> Seq(Byte)]
    BY OwnerCases, HeldNext DEF TypeInv
  <2>4. Held[y] = InHand(call[r]) /\ Held'[y] = InHand(call'[r])
    BY HeldNow, HeldNext DEF TypeInv
  <2>5. ASSUME NEW o \in Owners, o # y
        PROVE  Held'[o] = Held[o]
    BY <1>1, <2>1, <2>5, OthersStay DEF TypeInv
  <2>. HIDE DEF y, v
  <2>. QED  BY <1>3, <2>1, <2>2, <2>3, <2>4, <2>5 DEF PaidIn
<1>. HIDE DEF v, y
<1>6. Accounts(Held', discarded, SentBytes \cup Range(v))
  BY <1>3, <1>4, <1>5, BytesPaidIn DEF ByteInv
<1>7. discarded' = discarded
  BY <1>1
<1>. QED  BY <1>4, <1>6, <1>7 DEF ByteInv

(* The copy moves the left-over of the packet from the call to the queue,  *)
(* which has room for it.                                                  *)
LEMMA BytesCopy ==
  ASSUME Cardinality(Readers) <= Pages, TypeInv, TypeInv', FillInv, FillInv', ByteInv,
         NEW r \in Readers, Copy(r)
  PROVE  ByteInv'
<1>1. PICK c \in Call, rest \in Seq(Byte) :
        /\ call[r].pc = "copy"
        /\ Scb[c.dev] \in Scbs /\ c.dev = call[r].dev
        /\ c.pc \in {"bulk", "return"}
        /\ call[r].buffer \o call[r].packet = c.buffer \o rest
        /\ Len(rest) \in 0 .. EpSize - 1
        /\ queue' = [queue EXCEPT ![Scb[c.dev]] = AfterAdd(@, rest)]
        /\ call' = [call EXCEPT ![r] = c]
        /\ UNCHANGED <<sent, delivered, discarded>>
  BY CopyEffect
<1> DEFINE s0 == Scb[c.dev]
           q  == queue[s0]
           x  == <<"call", r>>
           y  == <<"queue", s0>>
<1>2. /\ queue'[s0] = AfterAdd(q, rest) /\ \A s \in Scbs : s # s0 => queue'[s] = queue[s]
      /\ call'[r] = c /\ \A i \in Readers : i # r => call'[i] = call[i]
  BY <1>1 DEF TypeInv, TypeOK
<1>3. WellFormed(q) /\ Content(AfterAdd(q, rest)) = Content(q) \o rest
  <2>1. WellFormed(q) /\ q.avail \in Nat
    BY <1>1, Fields DEF TypeInv
  <2>2. s0 = Scb[call[r].dev] /\ s0 \in Scbs /\ Looping(r)
    BY <1>1 DEF Looping
  <2>3. q.avail + Len(rest) < Capacity
    BY <1>1, <2>2, FillRoom
  <2>4. q.avail + Len(rest) <= Capacity
    BY <1>1, <2>1, <2>3, CapacityType
  <2>. QED  BY <2>1, <2>4, AddAppends
<1>4. /\ x \in Owners /\ y \in Owners /\ x # y /\ Held' \in [Owners -> Seq(Byte)]
      /\ Held[x] = InHand(call[r]) /\ Held'[x] = InHand(c)
      /\ Held[y] = Content(q) /\ Held'[y] = Content(AfterAdd(q, rest))
  BY <1>1, <1>2, OwnerCases, HeldNow, HeldNext DEF TypeInv
<1>5. InHand(call[r]) = c.buffer \o rest /\ InHand(c) = c.buffer /\ c.buffer \in Seq(Byte)
  BY <1>1 DEF InHand, Call
<1>6. ASSUME NEW o \in Owners, o # x, o # y
      PROVE  Held'[o] = Held[o]
  <2>1. \A s \in Scbs : o = <<"queue", s>> => queue'[s] = queue[s]
    BY <1>2, <1>6
  <2>2. \A i \in Readers : o = <<"call", i>> => call'[i] = call[i]
    BY <1>2, <1>6
  <2>. QED  BY <1>1, <2>1, <2>2, OthersStay DEF TypeInv
<1>. HIDE DEF x, y, q, s0
<1>7. Moved(Held, Held', x, y, c.buffer, rest)
  BY <1>3, <1>4, <1>5, <1>6 DEF Moved
<1>8. Accounts(Held', discarded, SentBytes)
  BY <1>7, BytesMoved DEF ByteInv
<1>. QED  BY <1>1, <1>8 DEF ByteInv, SentBytes, Accounts

(* The end of a call moves its buffer to its caller. *)
LEMMA BytesReturn ==
  ASSUME TypeInv, TypeInv', ByteInv, NEW r \in Readers, Return(r)
  PROVE  ByteInv'
<1> DEFINE d == call[r].dev
           x == <<"call", r>>
           y == <<"delivered", d>>
           v == call[r].buffer
<1>1. /\ call[r].pc = "return" /\ d \in Devices /\ v \in Seq(Byte)
      /\ delivered' = [delivered EXCEPT ![d] = @ \o v]
      /\ call' = [call EXCEPT ![r] = Idle]
      /\ UNCHANGED <<queue, sent, discarded, added>>
  BY ReturnEffect
<1>2. /\ delivered'[d] = delivered[d] \o v
      /\ \A e \in Devices : e # d => delivered'[e] = delivered[e]
      /\ call'[r] = Idle /\ \A i \in Readers : i # r => call'[i] = call[i]
  BY <1>1 DEF TypeInv, TypeOK
<1>3. InHand(call[r]) = v /\ InHand(Idle) = <<>>
  BY <1>1 DEF InHand, Idle
<1>4. /\ x \in Owners /\ y \in Owners /\ x # y /\ Held' \in [Owners -> Seq(Byte)]
      /\ Held[x] = v /\ Held'[x] = <<>>
      /\ Held[y] = delivered[d] /\ Held'[y] = delivered[d] \o v
  BY <1>1, <1>2, <1>3, OwnerCases, HeldNow, HeldNext DEF TypeInv
<1>5. ASSUME NEW o \in Owners, o # x, o # y
      PROVE  Held'[o] = Held[o]
  <2>1. \A e \in Devices : o = <<"delivered", e>> => delivered'[e] = delivered[e]
    BY <1>2, <1>5
  <2>2. \A i \in Readers : o = <<"call", i>> => call'[i] = call[i]
    BY <1>2, <1>5
  <2>. QED  BY <1>1, <2>1, <2>2, OthersStay DEF TypeInv
<1>. HIDE DEF x, y, v
<1>6. v = <<>> \o v
  BY <1>1, ConcatEmptySeq
<1>7. Moved(Held, Held', x, y, <<>>, v)
  BY <1>1, <1>4, <1>5, <1>6, NoBytes DEF Moved
<1>8. Accounts(Held', discarded, SentBytes)
  BY <1>7, BytesMoved DEF ByteInv
<1>. QED  BY <1>1, <1>8 DEF ByteInv, SentBytes, Accounts

(* A queue that is wiped writes its bytes off. *)
LEMMA BytesSetConfig ==
  ASSUME TypeInv, TypeInv', ByteInv, NEW d \in Devices, SetConfig(d)
  PROVE  ByteInv'
<1> DEFINE s0 == Scb[d]
           q  == queue[s0]
           x  == <<"queue", s0>>
<1>1. /\ discarded' = discarded \cup {Content(q)[i] : i \in 1 .. q.avail}
      /\ queue' = [queue EXCEPT ![s0] = EmptyQueue]
      /\ UNCHANGED <<sent, call, delivered>>
      /\ s0 \in Scbs
  BY UartReadAssumption DEF SetConfig
<1>2. queue'[s0] = EmptyQueue /\ \A s \in Scbs : s # s0 => queue'[s] = queue[s]
  BY <1>1 DEF TypeInv, TypeOK
<1>3. Content(EmptyQueue) = <<>>
  BY EmptyQueueType, EmptyContent DEF WellFormed
<1>4. discarded' = discarded \cup Range(Content(q))
  <2>1. q \in CyDataQueue
    BY <1>1 DEF TypeInv, TypeOK
  <2>. HIDE DEF q
  <2>2. Content(q) \in Seq(Byte) /\ Len(Content(q)) = q.avail
    BY <2>1, ContentType
  <2>3. Range(Content(q)) = {Content(q)[i] : i \in 1 .. q.avail}
    BY <2>2, RangeEquality
  <2>. QED  BY <1>1, <2>3
<1>5. /\ x \in Owners /\ Held' \in [Owners -> Seq(Byte)]
      /\ Held[x] = Content(q) /\ Held'[x] = <<>>
  BY <1>1, <1>2, <1>3, OwnerCases, HeldNow, HeldNext DEF TypeInv
<1>6. ASSUME NEW o \in Owners, o # x
      PROVE  Held'[o] = Held[o]
  <2>1. \A s \in Scbs : o = <<"queue", s>> => queue'[s] = queue[s]
    BY <1>2, <1>6
  <2>. QED  BY <1>1, <2>1, OthersStay DEF TypeInv
<1>. HIDE DEF x, q, s0
<1>7. WrittenOff(Held, Held', x)
  BY <1>5, <1>6 DEF WrittenOff
<1>8. Accounts(Held', discarded \cup Range(Held[x]), SentBytes)
  BY <1>7, BytesWrittenOff DEF ByteInv
<1>9. Accounts(Held', discarded', SentBytes)
  BY <1>4, <1>5, <1>8
<1>. QED  BY <1>1, <1>9 DEF ByteInv, SentBytes

LEMMA BytesInitial == Init => ByteInv
<1> SUFFICES ASSUME Init PROVE ByteInv
  OBVIOUS
<1>1. TypeOK
  BY TypeInitial DEF TypeInv
<1>2. ASSUME NEW o \in Owners
      PROVE  Held[o] = <<>>
  <2>1. CASE \E d \in Devices : o = <<"delivered", d>>
    BY <1>1, <2>1, HeldNow DEF Init
  <2>2. CASE \E r \in Readers : o = <<"call", r>>
    <3>1. PICK r \in Readers : o = <<"call", r>>
      BY <2>2
    <3>2. call[r].pc = "idle"
      BY DEF Init, Idle
    <3>. QED  BY <1>1, <3>1, <3>2, HeldNow DEF InHand
  <2>3. CASE \E s \in Scbs : o = <<"queue", s>>
    <3>1. PICK s \in Scbs : o = <<"queue", s>>
      BY <2>3
    <3>2. Content(queue[s]) = <<>>
      BY EmptyQueueType, EmptyContent DEF Init, WellFormed
    <3>. QED  BY <1>1, <3>1, <3>2, HeldNow
  <2>. QED  BY <2>1, <2>2, <2>3, OwnerCases
<1>3. \A o \in Owners : Range(Held[o]) = {} /\ IsInjective(Held[o])
  BY <1>2, NoBytes
<1>4. discarded = {} /\ SentBytes = {}
  BY DEF Init, SentBytes
<1>. QED  BY <1>1, <1>3, <1>4, HeldNow DEF ByteInv, Accounts

LEMMA BytesStep ==
  ASSUME ~SubmitFaults, Cardinality(Readers) <= Pages,
         TypeInv, FillInv, ByteInv, [Next]_vars
  PROVE  ByteInv'
<1>1. TypeInv' /\ FillInv'
  BY TypeStep, FillStep
<1>2. ASSUME NEW r \in Readers, NEW d \in Reads[r], NEW n \in Lengths,
             NEW t \in Timeouts, Begin(r, d, n, t)
      PROVE  ByteInv'
  BY <1>1, <1>2, BytesBegin
<1>3. ASSUME NEW r \in Readers, Transfer(r)
      PROVE  ByteInv'
  BY <1>1, <1>3, BytesTransfer
<1>4. ASSUME NEW r \in Readers, Copy(r)
      PROVE  ByteInv'
  BY <1>1, <1>4, BytesCopy
<1>5. ASSUME NEW r \in Readers, Return(r)
      PROVE  ByteInv'
  BY <1>1, <1>5, BytesReturn
<1>6. ASSUME NEW d \in Devices, SetConfig(d)
      PROVE  ByteInv'
  BY <1>1, <1>6, BytesSetConfig
<1>7. CASE UNCHANGED vars
  BY <1>7 DEF vars, ByteInv, Held, SentBytes
<1>. QED  BY <1>2, <1>3, <1>4, <1>5, <1>6, <1>7 DEF Next, SubmitFails

(* The places of a byte are those of the accounts and of the discarded.    *)
LEMMA PlacesAre ==
  ASSUME TypeOK, NEW b
  PROVE  \A z : z \in Places(b) <=>
           \/ \E o \in Owners : \E i \in DOMAIN Held[o] : Held[o][i] = b /\ z = <<o, i>>
           \/ b \in discarded /\ z = << <<"discarded", 0>>, 1>>
<1> SUFFICES ASSUME NEW z
             PROVE  z \in Places(b) <=>
                      \/ \E o \in Owners : \E i \in DOMAIN Held[o] :
                           Held[o][i] = b /\ z = <<o, i>>
                      \/ b \in discarded /\ z = << <<"discarded", 0>>, 1>>
  OBVIOUS
<1> DEFINE In(o) == \E i \in DOMAIN Held[o] : Held[o][i] = b /\ z = <<o, i>>
<1>1. /\ \A d \in Devices : z \in At(b, <<"delivered", d>>, delivered[d])
                              <=> In(<<"delivered", d>>)
      /\ \A r \in Readers : z \in At(b, <<"call", r>>, InHand(call[r]))
                              <=> In(<<"call", r>>)
      /\ \A s \in Scbs : z \in At(b, <<"queue", s>>, Content(queue[s]))
                           <=> In(<<"queue", s>>)
  BY HeldNow DEF At
<1>2. z \in Places(b) <=>
        \/ \E d \in Devices : z \in At(b, <<"delivered", d>>, delivered[d])
        \/ \E r \in Readers : z \in At(b, <<"call", r>>, InHand(call[r]))
        \/ \E s \in Scbs : z \in At(b, <<"queue", s>>, Content(queue[s]))
        \/ b \in discarded /\ z = << <<"discarded", 0>>, 1>>
  <2> DEFINE A == {At(b, <<"delivered", d>>, delivered[d]) : d \in Devices}
             B == {At(b, <<"call", r>>, InHand(call[r])) : r \in Readers}
             C == {At(b, <<"queue", s>>, Content(queue[s])) : s \in Scbs}
             D == IF b \in discarded THEN {<< <<"discarded", 0>>, 1>>} ELSE {}
  <2>1. Places(b) = UNION (A \cup B \cup C \cup {D})
    BY DEF Places
  <2>2. /\ (\E e \in A : z \in e) <=> \E d \in Devices : z \in At(b, <<"delivered", d>>, delivered[d])
        /\ (\E e \in B : z \in e) <=> \E r \in Readers : z \in At(b, <<"call", r>>, InHand(call[r]))
        /\ (\E e \in C : z \in e) <=> \E s \in Scbs : z \in At(b, <<"queue", s>>, Content(queue[s]))
        /\ z \in D <=> b \in discarded /\ z = << <<"discarded", 0>>, 1>>
    OBVIOUS
  <2>. HIDE DEF A, B, C, D
  <2>3. z \in Places(b) <=>
          (\E e \in A : z \in e) \/ (\E e \in B : z \in e) \/ (\E e \in C : z \in e) \/ z \in D
    BY <2>1
  <2>. QED  BY <2>2, <2>3
<1>. HIDE DEF In
<1>3. (\E o \in Owners : In(o)) <=>
        \/ \E d \in Devices : In(<<"delivered", d>>)
        \/ \E r \in Readers : In(<<"call", r>>)
        \/ \E s \in Scbs : In(<<"queue", s>>)
  BY OwnerCases
<1>4. /\ (\E d \in Devices : z \in At(b, <<"delivered", d>>, delivered[d]))
           <=> \E d \in Devices : In(<<"delivered", d>>)
      /\ (\E r \in Readers : z \in At(b, <<"call", r>>, InHand(call[r])))
           <=> \E r \in Readers : In(<<"call", r>>)
      /\ (\E s \in Scbs : z \in At(b, <<"queue", s>>, Content(queue[s])))
           <=> \E s \in Scbs : In(<<"queue", s>>)
  BY <1>1
<1>5. z \in Places(b) <=> \/ \E o \in Owners : In(o)
                          \/ b \in discarded /\ z = << <<"discarded", 0>>, 1>>
  BY <1>2, <1>3, <1>4
<1>. QED  BY <1>5 DEF In

(* With the accounts in order, a byte that was sent has one place and one  *)
(* that was not has none.                                                  *)
LEMMA OnePlace ==
  ASSUME TypeInv, ByteInv
  PROVE  EachByteOnce
<1> SUFFICES ASSUME NEW d \in Devices, NEW n \in 1 .. MaxSent
             PROVE  Cardinality(Places(<<d, n>>)) = IF n <= sent[d] THEN 1 ELSE 0
  BY DEF EachByteOnce
<1> DEFINE b == <<d, n>>
           X == << <<"discarded", 0>>, 1>>
<1>1. b \in SentBytes <=> n <= sent[d]
  BY DEF SentBytes
<1>. HIDE DEF b
<1>2. \A z : z \in Places(b) <=>
        \/ \E o \in Owners : \E i \in DOMAIN Held[o] : Held[o][i] = b /\ z = <<o, i>>
        \/ b \in discarded /\ z = X
  BY PlacesAre DEF TypeInv
<1>3. \A o \in Owners : \A i \in DOMAIN Held[o] : Held[o][i] \in Range(Held[o])
  BY DEF Range
<1>. HIDE DEF X
<1>4. CASE n <= sent[d] /\ b \in discarded
  <2>1. \A o \in Owners : b \notin Range(Held[o])
    BY <1>4 DEF ByteInv, Accounts
  <2>2. Places(b) = {X}
    BY <1>2, <1>3, <1>4, <2>1
  <2>. QED  BY <1>4, <2>2, FS_Singleton DEF b
<1>5. CASE n <= sent[d] /\ b \notin discarded
  <2>1. PICK o \in Owners : b \in Range(Held[o])
    BY <1>1, <1>5 DEF ByteInv, Accounts
  <2>2. PICK i \in DOMAIN Held[o] : Held[o][i] = b
    BY <2>1 DEF Range
  <2>3. ASSUME NEW p \in Owners, NEW j \in DOMAIN Held[p], Held[p][j] = b
        PROVE  p = o /\ j = i
    <3>1. p = o
      BY <1>3, <2>1, <2>3 DEF ByteInv, Accounts
    <3>2. j = i
      BY <2>2, <2>3, <3>1 DEF ByteInv, Accounts, IsInjective
    <3>. QED  BY <3>1, <3>2
  <2>4. Places(b) = {<<o, i>>}
    BY <1>2, <1>5, <2>2, <2>3
  <2>. QED  BY <1>5, <2>4, FS_Singleton DEF b
<1>6. CASE ~(n <= sent[d])
  <2>1. b \notin discarded /\ \A o \in Owners : b \notin Range(Held[o])
    BY <1>1, <1>6 DEF ByteInv, Accounts
  <2>2. Places(b) = {}
    BY <1>2, <1>3, <2>1
  <2>. QED  BY <1>6, <2>2, FS_EmptySet DEF b
<1>. QED  BY <1>4, <1>5, <1>6

(* If libusb does submit every transfer and there are no more threads than *)
(* pages, every byte a device has sent is in exactly one place, once:      *)
(* handed to a caller, in the hands of a call, in a queue, or wiped with a *)
(* queue.  CyUartRead neither loses a byte nor hands it out twice, however *)
(* its threads interleave and however many devices share a queue.          *)
THEOREM ReadersKeepEachByteOnce ==
  ASSUME ~SubmitFaults, Cardinality(Readers) <= Pages
  PROVE  Spec => []EachByteOnce
<1>1. TypeInv /\ FillInv /\ ByteInv /\ [Next]_vars => FillInv' /\ ByteInv'
  BY FillStep, BytesStep
<1>2. TypeInv /\ ByteInv => EachByteOnce
  BY OnePlace
<1>. QED  BY <1>1, <1>2, FillInitial, BytesInitial, TypeInvariant, PTL DEF Spec

-----------------------------------------------------------------------------
(***************************************************************************)
(* Devices on serial blocks of their own.                                  *)
(***************************************************************************)
Own(d) == {d} \X (1 .. MaxSent)

(* What belongs to a device is handed out, in hand and queued for it only. *)
OwnInv ==
  /\ \A d \in Devices : Range(delivered[d]) \subseteq Own(d)
  /\ \A d \in Devices : Range(Content(queue[Scb[d]])) \subseteq Own(d)
  /\ \A r \in Readers : call[r].pc # "idle" =>
       /\ Range(InHand(call[r])) \subseteq Own(call[r].dev)
       /\ call[r].dev \in Reads[r]

(* What a change of one call and one queue has to show. *)
LEMMA OwnKept ==
  ASSUME IsInjective(Scb), TypeInv, OwnInv,
         NEW r \in Readers, NEW c \in Call, NEW d \in Devices, c.dev = d, d \in Reads[r],
         call' = [call EXCEPT ![r] = c], Range(InHand(c)) \subseteq Own(d),
         NEW q, queue' = [queue EXCEPT ![Scb[d]] = q],
         Range(Content(q)) \subseteq Own(d), UNCHANGED delivered
  PROVE  OwnInv'
<1>1. Scb[d] \in Scbs /\ \A e \in Devices : Scb[e] \in Scbs /\ (Scb[e] = Scb[d] => e = d)
  BY UartReadAssumption DEF IsInjective
<1>2. \A e \in Devices : queue'[Scb[e]] = IF e = d THEN q ELSE queue[Scb[e]]
  BY <1>1 DEF TypeInv, TypeOK
<1>3. \A x \in Readers : call'[x] = IF x = r THEN c ELSE call[x]
  BY DEF TypeInv, TypeOK
<1>4. \A e \in Devices : Range(Content(queue'[Scb[e]])) \subseteq Own(e)
  BY <1>2 DEF OwnInv
<1>5. ASSUME NEW x \in Readers, call'[x].pc # "idle"
      PROVE  /\ Range(InHand(call'[x])) \subseteq Own(call'[x].dev)
             /\ call'[x].dev \in Reads[x]
  BY <1>3, <1>5 DEF OwnInv
<1>6. \A e \in Devices : Range(delivered'[e]) \subseteq Own(e)
  BY DEF OwnInv
<1>. QED  BY <1>4, <1>5, <1>6 DEF OwnInv

LEMMA OwnBegin ==
  ASSUME IsInjective(Scb), TypeInv, OwnInv, NEW r \in Readers, NEW d \in Reads[r],
         NEW n \in Lengths, NEW t \in Timeouts, Begin(r, d, n, t)
  PROVE  OwnInv'
<1>1. PICK c \in Call, left \in CyDataQueue :
        /\ Scb[d] \in Scbs
        /\ c.dev = d
        /\ c.pc = IF Len(c.buffer) = n THEN "return" ELSE "bulk"
        /\ WellFormed(left)
        /\ Content(queue[Scb[d]]) = c.buffer \o Content(left)
        /\ queue' = [queue EXCEPT ![Scb[d]] = left]
        /\ call' = [call EXCEPT ![r] = c]
        /\ UNCHANGED <<sent, delivered, discarded>>
  BY BeginEffect
<1>2. d \in Devices /\ c.buffer \in Seq(Byte) /\ Content(left) \in Seq(Byte)
  BY <1>1, ContentType, UartReadAssumption DEF Call, WellFormed
<1>3. Range(c.buffer) \subseteq Own(d) /\ Range(Content(left)) \subseteq Own(d)
  <2>1. Range(c.buffer \o Content(left)) \subseteq Own(d)
    BY <1>1, <1>2 DEF OwnInv
  <2>2. Range(c.buffer \o Content(left)) = Range(c.buffer) \cup Range(Content(left))
    BY <1>2, ConcatBytes
  <2>. QED  BY <2>1, <2>2
<1>4. InHand(c) = c.buffer
  BY <1>1 DEF InHand
<1>. QED  BY <1>1, <1>2, <1>3, <1>4, OwnKept

LEMMA OwnTransfer ==
  ASSUME IsInjective(Scb), TypeInv, OwnInv, NEW r \in Readers, Transfer(r)
  PROVE  OwnInv'
<1>1. PICK k \in 0 .. EpSize, c \in Call :
        /\ call[r].pc = "bulk" /\ call[r] \in Call
        /\ c.pc = "copy" /\ c.dev = call[r].dev
        /\ c.buffer = call[r].buffer
        /\ c.packet = Stream(call[r].dev, k)
        /\ sent[c.dev] \in Nat /\ sent[c.dev] + k <= MaxSent
        /\ call' = [call EXCEPT ![r] = c]
        /\ UNCHANGED <<queue, delivered, discarded, added>>
  BY TransferEffect
<1> DEFINE d == c.dev
<1>2. /\ d \in Devices /\ d \in Reads[r] /\ Scb[d] \in Scbs
      /\ c.buffer \in Seq(Byte) /\ c.packet \in Seq(Byte)
  <2>1. c.packet \in Packet /\ c.buffer \in Seq(Byte) /\ d \in Devices
    BY DEF Call
  <2>2. c.packet \in Seq(Byte)
    BY <2>1, QueueAssumption DEF Packet
  <2>3. d \in Reads[r]
    BY <1>1 DEF OwnInv
  <2>4. Scb[d] \in Scbs
    BY <2>1, UartReadAssumption
  <2>. QED  BY <2>1, <2>2, <2>3, <2>4
<1>3. Range(c.packet) \subseteq Own(d)
  <2>1. k \in Nat /\ MaxSent \in Nat
    BY QueueAssumption, UartReadAssumption
  <2>2. \A i \in 1 .. k : sent[d] + i \in 1 .. MaxSent
    BY <1>1, <2>1
  <2>3. c.packet = [i \in 1 .. k |-> <<d, sent[d] + i>>]
    BY <1>1 DEF Stream
  <2>. QED  BY <2>2, <2>3 DEF Range, Own
<1>4. Range(InHand(c)) \subseteq Own(d)
  <2>1. InHand(c) = c.buffer \o c.packet /\ InHand(call[r]) = c.buffer
    BY <1>1 DEF InHand
  <2>2. Range(c.buffer) \subseteq Own(d)
    BY <1>1, <2>1 DEF OwnInv
  <2>. QED  BY <1>2, <1>3, <2>1, <2>2, ConcatBytes
<1>5. queue' = [queue EXCEPT ![Scb[d]] = queue[Scb[d]]]
  BY <1>1 DEF TypeInv, TypeOK
<1>6. Range(Content(queue[Scb[d]])) \subseteq Own(d)
  BY <1>2 DEF OwnInv
<1>. QED  BY <1>1, <1>2, <1>4, <1>5, <1>6, OwnKept

LEMMA OwnCopy ==
  ASSUME IsInjective(Scb), TypeInv, OwnInv, NEW r \in Readers, Copy(r)
  PROVE  OwnInv'
<1>1. PICK c \in Call, rest \in Seq(Byte) :
        /\ call[r].pc = "copy"
        /\ Scb[c.dev] \in Scbs /\ c.dev = call[r].dev
        /\ c.pc \in {"bulk", "return"}
        /\ call[r].buffer \o call[r].packet = c.buffer \o rest
        /\ queue' = [queue EXCEPT ![Scb[c.dev]] = AfterAdd(@, rest)]
        /\ call' = [call EXCEPT ![r] = c]
        /\ UNCHANGED <<sent, delivered, discarded>>
  BY CopyEffect
<1> DEFINE d == c.dev
           q == queue[Scb[d]]
<1>2. /\ d \in Devices /\ d \in Reads[r] /\ WellFormed(q)
      /\ c.buffer \in Seq(Byte) /\ Range(c.buffer \o rest) \subseteq Own(d)
      /\ Range(Content(q)) \subseteq Own(d)
  <2>1. d \in Devices /\ c.buffer \in Seq(Byte)
    BY DEF Call
  <2>2. InHand(call[r]) = c.buffer \o rest
    BY <1>1 DEF InHand
  <2>3. d \in Reads[r] /\ Range(InHand(call[r])) \subseteq Own(d)
    BY <1>1 DEF OwnInv
  <2>. QED  BY <1>1, <2>1, <2>2, <2>3 DEF OwnInv, TypeInv
<1>3. Range(c.buffer) \subseteq Own(d) /\ Range(rest) \subseteq Own(d)
  <2>1. Range(c.buffer \o rest) = Range(c.buffer) \cup Range(rest)
    BY <1>2, ConcatBytes
  <2>. QED  BY <1>2, <2>1
<1>4. Range(InHand(c)) \subseteq Own(d)
  <2>1. InHand(c) = c.buffer
    BY <1>1 DEF InHand
  <2>. QED  BY <1>3, <2>1
<1>5. Range(Content(AfterAdd(q, rest))) \subseteq Own(d)
  <2>. HIDE DEF q, d
  <2>0. q.avail \in Nat /\ Len(rest) \in Nat /\ Capacity \in Nat
    BY <1>2, Fields, CapacityType
  <2>1. CASE q.avail + Len(rest) > Capacity
    BY <1>2, <2>1, AddDrops
  <2>2. CASE q.avail + Len(rest) <= Capacity
    <3>1. Content(AfterAdd(q, rest)) = Content(q) \o rest
      BY <1>2, <2>2, AddAppends
    <3>2. Content(q) \in Seq(Byte)
      BY <1>2, ContentType DEF WellFormed
    <3>. QED  BY <1>2, <1>3, <3>1, <3>2, ConcatBytes
  <2>. QED  BY <2>0, <2>1, <2>2
<1>. QED  BY <1>1, <1>2, <1>4, <1>5, OwnKept

LEMMA OwnReturn ==
  ASSUME TypeInv, OwnInv, NEW r \in Readers, Return(r)
  PROVE  OwnInv'
<1> DEFINE d == call[r].dev
           v == call[r].buffer
<1>1. /\ call[r].pc = "return" /\ d \in Devices /\ v \in Seq(Byte)
      /\ delivered' = [delivered EXCEPT ![d] = @ \o v]
      /\ call' = [call EXCEPT ![r] = Idle]
      /\ UNCHANGED <<queue, sent, discarded, added>>
  BY ReturnEffect
<1>2. /\ delivered[d] \in Seq(Byte) /\ delivered'[d] = delivered[d] \o v
      /\ \A e \in Devices : e # d => delivered'[e] = delivered[e]
      /\ \A x \in Readers : call'[x] = IF x = r THEN Idle ELSE call[x]
  BY <1>1 DEF TypeInv, TypeOK
<1>3. Range(v) \subseteq Own(d)
  <2>1. InHand(call[r]) = v
    BY <1>1 DEF InHand
  <2>. QED  BY <1>1, <2>1 DEF OwnInv
<1>4. Range(delivered'[d]) \subseteq Own(d)
  <2>1. Range(delivered[d]) \subseteq Own(d)
    BY <1>1 DEF OwnInv
  <2>. QED  BY <1>1, <1>2, <1>3, <2>1, ConcatBytes
<1>5. \A e \in Devices : Range(delivered'[e]) \subseteq Own(e)
  BY <1>2, <1>4 DEF OwnInv
<1>6. Idle.pc = "idle"
  BY DEF Idle
<1>. QED  BY <1>1, <1>2, <1>5, <1>6 DEF OwnInv

LEMMA OwnSetConfig ==
  ASSUME IsInjective(Scb), TypeInv, OwnInv, NEW d \in Devices, SetConfig(d)
  PROVE  OwnInv'
<1>1. /\ queue' = [queue EXCEPT ![Scb[d]] = EmptyQueue]
      /\ UNCHANGED <<call, delivered>>
  BY DEF SetConfig
<1>2. Range(Content(EmptyQueue)) = {}
  <2>1. Content(EmptyQueue) = <<>>
    BY EmptyQueueType, EmptyContent DEF WellFormed
  <2>. QED  BY <2>1, NoBytes
<1>3. \A e \in Devices : Scb[e] \in Scbs
  BY UartReadAssumption
<1>4. \A e \in Devices : queue'[Scb[e]] \in {EmptyQueue, queue[Scb[e]]}
  BY <1>1, <1>3 DEF TypeInv, TypeOK
<1>5. \A e \in Devices : Range(Content(queue'[Scb[e]])) \subseteq Own(e)
  BY <1>2, <1>4 DEF OwnInv
<1>. QED  BY <1>1, <1>5 DEF OwnInv

LEMMA OwnStep ==
  ASSUME ~SubmitFaults, IsInjective(Scb), TypeInv, OwnInv, [Next]_vars
  PROVE  OwnInv'
<1>1. CASE UNCHANGED vars
  BY <1>1 DEF vars, OwnInv
<1>. QED  BY <1>1, OwnBegin, OwnTransfer, OwnCopy, OwnReturn, OwnSetConfig DEF Next, SubmitFails

(* What thread r has in hand for device d. *)
Hand(d, r) ==
  IF call[r].pc # "idle" /\ call[r].dev = d THEN InHand(call[r]) ELSE <<>>

(* The way of a device's bytes to its only reader, oldest byte first: what *)
(* the reader was handed, has in hand and will find in the queue.          *)
Pipeline(d, r) == (delivered[d] \o Hand(d, r)) \o Content(queue[Scb[d]])

(* The first m bytes of a device, some left out, in the order they were    *)
(* sent.                                                                   *)
InOrder(s, m) ==
  /\ s \in Seq(Byte)
  /\ \A i \in DOMAIN s : s[i][2] \in 1 .. m
  /\ \A i, j \in DOMAIN s : i < j => s[i][2] < s[j][2]

(* The only reader of a device finds its queue empty while it is in its    *)
(* loop, so that a new packet comes after everything that is on its way.   *)
OrderAt(d, r) ==
  /\ InOrder(Pipeline(d, r), sent[d])
  /\ queue[Scb[d]].avail < Capacity
  /\ Looping(r) /\ call[r].dev = d => queue[Scb[d]].avail = 0

OrderInv ==
  \A d \in Devices, r \in Readers : OneReader(d) /\ d \in Reads[r] => OrderAt(d, r)

(* The start of an ordered sequence is in order. *)
LEMMA StartInOrder ==
  ASSUME NEW u \in Seq(Byte), NEW v \in Seq(Byte), NEW m, InOrder(u \o v, m)
  PROVE  InOrder(u, m)
<1>1. /\ Len(u) \in Nat /\ Len(v) \in Nat /\ DOMAIN u = 1 .. Len(u)
      /\ DOMAIN (u \o v) = 1 .. Len(u) + Len(v)
      /\ \A i \in 1 .. Len(u) : (u \o v)[i] = u[i]
  BY ConcatProperties, LenProperties
<1>2. \A i \in DOMAIN u : i \in DOMAIN (u \o v) /\ (u \o v)[i] = u[i]
  BY <1>1
<1> DEFINE w == u \o v
<1>. HIDE DEF w
<1>. QED  BY <1>2 DEF InOrder, w

(* An ordered sequence is continued by the bytes that come next. *)
LEMMA NextInOrder ==
  ASSUME NEW u, NEW m \in Nat, InOrder(u, m), NEW k \in Nat, NEW d,
         NEW v \in Seq(Byte), v = [i \in 1 .. k |-> <<d, m + i>>]
  PROVE  InOrder(u \o v, m + k)
<1> DEFINE n == Len(u)
           w == u \o v
<1>1. u \in Seq(Byte) /\ n \in Nat /\ DOMAIN u = 1 .. n
  BY LenProperties DEF InOrder
<1>2. Len(v) = k /\ \A j \in 1 .. k : v[j] = <<d, m + j>>
  BY LenProperties
<1>3. /\ w \in Seq(Byte) /\ Len(w) = n + k /\ DOMAIN w = 1 .. n + k
      /\ \A i \in 1 .. n + k : w[i] = IF i <= n THEN u[i] ELSE v[i - n]
  <2>1. /\ w \in Seq(Byte) /\ Len(w) = n + Len(v)
        /\ \A i \in 1 .. n + Len(v) : w[i] = IF i <= n THEN u[i] ELSE v[i - n]
    BY <1>1, ConcatProperties
  <2>. HIDE DEF w, n
  <2>. QED  BY <1>2, <2>1, LenProperties
<1>4. /\ \A i \in 1 .. n : u[i][2] \in 1 .. m
      /\ \A i, j \in 1 .. n : i < j => u[i][2] < u[j][2]
  BY <1>1 DEF InOrder
<1>. HIDE DEF w, n
<1>5. ASSUME NEW i \in 1 .. n + k, i <= n
      PROVE  i \in 1 .. n /\ w[i][2] = u[i][2] /\ w[i][2] \in 1 .. m
  BY <1>1, <1>3, <1>4, <1>5
<1>6. ASSUME NEW i \in 1 .. n + k, ~(i <= n)
      PROVE  w[i][2] = m + (i - n) /\ i \in Nat /\ i - n \in 1 .. k
  <2>1. i \in Nat /\ i - n \in 1 .. k
    BY <1>1, <1>6
  <2>2. w[i] = v[i - n]
    BY <1>3, <1>6
  <2>3. v[i - n] = <<d, m + (i - n)>>
    BY <1>2, <2>1
  <2>. QED  BY <2>1, <2>2, <2>3
<1>7. ASSUME NEW i \in 1 .. n + k
      PROVE  w[i][2] \in 1 .. m + k
  <2>1. CASE i <= n
    BY <1>5, <2>1
  <2>2. CASE ~(i <= n)
    BY <1>6, <2>2
  <2>. QED  BY <2>1, <2>2
<1>8. ASSUME NEW i \in 1 .. n + k, NEW j \in 1 .. n + k, i < j
      PROVE  w[i][2] < w[j][2]
  <2>1. CASE j <= n
    <3>1. i <= n
      BY <1>1, <1>8, <2>1
    <3>2. i \in 1 .. n /\ j \in 1 .. n /\ w[i][2] = u[i][2] /\ w[j][2] = u[j][2]
      BY <1>5, <2>1, <3>1
    <3>. QED  BY <1>4, <1>8, <3>2
  <2>2. CASE i <= n /\ ~(j <= n)
    <3>1. w[i][2] \in 1 .. m /\ w[j][2] = m + (j - n) /\ j - n \in 1 .. k
      BY <1>5, <1>6, <2>2
    <3>. QED  BY <3>1
  <2>3. CASE ~(i <= n) /\ ~(j <= n)
    <3>1. /\ w[i][2] = m + (i - n) /\ w[j][2] = m + (j - n)
          /\ i \in Nat /\ j \in Nat
      BY <1>6, <2>3
    <3>. QED  BY <1>1, <1>8, <3>1
  <2>4. i <= n \/ ~(j <= n)
    BY <1>1, <1>8
  <2>. QED  BY <2>1, <2>2, <2>3, <2>4
<1>. QED  BY <1>3, <1>7, <1>8 DEF InOrder, w

(* A thread that reads a device nobody else reads is its only reader. *)
LEMMA OnlyReader ==
  ASSUME NEW d, OneReader(d), NEW r \in Readers, d \in Reads[r]
  PROVE  \A x \in Readers : d \in Reads[x] => x = r
<1> DEFINE S == {x \in Readers : d \in Reads[x]}
<1>1. IsFiniteSet(S)
  BY UartReadAssumption, FS_Subset
<1>2. PICK y : S = {y}
  BY <1>1, FS_Singleton DEF OneReader
<1>. QED  BY <1>2

(* What is on its way consists of bytes. *)
LEMMA PipelineType ==
  ASSUME TypeOK, NEW d \in Devices, NEW r \in Readers
  PROVE  /\ delivered[d] \in Seq(Byte)
         /\ Hand(d, r) \in Seq(Byte)
         /\ Scb[d] \in Scbs
         /\ Content(queue[Scb[d]]) \in Seq(Byte)
         /\ delivered[d] \o Hand(d, r) \in Seq(Byte)
<1>1. delivered[d] \in Seq(Byte) /\ Scb[d] \in Scbs /\ call[r] \in Call \cup {Idle}
  BY UartReadAssumption DEF TypeOK
<1>2. Hand(d, r) \in Seq(Byte)
  BY <1>1, NoBytes, InHandType DEF Hand
<1>3. Content(queue[Scb[d]]) \in Seq(Byte)
  BY <1>1, ContentType DEF TypeOK
<1>. QED  BY <1>1, <1>2, <1>3, ConcatProperties

(* A left-over fits in an empty ring. *)
LEMMA PacketFits ==
  ASSUME NEW k \in 0 .. EpSize - 1
  PROVE  k < Capacity
<1>1. 1 \in Nat /\ 1 <= Pages /\ k \in Nat /\ k <= 1 * (EpSize - 1)
  BY QueueAssumption
<1>. QED  BY <1>1, PagesSuffice

(* Steps of other devices do not matter. *)
LEMMA OrderUnmoved ==
  ASSUME NEW d, NEW r, OrderAt(d, r),
         delivered'[d] = delivered[d], sent'[d] = sent[d],
         queue'[Scb[d]] = queue[Scb[d]], Hand(d, r)' = Hand(d, r),
         Looping(r)' /\ call'[r].dev = d => Looping(r) /\ call[r].dev = d
  PROVE  OrderAt(d, r)'
<1>1. Pipeline(d, r)' = Pipeline(d, r)
  BY DEF Pipeline
<1>. QED  BY <1>1 DEF OrderAt

(* A step of thread x with device e keeps the order of every other device. *)
LEMMA OrderElsewhere ==
  ASSUME IsInjective(Scb), TypeInv, NEW x \in Readers, NEW e \in Devices,
         NEW c \in Call \cup {Idle}, call' = [call EXCEPT ![x] = c],
         call[x].pc # "idle" => call[x].dev = e, c.pc # "idle" => c.dev = e,
         NEW q, queue' = [queue EXCEPT ![Scb[e]] = q],
         NEW m, sent' = [sent EXCEPT ![e] = m],
         NEW s, delivered' = [delivered EXCEPT ![e] = s],
         NEW d \in Devices, d # e, NEW r \in Readers, OrderAt(d, r)
  PROVE  OrderAt(d, r)'
<1>1. Scb[d] \in Scbs /\ Scb[e] \in Scbs /\ Scb[d] # Scb[e]
  BY UartReadAssumption DEF IsInjective
<1>2. queue'[Scb[d]] = queue[Scb[d]] /\ sent'[d] = sent[d] /\ delivered'[d] = delivered[d]
  BY <1>1 DEF TypeInv, TypeOK
<1>3. call'[r] = IF r = x THEN c ELSE call[r]
  BY DEF TypeInv, TypeOK
<1>4. Hand(d, r)' = Hand(d, r)
  BY <1>3 DEF Hand
<1>5. Looping(r)' /\ call'[r].dev = d => Looping(r) /\ call[r].dev = d
  BY <1>3 DEF Looping
<1>. QED  BY <1>2, <1>4, <1>5, OrderUnmoved

(* The start of a call takes what the queue holds; if the call goes on to  *)
(* its loop, the queue is empty.                                           *)
LEMMA OrderBegin ==
  ASSUME IsInjective(Scb), TypeInv, NEW x \in Readers, NEW e \in Reads[x],
         NEW n \in Lengths, NEW t \in Timeouts, Begin(x, e, n, t),
         NEW d \in Devices, NEW r \in Readers, OneReader(d), d \in Reads[r],
         OrderAt(d, r)
  PROVE  OrderAt(d, r)'
<1>1. PICK c \in Call, left \in CyDataQueue :
        /\ call[x].pc = "idle"
        /\ c.dev = e
        /\ c.pc \in {"return", "bulk"}
        /\ Content(queue[Scb[e]]) = c.buffer \o Content(left)
        /\ WellFormed(left) /\ left.avail <= queue[Scb[e]].avail
        /\ queue[Scb[e]].avail < Capacity /\ c.pc = "bulk" => left.avail = 0
        /\ queue' = [queue EXCEPT ![Scb[e]] = left]
        /\ call' = [call EXCEPT ![x] = c]
        /\ UNCHANGED <<sent, delivered>>
  <2>1. PICK c \in Call, left \in CyDataQueue :
          /\ call[x].pc = "idle"
          /\ c.dev = e
          /\ c.pc = IF Len(c.buffer) = n THEN "return" ELSE "bulk"
          /\ WellFormed(left)
          /\ Content(queue[Scb[e]]) = c.buffer \o Content(left)
          /\ left.avail <= queue[Scb[e]].avail
          /\ queue[Scb[e]].avail < Capacity /\ c.pc = "bulk" => left.avail = 0
          /\ queue' = [queue EXCEPT ![Scb[e]] = left]
          /\ call' = [call EXCEPT ![x] = c]
          /\ UNCHANGED <<sent, delivered>>
    BY BeginEffect
  <2>2. c.pc \in {"return", "bulk"}
    BY <2>1
  <2>. QED  BY <2>1, <2>2
<1>2. e \in Devices
  BY UartReadAssumption
<1>3. CASE d # e
  <2>1. sent' = [sent EXCEPT ![e] = sent[e]] /\ delivered' = [delivered EXCEPT ![e] = delivered[e]]
    BY <1>1, <1>2 DEF TypeInv, TypeOK
  <2>. QED  BY <1>1, <1>2, <1>3, <2>1, OrderElsewhere
<1>4. CASE d = e
  <2>1. x = r
    BY <1>4, OnlyReader
  <2>2. /\ delivered[d] \in Seq(Byte) /\ Scb[d] \in Scbs
        /\ c.buffer \in Seq(Byte) /\ Content(left) \in Seq(Byte)
    BY <1>1, PipelineType, ContentType DEF TypeInv, Call, WellFormed
  <2>3. call'[r] = c /\ queue'[Scb[d]] = left /\ delivered'[d] = delivered[d]
        /\ sent'[d] = sent[d]
    BY <1>1, <1>4, <2>1, <2>2 DEF TypeInv, TypeOK
  <2>4. Hand(d, r) = <<>> /\ Hand(d, r)' = c.buffer
    BY <1>1, <1>4, <2>1, <2>3 DEF Hand, InHand
  <2>5. Pipeline(d, r)' = (delivered[d] \o c.buffer) \o Content(left)
    BY <2>3, <2>4 DEF Pipeline
  <2>6. Pipeline(d, r) = delivered[d] \o (c.buffer \o Content(left))
    BY <1>1, <1>4, <2>2, <2>4, ConcatEmptySeq DEF Pipeline
  <2>7. Pipeline(d, r)' = Pipeline(d, r)
    BY <2>2, <2>5, <2>6, ConcatThree
  <2>8. queue[Scb[d]].avail \in Nat /\ left.avail \in Nat /\ Capacity \in Nat
    BY <1>1, <2>2, Fields, CapacityType DEF TypeInv
  <2>9. left.avail < Capacity
    BY <1>1, <1>4, <2>8 DEF OrderAt
  <2>10. Looping(r)' => left.avail = 0
    BY <1>1, <1>4, <2>3 DEF Looping, OrderAt
  <2>. QED  BY <2>3, <2>7, <2>9, <2>10 DEF OrderAt
<1>. QED  BY <1>3, <1>4

(* A packet comes after everything that is on its way. *)
LEMMA OrderTransfer ==
  ASSUME IsInjective(Scb), TypeInv, OwnInv, NEW x \in Readers, Transfer(x),
         NEW d \in Devices, NEW r \in Readers, OneReader(d), d \in Reads[r],
         OrderAt(d, r)
  PROVE  OrderAt(d, r)'
<1>1. PICK k \in 0 .. EpSize, c \in Call :
        /\ call[x].pc = "bulk" /\ call[x] \in Call
        /\ c.pc = "copy" /\ c.dev = call[x].dev
        /\ c.buffer = call[x].buffer
        /\ c.packet = Stream(call[x].dev, k)
        /\ sent[c.dev] \in Nat
        /\ sent' = [sent EXCEPT ![c.dev] = @ + k]
        /\ call' = [call EXCEPT ![x] = c]
        /\ UNCHANGED <<queue, delivered, discarded, added>>
  BY TransferEffect
<1>2. c.dev \in Devices /\ c.dev \in Reads[x]
  BY <1>1 DEF Call, OwnInv
<1>3. CASE d # c.dev
  <2>1. /\ queue' = [queue EXCEPT ![Scb[c.dev]] = queue[Scb[c.dev]]]
        /\ delivered' = [delivered EXCEPT ![c.dev] = delivered[c.dev]]
    BY <1>1, <1>2 DEF TypeInv, TypeOK
  <2>2. sent' = [sent EXCEPT ![c.dev] = sent[c.dev] + k]
    BY <1>1
  <2>. QED  BY <1>1, <1>2, <1>3, <2>1, <2>2, OrderElsewhere
<1>4. CASE d = c.dev
  <2>1. x = r
    BY <1>2, <1>4, OnlyReader
  <2>2. /\ delivered[d] \in Seq(Byte) /\ Scb[d] \in Scbs
        /\ c.buffer \in Seq(Byte) /\ c.packet \in Seq(Byte)
    <3>1. c.buffer \in Seq(Byte) /\ c.packet \in Packet
      BY DEF Call
    <3>. QED  BY <3>1, PipelineType, QueueAssumption DEF TypeInv, Packet
  <2>3. call'[r] = c /\ queue'[Scb[d]] = queue[Scb[d]] /\ delivered'[d] = delivered[d]
        /\ sent'[d] = sent[d] + k
    BY <1>1, <1>4, <2>1 DEF TypeInv, TypeOK
  <2>4. Hand(d, r) = c.buffer /\ Hand(d, r)' = c.buffer \o c.packet
    BY <1>1, <1>4, <2>1, <2>3 DEF Hand, InHand
  <2>5. queue[Scb[d]].avail = 0 /\ InOrder(Pipeline(d, r), sent[d])
    BY <1>1, <1>4, <2>1 DEF OrderAt, Looping
  <2>6. Content(queue[Scb[d]]) = <<>>
    BY <2>2, <2>5, EmptyContent DEF TypeInv, TypeOK
  <2>7. delivered[d] \o c.buffer \in Seq(Byte)
        /\ delivered[d] \o (c.buffer \o c.packet) \in Seq(Byte)
    BY <2>2, ConcatProperties
  <2>8. Pipeline(d, r) = delivered[d] \o c.buffer
    BY <2>4, <2>6, <2>7, ConcatEmptySeq DEF Pipeline
  <2>9. Pipeline(d, r)' = (delivered[d] \o c.buffer) \o c.packet
    <3>1. Pipeline(d, r)' = (delivered[d] \o (c.buffer \o c.packet)) \o <<>>
      BY <2>3, <2>4, <2>6 DEF Pipeline
    <3>. QED  BY <2>2, <2>7, <3>1, ConcatThree, ConcatEmptySeq
  <2>10. InOrder((delivered[d] \o c.buffer) \o c.packet, sent[d] + k)
    <3>1. c.packet = [i \in 1 .. k |-> <<d, sent[d] + i>>]
      BY <1>1, <1>4 DEF Stream
    <3>2. k \in Nat /\ sent[d] \in Nat
      BY <1>1, <1>4, QueueAssumption
    <3>. QED  BY <2>2, <2>5, <2>8, <3>1, <3>2, NextInOrder
  <2>. QED  BY <2>3, <2>5, <2>9, <2>10 DEF OrderAt
<1>. QED  BY <1>3, <1>4

(* The left-over of a packet comes to the empty queue. *)
LEMMA OrderCopy ==
  ASSUME IsInjective(Scb), TypeInv, OwnInv, NEW x \in Readers, Copy(x),
         NEW d \in Devices, NEW r \in Readers, OneReader(d), d \in Reads[r],
         OrderAt(d, r)
  PROVE  OrderAt(d, r)'
<1>1. PICK c \in Call, rest \in Seq(Byte) :
        /\ call[x].pc = "copy"
        /\ Scb[c.dev] \in Scbs /\ c.dev = call[x].dev
        /\ c.pc \in {"bulk", "return"}
        /\ c.pc = "bulk" => rest = <<>>
        /\ Len(rest) \in 0 .. EpSize - 1
        /\ call[x].buffer \o call[x].packet = c.buffer \o rest
        /\ queue' = [queue EXCEPT ![Scb[c.dev]] = AfterAdd(@, rest)]
        /\ call' = [call EXCEPT ![x] = c]
        /\ UNCHANGED <<sent, delivered, discarded>>
  BY CopyEffect
<1>2. c.dev \in Devices /\ c.dev \in Reads[x]
  BY <1>1 DEF Call, OwnInv
<1>3. CASE d # c.dev
  <2>1. /\ sent' = [sent EXCEPT ![c.dev] = sent[c.dev]]
        /\ delivered' = [delivered EXCEPT ![c.dev] = delivered[c.dev]]
    BY <1>1, <1>2 DEF TypeInv, TypeOK
  <2>2. queue' = [queue EXCEPT ![Scb[c.dev]] = AfterAdd(queue[Scb[c.dev]], rest)]
    BY <1>1
  <2>. QED  BY <1>1, <1>2, <1>3, <2>1, <2>2, OrderElsewhere
<1>4. CASE d = c.dev
  <2> DEFINE q == queue[Scb[d]]
  <2>1. x = r
    BY <1>2, <1>4, OnlyReader
  <2>2. /\ delivered[d] \in Seq(Byte) /\ c.buffer \in Seq(Byte)
        /\ WellFormed(q) /\ q.avail = 0
    BY <1>1, <1>4, <2>1, PipelineType DEF TypeInv, Call, OrderAt, Looping
  <2>3. call'[r] = c /\ queue'[Scb[d]] = AfterAdd(q, rest)
        /\ delivered'[d] = delivered[d] /\ sent'[d] = sent[d]
    BY <1>1, <1>4, <2>1 DEF TypeInv, TypeOK
  <2>4. /\ AfterAdd(q, rest).avail = Len(rest) /\ Len(rest) < Capacity
        /\ Content(AfterAdd(q, rest)) = rest /\ Content(q) = <<>>
    <3>. HIDE DEF q
    <3>1. Len(rest) \in Nat /\ Capacity \in Nat /\ Len(rest) < Capacity
      BY <1>1, PacketFits, CapacityType
    <3>2. q.avail + Len(rest) <= Capacity
      BY <2>2, <3>1
    <3>3. /\ AfterAdd(q, rest).avail = q.avail + Len(rest)
          /\ Content(AfterAdd(q, rest)) = Content(q) \o rest
      BY <2>2, <3>2, AddLeaves, AddAppends
    <3>4. Content(q) = <<>>
      BY <2>2, EmptyContent DEF WellFormed
    <3>5. <<>> \o rest = rest
      BY ConcatEmptySeq
    <3>. QED  BY <2>2, <3>1, <3>3, <3>4, <3>5
  <2>5. Hand(d, r) = c.buffer \o rest /\ Hand(d, r)' = c.buffer
    BY <1>1, <1>4, <2>1, <2>3 DEF Hand, InHand
  <2>. HIDE DEF q
  <2>6. delivered[d] \o (c.buffer \o rest) \in Seq(Byte)
    BY <2>2, ConcatProperties
  <2>7. Pipeline(d, r) = delivered[d] \o (c.buffer \o rest)
    BY <2>4, <2>5, <2>6, ConcatEmptySeq DEF Pipeline, q
  <2>8. Pipeline(d, r)' = (delivered[d] \o c.buffer) \o rest
    BY <2>3, <2>4, <2>5 DEF Pipeline
  <2>9. Pipeline(d, r)' = Pipeline(d, r)
    BY <2>2, <2>7, <2>8, ConcatThree
  <2>10. Looping(r)' => AfterAdd(q, rest).avail = 0
    BY <1>1, <2>3, <2>4 DEF Looping
  <2>. QED  BY <2>3, <2>4, <2>9, <2>10 DEF OrderAt
<1>. QED  BY <1>3, <1>4

(* The end of a call hands over what its reader has in hand. *)
LEMMA OrderReturn ==
  ASSUME IsInjective(Scb), TypeInv, OwnInv, NEW x \in Readers, Return(x),
         NEW d \in Devices, NEW r \in Readers, OneReader(d), d \in Reads[r],
         OrderAt(d, r)
  PROVE  OrderAt(d, r)'
<1> DEFINE e == call[x].dev
           v == call[x].buffer
<1>1. /\ call[x].pc = "return" /\ e \in Devices /\ v \in Seq(Byte) /\ e \in Reads[x]
      /\ delivered' = [delivered EXCEPT ![e] = @ \o v]
      /\ call' = [call EXCEPT ![x] = Idle]
      /\ UNCHANGED <<queue, sent>>
  BY ReturnEffect DEF OwnInv
<1>2. Idle.pc = "idle"
  BY DEF Idle
<1>3. CASE d # e
  <2>1. /\ sent' = [sent EXCEPT ![e] = sent[e]]
        /\ queue' = [queue EXCEPT ![Scb[e]] = queue[Scb[e]]]
        /\ delivered' = [delivered EXCEPT ![e] = delivered[e] \o v]
    BY <1>1 DEF TypeInv, TypeOK
  <2>2. Idle \in Call \cup {Idle}
    OBVIOUS
  <2>. QED  BY <1>1, <1>2, <1>3, <2>1, <2>2, OrderElsewhere
<1>4. CASE d = e
  <2>1. x = r
    BY <1>1, <1>4, OnlyReader
  <2>2. delivered[d] \in Seq(Byte) /\ delivered[d] \o v \in Seq(Byte)
    BY <1>1, PipelineType, ConcatProperties DEF TypeInv
  <2>3. call'[r] = Idle /\ queue'[Scb[d]] = queue[Scb[d]]
        /\ delivered'[d] = delivered[d] \o v /\ sent'[d] = sent[d]
    BY <1>1, <1>4, <2>1 DEF TypeInv, TypeOK
  <2>4. Hand(d, r) = v /\ Hand(d, r)' = <<>>
    BY <1>1, <1>2, <1>4, <2>1, <2>3 DEF Hand, InHand
  <2>. HIDE DEF v
  <2>5. Pipeline(d, r)' = Pipeline(d, r)
    BY <2>2, <2>3, <2>4, ConcatEmptySeq DEF Pipeline
  <2>6. ~Looping(r)'
    BY <1>2, <2>3 DEF Looping
  <2>. QED  BY <2>3, <2>5, <2>6 DEF OrderAt
<1>. QED  BY <1>3, <1>4

(* Wiping a queue cuts off the end of what is on its way. *)
LEMMA OrderSetConfig ==
  ASSUME IsInjective(Scb), TypeInv, NEW e \in Devices, SetConfig(e),
         NEW d \in Devices, NEW r \in Readers, OrderAt(d, r)
  PROVE  OrderAt(d, r)'
<1>1. /\ queue' = [queue EXCEPT ![Scb[e]] = EmptyQueue]
      /\ UNCHANGED <<sent, call, delivered>>
  BY DEF SetConfig
<1>2. Hand(d, r)' = Hand(d, r)
  BY <1>1 DEF Hand
<1>3. Scb[d] \in Scbs /\ Scb[e] \in Scbs
  BY UartReadAssumption
<1>4. CASE d # e
  <2>1. queue'[Scb[d]] = queue[Scb[d]]
    <3>1. Scb[d] # Scb[e]
      BY <1>4, UartReadAssumption DEF IsInjective
    <3>. QED  BY <1>1, <1>3, <3>1 DEF TypeInv, TypeOK
  <2>. QED  BY <1>1, <1>2, <2>1, OrderUnmoved DEF Looping
<1>5. CASE d = e
  <2>1. queue'[Scb[d]] = EmptyQueue
    BY <1>1, <1>3, <1>5 DEF TypeInv, TypeOK
  <2>2. Content(EmptyQueue) = <<>> /\ EmptyQueue.avail = 0 /\ 0 < Capacity
    BY EmptyQueueType, EmptyContent, CapacityType DEF WellFormed
  <2> DEFINE u == delivered[d] \o Hand(d, r)
  <2>3. u \in Seq(Byte) /\ Content(queue[Scb[d]]) \in Seq(Byte)
    BY PipelineType DEF TypeInv
  <2>4. Pipeline(d, r)' = u
    <3>1. Pipeline(d, r)' = u \o <<>>
      BY <1>1, <1>2, <2>1, <2>2 DEF Pipeline
    <3>. QED  BY <2>3, <3>1, ConcatEmptySeq
  <2>. HIDE DEF u
  <2>5. InOrder(u, sent[d])
    <3>1. InOrder(u \o Content(queue[Scb[d]]), sent[d])
      BY DEF OrderAt, Pipeline, u
    <3>. QED  BY <2>3, <3>1, StartInOrder
  <2>. QED  BY <1>1, <2>1, <2>2, <2>4, <2>5 DEF OrderAt
<1>. QED  BY <1>4, <1>5

LEMMA OrderStep ==
  ASSUME ~SubmitFaults, IsInjective(Scb), TypeInv, OwnInv, OrderInv, [Next]_vars
  PROVE  OrderInv'
<1> SUFFICES ASSUME NEW d \in Devices, NEW r \in Readers, OneReader(d), d \in Reads[r]
             PROVE  OrderAt(d, r)'
  BY DEF OrderInv, OneReader
<1>1. OrderAt(d, r)
  BY DEF OrderInv
<1>2. ASSUME NEW x \in Readers, NEW e \in Reads[x], NEW n \in Lengths,
             NEW t \in Timeouts, Begin(x, e, n, t)
      PROVE  OrderAt(d, r)'
  BY <1>1, <1>2, OrderBegin
<1>3. ASSUME NEW x \in Readers, Transfer(x)
      PROVE  OrderAt(d, r)'
  BY <1>1, <1>3, OrderTransfer
<1>4. ASSUME NEW x \in Readers, Copy(x)
      PROVE  OrderAt(d, r)'
  BY <1>1, <1>4, OrderCopy
<1>5. ASSUME NEW x \in Readers, Return(x)
      PROVE  OrderAt(d, r)'
  BY <1>1, <1>5, OrderReturn
<1>6. ASSUME NEW e \in Devices, SetConfig(e)
      PROVE  OrderAt(d, r)'
  BY <1>1, <1>6, OrderSetConfig
<1>7. CASE UNCHANGED vars
  BY <1>1, <1>7 DEF vars, OrderAt, Pipeline, Hand, Looping
<1>. QED  BY <1>2, <1>3, <1>4, <1>5, <1>6, <1>7 DEF Next, SubmitFails

LEMMA OrderInitial == Init => OwnInv /\ OrderInv
<1> SUFFICES ASSUME Init PROVE OwnInv /\ OrderInv
  OBVIOUS
<1>1. \A d \in Devices : /\ delivered[d] = <<>> /\ sent[d] = 0
                         /\ queue[Scb[d]].avail = 0 /\ queue[Scb[d]].avail < Capacity
                         /\ Content(queue[Scb[d]]) = <<>>
  BY UartReadAssumption, EmptyQueueType, EmptyContent, CapacityType DEF Init, WellFormed
<1>2. \A r \in Readers : call[r].pc = "idle"
  BY DEF Init, Idle
<1>3. OwnInv
  BY <1>1, <1>2, NoBytes DEF OwnInv
<1>4. ASSUME NEW d \in Devices, NEW r \in Readers
      PROVE  OrderAt(d, r)
  <2>1. Pipeline(d, r) = <<>>
    <3>1. <<>> \o <<>> = <<>>
      BY NoBytes, ConcatEmptySeq
    <3>. QED  BY <1>1, <1>2, <3>1 DEF Pipeline, Hand
  <2>2. InOrder(<<>>, sent[d])
    BY NoBytes DEF InOrder
  <2>. QED  BY <1>1, <2>1, <2>2 DEF OrderAt
<1>. QED  BY <1>3, <1>4 DEF OrderInv

(* What is handed out is the oldest part of what is on its way. *)
LEMMA HandedInOrder ==
  ASSUME TypeInv, OwnInv, OrderInv
  PROVE  OwnBytesInOrder
<1> SUFFICES ASSUME NEW d \in Devices
             PROVE  /\ \A i \in DOMAIN delivered[d] :
                         delivered[d][i] \in {d} \X (1 .. MaxSent)
                    /\ OneReader(d) =>
                         \A i, j \in DOMAIN delivered[d] :
                           i < j => delivered[d][i][2] < delivered[d][j][2]
  BY DEF OwnBytesInOrder
<1>1. \A i \in DOMAIN delivered[d] : delivered[d][i] \in {d} \X (1 .. MaxSent)
  BY DEF OwnInv, Own, Range
<1>2. ASSUME OneReader(d)
      PROVE  \A i, j \in DOMAIN delivered[d] :
               i < j => delivered[d][i][2] < delivered[d][j][2]
  <2> DEFINE S == {r \in Readers : d \in Reads[r]}
  <2>1. S # {}
    BY <1>2, FS_EmptySet DEF OneReader
  <2>2. PICK r \in Readers : d \in Reads[r]
    BY <2>1
  <2>3. InOrder(Pipeline(d, r), sent[d])
    BY <1>2, <2>2 DEF OrderInv, OrderAt
  <2>4. InOrder(delivered[d] \o Hand(d, r), sent[d])
    BY <2>3, PipelineType, StartInOrder DEF Pipeline, TypeInv
  <2>5. InOrder(delivered[d], sent[d])
    BY <2>4, PipelineType, StartInOrder DEF TypeInv
  <2>. QED  BY <2>5 DEF InOrder
<1>. QED  BY <1>1, <1>2

(* If libusb does submit every transfer and no two devices share a serial  *)
(* block number, the readers of a device are handed bytes of that device   *)
(* and no other, and a thread that reads it alone gets them in the order   *)
(* they were sent, across its calls and through the queue, and whatever    *)
(* fills the queues of other devices.                                      *)
THEOREM ReadersGetOwnBytesInOrder ==
  ASSUME ~SubmitFaults, IsInjective(Scb)
  PROVE  Spec => []OwnBytesInOrder
<1>1. TypeInv /\ OwnInv /\ OrderInv /\ [Next]_vars => OwnInv' /\ OrderInv'
  BY OwnStep, OrderStep
<1>2. TypeInv /\ OwnInv /\ OrderInv => OwnBytesInOrder
  BY HandedInOrder
<1>. QED  BY <1>1, <1>2, OrderInitial, TypeInvariant, PTL DEF Spec
=============================================================================

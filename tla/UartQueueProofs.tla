--------------------------- MODULE UartQueueProofs --------------------------
(***************************************************************************)
(* Proofs about the left-over queue, for every ring size, packet size and  *)
(* byte alphabet.                                                          *)
(***************************************************************************)
EXTENDS UartQueue, CyDataQueueProofs

(* The queue is well formed and its positions agree: the inductive         *)
(* invariant of the ring.                                                  *)
QueueInv == TypeOK /\ PositionsAgree

-----------------------------------------------------------------------------
(* The invariant makes the queue well formed and keeps it from being full. *)
LEMMA InvWellFormed ==
  ASSUME QueueInv
  PROVE  WellFormed(queue) /\ queue.avail \in Nat /\ queue.avail < Capacity
BY CapacityType, FillAssumption
   DEF QueueInv, TypeOK, PositionsAgree, WellFormed, CyDataQueue

(* A left-over is a non-empty sequence of bytes. *)
LEMMA LeftOverType ==
  ASSUME NEW s \in LeftOver
  PROVE  s \in Seq(Byte) /\ Len(s) \in Nat \ {0}
BY QueueAssumption DEF LeftOver

(* Taking bytes keeps the invariant. *)
LEMMA GetStep ==
  ASSUME QueueInv, NEW n \in Nat \ {0}, Get(n)
  PROVE  QueueInv'
<1>1. /\ WellFormed(queue')
      /\ out' \in Seq(Byte)
      /\ queue'.avail = queue.avail - GetCount(queue, n)
  BY InvWellFormed, GetLeaves DEF Get
<1>2. GetCount(queue, n) \in Nat
  BY InvWellFormed, GetCountIsMin
<1>3. added' \in Seq(Byte)
  BY DEF Get
<1>. QED  BY <1>1, <1>2, <1>3, InvWellFormed, FillAssumption
     DEF QueueInv, TypeOK, PositionsAgree, WellFormed

(* Adding bytes keeps the invariant. *)
LEMMA AddStep ==
  ASSUME QueueInv, NEW s \in LeftOver, Add(s)
  PROVE  QueueInv'
<1>1. queue.avail + Len(s) <= Capacity
  BY InvWellFormed, LeftOverType, FillAssumption, CapacityType DEF Add
<1>2. WellFormed(queue') /\ queue'.avail = queue.avail + Len(s)
  BY <1>1, InvWellFormed, LeftOverType, AddLeaves DEF Add
<1>3. added' \in Seq(Byte) /\ out' \in Seq(Byte)
  BY LeftOverType DEF Add
<1>. QED  BY <1>2, <1>3 DEF QueueInv, TypeOK, PositionsAgree, WellFormed, Add

(* A left-over put into the ring is appended to its content. *)
LEMMA AddIsPut ==
  ASSUME QueueInv, NEW s \in LeftOver, Add(s)
  PROVE  Fifo!Put
<1>1. queue.avail + Len(s) <= Capacity
  BY InvWellFormed, LeftOverType, FillAssumption, CapacityType DEF Add
<1>2. Content(queue') = Content(queue) \o s
  BY <1>1, InvWellFormed, LeftOverType, AddAppends DEF Add
<1>. QED  BY <1>2, LeftOverType DEF Fifo!Put, Add

(* A drain of the ring takes the oldest bytes of its content, as many as   *)
(* were asked for or there are: the ring is not full.                      *)
LEMMA GetIsTake ==
  ASSUME QueueInv, NEW n \in Nat \ {0}, Get(n)
  PROVE  Fifo!Take(n)
<1>1. Len(Content(queue)) = queue.avail
  BY InvWellFormed, ContentType DEF WellFormed
<1>2. GetCount(queue, n) = IF n < queue.avail THEN n ELSE queue.avail
  BY InvWellFormed, GetCountIsMin
<1>3. /\ out' = SubSeq(Content(queue), 1, GetCount(queue, n))
      /\ Content(queue') = SubSeq(Content(queue), GetCount(queue, n) + 1, queue.avail)
  BY InvWellFormed, GetTakes DEF Get
<1>. QED  BY <1>1, <1>2, <1>3 DEF Fifo!Take, Get

-----------------------------------------------------------------------------
(* Every state of the queue is well formed, its positions and fill level   *)
(* agree and it is never full: the run's TypeOK and PositionsAgree for     *)
(* every ring.                                                             *)
THEOREM QueueInvariant == Spec => [](TypeOK /\ PositionsAgree)
<1>1. Init => QueueInv
  BY EmptyQueueType, FillAssumption
     DEF Init, QueueInv, TypeOK, PositionsAgree, WellFormed
<1>2. QueueInv /\ [Next]_vars => QueueInv'
  <2> SUFFICES ASSUME QueueInv, [Next]_vars
               PROVE  QueueInv'
    OBVIOUS
  <2>1. ASSUME NEW s \in LeftOver, Add(s)
        PROVE  QueueInv'
    BY <2>1, AddStep
  <2>2. ASSUME NEW n \in 1 .. MaxTake, Get(n)
        PROVE  QueueInv'
    BY <2>2, GetStep, FillAssumption
  <2>3. CASE Reset
    BY <2>3, EmptyQueueType, FillAssumption
       DEF Reset, QueueInv, TypeOK, PositionsAgree, WellFormed
  <2>4. CASE UNCHANGED vars
    BY <2>4 DEF vars, QueueInv, TypeOK, PositionsAgree
  <2>. QED  BY <2>1, <2>2, <2>3, <2>4 DEF Next
<1>. QED  BY <1>1, <1>2, PTL DEF Spec, QueueInv

(* Whatever the caller adds and takes, head, tail and fill level of the    *)
(* ring stay within its array.                                             *)
THEOREM QueueTypeCorrect == Spec => []TypeOK
BY QueueInvariant, PTL

(* The ring implements the queue of bytes: nothing that a packet left over *)
(* is lost, duplicated or reordered by the wrap-around, the partial reads  *)
(* and the resets of the ring, for every ring size and every caller that   *)
(* keeps it from being completely full.                                    *)
THEOREM QueueImplementsFifo == Spec => FifoSpec
<1>1. Init => Fifo!Init
  BY EmptyQueueType, EmptyContent DEF Init, Fifo!Init, WellFormed
<1>2. QueueInv /\ [Next]_vars => [Fifo!Next]_(Fifo!vars)
  <2> SUFFICES ASSUME QueueInv, [Next]_vars
               PROVE  [Fifo!Next]_(Fifo!vars)
    OBVIOUS
  <2>1. ASSUME NEW s \in LeftOver, Add(s)
        PROVE  Fifo!Next
    BY <2>1, AddIsPut DEF Fifo!Next
  <2>2. ASSUME NEW n \in 1 .. MaxTake, Get(n)
        PROVE  Fifo!Next
    BY <2>2, GetIsTake, FillAssumption DEF Fifo!Next
  <2>3. CASE Reset
    BY <2>3, EmptyQueueType, EmptyContent DEF Reset, Fifo!Next, Fifo!Clear, WellFormed
  <2>4. CASE UNCHANGED vars
    BY <2>4 DEF vars, Fifo!vars, Content, FromHead
  <2>. QED  BY <2>1, <2>2, <2>3, <2>4 DEF Next
<1>3. Spec => []QueueInv
  BY QueueInvariant DEF QueueInv
<1>. QED  BY <1>1, <1>2, <1>3, PTL DEF Spec, FifoSpec, FifoStep
=============================================================================

------------------------------ MODULE UartQueue -----------------------------
(***************************************************************************)
(* One left-over queue of cyuart.cpp under every sequence of calls a       *)
(* reader may make: it adds what a packet held beyond its own buffer, and  *)
(* takes what is there before it turns to the endpoint.                    *)
(*                                                                         *)
(* The caller never fills the ring completely.  That is what module        *)
(* UartRead shows of CyUartRead, and it is needed: GetDataFromTheQueue     *)
(* refuses to read a ring that is full.                                    *)
(***************************************************************************)
EXTENDS CyDataQueue

CONSTANTS
  MaxFill,  (* the caller's bound on the fill level                        *)
  MaxTake   (* bound: the largest buffer a caller asks to fill             *)

ASSUME FillAssumption ==
  /\ MaxFill \in Nat
  /\ MaxFill < Capacity
  /\ MaxTake \in Nat

VARIABLES
  queue,  (* gSimpleDataQueue[scbIndex]                          *)
  added,  (* the bytes the last call was given, none if a taking *)
  out     (* the bytes the last call delivered, none if an add   *)

vars == <<queue, added, out>>

Init == queue = EmptyQueue /\ added = <<>> /\ out = <<>>

(* A reader leaves the bytes s of a packet that its buffer cannot take. *)
Add(s) ==
  /\ queue.avail + Len(s) <= MaxFill
  /\ queue' = AfterAdd(queue, s)
  /\ added' = s
  /\ out' = <<>>

(* A reader drains the queue into a buffer of n bytes. *)
Get(n) ==
  /\ out' = GetData(queue, n)
  /\ queue' = AfterGet(queue, n)
  /\ added' = <<>>

(* CySetUartConfig zeroes the queue. *)
Reset == queue' = EmptyQueue /\ added' = <<>> /\ out' = <<>>

(* The left-over of one packet. *)
LeftOver == UNION {[1 .. n -> Byte] : n \in 1 .. EpSize - 1}

Next ==
  \/ \E s \in LeftOver : Add(s)
  \/ \E n \in 1 .. MaxTake : Get(n)
  \/ Reset

Spec == Init /\ [][Next]_vars

-----------------------------------------------------------------------------
TypeOK == queue \in CyDataQueue /\ added \in Seq(Byte) /\ out \in Seq(Byte)

(* The two positions and the fill level, kept apart in the code, always    *)
(* agree: the tail is the head plus the fill level around the ring, and    *)
(* the ring is never full, so equal positions mean an empty queue.         *)
PositionsAgree ==
  /\ queue.tail = Wrap(queue.head + queue.avail)
  /\ queue.avail <= MaxFill

(* The ring implements the queue of bytes that CyUartRead counts on:       *)
(* nothing is lost, duplicated or reordered by its wrap-around, by its     *)
(* partial reads or by its resets.                                         *)
Fifo == INSTANCE ByteFifo WITH content <- Content(queue)

FifoStep == [][Fifo!Next]_(Fifo!vars)

FifoSpec == Fifo!Init /\ FifoStep
=============================================================================

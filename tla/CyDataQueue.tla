---------------------------- MODULE CyDataQueue ----------------------------
(***************************************************************************)
(* The left-over queue of the UART reader, struct dtQueue of cyuart.cpp,   *)
(* and its two helpers GetDataFromTheQueue and AddDataToQueue, as          *)
(* operators on a record.                                                  *)
(*                                                                         *)
(* The queue is a ring of Pages pages of EpSize bytes (4 pages of 64 in    *)
(* the code).  Positions are uint8_t and the ring has 256 cells, so adding *)
(* to a position and the ring's own wrap-around are the same operation,    *)
(* Wrap.  A queue keeps its fill level apart from its two positions, which *)
(* is how an empty ring and a full one, with equal positions, differ.      *)
(***************************************************************************)
EXTENDS Integers, Sequences

CONSTANTS
  Byte,    (* the bytes a device can send                                  *)
  Zero,    (* the byte of memory that was never written                    *)
  EpSize,  (* MAX_DEVICE_EP_SIZE: the largest packet of the IN endpoint    *)
  Pages    (* NO_DATA_QUEUE_PAGES                                          *)

ASSUME QueueAssumption ==
  /\ Zero \in Byte
  /\ EpSize \in Nat \ {0}
  /\ Pages \in Nat \ {0}

(* nMaxBufferSize *)
Capacity == Pages * EpSize

Position == 0 .. Capacity - 1

CyDataQueue ==
  [cells : [Position -> Byte], head : Position, tail : Position,
   avail : 0 .. Capacity]

(* Static storage, and what memset leaves: everything zero. *)
EmptyQueue ==
  [cells |-> [i \in Position |-> Zero], head |-> 0, tail |-> 0, avail |-> 0]

(* Mutant: the position after the last cell is taken for a cell. *)
WrapMutant(p) == IF p <= Capacity THEN p ELSE p - Capacity

(* The position n cells after another one, n at most Capacity. *)
Wrap(p) == IF p < Capacity THEN p ELSE p - Capacity

(* The bytes of the n cells from the head on. *)
FromHead(q, n) == [i \in 1 .. n |-> q.cells[Wrap(q.head + i - 1)]]

(* What the queue holds, oldest byte first. *)
Content(q) == FromHead(q, q.avail)

(* The tail is the head plus the fill level around the ring.  Equal        *)
(* positions then mean a queue that is empty or completely full.           *)
WellFormed(q) ==
  /\ q \in CyDataQueue
  /\ q.tail = Wrap(q.head + q.avail)

-----------------------------------------------------------------------------
(***************************************************************************)
(* GetDataFromTheQueue with a caller's buffer of n bytes.                  *)
(***************************************************************************)

(* The early returns: nothing there, equal positions, no room to copy to.  *)
(* The second one also refuses a queue that is completely full.            *)
GetRefused(q, n) ==
  \/ q.avail = 0
  \/ q.head = q.tail
  \/ n = 0

(* transferCount as the call leaves it (the caller had set it to zero).    *)
GetCount(q, n) ==
  IF GetRefused(q, n) THEN 0
  ELSE IF n < q.avail THEN n
  ELSE IF q.head + q.avail <= Capacity THEN q.avail
  ELSE (Capacity - q.head) + q.tail

(* The bytes copied to the caller. *)
GetData(q, n) == FromHead(q, GetCount(q, n))

(* Mutant: a partial read leaves the fill level as it was. *)
AfterGetMutant(q, n) ==
  IF GetRefused(q, n) THEN q
  ELSE IF n >= q.avail THEN [q EXCEPT !.head = 0, !.tail = 0, !.avail = 0]
  ELSE [q EXCEPT !.head = Wrap(q.head + n)]

(* The queue the call leaves: a queue taken as a whole starts over at      *)
(* position 0, otherwise the head moves on.                                *)
AfterGet(q, n) ==
  IF GetRefused(q, n) THEN q
  ELSE IF n >= q.avail
  THEN [cells |-> q.cells, head |-> 0, tail |-> 0, avail |-> 0]
  ELSE [cells |-> q.cells, head |-> Wrap(q.head + n), tail |-> q.tail,
        avail |-> q.avail - n]

-----------------------------------------------------------------------------
(***************************************************************************)
(* AddDataToQueue with the bytes s.                                        *)
(***************************************************************************)

(* The early returns, which drop s without telling the caller. *)
AddRefused(q, s) ==
  \/ q.avail >= Capacity
  \/ Len(s) = 0
  \/ q.avail + Len(s) > Capacity

(* Mutant: the part behind the wrap-around starts one byte too early. *)
OffsetMutant(q, i) ==
  IF i >= q.tail THEN i - q.tail + 1 ELSE i + Capacity - q.tail

(* The index in s of the byte that is written to cell i. *)
Offset(q, i) ==
  IF i >= q.tail THEN i - q.tail + 1 ELSE i + Capacity - q.tail + 1

AfterAdd(q, s) ==
  IF AddRefused(q, s) THEN q
  ELSE [cells |-> [i \in Position |->
                     IF Offset(q, i) <= Len(s) THEN s[Offset(q, i)]
                                               ELSE q.cells[i]],
        head  |-> q.head,
        tail  |-> Wrap(q.tail + Len(s)),
        avail |-> q.avail + Len(s)]
=============================================================================

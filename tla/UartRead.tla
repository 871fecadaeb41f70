------------------------------ MODULE UartRead ------------------------------
(***************************************************************************)
(* CyUartRead of cyuart.cpp: threads read the bytes that UART devices      *)
(* send, through the left-over queues they share.                          *)
(*                                                                         *)
(* A call first takes what an earlier call left in the queue of its serial *)
(* block, then fetches packets from the IN endpoint until its buffer is    *)
(* full, a transfer fails or its time is used up.  What the last packet    *)
(* holds beyond the buffer goes to the queue.  The queues are global, one  *)
(* per serial block and not per device, and no call resets them except     *)
(* CySetUartConfig.                                                        *)
(*                                                                         *)
(* The n-th byte that device d sends is the pair <<d, n>>.  One call of a  *)
(* queue helper is one step: two threads inside the helpers at once are a  *)
(* data race, which this module leaves out.  libusb is external: a         *)
(* transfer takes the next packet of the device's stream and reports one   *)
(* of the statuses the code distinguishes.                                 *)
(***************************************************************************)
EXTENDS CyDataQueue, FiniteSets

CONSTANTS
  Devices,      (* open UART handles                                       *)
  Readers,      (* threads that call CyUartRead                            *)
  Scb,          (* serial block of a device: interfaceNum > 0, as 0 or 1   *)
  Reads,        (* Reads[r]: the devices thread r reads from               *)
  Lengths,      (* readBuffer->length of a call                            *)
  Timeouts,     (* ioTimeOut of a call, in milliseconds                    *)
  TimeMod,      (* 2^32 in the code: newIoTimeout is a uint32_t            *)
  Late,         (* bound: by how much a transfer's measured time may       *)
                (* exceed its timeout                                      *)
  MaxSent,      (* bound: the bytes a device sends                         *)
  SubmitFaults  (* whether libusb may fail to submit a transfer            *)

Scbs == 0 .. 1

ASSUME UartReadAssumption ==
  /\ Devices \X (1 .. MaxSent) \subseteq Byte
  /\ IsFiniteSet(Readers)
  /\ Scb \in [Devices -> Scbs]
  /\ Reads \in [Readers -> SUBSET Devices]
  /\ Lengths \subseteq Nat \ {0}
  /\ TimeMod \in Nat \ {0}
  /\ Timeouts \subseteq 0 .. TimeMod - 1
  /\ Late \in Nat
  /\ MaxSent \in Nat
  /\ SubmitFaults \in BOOLEAN

VARIABLES
  queue,      (* gSimpleDataQueue                                          *)
  sent,       (* how many bytes each device has sent                       *)
  call,       (* the call each thread is in                                *)
  delivered,  (* history: the bytes each device's readers were handed      *)
  discarded,  (* history: the bytes CySetUartConfig wiped from a queue     *)
  added       (* history: who has added to a queue since it was last empty *)

vars == <<queue, sent, call, delivered, discarded, added>>

(***************************************************************************)
(* A call: where it is, the device it reads, the length of the caller's    *)
(* buffer, the bytes copied to it so far (totalRead is their number), the  *)
(* time left, the last packet (cyTempBuffer, transferCount is its length), *)
(* and rStatus, where ERROR stands for a halted pipe, an overflow, a       *)
(* device that is gone and every other error: the call treats them alike   *)
(* but for the code it returns and the reset of a halted endpoint.         *)
(***************************************************************************)
Status == {"SUCCESS", "TIMEOUT", "ERROR"}

Packet == UNION {[1 .. n -> Byte] : n \in 0 .. EpSize}

Idle == [pc |-> "idle"]

Call ==
  [pc : {"bulk", "copy", "return"}, dev : Devices, length : Lengths,
   buffer : Seq(Byte), timeout : 0 .. TimeMod - 1, packet : Packet,
   status : Status]

(* What is left of the caller's buffer: the variable length of the code. *)
Room(c) == c.length - Len(c.buffer)

Init ==
  /\ queue = [s \in Scbs |-> EmptyQueue]
  /\ sent = [d \in Devices |-> 0]
  /\ call = [r \in Readers |-> Idle]
  /\ delivered = [d \in Devices |-> <<>>]
  /\ discarded = {}
  /\ added = [s \in Scbs |-> {}]

-----------------------------------------------------------------------------
(* CyUartRead up to its loop: the buffer takes what the queue holds, and a *)
(* buffer that is full already ends the call.                              *)
Begin(r, d, n, t) ==
  LET q    == queue[Scb[d]]
      took == GetData(q, n)
      left == AfterGet(q, n)
  IN  /\ call[r].pc = "idle"
      /\ queue' = [queue EXCEPT ![Scb[d]] = left]
      /\ added' = [added EXCEPT ![Scb[d]] = IF left.avail = 0 THEN {} ELSE @]
      /\ call' = [call EXCEPT ![r] =
           [pc |-> IF Len(took) = n THEN "return" ELSE "bulk", dev |-> d,
            length |-> n, buffer |-> took, timeout |-> t, packet |-> <<>>,
            status |-> "SUCCESS"]]
      /\ UNCHANGED <<sent, delivered, discarded>>

(* The next k bytes of a device's stream. *)
Stream(d, k) == [i \in 1 .. k |-> <<d, sent[d] + i>>]

(* The time a transfer of timeout t may be measured to take when it ends   *)
(* in status st: a timeout is not reported early, no timeout means waiting *)
(* for ever, and the clock is read after the thread runs again.            *)
Elapsed(t, st) ==
  IF t = 0 THEN 0 .. Late
  ELSE IF st = "TIMEOUT" THEN t .. t + Late
  ELSE 0 .. t + Late

(* libusb_bulk_transfer completes with a packet of k bytes and status st,  *)
(* and the time it took is subtracted from the time left, modulo 2^32.     *)
Transfer(r) ==
  LET c == call[r] IN
  /\ c.pc = "bulk"
  /\ \E k \in 0 .. EpSize, st \in Status : \E e \in Elapsed(c.timeout, st) :
       /\ sent[c.dev] + k <= MaxSent
       /\ st = "TIMEOUT" => c.timeout > 0
       /\ sent' = [sent EXCEPT ![c.dev] = @ + k]
       /\ call' = [call EXCEPT ![r] =
            [c EXCEPT !.pc = "copy", !.packet = Stream(c.dev, k), !.status = st,
                      !.timeout = (c.timeout + TimeMod - e) % TimeMod]]
  /\ UNCHANGED <<queue, delivered, discarded, added>>

(* libusb_bulk_transfer cannot submit the transfer: it fails at once and   *)
(* writes neither cyTempBuffer nor transferCount, which keep the previous  *)
(* packet.  Before the first packet they are uninitialized; a count within *)
(* the size of cyTempBuffer stands for what they may hold.  The bound on   *)
(* delivered keeps that history finite.                                    *)
SubmitFails(r) ==
  LET c == call[r] IN
  /\ SubmitFaults
  /\ c.pc = "bulk"
  /\ Len(delivered[c.dev]) <= MaxSent
  /\ \E k \in 0 .. EpSize :
       call' = [call EXCEPT ![r] =
         [c EXCEPT !.pc = "copy", !.status = "ERROR",
                   !.packet = IF @ = <<>> THEN [i \in 1 .. k |-> Zero] ELSE @]]
  /\ UNCHANGED <<queue, sent, delivered, discarded, added>>

(* Mutant: the whole packet is copied, whatever the room. *)
CopiedMutant(c) == c.packet

(* The rest of the loop's body: copy what fits, queue the rest.            *)
Copied(c) ==
  IF Len(c.packet) <= Room(c) THEN c.packet ELSE SubSeq(c.packet, 1, Room(c))

(* Mutants: the rest starts one byte late; it is taken from the start of   *)
(* the packet; the whole packet is taken for the rest.                     *)
LeftOverMutantLate(c) ==
  IF Len(c.packet) <= Room(c) THEN <<>>
  ELSE SubSeq(c.packet, Room(c) + 2, Len(c.packet))

LeftOverMutantStart(c) ==
  IF Len(c.packet) <= Room(c) THEN <<>>
  ELSE SubSeq(c.packet, 1, Len(c.packet) - Room(c))

LeftOverMutantWhole(c) ==
  IF Len(c.packet) <= Room(c) THEN <<>> ELSE c.packet

LeftOver(c) ==
  IF Len(c.packet) <= Room(c) THEN <<>>
  ELSE SubSeq(c.packet, Room(c) + 1, Len(c.packet))

(* Mutant: running out of time is not told from success. *)
LastStatusMutant(c, full) == c.status

(* A call that has used up its time reports a timeout, whatever the last   *)
(* transfer's status was.                                                  *)
LastStatus(c, full) == IF c.timeout = 0 /\ ~full THEN "TIMEOUT" ELSE c.status

(* The loop goes on after a transfer that succeeded while there is room    *)
(* and time.                                                               *)
Copy(r) ==
  LET c    == call[r]
      s    == Scb[c.dev]
      buf  == c.buffer \o Copied(c)
      full == Len(buf) = c.length
      more == c.status = "SUCCESS" /\ ~full /\ c.timeout > 0
  IN  /\ c.pc = "copy"
      /\ queue' = [queue EXCEPT ![s] = AfterAdd(@, LeftOver(c))]
      /\ added' = [added EXCEPT ![s] = IF LeftOver(c) = <<>> THEN @ ELSE @ \cup {r}]
      /\ call' = [call EXCEPT ![r] =
           [c EXCEPT !.pc = IF more THEN "bulk" ELSE "return", !.buffer = buf,
                     !.status = LastStatus(c, full)]]
      /\ UNCHANGED <<sent, delivered, discarded>>

(* The call returns with transferCount = totalRead, whatever its status;   *)
(* after a stall it resets the IN endpoint first.                          *)
Return(r) ==
  LET c == call[r] IN
  /\ c.pc = "return"
  /\ delivered' = [delivered EXCEPT ![c.dev] = @ \o c.buffer]
  /\ call' = [call EXCEPT ![r] = Idle]
  /\ UNCHANGED <<queue, sent, discarded, added>>

(* CySetUartConfig wipes the queue of the device's serial block before it  *)
(* sends the request, and so also when the request fails.                  *)
SetConfig(d) ==
  LET q == queue[Scb[d]] IN
  /\ discarded' = discarded \cup {Content(q)[i] : i \in 1 .. q.avail}
  /\ queue' = [queue EXCEPT ![Scb[d]] = EmptyQueue]
  /\ added' = [added EXCEPT ![Scb[d]] = {}]
  /\ UNCHANGED <<sent, call, delivered>>

Next ==
  \/ \E r \in Readers :
       \/ \E d \in Reads[r], n \in Lengths, t \in Timeouts : Begin(r, d, n, t)
       \/ Transfer(r)
       \/ SubmitFails(r)
       \/ Copy(r)
       \/ Return(r)
  \/ \E d \in Devices : SetConfig(d)

Spec == Init /\ [][Next]_vars

-----------------------------------------------------------------------------
TypeOK ==
  /\ queue \in [Scbs -> CyDataQueue]
  /\ sent \in [Devices -> 0 .. MaxSent]
  /\ call \in [Readers -> Call \cup {Idle}]
  /\ \A r \in Readers : call[r].pc # "idle" => Len(call[r].buffer) <= call[r].length
  /\ delivered \in [Devices -> Seq(Byte)]
  /\ discarded \subseteq Byte
  /\ added \in [Scbs -> SUBSET Readers]

(* The architecture argument of the comment at the queue's size: a queue   *)
(* holds at most one left-over per thread, so with no more threads than    *)
(* pages it is never full.  A full queue is refused by both helpers: it    *)
(* drops what is added and keeps what it has for ever.                     *)
QueueFits ==
  \A s \in Scbs :
    /\ queue[s].avail <= Cardinality(added[s]) * (EpSize - 1)
    /\ queue[s].avail < Capacity

(* The comment by itself: the data of a queue never exceeds its pages, so  *)
(* that nothing has to be dropped and nothing stays behind.                *)
QueueNeverFull == \A s \in Scbs : queue[s].avail < Capacity

(* The bytes a call has taken from the endpoint or the queue and not yet   *)
(* handed over.                                                            *)
InHand(c) ==
  IF c.pc = "idle" THEN <<>>
  ELSE IF c.pc = "copy" THEN c.buffer \o c.packet
  ELSE c.buffer

(* Where in sequence s of an owner byte b occurs. *)
At(b, owner, s) == {<<owner, i>> : i \in {j \in DOMAIN s : s[j] = b}}

(* All places where byte b is. *)
Places(b) ==
  UNION (   {At(b, <<"delivered", d>>, delivered[d]) : d \in Devices}
       \cup {At(b, <<"call", r>>, InHand(call[r])) : r \in Readers}
       \cup {At(b, <<"queue", s>>, Content(queue[s])) : s \in Scbs}
       \cup {IF b \in discarded THEN {<< <<"discarded", 0>>, 1>>} ELSE {}})

(* Every byte a device has sent is in exactly one place, once: handed to a *)
(* caller, in the hands of a call, in a queue, or wiped with a queue.      *)
(* Nothing is lost or handed out twice, however the threads interleave.    *)
EachByteOnce ==
  \A d \in Devices : \A n \in 1 .. MaxSent :
    Cardinality(Places(<<d, n>>)) = IF n <= sent[d] THEN 1 ELSE 0

(* Whether a single thread reads device d. *)
OneReader(d) == Cardinality({r \in Readers : d \in Reads[r]}) = 1

(* The readers of a device are handed bytes of that device and no other,   *)
(* and a thread that reads it alone gets them in the order in which they   *)
(* were sent, across its calls and through the queue.                      *)
OwnBytesInOrder ==
  \A d \in Devices :
    /\ \A i \in DOMAIN delivered[d] : delivered[d][i] \in {d} \X (1 .. MaxSent)
    /\ OneReader(d) =>
         \A i, j \in DOMAIN delivered[d] :
           i < j => delivered[d][i][2] < delivered[d][j][2]

(* What a caller is handed is what its call has read: no byte twice and no  *)
(* byte that was never sent.                                               *)
HandsOutWhatWasRead ==
  \A d \in Devices : \A i, j \in DOMAIN delivered[d] :
    /\ delivered[d][i] # Zero
    /\ i # j => delivered[d][i] # delivered[d][j]

(* A call reports success only with a full buffer: a short packet, a       *)
(* zero-length one or the end of its time never looks like the whole read. *)
SuccessMeansFull ==
  \A r \in Readers :
    call[r].pc = "return" /\ call[r].status = "SUCCESS" =>
      Len(call[r].buffer) = call[r].length

(* While a call goes on, the time it has left does not grow: the library's *)
(* timer helpers are there "for proper timing".                            *)
TimeLeftNeverGrows ==
  [][\A r \in Readers :
       call[r].pc = "bulk" /\ call'[r].pc = "copy" /\ call[r].timeout > 0 =>
         call'[r].timeout <= call[r].timeout]_vars
=============================================================================

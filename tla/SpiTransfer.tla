----------------------------- MODULE SpiTransfer ----------------------------
(***************************************************************************)
(* CySpiReadWrite of cyspi.cpp on one device: threads read, write or do    *)
(* both at once, under a lock that is only tried.                          *)
(*                                                                         *)
(* After the command a write is one bulk transfer, followed by requests    *)
(* for the block's status, one per millisecond, until it is zero.  A read  *)
(* runs in a thread of its own, spiCollectData, which collects short       *)
(* packets until the buffer is full; its parameters and its results are on *)
(* the stack of the caller, which joins it.  Both keep what is left of the *)
(* timeout by a millisecond clock, the write as a uint32_t, the read as an *)
(* int.  Both reset the SPI block when they fail, each under the other's   *)
(* feet.                                                                   *)
(*                                                                         *)
(* libusb and the device are external: a transfer ends in one of the ways  *)
(* the code distinguishes.  The data is only counted.                      *)
(***************************************************************************)
EXTENDS Integers

CONSTANTS
  Threads,       (* application threads                                    *)
  NoThread,      (* no one: the lock is free                               *)
  Lengths,       (* readBuffer->length of a call                           *)
  Timeouts,      (* ioTimeout of a call, in milliseconds; 0 is for ever    *)
  TimeMod,       (* 2^32 in the code: ioTimeout is a uint32_t              *)
  Late,          (* bound: by how much the measured time of a transfer may *)
                 (* exceed its timeout                                     *)
  EmptyPackets,  (* whether a device answers a read with empty packets     *)
  SubmitFaults   (* whether libusb may fail to submit the read transfer    *)

ASSUME SpiAssumption ==
  /\ NoThread \notin Threads
  /\ Lengths \subseteq Nat \ {0}
  /\ TimeMod \in Nat \ {0}
  /\ Timeouts \subseteq 0 .. TimeMod - 1
  /\ Late \in Nat
  /\ EmptyPackets \in BOOLEAN
  /\ SubmitFaults \in BOOLEAN

Modes == {"read", "write", "both"}

(* Results: FAILED is every error but the one for a lock that is taken and *)
(* CY_ERROR_IO_TIMEOUT.                                                    *)
Status == {"SUCCESS", "REFUSED", "IO_TIMEOUT", "FAILED"}

VARIABLES
  lock,    (* writeLock                                                    *)
  call,    (* the call each thread is in                                   *)
  reader,  (* the call's read thread                                       *)
  result   (* what each thread's last call returned                        *)

vars == <<lock, call, reader, result>>

(***************************************************************************)
(* A call: where it is, what it does, its ioTimeout, the length of the     *)
(* read buffer, loopCount of CySpiWrite, rStatus, and the history of       *)
(* whether the SPI block was reset meanwhile.  Its read thread: where it   *)
(* is, and readLength, newTimeout and rStatus of spiCollectData.           *)
(***************************************************************************)
Idle == [pc |-> "idle"]

NoReader == [pc |-> "none"]

Call ==
  [pc : {"command", "write", "poll", "join"}, mode : Modes,
   timeout : 0 .. TimeMod - 1, want : Lengths, loops : 0 .. TimeMod,
   status : Status, reset : BOOLEAN]

Reader ==
  [pc : {"loop", "wait", "lost", "done"}, got : Nat, left : Int, status : Status]

Init ==
  /\ lock = NoThread
  /\ call = [t \in Threads |-> Idle]
  /\ reader = [t \in Threads |-> NoReader]
  /\ result = [t \in Threads |-> "SUCCESS"]

-----------------------------------------------------------------------------
(* The call of thread t gives back the lock and returns s. *)
Return(t, s) ==
  /\ lock' = NoThread
  /\ call' = [call EXCEPT ![t] = Idle]
  /\ result' = [result EXCEPT ![t] = s]

(* It goes on as the call c. *)
GoesOn(t, c) == call' = [call EXCEPT ![t] = c] /\ UNCHANGED <<lock, result>>

(* An int that is assigned a uint32_t. *)
Signed(n) == IF n < TimeMod \div 2 THEN n ELSE n - TimeMod

(* The time that a transfer with n milliseconds left is measured to take:  *)
(* it does not time out early, nor without a timeout.                      *)
Elapsed(n, timedOut) ==
  IF timedOut THEN n .. n + Late
  ELSE IF n = 0 THEN 0 .. Late
  ELSE 0 .. n + Late

-----------------------------------------------------------------------------
(***************************************************************************)
(* The caller.                                                             *)
(***************************************************************************)

(* pthread_mutex_trylock. *)
Begin(t, m, n, to) ==
  /\ call[t] = Idle
  /\ \/ /\ lock = NoThread
        /\ lock' = t
        /\ call' = [call EXCEPT ![t] =
             [pc |-> "command", mode |-> m, timeout |-> to, want |-> n, loops |-> 0,
              status |-> "SUCCESS", reset |-> FALSE]]
        /\ UNCHANGED result
     \/ /\ lock # NoThread
        /\ result' = [result EXCEPT ![t] = "REFUSED"]
        /\ UNCHANGED <<lock, call>>
  /\ UNCHANGED reader

(* The read thread is created, with the caller's parameters. *)
Collect(t) ==
  reader' = [reader EXCEPT ![t] =
    [pc |-> "loop", got |-> 0, left |-> Signed(call[t].timeout), status |-> "SUCCESS"]]

(* Mutant: the lock is not given back if the read thread cannot be created. *)
CommandMutant(t) ==
  LET c == call[t] IN
  /\ c.pc = "command"
  /\ \/ /\ call' = [call EXCEPT ![t] = Idle]
        /\ result' = [result EXCEPT ![t] = "FAILED"]
        /\ UNCHANGED <<lock, reader>>
     \/ /\ c.mode = "write"
        /\ GoesOn(t, [c EXCEPT !.pc = "write"])
        /\ UNCHANGED reader
     \/ /\ c.mode # "write"
        /\ Collect(t)
        /\ GoesOn(t, [c EXCEPT !.pc = IF c.mode = "read" THEN "join" ELSE "write"])

(* The command, and the read thread if there is something to read; either  *)
(* may fail.                                                               *)
Command(t) ==
  LET c == call[t] IN
  /\ c.pc = "command"
  /\ \/ /\ Return(t, "FAILED")
        /\ UNCHANGED reader
     \/ /\ c.mode = "write"
        /\ GoesOn(t, [c EXCEPT !.pc = "write"])
        /\ UNCHANGED reader
     \/ /\ c.mode # "write"
        /\ Collect(t)
        /\ GoesOn(t, [c EXCEPT !.pc = IF c.mode = "read" THEN "join" ELSE "write"])

(* Mutant: a write that fails does not wait for the read thread. *)
WrittenMutant(t, s, r) ==
  LET c == call[t] IN
  IF c.mode = "write" \/ s # "SUCCESS" THEN Return(t, s)
  ELSE GoesOn(t, [c EXCEPT !.pc = "join", !.status = s, !.reset = @ \/ r])

(* CySpiWrite returns s, having reset the block or not: a call that only   *)
(* writes is over, any other waits for its read thread.                    *)
Written(t, s, r) ==
  LET c == call[t] IN
  IF c.mode = "write" THEN Return(t, s)
  ELSE GoesOn(t, [c EXCEPT !.pc = "join", !.status = s, !.reset = @ \/ r])

(* The bulk transfer of CySpiWrite.  What is left of the timeout, modulo    *)
(* 2^32, is the number of times the status is asked for, one at least.     *)
(* Time-outs and stalls reset the block, other errors do not.              *)
Write(t) ==
  LET c == call[t] IN
  /\ c.pc = "write"
  /\ \/ \E e \in Elapsed(c.timeout, FALSE) :
          LET rest == (c.timeout + TimeMod - e) % TimeMod
          IN  GoesOn(t, [c EXCEPT !.pc = "poll", !.loops = IF rest = 0 THEN 1 ELSE rest])
     \/ c.timeout > 0 /\ Written(t, "IO_TIMEOUT", TRUE)
     \/ \E r \in BOOLEAN : Written(t, "FAILED", r)
  /\ UNCHANGED reader

(* Mutant: the last request is not told from the others. *)
PollMutant(t) ==
  LET c == call[t] IN
  /\ c.pc = "poll"
  /\ \/ \E s \in {"SUCCESS", "FAILED"} : Written(t, s, FALSE)
     \/ c.timeout > 0 /\ GoesOn(t, [c EXCEPT !.loops = @ - 1])
     \/ c.timeout = 0 /\ GoesOn(t, c)
  /\ UNCHANGED reader

(* One request for the status: the block is done, or the request fails, or *)
(* the block is still at it.  With a timeout the requests are counted.     *)
Poll(t) ==
  LET c == call[t] IN
  /\ c.pc = "poll"
  /\ \/ \E s \in {"SUCCESS", "FAILED"} : Written(t, s, FALSE)
     \/ c.timeout > 0 /\ c.loops = 1 /\ Written(t, "IO_TIMEOUT", TRUE)
     \/ c.timeout > 0 /\ c.loops > 1 /\ GoesOn(t, [c EXCEPT !.loops = @ - 1])
     \/ c.timeout = 0 /\ GoesOn(t, c)
  /\ UNCHANGED reader

(* Mutant: a read that fails does not spoil the call. *)
ResultMutant(c, r) == IF c.mode = "read" THEN r.status ELSE c.status

(* The read's result counts unless the write has failed. *)
Result(c, r) ==
  IF c.mode = "read" \/ c.status = "SUCCESS" THEN r.status ELSE c.status

(* pthread_join. *)
Join(t) ==
  /\ call[t].pc = "join"
  /\ reader[t].pc = "done"
  /\ reader' = [reader EXCEPT ![t] = NoReader]
  /\ Return(t, Result(call[t], reader[t]))

-----------------------------------------------------------------------------
(***************************************************************************)
(* The read thread, spiCollectData.                                        *)
(***************************************************************************)

(* It goes on as r, having reset the block or not. *)
Reads(t, r, resets) ==
  /\ reader' = [reader EXCEPT ![t] = r]
  /\ call' = [call EXCEPT ![t].reset = @ \/ resets]
  /\ UNCHANGED <<lock, result>>

(* Mutant: a read that has failed, or has no time left, is tried again. *)
MoreMutant(t) == reader[t].got # call[t].want

(* The condition of its loop. *)
More(t) ==
  reader[t].got # call[t].want /\ reader[t].left >= 0 /\ reader[t].status = "SUCCESS"

(* The submission in CySpiRead, whose failure is not looked at. *)
ReadSubmit(t) ==
  LET r == reader[t] IN
  /\ r.pc = "loop" /\ More(t)
  /\ \/ Reads(t, [r EXCEPT !.pc = "wait"], FALSE)
     \/ SubmitFaults /\ Reads(t, [r EXCEPT !.pc = "lost"], FALSE)

(* The end of the loop: a read that has timed out resets the block.        *)
ReadStop(t) ==
  LET r == reader[t] IN
  /\ r.pc = "loop" /\ ~More(t)
  /\ Reads(t, [r EXCEPT !.pc = "done"], r.got # call[t].want /\ r.status = "IO_TIMEOUT")

(* The reader r after a transfer that ends in status s with k more bytes   *)
(* and is measured to have taken e: a call whose timeout is used up has    *)
(* timed out.                                                              *)
AfterRead(r, s, k, e) ==
  [pc |-> "loop", got |-> r.got + k,
   left |-> IF r.left = 0 THEN 0 ELSE r.left - e,
   status |-> IF r.left # 0 /\ r.left <= e THEN "IO_TIMEOUT" ELSE s]

(* The transfer completes, with a short packet or a full buffer ... *)
ReadComplete(t) ==
  LET r == reader[t] IN
  /\ r.pc = "wait"
  /\ \E k \in 0 .. call[t].want - r.got, e \in Elapsed(r.left, FALSE) :
       /\ k = 0 => EmptyPackets
       /\ Reads(t, AfterRead(r, "SUCCESS", k, e), FALSE)

(* ... or it times out, or fails; both reset the block, unless libusb's    *)
(* event handling itself has failed.                                       *)
ReadFail(t) ==
  LET r == reader[t] IN
  /\ r.pc = "wait"
  /\ \E k \in 0 .. call[t].want - r.got :
       \/ /\ r.left > 0
          /\ \E e \in Elapsed(r.left, TRUE) :
               Reads(t, AfterRead(r, "IO_TIMEOUT", k, e), TRUE)
       \/ \E e \in Elapsed(r.left, FALSE), resets \in BOOLEAN :
            Reads(t, AfterRead(r, "FAILED", k, e), resets)

-----------------------------------------------------------------------------
CallerStep(t) == Command(t) \/ Write(t) \/ Poll(t) \/ Join(t)

ReaderStep(t) == ReadSubmit(t) \/ ReadStop(t) \/ ReadComplete(t) \/ ReadFail(t)

Next ==
  \E t \in Threads :
    \/ \E m \in Modes, n \in Lengths, to \in Timeouts : Begin(t, m, n, to)
    \/ CallerStep(t)
    \/ ReaderStep(t)

Spec == Init /\ [][Next]_vars

(* Threads run, transfers that have a timeout end, and the device answers  *)
(* control requests, of which the one for the status has no timeout.       *)
FairSpec ==
  Spec /\ \A t \in Threads : WF_vars(CallerStep(t)) /\ WF_vars(ReaderStep(t))

-----------------------------------------------------------------------------
TypeOK ==
  /\ lock \in Threads \cup {NoThread}
  /\ call \in [Threads -> Call \cup {Idle}]
  /\ reader \in [Threads -> Reader \cup {NoReader}]
  /\ result \in [Threads -> Status]

(* The lock belongs to a call that runs, whichever of its many ways out a   *)
(* call takes, and a call that runs has it: a call that is refused because *)
(* the API is busy finds another one being served.                         *)
LockIsServed ==
  /\ lock # NoThread => call[lock] # Idle
  /\ \A t \in Threads : call[t] # Idle => lock = t

(* A read thread lives only within the call whose stack holds its          *)
(* parameters and whose buffer it fills, and never counts more bytes than  *)
(* that buffer has room for.                                               *)
ReaderIsJoined ==
  \A t \in Threads : reader[t] # NoReader =>
    /\ call[t].pc \in {"write", "poll", "join"}
    /\ call[t].mode # "write"
    /\ reader[t].got <= call[t].want

(* A call that reports success has read its whole buffer, short packets    *)
(* notwithstanding, and neither its write nor its read has reset the block *)
(* on the way.                                                             *)
SuccessMeansDone ==
  [][\A t \in Threads :
       call[t] # Idle /\ call'[t] = Idle /\ result'[t] = "SUCCESS" =>
         /\ ~call[t].reset
         /\ call[t].mode # "write" => reader[t].got = call[t].want]_vars

(* A read that has filled its buffer succeeds. *)
FullReadSucceeds ==
  \A t \in Threads :
    reader[t].pc = "done" /\ reader[t].got = call[t].want => reader[t].status = "SUCCESS"

(* A write asks for the status no longer than its timeout says. *)
PollsWithinTimeout ==
  \A t \in Threads :
    call[t].pc = "poll" /\ call[t].timeout > 0 => call[t].loops <= call[t].timeout

(* A call that has a timeout returns. *)
CallsReturn ==
  \A t \in Threads : call[t] # Idle /\ call[t].timeout > 0 ~> call[t] = Idle
=============================================================================

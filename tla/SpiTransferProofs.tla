-------------------------- MODULE SpiTransferProofs -------------------------
(***************************************************************************)
(* The lock and the read thread of CySpiReadWrite, for any threads,        *)
(* lengths and timeouts and whatever libusb and the device do: every way   *)
(* out of a call gives back the lock and joins the read thread, which      *)
(* never overruns the buffer.  The invariant is their conjunction with the *)
(* types: a call in the phase "command" has no read thread because the     *)
(* second says where one may be.                                           *)
(*                                                                         *)
(* A call that reports success has transferred everything and reset        *)
(* nothing, if the timeouts fit the int that the read keeps them in.       *)
(***************************************************************************)
EXTENDS SpiTransfer, TLAPS

SpiInv == TypeOK /\ LockIsServed /\ ReaderIsJoined

(* What the call of thread t may turn into without giving up its lock. *)
LEMMA CallGoesOn ==
  ASSUME SpiInv, NEW t \in Threads, call[t] # Idle,
         NEW c \in Call, GoesOn(t, c), UNCHANGED reader,
         c.mode = call[t].mode, c.want = call[t].want,
         reader[t] = NoReader \/ c.pc \in {"write", "poll", "join"}
  PROVE  SpiInv'
<1>1. c # Idle
  BY DEF Call, Idle
<1>2. TypeOK'
  BY DEF SpiInv, TypeOK, GoesOn
<1>3. LockIsServed'
  BY <1>1 DEF SpiInv, TypeOK, GoesOn, LockIsServed
<1>4. ReaderIsJoined'
  BY DEF SpiInv, TypeOK, GoesOn, ReaderIsJoined
<1> QED BY <1>2, <1>3, <1>4 DEF SpiInv

(* A call returns that has no read thread any more. *)
LEMMA CallReturns ==
  ASSUME SpiInv, NEW t \in Threads, call[t] # Idle, NEW s \in Status, Return(t, s),
         NEW r, r = NoReader, reader' = [reader EXCEPT ![t] = r]
  PROVE  SpiInv'
<1> USE SpiAssumption
<1>1. TypeOK'
  BY DEF SpiInv, TypeOK, Return
<1>2. LockIsServed'
  BY DEF SpiInv, TypeOK, Return, LockIsServed
<1>3. ReaderIsJoined'
  BY DEF SpiInv, TypeOK, Return, ReaderIsJoined
<1> QED BY <1>1, <1>2, <1>3 DEF SpiInv

(* The read thread of thread t goes on as r. *)
LEMMA ReaderGoesOn ==
  ASSUME SpiInv, NEW t \in Threads, reader[t] # NoReader,
         NEW r \in Reader, NEW b \in BOOLEAN, Reads(t, r, b),
         r.got <= call[t].want
  PROVE  SpiInv'
<1>1. call[t] \in Call
  BY DEF SpiInv, TypeOK, ReaderIsJoined, Idle
<1>2. PICK c \in Call : /\ call' = [call EXCEPT ![t] = c]
                        /\ c.pc = call[t].pc
                        /\ c.mode = call[t].mode
                        /\ c.want = call[t].want
  <2>1. [call[t] EXCEPT !.reset = @ \/ b] \in Call
    BY <1>1 DEF Call
  <2> QED BY <1>1, <2>1 DEF Reads, SpiInv, TypeOK, Call
<1>3. c # Idle
  BY DEF Call, Idle
<1>4. UNCHANGED <<lock, result>> /\ reader' = [reader EXCEPT ![t] = r]
  BY DEF Reads
<1>5. TypeOK'
  BY <1>2, <1>4 DEF SpiInv, TypeOK
<1>6. LockIsServed'
  BY <1>1, <1>2, <1>3, <1>4 DEF SpiInv, TypeOK, LockIsServed, Call, Idle
<1>7. ReaderIsJoined'
  BY <1>1, <1>2, <1>4 DEF SpiInv, TypeOK, ReaderIsJoined
<1> QED BY <1>5, <1>6, <1>7 DEF SpiInv

(* CySpiWrite returns. *)
LEMMA WriteReturns ==
  ASSUME SpiInv, NEW t \in Threads, call[t].pc \in {"write", "poll"},
         NEW s \in Status, NEW r \in BOOLEAN, Written(t, s, r), UNCHANGED reader
  PROVE  SpiInv'
<1>1. call[t] \in Call /\ call[t] # Idle
  BY DEF SpiInv, TypeOK, Idle
<1>2. CASE call[t].mode = "write"
  <2>1. reader[t] = NoReader
    BY <1>2 DEF SpiInv, ReaderIsJoined
  <2>2. reader' = [reader EXCEPT ![t] = NoReader]
    BY <2>1 DEF SpiInv, TypeOK
  <2> QED BY <1>1, <1>2, <2>2, CallReturns DEF Written
<1>3. CASE call[t].mode # "write"
  <2> DEFINE c == [call[t] EXCEPT !.pc = "join", !.status = s, !.reset = @ \/ r]
  <2>1. /\ c \in Call /\ c.pc = "join"
        /\ c.mode = call[t].mode /\ c.want = call[t].want
    BY <1>1 DEF Call
  <2>2. GoesOn(t, c)
    BY <1>3 DEF Written
  <2> HIDE DEF c
  <2> QED BY <1>1, <2>1, <2>2, CallGoesOn
<1> QED BY <1>2, <1>3

-----------------------------------------------------------------------------
LEMMA SpiInit == Init => SpiInv
<1> SUFFICES ASSUME Init PROVE SpiInv
  OBVIOUS
<1>1. TypeOK
  BY DEF Init, TypeOK, Status
<1>2. LockIsServed /\ ReaderIsJoined
  BY DEF Init, LockIsServed, ReaderIsJoined
<1> QED BY <1>1, <1>2 DEF SpiInv

LEMMA BeginStep ==
  ASSUME SpiInv, NEW t \in Threads, NEW m \in Modes, NEW n \in Lengths,
         NEW to \in Timeouts, Begin(t, m, n, to)
  PROVE  SpiInv'
<1> USE SpiAssumption
<1> DEFINE c == [pc |-> "command", mode |-> m, timeout |-> to, want |-> n,
                 loops |-> 0, status |-> "SUCCESS", reset |-> FALSE]
<1>1. CASE lock = NoThread
  <2>1. c \in Call /\ c # Idle
    BY DEF Call, Status, Idle
  <2>2. /\ lock' = t /\ call' = [call EXCEPT ![t] = c]
        /\ UNCHANGED <<reader, result>>
    BY <1>1 DEF Begin
  <2>3. \A u \in Threads : call[u] = Idle /\ reader[u] = NoReader
    BY <1>1 DEF SpiInv, LockIsServed, ReaderIsJoined, TypeOK, Idle
  <2> HIDE DEF c
  <2>4. TypeOK'
    BY <2>1, <2>2 DEF SpiInv, TypeOK
  <2>5. LockIsServed'
    BY <2>1, <2>2, <2>3 DEF SpiInv, TypeOK, LockIsServed
  <2>6. ReaderIsJoined'
    BY <2>2, <2>3 DEF ReaderIsJoined
  <2> QED BY <2>4, <2>5, <2>6 DEF SpiInv
<1>2. CASE lock # NoThread
  <2>1. UNCHANGED <<lock, call, reader>> /\ result' = [result EXCEPT ![t] = "REFUSED"]
    BY <1>2 DEF Begin
  <2> QED BY <2>1 DEF SpiInv, TypeOK, LockIsServed, ReaderIsJoined, Status
<1> QED BY <1>1, <1>2

LEMMA CommandStep ==
  ASSUME SpiInv, NEW t \in Threads, Command(t)
  PROVE  SpiInv'
<1> USE SpiAssumption
<1>1. call[t] \in Call /\ call[t] # Idle /\ reader[t] = NoReader
  BY DEF Command, SpiInv, TypeOK, ReaderIsJoined, Idle
<1>2. CASE Return(t, "FAILED") /\ UNCHANGED reader
  <2>1. reader' = [reader EXCEPT ![t] = NoReader]
    BY <1>1, <1>2 DEF SpiInv, TypeOK
  <2> QED BY <1>1, <1>2, <2>1, CallReturns DEF Status
<1>3. CASE GoesOn(t, [call[t] EXCEPT !.pc = "write"]) /\ UNCHANGED reader
  <2> DEFINE c == [call[t] EXCEPT !.pc = "write"]
  <2>1. c \in Call /\ c.mode = call[t].mode /\ c.want = call[t].want
    BY <1>1 DEF Call
  <2>2. GoesOn(t, c)
    BY <1>3
  <2> HIDE DEF c
  <2> QED BY <1>1, <1>3, <2>1, <2>2, CallGoesOn
<1>4. CASE /\ call[t].mode # "write" /\ Collect(t)
           /\ GoesOn(t, [call[t] EXCEPT !.pc =
                 IF call[t].mode = "read" THEN "join" ELSE "write"])
  <2> DEFINE c == [call[t] EXCEPT !.pc =
                     IF call[t].mode = "read" THEN "join" ELSE "write"]
             r == [pc |-> "loop", got |-> 0, left |-> Signed(call[t].timeout),
                   status |-> "SUCCESS"]
  <2>1. /\ c \in Call /\ c # Idle /\ c.pc \in {"write", "join"}
        /\ c.mode = call[t].mode /\ c.want = call[t].want /\ c.want \in Nat
    BY <1>1 DEF Call, Idle
  <2>2. r \in Reader /\ r.got = 0
    BY <1>1 DEF Reader, Status, Signed, Call
  <2>3. /\ call' = [call EXCEPT ![t] = c] /\ reader' = [reader EXCEPT ![t] = r]
        /\ UNCHANGED <<lock, result>>
    BY <1>4 DEF GoesOn, Collect
  <2> HIDE DEF c, r
  <2>4. TypeOK'
    BY <2>1, <2>2, <2>3 DEF SpiInv, TypeOK
  <2>5. LockIsServed'
    BY <1>1, <2>1, <2>3 DEF SpiInv, TypeOK, LockIsServed
  <2>6. ReaderIsJoined'
    BY <1>4, <2>1, <2>2, <2>3 DEF SpiInv, TypeOK, ReaderIsJoined
  <2> QED BY <2>4, <2>5, <2>6 DEF SpiInv
<1> QED BY <1>2, <1>3, <1>4 DEF Command

LEMMA WriteStep ==
  ASSUME SpiInv, NEW t \in Threads, Write(t)
  PROVE  SpiInv'
<1> USE SpiAssumption
<1>1. call[t] \in Call /\ call[t].pc = "write" /\ call[t] # Idle
  <2>1. call[t].pc = "write"
    BY DEF Write
  <2>2. call[t] \in Call \cup {Idle}
    BY DEF SpiInv, TypeOK
  <2> QED BY <2>1, <2>2 DEF Idle
<1>2. ASSUME NEW e \in Elapsed(call[t].timeout, FALSE),
             LET rest == (call[t].timeout + TimeMod - e) % TimeMod
             IN  GoesOn(t, [call[t] EXCEPT !.pc = "poll",
                                           !.loops = IF rest = 0 THEN 1 ELSE rest]),
             UNCHANGED reader
      PROVE  SpiInv'
  <2> DEFINE rest == (call[t].timeout + TimeMod - e) % TimeMod
             loops == IF rest = 0 THEN 1 ELSE rest
             c == [call[t] EXCEPT !.pc = "poll", !.loops = loops]
  <2>1. call[t].timeout + TimeMod - e \in Int
    BY <1>1, <1>2 DEF Elapsed, Call
  <2>2. rest \in 0 .. TimeMod
    BY <2>1
  <2>3. GoesOn(t, c)
    BY <1>2
  <2> HIDE DEF rest
  <2>4. loops \in 0 .. TimeMod
    BY <2>2
  <2> HIDE DEF loops
  <2>5. c \in Call /\ c.pc = "poll" /\ c.mode = call[t].mode /\ c.want = call[t].want
    BY <1>1, <2>4 DEF Call
  <2> HIDE DEF c
  <2> QED BY <1>1, <1>2, <2>3, <2>5, CallGoesOn
<1>3. ASSUME NEW s \in Status, NEW r \in BOOLEAN, Written(t, s, r), UNCHANGED reader
      PROVE  SpiInv'
  BY <1>1, <1>3, WriteReturns
<1> QED BY <1>2, <1>3 DEF Write, Status

LEMMA PollStep ==
  ASSUME SpiInv, NEW t \in Threads, Poll(t)
  PROVE  SpiInv'
<1>1. call[t] \in Call /\ call[t].pc = "poll" /\ call[t] # Idle
  BY DEF Poll, SpiInv, TypeOK, Idle
<1>2. ASSUME NEW s \in Status, NEW r \in BOOLEAN, Written(t, s, r), UNCHANGED reader
      PROVE  SpiInv'
  BY <1>1, <1>2, WriteReturns
<1>3. ASSUME call[t].loops > 1, GoesOn(t, [call[t] EXCEPT !.loops = @ - 1]),
             UNCHANGED reader
      PROVE  SpiInv'
  <2> DEFINE c == [call[t] EXCEPT !.loops = @ - 1]
  <2>1. c \in Call /\ c.pc = "poll" /\ c.mode = call[t].mode /\ c.want = call[t].want
    BY <1>1, <1>3, SpiAssumption DEF Call
  <2>2. GoesOn(t, c)
    BY <1>3
  <2> HIDE DEF c
  <2> QED BY <1>1, <1>3, <2>1, <2>2, CallGoesOn
<1>4. ASSUME GoesOn(t, call[t]), UNCHANGED reader
      PROVE  SpiInv'
  BY <1>1, <1>4, CallGoesOn
<1> QED BY <1>2, <1>3, <1>4 DEF Poll, Status

LEMMA JoinStep ==
  ASSUME SpiInv, NEW t \in Threads, Join(t)
  PROVE  SpiInv'
<1>1. call[t] \in Call /\ call[t] # Idle
  BY DEF Join, SpiInv, TypeOK, Idle
<1>2. reader[t] \in Reader
  BY DEF Join, SpiInv, TypeOK, NoReader
<1>3. Result(call[t], reader[t]) \in Status
  BY <1>1, <1>2 DEF Result, Call, Reader
<1> QED BY <1>1, <1>3, CallReturns DEF Join

(* A transfer adds at most what the buffer has room for. *)
LEMMA AfterReadFits ==
  ASSUME NEW r \in Reader, NEW s \in Status, NEW n \in Nat,
         NEW k \in 0 .. n - r.got, NEW e \in Int
  PROVE  AfterRead(r, s, k, e) \in Reader /\ AfterRead(r, s, k, e).got <= n
BY DEF AfterRead, Reader, Status

LEMMA ReaderThreadStep ==
  ASSUME SpiInv, NEW t \in Threads, ReaderStep(t)
  PROVE  SpiInv'
<1> USE SpiAssumption
<1> DEFINE r == reader[t]
           n == call[t].want
<1>1. r \in Reader /\ r # NoReader
  <2>1. r.pc \in {"loop", "wait"}
    BY DEF ReaderStep, ReadSubmit, ReadStop, ReadComplete, ReadFail
  <2>2. r \in Reader \cup {NoReader}
    BY DEF SpiInv, TypeOK
  <2> QED BY <2>1, <2>2 DEF NoReader
<1>2. n \in Nat /\ r.got <= n
  <2>1. call[t].pc \in {"write", "poll", "join"} /\ r.got <= n
    BY <1>1 DEF SpiInv, ReaderIsJoined
  <2>2. call[t] \in Call \cup {Idle}
    BY DEF SpiInv, TypeOK
  <2>3. call[t] \in Call
    BY <2>1, <2>2 DEF Idle
  <2> QED BY <2>1, <2>3 DEF Call
<1>3. ASSUME NEW p \in {"wait", "lost", "done"}, NEW b \in BOOLEAN,
             Reads(t, [r EXCEPT !.pc = p], b)
      PROVE  SpiInv'
  <2> DEFINE q == [r EXCEPT !.pc = p]
  <2>1. q \in Reader /\ q.got = r.got
    BY <1>1 DEF Reader
  <2>2. Reads(t, q, b)
    BY <1>3
  <2> HIDE DEF q
  <2> QED BY <1>1, <1>2, <2>1, <2>2, ReaderGoesOn
<1>4. ASSUME NEW k \in 0 .. n - r.got, NEW e \in Int, NEW s \in Status, NEW b \in BOOLEAN,
             Reads(t, AfterRead(r, s, k, e), b)
      PROVE  SpiInv'
  <2>1. AfterRead(r, s, k, e) \in Reader /\ AfterRead(r, s, k, e).got <= n
    BY <1>1, <1>2, AfterReadFits
  <2> QED BY <1>1, <1>4, <2>1, ReaderGoesOn
<1>5. \A b \in BOOLEAN : Elapsed(r.left, b) \subseteq Int
  BY <1>1 DEF Elapsed, Reader
<1>6. CASE ReadSubmit(t)
  BY <1>3, <1>6 DEF ReadSubmit
<1>7. CASE ReadStop(t)
  <2>1. (r.got # n /\ r.status = "IO_TIMEOUT") \in BOOLEAN
    OBVIOUS
  <2> QED BY <1>3, <1>7, <2>1 DEF ReadStop
<1>8. CASE ReadComplete(t)
  BY <1>4, <1>5, <1>8 DEF ReadComplete, Status
<1>9. CASE ReadFail(t)
  BY <1>4, <1>5, <1>9 DEF ReadFail, Status
<1> QED BY <1>6, <1>7, <1>8, <1>9 DEF ReaderStep

LEMMA SpiStep == SpiInv /\ [Next]_vars => SpiInv'
<1> SUFFICES ASSUME SpiInv, [Next]_vars PROVE SpiInv'
  OBVIOUS
<1>1. CASE UNCHANGED vars
  BY <1>1 DEF vars, SpiInv, TypeOK, LockIsServed, ReaderIsJoined
<1>2. ASSUME NEW t \in Threads, NEW m \in Modes, NEW n \in Lengths, NEW to \in Timeouts,
             Begin(t, m, n, to)
      PROVE  SpiInv'
  BY <1>2, BeginStep
<1>3. ASSUME NEW t \in Threads, CallerStep(t)
      PROVE  SpiInv'
  BY <1>3, CommandStep, WriteStep, PollStep, JoinStep DEF CallerStep
<1>4. ASSUME NEW t \in Threads, ReaderStep(t)
      PROVE  SpiInv'
  BY <1>4, ReaderThreadStep
<1> QED BY <1>1, <1>2, <1>3, <1>4 DEF Next

LEMMA SpiInvariant == Spec => []SpiInv
BY SpiInit, SpiStep, PTL DEF Spec

-----------------------------------------------------------------------------
(* The variables of CySpiReadWrite keep their types: the loop counter of   *)
(* CySpiWrite stays within 2^32, what spiCollectData counts is a length.   *)
THEOREM SpiTypeCorrect == Spec => []TypeOK
BY SpiInvariant, PTL DEF SpiInv

(* Whatever libusb, the device and other threads do, the lock of           *)
(* CySpiReadWrite belongs to a call that runs.                             *)
THEOREM SpiLockIsServed == Spec => []LockIsServed
BY SpiInvariant, PTL DEF SpiInv

(* The read thread of CySpiReadWrite never outlives the call whose stack   *)
(* and buffer it uses, and never overruns that buffer.                     *)
THEOREM SpiReaderIsJoined == Spec => []ReaderIsJoined
BY SpiInvariant, PTL DEF SpiInv
-----------------------------------------------------------------------------
(***************************************************************************)
(* A call that reports success.  The parts of the invariant say how a call *)
(* knows at its end that nothing has gone wrong on the way: rStatus of     *)
(* CySpiReadWrite is set by its write and by nothing else, a reset of the  *)
(* block is remembered by the status of whoever did it, and the read       *)
(* thread leaves its loop in success only with a full buffer.              *)
(***************************************************************************)

(* newTimeout of spiCollectData is an int: a timeout of 2^31 or more turns *)
(* negative, so that the loop ends before it begins, in success.  The      *)
(* theorem of this section is about shorter timeouts.                      *)
ShortTimeouts == \A to \in Timeouts : to < TimeMod \div 2

CallKnows(c) ==
  c # Idle =>
    /\ c.timeout \in Timeouts
    /\ c.pc \in {"command", "write", "poll"} => c.status = "SUCCESS"
    /\ c.mode = "read" => c.status = "SUCCESS" /\ c.pc \in {"command", "join"}

ReaderKnows(c, r) ==
  r # NoReader =>
    /\ r.pc \in {"wait", "lost"} => r.status = "SUCCESS"
    /\ r.status = "SUCCESS" => r.left >= 0
    /\ r.status = "SUCCESS" /\ r.pc = "done" => r.got = c.want

ResetIsKnown(c, r) ==
  c # Idle /\ c.reset => c.status # "SUCCESS" \/ (r # NoReader /\ r.status # "SUCCESS")

Knows(c, r) == CallKnows(c) /\ ReaderKnows(c, r) /\ ResetIsKnown(c, r)

DoneInv == SpiInv /\ \A t \in Threads : Knows(call[t], reader[t])
(* Only the call and the read thread of one thread change in a step. *)
LEMMA OneThreadKnows ==
  ASSUME DoneInv, NEW t \in Threads, NEW c, NEW r,
         call' = [call EXCEPT ![t] = c], reader' = [reader EXCEPT ![t] = r],
         Knows(c, r)
  PROVE  \A u \in Threads : Knows(call'[u], reader'[u])
BY DEF DoneInv, SpiInv, TypeOK

LEMMA IdleKnows == Knows(Idle, NoReader)
BY DEF Knows, CallKnows, ReaderKnows, ResetIsKnown

LEMMA BeginKnows ==
  ASSUME DoneInv, NEW t \in Threads, NEW m \in Modes, NEW n \in Lengths,
         NEW to \in Timeouts, Begin(t, m, n, to)
  PROVE  \A u \in Threads : Knows(call'[u], reader'[u])
<1> DEFINE c == [pc |-> "command", mode |-> m, timeout |-> to, want |-> n,
                 loops |-> 0, status |-> "SUCCESS", reset |-> FALSE]
<1>1. CASE lock = NoThread
  <2>1. call' = [call EXCEPT ![t] = c] /\ reader' = reader
    BY <1>1 DEF Begin
  <2>2. reader[t] = NoReader
    BY DEF Begin, DoneInv, SpiInv, ReaderIsJoined, Idle
  <2>3. reader' = [reader EXCEPT ![t] = NoReader]
    BY <2>1, <2>2 DEF DoneInv, SpiInv, TypeOK
  <2>4. Knows(c, NoReader)
    BY DEF Knows, CallKnows, ReaderKnows, ResetIsKnown
  <2> HIDE DEF c
  <2> QED BY <2>1, <2>3, <2>4, OneThreadKnows
<1>2. CASE lock # NoThread
  BY <1>2 DEF Begin, DoneInv
<1> QED BY <1>1, <1>2

LEMMA CommandKnows ==
  ASSUME ShortTimeouts, DoneInv, NEW t \in Threads, Command(t)
  PROVE  \A u \in Threads : Knows(call'[u], reader'[u])
<1> USE SpiAssumption
<1>1. call[t] \in Call /\ call[t] # Idle /\ call[t].pc = "command" /\ reader[t] = NoReader
  BY DEF Command, DoneInv, SpiInv, TypeOK, ReaderIsJoined, Idle
<1>2. Knows(call[t], NoReader)
  BY <1>1 DEF DoneInv
<1>3. reader = [reader EXCEPT ![t] = NoReader]
  BY <1>1 DEF DoneInv, SpiInv, TypeOK
<1>4. CASE Return(t, "FAILED") /\ UNCHANGED reader
  BY <1>3, <1>4, IdleKnows, OneThreadKnows DEF Return
<1>5. CASE /\ call[t].mode = "write" /\ UNCHANGED reader
           /\ GoesOn(t, [call[t] EXCEPT !.pc = "write"])
  <2> DEFINE c == [call[t] EXCEPT !.pc = "write"]
  <2>1. Knows(c, NoReader)
    BY <1>1, <1>2, <1>5 DEF Knows, CallKnows, ReaderKnows, ResetIsKnown, Call
  <2>2. call' = [call EXCEPT ![t] = c] /\ reader' = [reader EXCEPT ![t] = NoReader]
    BY <1>3, <1>5 DEF GoesOn
  <2> HIDE DEF c
  <2> QED BY <2>1, <2>2, OneThreadKnows
<1>6. CASE /\ Collect(t)
           /\ GoesOn(t, [call[t] EXCEPT !.pc =
                 IF call[t].mode = "read" THEN "join" ELSE "write"])
  <2> DEFINE c == [call[t] EXCEPT !.pc =
                     IF call[t].mode = "read" THEN "join" ELSE "write"]
             r == [pc |-> "loop", got |-> 0, left |-> Signed(call[t].timeout),
                   status |-> "SUCCESS"]
  <2>1. Signed(call[t].timeout) >= 0
    <3>1. call[t].timeout \in Timeouts /\ call[t].timeout \in 0 .. TimeMod - 1
      BY <1>1, <1>2 DEF Knows, CallKnows, Call
    <3>2. call[t].timeout < TimeMod \div 2
      BY <3>1 DEF ShortTimeouts
    <3> QED BY <3>1, <3>2 DEF Signed
  <2>2. call[t].status = "SUCCESS" /\ ~call[t].reset
    BY <1>1, <1>2 DEF Knows, CallKnows, ResetIsKnown
  <2>3. Knows(c, r)
    BY <1>1, <1>2, <2>1, <2>2 DEF Knows, CallKnows, ReaderKnows, ResetIsKnown, Call
  <2>4. call' = [call EXCEPT ![t] = c] /\ reader' = [reader EXCEPT ![t] = r]
    BY <1>6 DEF GoesOn, Collect
  <2> HIDE DEF c, r
  <2> QED BY <2>3, <2>4, OneThreadKnows
<1> QED BY <1>4, <1>5, <1>6 DEF Command

(* CySpiWrite returns: a status other than success comes with every reset. *)
LEMMA WrittenKnows ==
  ASSUME DoneInv, NEW t \in Threads, call[t].pc \in {"write", "poll"},
         NEW s \in Status, NEW b \in BOOLEAN, b => s # "SUCCESS",
         Written(t, s, b), UNCHANGED reader
  PROVE  \A u \in Threads : Knows(call'[u], reader'[u])
<1>1. call[t] \in Call /\ call[t] # Idle
  BY DEF DoneInv, SpiInv, TypeOK, Idle
<1>2. reader' = [reader EXCEPT ![t] = reader[t]]
  BY DEF DoneInv, SpiInv, TypeOK
<1>3. Knows(call[t], reader[t])
  BY DEF DoneInv
<1>4. CASE call[t].mode = "write"
  <2>1. reader[t] = NoReader
    BY <1>4 DEF DoneInv, SpiInv, ReaderIsJoined
  <2> QED BY <1>2, <1>4, <2>1, IdleKnows, OneThreadKnows DEF Written, Return
<1>5. CASE call[t].mode # "write"
  <2> DEFINE c == [call[t] EXCEPT !.pc = "join", !.status = s, !.reset = @ \/ b]
  <2>1. call' = [call EXCEPT ![t] = c]
    BY <1>5 DEF Written, GoesOn
  <2>2. /\ c.timeout = call[t].timeout /\ c.mode = call[t].mode /\ c.want = call[t].want
        /\ c.pc = "join" /\ c.status = s /\ c.reset = (call[t].reset \/ b)
    BY <1>1 DEF Call
  <2>3. CallKnows(c)
    BY <1>1, <1>3, <2>2 DEF Knows, CallKnows
  <2>4. ReaderKnows(c, reader[t])
    BY <1>3, <2>2 DEF Knows, ReaderKnows
  <2>5. ResetIsKnown(c, reader[t])
    BY <1>1, <1>3, <2>2 DEF Knows, CallKnows, ResetIsKnown
  <2> HIDE DEF c
  <2> QED BY <1>2, <2>1, <2>3, <2>4, <2>5, OneThreadKnows DEF Knows
<1> QED BY <1>4, <1>5
LEMMA WriteKnows ==
  ASSUME DoneInv, NEW t \in Threads, Write(t)
  PROVE  \A u \in Threads : Knows(call'[u], reader'[u])
<1>1. call[t] \in Call /\ call[t] # Idle /\ call[t].pc = "write"
  <2>1. call[t].pc = "write"
    BY DEF Write
  <2>2. call[t] \in Call \cup {Idle}
    BY DEF DoneInv, SpiInv, TypeOK
  <2> QED BY <2>1, <2>2 DEF Idle
<1>2. Knows(call[t], reader[t]) /\ reader' = [reader EXCEPT ![t] = reader[t]]
  BY DEF DoneInv, SpiInv, TypeOK, Write
<1>3. ASSUME NEW n, GoesOn(t, [call[t] EXCEPT !.pc = "poll", !.loops = n])
      PROVE  \A u \in Threads : Knows(call'[u], reader'[u])
  <2> DEFINE c == [call[t] EXCEPT !.pc = "poll", !.loops = n]
  <2>1. call' = [call EXCEPT ![t] = c]
    BY <1>3 DEF GoesOn
  <2>2. Knows(c, reader[t])
    BY <1>1, <1>2 DEF Knows, CallKnows, ReaderKnows, ResetIsKnown, Call
  <2> HIDE DEF c
  <2> QED BY <1>2, <2>1, <2>2, OneThreadKnows
<1>4. ASSUME NEW s \in Status, NEW b \in BOOLEAN, s # "SUCCESS", Written(t, s, b)
      PROVE  \A u \in Threads : Knows(call'[u], reader'[u])
  BY <1>1, <1>4, WrittenKnows DEF Write
<1> QED BY <1>3, <1>4 DEF Write, Status

LEMMA PollKnows ==
  ASSUME DoneInv, NEW t \in Threads, Poll(t)
  PROVE  \A u \in Threads : Knows(call'[u], reader'[u])
<1>1. call[t] \in Call /\ call[t] # Idle /\ call[t].pc = "poll"
  BY DEF Poll, DoneInv, SpiInv, TypeOK, Idle
<1>2. Knows(call[t], reader[t]) /\ reader' = [reader EXCEPT ![t] = reader[t]]
  BY DEF DoneInv, SpiInv, TypeOK, Poll
<1>3. ASSUME NEW n, GoesOn(t, [call[t] EXCEPT !.loops = n])
      PROVE  \A u \in Threads : Knows(call'[u], reader'[u])
  <2> DEFINE c == [call[t] EXCEPT !.loops = n]
  <2>1. call' = [call EXCEPT ![t] = c]
    BY <1>3 DEF GoesOn
  <2>2. Knows(c, reader[t])
    BY <1>1, <1>2 DEF Knows, CallKnows, ReaderKnows, ResetIsKnown, Call
  <2> HIDE DEF c
  <2> QED BY <1>2, <2>1, <2>2, OneThreadKnows
<1>4. ASSUME GoesOn(t, call[t])
      PROVE  \A u \in Threads : Knows(call'[u], reader'[u])
  BY <1>2, <1>4, OneThreadKnows DEF GoesOn
<1>5. ASSUME NEW s \in Status, NEW b \in BOOLEAN, b => s # "SUCCESS", Written(t, s, b)
      PROVE  \A u \in Threads : Knows(call'[u], reader'[u])
  BY <1>1, <1>5, WrittenKnows DEF Poll
<1>6. \A s \in {"SUCCESS", "FAILED"} : s \in Status /\ (FALSE => s # "SUCCESS")
  BY DEF Status
<1>7. CASE \E s \in {"SUCCESS", "FAILED"} : Written(t, s, FALSE)
  BY <1>5, <1>6, <1>7
<1>8. CASE Written(t, "IO_TIMEOUT", TRUE)
  BY <1>5, <1>8 DEF Status
<1> QED BY <1>3, <1>4, <1>7, <1>8 DEF Poll

LEMMA JoinKnows ==
  ASSUME DoneInv, NEW t \in Threads, Join(t)
  PROVE  \A u \in Threads : Knows(call'[u], reader'[u])
BY IdleKnows, OneThreadKnows DEF Join, Return

(* Success at pthread_join is the success of both halves. *)
LEMMA JoinedInSuccess ==
  ASSUME DoneInv, NEW t \in Threads, Join(t), Result(call[t], reader[t]) = "SUCCESS"
  PROVE  ~call[t].reset /\ reader[t].got = call[t].want
<1>1. call[t] # Idle /\ reader[t] # NoReader /\ call[t].pc = "join" /\ reader[t].pc = "done"
  BY DEF Join, Idle, NoReader
<1>2. CallKnows(call[t]) /\ ReaderKnows(call[t], reader[t]) /\ ResetIsKnown(call[t], reader[t])
  BY DEF DoneInv, Knows
<1>3. call[t].status = "SUCCESS" /\ reader[t].status = "SUCCESS"
  BY <1>1, <1>2 DEF CallKnows, Result
<1> QED BY <1>1, <1>2, <1>3 DEF ReaderKnows, ResetIsKnown, DoneInv, SpiInv, TypeOK, Call, Idle

-----------------------------------------------------------------------------
(* The read thread goes on as r: it may reset the block if r says that it  *)
(* has failed, and a failure is final.                                     *)
LEMMA ReaderThreadKnows ==
  ASSUME DoneInv, NEW t \in Threads, reader[t] # NoReader,
         NEW r, r # NoReader, NEW b \in BOOLEAN, Reads(t, r, b),
         ReaderKnows(call[t], r),
         b => r.status # "SUCCESS",
         reader[t].status # "SUCCESS" => r.status # "SUCCESS"
  PROVE  \A u \in Threads : Knows(call'[u], reader'[u])
<1>1. call[t] \in Call /\ call[t] # Idle
  BY DEF DoneInv, SpiInv, TypeOK, ReaderIsJoined, Idle
<1> DEFINE c == [call[t] EXCEPT !.reset = @ \/ b]
<1>2. /\ c.timeout = call[t].timeout /\ c.mode = call[t].mode /\ c.want = call[t].want
      /\ c.pc = call[t].pc /\ c.status = call[t].status
      /\ c.reset = (call[t].reset \/ b)
  BY <1>1 DEF Call
<1>3. call' = [call EXCEPT ![t] = c] /\ reader' = [reader EXCEPT ![t] = r]
  BY DEF Reads, DoneInv, SpiInv, TypeOK
<1>4. Knows(call[t], reader[t])
  BY DEF DoneInv
<1>5. CallKnows(c) /\ ReaderKnows(c, r)
  BY <1>1, <1>2, <1>4 DEF Knows, CallKnows, ReaderKnows
<1>6. ResetIsKnown(c, r)
  BY <1>1, <1>2, <1>4 DEF Knows, ResetIsKnown
<1> HIDE DEF c
<1> QED BY <1>3, <1>5, <1>6, OneThreadKnows DEF Knows

LEMMA ReaderStepKnows ==
  ASSUME DoneInv, NEW t \in Threads, ReaderStep(t)
  PROVE  \A u \in Threads : Knows(call'[u], reader'[u])
<1> USE SpiAssumption
<1> DEFINE r == reader[t]
           n == call[t].want
<1>1. r \in Reader /\ r # NoReader
  <2>1. r.pc \in {"loop", "wait"}
    BY DEF ReaderStep, ReadSubmit, ReadStop, ReadComplete, ReadFail
  <2>2. r \in Reader \cup {NoReader}
    BY DEF DoneInv, SpiInv, TypeOK
  <2> QED BY <2>1, <2>2 DEF NoReader
<1>2. ReaderKnows(call[t], r)
  BY DEF DoneInv, Knows
<1>3. ASSUME NEW p \in {"wait", "lost"}, More(t), Reads(t, [r EXCEPT !.pc = p], FALSE)
      PROVE  \A u \in Threads : Knows(call'[u], reader'[u])
  <2> DEFINE q == [r EXCEPT !.pc = p]
  <2>1. q # NoReader /\ q.pc = p /\ q.status = r.status /\ q.left = r.left
    BY <1>1 DEF Reader, NoReader
  <2>2. r.status = "SUCCESS"
    BY <1>3 DEF More
  <2>3. ReaderKnows(call[t], q)
    BY <1>1, <1>2, <2>1, <2>2 DEF ReaderKnows
  <2>4. Reads(t, q, FALSE)
    BY <1>3
  <2> HIDE DEF q
  <2> QED BY <1>1, <2>1, <2>2, <2>3, <2>4, ReaderThreadKnows
<1>4. CASE ReadStop(t)
  <2> DEFINE q == [r EXCEPT !.pc = "done"]
             b == r.got # n /\ r.status = "IO_TIMEOUT"
  <2>1. q # NoReader /\ q.pc = "done" /\ q.status = r.status /\ q.left = r.left /\ q.got = r.got
    BY <1>1 DEF Reader, NoReader
  <2>2. r.status = "SUCCESS" => r.got = n
    BY <1>1, <1>2, <1>4 DEF ReadStop, More, ReaderKnows
  <2>3. ReaderKnows(call[t], q)
    BY <1>1, <1>2, <2>1, <2>2 DEF ReaderKnows
  <2>4. Reads(t, q, b) /\ b \in BOOLEAN /\ (b => r.status # "SUCCESS")
    BY <1>4 DEF ReadStop
  <2> HIDE DEF q, b
  <2> QED BY <1>1, <2>1, <2>3, <2>4, ReaderThreadKnows
<1>5. ASSUME NEW s \in Status, NEW k \in Int, NEW e \in Nat, NEW b \in BOOLEAN,
             b => s # "SUCCESS", r.pc = "wait",
             Reads(t, AfterRead(r, s, k, e), b)
      PROVE  \A u \in Threads : Knows(call'[u], reader'[u])
  <2> DEFINE q == AfterRead(r, s, k, e)
  <2>1. q # NoReader /\ q.pc = "loop"
    BY DEF AfterRead, NoReader
  <2>2. q.status = "SUCCESS" => s = "SUCCESS" /\ q.left >= 0
    BY <1>1 DEF AfterRead, Reader
  <2>3. ReaderKnows(call[t], q)
    BY <2>1, <2>2 DEF ReaderKnows
  <2>4. r.status = "SUCCESS"
    BY <1>1, <1>2, <1>5 DEF ReaderKnows
  <2>5. Reads(t, q, b) /\ (b => q.status # "SUCCESS")
    BY <1>5, <2>2
  <2> HIDE DEF q
  <2> QED BY <1>1, <2>1, <2>3, <2>4, <2>5, ReaderThreadKnows
<1>6. /\ \A e \in Elapsed(r.left, FALSE) : e \in Nat
      /\ r.left > 0 => \A e \in Elapsed(r.left, TRUE) : e \in Nat
  BY <1>1 DEF Elapsed, Reader
<1>7. \A k \in 0 .. n - r.got : k \in Int
  OBVIOUS
<1>8. CASE ReadSubmit(t)
  BY <1>3, <1>8 DEF ReadSubmit
<1>9. CASE ReadComplete(t)
  BY <1>5, <1>6, <1>7, <1>9 DEF ReadComplete, Status
<1>10. CASE ReadFail(t)
  BY <1>5, <1>6, <1>7, <1>10 DEF ReadFail, Status
<1> QED BY <1>4, <1>8, <1>9, <1>10 DEF ReaderStep

LEMMA DoneStep == ShortTimeouts /\ DoneInv /\ [Next]_vars => DoneInv'
<1> SUFFICES ASSUME ShortTimeouts, DoneInv, [Next]_vars PROVE DoneInv'
  OBVIOUS
<1>1. SpiInv'
  BY SpiStep DEF DoneInv
<1>2. CASE UNCHANGED vars
  BY <1>1, <1>2 DEF vars, DoneInv
<1>3. ASSUME NEW t \in Threads, NEW m \in Modes, NEW n \in Lengths, NEW to \in Timeouts,
             Begin(t, m, n, to)
      PROVE  DoneInv'
  BY <1>1, <1>3, BeginKnows DEF DoneInv
<1>4. ASSUME NEW t \in Threads, CallerStep(t)
      PROVE  DoneInv'
  BY <1>1, <1>4, CommandKnows, WriteKnows, PollKnows, JoinKnows DEF CallerStep, DoneInv
<1>5. ASSUME NEW t \in Threads, ReaderStep(t)
      PROVE  DoneInv'
  BY <1>1, <1>5, ReaderStepKnows DEF DoneInv
<1> QED BY <1>2, <1>3, <1>4, <1>5 DEF Next
LEMMA DoneInit == Init => DoneInv
<1> SUFFICES ASSUME Init PROVE DoneInv
  OBVIOUS
<1>1. SpiInv
  BY SpiInit
<1>2. \A t \in Threads : call[t] = Idle /\ reader[t] = NoReader
  BY DEF Init
<1> QED BY <1>1, <1>2, IdleKnows DEF DoneInv

(* Which call a step ends, and how. *)
LEMMA SuccessStep ==
  ASSUME DoneInv, [Next]_vars, NEW t \in Threads,
         call[t] # Idle, call'[t] = Idle, result'[t] = "SUCCESS"
  PROVE  /\ ~call[t].reset
         /\ call[t].mode # "write" => reader[t].got = call[t].want
<1>1. call[t] \in Call /\ call \in [Threads -> Call \cup {Idle}] /\ result \in [Threads -> Status]
  BY DEF DoneInv, SpiInv, TypeOK
<1>2. Knows(call[t], reader[t])
  BY DEF DoneInv
<1>3. \A c \in Call : c # Idle
  BY DEF Call, Idle
<1>4. PICK u \in Threads :
        \/ \E m \in Modes, n \in Lengths, to \in Timeouts : Begin(u, m, n, to)
        \/ CallerStep(u)
        \/ ReaderStep(u)
  <2>1. ~UNCHANGED vars
    BY DEF vars
  <2> QED BY <2>1 DEF Next
<1>5. \A v \in Threads : v # u => call'[v] = call[v]
  BY <1>1, <1>4 DEF Begin, CallerStep, Command, Write, Poll, Join, Written, Return, GoesOn,
       ReaderStep, ReadSubmit, ReadStop, ReadComplete, ReadFail, Reads
<1>6. u = t
  BY <1>5
<1>7. ASSUME NEW m \in Modes, NEW n \in Lengths, NEW to \in Timeouts, Begin(u, m, n, to)
      PROVE  FALSE
  BY <1>6, <1>7 DEF Begin
<1>8. ASSUME ReaderStep(u)
      PROVE  FALSE
  <2>1. PICK b : call' = [call EXCEPT ![t].reset = @ \/ b]
    BY <1>6, <1>8 DEF ReaderStep, ReadSubmit, ReadStop, ReadComplete, ReadFail, Reads
  <2>2. call'[t].pc = call[t].pc
    BY <1>1, <2>1 DEF Call
  <2> QED BY <1>1, <2>2 DEF Call, Idle
<1>9. CASE Join(u)
  BY <1>1, <1>6, <1>9, JoinedInSuccess DEF Join, Return
<1>10. ASSUME NEW s, NEW b, Written(t, s, b), call[t].pc \in {"write", "poll"}
       PROVE  ~call[t].reset /\ call[t].mode = "write"
  <2>1. call[t].mode = "write"
    <3> SUFFICES ASSUME call[t].mode # "write" PROVE FALSE
      OBVIOUS
    <3> DEFINE c == [call[t] EXCEPT !.pc = "join", !.status = s, !.reset = @ \/ b]
    <3>1. call'[t] = c
      BY <1>1, <1>10 DEF Written, GoesOn
    <3>2. c.pc = "join"
      BY <1>1 DEF Call
    <3> HIDE DEF c
    <3>3. call'[t].pc = "idle"
      BY DEF Idle
    <3> QED BY <3>1, <3>2, <3>3
  <2>2. reader[t] = NoReader
    BY <2>1 DEF DoneInv, SpiInv, ReaderIsJoined
  <2> QED BY <1>2, <1>10, <2>1, <2>2 DEF Knows, CallKnows, ResetIsKnown
<1>11. ASSUME NEW c, GoesOn(t, c), c.pc # "idle"
       PROVE  FALSE
  BY <1>1, <1>11 DEF GoesOn, Idle
<1>12. CASE Command(u)
  <2>1. ASSUME NEW p \in {"join", "write"}, GoesOn(t, [call[t] EXCEPT !.pc = p])
        PROVE  FALSE
    BY <1>1, <1>11, <2>1 DEF Call
  <2>2. Return(t, "FAILED") => result'[t] = "FAILED"
    BY <1>1 DEF Return
  <2> QED BY <1>6, <1>12, <2>1, <2>2 DEF Command
<1>13. CASE Write(u)
  <2>1. ASSUME NEW n, GoesOn(t, [call[t] EXCEPT !.pc = "poll", !.loops = n])
        PROVE  FALSE
    BY <1>1, <1>11, <2>1 DEF Call
  <2> QED BY <1>6, <1>10, <1>13, <2>1 DEF Write
<1>14. CASE Poll(u)
  <2>1. ASSUME NEW n, GoesOn(t, [call[t] EXCEPT !.loops = n])
        PROVE  FALSE
    BY <1>1, <1>6, <1>11, <1>14, <2>1 DEF Call, Poll
  <2>2. ~GoesOn(t, call[t])
    BY <1>1, <1>11 DEF Call
  <2> QED BY <1>6, <1>10, <1>14, <2>1, <2>2 DEF Poll
<1> QED BY <1>4, <1>7, <1>8, <1>9, <1>12, <1>13, <1>14 DEF CallerStep

(* A call of CySpiReadWrite that reports success has read its whole        *)
(* buffer, and neither its write nor its read has reset the block on the   *)
(* way, whatever the two do to each other, as long as the timeouts fit     *)
(* the int that the read keeps them in.                                    *)
THEOREM SpiSuccessMeansDone == ASSUME ShortTimeouts PROVE Spec => SuccessMeansDone
<1>1. DoneInv /\ [Next]_vars => DoneInv'
  BY DoneStep
<1>2. ASSUME DoneInv, [Next]_vars
      PROVE  \A t \in Threads :
               call[t] # Idle /\ call'[t] = Idle /\ result'[t] = "SUCCESS" =>
                 /\ ~call[t].reset
                 /\ call[t].mode # "write" => reader[t].got = call[t].want
  BY <1>2, SuccessStep
<1> QED BY <1>1, <1>2, DoneInit, PTL DEF Spec, SuccessMeansDone
=============================================================================

-------------------------- MODULE I2cTransferProofs -------------------------
(***************************************************************************)
(* The locks of the I2C calls, for any threads: each direction serves one  *)
(* call at a time, and the lock of a read that is taken belongs to a read  *)
(* that runs, whatever fails; of a write the latter holds as long as no    *)
(* request fails.  That assumption is needed: see the run i2c_lock_leak.   *)
(* The types of the other variables follow from it.                        *)
(***************************************************************************)
EXTENDS I2cTransfer, SequenceTheorems, TLAPS

Places == {"idle", "command", "bulk", "stalled", "status", "notify", "wait"}

LockTypes ==
  /\ lock \in [Dirs -> Threads \cup {NoThread}]
  /\ pc \in [Threads -> Places]
  /\ dir \in [Threads -> Dirs \cup {"none"}]
  /\ \A t \in Threads : pc[t] # "idle" => dir[t] \in Dirs

(* A call in direction d may end without giving back its lock. *)
Leaks(d) == Faults /\ d = "write"

LockInv ==
  /\ LockTypes
  /\ OneCallPerDirection
  /\ \A d \in Dirs : ~Leaks(d) => LockIsServed(d)

(* A thread in a call goes on in it: no lock is touched. *)
LEMMA CallGoesOn ==
  ASSUME LockInv, NEW t \in Threads, NEW p \in Places \ {"idle"}, pc[t] # "idle",
         Goes(t, p), UNCHANGED <<lock, dir>>
  PROVE  LockInv'
BY DEF Leaks, LockInv, LockTypes, OneCallPerDirection, LockIsServed, Goes, Places

(* A thread ends its call and gives back the lock. *)
LEMMA CallReturns ==
  ASSUME LockInv, NEW t \in Threads, pc[t] # "idle", Goes(t, "idle"),
         lock' = [lock EXCEPT ![dir[t]] = NoThread], UNCHANGED dir
  PROVE  LockInv'
<1> USE I2cAssumption
<1>1. dir[t] \in Dirs /\ lock[dir[t]] = t
  BY DEF LockInv, LockTypes, OneCallPerDirection
<1>2. LockTypes'
  BY <1>1 DEF LockInv, LockTypes, Goes, Places
<1>3. \A u \in Threads : pc'[u] = IF u = t THEN "idle" ELSE pc[u]
  BY DEF Goes, LockInv, LockTypes
<1>4. \A d \in Dirs : lock'[d] = IF d = dir[t] THEN NoThread ELSE lock[d]
  BY DEF LockInv, LockTypes
<1>5. OneCallPerDirection'
  BY <1>1, <1>3, <1>4 DEF LockInv, LockTypes, OneCallPerDirection
<1>6. ASSUME NEW d \in Dirs, ~Leaks(d) PROVE LockIsServed(d)'
  <2> SUFFICES ASSUME lock'[d] # NoThread
               PROVE  pc'[lock'[d]] # "idle" /\ dir'[lock'[d]] = d
    BY DEF LockIsServed
  <2>1. d # dir[t] /\ lock'[d] = lock[d]
    BY <1>4
  <2>2. lock[d] \in Threads /\ pc[lock[d]] # "idle" /\ dir[lock[d]] = d
    BY <1>6, <2>1 DEF LockInv, LockTypes, LockIsServed
  <2> QED BY <1>3, <2>1, <2>2
<1> QED BY <1>2, <1>5, <1>6 DEF LockInv

LEMMA LockInitial == Init => LockInv
BY I2cAssumption DEF Init, Leaks, LockInv, LockTypes, OneCallPerDirection, LockIsServed, Places

LEMMA LockStep == LockInv /\ [Next]_vars => LockInv'
<1> SUFFICES ASSUME LockInv, [Next]_vars PROVE LockInv'
  OBVIOUS
<1> USE I2cAssumption
<1>1. CASE UNCHANGED vars
  BY <1>1 DEF vars, calls, Leaks, LockInv, LockTypes, OneCallPerDirection, LockIsServed
<1>2. ASSUME NEW t \in Threads, NEW d \in Dirs, Begin(t, d) PROVE LockInv'
  <2>1. CASE lock[d] = NoThread
    <3>1. /\ lock' = [lock EXCEPT ![d] = t]
          /\ pc' = [pc EXCEPT ![t] = "command"]
          /\ dir' = [dir EXCEPT ![t] = d]
          /\ pc[t] = "idle"
      BY <1>2, <2>1 DEF Begin, Goes
    <3>2. LockTypes'
      BY <3>1 DEF LockInv, LockTypes, Places
    <3>3. OneCallPerDirection'
      BY <2>1, <3>1 DEF LockInv, LockTypes, OneCallPerDirection
    <3>4. \A e \in Dirs : ~Leaks(e) => LockIsServed(e)'
      BY <2>1, <3>1 DEF LockInv, LockTypes, LockIsServed, Leaks
    <3> QED BY <3>2, <3>3, <3>4 DEF LockInv
  <2>2. CASE lock[d] # NoThread
    <3>1. /\ dir' = [dir EXCEPT ![t] = d]
          /\ pc[t] = "idle"
          /\ UNCHANGED <<lock, pc>>
      BY <1>2, <2>2 DEF Begin
    <3> QED
      BY <3>1 DEF Leaks, LockInv, LockTypes, OneCallPerDirection, LockIsServed, Places
  <2> QED BY <2>1, <2>2
<1>3. ASSUME NEW t \in Threads, Command(t) PROVE LockInv'
  BY <1>3, CallGoesOn, CallReturns DEF Command, Return, Leave, Places
<1>4. ASSUME NEW t \in Threads, Bulk(t) PROVE LockInv'
  BY <1>4, CallGoesOn, CallReturns DEF Bulk, Return, Leave, Places
<1>5. ASSUME NEW t \in Threads, ResetPipe(t) PROVE LockInv'
  BY <1>5, CallGoesOn DEF ResetPipe, Places
<1>6. ASSUME NEW t \in Threads, StatusRequest(t) PROVE LockInv'
  <2>1. CASE lock' = [lock EXCEPT ![dir[t]] = NoThread]
    BY <1>6, <2>1, CallReturns DEF StatusRequest, Return, Leave
  <2>2. CASE Faults /\ dir[t] = "write" /\ Goes(t, "idle") /\ UNCHANGED lock
    <3>1. pc' = [pc EXCEPT ![t] = "idle"] /\ UNCHANGED <<lock, dir>>
      BY <1>6, <2>2 DEF StatusRequest, Goes
    <3>2. /\ pc[t] = "status" /\ dir[t] = "write"
          /\ dir[t] \in Dirs /\ lock[dir[t]] = t
      BY <1>6, <2>2 DEF StatusRequest, LockInv, LockTypes, OneCallPerDirection
    <3>3. LockTypes' /\ OneCallPerDirection'
      BY <3>1 DEF LockInv, LockTypes, OneCallPerDirection, Places
    <3>4. ASSUME NEW d \in Dirs, ~Leaks(d) PROVE LockIsServed(d)'
      <4>1. d # "write"
        BY <2>2, <3>4 DEF Leaks
      <4>2. lock[d] # NoThread => lock[d] # t
        BY <3>2, <3>4, <4>1 DEF LockInv, LockIsServed
      <4> QED BY <3>1, <3>4, <4>2 DEF LockInv, LockTypes, LockIsServed
    <3> QED BY <3>3, <3>4 DEF LockInv, Leaks
  <2> QED BY <1>6, <2>1, <2>2 DEF StatusRequest, Return, Leave
<1>7. ASSUME NEW t \in Threads, Notify(t) PROVE LockInv'
  BY <1>7, CallGoesOn, CallReturns DEF Notify, Return, Leave, Places
<1>8. ASSUME NEW t \in Threads, NEW c \in commands, Answered(t, c) PROVE LockInv'
  BY <1>8, CallReturns DEF Answered
<1>9. ASSUME NEW t \in Threads, WaitEnds(t) PROVE LockInv'
  BY <1>9, CallReturns DEF WaitEnds, Return, Leave
<1> QED
  BY <1>1, <1>2, <1>3, <1>4, <1>5, <1>6, <1>7, <1>8, <1>9 DEF Next, Step

(* At most one call is served in each direction, whatever fails: trylock   *)
(* and the lock leak of CyI2cWrite included.                               *)
THEOREM I2cOneCallPerDirection == Spec => []OneCallPerDirection
<1>1. LockInv => OneCallPerDirection
  BY DEF LockInv
<1> QED BY <1>1, LockInitial, LockStep, PTL DEF Spec

(* A read gives back its lock whichever way it ends, whatever fails, so    *)
(* that a read that is refused as busy has found another one being served. *)
THEOREM I2cReadLockIsServed == Spec => []ReadLockIsServed
<1>1. LockInv => ReadLockIsServed
  BY DEF LockInv, Leaks, ReadLockIsServed
<1> QED BY <1>1, LockInitial, LockStep, PTL DEF Spec

(* As long as no request fails, both locks are.                            *)
THEOREM I2cLocksAreServed ==
  ASSUME ~Faults PROVE Spec => []LocksAreServed
<1>1. LockInv => LocksAreServed
  BY DEF LockInv, Leaks, LocksAreServed
<1> QED BY <1>1, LockInitial, LockStep, PTL DEF Spec
-----------------------------------------------------------------------------
(***************************************************************************)
(* The types.  They need the locks, which say that a call has a direction  *)
(* whose command it sends, and that a call that waits has a transfer in    *)
(* the queue of the interrupt endpoint, which its end takes out.           *)
(***************************************************************************)
InQueue == \A t \in Threads : pc[t] = "wait" => \E i \in DOMAIN waiting : waiting[i] = t

TypeInv == TypeOK /\ LockInv /\ InQueue

(* The types of the variables that only a call's own steps change. *)
CallTypes ==
  /\ halted \subseteq Dirs
  /\ limited \in [Threads -> BOOLEAN]
  /\ commands \subseteq Commands
  /\ late \in [Threads -> BOOLEAN]
  /\ answer \in [Threads -> Commands \cup {NoAnswer}]
  /\ status \in [Threads -> Status]

LEMMA TypesInParts == TypeOK <=> /\ CallTypes
                               /\ waiting \in Seq(Threads)
                               /\ lock \in [Dirs -> Threads \cup {NoThread}]
                               /\ pc \in [Threads -> Places]
                               /\ dir \in [Threads -> Dirs \cup {"none"}]
BY DEF TypeOK, CallTypes, Places

(* The commands of a call that is over are marked as such. *)
LEMMA CommandsStay ==
  ASSUME NEW S \in SUBSET Commands, NEW t \in Threads
  PROVE  {IF c = Own(t) THEN [c EXCEPT !.runs = FALSE] ELSE c : c \in S} \subseteq Commands
BY DEF Commands

LEMMA LeaveTypes ==
  ASSUME CallTypes, NEW t \in Threads, NEW s \in Status, Leave(t, s)
  PROVE  commands' \subseteq Commands /\ status' \in [Threads -> Status]
BY CommandsStay DEF CallTypes, Leave

(* Taking t's transfer out of the queue leaves those of the others in it.  *)
LEMMA OthersStay ==
  ASSUME NEW w \in Seq(Threads), NEW i \in DOMAIN w
  PROVE  /\ RemoveAt(w, i) \in Seq(Threads)
         /\ \A j \in DOMAIN w : j # i =>
              \E k \in DOMAIN RemoveAt(w, i) : RemoveAt(w, i)[k] = w[j]
<1> DEFINE a == SubSeq(w, 1, i - 1)
           b == SubSeq(w, i + 1, Len(w))
<1>1. i \in 1 .. Len(w) /\ Len(w) \in Nat
  OBVIOUS
<1>2. /\ a \in Seq(Threads) /\ Len(a) = i - 1
      /\ \A k \in 1 .. i - 1 : a[k] = w[k]
  BY <1>1, SubSeqProperties
<1>3. /\ b \in Seq(Threads) /\ Len(b) = Len(w) - i
      /\ \A k \in 1 .. Len(w) - i : b[k] = w[i + k]
  BY <1>1, SubSeqProperties
<1>4. RemoveAt(w, i) = a \o b
  BY DEF RemoveAt
<1> HIDE DEF a, b
<1>5. /\ a \o b \in Seq(Threads) /\ Len(a \o b) = Len(w) - 1
      /\ \A k \in 1 .. Len(w) - 1 : (a \o b)[k] = IF k <= i - 1 THEN a[k] ELSE b[k - (i - 1)]
  <2>1. a \o b \in Seq(Threads) /\ Len(a \o b) = Len(a) + Len(b)
    BY <1>2, <1>3, ConcatProperties
  <2>2. \A k \in 1 .. Len(a) + Len(b) : (a \o b)[k] = IF k <= Len(a) THEN a[k] ELSE b[k - Len(a)]
    BY <1>2, <1>3, ConcatProperties
  <2>3. Len(a) = i - 1 /\ Len(a) + Len(b) = Len(w) - 1
    BY <1>1, <1>2, <1>3
  <2> QED BY <2>1, <2>2, <2>3
<1>6. DOMAIN (a \o b) = 1 .. Len(w) - 1
  BY <1>5
<1>7. ASSUME NEW j \in 1 .. Len(w), j # i
      PROVE  \E k \in 1 .. Len(w) - 1 : (a \o b)[k] = w[j]
  <2>1. CASE j < i
    BY <1>1, <1>2, <1>5, <2>1
  <2>2. CASE j > i
    <3> DEFINE m == j - 1
    <3>1. m \in 1 .. Len(w) - 1 /\ m > i - 1 /\ m - (i - 1) = j - i
      BY <1>1, <2>2
    <3>2. (a \o b)[m] = b[j - i]
      BY <1>5, <3>1
    <3>3. j - i \in 1 .. Len(w) - i /\ i + (j - i) = j
      BY <1>1, <2>2
    <3>4. b[j - i] = w[j]
      BY <1>3, <3>3
    <3> HIDE DEF m
    <3>5. (a \o b)[m] = w[j]
      BY <3>2, <3>4
    <3> QED BY <3>1, <3>5
  <2>3. j < i \/ j > i
    BY <1>1, <1>7
  <2> QED BY <2>1, <2>2, <2>3
<1>8. DOMAIN w = 1 .. Len(w)
  OBVIOUS
<1> QED BY <1>4, <1>5, <1>6, <1>7, <1>8

(* A step that ends t's call and takes out its transfer at i. *)
LEMMA QueueLeft ==
  ASSUME TypeInv, NEW t \in Threads, NEW i \in DOMAIN waiting, waiting[i] = t,
         waiting' = RemoveAt(waiting, i), Goes(t, "idle")
  PROVE  waiting' \in Seq(Threads) /\ InQueue'
<1>1. waiting \in Seq(Threads) /\ pc \in [Threads -> Places]
  BY TypesInParts DEF TypeInv
<1>2. ASSUME NEW u \in Threads, pc'[u] = "wait"
      PROVE  \E k \in DOMAIN waiting' : waiting'[k] = u
  <2>1. u # t /\ pc[u] = "wait"
    BY <1>1, <1>2 DEF Goes
  <2>2. PICK j \in DOMAIN waiting : waiting[j] = u
    BY <2>1 DEF TypeInv, InQueue
  <2> QED BY <1>1, <2>1, <2>2, OthersStay
<1> QED BY <1>1, <1>2, OthersStay DEF InQueue

(* Any other step but a submission leaves the queue alone. *)
LEMMA QueueStays ==
  ASSUME TypeInv, NEW t \in Threads, NEW p \in Places \ {"wait"}, Goes(t, p), UNCHANGED waiting
  PROVE  waiting' \in Seq(Threads) /\ InQueue'
BY TypesInParts DEF TypeInv, InQueue, Goes, Places

LEMMA TypeInitial == Init => TypeInv
BY LockInitial, I2cAssumption DEF Init, TypeInv, TypeOK, InQueue, Status, NoAnswer

LEMMA TypeStep == TypeInv /\ [Next]_vars => TypeInv'
<1> SUFFICES ASSUME TypeInv, [Next]_vars PROVE TypeInv'
  OBVIOUS
<1> USE I2cAssumption
<1>1. LockInv' /\ LockInv
  BY LockStep DEF TypeInv
<1>2. CallTypes /\ waiting \in Seq(Threads) /\ pc \in [Threads -> Places]
  BY TypesInParts DEF TypeInv
<1> SUFFICES CallTypes' /\ waiting' \in Seq(Threads) /\ InQueue'
  BY <1>1, TypesInParts DEF TypeInv, LockInv, LockTypes, TypeOK, CallTypes, Places
<1>3. CASE UNCHANGED vars
  BY <1>2, <1>3 DEF vars, calls, TypeInv, InQueue, CallTypes
<1>4. \A t \in Threads : pc[t] # "idle" => dir[t] \in Dirs
  BY <1>1 DEF LockInv, LockTypes
<1>5. ASSUME NEW t \in Threads, NEW d \in Dirs, Begin(t, d)
      PROVE  CallTypes' /\ waiting' \in Seq(Threads) /\ InQueue'
  <2>1. CallTypes'
    BY <1>2, <1>5 DEF Begin, CallTypes, Status
  <2>2. waiting' \in Seq(Threads) /\ InQueue'
    <3>1. CASE lock[d] = NoThread
      BY <1>5, <3>1, QueueStays DEF Begin, Places
    <3>2. CASE lock[d] # NoThread
      BY <1>2, <1>5, <3>2 DEF Begin, TypeInv, InQueue
    <3> QED BY <3>1, <3>2
  <2> QED BY <2>1, <2>2
<1>6. ASSUME NEW t \in Threads, Command(t)
      PROVE  CallTypes' /\ waiting' \in Seq(Threads) /\ InQueue'
  <2>1. Own(t) \in Commands
    BY <1>4, <1>6 DEF Command, Own, Commands
  <2>2. CallTypes'
    BY <1>2, <1>6, <2>1, LeaveTypes DEF Command, Return, CallTypes, Status
  <2> QED BY <1>6, <2>2, QueueStays DEF Command, Return, Leave, Places
<1>7. ASSUME NEW t \in Threads, Bulk(t)
      PROVE  CallTypes' /\ waiting' \in Seq(Threads) /\ InQueue'
  <2>1. dir[t] \in Dirs /\ Limits \subseteq BOOLEAN
    BY <1>4, <1>7 DEF Bulk, Limits
  <2>2. /\ halted' \subseteq Dirs
        /\ limited' \in [Threads -> BOOLEAN]
        /\ late' \in [Threads -> BOOLEAN]
        /\ UNCHANGED answer
    <3>1. halted' \in {halted, halted \cup {dir[t]}} /\ UNCHANGED answer
      BY <1>7 DEF Bulk
    <3>2. late' \in {late, [late EXCEPT ![t] = TRUE]}
      BY <1>7 DEF Bulk
    <3>3. limited' = limited \/ \E in \in Limits : limited' = [limited EXCEPT ![t] = in]
      BY <1>7 DEF Bulk
    <3>4. limited' \in [Threads -> BOOLEAN]
      BY <1>2, <2>1, <3>3 DEF CallTypes
    <3> QED BY <1>2, <2>1, <3>1, <3>2, <3>4 DEF CallTypes
  <2>3. commands' \subseteq Commands /\ status' \in [Threads -> Status]
    <3>1. CASE UNCHANGED <<commands, status>>
      BY <1>2, <3>1 DEF CallTypes
    <3>2. CASE \E s \in Status : Return(t, s)
      BY <1>2, <3>2, LeaveTypes DEF Return
    <3>3. {"IO_TIMEOUT", "NOT_FOUND", "FAILED"} \subseteq Status
      BY DEF Status
    <3> QED BY <1>7, <3>1, <3>2, <3>3 DEF Bulk
  <2>4. CallTypes'
    BY <1>2, <2>2, <2>3 DEF CallTypes
  <2> QED BY <1>7, <2>4, QueueStays DEF Bulk, Return, Leave, Places
<1>8. ASSUME NEW t \in Threads, ResetPipe(t)
      PROVE  CallTypes' /\ waiting' \in Seq(Threads) /\ InQueue'
  BY <1>2, <1>8, QueueStays DEF ResetPipe, CallTypes, Places
<1>9. ASSUME NEW t \in Threads, StatusRequest(t)
      PROVE  CallTypes' /\ waiting' \in Seq(Threads) /\ InQueue'
  <2>1. CallTypes'
    BY <1>2, <1>9, LeaveTypes DEF StatusRequest, Return, CallTypes, Status
  <2> QED BY <1>9, <2>1, QueueStays DEF StatusRequest, Return, Leave, Places
<1>10. ASSUME NEW t \in Threads, Notify(t)
       PROVE  CallTypes' /\ waiting' \in Seq(Threads) /\ InQueue'
  <2>1. CallTypes'
    BY <1>2, <1>10, LeaveTypes DEF Notify, Return, CallTypes, Status
  <2>2. CASE Goes(t, "wait") /\ waiting' = Append(waiting, t)
    <3>1. waiting' \in Seq(Threads) /\ Len(waiting') = Len(waiting) + 1
      BY <1>2, <2>2
    <3>2. waiting'[Len(waiting) + 1] = t /\ \A i \in DOMAIN waiting : waiting'[i] = waiting[i]
      BY <1>2, <2>2
    <3>3. InQueue'
      BY <1>2, <2>2, <3>1, <3>2 DEF TypeInv, InQueue, Goes
    <3> QED BY <2>1, <3>1, <3>3
  <2>3. CASE Return(t, "FAILED") /\ UNCHANGED waiting
    BY <2>1, <2>3, QueueStays DEF Return, Leave, Places
  <2> QED BY <1>10, <2>2, <2>3 DEF Notify
<1>11. ASSUME NEW t \in Threads, NEW c \in commands, Answered(t, c)
       PROVE  CallTypes' /\ waiting' \in Seq(Threads) /\ InQueue'
  <2>1. CallTypes'
    <3>1. c \in Commands
      BY <1>2 DEF CallTypes
    <3>2. answer' \in [Threads -> Commands \cup {NoAnswer}]
      BY <1>2, <1>11, <3>1 DEF Answered, CallTypes
    <3>3. status' \in [Threads -> Status] /\ commands' \subseteq Commands
      BY <1>2, <1>11, CommandsStay DEF Answered, CallTypes, Status
    <3> QED BY <1>2, <1>11, <3>2, <3>3 DEF Answered, CallTypes
  <2>2. waiting # <<>>
    BY <1>11 DEF Answered, TypeInv, InQueue
  <2>3. 1 \in DOMAIN waiting /\ waiting[1] = t
    BY <1>2, <1>11, <2>2 DEF Answered
  <2>4. waiting' = RemoveAt(waiting, 1)
    BY <1>2, <1>11, <2>2 DEF Answered, RemoveAt
  <2> QED BY <1>11, <2>1, <2>3, <2>4, QueueLeft DEF Answered
<1>12. ASSUME NEW t \in Threads, WaitEnds(t)
       PROVE  CallTypes' /\ waiting' \in Seq(Threads) /\ InQueue'
  <2>1. CallTypes'
    BY <1>2, <1>12, LeaveTypes DEF WaitEnds, Return, CallTypes, Status
  <2> QED BY <1>12, <2>1, QueueLeft DEF WaitEnds, Return, Leave
<1> QED
  BY <1>3, <1>5, <1>6, <1>7, <1>8, <1>9, <1>10, <1>11, <1>12 DEF Next, Step

(* The variables of the I2C calls keep their types, whatever fails: every  *)
(* command the device has is one of a direction that is in use, and a call *)
(* that waits has a transfer to take out of the queue when it ends.        *)
THEOREM I2cTypeCorrect == Spec => []TypeOK
<1>1. TypeInv => TypeOK
  BY DEF TypeInv
<1> QED BY <1>1, TypeInitial, TypeStep, PTL DEF Spec
=============================================================================

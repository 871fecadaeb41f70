----------------------------- MODULE I2cTransfer ----------------------------
(***************************************************************************)
(* CyI2cRead and CyI2cWrite of cyi2c.cpp on one device: threads read and   *)
(* write, each direction under a lock of its own that is only tried.       *)
(*                                                                         *)
(* A call asks for the status, sends the command of its direction, moves   *)
(* the data over the bulk endpoint of its direction and then waits on the  *)
(* interrupt endpoint, which both directions share, for the device to say  *)
(* how the command went.  A stalled endpoint makes the call reset a pipe,  *)
(* ask for the status again and reset the I2C block.                       *)
(*                                                                         *)
(* libusb and the device are external.  The device takes a command or is   *)
(* busy, and answers a command it has taken with a notification, at any    *)
(* time or never; the transfer that has waited longest on the interrupt    *)
(* endpoint gets it.  The data itself is not modelled.                     *)
(***************************************************************************)
EXTENDS Integers, SequencesExt

CONSTANTS
  Threads,      (* application threads                                     *)
  NoThread,     (* no one: a lock is free                                  *)
  Dirs,         (* the directions in use: of "read" and "write"            *)
  Faults,       (* whether requests, submissions and transfers may fail    *)
                (* other than by a stall, a timeout or a device that is    *)
                (* busy or gone before it takes the command                *)
  Timeouts,     (* whether transfers may time out                          *)
  LateClock     (* whether a bulk transfer may be measured to take longer  *)
                (* than its timeout                                        *)

ASSUME I2cAssumption ==
  /\ NoThread \notin Threads
  /\ Dirs \subseteq {"read", "write"}
  /\ Faults \in BOOLEAN
  /\ Timeouts \in BOOLEAN
  /\ LateClock \in BOOLEAN

(* Results: FAILED is CY_ERROR_REQUEST_FAILED and the failed allocation of *)
(* a transfer, REFUSED the one for a lock that is taken, I2C_ERROR the     *)
(* errors of handleI2cError.                                               *)
Status == {"SUCCESS", "REFUSED", "DEVICE_BUSY", "NOT_FOUND", "IO_TIMEOUT",
           "I2C_ERROR", "FAILED"}

VARIABLES
  lock,      (* readLock and writeLock                                     *)
  halted,    (* the directions whose bulk endpoint is halted               *)
  pc,        (* where each thread is                                       *)
  dir,       (* the direction of its call                                  *)
  limited,   (* whether its wait on the interrupt endpoint ends            *)
  commands,  (* the commands the device has taken and not answered: whose, *)
             (* and whether that call still runs                           *)
  waiting,   (* the threads that wait on the interrupt endpoint, in order  *)
  late,      (* history: whether a transfer of the call timed out          *)
  answer,    (* history: the command the call's notification answered      *)
  status     (* what each thread's last call returned                      *)

calls == <<pc, dir, limited, late, answer, status>>
vars == <<lock, halted, commands, waiting, calls>>

NoAnswer == [by |-> NoThread, dir |-> "none", runs |-> FALSE]

Init ==
  /\ lock = [d \in Dirs |-> NoThread]
  /\ halted = {}
  /\ pc = [t \in Threads |-> "idle"]
  /\ dir = [t \in Threads |-> "none"]
  /\ limited = [t \in Threads |-> TRUE]
  /\ commands = {}
  /\ waiting = <<>>
  /\ late = [t \in Threads |-> FALSE]
  /\ answer = [t \in Threads |-> NoAnswer]
  /\ status = [t \in Threads |-> "SUCCESS"]

-----------------------------------------------------------------------------
Goes(t, p) == pc' = [pc EXCEPT ![t] = p]

Own(t) == [by |-> t, dir |-> dir[t], runs |-> TRUE]

(* The call of thread t returns s without giving back its lock; a command  *)
(* of its that is not answered becomes one of a call that is over.         *)
Leave(t, s) ==
  /\ Goes(t, "idle")
  /\ status' = [status EXCEPT ![t] = s]
  /\ commands' = {IF c = Own(t) THEN [c EXCEPT !.runs = FALSE] ELSE c : c \in commands}

(* It returns s and gives it back. *)
Return(t, s) ==
  /\ lock' = [lock EXCEPT ![dir[t]] = NoThread]
  /\ Leave(t, s)

(* Mutants: the call goes on without the lock; it does not note its        *)
(* direction.                                                              *)
BeginMutantLock(t, d) ==
  /\ pc[t] = "idle"
  /\ lock' = [lock EXCEPT ![d] = t]
  /\ Goes(t, "command")
  /\ dir' = [dir EXCEPT ![t] = d]
  /\ UNCHANGED <<halted, limited, commands, waiting, late, answer, status>>

BeginMutantDir(t, d) ==
  /\ pc[t] = "idle"
  /\ lock[d] = NoThread
  /\ lock' = [lock EXCEPT ![d] = t]
  /\ Goes(t, "command")
  /\ UNCHANGED <<halted, dir, limited, commands, waiting, late, answer, status>>

(* pthread_mutex_trylock. *)
Begin(t, d) ==
  /\ pc[t] = "idle"
  /\ IF lock[d] = NoThread
     THEN /\ lock' = [lock EXCEPT ![d] = t]
          /\ Goes(t, "command")
          /\ status' = [status EXCEPT ![t] = "SUCCESS"]
     ELSE /\ status' = [status EXCEPT ![t] = "REFUSED"]
          /\ UNCHANGED <<lock, pc>>
  /\ dir' = [dir EXCEPT ![t] = d]
  /\ late' = [late EXCEPT ![t] = FALSE]
  /\ answer' = [answer EXCEPT ![t] = NoAnswer]
  /\ limited' = [limited EXCEPT ![t] = TRUE]
  /\ UNCHANGED <<halted, commands, waiting>>

(* The status request and the command.  The device may be busy or gone; a  *)
(* status request that fails does not keep the command from being sent.    *)
Command(t) ==
  /\ pc[t] = "command"
  /\ \/ /\ \E s \in {"DEVICE_BUSY", "NOT_FOUND"} : Return(t, s)
     \/ /\ Goes(t, "bulk")
        /\ commands' = commands \cup {Own(t)}
        /\ UNCHANGED <<lock, status>>
  /\ UNCHANGED <<halted, dir, limited, waiting, late, answer>>

(* Whether what is left of the timeout after the bulk transfer is a limit: *)
(* it is a uint32_t, and has no end if the clock says that the transfer    *)
(* took longer than the timeout.                                           *)
Limits == {TRUE, ~LateClock}

(* The bulk transfer.                                                      *)
Bulk(t) ==
  /\ pc[t] = "bulk"
  /\ \/ /\ dir[t] \notin halted
        /\ Goes(t, "notify")
        /\ limited' \in {[limited EXCEPT ![t] = in] : in \in Limits}
        /\ UNCHANGED <<lock, halted, commands, late, status>>
     \/ /\ Goes(t, "stalled")
        /\ halted' = halted \cup {dir[t]}
        /\ UNCHANGED <<lock, commands, limited, late, status>>
     \/ /\ Timeouts
        /\ Return(t, "IO_TIMEOUT")
        /\ late' = [late EXCEPT ![t] = TRUE]
        /\ UNCHANGED <<halted, limited>>
     \/ /\ Faults
        /\ \E s \in {"NOT_FOUND", "FAILED"} : Return(t, s)
        /\ UNCHANGED <<halted, limited, late>>
  /\ UNCHANGED <<dir, waiting, answer>>

(* After a stall both directions reset the OUT endpoint.  A reset that     *)
(* fails is not followed up.                                               *)
ResetPipe(t) ==
  /\ pc[t] = "stalled"
  /\ halted' \in {halted, halted \ {"write"}}
  /\ Faults \/ halted' = halted \ {"write"}
  /\ Goes(t, "status")
  /\ UNCHANGED <<lock, commands, dir, limited, waiting, late, answer, status>>

(* Mutant: without the status it starts over with the pipe. *)
StatusRequestMutant(t) ==
  /\ pc[t] = "status"
  /\ \/ /\ Return(t, "I2C_ERROR")
     \/ /\ Faults
        /\ Goes(t, "stalled")
        /\ UNCHANGED <<lock, commands, status>>
  /\ UNCHANGED <<halted, dir, limited, waiting, late, answer>>

(* Then they ask for the status.  With it they reset the I2C block, which  *)
(* makes the device forget the command unless the reset fails unnoticed,   *)
(* and return its error.  Without it a read gives up its lock, and a write *)
(* leaves through the end of the function, which does not.                 *)
StatusRequest(t) ==
  /\ pc[t] = "status"
  /\ \/ /\ Goes(t, "idle")
        /\ \E s \in {"I2C_ERROR", "FAILED"} : status' = [status EXCEPT ![t] = s]
        /\ lock' = [lock EXCEPT ![dir[t]] = NoThread]
        /\ commands' = {c \in commands : c.dir # dir[t]}
     \/ /\ Faults
        /\ \E s \in {"I2C_ERROR", "FAILED"} : Return(t, s)
     \/ /\ Faults /\ dir[t] = "read"
        /\ Return(t, "DEVICE_BUSY")
     \/ /\ Faults /\ dir[t] = "write"
        /\ Leave(t, "FAILED")
        /\ UNCHANGED lock
  /\ UNCHANGED <<halted, dir, limited, waiting, late, answer>>

(* Mutant: the lock is not given back if the transfer cannot be submitted. *)
NotifyMutant(t) ==
  /\ pc[t] = "notify"
  /\ \/ /\ Goes(t, "wait")
        /\ waiting' = Append(waiting, t)
        /\ UNCHANGED <<lock, commands, status>>
     \/ Faults /\ Leave(t, "FAILED") /\ UNCHANGED <<lock, waiting>>
  /\ UNCHANGED <<halted, dir, limited, late, answer>>

(* waitForNotification: the interrupt transfer is submitted, or cannot be. *)
Notify(t) ==
  /\ pc[t] = "notify"
  /\ \/ /\ Goes(t, "wait")
        /\ waiting' = Append(waiting, t)
        /\ UNCHANGED <<lock, commands, status>>
     \/ Faults /\ Return(t, "FAILED") /\ UNCHANGED waiting
  /\ UNCHANGED <<halted, dir, limited, late, answer>>

(* The device answers a command c, and the transfer that has waited        *)
(* longest completes, whoever submitted it.  On an error with a cause the  *)
(* I2C block is reset in the direction the notification names, which may   *)
(* fail.  An error bit without a cause resets nothing and leaves           *)
(* errorStatus, the result, uninitialized.                                 *)
Answered(t, c) ==
  /\ pc[t] = "wait" /\ Head(waiting) = t
  /\ waiting' = Tail(waiting)
  /\ answer' = [answer EXCEPT ![t] = c]
  /\ Goes(t, "idle")
  /\ lock' = [lock EXCEPT ![dir[t]] = NoThread]
  /\ \E s \in {"SUCCESS", "I2C_ERROR", "FAILED"},
        left \in {commands \ {c}, {k \in commands : k.dir # c.dir}} :
       /\ s = "SUCCESS" => left = commands \ {c}
       /\ status' = [status EXCEPT ![t] = s]
       /\ commands' = {IF k = Own(t) THEN [k EXCEPT !.runs = FALSE] ELSE k : k \in left}
  /\ UNCHANGED <<halted, dir, limited, late>>

(* The wait times out, or fails in another way: the result is the same,    *)
(* and libusb takes the transfer out of the queue of the endpoint.         *)
WaitEnds(t) ==
  /\ pc[t] = "wait"
  /\ \/ Timeouts /\ limited[t] /\ late' = [late EXCEPT ![t] = TRUE]
     \/ Faults /\ UNCHANGED late
  /\ \E i \in DOMAIN waiting : waiting[i] = t /\ waiting' = RemoveAt(waiting, i)
  /\ Return(t, "FAILED")
  /\ UNCHANGED <<halted, dir, limited, answer>>

Step(t) ==
  Command(t) \/ Bulk(t) \/ ResetPipe(t) \/ StatusRequest(t) \/ Notify(t)

Next ==
  \E t \in Threads :
    \/ \E d \in Dirs : Begin(t, d)
    \/ Step(t)
    \/ \E c \in commands : Answered(t, c)
    \/ WaitEnds(t)

Spec == Init /\ [][Next]_vars

(* Threads run, and a timeout that is set expires.  The device need not    *)
(* answer.                                                                 *)
FairSpec ==
  Spec /\ \A t \in Threads : WF_vars(Step(t)) /\ WF_vars(WaitEnds(t))

-----------------------------------------------------------------------------
Commands == [by : Threads, dir : Dirs, runs : BOOLEAN]

TypeOK ==
  /\ lock \in [Dirs -> Threads \cup {NoThread}]
  /\ halted \subseteq Dirs
  /\ pc \in [Threads -> {"idle", "command", "bulk", "stalled", "status", "notify", "wait"}]
  /\ dir \in [Threads -> Dirs \cup {"none"}]
  /\ limited \in [Threads -> BOOLEAN]
  /\ commands \subseteq Commands
  /\ waiting \in Seq(Threads)
  /\ late \in [Threads -> BOOLEAN]
  /\ answer \in [Threads -> Commands \cup {NoAnswer}]
  /\ status \in [Threads -> Status]

(* The lock of direction d, if taken, belongs to a call that runs.         *)
LockIsServed(d) ==
  lock[d] # NoThread => pc[lock[d]] # "idle" /\ dir[lock[d]] = d

(* A read that is refused because the API is busy finds another read being *)
(* served: whichever way a read ends, it has given back its lock.          *)
ReadLockIsServed == "read" \in Dirs => LockIsServed("read")

(* The same of both directions.  Of a write it holds only as long as no    *)
(* request fails.                                                          *)
LocksAreServed == \A d \in Dirs : LockIsServed(d)

(* At most one call runs in each direction, and it holds the lock.         *)
OneCallPerDirection == \A t \in Threads : pc[t] # "idle" => lock[dir[t]] = t

(* A call that is told how its command went is told about that command.    *)
OwnAnswer ==
  \A t \in Threads : answer[t] # NoAnswer =>
    answer[t].by = t /\ answer[t].dir = dir[t] /\ answer[t].runs

(* A call one of whose transfers timed out returns CY_ERROR_IO_TIMEOUT.    *)
TimeoutIsReported ==
  \A t \in Threads : pc[t] = "idle" /\ late[t] => status[t] = "IO_TIMEOUT"

(* A stall is cleared: an endpoint is halted only while a call handles it. *)
StallIsCleared ==
  \A d \in halted : \E t \in Threads : dir[t] = d /\ pc[t] \in {"stalled", "status"}

(* Every call returns, whether the device answers or not. *)
CallsReturn == \A t \in Threads : pc[t] # "idle" ~> pc[t] = "idle"
=============================================================================

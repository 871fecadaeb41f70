-------------------------- MODULE EventNotification -------------------------
(***************************************************************************)
(* The event monitor of one UART or SPI device, cymisc.cpp.                *)
(*                                                                         *)
(* CySetEventNotification starts a thread that submits an interrupt        *)
(* transfer without a timeout, reports each event to the application's     *)
(* callback and submits the transfer again.  CyAbortEventNotification sets *)
(* a flag, cancels the transfer and joins the thread.  The two functions   *)
(* exclude each other by notificationLock; the thread takes no lock, yet   *)
(* it writes the thread id and the transfer of the device and reads the    *)
(* flag.                                                                   *)
(*                                                                         *)
(* One step reads or writes one of the shared fields.  libusb and the      *)
(* device are external: events arrive or not, a transfer may fail, a       *)
(* cancelled transfer ends.                                                *)
(***************************************************************************)
EXTENDS Integers

CONSTANTS
  Apps,        (* application threads                                       *)
  NoApp,       (* no one: notificationLock is free                          *)
  Kind,        (* deviceType: "UART" or "SPI"                               *)
  MaxMonitors, (* bound: the monitor threads that are created; beyond it    *)
               (* pthread_create fails                                      *)
  Faults       (* whether transfers, submissions and allocations may fail   *)

ASSUME NotificationAssumption ==
  /\ NoApp \notin Apps
  /\ Kind \in {"UART", "SPI"}
  /\ MaxMonitors \in Nat
  /\ Faults \in BOOLEAN

Monitors == 1 .. MaxMonitors

VARIABLES
  lock,        (* who holds notificationLock                                *)
  threadId,    (* uartThreadId or spiThreadId                               *)
  cancelEvent, (* uartCancelEvent or spiCancelEvent                         *)
  transfer,    (* uartTransfer or spiTransfer: whose transfer, 0 is NULL    *)
  app,         (* where each application thread is                          *)
  thread,      (* the monitor that each Set has created, threadID, or that  *)
               (* each abort joins, the argument of pthread_join            *)
  monitor,     (* where each monitor thread is                              *)
  allocated,   (* the monitors whose transfer exists                        *)
  cancelled,   (* the monitors whose submitted transfer is being cancelled  *)
  reported,    (* history: the monitors whose failure the callback was told *)
  aborted,     (* history: the monitors that ended because of the flag      *)
  late         (* history: the monitors that had looked at the flag, and    *)
               (* not yet submitted, when the last abort cancelled          *)

device == <<lock, threadId, cancelEvent, transfer>>
vars == <<device, app, thread, monitor, allocated, cancelled, reported, aborted, late>>

Init ==
  /\ lock = NoApp
  /\ threadId = 0
  /\ cancelEvent = FALSE
  /\ transfer = 0
  /\ app = [a \in Apps |-> "idle"]
  /\ thread = [a \in Apps |-> 0]
  /\ monitor = [m \in Monitors |-> "none"]
  /\ allocated = {}
  /\ cancelled = {}
  /\ reported = {}
  /\ aborted = {}
  /\ late = {}

-----------------------------------------------------------------------------
(***************************************************************************)
(* The application's calls.                                                *)
(***************************************************************************)
AppGoes(a, p, q) == app[a] = p /\ app' = [app EXCEPT ![a] = q]

AppLocal == UNCHANGED <<thread, monitor, allocated, cancelled, reported, aborted, late>>

(* Mutant: a monitor that is known does not keep another one out. *)
SetCheckMutant(a) ==
  /\ lock = NoApp
  /\ AppGoes(a, "idle", "create")
  /\ lock' = a
  /\ UNCHANGED <<threadId, cancelEvent, transfer>>
  /\ AppLocal

(* CySetEventNotification with the lock: a monitor that is known is left    *)
(* alone (CY_ERROR_STATUS_MONITOR_EXIST).                                   *)
SetCheck(a) ==
  /\ lock = NoApp
  /\ IF threadId # 0 THEN AppGoes(a, "idle", "idle") /\ UNCHANGED lock
     ELSE AppGoes(a, "idle", "create") /\ lock' = a
  /\ UNCHANGED <<threadId, cancelEvent, transfer>>
  /\ AppLocal

(* pthread_create; a failure clears the thread id and returns. *)
SetCreate(a) ==
  /\ \/ \E m \in Monitors :
          /\ monitor[m] = "none" /\ \A n \in 1 .. m - 1 : monitor[n] # "none"
          /\ AppGoes(a, "create", "publish")
          /\ monitor' = [monitor EXCEPT ![m] = "start"]
          /\ thread' = [thread EXCEPT ![a] = m]
          /\ UNCHANGED <<lock, threadId>>
     \/ /\ AppGoes(a, "create", "idle")
        /\ threadId' = 0
        /\ lock' = NoApp
        /\ UNCHANGED <<monitor, thread>>
  /\ UNCHANGED <<cancelEvent, transfer, allocated, cancelled, reported, aborted, late>>

(* The thread runs already when its id is stored. *)
SetPublish(a) ==
  /\ AppGoes(a, "publish", "idle")
  /\ threadId' = thread[a]
  /\ thread' = [thread EXCEPT ![a] = 0]
  /\ lock' = NoApp
  /\ UNCHANGED <<cancelEvent, transfer, monitor, allocated, cancelled, reported, aborted, late>>

(* CyAbortEventNotification with the lock: without a monitor it fails. *)
AbortCheck(a) ==
  /\ lock = NoApp
  /\ IF threadId = 0 THEN AppGoes(a, "idle", "idle") /\ UNCHANGED lock
     ELSE AppGoes(a, "idle", "flag") /\ lock' = a
  /\ UNCHANGED <<threadId, cancelEvent, transfer>>
  /\ AppLocal

AbortFlag(a) ==
  /\ AppGoes(a, "flag", "cancel")
  /\ cancelEvent' = TRUE
  /\ UNCHANGED <<lock, threadId, transfer>>
  /\ AppLocal

(* Mutant: the transfer is not cancelled. *)
AbortCancelMutant(a) ==
  /\ AppGoes(a, "cancel", "join")
  /\ late' = {m \in Monitors : monitor[m] = "submit"}
  /\ UNCHANGED <<device, thread, monitor, allocated, cancelled, reported, aborted>>

(* libusb_cancel_transfer has an effect on a submitted transfer only: a     *)
(* monitor that has looked at the flag before it was set, and has not yet  *)
(* submitted, waits for the device none the less.  On a transfer that is   *)
(* freed, and on NULL, its behaviour is undefined; here it does nothing    *)
(* then (see CancelsATransfer).                                            *)
AbortCancel(a) ==
  /\ AppGoes(a, "cancel", "join")
  /\ cancelled' = cancelled \cup
       {m \in Monitors : m = transfer /\ m \in allocated /\ monitor[m] = "wait"}
  /\ late' = {m \in Monitors : monitor[m] = "submit"}
  /\ UNCHANGED <<device, thread, monitor, allocated, reported, aborted>>

(* pthread_join is called with the id as it is now ...                     *)
AbortJoin(a) ==
  /\ AppGoes(a, "join", "joining")
  /\ thread' = [thread EXCEPT ![a] = threadId]
  /\ UNCHANGED <<device, monitor, allocated, cancelled, reported, aborted, late>>

(* Mutants: the thread is not waited for; its id is not cleared. *)
AbortResetMutantWait(a) ==
  /\ AppGoes(a, "joining", "idle")
  /\ threadId' = 0
  /\ cancelEvent' = FALSE
  /\ lock' = NoApp
  /\ thread' = [thread EXCEPT ![a] = 0]
  /\ UNCHANGED <<transfer, monitor, allocated, cancelled, reported, aborted, late>>

AbortResetMutantId(a) ==
  /\ thread[a] # 0 => monitor[thread[a]] = "done"
  /\ AppGoes(a, "joining", "idle")
  /\ cancelEvent' = FALSE
  /\ lock' = NoApp
  /\ thread' = [thread EXCEPT ![a] = 0]
  /\ UNCHANGED <<threadId, transfer, monitor, allocated, cancelled, reported, aborted, late>>

(* ... and returns when that thread has ended; the fields are reset.       *)
(* Joining no thread, 0, is undefined; here it returns (see JoinsAThread). *)
AbortReset(a) ==
  /\ thread[a] # 0 => monitor[thread[a]] = "done"
  /\ AppGoes(a, "joining", "idle")
  /\ threadId' = 0
  /\ cancelEvent' = FALSE
  /\ lock' = NoApp
  /\ thread' = [thread EXCEPT ![a] = 0]
  /\ UNCHANGED <<transfer, monitor, allocated, cancelled, reported, aborted, late>>

-----------------------------------------------------------------------------
(***************************************************************************)
(* The monitor thread, uartSetEventNotifcation or spiSetEventNotifcation.  *)
(***************************************************************************)
MonitorGoes(m, p, q) == monitor[m] = p /\ monitor' = [monitor EXCEPT ![m] = q]

(* callbackFn with what the monitor's variable holds after a failure: the   *)
(* FAILED bit is 0x800, which spiStatus, a uint8_t, cannot hold, but        *)
(* errorStatus, a uint16_t, can.                                            *)
TellFailure(m, width) == reported' = IF width = 16 THEN reported \cup {m} ELSE reported

(* The transfer is allocated and stored in the device; a failure is told   *)
(* to the callback and ends the thread.                                    *)
Start(m) ==
  /\ \/ /\ MonitorGoes(m, "start", "loop")
        /\ transfer' = m
        /\ allocated' = allocated \cup {m}
        /\ UNCHANGED reported
     \/ /\ Faults
        /\ MonitorGoes(m, "start", "done")
        /\ transfer' = 0
        /\ TellFailure(m, 16)
        /\ UNCHANGED allocated
  /\ UNCHANGED <<lock, threadId, cancelEvent, app, thread, cancelled, aborted, late>>

(* Mutant: the loop does not look at the flag. *)
LoopMutant(m) ==
  /\ MonitorGoes(m, "loop", "submit")
  /\ UNCHANGED <<device, app, thread, allocated, cancelled, reported, aborted, late>>

(* The loop's condition. *)
Loop(m) ==
  /\ IF cancelEvent
     THEN MonitorGoes(m, "loop", "free") /\ aborted' = aborted \cup {m}
     ELSE MonitorGoes(m, "loop", "submit") /\ UNCHANGED aborted
  /\ UNCHANGED <<device, app, thread, allocated, cancelled, reported, late>>

(* Mutant: a submission that fails is not told to the callback. *)
SubmitMutant(m) ==
  /\ \/ MonitorGoes(m, "submit", "wait")
     \/ Faults /\ MonitorGoes(m, "submit", "free")
  /\ UNCHANGED <<device, app, thread, allocated, cancelled, reported, aborted, late>>

(* A submission that fails is told to the callback and ends the loop; the  *)
(* thread id stays.                                                        *)
Submit(m) ==
  /\ \/ MonitorGoes(m, "submit", "wait") /\ UNCHANGED reported
     \/ Faults /\ MonitorGoes(m, "submit", "free") /\ TellFailure(m, 16)
  /\ UNCHANGED <<device, app, thread, allocated, cancelled, aborted, late>>

(* An event of the device completes the transfer: the callback is told.    *)
Event(m) ==
  /\ MonitorGoes(m, "wait", "loop")
  /\ cancelled' = cancelled \ {m}
  /\ UNCHANGED <<device, app, thread, allocated, reported, aborted, late>>

(* The transfer ends in any other way: it was cancelled, or it failed.     *)
Ends(m) ==
  /\ m \in cancelled \/ Faults
  /\ MonitorGoes(m, "wait", "failed")
  /\ cancelled' = cancelled \ {m}
  /\ UNCHANGED <<device, app, thread, allocated, reported, aborted, late>>

(* The second look at the flag. *)
Failed(m) ==
  /\ IF cancelEvent
     THEN MonitorGoes(m, "failed", "free") /\ aborted' = aborted \cup {m}
     ELSE MonitorGoes(m, "failed", "forget") /\ UNCHANGED aborted
  /\ UNCHANGED <<device, app, thread, allocated, cancelled, reported, late>>

(* Mutant: the device is left with the id of no thread that is not 0. *)
ForgetMutant(m) ==
  /\ MonitorGoes(m, "forget", "tell")
  /\ threadId' = -1
  /\ UNCHANGED <<lock, cancelEvent, transfer, app, thread, allocated, cancelled,
                 reported, aborted, late>>

(* The monitor gives up: the device forgets it, and then the callback is   *)
(* told, by the UART monitor with errorStatus, by the SPI monitor with     *)
(* spiStatus.                                                              *)
Forget(m) ==
  /\ MonitorGoes(m, "forget", "tell")
  /\ threadId' = 0
  /\ UNCHANGED <<lock, cancelEvent, transfer, app, thread, allocated, cancelled,
                 reported, aborted, late>>

Tell(m) ==
  /\ MonitorGoes(m, "tell", "free")
  /\ TellFailure(m, IF Kind = "UART" THEN 16 ELSE 8)
  /\ UNCHANGED <<device, app, thread, allocated, cancelled, aborted, late>>

(* The transfer is freed and the thread ends; the device keeps the pointer. *)
Free(m) ==
  /\ MonitorGoes(m, "free", "done")
  /\ allocated' = allocated \ {m}
  /\ UNCHANGED <<device, app, thread, cancelled, reported, aborted, late>>

-----------------------------------------------------------------------------
Call(a) == SetCheck(a) \/ AbortCheck(a)

AppStep(a) ==
  \/ SetCreate(a) \/ SetPublish(a)
  \/ AbortFlag(a) \/ AbortCancel(a) \/ AbortJoin(a) \/ AbortReset(a)

MonitorStep(m) ==
  Start(m) \/ Loop(m) \/ Submit(m) \/ Failed(m) \/ Forget(m) \/ Tell(m) \/ Free(m)

Next ==
  \/ \E a \in Apps : Call(a) \/ AppStep(a)
  \/ \E m \in Monitors : MonitorStep(m) \/ Event(m) \/ Ends(m)

Spec == Init /\ [][Next]_vars

(* The scheduler runs every thread that can run, and a transfer that is    *)
(* cancelled ends.  Nothing makes the device send an event.                *)
Fairness ==
  /\ \A a \in Apps : WF_vars(AppStep(a))
  /\ \A m \in Monitors : WF_vars(MonitorStep(m)) /\ WF_vars(m \in cancelled /\ Ends(m))

FairSpec == Spec /\ Fairness

-----------------------------------------------------------------------------
TypeOK ==
  /\ lock \in Apps \cup {NoApp}
  /\ threadId \in Monitors \cup {0}
  /\ cancelEvent \in BOOLEAN
  /\ transfer \in Monitors \cup {0}
  /\ app \in [Apps -> {"idle", "create", "publish", "flag", "cancel", "join", "joining"}]
  /\ thread \in [Apps -> Monitors \cup {0}]
  /\ monitor \in [Monitors -> {"none", "start", "loop", "submit", "wait", "failed",
                               "forget", "tell", "free", "done"}]
  /\ allocated \subseteq Monitors
  /\ cancelled \subseteq Monitors
  /\ reported \subseteq Monitors
  /\ aborted \subseteq Monitors
  /\ late \subseteq Monitors

(* A monitor that watches the device or is about to. *)
Watches(m) == monitor[m] \in {"start", "loop", "submit", "wait", "failed"}

(* While no call is under way, a monitor that watches the device is the    *)
(* one that the device knows: there is one at most, and it can be aborted. *)
WatcherIsKnown == lock = NoApp => \A m \in Monitors : Watches(m) => m = threadId

(* A monitor that ends without being aborted has told the callback so, by  *)
(* the bit that CY_CALLBACK_EVENTS has for it.                             *)
EndIsReported ==
  \A m \in Monitors : monitor[m] = "done" => m \in reported \cup aborted

(* While no call is under way, the monitor that the device knows still     *)
(* runs, or the callback was told of its failure: a registration that is   *)
(* refused with CY_ERROR_STATUS_MONITOR_EXIST finds a callback that is     *)
(* registered, or one that knows it is not.                                *)
KnownMonitorRuns ==
  lock = NoApp /\ threadId # 0 =>
    monitor[threadId] # "done" \/ threadId \in reported

(* An abort cancels a transfer that exists. *)
CancelsATransfer ==
  \A a \in Apps : app[a] = "cancel" => transfer \in allocated

(* An abort joins a thread: the one it saw is not forgotten meanwhile.     *)
JoinsAThread == \A a \in Apps : app[a] = "joining" => thread[a] # 0

(* When an abort returns, no monitor watches the device any more, submits  *)
(* another transfer or changes the id: not the one that the abort saw, nor *)
(* one whose id was stored, or forgotten, while it ran.  What may be left  *)
(* is a monitor that had failed by itself and given up its id before: it   *)
(* still tells the callback so, and frees its transfer.                    *)
AbortSilences ==
  [][\A a \in Apps : app[a] = "joining" /\ app'[a] = "idle" =>
       \A m \in Monitors : monitor[m] \in {"none", "tell", "free", "done"}]_vars

(* An abort returns. *)
AbortReturns == \A a \in Apps : app[a] = "join" ~> app[a] = "idle"

(* A late monitor waits for an event that the device does not send. *)
LateMonitorWaits == \E m \in late : monitor[m] = "wait"

(* Every abort returns, whatever the monitor is doing when it comes, unless *)
(* the monitor had looked at the flag before and submits after the abort   *)
(* has cancelled, and the device sends nothing ever after.                 *)
AbortReturnsUnlessLate ==
  \A a \in Apps : []<>(app[a] \notin {"join", "joining"}) \/ <>[]LateMonitorWaits
=============================================================================

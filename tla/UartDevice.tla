----------------------------- MODULE UartDevice -----------------------------
(***************************************************************************)
(* A device from CyOpen to CyClose, cyusb.cpp, composed of its event       *)
(* monitor (EventNotification) and its lines (UartLines).                  *)
(*                                                                         *)
(* CyOpen sets the lines before it has initialized the fields of the       *)
(* monitor; CyClose clears them, aborts the monitor that the device knows, *)
(* destroys the locks and frees the object that the monitor's thread uses. *)
(* The application calls a function of the device only while it is open,   *)
(* and CyClose when no other call is under way.  The library stays up;     *)
(* CyLibrary has the calls for which it does not.                          *)
(***************************************************************************)
EXTENDS EventNotification, UartLines

CONSTANT
  Duties  (* what the application threads may do: functions from threads   *)
          (* to sets of the fields that a thread sets, of "monitor" if it  *)
          (* starts and aborts the monitor, of "open" if it opens and      *)
          (* closes the device                                             *)

ASSUME DeviceAssumption ==
  /\ Callers = Apps
  /\ Duties \subseteq [Apps -> SUBSET (Fields \cup {"open", "monitor"})]

VARIABLES
  life,   (* what CyOpen or CyClose does next, or "open" or "closed"       *)
  owner,  (* the thread that is in CyOpen or CyClose                       *)
  duty    (* what each thread may do, the same for all of a behaviour      *)

deviceVars == <<vars, lines, life, owner, duty>>

InitDevice ==
  /\ Init
  /\ InitLines
  /\ life = "closed"
  /\ owner = NoApp
  /\ duty \in Duties

(* The place after the first of a sequence of places. *)
Onward(p, q) == life = p /\ life' = q /\ UNCHANGED owner

Quiet(a) == app[a] = "idle" /\ ~Calling(a)

(***************************************************************************)
(* CyOpen, after the interface is claimed.                                 *)
(***************************************************************************)
Open(a) ==
  /\ "open" \in duty[a]
  /\ life = "closed"
  /\ life' = IF Kind = "UART" THEN "set rts" ELSE "fields"
  /\ owner' = a
  /\ Forgotten
  /\ UNCHANGED vars

(* The lines are set one after the other, whether or not it succeeds. *)
OpenLines ==
  /\ \/ Onward("set rts", "set dtr") /\ Begin(owner, "rts", "high")
     \/ Onward("set dtr", "set mode") /\ Begin(owner, "dtr", "high")
     \/ Onward("set mode", "fields") /\ Begin(owner, "mode", Disable)
  /\ UNCHANGED vars

(* The fields of the monitor get their values; initializing one of the     *)
(* locks may fail.                                                         *)
OpenFields ==
  /\ life = "fields"
  /\ ~Calling(owner)
  /\ threadId' = 0
  /\ cancelEvent' = FALSE
  /\ transfer' = 0
  /\ life' \in {"open", "closed"}
  /\ owner' = NoApp
  /\ UNCHANGED <<lock, app, thread, monitor, allocated, cancelled, reported, aborted,
                 late, lines>>

(***************************************************************************)
(* CyClose.                                                                *)
(***************************************************************************)
Close(a) ==
  /\ "open" \in duty[a]
  /\ life = "open"
  /\ \A b \in Apps : Quiet(b)
  /\ life' = IF Kind = "UART" THEN "clear rts" ELSE "abort"
  /\ owner' = a
  /\ UNCHANGED <<vars, lines>>

CloseLines ==
  /\ \/ Onward("clear rts", "clear dtr") /\ Begin(owner, "rts", "low")
     \/ Onward("clear dtr", "clear mode") /\ Begin(owner, "dtr", "low")
     \/ Onward("clear mode", "abort") /\ Begin(owner, "mode", Disable)
  /\ UNCHANGED vars

(* Mutant: CyClose leaves the monitor alone. *)
CloseAbortMutant ==
  /\ Onward("abort", "destroy")
  /\ ~Calling(owner)
  /\ UNCHANGED <<vars, lines>>

(* A monitor that the device knows is aborted; the id is read without the  *)
(* lock.  The result of the abort is ignored.                              *)
CloseAbort ==
  /\ \/ threadId # 0 /\ Onward("abort", "join")
     \/ threadId = 0 /\ Onward("abort", "destroy")
  /\ ~Calling(owner)
  /\ UNCHANGED <<vars, lines>>

CloseJoin ==
  /\ Onward("join", "destroy")
  /\ AbortCheck(owner)
  /\ UNCHANGED lines

(* The locks are destroyed, the device is closed and the object freed.     *)
(* Destroying a lock fails if it is held; none is, since no call is under  *)
(* way.                                                                    *)
CloseFree ==
  /\ life = "destroy"
  /\ app[owner] = "idle"
  /\ life' = "closed"
  /\ owner' = NoApp
  /\ Forgotten
  /\ UNCHANGED vars

(***************************************************************************)
(* The calls of the application, and what goes on by itself.               *)
(***************************************************************************)
AppCalls(a) ==
  /\ life = "open"
  /\ Quiet(a)
  /\ \/ "monitor" \in duty[a] /\ Call(a) /\ UNCHANGED lines
     \/ /\ Kind = "UART"
        /\ \E f \in Fields \cap duty[a] : \E v \in Values(f) : Begin(a, f, v)
        /\ UNCHANGED vars
  /\ UNCHANGED <<life, owner>>

NotificationStep ==
  /\ \/ \E a \in Apps : AppStep(a)
     \/ \E m \in Monitors : MonitorStep(m) \/ Event(m) \/ Ends(m)
  /\ UNCHANGED <<lines, life, owner>>

RequestStep == (\E a \in Apps : LineStep(a)) /\ UNCHANGED <<vars, life, owner>>

NextDevice ==
  /\ UNCHANGED duty
  /\ \/ \E a \in Apps : Open(a) \/ Close(a) \/ AppCalls(a)
     \/ OpenLines \/ OpenFields
     \/ CloseLines \/ CloseAbort \/ CloseJoin \/ CloseFree
     \/ NotificationStep \/ RequestStep

DeviceSpec == InitDevice /\ [][NextDevice]_deviceVars

(* The scheduler runs the thread that is in CyOpen or CyClose, and requests *)
(* return: they have a time-out.                                           *)
OwnerStep == OpenLines \/ OpenFields \/ CloseLines \/ CloseAbort \/ CloseJoin \/ CloseFree

DeviceFairness ==
  /\ Fairness
  /\ WF_life(OwnerStep)
  /\ \A a \in Apps : WF_lines(LineStep(a))

FairDeviceSpec == DeviceSpec /\ DeviceFairness

-----------------------------------------------------------------------------
Opening == {"set rts", "set dtr", "set mode", "fields"}
Closing == {"clear rts", "clear dtr", "clear mode", "abort", "join", "destroy"}

DeviceTypeOK ==
  /\ TypeOK
  /\ TypeOKLines
  /\ life \in {"closed", "open"} \cup Opening \cup Closing
  /\ owner \in Apps \cup {NoApp}

(* A monitor thread that will still read or write the CY_DEVICE, or whose   *)
(* transfer is submitted on the device's handle.                           *)
UsesDevice(m) == Watches(m) \/ monitor[m] = "forget"

(* When CyClose has freed the object, and until CyOpen returns the next    *)
(* one, no monitor thread uses it: neither one that CyClose aborted nor    *)
(* one whose id it did not find.                                           *)
NoUseAfterFree ==
  life = "closed" \/ life \in Opening => \A m \in Monitors : ~UsesDevice(m)

(* CyClose returns, unless the monitor that it aborts was late and the     *)
(* device sends nothing ever after.                                        *)
CloseReturnsUnlessLate == []<>(life \notin Closing) \/ <>[]LateMonitorWaits
=============================================================================

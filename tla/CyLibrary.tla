------------------------------ MODULE CyLibrary -----------------------------
(***************************************************************************)
(* The library's session, cyusb.cpp: threads start and stop the library,   *)
(* rebuild and read the global device list, and open and close devices.    *)
(*                                                                         *)
(* The flag glDriverInit, the list glDeviceList and its length             *)
(* glNumDevices are global.  The mutex criticalSection guards the list,    *)
(* but CyLibraryInit does not take it, and the other calls look at the     *)
(* flag before they do.  Of these only CyOpen and CyLibraryExit look again *)
(* with the mutex held.                                                    *)
(*                                                                         *)
(* The model separates what one call does without the mutex from what it   *)
(* does with it, and the two halves of CyOpen, whose second half talks to  *)
(* the device.  libusb is external: it builds and frees lists, opens and   *)
(* closes devices, and may fail.                                           *)
(***************************************************************************)
EXTENDS DeviceInfoList

CONSTANTS
  Threads,     (* application threads                                      *)
  NoThread,    (* no one: the mutex is free                                *)
  Calls,       (* Calls[t]: the functions thread t may call                *)
  MaxDevices,  (* bound: devices on the bus                                *)
  MaxLists,    (* bound: lists that exist at the same time                 *)
  MaxOpens,    (* bound: CY_DEVICE objects that exist at the same time     *)
  MaxInfos,    (* bound: the longest list CyGetDeviceInfoVidPid is given   *)
  CountSize,   (* 2^8: the values of the uint8_t a list is counted in      *)
  UintSize,    (* 2^32: the values of uint32_t                             *)
  ListErrors   (* error codes of libusb_get_device_list, without the sign  *)

Functions == {"CyLibraryInit", "CyLibraryExit", "CyGetListofDevices",
              "CyGetDeviceInfo", "CyGetDeviceInfoVidPid", "CyOpen", "CyClose"}

ASSUME LibraryAssumption ==
  /\ NoThread \notin Threads
  /\ Calls \in [Threads -> SUBSET Functions]
  /\ MaxDevices \in Nat
  /\ MaxLists \in Nat
  /\ MaxOpens \in Nat
  /\ MaxInfos \in Nat
  /\ CountSize \in Nat \ {0}
  /\ UintSize \in Nat
  /\ CountSize <= UintSize /\ MaxDevices < UintSize
  /\ ListErrors \subseteq 1 .. UintSize

Lists == 1 .. MaxLists
Handles == 1 .. MaxOpens

(* Results: every error but the one for a library that is not initialized  *)
(* is FAILED.                                                              *)
Status == {"SUCCESS", "REQUEST_FAILED", "FAILED"}

VARIABLES
  driverInit,  (* glDriverInit                                             *)
  deviceList,  (* glDeviceList: the list it points to, 0 is NULL           *)
  numDevices,  (* glNumDevices                                             *)
  length,      (* the length of every list                                 *)
  live,        (* the lists that are not freed                             *)
  built,       (* history: libusb built a list the last time it was asked  *)
  mutex,       (* who holds criticalSection                                *)
  fun,         (* the function each thread is in                           *)
  pc,          (* where in it                                              *)
  handle,      (* each thread's CY_HANDLE variable, 0 is NULL              *)
  device,      (* the state of each CY_DEVICE object                       *)
  status,      (* what each thread's last call returned                    *)
  scan         (* the loop of the CyGetDeviceInfoVidPid that has the mutex *)

global == <<driverInit, deviceList, numDevices, length, live, built>>
vars == <<global, mutex, fun, pc, handle, device, status, scan>>

Init ==
  /\ driverInit = FALSE
  /\ deviceList = 0
  /\ numDevices = 0
  /\ length = [l \in Lists |-> 0]
  /\ live = {}
  /\ built = FALSE
  /\ mutex = NoThread
  /\ fun = [t \in Threads |-> "none"]
  /\ pc = [t \in Threads |-> "idle"]
  /\ handle = [t \in Threads |-> 0]
  /\ device = [h \in Handles |-> "free"]
  /\ status = [t \in Threads |-> "SUCCESS"]
  /\ scan = NewScan(0)

-----------------------------------------------------------------------------
(* Thread t goes on at place p of function f. *)
Enter(t, f, p) ==
  /\ f \in Calls[t]
  /\ pc[t] = "idle"
  /\ fun' = [fun EXCEPT ![t] = f]
  /\ pc' = [pc EXCEPT ![t] = p]
  /\ status' = [status EXCEPT ![t] = "SUCCESS"]

(* Thread t's call returns s. *)
Reply(t, s) ==
  /\ fun' = [fun EXCEPT ![t] = "none"]
  /\ pc' = [pc EXCEPT ![t] = "idle"]
  /\ status' = [status EXCEPT ![t] = s]

(* Thread t calls function f, which returns s at once. *)
Refuse(t, f, s) ==
  /\ f \in Calls[t]
  /\ pc[t] = "idle"
  /\ Reply(t, s)

(* libusb_get_device_list returns r: the number of devices in a new list,  *)
(* or an error, which leaves the pointer where it is.  A new list takes     *)
(* the number of one that is neither live nor pointed to any more.         *)
Results == (0 .. MaxDevices) \cup {-e : e \in ListErrors}

GetDeviceList(r) ==
  /\ built' = (r >= 0)
  /\ \/ r < 0 /\ UNCHANGED <<deviceList, length, live>>
     \/ /\ r >= 0
        /\ \E l \in Lists \ (live \cup {deviceList}) :
             /\ length' = [k \in Lists |-> IF k = l THEN r ELSE IF k \in live THEN length[k] ELSE 0]
             /\ deviceList' = l
             /\ live' = live \cup {l}

(***************************************************************************)
(* CyLibraryInit, all of it without the mutex.                             *)
(***************************************************************************)

(* libusb_init comes first and its failure only counts if the library is   *)
(* not initialized; both ways to fail return the same error.               *)
InitCheck(t) ==
  /\ \/ ~driverInit /\ Enter(t, "CyLibraryInit", "build")
     \/ Refuse(t, "CyLibraryInit", "FAILED")
  /\ UNCHANGED <<global, mutex, handle, device, scan>>

(* Mutant: the result is stored as it is. *)
InitBuildMutant(t) ==
  /\ fun[t] = "CyLibraryInit" /\ pc[t] = "build"
  /\ \E r \in Results : GetDeviceList(r) /\ numDevices' = r
  /\ pc' = [pc EXCEPT ![t] = "publish"]
  /\ UNCHANGED <<driverInit, mutex, fun, handle, device, status, scan>>

(* glNumDevices is a uint32_t: an error becomes a huge number, and the test *)
(* for a negative one never succeeds.                                      *)
InitBuild(t) ==
  /\ fun[t] = "CyLibraryInit" /\ pc[t] = "build"
  /\ \E r \in Results : GetDeviceList(r) /\ numDevices' = r % UintSize
  /\ pc' = [pc EXCEPT ![t] = "publish"]
  /\ UNCHANGED <<driverInit, mutex, fun, handle, device, status, scan>>

InitPublish(t) ==
  /\ fun[t] = "CyLibraryInit" /\ pc[t] = "publish"
  /\ driverInit' = TRUE
  /\ Reply(t, "SUCCESS")
  /\ UNCHANGED <<deviceList, numDevices, length, live, built, mutex, handle, device, scan>>

(***************************************************************************)
(* The other functions up to the mutex.                                    *)
(***************************************************************************)
ExitCall(t) ==
  /\ Enter(t, "CyLibraryExit", "lock")
  /\ UNCHANGED <<global, mutex, handle, device, scan>>

(* The first look at glDriverInit.  CyOpen is called with a variable that   *)
(* holds no open device.                                                   *)
ListCall(t) ==
  /\ \E f \in {"CyGetListofDevices", "CyGetDeviceInfo", "CyGetDeviceInfoVidPid", "CyOpen"} :
       /\ f = "CyOpen" => handle[t] = 0
       /\ IF driverInit THEN Enter(t, f, "lock") ELSE Refuse(t, f, "REQUEST_FAILED")
  /\ UNCHANGED <<global, mutex, handle, device, scan>>

(* Mutant: the mutex is taken from whoever holds it. *)
LockMutant(t) ==
  /\ pc[t] = "lock"
  /\ mutex' = t
  /\ pc' = [pc EXCEPT ![t] = "locked"]
  /\ UNCHANGED <<global, fun, handle, device, status, scan>>

Lock(t) ==
  /\ pc[t] = "lock"
  /\ mutex = NoThread
  /\ mutex' = t
  /\ pc' = [pc EXCEPT ![t] = "locked"]
  /\ UNCHANGED <<global, fun, handle, device, status, scan>>

(* The lock guard's destructor, and the call's result. *)
Unlock(t, s) == mutex' = NoThread /\ Reply(t, s)

(***************************************************************************)
(* What the functions do with the mutex held.                              *)
(***************************************************************************)
Holds(t, f) == fun[t] = f /\ pc[t] = "locked"

(* CyLibraryExit frees the list, leaves the pointer, and does not call     *)
(* libusb_exit, so that open devices stay usable.                          *)
ExitBody(t) ==
  /\ Holds(t, "CyLibraryExit")
  /\ \/ /\ driverInit
        /\ live' = live \ {deviceList}
        /\ driverInit' = FALSE
        /\ Unlock(t, "SUCCESS")
     \/ /\ ~driverInit
        /\ Unlock(t, "REQUEST_FAILED")
        /\ UNCHANGED <<driverInit, live>>
  /\ UNCHANGED <<deviceList, numDevices, length, built, handle, device, scan>>

(* Mutant: the old list is not freed. *)
ListFreeMutant(t) ==
  /\ Holds(t, "CyGetListofDevices")
  /\ pc' = [pc EXCEPT ![t] = "rebuild"]
  /\ UNCHANGED <<global, mutex, fun, handle, device, status, scan>>

(* CyGetListofDevices frees the list without a second look at the flag ... *)
ListFree(t) ==
  /\ Holds(t, "CyGetListofDevices")
  /\ live' = live \ {deviceList}
  /\ pc' = [pc EXCEPT ![t] = "rebuild"]
  /\ UNCHANGED <<driverInit, deviceList, numDevices, length, built, mutex, fun, handle,
                 device, status, scan>>

(* ... and builds another one.  The result goes through the caller's        *)
(* uint8_t into glNumDevices, so that a list of 256 devices is counted as  *)
(* empty, an error as a number of devices, and the test for a failure      *)
(* never succeeds either.                                                  *)
ListRebuild(t) ==
  /\ fun[t] = "CyGetListofDevices" /\ pc[t] = "rebuild"
  /\ \E r \in Results : GetDeviceList(r) /\ numDevices' = r % CountSize
  /\ Unlock(t, "SUCCESS")
  /\ UNCHANGED <<driverInit, handle, device, scan>>

(* CyGetDeviceInfo reads one entry of the list without a second look at    *)
(* the flag; any call to libusb on the way may fail.                       *)
InfoBody(t) ==
  /\ Holds(t, "CyGetDeviceInfo")
  /\ \/ numDevices > 0 /\ Unlock(t, "SUCCESS")
     \/ Unlock(t, "FAILED")
  /\ UNCHANGED <<global, handle, device, scan>>

(* CyGetDeviceInfoVidPid goes through all of it, after it has checked that *)
(* the caller's lists have a length.                                       *)
VidPidBody(t) ==
  /\ Holds(t, "CyGetDeviceInfoVidPid")
  /\ \E n \in 1 .. MaxInfos : scan' = NewScan(n)
  /\ pc' = [pc EXCEPT ![t] = "scan"]
  /\ UNCHANGED <<global, mutex, fun, handle, device, status>>

(* One device.  Reading its descriptor, opening it or reading its           *)
(* configuration may fail, which ends the call with the lists as they are; *)
(* the model does not follow the handle that the last of them leaves open. *)
VidPidDevice(t) ==
  /\ pc[t] = "scan"
  /\ scan.next < numDevices
  /\ \/ /\ scan' \in {SkipDevice(scan),
                      IF HasRoom(scan) THEN DescribeDevice(CountDevice(scan))
                      ELSE SkipDevice(CountDevice(scan))}
        /\ UNCHANGED <<mutex, fun, pc, status>>
     \/ /\ Unlock(t, "FAILED")
        /\ scan' = NewScan(0)
  /\ UNCHANGED <<global, handle, device>>

(* It succeeds if at least one device matched. *)
VidPidEnd(t) ==
  /\ pc[t] = "scan"
  /\ scan.next >= numDevices
  /\ Unlock(t, IF scan.count = 0 THEN "FAILED" ELSE "SUCCESS")
  /\ scan' = NewScan(0)
  /\ UNCHANGED <<global, handle, device>>

(* Mutant: CyOpen does not look at the flag again. *)
OpenDeviceMutant(t) ==
  /\ Holds(t, "CyOpen")
  /\ numDevices > 0
  /\ \E h \in Handles :
       /\ device[h] = "free"
       /\ device' = [device EXCEPT ![h] = "selecting"]
       /\ handle' = [handle EXCEPT ![t] = h]
  /\ pc' = [pc EXCEPT ![t] = "select"]
  /\ UNCHANGED <<global, mutex, fun, status, scan>>

(* CyOpen looks again, checks the device number, opens the device,         *)
(* allocates the CY_DEVICE and stores it in the caller's variable.  An     *)
(* allocation that fails leaves the device open in libusb, which the model *)
(* does not follow.                                                        *)
OpenDevice(t) ==
  /\ Holds(t, "CyOpen")
  /\ \/ /\ driverInit
        /\ numDevices > 0
        /\ \E h \in Handles :
             /\ device[h] = "free"
             /\ device' = [device EXCEPT ![h] = "selecting"]
             /\ handle' = [handle EXCEPT ![t] = h]
        /\ pc' = [pc EXCEPT ![t] = "select"]
        /\ UNCHANGED <<mutex, fun, status>>
     \/ /\ Unlock(t, "FAILED")
        /\ UNCHANGED <<device, handle>>
  /\ UNCHANGED <<global, scan>>

(* Mutant: a device whose interface cannot be claimed is not closed. *)
OpenSelectMutant(t) ==
  /\ fun[t] = "CyOpen" /\ pc[t] = "select"
  /\ handle' = [handle EXCEPT ![t] = 0]
  /\ Unlock(t, "FAILED")
  /\ UNCHANGED <<global, device, scan>>

(* CySelectInterface and the rest of CyOpen.  On failure the object is     *)
(* freed and the caller's variable still points to it; a caller that heeds *)
(* the result does not use it, and so the model clears it.                 *)
OpenSelect(t) ==
  /\ fun[t] = "CyOpen" /\ pc[t] = "select"
  /\ \/ /\ device' = [device EXCEPT ![handle[t]] = "open"]
        /\ Unlock(t, "SUCCESS")
        /\ UNCHANGED handle
     \/ /\ device' = [device EXCEPT ![handle[t]] = "free"]
        /\ handle' = [handle EXCEPT ![t] = 0]
        /\ Unlock(t, "FAILED")
  /\ UNCHANGED <<global, scan>>

(***************************************************************************)
(* CyClose takes no lock.  It looks at the flag once; without the library  *)
(* it reports success and leaves the device open, lost to its caller.  The *)
(* locks of the device are free, so that destroying them succeeds.         *)
(***************************************************************************)
CloseCheck(t) ==
  /\ handle[t] # 0
  /\ IF driverInit
     THEN Enter(t, "CyClose", "close") /\ UNCHANGED <<handle, device>>
     ELSE /\ Refuse(t, "CyClose", "SUCCESS")
          /\ handle' = [handle EXCEPT ![t] = 0]
          /\ device' = [device EXCEPT ![handle[t]] = "lost"]
  /\ UNCHANGED <<global, mutex, scan>>

CloseDevice(t) ==
  /\ fun[t] = "CyClose" /\ pc[t] = "close"
  /\ device' = [device EXCEPT ![handle[t]] = "free"]
  /\ handle' = [handle EXCEPT ![t] = 0]
  /\ Reply(t, "SUCCESS")
  /\ UNCHANGED <<global, mutex, scan>>

Next ==
  \E t \in Threads :
    \/ InitCheck(t) \/ InitBuild(t) \/ InitPublish(t)
    \/ ExitCall(t) \/ ListCall(t) \/ Lock(t)
    \/ ExitBody(t) \/ ListFree(t) \/ ListRebuild(t)
    \/ InfoBody(t) \/ VidPidBody(t) \/ VidPidDevice(t) \/ VidPidEnd(t)
    \/ OpenDevice(t) \/ OpenSelect(t)
    \/ CloseCheck(t) \/ CloseDevice(t)

Spec == Init /\ [][Next]_vars

-----------------------------------------------------------------------------
Scans == [length : 0 .. MaxInfos, next : 0 .. UintSize - 1, count : Nat,
          entries : Seq(Nat), matches : Seq(Nat)]

TypeOK ==
  /\ driverInit \in BOOLEAN
  /\ deviceList \in Lists \cup {0}
  /\ numDevices \in 0 .. UintSize - 1
  /\ length \in [Lists -> 0 .. MaxDevices]
  /\ live \subseteq Lists
  /\ built \in BOOLEAN
  /\ mutex \in Threads \cup {NoThread}
  /\ fun \in [Threads -> Functions \cup {"none"}]
  /\ pc \in [Threads -> {"idle", "build", "publish", "lock", "locked",
                         "rebuild", "scan", "select", "close"}]
  /\ handle \in [Threads -> Handles \cup {0}]
  /\ device \in [Handles -> {"free", "selecting", "open", "lost"}]
  /\ status \in [Threads -> Status]
  /\ scan \in Scans

(* Thread t is about to read entries of the list, or to free it. *)
ReadsList(t) ==
  \/ Holds(t, "CyGetDeviceInfo") \/ pc[t] = "scan"
  \/ Holds(t, "CyOpen") /\ driverInit
FreesList(t) ==
  \/ Holds(t, "CyGetListofDevices")
  \/ Holds(t, "CyLibraryExit") /\ driverInit

(* If libusb built it, a thread with the mutex finds the list as it takes  *)
(* it to be: it exists, so that it is neither read after it was freed nor  *)
(* freed twice, and it has the entries that glNumDevices says.             *)
ListUsable ==
  built =>
    \A t \in Threads :
      /\ ReadsList(t) \/ FreesList(t) => deviceList \in live
      /\ ReadsList(t) => numDevices <= length[deviceList]

(* Each list that libusb built is freed: at most the current one exists,   *)
(* and none once the library is down and no thread is starting it.         *)
NoListLeaked ==
  /\ live \subseteq {deviceList}
  /\ ~driverInit /\ (\A t \in Threads : pc[t] # "publish") => live = {}

(* "It retrieves the total number of USB devices present on the bus" and    *)
(* "builds the device list": a CyGetListofDevices that returns success     *)
(* leaves a list that exists, and has counted every device in it.          *)
ListCountsDevices ==
  [][\A t \in Threads :
       fun[t] = "CyGetListofDevices" /\ pc[t] = "rebuild" /\ pc'[t] = "idle"
       /\ status'[t] = "SUCCESS" =>
         deviceList' \in live' /\ numDevices' = length'[deviceList']]_vars

(* While CyGetDeviceInfoVidPid goes through the devices, the entries that   *)
(* its caller has asked for describe the first devices that match, in the  *)
(* order of the list, and no more are missing than do not fit.             *)
InfoListIsRight == Asked(scan, scan.entries) = Asked(scan, scan.matches)

(* "We are making sure that we do not overrun the list."                   *)
NoOverrun == Len(scan.entries) <= scan.length

(* Device information is given out only while the library is initialized.  *)
InfoOnlyWhileUp ==
  [][\A t \in Threads :
       /\ fun[t] \in {"CyGetDeviceInfo", "CyGetDeviceInfoVidPid"}
       /\ pc[t] = "locked" /\ pc'[t] = "idle" /\ status'[t] = "SUCCESS"
       => driverInit]_vars

(* A thread lets go of its handle when CyClose reports success or CyOpen    *)
(* fails: the device is then released.                                     *)
CloseReleases ==
  [][\A t \in Threads : handle[t] # 0 /\ handle'[t] = 0 => device'[handle[t]] = "free"]_vars

(* Every open device has one owner, who can still close it, unless CyClose  *)
(* found the library down.                                                 *)
OneOwner ==
  \A h \in Handles :
    device[h] \in {"selecting", "open"} => \E t \in Threads : {u \in Threads : handle[u] = h} = {t}

(* Whatever the threads do, the library implements the session that its    *)
(* header promises: no device is opened while the library is down, and a   *)
(* device that is open stays so until it is closed.                        *)
Session == INSTANCE CySession WITH
  up <- driverInit, open <- {h \in Handles : device[h] \in {"open", "lost"}}

SessionStep == [][Session!Next]_(Session!vars)

SessionSpec == Session!Init /\ SessionStep
=============================================================================

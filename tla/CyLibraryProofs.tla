--------------------------- MODULE CyLibraryProofs --------------------------
(***************************************************************************)
(* The library implements the session its header promises, for any threads *)
(* that make any calls, whether or not libusb fails to build lists.        *)
(*                                                                         *)
(* The argument is the second look CyOpen takes at glDriverInit.  It is    *)
(* taken with the mutex held, and the mutex stays held until the device is *)
(* open; only CyLibraryExit resets the flag, and it holds the mutex to do  *)
(* so.  A CyLibraryInit that runs at the same time does not matter: it     *)
(* only sets the flag.                                                     *)
(***************************************************************************)
EXTENDS CyLibrary, SequenceTheorems, TLAPS

(* Places with the mutex held. *)
Inside == {"locked", "rebuild", "scan", "select"}

SessionInv ==
  /\ TypeOK
  /\ \A t \in Threads : pc[t] \in Inside => mutex = t
  /\ \A t \in Threads : pc[t] = "select" => driverInit /\ handle[t] # 0
  /\ \A t \in Threads : pc[t] = "close" => handle[t] # 0
  /\ \A t \in Threads : handle[t] # 0 =>
       device[handle[t]] = IF pc[t] = "select" THEN "selecting" ELSE "open"
  /\ \A t, u \in Threads : handle[t] # 0 /\ handle[t] = handle[u] => t = u

(* The greatest value of glNumDevices. *)
MaxCount == UintSize - 1

LEMMA SizeType == UintSize \in Nat \ {0} /\ MaxCount \in Nat /\ CountSize - 1 <= MaxCount
BY LibraryAssumption DEF MaxCount

(* Whatever libusb returns, the list variables keep their types, and the   *)
(* result fits the variable it is stored in.                               *)
LEMMA ListType ==
  ASSUME TypeOK, NEW r \in Results, GetDeviceList(r)
  PROVE  /\ deviceList' \in Lists \cup {0}
         /\ length' \in [Lists -> 0 .. MaxDevices]
         /\ live' \subseteq Lists
         /\ built' \in BOOLEAN
         /\ r % UintSize \in 0 .. MaxCount /\ r % CountSize \in 0 .. MaxCount
<1> USE LibraryAssumption, SizeType
<1>1. r \in Int /\ (r >= 0 => r \in 0 .. MaxDevices)
  BY DEF Results
<1>2. r % UintSize \in 0 .. UintSize - 1 /\ r % CountSize \in 0 .. CountSize - 1
  BY <1>1
<1>3. r % UintSize \in 0 .. MaxCount /\ r % CountSize \in 0 .. MaxCount
  BY <1>2 DEF MaxCount
<1> QED BY <1>1, <1>3 DEF GetDeviceList, TypeOK

(* A scan as the record it is. *)
Fields(s) == [length |-> s.length, next |-> s.next, count |-> s.count,
              entries |-> s.entries, matches |-> s.matches]

LEMMA ScanType ==
  /\ \A n \in 0 .. MaxInfos : NewScan(n) \in Scans
  /\ \A s \in Scans : s.next < MaxCount =>
       {SkipDevice(s), SkipDevice(CountDevice(s)), DescribeDevice(CountDevice(s))} \subseteq Scans
<1> USE LibraryAssumption, SizeType
<1>1. ASSUME NEW n \in 0 .. MaxInfos PROVE NewScan(n) \in Scans
  BY DEF NewScan, Scans, MaxCount
<1>2. ASSUME NEW s \in Scans PROVE CountDevice(s) \in Scans /\ CountDevice(s).next = s.next
  <2>1. s = Fields(s) /\ s.next \in Nat
    BY DEF Fields, Scans, MaxCount
  <2>2. CountDevice(s) = [Fields(s) EXCEPT !.count = s.count + 1, !.matches = Append(s.matches, s.next)]
    BY <2>1 DEF CountDevice
  <2>3. CountDevice(s) = [length |-> s.length, next |-> s.next, count |-> s.count + 1,
                          entries |-> s.entries, matches |-> Append(s.matches, s.next)]
    BY <2>2 DEF Fields
  <2> QED BY <2>1, <2>3, SMT DEF Scans
<1>3. ASSUME NEW s \in Scans, s.next < MaxCount PROVE SkipDevice(s) \in Scans
  <2>1. s = Fields(s) /\ s.next + 1 \in 0 .. MaxCount
    BY <1>3 DEF Fields, Scans, MaxCount
  <2>2. SkipDevice(s) = [Fields(s) EXCEPT !.next = s.next + 1]
    BY <2>1 DEF SkipDevice
  <2> QED BY <2>1, <2>2 DEF Fields, Scans, MaxCount
<1>4. ASSUME NEW s \in Scans, s.next < MaxCount PROVE DescribeDevice(s) \in Scans
  <2>1. s = Fields(s) /\ s.next + 1 \in 0 .. MaxCount /\ s.next \in Nat
    BY <1>4 DEF Fields, Scans, MaxCount
  <2>2. DescribeDevice(s) = [Fields(s) EXCEPT !.entries = Append(s.entries, s.next), !.next = s.next + 1]
    BY <2>1 DEF DescribeDevice
  <2>3. DescribeDevice(s) = [length |-> s.length, next |-> s.next + 1, count |-> s.count,
                             entries |-> Append(s.entries, s.next), matches |-> s.matches]
    BY <2>2 DEF Fields
  <2> QED BY <1>4, <2>1, <2>3 DEF Scans, MaxCount
<1> QED BY <1>1, <1>2, <1>3, <1>4

LEMMA InitInvariant == Init => SessionInv
<1> SUFFICES ASSUME Init PROVE SessionInv
  OBVIOUS
<1>1. 0 \in 0 .. MaxDevices /\ 0 \in 0 .. MaxCount
  BY LibraryAssumption, SizeType
<1>2. NewScan(0) \in Scans
  BY ScanType, LibraryAssumption
<1>3. TypeOK
  BY <1>1, <1>2 DEF Init, TypeOK, Status, MaxCount
<1> QED BY <1>3 DEF Init, SessionInv, Inside

LEMMA StepInvariant == SessionInv /\ [Next]_vars => SessionInv'
<1> USE LibraryAssumption DEF Status, Functions, global
<1> SUFFICES ASSUME SessionInv, [Next]_vars PROVE SessionInv'
  OBVIOUS
<1>0. CASE UNCHANGED vars
  BY <1>0 DEF vars, SessionInv, TypeOK, Inside, MaxCount
<1>a. ASSUME NEW t \in Threads, InitCheck(t) PROVE SessionInv'
  BY <1>a DEF InitCheck, Enter, Refuse, Reply, SessionInv, TypeOK, Inside, MaxCount
<1>b. ASSUME NEW t \in Threads, InitBuild(t) PROVE SessionInv'
  BY <1>b, ListType DEF InitBuild, SessionInv, TypeOK, Inside, MaxCount
<1>c. ASSUME NEW t \in Threads, InitPublish(t) PROVE SessionInv'
  BY <1>c DEF InitPublish, Reply, SessionInv, TypeOK, Inside, MaxCount
<1>d. ASSUME NEW t \in Threads, ExitCall(t) PROVE SessionInv'
  BY <1>d DEF ExitCall, Enter, SessionInv, TypeOK, Inside, MaxCount
<1>e. ASSUME NEW t \in Threads, ListCall(t) PROVE SessionInv'
  <2>1. ~(pc[t] \in Inside) /\ pc[t] = "idle" /\ ~(pc'[t] \in Inside) /\ pc'[t] # "close"
    BY <1>e DEF ListCall, Enter, Refuse, Reply, Inside, SessionInv, TypeOK
  <2>2. TypeOK'
    BY <1>e DEF ListCall, Enter, Refuse, Reply, SessionInv, TypeOK, MaxCount
  <2>3. /\ \A u \in Threads : u # t => pc'[u] = pc[u]
        /\ UNCHANGED <<global, mutex, handle, device>>
    BY <1>e DEF ListCall, Enter, Refuse, Reply, SessionInv, TypeOK
  <2> QED BY <2>1, <2>2, <2>3 DEF SessionInv, Inside
<1>f. ASSUME NEW t \in Threads, Lock(t) PROVE SessionInv'
  BY <1>f DEF Lock, SessionInv, TypeOK, Inside, MaxCount
<1>g. ASSUME NEW t \in Threads, ExitBody(t) PROVE SessionInv'
  <2>1. mutex = t /\ \A u \in Threads : pc[u] \in Inside => u = t
    BY <1>g DEF ExitBody, Holds, SessionInv, Inside
  <2>2. /\ \A u \in Threads : pc'[u] = IF u = t THEN "idle" ELSE pc[u]
        /\ UNCHANGED <<deviceList, numDevices, length, handle, device>>
        /\ pc[t] = "locked"
    BY <1>g DEF ExitBody, Holds, Unlock, Reply, SessionInv, TypeOK
  <2>3. TypeOK'
    <3>1. driverInit' \in BOOLEAN /\ live' \subseteq Lists
      BY <1>g DEF ExitBody, SessionInv, TypeOK
    <3>2. /\ fun' \in [Threads -> Functions \cup {"none"}]
          /\ status' \in [Threads -> Status]
          /\ mutex' = NoThread
      BY <1>g DEF ExitBody, Unlock, Reply, SessionInv, TypeOK
    <3>3. pc' = [pc EXCEPT ![t] = "idle"]
      BY <1>g DEF ExitBody, Unlock, Reply
    <3> QED BY <1>g, <2>2, <3>1, <3>2, <3>3 DEF ExitBody, SessionInv, TypeOK, MaxCount, Scans
  <2> QED BY <2>1, <2>2, <2>3 DEF SessionInv, Inside
<1>h. ASSUME NEW t \in Threads, ListFree(t) PROVE SessionInv'
  BY <1>h DEF ListFree, Holds, SessionInv, TypeOK, Inside, MaxCount
<1>i. ASSUME NEW t \in Threads, ListRebuild(t) PROVE SessionInv'
  <2>1. mutex = t /\ \A u \in Threads : pc[u] \in Inside => u = t
    BY <1>i DEF ListRebuild, SessionInv, Inside
  <2>2. /\ \A u \in Threads : pc'[u] = IF u = t THEN "idle" ELSE pc[u]
        /\ UNCHANGED <<driverInit, handle, device>>
        /\ pc[t] = "rebuild"
    BY <1>i DEF ListRebuild, Unlock, Reply, SessionInv, TypeOK
  <2>3. TypeOK'
    BY <1>i, ListType DEF ListRebuild, Unlock, Reply, SessionInv, TypeOK, MaxCount
  <2> QED BY <2>1, <2>2, <2>3 DEF SessionInv, Inside
<1>j. ASSUME NEW t \in Threads, InfoBody(t) PROVE SessionInv'
  <2>1. mutex = t /\ \A u \in Threads : pc[u] \in Inside => u = t
    BY <1>j DEF InfoBody, Holds, SessionInv, Inside
  <2>2. /\ \A u \in Threads : pc'[u] = IF u = t THEN "idle" ELSE pc[u]
        /\ UNCHANGED <<driverInit, handle, device>>
        /\ pc[t] = "locked"
    BY <1>j DEF InfoBody, Holds, Unlock, Reply, SessionInv, TypeOK
  <2>3. TypeOK'
    <3>1. Unlock(t, "SUCCESS") \/ Unlock(t, "FAILED")
      BY <1>j DEF InfoBody
    <3>2. UNCHANGED <<global, handle, device, scan>>
      BY <1>j DEF InfoBody
    <3> QED BY <3>1, <3>2 DEF Unlock, Reply, SessionInv, TypeOK, MaxCount
  <2> QED BY <2>1, <2>2, <2>3 DEF SessionInv, Inside
<1>o. ASSUME NEW t \in Threads, VidPidBody(t) PROVE SessionInv'
  <2>1. scan' \in Scans
    BY <1>o, ScanType DEF VidPidBody
  <2>2. TypeOK'
    BY <1>o, <2>1 DEF VidPidBody, SessionInv, TypeOK, MaxCount, Scans
  <2> QED BY <1>o, <2>2 DEF VidPidBody, Holds, SessionInv, TypeOK, Inside
<1>p. ASSUME NEW t \in Threads, VidPidDevice(t) \/ VidPidEnd(t) PROVE SessionInv'
  <2>1. pc[t] = "scan" /\ mutex = t /\ \A u \in Threads : pc[u] \in Inside => u = t
    BY <1>p DEF VidPidDevice, VidPidEnd, SessionInv, Inside
  <2>2. scan' \in Scans
    <3>1. scan.next < MaxCount => {SkipDevice(scan), SkipDevice(CountDevice(scan)),
                                  DescribeDevice(CountDevice(scan))} \subseteq Scans
      BY ScanType DEF SessionInv, TypeOK
    <3>2. NewScan(0) \in Scans
      BY ScanType
    <3>3. numDevices \in 0 .. MaxCount /\ scan.next \in 0 .. MaxCount /\ MaxCount \in Nat
      BY DEF SessionInv, TypeOK, MaxCount, Scans
    <3> QED BY <1>p, <3>1, <3>2, <3>3 DEF VidPidDevice, VidPidEnd
  <2>3. /\ UNCHANGED <<global, handle, device>>
        /\ \/ UNCHANGED <<mutex, fun, pc, status>>
           \/ Unlock(t, "FAILED")
           \/ Unlock(t, "SUCCESS")
    BY <1>p DEF VidPidDevice, VidPidEnd
  <2>4. TypeOK'
    BY <2>2, <2>3 DEF Unlock, Reply, SessionInv, TypeOK, MaxCount
  <2>5. (UNCHANGED pc /\ UNCHANGED mutex) \/ \A u \in Threads : pc'[u] = IF u = t THEN "idle" ELSE pc[u]
    BY <2>3 DEF Unlock, Reply, SessionInv, TypeOK
  <2> QED BY <2>1, <2>3, <2>4, <2>5 DEF SessionInv, Inside
<1>k. ASSUME NEW t \in Threads, OpenDevice(t) PROVE SessionInv'
  <2>1. pc[t] = "locked" /\ mutex = t /\ \A u \in Threads : pc[u] \in Inside => u = t
    BY <1>k DEF OpenDevice, Holds, SessionInv, Inside
  <2>2. TypeOK'
    <3>1. CASE Unlock(t, "FAILED") /\ UNCHANGED <<global, device, handle>>
      BY <1>k, <3>1 DEF OpenDevice, Unlock, Reply, SessionInv, TypeOK, MaxCount
    <3>2. CASE \E h \in Handles :
                 /\ device' = [device EXCEPT ![h] = "selecting"]
                 /\ handle' = [handle EXCEPT ![t] = h]
                 /\ pc' = [pc EXCEPT ![t] = "select"]
                 /\ UNCHANGED <<global, mutex, fun, status>>
      BY <1>k, <3>2 DEF OpenDevice, SessionInv, TypeOK, MaxCount
    <3> QED BY <1>k, <3>1, <3>2 DEF OpenDevice
  <2>3. CASE pc'[t] = "idle"
    <3>1. /\ \A u \in Threads : pc'[u] = IF u = t THEN "idle" ELSE pc[u]
          /\ UNCHANGED <<driverInit, handle, device>>
      BY <1>k, <2>3 DEF OpenDevice, Unlock, Reply, SessionInv, TypeOK
    <3> QED BY <2>1, <2>2, <3>1 DEF SessionInv, Inside
  <2>4. CASE pc'[t] # "idle"
    <3>1. PICK h \in Handles :
            /\ device[h] = "free"
            /\ device' = [device EXCEPT ![h] = "selecting"]
            /\ handle' = [handle EXCEPT ![t] = h]
            /\ driverInit /\ UNCHANGED <<global, mutex>>
            /\ pc' = [pc EXCEPT ![t] = "select"]
      BY <1>k, <2>4 DEF OpenDevice, Unlock, Reply, SessionInv, TypeOK
    <3>0. h # 0
      BY DEF Handles
    <3>2. ASSUME NEW u \in Threads, handle[u] = h PROVE FALSE
      <4>1. device[h] = "selecting" \/ device[h] = "open"
        BY <3>0, <3>2 DEF SessionInv
      <4> QED BY <3>1, <4>1
    <3> QED BY <2>1, <2>2, <3>0, <3>1, <3>2 DEF SessionInv, Inside, TypeOK
  <2> QED BY <2>3, <2>4
<1>l. ASSUME NEW t \in Threads, OpenSelect(t) PROVE SessionInv'
  <2>1. /\ pc[t] = "select" /\ mutex = t /\ \A u \in Threads : pc[u] \in Inside => u = t
        /\ handle[t] # 0 /\ \A u \in Threads : u # t => handle[u] # handle[t]
    BY <1>l DEF OpenSelect, SessionInv, Inside
  <2>2. /\ \A u \in Threads : pc'[u] = IF u = t THEN "idle" ELSE pc[u]
        /\ UNCHANGED driverInit
    BY <1>l DEF OpenSelect, Unlock, Reply, SessionInv, TypeOK
  <2>3. TypeOK'
    BY <1>l, <2>1 DEF OpenSelect, Unlock, Reply, SessionInv, TypeOK, MaxCount
  <2>4. \/ handle' = handle /\ device' = [device EXCEPT ![handle[t]] = "open"]
        \/ handle' = [handle EXCEPT ![t] = 0] /\ device' = [device EXCEPT ![handle[t]] = "free"]
    BY <1>l DEF OpenSelect
  <2> QED BY <2>1, <2>2, <2>3, <2>4 DEF SessionInv, Inside, TypeOK
<1>m. ASSUME NEW t \in Threads, CloseCheck(t) PROVE SessionInv'
  <2>1. TypeOK'
    BY <1>m DEF CloseCheck, Enter, Refuse, Reply, SessionInv, TypeOK, MaxCount
  <2>2. /\ pc[t] = "idle" /\ handle[t] # 0
        /\ \A u \in Threads : u # t => pc'[u] = pc[u] /\ handle[u] # handle[t]
        /\ UNCHANGED <<driverInit, mutex>>
        /\ \/ pc'[t] = "close" /\ UNCHANGED <<handle, device>>
           \/ /\ pc'[t] = "idle" /\ handle' = [handle EXCEPT ![t] = 0]
              /\ device' = [device EXCEPT ![handle[t]] = "lost"]
    BY <1>m DEF CloseCheck, Enter, Refuse, Reply, SessionInv, TypeOK
  <2> QED BY <2>1, <2>2 DEF SessionInv, Inside, TypeOK
<1>n. ASSUME NEW t \in Threads, CloseDevice(t) PROVE SessionInv'
  <2>1. pc[t] = "close" /\ handle[t] # 0 /\ \A u \in Threads : u # t => handle[u] # handle[t]
    BY <1>n DEF CloseDevice, SessionInv
  <2>2. TypeOK'
    BY <1>n, <2>1 DEF CloseDevice, Reply, SessionInv, TypeOK, MaxCount
  <2>3. /\ \A u \in Threads : pc'[u] = IF u = t THEN "idle" ELSE pc[u]
        /\ UNCHANGED <<driverInit, mutex>>
        /\ handle' = [handle EXCEPT ![t] = 0]
        /\ device' = [device EXCEPT ![handle[t]] = "free"]
    BY <1>n DEF CloseDevice, Reply, SessionInv, TypeOK
  <2> QED BY <2>1, <2>2, <2>3 DEF SessionInv, Inside, TypeOK
<1> QED
  BY <1>0, <1>a, <1>b, <1>c, <1>d, <1>e, <1>f, <1>g, <1>h, <1>i, <1>j, <1>k, <1>l,
     <1>m, <1>n, <1>o, <1>p DEF Next

LEMMA SessionInvariant == Spec => []SessionInv
BY InitInvariant, StepInvariant, PTL DEF Spec

(* The state of the library is well typed for any threads and any calls.   *)
THEOREM LibraryTypeCorrect == Spec => []TypeOK
<1>1. SessionInv => TypeOK
  BY DEF SessionInv
<1> QED BY <1>1, SessionInvariant, PTL

-----------------------------------------------------------------------------
IsOpen(h) == device[h] \in {"open", "lost"}
OpenDevices == {h \in Handles : IsOpen(h)}

(* Every step of the library is one of the abstract session, or none. *)
LEMMA StepRefines == SessionInv /\ [Next]_vars => [Session!Next]_(Session!vars)
<1> USE DEF Session!Next, Session!vars, Session!Start, Session!Stop, global
<1> SUFFICES ASSUME SessionInv, [Next]_vars PROVE [Session!Next]_(Session!vars)
  OBVIOUS
<1>1. ASSUME UNCHANGED <<driverInit, device>> PROVE UNCHANGED Session!vars
  BY <1>1
<1>2. CASE UNCHANGED vars
  BY <1>1, <1>2 DEF vars
<1>3. ASSUME NEW t \in Threads, InitPublish(t) PROVE Session!Next
  BY <1>3 DEF InitPublish
<1>4. ASSUME NEW t \in Threads, ExitBody(t) PROVE [Session!Next]_(Session!vars)
  BY <1>4 DEF ExitBody
<1>5. ASSUME NEW t \in Threads, OpenDevice(t) PROVE UNCHANGED Session!vars
  <2>1. ASSUME NEW h \in Handles, device[h] = "free", driverInit' = driverInit,
               device' = [device EXCEPT ![h] = "selecting"]
        PROVE  UNCHANGED Session!vars
    <3>1. \A g \in Handles : device'[g] \in {"open", "lost"} <=> device[g] \in {"open", "lost"}
      BY <2>1 DEF SessionInv, TypeOK
    <3> QED BY <2>1, <3>1
  <2> QED BY <1>1, <1>5, <2>1 DEF OpenDevice
<1>6. ASSUME NEW t \in Threads, OpenSelect(t) PROVE [Session!Next]_(Session!vars)
  <2>1. PICK h \in Handles : /\ h = handle[t] /\ device[h] = "selecting"
                            /\ driverInit /\ driverInit' = driverInit
    BY <1>6 DEF OpenSelect, SessionInv, TypeOK
  <2>2. CASE device' = [device EXCEPT ![h] = "open"]
    <3>1. \A g \in Handles : device'[g] \in {"open", "lost"} <=> g = h \/ device[g] \in {"open", "lost"}
      BY <2>1, <2>2 DEF SessionInv, TypeOK
    <3>2. OpenDevices' = OpenDevices \cup {h} /\ h \notin OpenDevices
      BY <2>1, <3>1 DEF OpenDevices, IsOpen
    <3>3. Session!OpenDevice(h)
      BY <2>1, <3>2 DEF Session!OpenDevice, OpenDevices, IsOpen
    <3> QED BY <2>1, <3>3
  <2>3. CASE device' = [device EXCEPT ![h] = "free"]
    <3>1. \A g \in Handles : device'[g] \in {"open", "lost"} <=> device[g] \in {"open", "lost"}
      BY <2>1, <2>3 DEF SessionInv, TypeOK
    <3> QED BY <2>1, <3>1
  <2> QED BY <1>6, <2>1, <2>2, <2>3 DEF OpenSelect
<1>7. ASSUME NEW t \in Threads, CloseDevice(t) PROVE Session!Next
  <2>1. PICK h \in Handles : /\ h = handle[t] /\ device[h] = "open"
                            /\ driverInit' = driverInit
    BY <1>7 DEF CloseDevice, SessionInv, TypeOK
  <2>2. \A g \in Handles : device'[g] \in {"open", "lost"} <=> g # h /\ device[g] \in {"open", "lost"}
    BY <1>7, <2>1 DEF CloseDevice, SessionInv, TypeOK
  <2>3. OpenDevices' = OpenDevices \ {h} /\ h \in OpenDevices
    BY <2>1, <2>2 DEF OpenDevices, IsOpen
  <2>4. Session!CloseDevice(h)
    BY <2>1, <2>3 DEF Session!CloseDevice, OpenDevices, IsOpen
  <2> QED BY <2>1, <2>4
<1>8. ASSUME NEW t \in Threads,
             \/ InitCheck(t) \/ InitBuild(t) \/ ExitCall(t) \/ ListCall(t) \/ Lock(t)
             \/ ListFree(t) \/ ListRebuild(t) \/ InfoBody(t) \/ VidPidBody(t)
             \/ VidPidDevice(t) \/ VidPidEnd(t)
      PROVE  UNCHANGED <<driverInit, device>>
  BY <1>8 DEF InitCheck, InitBuild, ExitCall, ListCall, Lock, ListFree, ListRebuild,
     InfoBody, VidPidBody, VidPidDevice, VidPidEnd
<1>9. ASSUME NEW t \in Threads, CloseCheck(t) PROVE UNCHANGED Session!vars
  <2>1. CASE device' = [device EXCEPT ![handle[t]] = "lost"]
    <3>1. PICK h \in Handles : /\ h = handle[t] /\ device[h] = "open"
                              /\ driverInit' = driverInit
      BY <1>9 DEF CloseCheck, Enter, Refuse, SessionInv, TypeOK
    <3>2. \A g \in Handles : device'[g] \in {"open", "lost"} <=> device[g] \in {"open", "lost"}
      BY <2>1, <3>1 DEF SessionInv, TypeOK
    <3> QED BY <3>1, <3>2
  <2>2. CASE UNCHANGED device
    BY <1>1, <1>9, <2>2 DEF CloseCheck
  <2> QED BY <1>9, <2>1, <2>2 DEF CloseCheck
<1> QED BY <1>1, <1>2, <1>3, <1>4, <1>5, <1>6, <1>7, <1>8, <1>9 DEF Next

(* A device is opened only while the library is up, whatever threads start *)
(* and stop it meanwhile, and what is opened stays open until it is        *)
(* closed: the second look that CyOpen takes with the mutex held.          *)
THEOREM LibraryImplementsSession == Spec => SessionSpec
<1>1. Init => Session!Init
  BY DEF Init, Session!Init
<1> QED
  BY <1>1, StepRefines, SessionInvariant, PTL DEF Spec, SessionSpec, SessionStep

-----------------------------------------------------------------------------
(* CyOpen is called with an empty variable, and each device that is open   *)
(* or being opened is in somebody's variable.                              *)
Unowned(t) == fun[t] = "CyOpen" /\ pc[t] \in {"lock", "locked"} => handle[t] = 0
Owned(h) == device[h] \in {"selecting", "open"} => \E t \in Threads : handle[t] = h
OwnerInv == (\A t \in Threads : Unowned(t)) /\ (\A h \in Handles : Owned(h))

LEMMA StepOwner == SessionInv /\ OwnerInv /\ [Next]_vars => OwnerInv'
<1> USE DEF global, Unowned, Owned
<1> SUFFICES ASSUME SessionInv, OwnerInv, [Next]_vars PROVE OwnerInv'
  OBVIOUS
<1>1. ASSUME NEW t \in Threads, OpenDevice(t) PROVE OwnerInv'
  <2>1. ASSUME NEW h \in Handles, device[h] = "free", UNCHANGED fun, pc' = [pc EXCEPT ![t] = "select"],
               device' = [device EXCEPT ![h] = "selecting"], handle' = [handle EXCEPT ![t] = h]
        PROVE  OwnerInv'
    <3>1. handle[t] = 0
      BY <1>1 DEF OpenDevice, Holds, OwnerInv
    <3> QED BY <2>1, <3>1 DEF OwnerInv, SessionInv, TypeOK, Handles
  <2>2. CASE Unlock(t, "FAILED") /\ UNCHANGED <<device, handle>>
    BY <2>2 DEF Unlock, Reply, OwnerInv, SessionInv, TypeOK
  <2> QED BY <1>1, <2>1, <2>2 DEF OpenDevice
<1>2. ASSUME NEW t \in Threads, OpenSelect(t) PROVE OwnerInv'
  <2>1. handle[t] \in Handles
    BY <1>2 DEF OpenSelect, SessionInv, TypeOK
  <2> QED BY <1>2, <2>1 DEF OpenSelect, Unlock, Reply, OwnerInv, SessionInv, TypeOK
<1>3. ASSUME NEW t \in Threads, CloseCheck(t) \/ CloseDevice(t) PROVE OwnerInv'
  <2>1. handle[t] \in Handles
    BY <1>3 DEF CloseCheck, CloseDevice, SessionInv, TypeOK
  <2> QED BY <1>3, <2>1 DEF CloseCheck, CloseDevice, Enter, Refuse, Reply, OwnerInv, SessionInv, TypeOK
<1>4. ASSUME NEW t \in Threads, ListCall(t) PROVE OwnerInv'
  BY <1>4 DEF ListCall, Enter, Refuse, Reply, OwnerInv, SessionInv, TypeOK
<1>5. ASSUME UNCHANGED <<handle, device>>,
             \/ UNCHANGED <<fun, pc>>
             \/ \E t \in Threads : /\ \A u \in Threads \ {t} : fun'[u] = fun[u] /\ pc'[u] = pc[u]
                                  /\ \/ fun'[t] \notin {"CyOpen"}
                                     \/ pc'[t] \notin {"lock", "locked"}
                                     \/ fun'[t] = fun[t] /\ pc[t] = "lock"
      PROVE  OwnerInv'
  BY <1>5 DEF OwnerInv
<1>6. ASSUME NEW t \in Threads,
             \/ InitCheck(t) \/ InitBuild(t) \/ InitPublish(t) \/ ExitCall(t)
             \/ Lock(t) \/ ExitBody(t) \/ ListFree(t) \/ ListRebuild(t) \/ InfoBody(t)
             \/ VidPidBody(t) \/ VidPidDevice(t) \/ VidPidEnd(t)
      PROVE  OwnerInv'
  <2>1. UNCHANGED <<handle, device>>
    BY <1>6 DEF InitCheck, InitBuild, InitPublish, ExitCall, Lock, ExitBody, ListFree,
       ListRebuild, InfoBody, VidPidBody, VidPidDevice, VidPidEnd
  <2>2. CASE InitCheck(t) \/ ExitCall(t)
    BY <1>5, <2>1, <2>2 DEF InitCheck, ExitCall, Enter, Refuse, Reply, SessionInv, TypeOK
  <2>3. CASE InitBuild(t) \/ Lock(t) \/ ListFree(t) \/ VidPidBody(t)
    BY <1>5, <2>1, <2>3 DEF InitBuild, Lock, ListFree, VidPidBody, SessionInv, TypeOK
  <2>4. CASE UNCHANGED <<fun, pc>> \/ \E s \in Status : Reply(t, s)
    BY <1>5, <2>1, <2>4 DEF Reply, SessionInv, TypeOK
  <2>5. CASE InitPublish(t) \/ ExitBody(t) \/ ListRebuild(t) \/ InfoBody(t) \/ VidPidDevice(t) \/ VidPidEnd(t)
    BY <2>4, <2>5 DEF InitPublish, ExitBody, ListRebuild, InfoBody, VidPidDevice, VidPidEnd,
       Unlock, Status
  <2> QED BY <1>6, <2>2, <2>3, <2>5
<1> QED BY <1>1, <1>2, <1>3, <1>4, <1>5, <1>6 DEF Next, vars

LEMMA OwnerInvariant == Spec => []OwnerInv
<1>1. Init => OwnerInv
  BY DEF Init, OwnerInv, Unowned, Owned
<1> QED BY <1>1, StepOwner, SessionInvariant, PTL DEF Spec

(* Every device that a thread has opened, or is about to, belongs to that   *)
(* one thread, which can close it; a CyOpen that fails leaves none behind. *)
THEOREM DevicesHaveOneOwner == Spec => []OneOwner
<1>1. SessionInv /\ OwnerInv => OneOwner
  <2> SUFFICES ASSUME SessionInv, OwnerInv, NEW h \in Handles, device[h] \in {"selecting", "open"}
               PROVE  \E t \in Threads : {u \in Threads : handle[u] = h} = {t}
    BY DEF OneOwner
  <2>1. PICK t \in Threads : handle[t] = h
    BY DEF OwnerInv, Owned
  <2>2. \A u \in Threads : handle[u] = h => u = t
    BY <2>1 DEF SessionInv, Handles
  <2> QED BY <2>1, <2>2
<1> QED BY <1>1, SessionInvariant, OwnerInvariant, PTL

-----------------------------------------------------------------------------
(* The entries of a scan are the first of its matches, and none is missing *)
(* before the list of the caller is full.                                  *)
InOrder(s) ==
  /\ Len(s.entries) <= Len(s.matches)
  /\ \A i \in 1 .. Len(s.entries) : s.entries[i] = s.matches[i]
  /\ Len(s.entries) > s.length \/ Len(s.entries) = Len(s.matches)

(* A device that matches: counted, and described if there is room. *)
Matched(s) == IF HasRoom(s) THEN DescribeDevice(CountDevice(s)) ELSE SkipDevice(CountDevice(s))

LEMMA ScanFields ==
  ASSUME NEW s \in Scans
  PROVE  /\ SkipDevice(s).length = s.length
         /\ SkipDevice(s).entries = s.entries /\ SkipDevice(s).matches = s.matches
         /\ Matched(s).length = s.length
         /\ Matched(s).matches = Append(s.matches, s.next)
         /\ Matched(s).entries = IF HasRoom(s) THEN Append(s.entries, s.next) ELSE s.entries
<1>1. s = Fields(s)
  BY DEF Fields, Scans, MaxCount
<1>2. SkipDevice(s) = [Fields(s) EXCEPT !.next = s.next + 1]
  BY <1>1 DEF SkipDevice
<1>3. CountDevice(s) = [length |-> s.length, next |-> s.next, count |-> s.count + 1,
                        entries |-> s.entries, matches |-> Append(s.matches, s.next)]
  <2>1. CountDevice(s) = [Fields(s) EXCEPT !.count = s.count + 1, !.matches = Append(s.matches, s.next)]
    BY <1>1 DEF CountDevice
  <2> QED BY <2>1 DEF Fields
<1>4. /\ SkipDevice(CountDevice(s)).length = s.length
      /\ SkipDevice(CountDevice(s)).entries = s.entries
      /\ SkipDevice(CountDevice(s)).matches = Append(s.matches, s.next)
  BY <1>3 DEF SkipDevice
<1>5. /\ DescribeDevice(CountDevice(s)).length = s.length
      /\ DescribeDevice(CountDevice(s)).entries = Append(s.entries, s.next)
      /\ DescribeDevice(CountDevice(s)).matches = Append(s.matches, s.next)
  BY <1>3 DEF DescribeDevice
<1>6. /\ SkipDevice(s).length = s.length
      /\ SkipDevice(s).entries = s.entries /\ SkipDevice(s).matches = s.matches
  BY <1>2 DEF Fields
<1> QED BY <1>4, <1>5, <1>6 DEF Matched

LEMMA ScanKeepsOrder ==
  ASSUME NEW s \in Scans, InOrder(s)
  PROVE  InOrder(SkipDevice(s)) /\ InOrder(Matched(s))
<1>1. InOrder(SkipDevice(s))
  BY ScanFields DEF InOrder
<1>2. s.entries \in Seq(Nat) /\ s.matches \in Seq(Nat) /\ s.next \in Nat /\ s.length \in Nat
  BY LibraryAssumption DEF Scans
<1>3. /\ Len(Append(s.matches, s.next)) = Len(s.matches) + 1
      /\ \A i \in 1 .. Len(s.matches) : Append(s.matches, s.next)[i] = s.matches[i]
      /\ Append(s.matches, s.next)[Len(s.matches) + 1] = s.next
      /\ Len(s.matches) \in Nat
  BY <1>2, AppendProperties
<1>4. /\ Len(Append(s.entries, s.next)) = Len(s.entries) + 1
      /\ \A i \in 1 .. Len(s.entries) : Append(s.entries, s.next)[i] = s.entries[i]
      /\ Append(s.entries, s.next)[Len(s.entries) + 1] = s.next
      /\ Len(s.entries) \in Nat
  BY <1>2, AppendProperties
<1>5. CASE HasRoom(s)
  <2>1. Len(s.entries) = Len(s.matches)
    BY <1>2, <1>4, <1>5 DEF HasRoom, InOrder
  <2>2. \A i \in 1 .. Len(s.entries) + 1 :
          Append(s.entries, s.next)[i] = Append(s.matches, s.next)[i]
    <3> SUFFICES ASSUME NEW i \in 1 .. Len(s.entries) + 1
                 PROVE  Append(s.entries, s.next)[i] = Append(s.matches, s.next)[i]
      OBVIOUS
    <3>1. CASE i \in 1 .. Len(s.entries)
      BY <1>3, <1>4, <2>1, <3>1 DEF InOrder
    <3>2. CASE i = Len(s.entries) + 1
      BY <1>3, <1>4, <2>1, <3>2
    <3>3. Len(s.entries) \in Nat
      BY <1>4
    <3>4. i \in 1 .. Len(s.entries) \/ i = Len(s.entries) + 1
      BY <3>3
    <3> QED BY <3>1, <3>2, <3>4
  <2>3. Matched(s).entries = Append(s.entries, s.next) /\ Matched(s).matches = Append(s.matches, s.next)
    BY <1>5, ScanFields
  <2>4. Len(Matched(s).entries) = Len(s.entries) + 1 /\ Len(Matched(s).matches) = Len(s.entries) + 1
    BY <1>3, <1>4, <2>1, <2>3
  <2>5. \A i \in 1 .. Len(Matched(s).entries) : Matched(s).entries[i] = Matched(s).matches[i]
    BY <2>2, <2>3, <2>4
  <2>6. Len(Matched(s).entries) <= Len(Matched(s).matches)
    BY <1>4, <2>4
  <2>7. Len(Matched(s).entries) = Len(Matched(s).matches)
    BY <2>4
  <2>8. InOrder(Matched(s))
    BY <2>5, <2>6, <2>7, Zenon DEF InOrder
  <2> QED BY <1>1, <2>8
<1>6. CASE ~HasRoom(s)
  <2>1. Len(s.entries) > s.length
    BY <1>2, <1>4, <1>6 DEF HasRoom
  <2>2. \A i \in 1 .. Len(s.entries) : s.entries[i] = Append(s.matches, s.next)[i]
    BY <1>3, <1>4 DEF InOrder
  <2>3. Len(s.entries) <= Len(s.matches) + 1
    BY <1>3, <1>4 DEF InOrder
  <2> QED BY <1>3, <1>6, <2>1, <2>2, <2>3, ScanFields DEF InOrder
<1> QED BY <1>1, <1>5, <1>6

LEMMA InOrderIsRight ==
  ASSUME NEW s \in Scans, InOrder(s)
  PROVE  Asked(s, s.entries) = Asked(s, s.matches)
<1>1. s.entries \in Seq(Nat) /\ s.matches \in Seq(Nat) /\ s.length \in Nat
  BY LibraryAssumption DEF Scans
<1>2. CASE Len(s.entries) = Len(s.matches)
  <2>1. s.entries = s.matches
    BY <1>1, <1>2, SeqEqual DEF InOrder
  <2> QED BY <2>1
<1>3. CASE Len(s.entries) > s.length
  <2>1. Asked(s, s.entries) = SubSeq(s.entries, 1, s.length)
    BY <1>1, <1>3 DEF Asked
  <2>2. Asked(s, s.matches) = SubSeq(s.matches, 1, s.length)
    BY <1>1, <1>3 DEF Asked, InOrder
  <2>3. \A i \in 1 .. s.length : s.entries[i] = s.matches[i]
    BY <1>1, <1>3 DEF InOrder
  <2> QED BY <1>1, <1>3, <2>1, <2>2, <2>3 DEF InOrder
<1> QED BY <1>2, <1>3 DEF InOrder

(* Whatever devices match, wherever the scan stops, and however long the   *)
(* lists of the caller are: the entries asked for are the first matches.   *)
THEOREM InfoListDescribesMatches == Spec => []InfoListIsRight
<1>1. \A n \in Nat : InOrder(NewScan(n))
  BY DEF InOrder, NewScan
<1>2. Init => InOrder(scan)
  BY <1>1 DEF Init
<1>3. ASSUME SessionInv, InOrder(scan), [Next]_vars PROVE InOrder(scan)'
  <2>1. scan \in Scans
    BY <1>3 DEF SessionInv, TypeOK
  <2>2. ASSUME NEW t \in Threads, VidPidBody(t) \/ VidPidEnd(t) PROVE InOrder(scan')
    BY <1>1, <2>2, LibraryAssumption DEF VidPidBody, VidPidEnd
  <2>3. ASSUME NEW t \in Threads, VidPidDevice(t) PROVE InOrder(scan')
    BY <1>1, <1>3, <2>1, <2>3, ScanKeepsOrder DEF VidPidDevice, Matched
  <2>4. CASE UNCHANGED scan
    BY <1>3, <2>4
  <2>5. ASSUME NEW t \in Threads,
               \/ InitCheck(t) \/ InitBuild(t) \/ InitPublish(t) \/ ExitCall(t) \/ ListCall(t)
               \/ Lock(t) \/ ExitBody(t) \/ ListFree(t) \/ ListRebuild(t) \/ InfoBody(t)
               \/ OpenDevice(t) \/ OpenSelect(t) \/ CloseCheck(t) \/ CloseDevice(t)
        PROVE  UNCHANGED scan
    BY <2>5 DEF InitCheck, InitBuild, InitPublish, ExitCall, ListCall, Lock, ExitBody,
       ListFree, ListRebuild, InfoBody, OpenDevice, OpenSelect, CloseCheck, CloseDevice
  <2> QED BY <1>3, <2>2, <2>3, <2>4, <2>5 DEF Next, vars
<1>4. SessionInv /\ InOrder(scan) => InfoListIsRight
  BY InOrderIsRight DEF SessionInv, TypeOK, InfoListIsRight
<1> QED BY <1>2, <1>3, <1>4, SessionInvariant, PTL DEF Spec

-----------------------------------------------------------------------------
(***************************************************************************)
(* The global list.  CyLibraryInit does not take the mutex, and most calls *)
(* trust the look they took at the flag before they had it.  That suffices *)
(* if one thread makes all the calls but CyOpen and CyClose.               *)
(***************************************************************************)
SoleCaller(m) == \A t \in Threads \ {m} : Calls[t] \subseteq {"CyOpen", "CyClose"}

(* Where each function may be. *)
Placed(t) ==
  /\ pc[t] # "idle" => fun[t] \in Calls[t]
  /\ pc[t] \in {"build", "publish"} => fun[t] = "CyLibraryInit"
  /\ pc[t] = "rebuild" => fun[t] = "CyGetListofDevices"
  /\ pc[t] = "scan" => fun[t] = "CyGetDeviceInfoVidPid"
  /\ pc[t] \in {"lock", "locked"} => fun[t] # "CyLibraryInit"

(* The list exists and glNumDevices does not exceed its length. *)
Good == built => deviceList \in live /\ numDevices <= length[deviceList]

(* The sole caller m alone changes the flag and the list, and so finds     *)
(* them where it left them.                                                *)
ListInv(m) ==
  /\ \A t \in Threads : Placed(t)
  /\ live \subseteq {deviceList}
  /\ ~driverInit /\ pc[m] # "publish" => live = {}
  /\ pc[m] = "rebuild" => live = {}
  /\ driverInit /\ pc[m] # "rebuild" => Good
  /\ pc[m] = "publish" => Good
  /\ pc[m] \in {"build", "publish"} => ~driverInit
  /\ pc[m] \in {"lock", "locked", "rebuild", "scan"} /\ fun[m] # "CyLibraryExit" => driverInit

(* A list built when there is none is good: a count that is cut to its     *)
(* type is less than the list is long, never more.                         *)
LEMMA NewListIsGood ==
  ASSUME NEW r \in Results, GetDeviceList(r), live = {},
         numDevices' = r % UintSize \/ numDevices' = r % CountSize
  PROVE  Good' /\ live' \subseteq {deviceList'}
<1>1. CASE r < 0
  <2>1. (r >= 0) = FALSE
    BY <1>1, LibraryAssumption DEF Results
  <2>2. built' = FALSE
    BY <2>1, Zenon DEF GetDeviceList
  <2>3. live' = {}
    BY <2>1 DEF GetDeviceList
  <2> QED BY <2>2, <2>3 DEF Good
<1>2. CASE r >= 0
  <2>1. r \in Nat
    BY <1>2, LibraryAssumption DEF Results
  <2>2. \A k \in Nat \ {0} : r % k <= r
    BY <2>1
  <2>3. numDevices' <= r
    BY <2>2, SizeType, LibraryAssumption
  <2>4. PICK l \in Lists :
          /\ length' = [k \in Lists |-> IF k = l THEN r ELSE IF k \in live THEN length[k] ELSE 0]
          /\ deviceList' = l /\ live' = live \cup {l}
    BY <1>2, <2>1 DEF GetDeviceList
  <2>5. length'[deviceList'] = r
    BY <2>4
  <2> QED BY <2>3, <2>4, <2>5 DEF Good
<1> QED BY <1>1, <1>2, LibraryAssumption DEF Results

LEMMA StepList ==
  ASSUME NEW m \in Threads, SoleCaller(m), SessionInv, ListInv(m), [Next]_vars
  PROVE  ListInv(m)'
<1> USE DEF global, Placed, Good
<1>0. CASE UNCHANGED vars
  BY <1>0 DEF vars, ListInv
<1>a. ASSUME NEW t \in Threads, pc[t] # "idle", fun[t] \notin {"CyOpen", "CyClose"} PROVE t = m
  BY <1>a DEF SoleCaller, ListInv
<1>b. ASSUME NEW t \in Threads, InitCheck(t) \/ ExitCall(t) PROVE ListInv(m)'
  BY <1>b DEF InitCheck, ExitCall, Enter, Refuse, Reply, SoleCaller, ListInv, SessionInv, TypeOK
<1>c. ASSUME NEW t \in Threads, InitBuild(t) PROVE ListInv(m)'
  <2>1. t = m /\ live = {} /\ ~driverInit
    BY <1>a, <1>c DEF InitBuild, ListInv
  <2>2. Good' /\ live' \subseteq {deviceList'}
    BY <1>c, <2>1, NewListIsGood DEF InitBuild
  <2> QED BY <1>c, <2>1, <2>2 DEF InitBuild, ListInv, SessionInv, TypeOK
<1>d. ASSUME NEW t \in Threads, InitPublish(t) PROVE ListInv(m)'
  <2>1. t = m
    BY <1>a, <1>d DEF InitPublish
  <2> QED BY <1>d, <2>1 DEF InitPublish, Reply, ListInv, SessionInv, TypeOK
<1>e. ASSUME NEW t \in Threads, ListCall(t) PROVE ListInv(m)'
  BY <1>e DEF ListCall, Enter, Refuse, Reply, ListInv, SessionInv, TypeOK
<1>f. ASSUME NEW t \in Threads, Lock(t) PROVE ListInv(m)'
  BY <1>f DEF Lock, ListInv, SessionInv, TypeOK
<1>g. ASSUME NEW t \in Threads, ExitBody(t) PROVE ListInv(m)'
  <2>1. t = m
    BY <1>a, <1>g DEF ExitBody, Holds
  <2> QED BY <1>g, <2>1 DEF ExitBody, Holds, Unlock, Reply, ListInv, SessionInv, TypeOK
<1>h. ASSUME NEW t \in Threads, ListFree(t) PROVE ListInv(m)'
  <2>1. t = m
    BY <1>a, <1>h DEF ListFree, Holds
  <2> QED BY <1>h, <2>1 DEF ListFree, Holds, ListInv, SessionInv, TypeOK
<1>i. ASSUME NEW t \in Threads, ListRebuild(t) PROVE ListInv(m)'
  <2>1. t = m /\ live = {} /\ driverInit
    BY <1>a, <1>i DEF ListRebuild, ListInv
  <2>2. Good' /\ live' \subseteq {deviceList'}
    BY <1>i, <2>1, NewListIsGood DEF ListRebuild
  <2> QED BY <1>i, <2>1, <2>2 DEF ListRebuild, Unlock, Reply, ListInv, SessionInv, TypeOK
<1>j. ASSUME NEW t \in Threads, UNCHANGED global,
             InfoBody(t) \/ VidPidBody(t) \/ VidPidDevice(t) \/ VidPidEnd(t)
      PROVE  ListInv(m)'
  BY <1>j DEF InfoBody, VidPidBody, VidPidDevice, VidPidEnd, Holds, Unlock, Reply, ListInv,
     SessionInv, TypeOK
<1>k. ASSUME NEW t \in Threads, UNCHANGED global,
             OpenDevice(t) \/ OpenSelect(t) \/ CloseCheck(t) \/ CloseDevice(t)
      PROVE  ListInv(m)'
  BY <1>k DEF OpenDevice, OpenSelect, CloseCheck, CloseDevice, Holds, Unlock, Enter, Refuse,
     Reply, ListInv, SessionInv, TypeOK
<1>l. ASSUME NEW t \in Threads,
             \/ InfoBody(t) \/ VidPidBody(t) \/ VidPidDevice(t) \/ VidPidEnd(t)
             \/ OpenDevice(t) \/ OpenSelect(t) \/ CloseCheck(t) \/ CloseDevice(t)
      PROVE  UNCHANGED global
  BY <1>l DEF InfoBody, VidPidBody, VidPidDevice, VidPidEnd, OpenDevice, OpenSelect,
     CloseCheck, CloseDevice
<1> QED
  BY <1>0, <1>b, <1>c, <1>d, <1>e, <1>f, <1>g, <1>h, <1>i, <1>j, <1>k, <1>l DEF Next

LEMMA ListInvariant == ASSUME NEW m \in Threads, SoleCaller(m) PROVE Spec => []ListInv(m)
<1>1. Init => ListInv(m)
  BY DEF Init, ListInv, Placed, Good
<1>2. SessionInv /\ ListInv(m) /\ [Next]_vars => ListInv(m)'
  BY StepList
<1> QED BY <1>1, <1>2, SessionInvariant, PTL DEF Spec

(* If one thread makes all the calls but CyOpen and CyClose, then whatever *)
(* the others open and close meanwhile nobody reads or frees a list that   *)
(* does not exist, or reads past its end.                                  *)
THEOREM ListIsUsable == ASSUME NEW m \in Threads, SoleCaller(m) PROVE Spec => []ListUsable
<1>1. ASSUME SessionInv, ListInv(m) PROVE ListUsable
  <2> SUFFICES ASSUME built, NEW t \in Threads, ReadsList(t) \/ FreesList(t)
               PROVE  deviceList \in live /\ numDevices <= length[deviceList]
    BY DEF ListUsable
  <2>1. mutex = t /\ pc[t] \in {"locked", "scan"}
    BY <1>1 DEF ReadsList, FreesList, Holds, SessionInv, Inside
  <2>2. pc[m] # "rebuild"
    BY <1>1, <2>1 DEF SessionInv, Inside
  <2>3. driverInit
    BY <1>1 DEF ReadsList, FreesList, Holds, SoleCaller, ListInv, Placed
  <2>4. deviceList \in live /\ numDevices <= length[deviceList]
    BY <1>1, <2>2, <2>3 DEF ListInv, Good
  <2> QED BY <1>1, <2>4 DEF SessionInv, TypeOK
<1> QED BY <1>1, SessionInvariant, ListInvariant, PTL

(* Under the same assumption every list is freed: by the next             *)
(* CyGetListofDevices, or by CyLibraryExit.                                *)
THEOREM ListIsNotLeaked == ASSUME NEW m \in Threads, SoleCaller(m) PROVE Spec => []NoListLeaked
<1>1. ListInv(m) => NoListLeaked
  BY DEF ListInv, NoListLeaked
<1> QED BY <1>1, ListInvariant, PTL

(* Under the same assumption device information is given out only while    *)
(* the library is up, although CyGetDeviceInfo and CyGetDeviceInfoVidPid   *)
(* look at the flag before they have the mutex and never again.            *)
THEOREM InfoIsGivenWhileUp == ASSUME NEW m \in Threads, SoleCaller(m) PROVE Spec => InfoOnlyWhileUp
<1>1. ASSUME SessionInv, ListInv(m), [Next]_vars,
             NEW t \in Threads, fun[t] \in {"CyGetDeviceInfo", "CyGetDeviceInfoVidPid"},
             pc[t] = "locked"
      PROVE  driverInit
  BY <1>1 DEF ListInv, Placed, SoleCaller
<1>2. ASSUME SessionInv, ListInv(m), [Next]_vars
      PROVE  \A t \in Threads :
               /\ fun[t] \in {"CyGetDeviceInfo", "CyGetDeviceInfoVidPid"}
               /\ pc[t] = "locked" /\ pc'[t] = "idle" /\ status'[t] = "SUCCESS"
               => driverInit
  BY <1>1, <1>2
<1> QED BY <1>2, SessionInvariant, ListInvariant, PTL DEF Spec, InfoOnlyWhileUp

-----------------------------------------------------------------------------
(***************************************************************************)
(* Several threads may list and query, if one thread starts the library    *)
(* and none stops it: then the flag never falls, and the mutex does all    *)
(* that is needed.                                                         *)
(***************************************************************************)
NeverStopped(m) ==
  /\ \A t \in Threads : "CyLibraryExit" \notin Calls[t]
  /\ \A t \in Threads \ {m} : "CyLibraryInit" \notin Calls[t]

SharedInv(m) ==
  /\ \A t \in Threads : Placed(t)
  /\ live \subseteq {deviceList}
  /\ ~driverInit /\ pc[m] # "publish" => live = {}
  /\ pc[m] = "publish" => Good
  /\ pc[m] \in {"build", "publish"} => ~driverInit
  /\ \A t \in Threads : pc[t] = "rebuild" => live = {}
  /\ driverInit => Good \/ \E t \in Threads : pc[t] = "rebuild"
  /\ \A t \in Threads : /\ pc[t] \in {"lock", "locked", "rebuild", "scan"}
                         /\ fun[t] # "CyLibraryExit" => driverInit

LEMMA StepShared ==
  ASSUME NEW m \in Threads, NeverStopped(m), SessionInv, SharedInv(m), [Next]_vars
  PROVE  SharedInv(m)'
<1> USE DEF global, Placed, Good
<1>0. CASE UNCHANGED vars
  BY <1>0 DEF vars, SharedInv
<1>a. ASSUME NEW t \in Threads, fun[t] = "CyLibraryInit", pc[t] # "idle" PROVE t = m
  BY <1>a DEF NeverStopped, SharedInv
<1>b. ASSUME NEW t \in Threads, InitCheck(t) PROVE SharedInv(m)'
  BY <1>b DEF InitCheck, Enter, Refuse, Reply, NeverStopped, SharedInv, SessionInv, TypeOK
<1>c. ASSUME NEW t \in Threads, InitBuild(t) PROVE SharedInv(m)'
  <2>1. t = m /\ live = {} /\ ~driverInit
    BY <1>a, <1>c DEF InitBuild, SharedInv
  <2>2. Good' /\ live' \subseteq {deviceList'}
    BY <1>c, <2>1, NewListIsGood DEF InitBuild
  <2>3. \A u \in Threads : pc[u] # "rebuild"
    BY <2>1 DEF SharedInv
  <2> QED BY <1>c, <2>1, <2>2, <2>3 DEF InitBuild, SharedInv, SessionInv, TypeOK
<1>d. ASSUME NEW t \in Threads, InitPublish(t) PROVE SharedInv(m)'
  <2>1. t = m
    BY <1>a, <1>d DEF InitPublish
  <2>2. /\ \A u \in Threads : pc'[u] = IF u = m THEN "idle" ELSE pc[u]
        /\ \A u \in Threads : u # m => fun'[u] = fun[u]
        /\ UNCHANGED <<deviceList, numDevices, length, live, built>> /\ driverInit' = TRUE
        /\ pc[m] = "publish"
    BY <1>d, <2>1 DEF InitPublish, Reply, SessionInv, TypeOK
  <2>3. Good'
    BY <2>2 DEF SharedInv
  <2> QED BY <2>2, <2>3 DEF SharedInv
<1>e. ASSUME NEW t \in Threads, ExitCall(t) \/ ExitBody(t) PROVE FALSE
  BY <1>e DEF ExitCall, ExitBody, Enter, Holds, NeverStopped, SharedInv
<1>f. ASSUME NEW t \in Threads, ListCall(t) PROVE SharedInv(m)'
  BY <1>f DEF ListCall, Enter, Refuse, Reply, SharedInv, SessionInv, TypeOK
<1>g. ASSUME NEW t \in Threads, Lock(t) PROVE SharedInv(m)'
  BY <1>g DEF Lock, SharedInv, SessionInv, TypeOK
<1>h. ASSUME NEW t \in Threads, ListFree(t) PROVE SharedInv(m)'
  <2>1. driverInit /\ pc[m] \notin {"build", "publish"}
    BY <1>h DEF ListFree, Holds, SharedInv
  <2> QED BY <1>h, <2>1 DEF ListFree, Holds, SharedInv, SessionInv, TypeOK
<1>i. ASSUME NEW t \in Threads, ListRebuild(t) PROVE SharedInv(m)'
  <2>1. live = {} /\ driverInit /\ pc[m] \notin {"build", "publish"}
    BY <1>i DEF ListRebuild, SharedInv
  <2>2. Good' /\ live' \subseteq {deviceList'}
    BY <1>i, <2>1, NewListIsGood DEF ListRebuild
  <2>3. \A u \in Threads : pc'[u] # "rebuild"
    BY <1>i DEF ListRebuild, Unlock, Reply, SessionInv, TypeOK, Inside
  <2> QED BY <1>i, <2>1, <2>2, <2>3 DEF ListRebuild, Unlock, Reply, SharedInv, SessionInv, TypeOK
<1>j. ASSUME NEW t \in Threads, UNCHANGED global,
             InfoBody(t) \/ VidPidBody(t) \/ VidPidDevice(t) \/ VidPidEnd(t)
      PROVE  SharedInv(m)'
  BY <1>j DEF InfoBody, VidPidBody, VidPidDevice, VidPidEnd, Holds, Unlock, Reply, SharedInv,
     SessionInv, TypeOK
<1>k. ASSUME NEW t \in Threads, UNCHANGED global,
             OpenDevice(t) \/ OpenSelect(t) \/ CloseCheck(t) \/ CloseDevice(t)
      PROVE  SharedInv(m)'
  BY <1>k DEF OpenDevice, OpenSelect, CloseCheck, CloseDevice, Holds, Unlock, Enter, Refuse,
     Reply, SharedInv, SessionInv, TypeOK
<1>l. ASSUME NEW t \in Threads,
             \/ InfoBody(t) \/ VidPidBody(t) \/ VidPidDevice(t) \/ VidPidEnd(t)
             \/ OpenDevice(t) \/ OpenSelect(t) \/ CloseCheck(t) \/ CloseDevice(t)
      PROVE  UNCHANGED global
  BY <1>l DEF InfoBody, VidPidBody, VidPidDevice, VidPidEnd, OpenDevice, OpenSelect,
     CloseCheck, CloseDevice
<1> QED
  BY <1>0, <1>b, <1>c, <1>d, <1>e, <1>f, <1>g, <1>h, <1>i, <1>j, <1>k, <1>l DEF Next

(* If one thread alone starts the library and no thread stops it, any      *)
(* number of threads may list, query, open and close at the same time:     *)
(* nobody reads or frees a list that does not exist, or reads past its     *)
(* end.                                                                    *)
THEOREM SharedListIsUsable == ASSUME NEW m \in Threads, NeverStopped(m) PROVE Spec => []ListUsable
<1>1. Init => SharedInv(m)
  BY DEF Init, SharedInv, Placed, Good
<1>2. SessionInv /\ SharedInv(m) /\ [Next]_vars => SharedInv(m)'
  BY StepShared
<1>3. ASSUME SessionInv, SharedInv(m) PROVE ListUsable
  <2> SUFFICES ASSUME built, NEW t \in Threads, ReadsList(t) \/ FreesList(t)
               PROVE  deviceList \in live /\ numDevices <= length[deviceList]
    BY DEF ListUsable
  <2>1. mutex = t /\ pc[t] \in {"locked", "scan"}
    BY <1>3 DEF ReadsList, FreesList, Holds, SessionInv, Inside
  <2>2. \A u \in Threads : pc[u] # "rebuild"
    BY <1>3, <2>1 DEF SessionInv, Inside
  <2>3. driverInit
    <3>1. CASE fun[t] = "CyLibraryExit"
      BY <1>3, <2>1, <3>1 DEF ReadsList, FreesList, Holds, SharedInv, Placed
    <3>2. CASE fun[t] # "CyLibraryExit"
      BY <1>3, <2>1, <3>2 DEF SharedInv
    <3> QED BY <3>1, <3>2
  <2> QED BY <1>3, <2>2, <2>3 DEF SharedInv, Good
<1> QED BY <1>1, <1>2, <1>3, SessionInvariant, PTL DEF Spec
=============================================================================

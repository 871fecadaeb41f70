--------------------------- MODULE DeviceInfoList ---------------------------
(***************************************************************************)
(* What CyGetDeviceInfoVidPid of cyusb.cpp does with the lists of its      *)
(* caller: it goes through the devices, counts those with the vendor and   *)
(* product id it looks for, and describes them one after the other.        *)
(*                                                                         *)
(* A scan is the state of the function's loop.  Module CyLibrary runs it   *)
(* with the mutex held.                                                    *)
(***************************************************************************)
EXTENDS Integers, Sequences

(* length is infoListLength, next is devNum, count is *deviceCount, and     *)
(* entries holds the device numbers written to deviceNumber, so that index *)
(* is its length.  matches is history: the numbers of all devices that     *)
(* matched.                                                                *)
NewScan(n) == [length |-> n, next |-> 0, count |-> 0, entries |-> <<>>, matches |-> <<>>]

(* A device with other ids. *)
SkipDevice(s) == [s EXCEPT !.next = @ + 1]

(* A device that matches is counted whether it can be described or not.    *)
CountDevice(s) == [s EXCEPT !.count = @ + 1, !.matches = Append(@, s.next)]

(* Mutant: a list that takes one device less. *)
HasRoomMutant(s) == Len(s.entries) < s.length - 1

(* The test before an entry is written: not index > infoListLength.        *)
HasRoom(s) == Len(s.entries) <= s.length

(* Mutant: the entry gets the number of matches, not the device's number.  *)
DescribeDeviceMutant(s) == [s EXCEPT !.entries = Append(@, s.count - 1), !.next = @ + 1]

(* The next entry is filled with the device that the loop is at.           *)
DescribeDevice(s) == [s EXCEPT !.entries = Append(@, s.next), !.next = @ + 1]

(* The entries that the caller has asked for.                              *)
Asked(s, q) == SubSeq(q, 1, IF Len(q) < s.length THEN Len(q) ELSE s.length)
=============================================================================

---------------------------- MODULE CyController ----------------------------
(***************************************************************************)
(* The ease-of-use layer CyController.cpp: consumers, each with a          *)
(* CyController of its own, share the library, the list of stored devices  *)
(* and the Device objects in it.                                           *)
(*                                                                         *)
(* What is done under one lock is one step: the RefCounter's mutex, the    *)
(* mutex of a Device, and criticalSection inside the library (module       *)
(* CyLibrary).  What is decided outside a lock is a step of its own: the   *)
(* test of is_open, the count of devices before the list is stored, and    *)
(* the look at each device that is stored.                                 *)
(*                                                                         *)
(* Devices are plugged in and out.  A stored device is known by the        *)
(* position it had in the library's list, and the list is rebuilt by every *)
(* call that counts the devices.  An entry whose device was plugged out    *)
(* since is dead.                                                          *)
(*                                                                         *)
(* The Device objects that consumers pass on are those of the list, which  *)
(* holds them for ever: none is ever unique(), so that                     *)
(* close_working_device, which closes a unique one only, has no effect.    *)
(***************************************************************************)
EXTENDS Integers, Sequences, SequencesExt

CONSTANTS
  Controllers,  (* the consumers                                           *)
  Chips,        (* USB devices with an I2C interface                       *)
  Others,       (* other USB devices                                       *)
  Serial,       (* the serial number of each chip                          *)
  None,         (* no device, a dead entry of the list, or the empty       *)
                (* serial number, which no chip has                        *)
  Wants,        (* Wants[c]: the serial numbers that consumer c selects    *)
  OneThread,    (* whether one thread drives all controllers               *)
  MaxChanges    (* bound: how often a device is plugged in or out          *)

Usb == Chips \cup Others

ASSUME ControllerAssumption ==
  /\ IsFiniteSet(Usb) /\ None \notin Usb \cup {Serial[s] : s \in Chips}
  /\ Wants \in [Controllers -> SUBSET {Serial[s] : s \in Chips}]
  /\ OneThread \in BOOLEAN
  /\ MaxChanges \in Nat

VARIABLES
  bus,          (* the devices that are plugged in, as libusb lists them   *)
  changes,      (* how often a device was plugged in or out                *)
  list,         (* glDeviceList of the library                             *)
  ref,          (* g_cy_object_counter.ref                                 *)
  driverInit,   (* glDriverInit of the library                             *)
  once,         (* init_flag: initDevices has not begun, runs or is done   *)
  limit,        (* numDevices_ of initDevices                              *)
  next,         (* the position that initDevices looks at next             *)
  stored,       (* device_list: the chips, in the order they were stored   *)
  number,       (* Device::device_number                                   *)
  isOpen,       (* Device::is_open                                         *)
  handle,       (* what Device::handle points to                           *)
  target,       (* the device that the handle is open on                   *)
  claimed,      (* the devices whose interface an open handle has claimed  *)
  alive,        (* the controllers that exist                              *)
  initialized,  (* mIsInitialized                                          *)
  working,      (* mWorkingDevice                                          *)
  desired,      (* mDesiredSerial                                          *)
  pc,           (* where the consumer is                                   *)
  uses,         (* how many GPIO requests its call has yet to send         *)
  threw,        (* whether its last GPIO call threw                        *)
  moved         (* history: the chips that were plugged in or out, or have *)
                (* got another position by it, since the list was stored   *)

library == <<list, ref, driverInit>>
devices == <<isOpen, handle, target, claimed>>
store == <<once, limit, next, stored, number, moved>>
usb == <<bus, changes>>
consumers == <<alive, initialized, working, desired, pc, uses, threw>>
vars == <<usb, library, store, devices, consumers>>

(* The positions, from 1, at which a list has a device. *)
Places(l, d) == {i \in DOMAIN l : l[i] = d}

(* The sequences of some of the USB devices. *)
Buses == UNION {{b \in [1 .. n -> Usb] : IsInjective(b)} : n \in 0 .. Cardinality(Usb)}

Init ==
  /\ bus \in Buses
  /\ changes = 0
  /\ list = <<>>
  /\ ref = 0
  /\ driverInit = FALSE
  /\ once = "no"
  /\ limit = 0
  /\ next = 1
  /\ stored = <<>>
  /\ number = [s \in Chips |-> 0]
  /\ isOpen = [s \in Chips |-> FALSE]
  /\ handle = [s \in Chips |-> "null"]
  /\ target = [s \in Chips |-> None]
  /\ claimed = {}
  /\ alive = {}
  /\ initialized = [c \in Controllers |-> FALSE]
  /\ working = [c \in Controllers |-> None]
  /\ desired = [c \in Controllers |-> None]
  /\ pc = [c \in Controllers |-> "idle"]
  /\ uses = [c \in Controllers |-> 0]
  /\ threw = [c \in Controllers |-> FALSE]
  /\ moved = {}

-----------------------------------------------------------------------------
(***************************************************************************)
(* The bus.                                                                *)
(***************************************************************************)
(* Device d comes or goes, and the bus becomes b. *)
BusBecomes(d, b) ==
  /\ changes < MaxChanges
  /\ changes' = changes + 1
  /\ bus' = b
  /\ moved' = moved \cup {s \in Chips : s = d \/ Places(b, s) # Places(bus, s)}
  /\ UNCHANGED <<ref, driverInit, once, limit, next, stored, number, isOpen, handle, consumers>>

(* A device is plugged in anywhere. *)
Plug(d) ==
  /\ d \notin Range(bus)
  /\ \E i \in 1 .. Len(bus) + 1 : BusBecomes(d, InsertAt(bus, i, d))
  /\ UNCHANGED <<list, target, claimed>>

(* What refers to a device that is plugged out is dead from then on. *)
Unplug(d) ==
  /\ \E i \in Places(bus, d) : BusBecomes(d, RemoveAt(bus, i))
  /\ list' = [i \in DOMAIN list |-> IF list[i] = d THEN None ELSE list[i]]
  /\ target' = [s \in Chips |-> IF target[s] = d THEN None ELSE target[s]]
  /\ claimed' = claimed \ {d}

-----------------------------------------------------------------------------
(* Consumer c may begin a call. *)
Ready(c) ==
  /\ pc[c] = "idle"
  /\ OneThread => \A b \in Controllers : pc[b] = "idle"

(* Mutant: every controller is counted. *)
CountUpMutant ==
  /\ ref' = ref + 1
  /\ driverInit' = TRUE
  /\ list' = IF ref = 0 THEN bus ELSE list

(* The counter's operator++: for the first controller the library is       *)
(* started, and that one only is counted.  CyLibraryInit fails if the      *)
(* library is up, or if libusb does: then operator++ throws, there is no   *)
(* controller, and all is as before.                                       *)
CountUp ==
  \/ ref # 0 /\ UNCHANGED library
  \/ /\ ref = 0 /\ ~driverInit
     /\ ref' = ref + 1
     /\ driverInit' = TRUE
     /\ list' = bus

(* operator--: when the count comes to zero the library is stopped.        *)
CountDown ==
  \/ ref = 0 /\ UNCHANGED library
  \/ /\ ref # 0
     /\ ref' = ref - 1
     /\ IF ref' = 0 THEN driverInit' = FALSE /\ list' = <<>> ELSE UNCHANGED <<driverInit, list>>

(* The constructors. *)
Constructed(c) ==
  /\ Ready(c) /\ c \notin alive
  /\ CountUp
  /\ alive' = alive \cup {c}
  /\ UNCHANGED <<usb, store, devices, desired, pc, uses, threw>>

Construct(c) == Constructed(c) /\ UNCHANGED <<initialized, working>>

(* A stored device that consumer c may be given, by get_working_device of  *)
(* another controller, or none.                                            *)
Given(c) == {s \in Range(stored) : Serial[s] \in Wants[c]} \cup {None}

ConstructWith(c, d) ==
  /\ Constructed(c)
  /\ initialized' = [initialized EXCEPT ![c] = TRUE]
  /\ working' = [working EXCEPT ![c] = d]

(* The destructor. *)
Destroy(c) ==
  /\ Ready(c) /\ c \in alive
  /\ CountDown
  /\ alive' = alive \ {c}
  /\ initialized' = [initialized EXCEPT ![c] = FALSE]
  /\ working' = [working EXCEPT ![c] = None]
  /\ desired' = [desired EXCEPT ![c] = None]
  /\ UNCHANGED <<usb, store, devices, pc, uses, threw>>

(* CyGetListofDevices: the list is rebuilt, if the library is up. *)
Recount == list' = IF driverInit THEN bus ELSE list

(* get_number_of_devices. *)
CountDevices(c) ==
  /\ Ready(c) /\ c \in alive
  /\ Recount
  /\ UNCHANGED <<usb, ref, driverInit, store, devices, consumers>>

(* initialize: forget the working device, count the devices ...            *)
InitializeCount(c) ==
  /\ Ready(c) /\ c \in alive
  /\ Recount
  /\ initialized' = [initialized EXCEPT ![c] = FALSE]
  /\ working' = [working EXCEPT ![c] = None]
  /\ pc' = [pc EXCEPT ![c] = IF driverInit /\ bus # <<>> THEN "store" ELSE "idle"]
  /\ UNCHANGED <<usb, ref, driverInit, store, devices, alive, desired, uses, threw>>

(* ... and store them, if no one has, and wait for the one who does.  The  *)
(* number of devices is fetched again; it is not initialized if the        *)
(* library was stopped meanwhile, so that any of them may be looked at.    *)
InitializeStore(c) ==
  /\ pc[c] = "store"
  /\ \/ /\ once = "no"
        /\ once' = "running"
        /\ Recount
        /\ IF driverInit THEN limit' = Len(bus) ELSE limit' \in 0 .. Cardinality(Usb)
        /\ next' = 1
        /\ moved' = {}
        /\ pc' = [pc EXCEPT ![c] = "look"]
        /\ UNCHANGED initialized
     \/ /\ once = "done"
        /\ initialized' = [initialized EXCEPT ![c] = stored # <<>>]
        /\ pc' = [pc EXCEPT ![c] = "idle"]
        /\ UNCHANGED <<list, once, limit, next, moved>>
  /\ UNCHANGED <<usb, ref, driverInit, stored, number, devices, alive, working, desired, uses, threw>>

(* CyGetDeviceInfo may succeed on this position, and finds a chip. *)
FindsChip(i) == driverInit /\ i \in DOMAIN list /\ list[i] \in Chips

(* Mutant: the number counts the stored devices. *)
StoreDeviceMutant(i) ==
  /\ stored' = Append(stored, list[i])
  /\ number' = [number EXCEPT ![list[i]] = Len(stored) + 1]

(* A chip that is stored twice is only found by its first entry.           *)
StoreDevice(i) ==
  IF list[i] \in Range(stored) THEN UNCHANGED <<stored, number>>
  ELSE /\ stored' = Append(stored, list[i])
       /\ number' = [number EXCEPT ![list[i]] = i]

(* initDevices keeps a device if CyGetDeviceInfo succeeds and it is a chip. *)
InitializeLook(c) ==
  /\ pc[c] = "look"
  /\ \/ /\ next <= limit
        /\ next' = next + 1
        /\ \/ FindsChip(next) /\ StoreDevice(next)
           \/ UNCHANGED <<stored, number>>
        /\ UNCHANGED <<once, pc, initialized>>
     \/ /\ next > limit
        /\ once' = "done"
        /\ initialized' = [initialized EXCEPT ![c] = stored # <<>>]
        /\ pc' = [pc EXCEPT ![c] = "idle"]
        /\ UNCHANGED <<next, stored, number>>
  /\ UNCHANGED <<usb, library, limit, moved, devices, alive, working, desired, uses, threw>>

(* find_if: the first stored device with the serial number.                *)
IsFirst(s, x) ==
  \E i \in DOMAIN stored :
    /\ stored[i] = s /\ Serial[s] = x
    /\ \A j \in 1 .. i - 1 : Serial[stored[j]] # x

(* A call that chooses a serial number or a device. *)
Chooses(c) ==
  /\ Ready(c) /\ c \in alive
  /\ UNCHANGED <<usb, library, store, devices, alive, initialized, pc, uses, threw>>

(* The stored device with serial number x becomes the working device.  If  *)
(* there is none the call fails, and all is as before.                     *)
WorksWith(c, x) ==
  \E s \in Chips : IsFirst(s, x) /\ working' = [working EXCEPT ![c] = s]

(* set_working_device_by_serial. *)
Select(c, x) ==
  /\ Chooses(c)
  /\ WorksWith(c, x)
  /\ desired' = [desired EXCEPT ![c] = x]

(* set_desired_serial: the working device stays the one it was.            *)
SetDesiredSerial(c, x) ==
  /\ Chooses(c)
  /\ desired' = [desired EXCEPT ![c] = x]
  /\ UNCHANGED working

(* set_working_device with the desired serial number, and with a device. *)
SelectDesired(c) == Chooses(c) /\ WorksWith(c, desired[c]) /\ UNCHANGED desired

SetWorkingDevice(c, d) ==
  /\ Chooses(c)
  /\ working' = [working EXCEPT ![c] = d]
  /\ UNCHANGED desired

-----------------------------------------------------------------------------
(* Mutants: is_open is not looked at, and the device taken to be open, or  *)
(* opened each time.                                                       *)
CheckOpenMutantUse(c) == "use"
CheckOpenMutantOpen(c) == "open"

(* open_working_device up to the device's mutex, at the start of each GPIO *)
(* request.                                                                *)
CheckOpen(c) ==
  IF isOpen[working[c]] THEN "use" ELSE "open"

(* The GPIO call goes on with n requests to send, or returns or throws. *)
GoOn(c, n, throws) ==
  /\ uses' = [uses EXCEPT ![c] = n]
  /\ threw' = [threw EXCEPT ![c] = throws]
  /\ UNCHANGED <<usb, alive, initialized, working, desired>>

(* get_gpio_value and set_gpio_value send one request, switch_gpio_state   *)
(* two.  Without a working device the call throws.                         *)
GpioCall(c, n) ==
  /\ Ready(c) /\ c \in alive
  /\ IF working[c] = None
     THEN UNCHANGED pc /\ GoOn(c, 0, TRUE)
     ELSE pc' = [pc EXCEPT ![c] = CheckOpen(c)] /\ GoOn(c, n, FALSE)
  /\ UNCHANGED <<library, store, devices>>

(* What CyOpen finds at the number that was stored. *)
Opens(s) == IF driverInit /\ number[s] \in DOMAIN list THEN list[number[s]] ELSE None

(* The rest of open_working_device, with the mutex: CyOpen stores the new   *)
(* object in the device's handle, and frees it again if the interface      *)
(* cannot be claimed.  It never can while another handle has claimed it.   *)
(* If there is no device to open, CyOpen leaves the handle alone.          *)
OpenWorking(c) ==
  LET s == working[c]
      d == Opens(s) IN
  /\ pc[c] = "open"
  /\ \/ /\ d # None /\ d \notin claimed
        /\ isOpen' = [isOpen EXCEPT ![s] = TRUE]
        /\ handle' = [handle EXCEPT ![s] = "open"]
        /\ target' = [target EXCEPT ![s] = d]
        /\ claimed' = claimed \cup {d}
        /\ pc' = [pc EXCEPT ![c] = "use"]
        /\ GoOn(c, uses[c], FALSE)
     \/ /\ handle' \in IF d # None THEN {handle, [handle EXCEPT ![s] = "freed"]} ELSE {handle}
        /\ pc' = [pc EXCEPT ![c] = "idle"]
        /\ GoOn(c, 0, TRUE)
        /\ UNCHANGED <<isOpen, target, claimed>>
  /\ UNCHANGED <<library, store>>

(* One GPIO request on the device's handle, with the mutex.  A request     *)
(* that fails throws, which ends the call.                                 *)
UseHandle(c) ==
  /\ pc[c] = "use"
  /\ \/ /\ target[working[c]] # None
        /\ pc' = [pc EXCEPT ![c] = IF uses[c] = 1 THEN "idle" ELSE CheckOpen(c)]
        /\ GoOn(c, uses[c] - 1, FALSE)
     \/ /\ pc' = [pc EXCEPT ![c] = "idle"]
        /\ GoOn(c, 0, TRUE)
  /\ UNCHANGED <<library, store, devices>>

BusStep == \E d \in Usb : Plug(d) \/ Unplug(d)

Next ==
  \/ BusStep
  \/ \E c \in Controllers :
       \/ Construct(c) \/ Destroy(c) \/ CountDevices(c)
       \/ \E d \in Given(c) : ConstructWith(c, d) \/ SetWorkingDevice(c, d)
       \/ SelectDesired(c)
       \/ InitializeCount(c) \/ InitializeStore(c) \/ InitializeLook(c)
       \/ \E x \in Wants[c] : Select(c, x) \/ SetDesiredSerial(c, x)
       \/ \E n \in 1 .. 2 : GpioCall(c, n)
       \/ OpenWorking(c) \/ UseHandle(c)

Spec == Init /\ [][Next]_vars

-----------------------------------------------------------------------------
TypeOK ==
  /\ bus \in Seq(Usb) /\ changes \in 0 .. MaxChanges
  /\ list \in Seq(Usb \cup {None})
  /\ ref \in 0 .. 1
  /\ driverInit \in BOOLEAN
  /\ once \in {"no", "running", "done"}
  /\ limit \in 0 .. Cardinality(Usb) /\ next \in 1 .. limit + 1
  /\ stored \in Seq(Chips)
  /\ number \in [Chips -> Nat]
  /\ isOpen \in [Chips -> BOOLEAN]
  /\ handle \in [Chips -> {"null", "open", "freed"}]
  /\ target \in [Chips -> Usb \cup {None}]
  /\ claimed \subseteq Usb
  /\ alive \subseteq Controllers
  /\ initialized \in [Controllers -> BOOLEAN]
  /\ working \in [Controllers -> Range(stored) \cup {None}]
  /\ desired \in [Controllers -> {Serial[s] : s \in Chips} \cup {None}]
  /\ pc \in [Controllers -> {"idle", "store", "look", "open", "use"}]
  /\ uses \in [Controllers -> 0 .. 2]
  /\ threw \in [Controllers -> BOOLEAN]
  /\ moved \subseteq Chips

(* A GPIO request goes out on an open handle. *)
UsesOpenHandle ==
  \A c \in Controllers : pc[c] = "use" => handle[working[c]] = "open"

(* Every handle that claims an interface is still reachable through its    *)
(* device, so that it can be used and closed.                              *)
NoHandleLost ==
  \A d \in claimed : \E s \in Chips : isOpen[s] /\ handle[s] = "open" /\ target[s] = d

(* A GPIO request goes to the device that the controller works with, how-  *)
(* ever often the library's list, in which CyOpen looks it up, was rebuilt, *)
(* as long as that device and those before it were not plugged in or out.  *)
DrivesSelected ==
  \A c \in Controllers :
    pc[c] = "use" /\ working[c] \notin moved /\ handle[working[c]] = "open" =>
      target[working[c]] = working[c]

(* While a controller exists, the library is up: one consumer's end does   *)
(* not take the library from the others.                                   *)
LibraryUpWhileAlive == alive # {} => driverInit

(* A GPIO request goes to the device that the controller works with,       *)
(* whatever was plugged in or out.                                         *)
AlwaysDrivesSelected ==
  \A c \in Controllers :
    pc[c] = "use" /\ target[working[c]] # None => target[working[c]] = working[c]

(* A device that is plugged in again can be used again: what is_open says  *)
(* holds of a device on the bus.                                           *)
OpenMeansPresent ==
  \A s \in Chips : isOpen[s] /\ s \in Range(bus) => target[s] # None
=============================================================================

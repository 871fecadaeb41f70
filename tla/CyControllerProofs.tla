-------------------------- MODULE CyControllerProofs ------------------------
(***************************************************************************)
(* What holds of any number of controllers on any bus.                     *)
(*                                                                         *)
(* A GPIO request goes to the device that the controller works with: the   *)
(* list that CyOpen indexes may be old, but at the position of a           *)
(* stored device that has not moved it has that device or a dead entry.    *)
(*                                                                         *)
(* It goes out on an open handle, and no open handle is lost, if one       *)
(* thread drives all controllers, or if no two consumers select the same   *)
(* device: the consumer that waits to open a device is then the only one   *)
(* that could have opened it since it looked.  Without either condition    *)
(* both fail: see the run controller_shared_device.                        *)
(*                                                                         *)
(* The types hold without any condition, and bound the positions that are  *)
(* looked at by the list as it was counted.                                *)
(*                                                                         *)
(* The command line tools take only steps of a controller, so that all of  *)
(* this holds of them, and what they report as a success has happened.     *)
(***************************************************************************)
EXTENDS GpioTools, FiniteSetTheorems, SequenceTheorems, TLAPS

(* Where the stored devices are in the library's list and on the bus. *)
PlacesInv ==
  /\ stored \in Seq(Chips)
  /\ DOMAIN number = Chips
  /\ ~driverInit => DOMAIN list = {}
  /\ once = "no" => stored = <<>>
  /\ once # "no" =>
       \A s \in Chips \ moved :
         /\ Places(list, s) \subseteq Places(bus, s)
         /\ \A i \in Places(bus, s) \cap DOMAIN list : list[i] \in {s, None}
  /\ \A s \in Range(stored) \ moved : number[s] \in Places(bus, s)

(* The rest: a stored device is driven by what was opened at its position. *)
TargetInv ==
  /\ DOMAIN handle = Chips /\ DOMAIN target = Chips
  /\ DOMAIN working = Controllers /\ DOMAIN desired = Controllers /\ DOMAIN pc = Controllers
  /\ \A s \in Chips : handle[s] # "null" => s \in Range(stored)
  /\ \A s \in Range(stored) \ moved : handle[s] = "open" => target[s] = s
  /\ \A c \in Controllers : working[c] # None =>
       working[c] \in Range(stored)
  /\ \A c \in Controllers : pc[c] \in {"open", "use"} => working[c] # None
  /\ \A c \in Controllers : pc[c] = "look" => once # "no"

LEMMA PlacesInitial == Init => PlacesInv /\ TargetInv
BY DEF Init, PlacesInv, TargetInv, Range

(* What the constructors and the destructor do to the library. *)
LEMMA CountFacts ==
  ASSUME CountUp \/ CountDown, ref \in 0 .. 1
  PROVE  /\ ref' \in 0 .. 1
         /\ \/ list' = bus /\ driverInit' = TRUE
            \/ list' = <<>> /\ driverInit' = FALSE
            \/ UNCHANGED <<list, driverInit>>
BY DEF CountUp, CountDown, library

(* A step that at most rebuilds or drops the library's list. *)
LEMMA ListStep ==
  ASSUME PlacesInv, UNCHANGED <<bus, stored, number, moved, once>>,
         \/ list' = bus /\ driverInit'
         \/ list' = list /\ (driverInit' \/ driverInit' = driverInit)
         \/ list' = <<>>
  PROVE  PlacesInv'
BY DEF PlacesInv, Places, Range

LEMMA PlacesStep == PlacesInv /\ TargetInv /\ [Next]_vars => PlacesInv'
<1> SUFFICES ASSUME PlacesInv, TargetInv, [Next]_vars PROVE PlacesInv'
  OBVIOUS
<1> USE ControllerAssumption DEF Usb
<1>1. ASSUME NEW d \in Usb, Plug(d) PROVE PlacesInv'
  BY <1>1 DEF Plug, BusBecomes, PlacesInv, Places, Range
<1>2. ASSUME NEW d \in Usb, Unplug(d) PROVE PlacesInv'
  BY <1>2 DEF Unplug, BusBecomes, PlacesInv, Places, Range
<1>3. ASSUME NEW c \in Controllers,
             UNCHANGED <<usb, library, store>> \/ Constructed(c) \/ Destroy(c)
             \/ CountDevices(c) \/ InitializeCount(c)
      PROVE  PlacesInv'
  BY <1>3, ListStep
     DEF Constructed, Destroy, CountUp, CountDown, CountDevices, InitializeCount, Recount,
         usb, library, store
<1>4. ASSUME NEW c \in Controllers, InitializeStore(c) PROVE PlacesInv'
  <2>1. CASE once = "no"
    <3>1. /\ once' = "running" /\ moved' = {} /\ stored = <<>>
          /\ list' = IF driverInit THEN bus ELSE list
          /\ UNCHANGED <<bus, driverInit, stored, number>>
      BY <1>4, <2>1 DEF InitializeStore, Recount, usb, PlacesInv
    <3> QED BY <3>1 DEF PlacesInv, Places, Range
  <2>2. CASE once # "no"
    <3>1. UNCHANGED <<bus, stored, number, moved, once, list, driverInit>>
      BY <1>4, <2>2 DEF InitializeStore, usb
    <3> QED BY <3>1, ListStep
  <2> QED BY <2>1, <2>2
<1>5. ASSUME NEW c \in Controllers, InitializeLook(c) PROVE PlacesInv'
  <2>0. once # "no"
    BY <1>5 DEF InitializeLook, TargetInv
  <2>1. /\ UNCHANGED <<bus, list, driverInit, moved>>
        /\ once' = once \/ once' = "done"
        /\ \/ FindsChip(next) /\ StoreDevice(next)
           \/ UNCHANGED <<stored, number>>
    BY <1>5 DEF InitializeLook, usb, library
  <2>2. CASE FindsChip(next) /\ StoreDevice(next) /\ list[next] \notin Range(stored)
    <3>1. /\ next \in Places(list, list[next]) /\ list[next] \in Chips
          /\ stored' = Append(stored, list[next])
          /\ number' = [number EXCEPT ![list[next]] = next]
      BY <2>2 DEF FindsChip, StoreDevice, Places
    <3>2. /\ stored' \in Seq(Chips) /\ DOMAIN number' = Chips
          /\ Range(stored') = Range(stored) \cup {list[next]}
      BY <3>1 DEF PlacesInv, Range
    <3> QED BY <2>0, <2>1, <3>1, <3>2 DEF PlacesInv, Places
  <2>3. CASE UNCHANGED <<stored, number>>
    BY <2>0, <2>1, <2>3 DEF PlacesInv, Places, Range
  <2> QED BY <2>1, <2>2, <2>3 DEF StoreDevice
<1>6. CASE UNCHANGED vars
  BY <1>6, ListStep DEF vars, usb, library, store
<1>7. ASSUME NEW c \in Controllers,
             \/ Chooses(c)
             \/ \E n \in 1 .. 2 : GpioCall(c, n)
             \/ OpenWorking(c) \/ UseHandle(c)
      PROVE  UNCHANGED <<usb, library, store>>
  BY <1>7 DEF Chooses, GpioCall, OpenWorking, UseHandle, GoOn
<1> QED
  BY <1>1, <1>2, <1>3, <1>4, <1>5, <1>6, <1>7
     DEF Next, BusStep, Construct, ConstructWith, Select, SetDesiredSerial, SelectDesired,
         SetWorkingDevice

(* A consumer chooses what it works with, or comes with it.                *)
Selection(c) ==
  \/ \E x \in Wants[c] : Select(c, x) \/ SetDesiredSerial(c, x)
  \/ SelectDesired(c)
  \/ \E d \in Given(c) : ConstructWith(c, d) \/ SetWorkingDevice(c, d)

LEMMA SelectionFacts ==
  ASSUME NEW c \in Controllers, Selection(c), stored \in Seq(Chips),
         DOMAIN desired = Controllers
  PROVE  /\ pc[c] = "idle"
         /\ UNCHANGED <<usb, store, devices, pc, uses, threw, stored, once, moved>>
         /\ UNCHANGED <<isOpen, handle, target, claimed>>
         /\ \E d \in Range(stored) \cup {None} :
              /\ d # None => Serial[d] \in Wants[c] \/ Serial[d] = desired[c]
              /\ working' = working \/ working' = [working EXCEPT ![c] = d]
         /\ \/ desired' = desired
            \/ \E x \in Wants[c] : desired' = [desired EXCEPT ![c] = x]
         /\ DOMAIN desired' = DOMAIN desired
<1>1. UNCHANGED <<usb, store, devices, pc, uses, threw>> /\ pc[c] = "idle"
  BY DEF Selection, Select, SetDesiredSerial, SelectDesired, ConstructWith, Constructed,
         SetWorkingDevice, Chooses, Ready
<1>2. \/ \E d \in Given(c) : working' = [working EXCEPT ![c] = d] /\ desired' = desired
      \/ \E x \in Wants[c] : WorksWith(c, x) /\ desired' = [desired EXCEPT ![c] = x]
      \/ \E x \in Wants[c] : working' = working /\ desired' = [desired EXCEPT ![c] = x]
      \/ WorksWith(c, desired[c]) /\ desired' = desired
  BY DEF Selection, Select, SetDesiredSerial, SelectDesired, ConstructWith, Constructed,
         SetWorkingDevice
<1>3. \A x : WorksWith(c, x) =>
        \E d \in Range(stored) : Serial[d] = x /\ working' = [working EXCEPT ![c] = d]
  BY DEF WorksWith, IsFirst, Range
<1>4. \E d \in Range(stored) \cup {None} :
        /\ d # None => Serial[d] \in Wants[c] \/ Serial[d] = desired[c]
        /\ working' = working \/ working' = [working EXCEPT ![c] = d]
  <2> DEFINE Works(d) ==
        /\ d # None => Serial[d] \in Wants[c] \/ Serial[d] = desired[c]
        /\ working' = working \/ working' = [working EXCEPT ![c] = d]
  <2>1. ASSUME NEW d \in Given(c), working' = [working EXCEPT ![c] = d]
        PROVE  d \in Range(stored) \cup {None} /\ Works(d)
    BY <2>1 DEF Given
  <2>2. ASSUME NEW x, x \in Wants[c] \/ x = desired[c], WorksWith(c, x)
        PROVE  \E d \in Range(stored) : Works(d)
    BY <1>3, <2>2
  <2>3. working' = working => Works(None)
    OBVIOUS
  <2> HIDE DEF Works
  <2>4. \E d \in Range(stored) \cup {None} : Works(d)
    BY <1>2, <2>1, <2>2, <2>3
  <2> QED BY <2>4 DEF Works
<1> QED BY <1>1, <1>2, <1>4 DEF store, devices

LEMMA TargetStep == PlacesInv /\ TargetInv /\ [Next]_vars => TargetInv'
<1> SUFFICES ASSUME PlacesInv, TargetInv, [Next]_vars PROVE TargetInv'
  OBVIOUS
<1> USE ControllerAssumption DEF Usb
<1>1. ASSUME NEW d \in Usb, Plug(d) PROVE TargetInv'
  BY <1>1 DEF Plug, BusBecomes, consumers, TargetInv, Range
<1>2. ASSUME NEW d \in Usb, Unplug(d) PROVE TargetInv'
  BY <1>2 DEF Unplug, BusBecomes, consumers, TargetInv, PlacesInv, Range
<1>3. ASSUME NEW c \in Controllers, Construct(c) \/ CountDevices(c) PROVE TargetInv'
  BY <1>3 DEF Construct, Constructed, CountDevices, store, devices, consumers, TargetInv
<1>4. ASSUME NEW c \in Controllers, Destroy(c) PROVE TargetInv'
  BY <1>4 DEF Destroy, Ready, store, devices, TargetInv
<1>5. ASSUME NEW c \in Controllers, InitializeCount(c) PROVE TargetInv'
  BY <1>5 DEF InitializeCount, Ready, store, devices, TargetInv
<1>6. ASSUME NEW c \in Controllers, InitializeStore(c) PROVE TargetInv'
  BY <1>6 DEF InitializeStore, devices, TargetInv, PlacesInv, Range
<1>7. ASSUME NEW c \in Controllers, InitializeLook(c) PROVE TargetInv'
  <2>1. /\ UNCHANGED <<moved, handle, target, working, desired>>
        /\ once' = once \/ once' = "done"
        /\ pc' = pc \/ pc' = [pc EXCEPT ![c] = "idle"]
    BY <1>7 DEF InitializeLook, devices
  <2>2. /\ Range(stored) \subseteq Range(stored')
        /\ \A s \in Range(stored') \ Range(stored) : s \in Chips
    <3>1. CASE stored' = stored
      BY <3>1
    <3>2. CASE stored' = Append(stored, list[next]) /\ list[next] \in Chips
      BY <3>2 DEF PlacesInv, Range
    <3> QED BY <1>7, <3>1, <3>2 DEF InitializeLook, FindsChip, StoreDevice
  <2> QED BY <2>1, <2>2 DEF TargetInv
<1>8. ASSUME NEW c \in Controllers, Selection(c) PROVE TargetInv'
  <2>1. PICK d \in Range(stored) \cup {None} :
          /\ working' = working \/ working' = [working EXCEPT ![c] = d]
          /\ UNCHANGED <<moved, handle, target, stored, once, pc>>
          /\ pc[c] = "idle" /\ DOMAIN desired' = DOMAIN desired
    <3>1. stored \in Seq(Chips) /\ DOMAIN desired = Controllers
      BY DEF PlacesInv, TargetInv
    <3> QED BY <1>8, <3>1, SelectionFacts
  <2> QED BY <2>1 DEF TargetInv
<1>9. ASSUME NEW c \in Controllers, NEW n \in 1 .. 2, GpioCall(c, n) PROVE TargetInv'
  BY <1>9 DEF GpioCall, GoOn, CheckOpen, Ready, store, devices, TargetInv
<1>10. ASSUME NEW c \in Controllers, OpenWorking(c) PROVE TargetInv'
  BY <1>10 DEF OpenWorking, Opens, GoOn, store, TargetInv, PlacesInv, Places, Range
<1>11. ASSUME NEW c \in Controllers, UseHandle(c) PROVE TargetInv'
  BY <1>11 DEF UseHandle, GoOn, CheckOpen, store, devices, TargetInv
<1>12. CASE UNCHANGED vars
  BY <1>12 DEF vars, store, devices, consumers, TargetInv
<1> QED
  BY <1>1, <1>2, <1>3, <1>4, <1>5, <1>6, <1>7, <1>8, <1>9, <1>10, <1>11, <1>12
     DEF Next, BusStep, Selection

(* A GPIO request goes to the device that the controller works with,       *)
(* though the position that was stored is looked up in a list that is *)
(* rebuilt by every call that counts devices, unless that device was moved *)
(* on the bus since the devices were stored.                               *)
THEOREM RequestsReachSelected == Spec => []DrivesSelected
<1>1. PlacesInv /\ TargetInv => DrivesSelected
  <2> SUFFICES ASSUME PlacesInv, TargetInv, NEW c \in Controllers, pc[c] = "use",
                      working[c] \notin moved, handle[working[c]] = "open"
               PROVE  target[working[c]] = working[c]
    BY DEF DrivesSelected
  <2> QED BY DEF PlacesInv, TargetInv, Range
<1> QED BY <1>1, PlacesInitial, PlacesStep, TargetStep, PTL DEF Spec

(* Consumer c is at a place where its working device matters. *)
Busy(c) == pc[c] \in {"open", "use"}

Types ==
  /\ isOpen \in [Chips -> BOOLEAN]
  /\ handle \in [Chips -> {"null", "open", "freed"}]
  /\ working \in [Controllers -> Chips \cup {None}]
  /\ pc \in [Controllers -> {"idle", "store", "look", "open", "use"}]
  /\ DOMAIN target = Chips
  /\ DOMAIN desired = Controllers
  /\ \A c \in Controllers : desired[c] \in Wants[c] \cup {None}
  /\ \A c \in Controllers : working[c] # None => Serial[working[c]] \in Wants[c]
  /\ \A c \in Controllers : Busy(c) => working[c] # None

(* Consumers that are busy at the same time work with different devices. *)
Apart ==
  \A b, c \in Controllers : Busy(b) /\ Busy(c) /\ b # c => working[b] # working[c]

OneActive ==
  OneThread => \A b, c \in Controllers : pc[b] # "idle" /\ pc[c] # "idle" => b = c

OpenInv ==
  /\ Types
  /\ OneActive
  /\ Apart
  /\ \A s \in Chips : isOpen[s] => handle[s] = "open"
  /\ \A c \in Controllers : pc[c] = "open" => ~isOpen[working[c]]
  /\ \A c \in Controllers : pc[c] = "use" => isOpen[working[c]]
  /\ \A d \in claimed : \E s \in Chips : isOpen[s] /\ target[s] = d

(* One thread drives all controllers, or each consumer selects devices of  *)
(* its own.                                                                *)
Exclusive ==
  OneThread \/ \A b, c \in Controllers : b # c => Wants[b] \cap Wants[c] = {}

LEMMA OpenInitial == Init => OpenInv
BY ControllerAssumption DEF Init, OpenInv, Types, OneActive, Apart, Busy

LEMMA ApartFollows ==
  ASSUME Exclusive, Types, OneActive
  PROVE  Apart
BY ControllerAssumption DEF Exclusive, Types, OneActive, Apart, Busy

LEMMA OpenStep == Exclusive /\ PlacesInv /\ OpenInv /\ [Next]_vars => OpenInv'
<1> SUFFICES ASSUME Exclusive, PlacesInv, OpenInv, [Next]_vars PROVE OpenInv'
  OBVIOUS
<1> USE ControllerAssumption
<1>0. Types' /\ OneActive' => Apart'
  <2>1. Exclusive'
    BY DEF Exclusive
  <2> QED BY <2>1 DEF Exclusive, Types, OneActive, Apart, Busy
<1>1. CASE UNCHANGED vars
  BY <1>1 DEF vars, devices, consumers, OpenInv, Types, OneActive, Apart, Busy
<1>2. ASSUME NEW c \in Controllers, Construct(c) \/ CountDevices(c) PROVE OpenInv'
  BY <1>2 DEF Construct, Constructed, CountDevices, devices, consumers, OpenInv, Types, OneActive, Apart, Busy
<1>3. ASSUME NEW c \in Controllers, Destroy(c) PROVE OpenInv'
  <2>1. /\ pc[c] = "idle" /\ UNCHANGED <<isOpen, handle, target, claimed, pc>>
        /\ working' = [working EXCEPT ![c] = None]
        /\ desired' = [desired EXCEPT ![c] = None]
    BY <1>3 DEF Destroy, Ready, devices
  <2> QED BY <2>1 DEF OpenInv, Types, OneActive, Apart, Busy
<1>4. ASSUME NEW c \in Controllers, InitializeCount(c) PROVE OpenInv'
  <2>1. /\ pc[c] = "idle" /\ OneThread => \A b \in Controllers : pc[b] = "idle"
        /\ UNCHANGED <<isOpen, handle, target, claimed, desired>>
        /\ working' = [working EXCEPT ![c] = None]
        /\ \/ pc' = [pc EXCEPT ![c] = "store"]
           \/ pc' = [pc EXCEPT ![c] = "idle"]
    BY <1>4 DEF InitializeCount, Ready, devices
  <2> QED BY <2>1 DEF OpenInv, Types, OneActive, Apart, Busy
<1>5. ASSUME NEW c \in Controllers, InitializeStore(c) PROVE OpenInv'
  <2>1. /\ pc[c] = "store"
        /\ UNCHANGED <<isOpen, handle, target, claimed, working, desired>>
        /\ \/ pc' = [pc EXCEPT ![c] = "look"]
           \/ pc' = [pc EXCEPT ![c] = "idle"]
    BY <1>5 DEF InitializeStore, devices
  <2> QED BY <2>1 DEF OpenInv, Types, OneActive, Apart, Busy
<1>6. ASSUME NEW c \in Controllers, InitializeLook(c) PROVE OpenInv'
  <2>1. /\ pc[c] = "look"
        /\ UNCHANGED <<isOpen, handle, target, claimed, working, desired>>
        /\ pc' = pc \/ pc' = [pc EXCEPT ![c] = "idle"]
    BY <1>6 DEF InitializeLook, devices
  <2> QED BY <2>1 DEF OpenInv, Types, OneActive, Apart, Busy
<1>7. ASSUME NEW c \in Controllers, Selection(c) PROVE OpenInv'
  <2>1. PICK d \in Range(stored) \cup {None} :
          /\ d # None => Serial[d] \in Wants[c] \/ Serial[d] = desired[c]
          /\ working' = working \/ working' = [working EXCEPT ![c] = d]
          /\ UNCHANGED <<isOpen, handle, target, claimed, pc>>
          /\ pc[c] = "idle"
          /\ \/ desired' = desired
             \/ \E x \in Wants[c] : desired' = [desired EXCEPT ![c] = x]
    BY <1>7, SelectionFacts DEF PlacesInv, OpenInv, Types
  <2>2. d # None => d \in Chips /\ Serial[d] \in Wants[c]
    <3>1. d # None => d \in Chips
      BY DEF PlacesInv, Range
    <3>2. desired[c] \in Wants[c] \cup {None}
      BY DEF OpenInv, Types
    <3> QED BY <2>1, <3>1, <3>2
  <2>3. Types'
    BY <2>1, <2>2 DEF OpenInv, Types, Busy
  <2>4. OneActive'
    BY <2>1 DEF OpenInv, OneActive
  <2>5. \A b \in Controllers : Busy(b) => working'[b] = working[b]
    BY <2>1 DEF OpenInv, Types, Busy
  <2> QED BY <1>0, <2>1, <2>3, <2>4, <2>5 DEF OpenInv, Busy
<1>8. ASSUME NEW c \in Controllers, NEW n \in 1 .. 2, GpioCall(c, n) PROVE OpenInv'
  <2>1. /\ pc[c] = "idle" /\ (OneThread => \A b \in Controllers : pc[b] = "idle")
        /\ UNCHANGED <<isOpen, handle, target, claimed, working, desired>>
        /\ \/ UNCHANGED pc
           \/ /\ working[c] # None
              /\ pc' = [pc EXCEPT ![c] = IF isOpen[working[c]] THEN "use" ELSE "open"]
    BY <1>8 DEF GpioCall, GoOn, Ready, CheckOpen, devices
  <2>2. Types' /\ OneActive'
    BY <2>1 DEF OpenInv, Types, OneActive, Busy
  <2>3. /\ (\A b \in Controllers : pc[b] = "open" => ~isOpen[working[b]])'
        /\ (\A b \in Controllers : pc[b] = "use" => isOpen[working[b]])'
    BY <2>1 DEF OpenInv, Types
  <2> QED BY <1>0, <2>1, <2>2, <2>3 DEF OpenInv
<1>9. ASSUME NEW c \in Controllers, OpenWorking(c) PROVE OpenInv'
  <2>1. PICK s \in Chips : s = working[c] /\ ~isOpen[s]
    BY <1>9 DEF OpenWorking, OpenInv, Types, Busy
  <2>2. \A b \in Controllers : b # c /\ Busy(b) => working[b] # s /\ working[b] \in Chips
    BY <1>9, <2>1 DEF OpenWorking, OpenInv, Types, Apart, Busy
  <2>3. CASE /\ isOpen' = [isOpen EXCEPT ![s] = TRUE]
             /\ handle' = [handle EXCEPT ![s] = "open"]
             /\ target' = [target EXCEPT ![s] = Opens(s)]
             /\ claimed' = claimed \cup {Opens(s)}
             /\ pc' = [pc EXCEPT ![c] = "use"]
             /\ pc[c] = "open"
             /\ UNCHANGED <<working, desired>>
    <3>1. Types' /\ OneActive'
      BY <2>3 DEF OpenInv, Types, OneActive, Busy
    <3>2. /\ (\A r \in Chips : isOpen[r] => handle[r] = "open")'
          /\ (\A b \in Controllers : pc[b] = "open" => ~isOpen[working[b]])'
          /\ (\A b \in Controllers : pc[b] = "use" => isOpen[working[b]])'
      BY <2>1, <2>2, <2>3 DEF OpenInv, Types, Busy
    <3>3. \A d \in claimed' : \E r \in Chips : isOpen'[r] /\ target'[r] = d
      BY <2>1, <2>3 DEF OpenInv, Types
    <3> QED BY <1>0, <3>1, <3>2, <3>3 DEF OpenInv
  <2>4. CASE /\ handle' = handle \/ handle' = [handle EXCEPT ![s] = "freed"]
             /\ pc' = [pc EXCEPT ![c] = "idle"]
             /\ pc[c] = "open"
             /\ UNCHANGED <<isOpen, target, claimed, working, desired>>
    <3>1. Types' /\ OneActive'
      BY <2>4 DEF OpenInv, Types, OneActive, Busy
    <3>2. /\ (\A r \in Chips : isOpen[r] => handle[r] = "open")'
          /\ (\A b \in Controllers : pc[b] = "open" => ~isOpen[working[b]])'
          /\ (\A b \in Controllers : pc[b] = "use" => isOpen[working[b]])'
      BY <2>1, <2>2, <2>4 DEF OpenInv, Types, Busy
    <3> QED BY <1>0, <2>4, <3>1, <3>2 DEF OpenInv
  <2> QED BY <1>9, <2>1, <2>3, <2>4 DEF OpenWorking, GoOn
<1>10. ASSUME NEW c \in Controllers, UseHandle(c) PROVE OpenInv'
  <2>1. /\ pc[c] = "use"
        /\ UNCHANGED <<isOpen, handle, target, claimed, working, desired>>
        /\ \/ pc' = [pc EXCEPT ![c] = "idle"]
           \/ pc' = [pc EXCEPT ![c] = IF isOpen[working[c]] THEN "use" ELSE "open"]
    BY <1>10 DEF UseHandle, GoOn, CheckOpen, devices
  <2> QED BY <2>1 DEF OpenInv, Types, OneActive, Apart, Busy
<1>11. ASSUME NEW d \in Usb, Plug(d) PROVE OpenInv'
  BY <1>11 DEF Plug, BusBecomes, consumers, OpenInv, Types, OneActive, Apart, Busy
<1>12. ASSUME NEW d \in Usb, Unplug(d) PROVE OpenInv'
  <2>1. /\ UNCHANGED <<isOpen, handle, working, desired, pc>>
        /\ claimed' = claimed \ {d}
        /\ target' = [s \in Chips |-> IF target[s] = d THEN None ELSE target[s]]
    BY <1>12 DEF Unplug, BusBecomes, consumers
  <2> QED BY <2>1 DEF OpenInv, Types, OneActive, Apart, Busy
<1> QED
  BY <1>1, <1>2, <1>3, <1>4, <1>5, <1>6, <1>7, <1>8, <1>9, <1>10, <1>11, <1>12
     DEF Next, BusStep, Selection

(* If one thread drives all controllers, or each consumer selects devices  *)
(* of its own, every GPIO request goes out on an open handle: a handle that *)
(* CyOpen has freed, or one that a second CyOpen has overwritten, is never *)
(* used.                                                                   *)
THEOREM ControllersUseOpenHandles ==
  ASSUME Exclusive PROVE Spec => []UsesOpenHandle
<1>1. OpenInv => UsesOpenHandle
  BY DEF OpenInv, Types, Busy, UsesOpenHandle
<1> QED BY <1>1, PlacesInitial, OpenInitial, PlacesStep, TargetStep, OpenStep, PTL DEF Spec

(* Under the same condition every interface that is claimed is claimed by  *)
(* the handle of a stored device that is open: no second CyOpen overwrites *)
(* a handle that is in use.                                                *)
THEOREM ControllersKeepHandles ==
  ASSUME Exclusive PROVE Spec => []NoHandleLost
<1>1. OpenInv => NoHandleLost
  BY DEF OpenInv, NoHandleLost
<1> QED BY <1>1, PlacesInitial, OpenInitial, PlacesStep, TargetStep, OpenStep, PTL DEF Spec

-----------------------------------------------------------------------------
(* The library never lists a device twice, hence no more devices than      *)
(* there are.                                                              *)
LEMMA BusFits ==
  ASSUME NEW b \in Seq(Usb), IsInjective(b)
  PROVE  Len(b) \in 0 .. Cardinality(Usb)
<1>1. b \in Injection(1 .. Len(b), Usb) /\ Len(b) \in Nat
  BY DEF Injection
<1>2. Cardinality(1 .. Len(b)) = IF 1 > Len(b) THEN 0 ELSE Len(b) - 1 + 1
  <2>1. 1 \in Int /\ Len(b) \in Int
    BY <1>1
  <2> QED BY <2>1, FS_Interval, Zenon
<1>3. Cardinality(Usb) \in Nat
  BY ControllerAssumption, FS_CardinalityType
<1>4. Cardinality(1 .. Len(b)) <= Cardinality(Usb)
  BY <1>1, ControllerAssumption, FS_Injection, Zenon
<1> QED BY <1>1, <1>2, <1>3, <1>4

LEMMA PluggedBus ==
  ASSUME NEW b \in Seq(Usb), IsInjective(b), NEW d \in Usb, d \notin Range(b),
         NEW i \in 1 .. Len(b) + 1
  PROVE  InsertAt(b, i, d) \in Seq(Usb) /\ IsInjective(InsertAt(b, i, d))
<1> DEFINE r == InsertAt(b, i, d)
<1>1. /\ Len(b) \in Nat /\ b \in [1 .. Len(b) -> Usb]
      /\ \A j \in 1 .. Len(b) : b[j] # d
  BY DEF Range
<1>2. /\ r \in Seq(Usb) /\ Len(r) = Len(b) + 1
      /\ \A j \in 1 .. Len(b) + 1 :
           r[j] = IF j < i THEN b[j] ELSE IF j = i THEN d ELSE b[j - 1]
  <2> DEFINE p == SubSeq(b, 1, i - 1)
             q == SubSeq(b, i, Len(b))
             m == p \o <<d>>
  <2>1. /\ p \in Seq(Usb) /\ Len(p) = i - 1
        /\ \A j \in 1 .. i - 1 : p[j] = b[j]
    BY <1>1, SubSeqProperties
  <2>2. /\ q \in Seq(Usb) /\ Len(q) = Len(b) - i + 1
        /\ \A j \in 1 .. Len(b) - i + 1 : q[j] = b[i + j - 1]
    BY <1>1, SubSeqProperties
  <2>3. r = m \o q
    BY DEF InsertAt
  <2> HIDE DEF p, q
  <2>4. /\ m \in Seq(Usb) /\ Len(m) = i
        /\ \A j \in 1 .. i : m[j] = IF j < i THEN b[j] ELSE d
    BY <1>1, <2>1
  <2> HIDE DEF m, r
  <2>5. /\ m \o q \in Seq(Usb) /\ Len(m \o q) = Len(b) + 1
        /\ \A j \in 1 .. Len(b) + 1 : (m \o q)[j] = IF j <= i THEN m[j] ELSE q[j - i]
    <3>1. Len(m) + Len(q) = Len(b) + 1
      BY <1>1, <2>2, <2>4
    <3>2. /\ m \o q \in Seq(Usb) /\ Len(m \o q) = Len(m) + Len(q)
          /\ \A j \in 1 .. Len(m) + Len(q) :
               (m \o q)[j] = IF j <= Len(m) THEN m[j] ELSE q[j - Len(m)]
      BY <2>2, <2>4, ConcatProperties, Zenon
    <3> QED BY <2>4, <3>1, <3>2, Zenon
  <2>6. ASSUME NEW j \in 1 .. Len(b) + 1, j > i
        PROVE  q[j - i] = b[j - 1]
    <3>1. j - i \in 1 .. Len(b) - i + 1 /\ i + (j - i) - 1 = j - 1
      BY <1>1, <2>6
    <3> QED BY <2>2, <3>1
  <2> QED BY <1>1, <2>3, <2>4, <2>5, <2>6
<1> HIDE DEF r
<1>3. \A j \in 1 .. Len(b), k \in 1 .. Len(b) : b[j] = b[k] => j = k
  BY <1>1 DEF IsInjective
<1>4. ASSUME NEW j \in 1 .. Len(b) + 1, NEW k \in 1 .. Len(b) + 1, r[j] = r[k]
      PROVE  j = k
  <2> DEFINE from(n) == IF n < i THEN n ELSE n - 1
  <2>1. \A n \in 1 .. Len(b) + 1 : n # i => from(n) \in 1 .. Len(b) /\ r[n] = b[from(n)]
    BY <1>1, <1>2
  <2>2. CASE j = i \/ k = i
    BY <1>1, <1>2, <1>4, <2>1, <2>2
  <2>3. CASE j # i /\ k # i
    <3>1. from(j) = from(k)
      BY <1>3, <1>4, <2>1, <2>3
    <3> QED BY <1>1, <2>3, <3>1
  <2> QED BY <2>2, <2>3
<1>5. DOMAIN r = 1 .. Len(b) + 1
  BY <1>1, <1>2
<1>6. IsInjective(r)
  BY <1>4, <1>5 DEF IsInjective
<1> QED BY <1>2, <1>6 DEF r

LEMMA LengthAfter ==
  ASSUME NEW n \in Nat, NEW i \in 1 .. n
  PROVE  n - i = IF i + 1 <= n THEN n - (i + 1) + 1 ELSE 0
OBVIOUS

LEMMA UnpluggedBus ==
  ASSUME NEW b \in Seq(Usb), IsInjective(b), NEW i \in 1 .. Len(b)
  PROVE  RemoveAt(b, i) \in Seq(Usb) /\ IsInjective(RemoveAt(b, i))
<1> DEFINE r == RemoveAt(b, i)
           from(n) == IF n < i THEN n ELSE n + 1
<1>1. Len(b) \in Nat /\ b \in [1 .. Len(b) -> Usb]
  OBVIOUS
<1>2. /\ r \in Seq(Usb) /\ Len(r) = Len(b) - 1
      /\ \A j \in 1 .. Len(b) - 1 : from(j) \in 1 .. Len(b) /\ r[j] = b[from(j)]
  <2> DEFINE p == SubSeq(b, 1, i - 1)
             q == SubSeq(b, i + 1, Len(b))
  <2>1. /\ p \in Seq(Usb) /\ Len(p) = i - 1
        /\ \A j \in 1 .. i - 1 : p[j] = b[j]
    BY <1>1, SubSeqProperties
  <2>2. /\ q \in Seq(Usb) /\ Len(q) = Len(b) - i
        /\ \A j \in 1 .. Len(b) - i : q[j] = b[i + j]
    <3>1. \A j \in i + 1 .. Len(b) : b[j] \in Usb
      BY <1>1
    <3>2. /\ q \in Seq(Usb)
          /\ Len(q) = IF i + 1 <= Len(b) THEN Len(b) - (i + 1) + 1 ELSE 0
          /\ \A j \in 1 .. Len(b) - (i + 1) + 1 : q[j] = b[(i + 1) + j - 1]
      BY <1>1, <3>1, SubSeqProperties
    <3> HIDE DEF q
    <3>3. ASSUME NEW j \in 1 .. Len(b) - i PROVE q[j] = b[i + j]
      <4>1. j \in 1 .. Len(b) - (i + 1) + 1 /\ (i + 1) + j - 1 = i + j
        BY <1>1
      <4> QED BY <3>2, <4>1
    <3>4. Len(q) = Len(b) - i
      <4>1. Len(b) - i = IF i + 1 <= Len(b) THEN Len(b) - (i + 1) + 1 ELSE 0
        BY <1>1, LengthAfter, Zenon
      <4> QED BY <3>2, <4>1, SMT
    <3> QED BY <3>2, <3>3, <3>4
  <2>3. r = p \o q
    BY DEF RemoveAt
  <2> HIDE DEF p, q, r
  <2>4. /\ p \o q \in Seq(Usb) /\ Len(p \o q) = Len(b) - 1
        /\ \A j \in 1 .. Len(b) - 1 : (p \o q)[j] = IF j <= i - 1 THEN p[j] ELSE q[j - (i - 1)]
    <3>1. Len(p) + Len(q) = Len(b) - 1
      BY <1>1, <2>1, <2>2
    <3>2. /\ p \o q \in Seq(Usb) /\ Len(p \o q) = Len(p) + Len(q)
          /\ \A j \in 1 .. Len(p) + Len(q) :
               (p \o q)[j] = IF j <= Len(p) THEN p[j] ELSE q[j - Len(p)]
      BY <2>1, <2>2, ConcatProperties, Zenon
    <3> QED BY <2>1, <3>1, <3>2, Zenon
  <2>5. ASSUME NEW j \in 1 .. Len(b) - 1, j >= i
        PROVE  q[j - (i - 1)] = b[j + 1]
    <3>1. j - (i - 1) \in 1 .. Len(b) - i /\ i + (j - (i - 1)) = j + 1
      BY <1>1, <2>5
    <3> QED BY <2>2, <3>1
  <2>6. ASSUME NEW j \in 1 .. Len(b) - 1
        PROVE  from(j) \in 1 .. Len(b) /\ r[j] = b[from(j)]
    <3>1. CASE j < i
      BY <1>1, <2>1, <2>3, <2>4, <3>1
    <3>2. CASE j >= i
      BY <1>1, <2>3, <2>4, <2>5, <3>2
    <3> QED BY <1>1, <3>1, <3>2
  <2> QED BY <2>3, <2>4, <2>6
<1> HIDE DEF r
<1>3. \A j \in 1 .. Len(b), k \in 1 .. Len(b) : b[j] = b[k] => j = k
  BY <1>1 DEF IsInjective
<1>4. DOMAIN r = 1 .. Len(b) - 1
  BY <1>1, <1>2
<1>5. ASSUME NEW j \in DOMAIN r, NEW k \in DOMAIN r, r[j] = r[k]
      PROVE  j = k
  <2>1. from(j) = from(k)
    BY <1>2, <1>3, <1>4, <1>5
  <2> QED BY <1>1, <1>4, <2>1
<1>6. IsInjective(r)
  BY <1>5 DEF IsInjective
<1> QED BY <1>2, <1>6 DEF r

(* A call that is about to send a request has a device and one or two      *)
(* requests to send.                                                       *)
TypeInv ==
  /\ TypeOK
  /\ IsInjective(bus)
  /\ \A c \in Controllers : Busy(c) => uses[c] \in 1 .. 2 /\ working[c] # None

(* The part that a GPIO call changes. *)
CallTypes ==
  /\ pc \in [Controllers -> {"idle", "store", "look", "open", "use"}]
  /\ uses \in [Controllers -> 0 .. 2]
  /\ \A c \in Controllers : Busy(c) => uses[c] \in 1 .. 2 /\ working[c] # None

(* A step of a controller, or one that lets Main select any chip.           *)
AnyNext == Next \/ \E s \in Chips : Select(Main, Serial[s])

LEMMA TypeInitial == Init => TypeInv
<1> SUFFICES ASSUME Init PROVE TypeInv
  OBVIOUS
<1>1. Cardinality(Usb) \in Nat
  BY ControllerAssumption, FS_CardinalityType
<1>2. bus \in Seq(Usb) /\ IsInjective(bus)
  BY <1>1 DEF Init, Buses
<1>3. stored \in Seq(Chips) /\ list \in Seq(Usb \cup {None})
  BY DEF Init
<1>4. limit \in 0 .. Cardinality(Usb) /\ next \in 1 .. limit + 1 /\ changes \in 0 .. MaxChanges
  BY <1>1, ControllerAssumption DEF Init
<1>5. /\ working \in [Controllers -> Range(stored) \cup {None}]
      /\ desired \in [Controllers -> {Serial[s] : s \in Chips} \cup {None}]
  BY DEF Init
<1>6. /\ ref \in 0 .. 1 /\ number \in [Chips -> Nat] /\ uses \in [Controllers -> 0 .. 2]
      /\ claimed \subseteq Usb /\ alive \subseteq Controllers /\ moved \subseteq Chips
      /\ driverInit \in BOOLEAN /\ once \in {"no", "running", "done"}
  <2>1. /\ ref = 0 /\ number = [s \in Chips |-> 0] /\ uses = [c \in Controllers |-> 0]
        /\ claimed = {} /\ alive = {} /\ moved = {} /\ driverInit = FALSE /\ once = "no"
    BY DEF Init
  <2>2. ref \in 0 .. 1 /\ number \in [Chips -> Nat] /\ uses \in [Controllers -> 0 .. 2]
    BY <2>1
  <2> QED BY <2>1, <2>2, Zenon
<1>7. /\ isOpen \in [Chips -> BOOLEAN] /\ handle \in [Chips -> {"null", "open", "freed"}]
      /\ target \in [Chips -> Usb \cup {None}]
      /\ initialized \in [Controllers -> BOOLEAN] /\ threw \in [Controllers -> BOOLEAN]
      /\ pc \in [Controllers -> {"idle", "store", "look", "open", "use"}]
  BY DEF Init
<1>8. TypeOK
  BY <1>2, <1>3, <1>4, <1>5, <1>6, <1>7, Zenon DEF TypeOK
<1> QED BY <1>2, <1>8 DEF Init, TypeInv, Busy

LEMMA TypeStep == TypeInv /\ [AnyNext]_vars => TypeInv'
<1> SUFFICES ASSUME TypeInv, [AnyNext]_vars PROVE TypeInv'
  OBVIOUS
<1> USE ControllerAssumption
<1>0. /\ Cardinality(Usb) \in Nat /\ Len(bus) \in 0 .. Cardinality(Usb)
      /\ bus \in Seq(Usb) /\ IsInjective(bus)
  BY BusFits, FS_CardinalityType DEF TypeInv, TypeOK
<1>1. ASSUME NEW d \in Usb, Plug(d) PROVE TypeInv'
  <2>1. bus' \in Seq(Usb) /\ IsInjective(bus')
    BY <1>0, <1>1, PluggedBus DEF Plug, BusBecomes
  <2>2. /\ changes' \in 0 .. MaxChanges /\ moved' \subseteq Chips
        /\ UNCHANGED <<list, target, claimed, ref, driverInit, once, limit, next, stored, number,
                       isOpen, handle, consumers>>
    BY <1>1 DEF Plug, BusBecomes, TypeInv, TypeOK
  <2> QED BY <2>1, <2>2 DEF TypeInv, TypeOK, consumers, Busy
<1>2. ASSUME NEW d \in Usb, Unplug(d) PROVE TypeInv'
  <2>1. PICK i \in Places(bus, d) : BusBecomes(d, RemoveAt(bus, i))
    BY <1>2 DEF Unplug
  <2>2. bus' \in Seq(Usb) /\ IsInjective(bus')
    BY <1>0, <2>1, UnpluggedBus DEF Places, BusBecomes
  <2>3. /\ changes' \in 0 .. MaxChanges /\ moved' \subseteq Chips
        /\ UNCHANGED <<ref, driverInit, once, limit, next, stored, number, isOpen, handle, consumers>>
    BY <2>1 DEF BusBecomes, TypeInv, TypeOK
  <2>4. /\ list' \in Seq(Usb \cup {None})
        /\ target' \in [Chips -> Usb \cup {None}] /\ claimed' \subseteq Usb
    <3>1. /\ list' = [j \in DOMAIN list |-> IF list[j] = d THEN None ELSE list[j]]
          /\ list \in Seq(Usb \cup {None})
      BY <1>2 DEF Unplug, TypeInv, TypeOK
    <3>2. list' \in Seq(Usb \cup {None})
      BY <3>1
    <3> QED BY <1>2, <3>2 DEF Unplug, TypeInv, TypeOK
  <2> QED BY <2>2, <2>3, <2>4 DEF TypeInv, TypeOK, consumers, Busy
<1>3. ASSUME NEW c \in Controllers, Constructed(c) \/ Destroy(c),
             working' \in [Controllers -> Range(stored) \cup {None}],
             initialized' \in [Controllers -> BOOLEAN],
             \A b \in Controllers : b # c => working'[b] = working[b]
      PROVE  TypeInv'
  <2>1. /\ list' \in Seq(Usb \cup {None})
        /\ ref' \in 0 .. 1 /\ driverInit' \in BOOLEAN /\ alive' \subseteq Controllers
    <3>1. /\ ref' \in 0 .. 1
          /\ \/ list' = bus /\ driverInit' = TRUE
             \/ list' = <<>> /\ driverInit' = FALSE
             \/ UNCHANGED <<list, driverInit>>
      BY <1>3, CountFacts DEF Constructed, Destroy, TypeInv, TypeOK
    <3>2. list' \in Seq(Usb \cup {None})
      <4>1. list \in Seq(Usb \cup {None})
        BY DEF TypeInv, TypeOK
      <4>2. bus \in Seq(Usb \cup {None})
        <5>1. bus \in Seq(Usb)
          BY <1>0
        <5> QED BY <5>1
      <4>3. <<>> \in Seq(Usb \cup {None})
        OBVIOUS
      <4> QED BY <3>1, <4>1, <4>2, <4>3, Zenon
    <3>3. alive' \subseteq Controllers
      BY <1>3 DEF Constructed, Destroy, TypeInv, TypeOK
    <3>4. driverInit' \in BOOLEAN
      BY <3>1 DEF TypeInv, TypeOK
    <3> QED BY <3>1, <3>2, <3>3, <3>4, Zenon
  <2>2. /\ UNCHANGED <<usb, store, devices, pc, uses, threw>>
        /\ desired' \in [Controllers -> {Serial[s] : s \in Chips} \cup {None}]
        /\ pc[c] = "idle"
    BY <1>3 DEF Constructed, Destroy, Ready, TypeInv, TypeOK
  <2> QED BY <1>3, <2>1, <2>2 DEF TypeInv, TypeOK, usb, store, devices, Busy
<1>4. ASSUME NEW c \in Controllers, CountDevices(c) \/ InitializeCount(c) PROVE TypeInv'
  <2>1. list' \in Seq(Usb \cup {None})
    BY <1>0, <1>4 DEF CountDevices, InitializeCount, Recount, TypeInv, TypeOK
  <2>2. /\ UNCHANGED <<usb, ref, driverInit, store, devices, alive, desired, uses, threw>>
        /\ initialized' \in [Controllers -> BOOLEAN]
        /\ working' \in [Controllers -> Range(stored) \cup {None}]
        /\ \/ UNCHANGED <<pc, working>>
           \/ /\ pc[c] = "idle" /\ working' = [working EXCEPT ![c] = None]
              /\ pc' = [pc EXCEPT ![c] = "store"] \/ pc' = [pc EXCEPT ![c] = "idle"]
    BY <1>4 DEF CountDevices, InitializeCount, Ready, consumers, TypeInv, TypeOK
  <2> QED BY <2>1, <2>2 DEF TypeInv, TypeOK, usb, store, devices, Busy
<1>5. ASSUME NEW c \in Controllers, InitializeStore(c) PROVE TypeInv'
  <2>1. /\ list' \in Seq(Usb \cup {None}) /\ once' \in {"no", "running", "done"}
        /\ limit' \in 0 .. Cardinality(Usb) /\ next' \in 1 .. limit' + 1
        /\ moved' \subseteq Chips
    BY <1>0, <1>5 DEF InitializeStore, Recount, TypeInv, TypeOK
  <2>2. /\ UNCHANGED <<usb, ref, driverInit, stored, number, devices, alive, working, desired, uses, threw>>
        /\ initialized' \in [Controllers -> BOOLEAN]
        /\ pc' = [pc EXCEPT ![c] = "look"] \/ pc' = [pc EXCEPT ![c] = "idle"]
    BY <1>5 DEF InitializeStore, TypeInv, TypeOK
  <2> QED BY <2>1, <2>2 DEF TypeInv, TypeOK, usb, devices, Busy
<1>6. ASSUME NEW c \in Controllers, InitializeLook(c) PROVE TypeInv'
  <2>1. next \in Nat /\ limit \in Nat /\ next' \in 1 .. limit + 1
    BY <1>0, <1>6 DEF InitializeLook, TypeInv, TypeOK
  <2>2. stored' \in Seq(Chips) /\ Range(stored) \subseteq Range(stored') /\ number' \in [Chips -> Nat]
    <3>1. CASE UNCHANGED <<stored, number>>
      BY <3>1 DEF TypeInv, TypeOK
    <3>2. CASE /\ list[next] \in Chips /\ stored' = Append(stored, list[next])
               /\ number' = [number EXCEPT ![list[next]] = next]
      <4>1. stored \in Seq(Chips) /\ number \in [Chips -> Nat]
        BY DEF TypeInv, TypeOK
      <4>2. stored' \in Seq(Chips) /\ number' \in [Chips -> Nat]
        BY <2>1, <3>2, <4>1
      <4>3. Range(stored) \subseteq Range(stored')
        BY <3>2, <4>1 DEF Range
      <4> QED BY <4>2, <4>3
    <3> QED BY <1>6, <3>1, <3>2 DEF InitializeLook, FindsChip, StoreDevice
  <2>3. /\ UNCHANGED <<usb, library, limit, moved, devices, alive, working, desired, uses, threw>>
        /\ initialized' \in [Controllers -> BOOLEAN] /\ once' \in {"no", "running", "done"}
        /\ pc' = pc \/ pc' = [pc EXCEPT ![c] = "idle"]
    BY <1>6 DEF InitializeLook, TypeInv, TypeOK
  <2> QED BY <2>1, <2>2, <2>3 DEF TypeInv, TypeOK, usb, library, devices, Busy
<1>7. ASSUME NEW c \in Controllers, Chooses(c), NEW d \in Range(stored) \cup {None},
             working' = working \/ working' = [working EXCEPT ![c] = d],
             desired' \in [Controllers -> {Serial[s] : s \in Chips} \cup {None}]
      PROVE  TypeInv'
  <2>1. /\ UNCHANGED <<usb, library, store, devices, alive, initialized, pc, uses, threw>>
        /\ pc[c] = "idle"
    BY <1>7 DEF Chooses, Ready
  <2>2. working' \in [Controllers -> Range(stored) \cup {None}]
    BY <1>7 DEF TypeInv, TypeOK
  <2>3. \A b \in Controllers : b # c => working'[b] = working[b]
    BY <1>7 DEF TypeInv, TypeOK
  <2> QED BY <1>7, <2>1, <2>2, <2>3 DEF TypeInv, TypeOK, usb, library, store, devices, Busy
<1>8. ASSUME NEW c \in Controllers, NEW n \in 1 .. 2, GpioCall(c, n) PROVE TypeInv'
  <2>1. /\ UNCHANGED <<usb, library, store, devices, alive, initialized, working, desired>>
        /\ \/ UNCHANGED pc /\ pc[c] = "idle" /\ uses' = [uses EXCEPT ![c] = 0]
           \/ /\ pc' = [pc EXCEPT ![c] = "use"] \/ pc' = [pc EXCEPT ![c] = "open"]
              /\ working[c] # None /\ uses' = [uses EXCEPT ![c] = n]
        /\ threw' \in [Controllers -> BOOLEAN]
    BY <1>8 DEF GpioCall, GoOn, CheckOpen, Ready, usb, TypeInv, TypeOK
  <2>2. CallTypes
    BY DEF CallTypes, TypeInv, TypeOK
  <2>3. CallTypes'
    BY <2>1, <2>2 DEF CallTypes, Busy
  <2> QED BY <2>1, <2>3 DEF CallTypes, TypeInv, TypeOK, usb, library, store, devices
<1>9. ASSUME NEW c \in Controllers, OpenWorking(c) PROVE TypeInv'
  <2>1. Opens(working[c]) \in Usb \cup {None}
    <3>1. list \in Seq(Usb \cup {None})
      BY DEF TypeInv, TypeOK
    <3> QED BY <3>1 DEF Opens
  <2>2. /\ isOpen' \in [Chips -> BOOLEAN] /\ handle' \in [Chips -> {"null", "open", "freed"}]
        /\ target' \in [Chips -> Usb \cup {None}] /\ claimed' \subseteq Usb
    <3> DEFINE s == working[c]
               d == Opens(s)
    <3>1. /\ isOpen \in [Chips -> BOOLEAN] /\ handle \in [Chips -> {"null", "open", "freed"}]
          /\ target \in [Chips -> Usb \cup {None}] /\ claimed \subseteq Usb
      BY DEF TypeInv, TypeOK
    <3>2. \/ /\ d # None /\ isOpen' = [isOpen EXCEPT ![s] = TRUE]
             /\ handle' = [handle EXCEPT ![s] = "open"]
             /\ target' = [target EXCEPT ![s] = d] /\ claimed' = claimed \cup {d}
          \/ /\ handle' = handle \/ handle' = [handle EXCEPT ![s] = "freed"]
             /\ UNCHANGED <<isOpen, target, claimed>>
      BY <1>9 DEF OpenWorking
    <3> HIDE DEF s, d
    <3>3. d \in Usb \cup {None}
      BY <2>1 DEF s, d
    <3>4. isOpen' \in [Chips -> BOOLEAN] /\ handle' \in [Chips -> {"null", "open", "freed"}]
      BY <3>1, <3>2
    <3>5. target' \in [Chips -> Usb \cup {None}]
      <4>1. target' = target \/ target' = [target EXCEPT ![s] = d]
        BY <3>2
      <4> QED BY <3>1, <3>3, <4>1
    <3>6. claimed' \subseteq Usb
      BY <3>1, <3>2, <3>3
    <3> QED BY <3>4, <3>5, <3>6
  <2>3. /\ UNCHANGED <<usb, library, store, alive, initialized, working, desired>>
        /\ threw' \in [Controllers -> BOOLEAN]
        /\ \/ pc' = [pc EXCEPT ![c] = "use"] /\ uses' = [uses EXCEPT ![c] = uses[c]]
           \/ pc' = [pc EXCEPT ![c] = "idle"] /\ uses' = [uses EXCEPT ![c] = 0]
        /\ uses[c] \in 1 .. 2 /\ working[c] # None
    BY <1>9 DEF OpenWorking, GoOn, TypeInv, TypeOK, Busy
  <2>4. CallTypes
    BY DEF CallTypes, TypeInv, TypeOK
  <2>5. CallTypes'
    BY <2>3, <2>4 DEF CallTypes, Busy
  <2> QED BY <2>2, <2>3, <2>5 DEF CallTypes, TypeInv, TypeOK, usb, library, store
<1>10. ASSUME NEW c \in Controllers, UseHandle(c) PROVE TypeInv'
  <2>1. /\ UNCHANGED <<usb, library, store, devices, alive, initialized, working, desired>>
        /\ threw' \in [Controllers -> BOOLEAN]
        /\ \/ /\ \/ pc' = [pc EXCEPT ![c] = "idle"]
                 \/ uses[c] # 1 /\ \E p \in {"use", "open"} : pc' = [pc EXCEPT ![c] = p]
              /\ uses' = [uses EXCEPT ![c] = uses[c] - 1]
           \/ pc' = [pc EXCEPT ![c] = "idle"] /\ uses' = [uses EXCEPT ![c] = 0]
        /\ uses[c] \in 1 .. 2 /\ working[c] # None
    BY <1>10 DEF UseHandle, GoOn, CheckOpen, TypeInv, TypeOK, Busy
  <2>2. CallTypes
    BY DEF CallTypes, TypeInv, TypeOK
  <2>3. CallTypes'
    BY <2>1, <2>2 DEF CallTypes, Busy
  <2> QED BY <2>1, <2>3 DEF CallTypes, TypeInv, TypeOK, usb, library, store, devices
<1>11. CASE UNCHANGED vars
  BY <1>11 DEF vars, usb, library, store, devices, consumers, TypeInv, TypeOK, Busy
<1>12. ASSUME NEW c \in Controllers,
              \/ \E x \in {Serial[s] : s \in Chips} : Select(c, x) \/ SetDesiredSerial(c, x)
              \/ SelectDesired(c)
              \/ \E d \in Given(c) : SetWorkingDevice(c, d)
       PROVE  TypeInv'
  <2>1. Chooses(c)
    BY <1>12 DEF Select, SetDesiredSerial, SelectDesired, SetWorkingDevice
  <2>2. \E d \in Range(stored) \cup {None} :
          working' = working \/ working' = [working EXCEPT ![c] = d]
    BY <1>12 DEF Select, SetDesiredSerial, SelectDesired, SetWorkingDevice, WorksWith, IsFirst,
                 Given, Range
  <2>3. \/ desired' = desired
        \/ \E x \in {Serial[s] : s \in Chips} : desired' = [desired EXCEPT ![c] = x]
    BY <1>12 DEF Select, SetDesiredSerial, SelectDesired, SetWorkingDevice
  <2>4. desired' \in [Controllers -> {Serial[s] : s \in Chips} \cup {None}]
    BY <2>3 DEF TypeInv, TypeOK
  <2> QED BY <1>7, <2>1, <2>2, <2>4
<1>13. ASSUME NEW c \in Controllers, NEW d \in Given(c), ConstructWith(c, d) PROVE TypeInv'
  <2>1. /\ working' = [working EXCEPT ![c] = d] /\ d \in Range(stored) \cup {None}
        /\ initialized' = [initialized EXCEPT ![c] = TRUE]
    BY <1>13 DEF ConstructWith, Given
  <2>2. /\ working' \in [Controllers -> Range(stored) \cup {None}]
        /\ initialized' \in [Controllers -> BOOLEAN]
        /\ \A b \in Controllers : b # c => working'[b] = working[b]
    BY <2>1 DEF TypeInv, TypeOK
  <2> QED BY <1>3, <1>13, <2>2 DEF ConstructWith
<1>14. ASSUME NEW c \in Controllers, Construct(c) \/ Destroy(c) PROVE TypeInv'
  <2>1. /\ working' \in [Controllers -> Range(stored) \cup {None}]
        /\ initialized' \in [Controllers -> BOOLEAN]
        /\ \A b \in Controllers : b # c => working'[b] = working[b]
    BY <1>14 DEF Construct, Destroy, TypeInv, TypeOK
  <2> QED BY <1>3, <1>14, <2>1 DEF Construct
<1>15. \A c \in Controllers : Wants[c] \subseteq {Serial[s] : s \in Chips}
  OBVIOUS
<1>16. CASE Next
  BY <1>1, <1>2, <1>4, <1>5, <1>6, <1>8, <1>9, <1>10, <1>12, <1>13, <1>14, <1>15, <1>16
     DEF Next, BusStep
<1>17. CASE \E s \in Chips : Select(Main, Serial[s])
  BY <1>12, <1>17, ToolAssumption
<1> QED BY <1>11, <1>16, <1>17 DEF AnyNext

(* Every variable keeps its type: no position beyond the library's list is *)
(* looked at, what a controller works with is a stored device, and a call  *)
(* sends no more requests than it has to.                                  *)
THEOREM ControllerTypeCorrect == Spec => []TypeOK
<1>1. TypeInv => TypeOK
  BY DEF TypeInv
<1>2. [Next]_vars => [AnyNext]_vars
  BY DEF AnyNext
<1> QED BY <1>1, <1>2, TypeInitial, TypeStep, PTL DEF Spec

(* The controller of a tool may select every chip. *)
SelectsAny == Wants[Main] = {Serial[s] : s \in Chips}

LEMMA ToolStepIsAnyStep == [NextTools]_allVars => [AnyNext]_vars
<1> SUFFICES ASSUME [NextTools]_allVars PROVE AnyNext \/ UNCHANGED vars
  OBVIOUS
<1> USE ToolAssumption
<1>1. CASE Start
  BY <1>1 DEF Start, Next, AnyNext
<1>2. CASE Initialize
  BY <1>2 DEF Initialize, Next, AnyNext
<1>3. CASE Initializing
  BY <1>3 DEF Initializing, Next, AnyNext
<1>4. CASE FailsToInitialize \/ ListChips
  BY <1>4 DEF FailsToInitialize, ListChips, Recounted, Next, AnyNext
<1>5. CASE Choose
  BY <1>5 DEF Choose, FindsChip, AnyNext
<1>6. CASE Parse \/ ParseEnd \/ Skip \/ Missing \/ NoMore \/ NoMoreLines
  BY <1>6 DEF Parse, ParseEnd, Skip, Missing, NoMore, NoMoreLines, Onward
<1>7. CASE Ask
  BY <1>7 DEF Ask, Next, AnyNext
<1>8. CASE Answer
  BY <1>8 DEF Answer, Next, AnyNext
<1>9. CASE LineDone \/ Exited
  BY <1>9 DEF LineDone, Exited, allVars
<1>10. CASE End
  BY <1>10 DEF End, Next, AnyNext
<1>11. CASE Threads \/ BusStep \/ UNCHANGED allVars
  BY <1>11 DEF Threads, allVars, Next, AnyNext
<1> QED
  BY <1>1, <1>2, <1>3, <1>4, <1>5, <1>6, <1>7, <1>8, <1>9, <1>10, <1>11 DEF NextTools, ToolStep

LEMMA ToolStepIsStep ==
  ASSUME SelectsAny PROVE [NextTools]_allVars => [Next]_vars
<1>1. (\E s \in Chips : Select(Main, Serial[s])) => Next
  BY ToolAssumption DEF Next, SelectsAny
<1> QED BY <1>1, ToolStepIsAnyStep DEF AnyNext

(* The steps of a tool, as far as they change the controllers and what     *)
(* they share, are steps of a controller: what holds of every program that *)
(* uses CyController holds of the tools.                                   *)
THEOREM ToolsAreConsumers ==
  ASSUME SelectsAny PROVE ToolSpec => Spec
<1>1. InitTools => Init
  BY DEF InitTools
<1> QED BY <1>1, ToolStepIsStep, PTL DEF ToolSpec, Spec

-----------------------------------------------------------------------------
(* What one option does to the settings, if it is accepted: lines are only *)
(* added, and a line that is named is.                                     *)
LEMMA OptionParsed ==
  ASSUME NEW tool \in Tools, NEW s \in Settings, s.code = "SUCCESS", NEW o \in Options,
         NEW q \in ParseOption(tool, s, o)
  PROVE  /\ q \in Settings
         /\ q.code = "PRINT_USAGE_AND_EXIT" => o.letter = "h"
         /\ q.code = "SUCCESS" =>
              /\ q.regular = IF o.letter = "arg" THEN s.regular + 1 ELSE s.regular
              /\ \A j \in DOMAIN s.lines : j \in DOMAIN q.lines /\ q.lines[j] = s.lines[j]
              /\ /\ Number(o.text) # NoNumber
                 /\ \/ tool = "cygpio-hammer" /\ o.letter = "o"
                    \/ /\ tool \in {"cygpioget", "cygpioset"} /\ o.letter = "arg"
                       /\ s.regular # 0
                 => \E j \in DOMAIN q.lines : q.lines[j] = Number(o.text)
<1> USE OptionAssumption
<1> DEFINE t == o.text
           Adds(n) == [s EXCEPT !.lines = Append(@, n)]
<1>1. t \in Texts /\ (Number(t) # NoNumber => Number(t) \in Int)
  BY DEF Options, Texts, Number
<1>2. ASSUME NEW n \in Int
      PROVE  /\ Adds(n) \in Settings /\ Adds(n).code = "SUCCESS" /\ Adds(n).regular = s.regular
             /\ \A j \in DOMAIN s.lines :
                  j \in DOMAIN Adds(n).lines /\ Adds(n).lines[j] = s.lines[j]
             /\ \E j \in DOMAIN Adds(n).lines : Adds(n).lines[j] = n
  <2>1. s.lines \in Seq(Int) /\ Adds(n).lines = Append(s.lines, n)
    BY DEF Settings
  <2>2. Append(s.lines, n)[Len(s.lines) + 1] = n /\ Len(s.lines) + 1 \in DOMAIN Append(s.lines, n)
    BY <2>1
  <2>3. /\ Append(s.lines, n) \in Seq(Int) /\ DOMAIN Append(s.lines, n) = 1 .. Len(s.lines) + 1
        /\ DOMAIN s.lines = 1 .. Len(s.lines) /\ Len(s.lines) \in Nat
        /\ \A j \in 1 .. Len(s.lines) : Append(s.lines, n)[j] = s.lines[j]
    BY <2>1
  <2>4. Adds(n) \in Settings /\ Adds(n).code = s.code /\ Adds(n).regular = s.regular
    BY <2>1, <2>3 DEF Settings
  <2> HIDE DEF Adds
  <2>5. \A j \in DOMAIN s.lines : j \in DOMAIN Adds(n).lines /\ Adds(n).lines[j] = s.lines[j]
    BY <2>1, <2>3
  <2>6. \E j \in DOMAIN Adds(n).lines : Adds(n).lines[j] = n
    BY <2>1, <2>2
  <2> QED BY <2>4, <2>5, <2>6
<1>3. ASSUME NEW code \in Codes
      PROVE  Fails(s, code) \in Settings /\ Fails(s, code).code = code
  BY DEF Fails, Settings
<1>4. /\ SetChip(s, t) \in Settings
      /\ SetChip(s, t).code # "PRINT_USAGE_AND_EXIT"
      /\ SetChip(s, t).regular = s.regular /\ SetChip(s, t).lines = s.lines
  BY <1>1 DEF SetChip, Fails, Settings, Codes, Texts
<1>5. /\ SetLoops(s, t) \in Settings
      /\ SetLoops(s, t).code # "PRINT_USAGE_AND_EXIT"
      /\ SetLoops(s, t).regular = s.regular /\ SetLoops(s, t).lines = s.lines
  BY <1>1 DEF SetLoops, Fails, Settings, Codes
<1>6. \/ Number(t) = NoNumber /\ AddOffset(s, t) = Fails(s, "OPTION_ARG_PARSE_ERROR")
      \/ Number(t) \in Int /\ AddOffset(s, t) = Adds(Number(t))
  BY <1>1 DEF AddOffset, AddLine
<1> HIDE DEF t, Adds
<1>7. CASE o.letter = "arg"
  <2>1. PICK a \in Argument(tool, s, t) : q = Counted(a)
    BY <1>7 DEF ParseOption, t
  <2>2. /\ a \in Settings /\ a.code # "PRINT_USAGE_AND_EXIT"
        /\ a.code = "SUCCESS" =>
             /\ a.regular = s.regular
             /\ \A j \in DOMAIN s.lines : j \in DOMAIN a.lines /\ a.lines[j] = s.lines[j]
             /\ Number(t) # NoNumber /\ tool \in {"cygpioget", "cygpioset"} /\ s.regular # 0
                  => \E j \in DOMAIN a.lines : a.lines[j] = Number(t)
    <3>1. CASE \E code \in {"UNKNOWN_CMDLINE_ARG", "OPTION_ARG_PARSE_ERROR"} : a = Fails(s, code)
      BY <3>1, <1>3 DEF Codes
    <3>2. CASE s.regular = 0 /\ a = SetChip(s, t)
      BY <3>2, <1>4
    <3>3. CASE t.empty /\ \E n \in Unread(tool) : a = Adds(n)
      <4>1. PICK n \in Int : a = Adds(n)
        BY <3>3, OptionAssumption DEF Unread
      <4> QED BY <3>3, <4>1, <1>2 DEF Number
    <3>4. CASE a = AddOffset(s, t)
      BY <3>4, <1>2, <1>3, <1>6 DEF Codes
    <3> QED BY <3>1, <3>2, <3>3, <3>4 DEF Argument, AddLine, Adds
  <2>3. /\ q \in Settings /\ q.code = a.code /\ q.lines = a.lines
        /\ q.regular = a.regular + 1
    <3>1. a.regular \in Nat /\ a.regular + 1 \in Nat /\ DOMAIN a = {"code", "chip", "lines", "loops", "regular"}
      BY <2>2 DEF Settings
    <3> QED BY <2>1, <2>2, <3>1 DEF Settings, Counted
  <2> QED BY <1>7, <2>2, <2>3 DEF t
<1>8. CASE o.letter # "arg"
  <2>1. CASE \E code \in {"MISSING_OPTION_ARG", "UNKNOWN_CMDLINE_OPTION", "CMDLINE_PARSE_ERROR"} :
               q = Fails(s, code)
    BY <2>1, <1>3 DEF Codes
  <2>2. CASE o.letter = "h" /\ q = Fails(s, "PRINT_USAGE_AND_EXIT")
    BY <2>2, <1>3 DEF Codes
  <2>3. CASE o.letter # "o" /\ (q = SetChip(s, t) \/ q = SetLoops(s, t))
    BY <1>8, <2>3, <1>4, <1>5
  <2>4. CASE q = AddOffset(s, t)
    BY <1>8, <2>4, <1>2, <1>3, <1>6 DEF Codes, t
  <2> QED BY <1>8, <2>1, <2>2, <2>3, <2>4 DEF ParseOption, t
<1> QED BY <1>7, <1>8

ParseInv ==
  /\ \E k \in Commands : program = k[1] /\ args = k[2]
  /\ program # "threads" =>
       /\ parsed \in 0 .. Len(args)
       /\ settings \in Settings
       /\ step = "parse" => settings.code = "SUCCESS" /\ exit = "none"
       /\ step \notin {"parse", "exited"} => settings.code = "SUCCESS" /\ parsed = Len(args)
       /\ exit = "SUCCESS" =>
            AsksForHelp(args) \/ (settings.code = "SUCCESS" /\ parsed = Len(args))
       /\ settings.code = "SUCCESS" =>
            /\ settings.regular # 0 <=> \E j \in 1 .. parsed : args[j].letter = "arg"
            /\ \A i \in LinePlaces(program, args) : i <= parsed =>
                 \E j \in DOMAIN Lines : Lines[j] = Number(args[i].text)

LEMMA ParseInitial == InitTools => ParseInv
<1> SUFFICES ASSUME InitTools PROVE ParseInv
  OBVIOUS
<1>1. Defaults \in Settings /\ Defaults.code = "SUCCESS" /\ Defaults.regular = 0
  BY DEF Defaults, Settings, Codes
<1>2. args \in Seq(Options)
  BY ToolAssumption DEF InitTools
<1>3. \A i \in LinePlaces(program, args) : ~(i <= parsed)
  BY <1>2 DEF InitTools, LinePlaces
<1> QED BY <1>1, <1>2, <1>3 DEF InitTools, ParseInv

LEMMA ParseInvStep == ParseInv /\ [NextTools]_allVars => ParseInv'
<1> SUFFICES ASSUME ParseInv, [NextTools]_allVars PROVE ParseInv'
  OBVIOUS
<1> USE ToolAssumption
<1>0. UNCHANGED <<program, args>>
  BY DEF NextTools, Threads, ToolStep, Parse, ParseEnd, Start, Initialize, Initializing,
         FailsToInitialize, ListChips, Recounted, Skip, Choose, Missing, NoMore, Ask, Answer,
         NoMoreLines, LineDone, End, Exited, allVars, toolVars, command
<1>1. CASE Parse
  <2> DEFINE o == args[parsed + 1]
  <2>1. /\ program \in Tools /\ program # "threads" /\ args \in Seq(Options)
        /\ parsed \in 0 .. Len(args) - 1 /\ parsed' = parsed + 1 /\ step = "parse"
        /\ settings \in Settings /\ settings.code = "SUCCESS"
        /\ settings' \in ParseOption(program, settings, o)
        /\ \/ settings'.code # "SUCCESS" /\ Quits(settings'.code)
           \/ settings'.code = "SUCCESS" /\ UNCHANGED <<step, exit>>
    BY <1>1 DEF Parse, At, ParseInv
  <2>2. o \in Options /\ DOMAIN args = 1 .. Len(args)
    BY <2>1
  <2>3. /\ settings' \in Settings
        /\ settings'.code = "PRINT_USAGE_AND_EXIT" => o.letter = "h"
        /\ settings'.code = "SUCCESS" =>
             /\ settings'.regular = IF o.letter = "arg" THEN settings.regular + 1
                                    ELSE settings.regular
             /\ \A j \in DOMAIN Lines : j \in DOMAIN Lines' /\ Lines'[j] = Lines[j]
             /\ /\ Number(o.text) # NoNumber
                /\ \/ program = "cygpio-hammer" /\ o.letter = "o"
                   \/ /\ program \in {"cygpioget", "cygpioset"} /\ o.letter = "arg"
                      /\ settings.regular # 0
                => \E j \in DOMAIN Lines' : Lines'[j] = Number(o.text)
    BY <2>1, <2>2, OptionParsed DEF Lines
  <2>4. ASSUME settings'.code = "SUCCESS"
        PROVE  /\ settings'.regular # 0 <=> \E j \in 1 .. parsed' : args[j].letter = "arg"
               /\ \A i \in LinePlaces(program, args) : i <= parsed' =>
                    \E j \in DOMAIN Lines' : Lines'[j] = Number(args[i].text)
    <3>1. settings'.regular # 0 <=> \E j \in 1 .. parsed' : args[j].letter = "arg"
      <4>1. settings.regular \in Nat
        BY <2>1 DEF Settings
      <4>2. settings.regular # 0 <=> \E j \in 1 .. parsed : args[j].letter = "arg"
        BY <2>1 DEF ParseInv
      <4>3. \A j : j \in 1 .. parsed' <=> j \in 1 .. parsed \/ j = parsed + 1
        BY <2>1
      <4>4. (\E j \in 1 .. parsed' : args[j].letter = "arg")
              <=> o.letter = "arg" \/ \E j \in 1 .. parsed : args[j].letter = "arg"
        BY <2>1, <4>3
      <4> HIDE DEF o
      <4>5. settings'.regular # 0 <=> o.letter = "arg" \/ settings.regular # 0
        BY <2>3, <2>4, <4>1
      <4> QED BY <4>2, <4>4, <4>5
    <3>2. ASSUME NEW i \in LinePlaces(program, args), i <= parsed'
          PROVE  \E j \in DOMAIN Lines' : Lines'[j] = Number(args[i].text)
      <4>1. CASE i <= parsed
        <5>1. PICK j \in DOMAIN Lines : Lines[j] = Number(args[i].text)
          BY <4>1, <2>1, <3>2 DEF ParseInv
        <5> QED BY <5>1, <2>3, <2>4
      <4>2. CASE i = parsed + 1
        BY <4>2, <2>1, <2>3, <2>4 DEF LinePlaces, ParseInv
      <4>3. i \in 1 .. Len(args)
        BY <2>2, <3>2 DEF LinePlaces
      <4> QED BY <2>1, <3>2, <4>1, <4>2, <4>3
    <3> QED BY <3>1, <3>2
  <2>5. CASE settings'.code # "SUCCESS" /\ Quits(settings'.code)
    BY <1>0, <2>1, <2>2, <2>3, <2>5 DEF ParseInv, Quits, ExitCode, AsksForHelp
  <2>6. CASE settings'.code = "SUCCESS" /\ UNCHANGED <<step, exit>>
    BY <1>0, <2>1, <2>3, <2>4, <2>6 DEF ParseInv
  <2> QED BY <2>1, <2>5, <2>6
<1>2. CASE ParseEnd
  BY <1>2 DEF ParseEnd, At, Quits, ExitCode, command, ParseInv, Lines
<1>3. ASSUME UNCHANGED command, step \notin {"parse", "exited"}, step' # "parse"
      PROVE  ParseInv'
  BY <1>3 DEF command, ParseInv, Lines
<1>4. ASSUME UNCHANGED <<command, step, exit>> PROVE ParseInv'
  BY <1>4 DEF command, ParseInv, Lines
<1>5. CASE Start \/ Initialize \/ FailsToInitialize \/ ListChips
  BY <1>3, <1>5 DEF Start, Initialize, FailsToInitialize, ListChips, At, Quits, Exits, Recounted
<1>6. CASE Skip \/ Choose \/ Missing \/ NoMore
  BY <1>3, <1>6 DEF Skip, Choose, Missing, NoMore, At, Scan, Onward, Exits, command
<1>7. CASE Ask \/ Answer \/ NoMoreLines \/ LineDone \/ End
  BY <1>3, <1>7 DEF Ask, Answer, NoMoreLines, LineDone, Answered, GetLine, HammerLine, SetLine,
                    InspectLine, NextRequest, End, At, Exits
<1>8. CASE Initializing \/ Exited \/ Threads \/ (BusStep /\ UNCHANGED toolVars) \/ UNCHANGED allVars
  BY <1>4, <1>8 DEF Initializing, Exited, Threads, allVars, toolVars
<1> QED BY <1>1, <1>2, <1>5, <1>6, <1>7, <1>8 DEF NextTools, ToolStep

(* A tool sends a finite number of requests to a chip before it is done or *)
(* begins anew: at least one for each line, and none without a line.       *)
LEMMA RequestsAreCounted ==
  ASSUME settings \in Settings
  PROVE  /\ Requests \in Nat /\ Len(Lines) \in Nat
         /\ program # "lscygpio" => Requests >= Len(Lines) /\ (Len(Lines) = 0 => Requests = 0)
<1>1. Len(Lines) \in Nat /\ settings.loops \in Int
  BY DEF Settings, Lines
<1>2. Loops \in Nat
  BY <1>1 DEF Loops
<1>3. \A n, k \in Nat : /\ n * (1 + 2 * k) \in Nat /\ n * (1 + 2 * k) >= n
                       /\ n = 0 => n * (1 + 2 * k) = 0
  <2> SUFFICES ASSUME NEW n \in Nat, NEW k \in Nat
               PROVE  /\ n * (1 + 2 * k) \in Nat /\ n * (1 + 2 * k) >= n
                      /\ n = 0 => n * (1 + 2 * k) = 0
    OBVIOUS
  <2>1. n * k \in Nat /\ (n = 0 => n * k = 0)
    OBVIOUS
  <2>2. n * (1 + 2 * k) = n + 2 * (n * k)
    OBVIOUS
  <2> QED BY <2>1, <2>2
<1> DEFINE n == Len(Lines)
           all == n * (1 + 2 * Loops)
<1>4. all \in Nat /\ all >= n /\ (n = 0 => all = 0)
  BY <1>1, <1>2, <1>3
<1>5. \/ program = "lscygpio" /\ Requests = Inspected
      \/ program # "lscygpio" /\ (Requests = n \/ Requests = all)
  BY DEF Requests
<1> HIDE DEF n, all
<1> QED BY <1>1, <1>4, <1>5, ToolAssumption DEF n

(* What is sent to the device is the number of a line. *)
LEMMA RequestIsOnLine ==
  ASSUME settings \in Settings, NEW r \in 1 .. Requests
  PROVE  Line(r) % Width \in 0 .. Width - 1
<1>1. CASE program = "lscygpio"
  <2>1. Requests \in Nat
    BY RequestsAreCounted
  <2>2. Line(r) \in Int
    BY <1>1, <2>1 DEF Line
  <2> QED BY <2>2, ToolAssumption
<1>2. CASE program # "lscygpio"
  <2>1. Requests \in Nat /\ Len(Lines) \in Nat \ {0}
    BY <1>2, RequestsAreCounted
  <2> DEFINE j == ((r - 1) % Len(Lines)) + 1
  <2>2. j \in 1 .. Len(Lines)
    BY <2>1
  <2>3. Line(r) = Lines[j] /\ Lines \in Seq(Int)
    BY <1>2 DEF Line, Lines, Settings
  <2>4. Line(r) \in Int
    BY <2>2, <2>3
  <2> QED BY <2>4, ToolAssumption
<1> QED BY <1>1, <1>2

(* Before the search for the chip the tool has counted nothing, and what   *)
(* it looks at or asks for then is there.                                  *)
ToolTypeInv ==
  /\ ToolTypeOK
  /\ step \in {"parse", "start", "initialize", "initializing"} =>
       at = 1 /\ count = 0 /\ request = 1
  /\ step \in {"lines", "asked"} => at <= total
  /\ step = "asked" => request <= Requests

LEMMA FirstIsThere ==
  ASSUME NEW n \in Nat
  PROVE  1 \in 1 .. n + 1 /\ 0 \in 0 .. 1 - 1
OBVIOUS

LEMMA ToolTypeStep ==
  ASSUME TypeInv, TypeInv', ParseInv, ToolTypeInv, [NextTools]_allVars
  PROVE  ToolTypeInv'
<1>0. /\ UNCHANGED command => Lines' = Lines /\ Requests' = Requests
      /\ Requests \in Nat /\ Cardinality(Usb) \in Nat /\ TypeOK'
      /\ total \in Nat /\ at \in Nat /\ count \in Nat /\ request \in Nat
      /\ Len(bus) \in 0 .. Cardinality(Usb)
  <2>1. UNCHANGED command => Lines' = Lines /\ Requests' = Requests
    BY DEF command, Lines, Requests, Loops, Endless
  <2>2. Requests \in Nat
    BY RequestsAreCounted DEF ToolTypeInv, ToolTypeOK
  <2>3. Cardinality(Usb) \in Nat
    BY ControllerAssumption, FS_CardinalityType
  <2>4. Len(bus) \in 0 .. Cardinality(Usb)
    BY BusFits DEF TypeInv, TypeOK
  <2> QED BY <2>1, <2>2, <2>3, <2>4 DEF TypeInv, ToolTypeInv, ToolTypeOK
<1>1. CASE Parse
  <2>1. /\ program \in Tools /\ args \in Seq(Options) /\ <<program, args>> \in Commands
        /\ parsed \in 0 .. Len(args) - 1 /\ parsed' = parsed + 1 /\ step = "parse"
        /\ settings \in Settings /\ settings.code = "SUCCESS"
        /\ settings' \in ParseOption(program, settings, args[parsed + 1])
        /\ UNCHANGED <<program, args, total, at, count, found, request, reached>>
        /\ \/ Quits(settings'.code)
           \/ UNCHANGED <<step, exit>>
    BY <1>1, ToolAssumption DEF Parse, At, ParseInv, ToolTypeInv, ToolTypeOK
  <2>2. args[parsed + 1] \in Options
    BY <2>1
  <2>3. settings' \in Settings
    BY <2>1, <2>2, OptionParsed
  <2>4. Requests' \in Nat
    <3>1. (settings \in Settings => Requests \in Nat)'
      BY RequestsAreCounted, PTL
    <3> QED BY <2>3, <3>1
  <2>5. step' \in {"parse", "exited"} /\ (exit' = exit \/ exit' \in Codes)
    BY <2>1, <2>3 DEF Quits, ExitCode, Codes, Settings
  <2>6. request \in 1 .. Requests' + 1
    <3>1. request = 1
      BY <2>1 DEF ToolTypeInv
    <3> QED BY <2>4, <3>1, FirstIsThere, Zenon
  <2>7. <<program', args'>> \in Commands /\ parsed' \in 0 .. Len(args')
    BY <2>1
  <2> QED BY <1>0, <2>1, <2>3, <2>5, <2>6, <2>7 DEF ToolTypeInv, ToolTypeOK
<1>2. CASE ParseEnd \/ Start
  BY <1>0, <1>2 DEF ParseEnd, Start, At, Quits, ExitCode, command, Codes, ToolTypeInv, ToolTypeOK
<1>3. CASE Initialize \/ Initializing
  BY <1>0, <1>3 DEF Initialize, Initializing, At, command, toolVars, ToolTypeInv, ToolTypeOK
<1>4. CASE FailsToInitialize \/ ListChips
  <2>1. /\ step = "initializing" /\ UNCHANGED <<command, at, count, found, request, reached>>
        /\ \/ step' = "end" /\ exit' = "FAILED_TO_INITIALIZE" /\ UNCHANGED total
           \/ step' = "scan" /\ UNCHANGED exit /\ total' = Len(bus)
    BY <1>4 DEF FailsToInitialize, ListChips, At, Recounted, Exits
  <2>2. total' \in 0 .. Cardinality(Usb)
    BY <1>0, <2>1 DEF ToolTypeInv, ToolTypeOK
  <2>3. at' = 1 /\ count' = 0 /\ at' \in 1 .. total' + 1 /\ count' \in 0 .. at' - 1
    <3>1. at' = 1 /\ count' = 0
      BY <2>1 DEF ToolTypeInv
    <3>2. total' \in Nat
      BY <1>0, <2>2
    <3>3. 1 \in 1 .. total' + 1 /\ 0 \in 0 .. 1 - 1
      BY <3>2, FirstIsThere, Zenon
    <3> QED BY <3>1, <3>3, Zenon
  <2>4. <<program, args>>' \in Commands /\ parsed' \in 0 .. Len(args') /\ settings' \in Settings
    BY <2>1 DEF command, ToolTypeInv, ToolTypeOK
  <2>5. request' \in 1 .. Requests' + 1
    BY <1>0, <2>1 DEF ToolTypeInv, ToolTypeOK
  <2> QED BY <1>0, <2>1, <2>2, <2>3, <2>4, <2>5 DEF ToolTypeInv, ToolTypeOK
<1>5. CASE Skip \/ Missing \/ NoMore
  <2>1. /\ step = "scan" /\ UNCHANGED <<command, total, found, request, reached>>
        /\ \/ /\ at <= total /\ at' = at + 1 /\ (count' = count \/ count' = count + 1)
              /\ UNCHANGED <<step, exit>>
           \/ /\ UNCHANGED <<at, count>> /\ step' = "end"
              /\ exit' \in {"SUCCESS", "GPIOCHIP_NOT_FOUND", "FAILED_DEVICE_SELECTION"}
    BY <1>5 DEF Skip, Missing, NoMore, At, Scan, Onward, Exits
  <2>2. at' \in 1 .. total + 1 /\ count' \in 0 .. at' - 1
    BY <1>0, <2>1 DEF ToolTypeInv, ToolTypeOK
  <2> QED BY <1>0, <2>1, <2>2 DEF Codes, command, ToolTypeInv, ToolTypeOK
<1>6. CASE Choose
  BY <1>0, <1>6 DEF Choose, At, Scan, FindsChip, command, ToolTypeInv, ToolTypeOK
<1>7. CASE Ask
  BY <1>0, <1>7 DEF Ask, At, command, ToolTypeInv, ToolTypeOK
<1>8. CASE Answer
  <2>1. /\ step = "asked" /\ UNCHANGED <<command, step, total, at, count, found, request, exit>>
        /\ request \in 1 .. Requests
    BY <1>0, <1>8 DEF Answer, At, ToolTypeInv, ToolTypeOK
  <2>2. Line(request) % Width \in 0 .. Width - 1
    BY <2>1, RequestIsOnLine DEF ToolTypeInv, ToolTypeOK
  <2>3. ASSUME pc[Main] = "use", ~threw'[Main] PROVE target[working[Main]] \in Usb
    <3>1. UseHandle(Main)
      BY <1>8, <2>3 DEF Answer, OpenWorking
    <3>2. threw \in [Controllers -> BOOLEAN] /\ Main \in Controllers
      BY ToolAssumption DEF TypeInv, TypeOK
    <3>3. target[working[Main]] # None
      BY <2>3, <3>1, <3>2 DEF UseHandle, GoOn
    <3>4. working[Main] \in Chips
      BY <2>3, <3>2 DEF TypeInv, TypeOK, Busy, Range
    <3> QED BY <3>3, <3>4 DEF TypeInv, TypeOK
  <2>4. reached' \subseteq (0 .. Width - 1) \X Usb
    BY <1>8, <2>2, <2>3 DEF Answer, ToolTypeInv, ToolTypeOK
  <2> QED BY <1>0, <2>1, <2>4 DEF command, ToolTypeInv, ToolTypeOK
<1>9. CASE LineDone
  <2>1. /\ step = "asked" /\ UNCHANGED <<command, total, found, reached>>
        /\ \/ Exits("RUNTIME_EXCEPTION") /\ UNCHANGED <<at, count, request>>
           \/ NextRequest
           \/ /\ request' = request + 1 /\ step' = "scan" /\ at' = at + 1 /\ count' = count + 1
              /\ UNCHANGED exit
    BY <1>9 DEF LineDone, Answered, At, GetLine, HammerLine, SetLine, InspectLine, NextRequest
  <2>2. request \in 1 .. Requests /\ at \in 1 .. total /\ count \in 0 .. at - 1
    BY <1>0, <2>1 DEF ToolTypeInv, ToolTypeOK
  <2>3. CASE Exits("RUNTIME_EXCEPTION") /\ UNCHANGED <<at, count, request>>
    BY <1>0, <2>1, <2>3 DEF Exits, command, ToolTypeInv, ToolTypeOK
  <2>4. CASE NextRequest
    BY <1>0, <2>1, <2>2, <2>4 DEF NextRequest, command, ToolTypeInv, ToolTypeOK
  <2>5. CASE /\ request' = request + 1 /\ step' = "scan" /\ at' = at + 1 /\ count' = count + 1
             /\ UNCHANGED exit
    <3>1. request' \in 1 .. Requests + 1 /\ at' \in 1 .. total + 1 /\ count' \in 0 .. at' - 1
      BY <1>0, <2>2, <2>5
    <3> QED BY <1>0, <2>1, <2>5, <3>1 DEF command, ToolTypeInv, ToolTypeOK
  <2> QED BY <2>1, <2>3, <2>4, <2>5
<1>10. CASE NoMoreLines
  <2>1. Endless => Len(Lines) \in Nat /\ Len(Lines) <= Requests
    BY RequestsAreCounted DEF Endless, ToolTypeInv, ToolTypeOK
  <2> QED BY <1>0, <1>10, <2>1 DEF NoMoreLines, At, Exits, Codes, command, ToolTypeInv, ToolTypeOK
<1>11. CASE End
  BY <1>0, <1>11 DEF End, At, command, ToolTypeInv, ToolTypeOK
<1>12. CASE UNCHANGED toolVars
  BY <1>0, <1>12 DEF toolVars, command, ToolTypeInv, ToolTypeOK
<1> QED
  BY <1>1, <1>2, <1>3, <1>4, <1>5, <1>6, <1>7, <1>8, <1>9, <1>10, <1>11, <1>12
     DEF NextTools, ToolStep, Exited, Threads, allVars

(* Every variable of a tool, and of the controllers under it, keeps its    *)
(* type: the search stops at the end of the library's list as it was       *)
(* counted, no request beyond the last line is sent, and what is reached   *)
(* is a line of eight bits on a USB device.                                *)
THEOREM ToolTypeCorrect == ToolSpec => []ToolTypeOK
<1> DEFINE Inv == TypeInv /\ ParseInv /\ ToolTypeInv
<1>1. InitTools => Inv
  <2> SUFFICES ASSUME InitTools PROVE Inv
    OBVIOUS
  <2>1. TypeInv /\ ParseInv
    BY TypeInitial, ParseInitial DEF InitTools
  <2>2. <<program, args>> \in Commands /\ args \in Seq(Options)
    BY ToolAssumption DEF InitTools
  <2>3. settings \in Settings
    BY DEF InitTools, Defaults, Settings, Codes
  <2>4. Requests \in Nat /\ Cardinality(Usb) \in Nat
    BY <2>3, RequestsAreCounted, ControllerAssumption, FS_CardinalityType
  <2>5. parsed \in 0 .. Len(args) /\ parsed = 0
    BY <2>2 DEF InitTools
  <2>6. ToolTypeOK
    BY <2>1, <2>2, <2>3, <2>4, <2>5 DEF InitTools, ToolTypeOK, TypeInv
  <2> QED BY <2>1, <2>6 DEF InitTools, ToolTypeInv
<1>2. Inv /\ [NextTools]_allVars => Inv'
  BY ToolStepIsAnyStep, TypeStep, ParseInvStep, ToolTypeStep
<1>3. Inv => ToolTypeOK
  BY DEF ToolTypeInv
<1> HIDE DEF Inv
<1> QED BY <1>1, <1>2, <1>3, PTL DEF ToolSpec

(* The chips are told apart by their serial numbers, and no line's number  *)
(* is cut.                                                                 *)
ChipsAndLinesDiffer ==
  /\ \A s, t \in Chips : Serial[s] = Serial[t] => s = t
  /\ \A k \in Commands : \A i \in LinePlaces(k[1], k[2]) :
       Number(k[2][i].text) \in 0 .. Width - 1

(* The tools that give up at the first failure. *)
Strict == program \in {"cygpioget", "cygpio-hammer"}

Reached(r) == <<Line(r) % Width, found>> \in reached

ToolInv ==
  Strict =>
    /\ DOMAIN uses = Controllers /\ DOMAIN threw = Controllers
    /\ step \in {"parse", "start", "initialize", "initializing", "scan"} => exit = "none"
    /\ step = "lines" => pc[Main] = "idle"
    /\ request \in Nat \ {0}
    /\ step \in {"lines", "asked"} =>
         exit = "none" /\ found \in Chips /\ working[Main] = found
    /\ step = "asked" /\ pc[Main] # "idle" => pc[Main] \in {"open", "use"} /\ uses[Main] = 1
    /\ found \notin moved =>
         /\ step \in {"lines", "asked"} => \A r \in 1 .. request - 1 : Reached(r)
         /\ step = "asked" /\ pc[Main] = "idle" /\ ~threw[Main] => Reached(request)
         /\ exit = "SUCCESS" /\ ~AsksForHelp(args) => \A r \in 1 .. Requests : Reached(r)

LEMMA SmallIsItsRemainder ==
  ASSUME NEW w \in Nat \ {0}, NEW a \in Nat, a < w
  PROVE  a % w = a
OBVIOUS

LEMMA RequestsCoverLines ==
  ASSUME settings \in Settings, Strict
  PROVE  Requests \in Nat /\ Len(Lines) \in Nat /\ Requests >= Len(Lines)
BY RequestsAreCounted DEF Strict

LEMMA ToolInvStep ==
  ASSUME ChipsAndLinesDiffer, PlacesInv, TargetInv, OpenInv, ParseInv, ToolInv,
         [NextTools]_allVars
  PROVE  ToolInv'
<1> SUFFICES ASSUME Strict, UNCHANGED <<program, args>> PROVE ToolInv'
  <2>1. UNCHANGED <<program, args>>
    BY DEF NextTools, Threads, ToolStep, Parse, ParseEnd, Start, Initialize, Initializing,
           FailsToInitialize, ListChips, Recounted, Skip, Choose, Missing, NoMore, Ask, Answer,
           NoMoreLines, LineDone, End, Exited, allVars, toolVars, command
  <2> QED BY <2>1 DEF ToolInv, Strict
<1> USE ToolAssumption
<1>0. UNCHANGED command => Lines' = Lines /\ Requests' = Requests
  BY DEF command, Lines, Requests, Loops, Endless
<1>1. CASE Parse \/ ParseEnd \/ Start
  <2>1. ParseInv'
    BY ParseInvStep
  <2>2. CASE Parse
    <3>1. /\ step = "parse" /\ exit = "none"
          /\ UNCHANGED <<args, found, request, reached, uses, threw>>
          /\ \/ step' = "parse" /\ exit' = "none"
             \/ step' = "exited" /\ (exit' = "SUCCESS" => AsksForHelp(args'))
      BY <2>1, <2>2 DEF Parse, At, Quits, ParseInv, vars, consumers
    <3> QED BY <3>1 DEF Strict, ToolInv
  <2>3. CASE ParseEnd
    BY <2>3 DEF ParseEnd, At, Quits, ExitCode, Strict, ToolInv, vars, consumers
  <2>4. CASE Start
    BY <2>4 DEF Start, At, Construct, Constructed, Quits, ExitCode, Strict, ToolInv, store, vars, consumers
  <2> QED BY <1>1, <2>2, <2>3, <2>4
<1>2. CASE Initialize
  BY <1>2 DEF Initialize, At, InitializeCount, Strict, ToolInv
<1>3. CASE Initializing
  BY <1>3 DEF Initializing, At, InitializeStore, InitializeLook, Strict, ToolInv, toolVars
<1>4. CASE FailsToInitialize \/ ListChips
  BY <1>4 DEF FailsToInitialize, ListChips, At, Recounted, CountDevices, consumers, store, Exits, Strict, ToolInv
<1>5. CASE Skip \/ Missing \/ NoMore
  BY <1>5 DEF Skip, Missing, NoMore, At, Scan, Onward, Exits, vars, consumers, Strict, ToolInv
<1>6. CASE Choose
  BY <1>6 DEF Choose, At, Scan, FindsChip, Select, Chooses, WorksWith, IsFirst, Ready, Strict, store, ToolInv, TargetInv, ChipsAndLinesDiffer
<1>7. CASE Ask
  <2>1. /\ step = "lines" /\ step' = "asked"
        /\ UNCHANGED <<found, request, exit, reached, working, moved, command>>
    BY <1>7 DEF Ask, At, GpioCall, GoOn, store
  <2>2. working[Main] # None
    BY <2>1, ControllerAssumption DEF ToolInv, Usb
  <2>3. /\ pc' = [pc EXCEPT ![Main] = CheckOpen(Main)]
        /\ uses' = [uses EXCEPT ![Main] = 1] /\ threw' = [threw EXCEPT ![Main] = FALSE]
    BY <1>7, <2>2 DEF Ask, GpioCall, GoOn
  <2>4. pc'[Main] \in {"open", "use"} /\ uses'[Main] = 1
    BY <2>3 DEF CheckOpen, ToolInv, TargetInv
  <2> QED BY <1>0, <2>1, <2>3, <2>4 DEF ToolInv, Strict, Reached, Line
<1>8. CASE Answer
  <2>1. /\ step = "asked" /\ UNCHANGED <<step, found, request, exit, working, moved, command>>
        /\ OpenWorking(Main) \/ UseHandle(Main)
        /\ reached \subseteq reached'
    BY <1>8 DEF Answer, At, OpenWorking, UseHandle, GoOn, store
  <2>2. CASE OpenWorking(Main)
    <3>1. /\ \/ pc' = [pc EXCEPT ![Main] = "use"] /\ uses' = [uses EXCEPT ![Main] = uses[Main]]
             \/ pc' = [pc EXCEPT ![Main] = "idle"] /\ uses' = [uses EXCEPT ![Main] = 0]
        /\ \/ pc'[Main] = "use" /\ threw' = [threw EXCEPT ![Main] = FALSE]
           \/ threw' = [threw EXCEPT ![Main] = TRUE]
      BY <2>2 DEF OpenWorking, GoOn, TargetInv
    <3> QED BY <1>0, <2>1, <2>2, <3>1 DEF OpenWorking, ToolInv, TargetInv, Strict, Reached, Line
  <2>3. CASE UseHandle(Main)
    <3>1. /\ pc[Main] = "use" /\ uses[Main] = 1 /\ isOpen[found] /\ working[Main] = found
          /\ found \in Chips
      BY <2>1, <2>3 DEF UseHandle, ToolInv, OpenInv
    <3>2. pc' = [pc EXCEPT ![Main] = "idle"]
      BY <2>3, <3>1 DEF UseHandle
    <3>3. found \notin moved => target[found] = found
      BY <3>1 DEF TargetInv, PlacesInv, OpenInv, Range
    <3>4. pc'[Main] = "idle" /\ DOMAIN uses' = Controllers /\ DOMAIN threw' = Controllers
      BY <2>3, <3>2 DEF UseHandle, GoOn, TargetInv, ToolInv
    <3>5. found \notin moved /\ ~threw'[Main] => <<Line(request) % Width, found>> \in reached'
      BY <1>8, <3>1, <3>3 DEF Answer, ToolInv
    <3> QED BY <1>0, <2>1, <3>4, <3>5 DEF ToolInv, Strict, Reached, Line
  <2> QED BY <2>1, <2>2, <2>3
<1>9. CASE LineDone
  <2>1. /\ step = "asked" /\ pc[Main] = "idle"
        /\ UNCHANGED <<found, reached, pc, uses, threw, working, moved, command>>
        /\ IF threw[Main] THEN Exits("RUNTIME_EXCEPTION") /\ UNCHANGED request ELSE NextRequest
    BY <1>9 DEF LineDone, Answered, At, GetLine, HammerLine, SetLine, InspectLine, vars, store, consumers, Strict
  <2>2. CASE threw[Main]
    BY <1>0, <2>1, <2>2 DEF Exits, ToolInv, Strict, Reached, Line
  <2>3. CASE ~threw[Main]
    <3>1. /\ request' = request + 1 /\ step' = "lines" /\ UNCHANGED exit
          /\ request \in Nat \ {0} /\ exit = "none"
      BY <2>1, <2>3 DEF NextRequest, ToolInv
    <3>2. ASSUME found \notin moved, NEW r \in 1 .. request PROVE Reached(r)'
      <4>1. r = request \/ r \in 1 .. request - 1
        BY <3>1
      <4>2. Reached(r)
        BY <2>1, <2>3, <3>2, <4>1 DEF ToolInv
      <4> QED BY <1>0, <2>1, <4>2 DEF Reached, Line
    <3> QED BY <2>1, <3>1, <3>2 DEF ToolInv, Strict
  <2> QED BY <2>2, <2>3
<1>10. CASE NoMoreLines
  <2>1. /\ step = "lines" /\ request > Requests /\ request \in Nat \ {0}
        /\ UNCHANGED <<found, reached, pc, uses, threw, working, moved, command>>
        /\ exit = "none" /\ found \in Chips /\ working[Main] = found /\ pc[Main] = "idle"
        /\ found \notin moved => \A r \in 1 .. request - 1 : Reached(r)
    BY <1>10 DEF NoMoreLines, At, vars, store, consumers, ToolInv
  <2>2. Requests \in Nat /\ Len(Lines) \in Nat /\ Requests >= Len(Lines)
    BY <2>1, RequestsCoverLines DEF ParseInv, Strict
  <2>3. found \notin moved => \A r \in 1 .. Requests : Reached(r)'
    BY <1>0, <2>1, <2>2 DEF Reached, Line
  <2>4. CASE request' = Len(Lines) + 1 /\ UNCHANGED <<step, exit>>
    BY <1>0, <2>1, <2>2, <2>3, <2>4 DEF ToolInv, Strict
  <2>5. CASE Exits("SUCCESS") /\ UNCHANGED request
    BY <1>0, <2>1, <2>3, <2>5 DEF Exits, ToolInv, Strict
  <2> QED BY <1>10, <2>4, <2>5 DEF NoMoreLines
<1>11. CASE End
  BY <1>0, <1>11 DEF End, At, Destroy, store, ToolInv, Strict, Reached, Line
<1>12. CASE BusStep /\ UNCHANGED toolVars
  BY <1>0, <1>12 DEF BusStep, Plug, Unplug, BusBecomes, consumers, toolVars, Strict, ToolInv, Reached, Line
<1>13. CASE UNCHANGED allVars
  BY <1>0, <1>13 DEF allVars, toolVars, vars, consumers, store, Strict, ToolInv, Reached, Line
<1> QED
  BY <1>1, <1>2, <1>3, <1>4, <1>5, <1>6, <1>7, <1>8, <1>9, <1>10, <1>11, <1>12, <1>13
     DEF NextTools, ToolStep, Exited, Threads, Strict

(* A tool that gives up at the first failure and exits with success was    *)
(* asked for help, or has reached every line that its command line names,  *)
(* on the chip that it found, unless that chip was moved on the bus: if    *)
(* the chips have different serial numbers, and no line has a number that  *)
(* is cut.                                                                 *)
THEOREM SuccessMeansReached ==
  ASSUME SelectsAny, Exclusive, ChipsAndLinesDiffer
  PROVE  ToolSpec => []SuccessReachesChip
<1> DEFINE Inv == PlacesInv /\ TargetInv /\ OpenInv /\ ParseInv /\ ToolInv
<1>1. InitTools => Inv
  <2>1. InitTools => ToolInv
    BY DEF InitTools, Init, ToolInv, Strict
  <2> QED BY <2>1, ParseInitial, PlacesInitial, OpenInitial DEF InitTools
<1>2. Inv /\ [NextTools]_allVars => Inv'
  BY ToolStepIsStep, PlacesStep, TargetStep, OpenStep, ParseInvStep, ToolInvStep
<1>3. Inv => SuccessReachesChip
  <2> SUFFICES ASSUME Inv, exit = "SUCCESS", Strict, ~AsksForHelp(args), found \notin moved,
                      NEW i \in LinePlaces(program, args)
               PROVE  <<Number(args[i].text), found>> \in reached
    BY DEF SuccessReachesChip, AllReached, Strict
  <2> USE ToolAssumption
  <2> DEFINE n == Number(args[i].text)
  <2>1. args \in Seq(Options) /\ n \in 0 .. Width - 1
    BY DEF ParseInv, ChipsAndLinesDiffer
  <2>2. settings \in Settings /\ settings.code = "SUCCESS" /\ parsed = Len(args)
    BY DEF ParseInv, Strict
  <2>3. i <= parsed
    BY <2>1, <2>2 DEF LinePlaces
  <2>4. PICK j \in DOMAIN Lines : Lines[j] = n
    BY <2>2, <2>3 DEF ParseInv, Strict
  <2>5. /\ Len(Lines) \in Nat /\ DOMAIN Lines = 1 .. Len(Lines)
        /\ Requests \in Nat /\ Requests >= Len(Lines)
    BY <2>2, RequestsCoverLines DEF Settings, Lines
  <2>6. j \in 1 .. Requests /\ j - 1 \in Nat /\ j - 1 < Len(Lines) /\ Len(Lines) \in Nat \ {0}
    BY <2>5
  <2>7. Line(j) = n
    <3>1. (j - 1) % Len(Lines) = j - 1
      BY <2>6, SmallIsItsRemainder
    <3> QED BY <2>4, <2>5, <3>1 DEF Line, Strict
  <2>8. n % Width = n
    <3>1. Width \in Nat \ {0} /\ n \in Nat /\ n < Width
      BY <2>1
    <3> QED BY <3>1, SmallIsItsRemainder
  <2> HIDE DEF n
  <2>9. Reached(j)
    BY <2>6 DEF ToolInv
  <2> QED BY <2>7, <2>8, <2>9 DEF Reached, n
<1> HIDE DEF Inv
<1> QED BY <1>1, <1>2, <1>3, PTL DEF ToolSpec
=============================================================================

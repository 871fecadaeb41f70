# CyUSBSerial SDK: specifications and proofs

TLA+ modules, TLC configurations and TLAPS proofs for the library that talks
to Cypress USB-serial bridges through libusb (`src/modules/cyusb`) and for the
command line tools on top of it (`src/modules/cyusb-tools`).  The repository
has no tests of its own; the modules are written from the code.

## 1. The system

| Component | Code | State | Operations | Interacts by |
|---|---|---|---|---|
| UART left-over queue | `cyuart.cpp:40-180` | `gSimpleDataQueue`: one static ring of 256 bytes per serial block, `uint8_t` positions, fill level | add, get, reset | called by `CyUartRead`, `CySetUartConfig`; no lock |
| UART transfers | `cyuart.cpp:186-508` | locals of each call | read, write, configure | bulk transfers, vendor requests |
| UART lines and flow control | `cyuart.cpp:512-791` | in `CY_DEVICE`: `rtsValue`, `dtrValue`, `uartFlowControlMode` | set and clear RTS and DTR, set and get the mode | class requests; called by `CyOpen`, `CyClose`; no lock |
| Library session | `cyusb.cpp` | `glDriverInit`, `glDeviceList`, `glNumDevices`, mutex `criticalSection`; the caller's lists | init, exit, list, device information by number or by ids, open, close | global state, used by any thread |
| Device life | `cyusb.cpp:515-658` | the `CY_DEVICE` of a handle | open, close | the lines, the monitor, the locks of the device |
| Event notification | `cymisc.cpp:212-497` | in `CY_DEVICE`: thread id, cancel flag, transfer, `notificationLock` | set, abort; a monitor thread per device | shared fields, callback of the application, interrupt endpoint |
| I2C transfers | `cyi2c.cpp` | `readLock`, `writeLock` | read, write, configure | bulk endpoints, one interrupt endpoint for both directions |
| SPI transfers | `cyspi.cpp` | `writeLock`; parameters of the read thread on the caller's stack | read, write, both | bulk endpoints, status requests, a read thread |
| CyController | `CyController.cpp/.hpp` | reference counter, `device_list`, `once_flag`, per device `handle`, `is_open`, mutex | construct, destroy, initialize, select, GPIO | the library session; several consumers |
| Command line tools | `cyusb-tools` | the settings from the command line, the search for a chip, the exit code | `lscygpio`, `cygpioget`, `cygpioset`, `cygpio-hammer` | one controller each, and the library's list directly |
| JTAG, PHDC, GPIO, flash, signature, version, reset | `cyjtag.cpp`, `cyphdc.cpp`, `cymisc.cpp` | none | single vendor or class requests | control endpoint |
| Examples | `examples` | none | sequential programs | clients of the library |

What is hard here: threads share static state (device list, queues, handles)
under locks that cover only a part of it; flags are read before a lock and used
after; two calls wait on one endpoint; time is kept in unsigned variables by a
wall clock; every call has many ways out, each of which must unlock, join and
free; a monitor thread races its abort, and the close that frees its device;
positions in a list are kept while the list is rebuilt and devices come and go.
`PROJECT.json` lists the hazards line by line, each with the properties that
would catch it or with the reason why none does.

What makes each component correct:

- queue: it is a FIFO, whatever the positions (`FifoSpec`);
- UART read: every byte is delivered once, in order, to a reader of its device;
  the queue is never full; success means a full buffer;
- UART lines: what is remembered is what the device does, however many requests
  failed or met before (`LinesAgree`);
- session: the list is usable by whoever holds the mutex and is never leaked;
  the caller's lists describe the devices that match; devices are opened only
  while the library is up and have one owner.  That the list has the length that
  is reported, that a closed device is released and that information is given
  only while the library is up should hold, too, and does not (section 3);
- device life: no monitor thread uses a `CY_DEVICE` that was freed, and close
  returns;
- notification: the device knows its monitor; a monitor's end is aborted or
  reported; an abort silences it, and returns unless its cancellation came too
  early;
- I2C, SPI: the locks are held by calls that run; calls return; success means
  that everything was transferred and nothing was reset on the way;
- CyController: requests go out on open handles only, to the device that was
  selected; no handle is lost; the library is up while a controller exists
  (which does not hold);
- tools: a tool that reports success has done what its command line says.

## 2. Modules

| Module | Models | Notes |
|---|---|---|
| `ByteFifo` | abstract FIFO of bytes | what `UartQueue` implements |
| `CyDataQueue` | the two queue helpers as operators on a record | pure, used by `UartQueue` and `UartRead` |
| `UartQueue` | one queue under any sequence of calls | refinement `Fifo == INSTANCE ByteFifo` |
| `UartRead` | `CyUartRead` in several threads, two devices, two blocks | composes with `CyDataQueue` |
| `UartLines` | RTS, DTR and the flow control mode of one UART | reads, requests and stores are steps of their own |
| `EventNotification` | set, abort and the monitor threads of one device | `Kind` is "UART" or "SPI" |
| `UartDevice` | `CyOpen` and `CyClose` around the calls of one device | composes `EventNotification` and `UartLines` |
| `CySession` | abstract session: up, open devices | what `CyLibrary` implements |
| `DeviceInfoList` | the loop of `CyGetDeviceInfoVidPid` over the caller's lists | operators on a record |
| `CyLibrary` | `cyusb.cpp` in several threads | uses `DeviceInfoList`; `Session == INSTANCE CySession` |
| `CyController` | consumers with all their ways to choose a device, stored devices, reference counter, the bus | one consumer per controller; the library as far as its list and flag go |
| `ToolOptions` | `parse_cmdline_args` of the four tools | operators on a record of settings |
| `GpioTools` | the four tools, or any program with threads | extends `CyController` and `ToolOptions` |
| `I2cTransfer` | `CyI2cRead`, `CyI2cWrite`, `waitForNotification` | |
| `SpiTransfer` | `CySpiReadWrite`, `CySpiWrite`, `spiCollectData`, `CySpiRead` | |
| `MC*` | instances for TLC | roles of threads, command lines, symmetry |
| `*Proofs` | theorems | section 5 |

State and actions.  A variable of a module is a variable of the code, named
after it (the comment at its declaration says which), or a program counter, or
a history variable, marked as one.  An action is what a thread does between two
accesses to state that others can change: for example `ListFree` and
`ListRebuild` are the two halves of `CyGetListofDevices` with the mutex held,
`SetCreate` and `SetPublish` the creation of the monitor and the store of its
id, `AbortJoin` and `AbortReset` the call of `pthread_join` with the id as it is
then and what follows its return, and `Begin`, `Send` and `Store` the read of the other line, the request and
the store of the own one.  A call that is refused at once is a disjunct of its
first action.  `map` in `PROJECT.json` gives the lines of each definition.

Abstractions:

- libusb and the device are external.  A transfer or request ends in every way
  that the code tells apart; errors that the code treats alike are one value.
- Data is counted (SPI), identified (UART: byte number i of device d) or left
  out (I2C).  Lengths, ring sizes and time-outs are parameters.
- Time is not a variable: a transfer that has t milliseconds left is measured
  to take any time in a range that starts at t if it times out and ends `Late`
  above t.  `TimeMod` stands for 2^32, and the subtractions wrap as in the
  code.  The clock is the wall clock (`gettimeofday`); a clock that is set back
  is not modelled.
- Integers are cut to their width where the code depends on it: `CountSize`
  stands for the 2^8 of the `uint8_t` that the length of the list goes through
  and `UintSize` for the 2^32 of `glNumDevices`, so that an error of libusb
  becomes a number of devices.  `built`, a history variable, says whether there
  is a list.
- Memory that the code does not initialize (a new `CY_DEVICE`, the number of
  devices when the library is down, an empty offset) holds any value.
- Parameter checks that end a call without a change of state (null handles,
  wrong device type) are left out.
- `I2cTransfer` assumes time-outs above zero; `SpiTransfer` has zero, "for
  ever".
- `UartDevice`: the application calls a function only while the device is open,
  and `CyClose` when no other call is under way, since the header wants a valid
  handle.  The library stays up; `CyLibrary` has the calls for which it does not.
- `CyLibrary`: `CyClose` is called on devices whose locks are free; a caller
  heeds the result of `CyOpen`.
- `CyController`: a controller works with devices of the stored list, chosen by
  serial number or handed over by another controller, not with `Device` objects
  that the application makes itself.  So `close_working_device` has no effect:
  it closes only a device that no one else refers to, and the stored list always
  does.  A start of the library that fails leaves everything as it was, and so
  does a serial number that is not found: no step is taken.  Listing the devices
  does not fail (`CyLibrary` has that).  A chip has one I2C interface, where
  `cygpioset` advances its count of chips once per I2C interface
  (`cygpioset.cpp:284-298`).
- `SpiTransfer`: one device.  The timers of `cyspi.cpp:51` are globals, so that a
  transfer on another device restarts them and the time measured here may be
  too short.  The status request has no time-out (`cyspi.cpp:398`); the device is
  assumed to answer it, or to fail.
- `I2cTransfer`: the status request and the reset that follows it are one step.
- `ToolOptions`: a text is what the parser can tell of it: whether it begins
  with "gpiochip", the number `strtol` reads, whether the value after "=" is
  bad, whether it is empty.  Numbers fit an `int`.

## 3. Runs

Eight runs must pass, four must find a violation.  Each finishes in at most
three minutes with two workers.

| Run | Instance | Properties | States |
|---|---|---|---|
| `uart_queue` | ring of 2 pages of 3 bytes, buffers up to 6 | `TypeOK`, `PositionsAgree`, `FifoSpec` | 8,046 |
| `uart_ports` | two devices on two blocks, two threads, 3 bytes sent per device, packets up to 3 | `EachByteOnce`, `OwnBytesInOrder` | 1.33 million |
| `uart_faults` | one device read by two threads, failing submissions, late clock, wrapping timer | `TypeOK`, `QueueFits`, `SuccessMeansFull` | 2.18 million |
| `library` | a main thread that calls everything, two workers that open and close; three devices, information lists of up to two, counts cut to 3, a list that cannot be built | `TypeOK`, `ListUsable`, `NoListLeaked`, `OneOwner`, `InfoListIsRight`, `SessionSpec` | 512,000 |
| `device` | two threads that open and close a UART and use its monitor, or open and close it and set its lines; two monitors, faults, a device that may be silent | `DeviceTypeOK`, `WatcherIsKnown`, `EndIsReported`, `KnownMonitorRuns`, `NoUseAfterFree`, `LinesAgree`, `AbortSilences`, `AbortReturnsUnlessLate`, `CloseReturnsUnlessLate` | 233,000 |
| `controller` | each tool with 18 command lines, good and odd, or two consumers in two threads with a device each; two chips, two changes of the bus | `ToolTypeOK`, `UsesOpenHandle`, `NoHandleLost`, `DrivesSelected`, `SuccessReachesChip` | 1.14 million |
| `i2c` | two threads, both directions, faults and time-outs | `TypeOK`, `OneCallPerDirection`, `ReadLockIsServed`, `CallsReturn` | 240,000 |
| `spi` | two threads, lengths 1-2, time-outs 0 and 2, a clock late by 1 | `TypeOK`, `LockIsServed`, `ReaderIsJoined`, `SuccessMeansDone`, `CallsReturn` | 83,000 |

Why the bounds are enough.  A ring of six cells has every relation of head,
tail and wrap-around that one of 256 has, and a page of three bytes leaves one
or two bytes over.  Two threads (three where a mutex, a worker and an intruder
are needed) give every pairwise interleaving, and the code has no operation
that involves three calls at once.  `MaxLists = 3` is one more than may exist
at the same time, so that a list that is freed and one that is leaked are told
apart.  `CountSize = 3` cuts the length of a list of three devices to zero, as
256 is cut by a `uint8_t`, and an error to a number that a scan would reach.
Three devices and lists of two give a scan that skips, that fills the lists and
that finds one too many.  Two monitors allow one that failed or was aborted and
one that runs.  Two chips and two changes allow a chip to be unplugged and
plugged in again at another position, before or after the other one.  `TimeMod` is small, so that
the subtractions wrap within a few milliseconds, and `Width = 4` stands for the
256 lines that a `uint8_t` can name.  The theorems of section 5 remove the
bounds for the properties they state.

What the passing runs assume, and where it is needed:

- `library`: one thread starts, stops and lists.  If another thread may list or
  query while the main thread stops the library, the freed list is used
  (`library_late_reader`); if none stops it, all may list (`library_shared`).  A
  list that libusb could not build is not usable; nobody is told
  (`cyusb.cpp:57,111`, `library_list_fails`), and `ListUsable` makes the
  exception.
- `controller`: consumers in different threads use different devices, chips
  have different serial numbers, and lines have numbers below the width.
- `device`: no assumption on the device, which may be silent for ever.
  `AbortReturnsUnlessLate` and `CloseReturnsUnlessLate` name the one hang that
  this allows: a monitor that had looked at the flag before the abort set it, and
  that submits its transfer after the abort has cancelled (`late`), waits for
  ever after.  Its cause is in the run `monitor_silent_device`.
- `i2c`: the clock is on time, `spi`: submissions succeed and there is no
  endless row of empty packets (only the liveness properties need these).

One more configuration passes, `library_shared` (MCCyLibrary, 140,000 states):
several threads list, query, open and close while none stops the library, and
`ListUsable` holds.  The theorem `SharedListIsUsable` says so for any number.

### Violations

| Run | Property | What it shows |
|---|---|---|
| `controller_shared_device` | `UsesOpenHandle` | two consumers of one device both open it, and the second one frees the object in the shared handle (`CyController.cpp:219`) |
| `i2c_lock_leak` | `LocksAreServed` | a stalled write whose status request fails keeps the write lock (`cyi2c.cpp:513-557`) |
| `library_overrun` | `NoOverrun` | one more device than the caller's lists take is written behind their end (`cyusb.cpp:291`) |
| `monitor_silent_device` | `AbortReturns` | a cancellation between the flag and the submission is lost, and the abort waits for the device (`cymisc.cpp:241-244`, `463-465`) |

### Counterexample configurations

These further configurations are kept for a reader who wants to see a
limitation of the code at work; TLC reports a violation for each.  Where one
lists several invariants, TLC stops at the first that is violated; all of them
are (`-continue` with one worker shows them).

| Configuration (module) | Property | Behaviour |
|---|---|---|
| `uart_same_block` (MCUartRead) | `OwnBytesInOrder` | two devices on the same block number share the static queue (`cyuart.cpp:57`) |
| `uart_submit_fault` | `HandsOutWhatWasRead` | `transferCount` is used uninitialized after a failed submission (`:446-451`) |
| `uart_more_threads` | `QueueNeverFull` | more reading threads than pages fill the ring, contrary to the comment at `:41-44` |
| `uart_late_timer` | `TimeLeftNeverGrows` | the remaining time wraps below zero (`:449`) |
| `library_late_reader` (MCCyLibrary) | `InfoOnlyWhileUp` | information is read from the list after another thread has stopped the library and freed it (`cyusb.cpp:137-150`) |
| `library_list_fails` | `ListCountsDevices` | a list that libusb could not build is reported as 245 devices (`cyusb.cpp:109-111`) |
| `library_close_late` | `CloseReleases` | `CyClose` reports success and releases nothing once the library was stopped (`cyusb.cpp:630`), where the header documents an error (`CyUSBSerial.hpp:806`) |
| `monitor_spi_fails` (EventNotification) | `EndIsReported` | the failure bit 0x800, "Event thread failed" (`CyUSBSerial.hpp:607`), does not fit the SPI monitor's `uint8_t` (`cymisc.cpp:298,349`) |
| `monitor_limits` | `CancelsATransfer`, `JoinsAThread` | `libusb_cancel_transfer` on no transfer or a freed one; `pthread_join` of thread 0, after the monitor has failed |
| `controller_destroyed` (MCCyController) | `LibraryUpWhileAlive` | the first destructor stops the library under the other controllers (`CyController.cpp:82,99`) |
| `controller_moved` | `AlwaysDrivesSelected`, `OpenMeansPresent` | after a device was plugged in or out the stored number is that of another one (`:51,222`); `is_open` stays set for a device that was unplugged and is back (`:219`) |
| `tools_same_serial` (MCGpioTools) | `SuccessReachesChip` | of chips without a serial number the first one is driven, whichever was named |
| `tools_limits` | `SuccessReachesChip`, `SetReachesChip`, `HammersSomeLine` | a line number of 256 or more is cut (`CyController.cpp:316`); `cygpioset` exits with success though a line could not be set (`cygpioset.cpp:243`); `cygpio-hammer` without a line loops over none for ever, where its usage asks for "at least one" (`cygpio-hammer.cpp:25`) |
| `i2c_limits` (I2cTransfer) | `OwnAnswer`, `StallIsCleared` | a read consumes the notification of a write; a read clears the halt of the write endpoint (`cyi2c.cpp:359`) |
| `i2c_timeout` | `TimeoutIsReported` | a time-out of the notification is reported as a failed request (`cyi2c.cpp:744`), where the header documents `CY_ERROR_IO_TIMEOUT` (`CyUSBSerial.hpp:1447,1486`) |
| `i2c` with `LateClock = TRUE`, `Faults = FALSE` | `CallsReturn` | the wait has no end after a late bulk transfer (`:334`, `:492`) |
| `spi_limits` (SpiTransfer) | `PollsWithinTimeout`, `FullReadSucceeds` | the status loop runs past its time-out (`cyspi.cpp:448`); a full buffer that comes at the last millisecond is a time-out (`:547`) |
| `spi` with `SubmitFaults = TRUE` (TLC option `-deadlock`) | `CallsReturn` | a failed submission is waited for (`:325`) |
| `spi` with `Timeouts = {7}` | `SuccessMeansDone` | a time-out of 2^31 or more reads nothing and succeeds (`:524`) |
| `spi` with `EmptyPackets = TRUE` | `CallsReturn` | empty packets that take no time keep a read going |

## 4. Fairness

Liveness is stated under weak fairness of each thread's steps (the scheduler
runs every thread that can run; a thread that waits for a mutex, for `join` or
for a transfer cannot) and of the end of what libusb ends by itself: a transfer
that was cancelled, or one with a time-out.  No strong fairness is assumed: the
I2C and SPI locks are only tried, and the notification lock is asked for at the
start of a call, which is not a step that anyone has to take; `CyClose` begins
when no other call is under way, so that it finds the lock free.  In
`UartDevice` the thread that is in `CyOpen` or `CyClose` goes on and requests
return (they have a time-out).  Events of the device are never fair: its
interrupt transfer has no time-out (`cymisc.cpp:243`) and nothing makes the
device send one, so that the properties speak of a device that is silent for
ever.  The reads of the UART have no liveness property, since the caller's
time-out may wrap.

## 5. Proofs

All theorems hold for every value of the constants that the modules' `ASSUME`s
allow, and under the conditions stated in the theorem.

| Module | Theorems | Argument |
|---|---|---|
| `CyDataQueueProofs` | lemmas | `WellFormed` (tail = head + fill level around the ring, also when the ring is full) is kept by adding and taking; what the queue holds changes as a sequence would, wrap or not, and what does not fit is dropped from the end |
| `UartQueueProofs` | `QueueTypeCorrect`, `QueueInvariant`, `QueueImplementsFifo` | `WellFormed` is inductive; each step maps to `Put` of exactly the bytes added, `Take`, `Clear` or a stutter |
| `UartReadProofs` | `ReadersTypeCorrect`, `ReadSuccessMeansFull` | the positions of the queues agree and a call stays in its loop only while its buffer has room (`TypeInv`); no assumption on the number of threads |
| | `ReadersNeverFillQueue` | if there are no more reading threads than pages: a thread that adds a left-over finds that its own earlier one was taken; so a queue holds at most one left-over, shorter than a page, per thread that added since it was empty.  With no more threads than pages that is less than the ring.  The invariant (`FillInv`) carries the history variable `added` and its cardinality |
| | `ReadersKeepEachByteOnce` | under the same condition, and if libusb submits every transfer: the bytes are kept in accounts, one for what was handed out of each device, one for each call and one for each queue, beside those wiped with a queue; the accounts share out the bytes that were sent, and every step moves bytes between them, pays new ones in or wipes them (`ByteInv`; `Moved`, `PaidIn`, `WrittenOff`) |
| | `ReadersGetOwnBytesInOrder` | if libusb submits every transfer and no two devices share a block: who holds a byte reads the device it came from (`OwnInv`), and what a device's only reader was handed, has in hand and has left in the queue, one after the other, is in the order in which it was sent (`Pipeline`, `OrderInv`).  This holds of full queues too: what is dropped leaves the order of the rest alone |
| `CyLibraryProofs` | `LibraryTypeCorrect`, `LibraryImplementsSession` | who is inside the mutex holds it; therefore `driverInit` cannot become false between CyOpen's second look and its end, and `selecting` devices become open only while the library is up |
| | `DevicesHaveOneOwner` | handles are given out only while free, and a thread lets go of one only after releasing it (`OwnerInv`) |
| | `InfoListDescribesMatches` | either all matches are described so far, or the lists are full (`InOrder`); each turn of the loop keeps one of the two |
| | `ListIsUsable`, `ListIsNotLeaked`, `InfoIsGivenWhileUp` | if one thread makes all calls but open and close (`SoleCaller`), where that thread is tells which lists exist (`ListInv`), and information on a device is given only while the library is up |
| | `SharedListIsUsable` | if no thread stops the library and one thread starts it (`NeverStopped`), any number of threads may list and query: once the flag is set the list exists whenever the mutex is free, and a thread that rebuilds it is alone with it (`SharedInv`) |
| `UartDeviceProofs` | `DeviceTypeCorrect`, `DeviceLinesAgree` | `LinesInv`: a request that meets no other one has read what is remembered, and whoever overlaps it is known to; so at its end the fields it sent agree |
| | `DeviceKnowsItsWatcher`, `UartEndIsReported`, `UartKnownMonitorRuns`, `AbortSilencesMonitor` | `MonitorInv`: inside the two functions the lock is held; a thread that uses the device is known or about to be published; only an abort ends one without a word; the thread that an abort joins is the last that watched (`JoinedLast`), so that when it returns every monitor has ended or has given up its id |
| | `DeviceIsFreedUnused` | `LifeInv`: open and close run alone; close has either joined the thread that the device knew, or the device knew none, and then there is no user |
| `CyControllerProofs` | `ControllersUseOpenHandles`, `ControllersKeepHandles` | under `Exclusive` (one thread, or devices of one's own) at most one consumer is busy with a device; so what it saw of `is_open` still holds when it opens or uses the handle |
| | `RequestsReachSelected` | a chip that was not moved has in the list, whenever it is rebuilt, the position that was stored (`PlacesInv`), and its handle was opened there (`TargetInv`) |
| | `ToolsAreConsumers` | every step of a tool is a step of CyController or leaves its state alone, so that the theorems above hold of the tools |
| | `ControllerTypeCorrect`, `ToolTypeCorrect` | the bus lists no device twice, hence no more devices than there are (`BusFits`), and inserting or removing one keeps it so; a call that is about to send has a device and one or two requests left (`TypeInv`); a tool's search ends at the list as it was counted, and its requests end at the last line (`ToolTypeInv`, `RequestsAreCounted`) |
| | `SuccessMeansReached` | the settings hold every line that was parsed (`ParseInv`); every request before the current one has reached its line on the chip that was found (`ToolInv`); an exit with success comes after all requests, and these cover all lines |
| `I2cTransferProofs` | `I2cTypeCorrect`, `I2cOneCallPerDirection`, `I2cReadLockIsServed`, `I2cLocksAreServed` | the lock of a direction is held by the call that runs in it or, for writes, was leaked by the one exit that forgets it, which needs a fault; a transfer is in the queue of the interrupt endpoint as long as its call waits for it (`OthersStay`) |
| `SpiTransferProofs` | `SpiTypeCorrect`, `SpiLockIsServed`, `SpiReaderIsJoined` | types, lock and read thread are inductive together; every way out of a call goes through one lemma, every way on through another |
| | `SpiSuccessMeansDone` | if the time-outs are below 2^31 (`ShortTimeouts`): a reset of the block is remembered by the status of whoever did it, the write's status is set by nothing else, and the read thread leaves its loop in success only with a full buffer (`DoneInv`) |

What the conditions exclude happens in the code, and a configuration of section
3 shows it: `uart_more_threads` (more threads than pages), `uart_submit_fault`
(a transfer that libusb does not submit), `uart_same_block` (a shared block),
`spi` with `Timeouts = {7}` (a time-out of 2^31 or more), `library_late_reader`
(a thread that queries while another one stops the library), `controller_shared_device` and
`tools_same_serial`.

The proof of `ToolTypeCorrect` showed that a request may reach a USB device that
is no chip, once a device was plugged in before the chip that was stored: CyOpen
takes what is at the stored position (`CyController.cpp:222`).  The type of the
history variable `reached` says so; the run has no such device.

Every invariant and every action property of the passing runs is stated by a
theorem.  Only model-checked: liveness, that is everything under fairness
(`AbortReturnsUnlessLate`, `CloseReturnsUnlessLate`, `CallsReturn`), which is out
of the prover's reach.

## 6. Not modelled

- Single requests without state in the library: JTAG, PHDC, GPIO, flash,
  signature, firmware version, device reset, get and set of configurations,
  `CyUartSetBreak`, `CyUartWrite`.  A module of one would restate its code.
  The flash and JTAG calls put lengths in 16 bits of the request without a
  check.
- The descriptors that `CyGetDeviceInfo` reads, and the endpoints found by
  `CySelectInterface`.  That function leaks the configuration descriptor when
  it returns early.
- Memory that cannot be allocated in `CyOpen` (the device then stays open), and
  a lock that cannot be destroyed in `CyClose`, which then returns with the
  device open and some of its locks gone (`cyusb.cpp:639-653`).
- `Device` objects of CyController that are not those of the stored list.
- Two threads that both call `CyLibraryInit`, a race on plain variables.
- What `get_gpio_state` (`CyController.cpp:350-353`) and `spiCollectData`
  (`cyspi.cpp:514-563`) forget to return.  Leaving a function that returns a
  value without one is undefined in C++; both are modelled as a plain return.
  Nobody looks at the result of the read thread.  The value of a line is ignored
  by `lscygpio`, and `switch_gpio_state` writes it to the device, where no
  property looks at it.
- The caller's buffers between calls: an SPI write that times out sets its
  length to zero (`cyspi.cpp:477`), so that a retry writes nothing.
- Data races inside the queue helpers or on the vector of stored devices, whose
  outcome the language leaves undefined.
- Examples, build and packaging: no state of their own.

## 7. Plan

The order was: the queue and its FIFO, the UART read on top of it, the session
and its abstraction, the notification threads, CyController, the I2C and the
SPI transfers; then the device from open to close as the composition of the
notification and the lines, the caller's lists, the changing bus, and the tools
on top of the controller, each with its proofs.  What is left, in this order:

1. `CyClose` of a device with a leaked I2C lock, composed with `I2cTransfer`;
2. a list that cannot be built under CyController;
3. `CyUartWrite` next to `CyUartRead` on one device;
4. two SPI devices with their common timers.

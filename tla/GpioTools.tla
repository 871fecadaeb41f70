------------------------------ MODULE GpioTools ------------------------------
(***************************************************************************)
(* The command line tools lscygpio, cygpioget, cygpioset and cygpio-hammer *)
(* on top of CyController.                                                 *)
(*                                                                         *)
(* A tool is a process with one thread and one controller.  It parses its  *)
(* options, initializes the controller, counts the chips of a new list of  *)
(* the library until it comes to the number it was given, selects the      *)
(* stored device with that chip's serial number, and sends its requests,   *)
(* line by line.  Devices are plugged in and out meanwhile.                *)
(*                                                                         *)
(* The four copies of the search are one definition; what the tools do     *)
(* when a request throws is not the same.  A behaviour is that of one      *)
(* tool, or of a program with several threads that use CyController in any *)
(* way, "threads".                                                         *)
(***************************************************************************)
EXTENDS CyController, ToolOptions

CONSTANTS
  Main,      (* the controller of a tool                                   *)
  Commands,  (* the programs, "threads" or a tool, with their arguments    *)
  Inspected, (* INSPECT_MAX_LINES of lscygpio                              *)
  Width      (* 256: the number of a line is cut to a uint8_t              *)

ASSUME ToolAssumption ==
  /\ Main \in Controllers
  /\ Commands \subseteq (Tools \cup {"threads"}) \X Seq(Options)
  /\ Inspected \in Nat \ {0} /\ Width \in Nat \ {0}

VARIABLES
  program,  (* the program                                                 *)
  args,     (* argv                                                        *)
  parsed,   (* optind: how many arguments are parsed                       *)
  settings, (* app_settings                                                *)
  step,     (* where the tool is                                           *)
  total,    (* device_count                                                *)
  at,       (* the position, from 1, that the tool looks at                *)
  count,    (* gpiochip_count                                              *)
  found,    (* the chip whose serial number the tool has selected          *)
  request,  (* which request on that chip is next, from 1                  *)
  exit,     (* the exit code                                               *)
  reached   (* history: the lines that were reached, on which device       *)

command == <<program, args, parsed, settings>>
toolVars == <<command, step, total, at, count, found, request, exit, reached>>
allVars == <<vars, toolVars>>

InitTools ==
  /\ Init
  /\ \E k \in Commands : program = k[1] /\ args = k[2]
  /\ parsed = 0
  /\ settings = Defaults
  /\ step = "parse"
  /\ total = 0 /\ at = 1 /\ count = 0
  /\ found = None
  /\ request = 1
  /\ exit = "none"
  /\ reached = {}

Lines == settings.lines

(* cygpio-hammer goes on for ever if it is not told how often. *)
Endless == program = "cygpio-hammer" /\ settings.loops = 0
Loops == CASE settings.loops > 0 -> settings.loops [] Endless -> 1 [] OTHER -> 0

(* How many requests a tool sends to one chip, up to where an endless loop *)
(* begins anew, and on which line.                                         *)
Requests ==
  CASE program = "lscygpio" -> Inspected
    [] program = "cygpio-hammer" -> Len(Lines) * (1 + 2 * Loops)
    [] OTHER -> Len(Lines)

Line(r) ==
  IF program = "lscygpio" THEN r - 1 ELSE Lines[((r - 1) % Len(Lines)) + 1]

At(p) == step = p /\ program # "threads"

Exits(code) == step' = "end" /\ exit' = code

-----------------------------------------------------------------------------
(* The process ends before there is a controller. *)
Quits(code) == step' = "exited" /\ exit' = ExitCode(code)

(* One turn of the loop of parse_cmdline_args. *)
Parse ==
  /\ At("parse")
  /\ parsed < Len(args)
  /\ parsed' = parsed + 1
  /\ settings' \in ParseOption(program, settings, args[parsed + 1])
  /\ IF settings'.code # "SUCCESS" THEN Quits(settings'.code) ELSE UNCHANGED <<step, exit>>
  /\ UNCHANGED <<vars, program, args, total, at, count, found, request, reached>>

(* Its end. *)
ParseEnd ==
  /\ At("parse")
  /\ parsed = Len(args)
  /\ IF LacksChip(program, settings) THEN Quits("MISSING_REQUIRED_ARG")
     ELSE step' = "start" /\ UNCHANGED exit
  /\ UNCHANGED <<vars, command, total, at, count, found, request, reached>>

(* The constructor, which throws if the library cannot be started. *)
Start ==
  /\ At("start")
  /\ \/ step' = "initialize" /\ Construct(Main) /\ UNCHANGED exit
     \/ Quits("RUNTIME_EXCEPTION") /\ UNCHANGED vars
  /\ UNCHANGED <<command, total, at, count, found, request, reached>>

(* initialize. *)
Initialize ==
  /\ At("initialize")
  /\ step' = "initializing"
  /\ InitializeCount(Main)
  /\ UNCHANGED <<command, total, at, count, found, request, exit, reached>>

Initializing ==
  /\ At("initializing")
  /\ InitializeStore(Main) \/ InitializeLook(Main)
  /\ UNCHANGED toolVars

(* initialize has returned.  Either way the library's list is built anew,  *)
(* by the controller or by the tool.                                       *)
Recounted ==
  /\ CountDevices(Main)
  /\ UNCHANGED <<command, at, count, found, request, reached>>

FailsToInitialize ==
  /\ At("initializing")
  /\ ~initialized[Main]
  /\ Recounted
  /\ Exits("FAILED_TO_INITIALIZE")
  /\ UNCHANGED total

ListChips ==
  /\ At("initializing")
  /\ initialized[Main]
  /\ Recounted
  /\ step' = "scan"
  /\ total' = Len(bus)
  /\ UNCHANGED exit

(* The next position of the list. *)
Onward == at' = at + 1 /\ UNCHANGED <<step, found, request, exit, vars>>

Wanted == settings.chip = count \/ (program = "lscygpio" /\ settings.chip < 0)

Scan == At("scan") /\ at <= total

Stored(x) == \E s \in Chips : IsFirst(s, x)

(* No chip, its information cannot be fetched, or it is not asked for. *)
Skip ==
  /\ Scan
  /\ \/ UNCHANGED count
     \/ FindsChip(at) /\ ~Wanted /\ count' = count + 1
  /\ Onward
  /\ UNCHANGED <<command, total, reached>>

(* The chip is found by its serial number among the stored devices. *)
Choose ==
  /\ Scan
  /\ FindsChip(at) /\ Wanted
  /\ Select(Main, Serial[list[at]])
  /\ step' = "lines"
  /\ found' = list[at]
  /\ request' = 1
  /\ UNCHANGED <<command, total, at, count, exit, reached>>

(* It was not stored: lscygpio goes on, the other tools give up. *)
Missing ==
  /\ Scan
  /\ FindsChip(at) /\ Wanted /\ ~Stored(Serial[list[at]])
  /\ IF program = "lscygpio"
     THEN count' = count + 1 /\ Onward
     ELSE Exits("FAILED_DEVICE_SELECTION") /\ UNCHANGED <<count, at, found, request, vars>>
  /\ UNCHANGED <<command, total, reached>>

NoMore ==
  /\ At("scan")
  /\ at > total
  /\ Exits(IF program = "lscygpio" THEN "SUCCESS" ELSE "GPIOCHIP_NOT_FOUND")
  /\ UNCHANGED <<command, total, at, count, found, request, reached, vars>>

-----------------------------------------------------------------------------
(* One request after the other. *)
Ask ==
  /\ At("lines")
  /\ request <= Requests
  /\ GpioCall(Main, 1)
  /\ step' = "asked"
  /\ UNCHANGED <<command, total, at, count, found, request, exit, reached>>

(* The line's number is cut to eight bits on its way to the device. *)
Answer ==
  /\ At("asked")
  /\ OpenWorking(Main) \/ UseHandle(Main)
  /\ reached' = IF pc[Main] = "use" /\ ~threw'[Main]
                THEN reached \cup {<<Line(request) % Width, target[working[Main]]>>}
                ELSE reached
  /\ UNCHANGED <<command, step, total, at, count, found, request, exit>>

(* The call has returned or thrown. *)
Answered == At("asked") /\ pc[Main] = "idle"

(* No more requests: the tool ends, or its endless loop begins anew; with  *)
(* no line to hammer that is all it does.                                  *)
NoMoreLines ==
  /\ At("lines")
  /\ request > Requests
  /\ IF Endless THEN request' = Len(Lines) + 1 /\ UNCHANGED <<step, exit>>
     ELSE Exits("SUCCESS") /\ UNCHANGED request
  /\ UNCHANGED <<vars, command, total, at, count, found, reached>>

NextRequest ==
  /\ request' = request + 1
  /\ step' = "lines"
  /\ UNCHANGED <<at, count, exit>>

(* Mutant: cygpioget goes on like cygpioset. *)
GetLineMutant ==
  /\ program = "cygpioget"
  /\ NextRequest

(* print_gpio_values: an exception ends the tool. *)
GetLine ==
  /\ program = "cygpioget"
  /\ IF threw[Main] THEN Exits("RUNTIME_EXCEPTION") /\ UNCHANGED <<at, count, request>>
     ELSE NextRequest

(* hammer_device: all lines are read, then set and read once in each loop. *)
HammerLine ==
  /\ program = "cygpio-hammer"
  /\ IF threw[Main] THEN Exits("RUNTIME_EXCEPTION") /\ UNCHANGED <<at, count, request>>
     ELSE NextRequest

(* set_gpio_values: an exception is reported, and the next line set. *)
SetLine ==
  /\ program = "cygpioset"
  /\ NextRequest

(* inspect_line_count: the first exception ends the count, and the next    *)
(* chip is looked for.                                                     *)
InspectLine ==
  /\ program = "lscygpio"
  /\ request' = request + 1
  /\ IF threw[Main] \/ request = Inspected
     THEN step' = "scan" /\ at' = at + 1 /\ count' = count + 1
     ELSE step' = "lines" /\ UNCHANGED <<at, count>>
  /\ UNCHANGED exit

LineDone ==
  /\ Answered
  /\ GetLine \/ HammerLine \/ SetLine \/ InspectLine
  /\ UNCHANGED <<command, total, found, reached, vars>>

(* The controller is destroyed, and the process ends. *)
End ==
  /\ At("end")
  /\ Destroy(Main)
  /\ step' = "exited"
  /\ UNCHANGED <<command, total, at, count, found, request, exit, reached>>

Exited == At("exited") /\ UNCHANGED allVars

-----------------------------------------------------------------------------
ToolStep ==
  \/ Parse \/ ParseEnd \/ Start \/ Initialize \/ Initializing \/ FailsToInitialize
  \/ ListChips \/ Skip \/ Choose \/ Missing \/ NoMore
  \/ Ask \/ Answer \/ LineDone \/ NoMoreLines \/ End \/ Exited

Threads == program = "threads" /\ Next /\ UNCHANGED toolVars

NextTools ==
  \/ Threads
  \/ program # "threads" /\ BusStep /\ UNCHANGED toolVars
  \/ ToolStep

ToolSpec == InitTools /\ [][NextTools]_allVars

-----------------------------------------------------------------------------
ToolTypeOK ==
  /\ TypeOK
  /\ <<program, args>> \in Commands
  /\ parsed \in 0 .. Len(args)
  /\ settings \in Settings
  /\ step \in {"parse", "start", "initialize", "initializing", "scan", "lines", "asked",
              "end", "exited"}
  /\ total \in 0 .. Cardinality(Usb) /\ at \in 1 .. total + 1 /\ count \in 0 .. at - 1
  /\ found \in Chips \cup {None}
  /\ request \in 1 .. Requests + 1
  /\ exit \in Codes \cup {"none", "MISSING_REQUIRED_ARG", "FAILED_TO_INITIALIZE",
                         "FAILED_DEVICE_SELECTION", "GPIOCHIP_NOT_FOUND", "RUNTIME_EXCEPTION"}
  /\ reached \subseteq (0 .. Width - 1) \X Usb

(* Every line that the command line names was reached, on the chip that    *)
(* the tool found.                                                         *)
AllReached ==
  \A i \in LinePlaces(program, args) : <<Number(args[i].text), found>> \in reached

(* A tool that gives up at the first failure and exits with success was    *)
(* asked for help, or has reached every line that its command line names,  *)
(* on the chip that had the number when the tool looked for it, unless     *)
(* that chip was moved since the controller was initialized.               *)
SuccessReachesChip ==
  exit = "SUCCESS" /\ program \in {"cygpioget", "cygpio-hammer"} =>
    AsksForHelp(args) \/ found \in moved \/ AllReached

(* The same of cygpioset. *)
SetReachesChip ==
  exit = "SUCCESS" /\ program = "cygpioset" =>
    AsksForHelp(args) \/ found \in moved \/ AllReached

(* cygpio-hammer takes at least one line, as its usage says: it does not   *)
(* work on a chip without one.                                             *)
HammersSomeLine ==
  program = "cygpio-hammer" /\ found # None => LinePlaces(program, args) # {}
=============================================================================

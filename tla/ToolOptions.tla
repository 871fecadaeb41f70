----------------------------- MODULE ToolOptions -----------------------------
(***************************************************************************)
(* How the command line tools read their options: parse_cmdline_args of    *)
(* lscygpio, cygpioget, cygpioset and cygpio-hammer.                       *)
(*                                                                         *)
(* An option is what getopt_long returns: a letter, or a regular argument  *)
(* in its place among the options.  A text is known by whether it begins   *)
(* with "gpiochip", by the number that strtol reads at its beginning (or   *)
(* after that prefix), whatever follows it, and by whether something that  *)
(* is no number follows a "=".  The numbers are taken to fit an int.       *)
(***************************************************************************)
EXTENDS Integers, Sequences

CONSTANTS
  NoNumber,  (* a text that has no number                                  *)
  Garbage    (* what an int may hold that was not initialized              *)

Tools == {"lscygpio", "cygpioget", "cygpioset", "cygpio-hammer"}

Texts ==
  [chip : BOOLEAN, number : Int \cup {NoNumber}, badValue : BOOLEAN, empty : BOOLEAN]

(* "?" is an option that no tool has, "missing" one that lacks its argument. *)
Options == [letter : {"arg", "h", "n", "o", "c", "?", "missing"}, text : Texts]

ASSUME OptionAssumption ==
  /\ NoNumber \notin Int
  /\ Garbage \subseteq Int

(* a_short_options. *)
Letters(tool) ==
  CASE tool = "lscygpio"  -> {"h", "n"}
    [] tool = "cygpioget" -> {"h"}
    [] OTHER              -> {"h", "n", "o", "c"}

(* AppSettings, with regular_arg_index and the exit code of the parser. *)
Defaults == [code |-> "SUCCESS", chip |-> -1, lines |-> <<>>, loops |-> 0, regular |-> 0]

Fails(s, code) == [s EXCEPT !.code = code]

(* strtol on a text from its beginning. *)
Number(t) == IF t.chip \/ t.empty THEN NoNumber ELSE t.number

(* "gpiochip" and the number of the chip. *)
SetChip(s, t) ==
  IF ~t.chip THEN Fails(s, "UNKNOWN_CMDLINE_ARG")
  ELSE IF t.number = NoNumber THEN Fails(s, "OPTION_ARG_PARSE_ERROR")
  ELSE [s EXCEPT !.chip = t.number]

AddLine(s, n) == [s EXCEPT !.lines = Append(@, n)]

(* An offset; without a number the parser fails. *)
AddOffset(s, t) ==
  IF Number(t) = NoNumber THEN Fails(s, "OPTION_ARG_PARSE_ERROR") ELSE AddLine(s, Number(t))

(* -c of cygpio-hammer. *)
SetLoops(s, t) ==
  IF Number(t) = NoNumber THEN Fails(s, "OPTION_ARG_PARSE_ERROR") ELSE [s EXCEPT !.loops = Number(t)]

(* The offset of an empty argument: cygpioget does not initialize it, the  *)
(* pair of cygpioset is zero.                                              *)
Unread(tool) == IF tool = "cygpioget" THEN Garbage ELSE {0}

(* What a regular argument may lead to: the first one names the chip, the  *)
(* others are offsets, each with a value for cygpioset.                    *)
Argument(tool, s, t) ==
  IF tool \notin {"cygpioget", "cygpioset"} THEN {Fails(s, "UNKNOWN_CMDLINE_ARG")}
  ELSE IF s.regular = 0 THEN {SetChip(s, t)}
  ELSE IF t.empty THEN {AddLine(s, n) : n \in Unread(tool)}
  ELSE IF tool = "cygpioset" /\ t.badValue THEN {Fails(s, "OPTION_ARG_PARSE_ERROR")}
  ELSE {AddOffset(s, t)}

Counted(s) == [s EXCEPT !.regular = @ + 1]

(* One turn of the loop: what the settings may become by an option.        *)
ParseOption(tool, s, o) ==
  IF o.letter = "arg" THEN {Counted(q) : q \in Argument(tool, s, o.text)}
  ELSE IF o.letter = "missing" /\ "n" \in Letters(tool) THEN {Fails(s, "MISSING_OPTION_ARG")}
  ELSE IF o.letter \notin Letters(tool) THEN {Fails(s, "UNKNOWN_CMDLINE_OPTION")}
  ELSE IF o.letter = "h" THEN {Fails(s, "PRINT_USAGE_AND_EXIT")}
  ELSE IF tool = "cygpioset" THEN {Fails(s, "CMDLINE_PARSE_ERROR")}
  ELSE IF o.letter = "n" THEN {SetChip(s, o.text)}
  ELSE IF o.letter = "o" THEN {AddOffset(s, o.text)}
  ELSE {SetLoops(s, o.text)}

(* After the loop. *)
LacksChip(tool, s) == tool \in {"cygpioget", "cygpioset"} /\ s.chip < 0

(* main reports a request for help as a success. *)
ExitCode(code) == IF code = "PRINT_USAGE_AND_EXIT" THEN "SUCCESS" ELSE code

(* The settings and the exit codes that the parser may produce. *)
Codes ==
  {"SUCCESS", "UNKNOWN_CMDLINE_ARG", "UNKNOWN_CMDLINE_OPTION", "OPTION_ARG_PARSE_ERROR",
   "MISSING_OPTION_ARG", "CMDLINE_PARSE_ERROR", "PRINT_USAGE_AND_EXIT"}

Settings == [code : Codes, chip : Int, lines : Seq(Int), loops : Int, regular : Nat]

-----------------------------------------------------------------------------
(* What a command line names, for the properties: the places of the lines   *)
(* in it, and whether it asks for help.                                    *)
LinePlaces(tool, args) ==
  {i \in DOMAIN args :
     /\ Number(args[i].text) # NoNumber
     /\ \/ tool = "cygpio-hammer" /\ args[i].letter = "o"
        \/ /\ tool \in {"cygpioget", "cygpioset"} /\ args[i].letter = "arg"
           /\ \E j \in 1 .. i - 1 : args[j].letter = "arg"}

AsksForHelp(args) == \E i \in DOMAIN args : args[i].letter = "h"
=============================================================================

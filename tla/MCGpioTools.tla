----------------------------- MODULE MCGpioTools -----------------------------
(* Instances of GpioTools: two chips, a tool that is asked for one of them  *)
(* or for all, or two threads.                                              *)
EXTENDS GpioTools

CONSTANTS c1, c2, s1, s2

(* Every chip has a serial number of its own, or none has one. *)
OwnSerial == [s \in Chips |-> s]
NoSerial == [s \in Chips |-> ""]

OwnDevice == (c1 :> {s1}) @@ (c2 :> {s2})
Nothing == (c1 :> {})

(* What may be written on a command line. *)
Text(c, n) == [chip |-> c, number |-> n, badValue |-> FALSE, empty |-> FALSE]
Empty == [Text(FALSE, NoNumber) EXCEPT !.empty = TRUE]
BadValue == [Text(FALSE, 0) EXCEPT !.badValue = TRUE]
Word == Text(FALSE, NoNumber)
Chip(n) == Text(TRUE, n)
Number_(n) == Text(FALSE, n)

Arg(t) == [letter |-> "arg", text |-> t]
Opt(l, t) == [letter |-> l, text |-> t]
Help == Opt("h", Empty)

(* The tools with good arguments: two lines on the first chip, one on the   *)
(* second, one or endless loops; lscygpio for all chips or for one.         *)
Get0 == <<Arg(Chip(0)), Arg(Number_(0)), Arg(Number_(2))>>
Get1 == <<Arg(Chip(1)), Arg(Number_(0))>>
Once == <<Opt("n", Chip(0)), Opt("o", Number_(0)), Opt("o", Number_(2)), Opt("c", Number_(1))>>
ForEver == <<Opt("n", Chip(1)), Opt("o", Number_(2))>>

Good ==
  ({"cygpioget", "cygpioset"} \X {Get0, Get1})
    \cup ({"cygpio-hammer"} \X {Once, ForEver})
    \cup ({"lscygpio"} \X {<<>>, <<Opt("n", Chip(1))>>})

(* Arguments that some tool or every tool refuses, or takes as they are:    *)
(* no chip, no line, an empty line, a value that is no number, a negative   *)
(* chip, help first or last.                                                *)
Odd ==
  Tools \X
    {<<>>, <<Help>>, <<Arg(Chip(0)), Help>>, <<Arg(Word)>>, <<Arg(Chip(NoNumber))>>,
     <<Arg(Chip(-1))>>, <<Arg(Chip(0))>>, <<Arg(Chip(0)), Arg(Empty)>>,
     <<Arg(Chip(0)), Arg(BadValue)>>, <<Arg(Chip(0)), Arg(Word)>>,
     <<Opt("?", Empty)>>, <<Opt("missing", Empty)>>, <<Opt("n", Word)>>, <<Opt("o", Word)>>,
     <<Opt("n", Chip(0))>>, <<Opt("n", Chip(0)), Opt("c", Number_(-1)), Opt("o", Number_(3))>>}

AnyCommand == {<<"threads", <<>>>>} \cup Good \cup Odd

Get == {<<"cygpioget", Get0>>, <<"cygpioget", Get1>>}

(* A line beyond the width, a line that cannot be set, no line.            *)
Doubtful ==
  {<<"cygpioget", <<Arg(Chip(0)), Arg(Number_(4))>>>>,
   <<"cygpioset", Get0>>,
   <<"cygpio-hammer", <<Opt("n", Chip(0))>>>>}

SomeGarbage == {1}
=============================================================================

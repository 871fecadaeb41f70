------------------------------ MODULE ByteFifo ------------------------------
(***************************************************************************)
(* What a left-over queue promises to the UART reader: the bytes put into  *)
(* it come out once, in the order in which they went in.                   *)
(***************************************************************************)
EXTENDS Integers, Sequences

CONSTANTS
  Byte,     (* the bytes a device can send              *)
  MaxTake   (* the largest number of bytes asked for    *)

VARIABLES
  content,  (* the bytes in the queue, oldest first               *)
  added,    (* the bytes the last call put into it, none if a Take *)
  out       (* the bytes the last call delivered, none if a Put    *)

vars == <<content, added, out>>

Init == content = <<>> /\ added = <<>> /\ out = <<>>

(* Bytes arrive behind those that are there. *)
Put ==
  /\ added' \in Seq(Byte)
  /\ content' = content \o added'
  /\ out' = <<>>

(* A reader asks for n bytes and gets the oldest ones, as many as there are. *)
Take(n) ==
  LET k == IF n < Len(content) THEN n ELSE Len(content)
  IN  /\ out' = SubSeq(content, 1, k)
      /\ added' = <<>>
      /\ content' = SubSeq(content, k + 1, Len(content))

(* The queue is emptied when the port is configured anew. *)
Clear == content' = <<>> /\ added' = <<>> /\ out' = <<>>

Next == Put \/ (\E n \in 1 .. MaxTake : Take(n)) \/ Clear

Spec == Init /\ [][Next]_vars
=============================================================================

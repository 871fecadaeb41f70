----------------------------- MODULE MCUartRead -----------------------------
(* Instances of UartRead: two ports on blocks of their own, the first one   *)
(* read by both threads; one port read by both; two devices on one block.   *)
EXTENDS UartRead, TLC

CONSTANTS d1, d2, r1, r2, NoByte

MCByte == (Devices \X (1 .. MaxSent)) \cup {NoByte}

(* Two ports on blocks of their own: one thread reads the first one, the   *)
(* other thread reads both.                                                *)
OwnBlock == (d1 :> 0) @@ (d2 :> 1)
Crossing == (r1 :> {d1}) @@ (r2 :> {d1, d2})

(* One device, read by both threads. *)
OneBlock == d1 :> 1
BothRead == (r1 :> {d1}) @@ (r2 :> {d1})

(* Two devices whose UARTs are on the first block of their chips, each     *)
(* read by a thread of its own.                                            *)
SameBlock == (d1 :> 0) @@ (d2 :> 0)
OwnReader == (r1 :> {d1}) @@ (r2 :> {d2})

ReaderSymmetry == Permutations({r1, r2})
=============================================================================

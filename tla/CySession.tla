------------------------------ MODULE CySession -----------------------------
(***************************************************************************)
(* What CyUSBSerial.hpp promises of the library's session: it is started   *)
(* and stopped, devices are opened only while it is up, and an open device *)
(* stays open until it is closed, the end of the session included.         *)
(***************************************************************************)
CONSTANT Handles

VARIABLES
  up,    (* the library is initialized *)
  open   (* the devices that are open  *)

vars == <<up, open>>

Init == up = FALSE /\ open = {}

Start == up' = TRUE /\ UNCHANGED open

Stop == up' = FALSE /\ UNCHANGED open

OpenDevice(h) ==
  /\ up
  /\ h \notin open
  /\ open' = open \cup {h}
  /\ UNCHANGED up

CloseDevice(h) ==
  /\ h \in open
  /\ open' = open \ {h}
  /\ UNCHANGED up

Next == Start \/ Stop \/ \E h \in Handles : OpenDevice(h) \/ CloseDevice(h)

Spec == Init /\ [][Next]_vars
=============================================================================

---------------------------- MODULE MCUartDevice ----------------------------
(* Instances of UartDevice: two application threads that open and close one *)
(* UART, set its lines, and start and abort its monitor.                   *)
EXTENDS UartDevice, TLC

CONSTANTS a1, a2

(* Both threads use the monitor, or both drive the lines. *)
Teams == {
  (a1 :> {"open", "monitor"}) @@ (a2 :> {"monitor"}),
  (a1 :> {"open", "rts", "mode"}) @@ (a2 :> {"rts", "dtr"})}
=============================================================================

--------------------------- MODULE MCCyController ---------------------------
(* Instances of CyController: two consumers, on devices of their own or on  *)
(* one device, or one consumer.                                             *)
EXTENDS CyController

CONSTANTS c1, c2, s1, s2

(* Every chip has a serial number of its own. *)
OwnSerial == [s \in Chips |-> s]

OwnDevice == (c1 :> {s1}) @@ (c2 :> {s2})

SameDevice == (c1 :> {s1}) @@ (c2 :> {s1})

JustOne == (c1 :> {s1})
=============================================================================

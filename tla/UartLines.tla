------------------------------ MODULE UartLines -----------------------------
(***************************************************************************)
(* The lines of a UART, cyuart.cpp: RTS, DTR and the flow control mode.    *)
(*                                                                         *)
(* The device takes RTS and DTR in one request, the mode in another.  A    *)
(* call that sets one of the two lines sends the other as the library      *)
(* remembers it, and remembers its own line if the request succeeds.       *)
(* Nothing is locked, and a new CY_DEVICE remembers whatever its memory    *)
(* held.                                                                   *)
(*                                                                         *)
(* One step reads what is remembered, the next is the request, the last    *)
(* one remembers.  libusb and the device are external: a request is        *)
(* executed or not, and may be reported as failed either way.              *)
(***************************************************************************)
CONSTANTS
  Callers,  (* the threads that make requests                              *)
  Modes,    (* the flow control modes, CY_FLOW_CONTROL_MODES                *)
  Disable   (* CY_UART_FLOW_CONTROL_DISABLE                                *)

ASSUME LinesAssumption ==
  /\ Disable \in Modes
  /\ "junk" \notin Modes

Lines == {"rts", "dtr"}
Fields == Lines \cup {"mode"}

(* What a field may be set to, and what it is in fresh memory. *)
Levels == {"low", "high"}
Values(f) == IF f = "mode" THEN Modes ELSE Levels
Junk == "junk"

(* The fields that one request sends. *)
Sent(f) == IF f = "mode" THEN {"mode"} ELSE Lines

VARIABLES
  cached,     (* rtsValue, dtrValue and uartFlowControlMode                *)
  wire,       (* the lines and the mode of the device                      *)
  request,    (* the call each caller is in                                *)
  done,       (* the callers whose request has succeeded                   *)
  overlapped, (* history: the callers whose call met another one           *)
  settled     (* history: the fields that were last written by a request   *)
              (* that was reported to succeed, met no other one and sent   *)
              (* no junk                                                   *)

lines == <<cached, wire, request, done, overlapped, settled>>

(* No call; or one that sets a field, with what it has read of the other   *)
(* fields that its request sends.                                          *)
NoRequest == [field |-> "none"]
Request(f, v) ==
  [field |-> f, value |-> v, read |-> [g \in Sent(f) \ {f} |-> cached[g]]]

InitLines ==
  /\ cached = [f \in Fields |-> Junk]
  /\ wire \in [Fields -> Levels \cup Modes]
  /\ \A f \in Fields : wire[f] \in Values(f)
  /\ request = [c \in Callers |-> NoRequest]
  /\ done = {}
  /\ overlapped = {}
  /\ settled = {}

Calling(c) == request[c].field # "none"

(* The other calls that are under way and send a field that f's call sends. *)
Rivals(c, f) == {d \in Callers \ {c} : request[d].field \in Sent(f)}

(* malloc: nothing is remembered. *)
Forgotten ==
  /\ cached' = [f \in Fields |-> Junk]
  /\ settled' = {}
  /\ UNCHANGED <<wire, request, done, overlapped>>

(* CyUartSetRts, CyUartClearRts, CyUartSetDtr, CyUartClearDtr and           *)
(* CyUartSetHwFlowControl up to the request.                               *)
Begin(c, f, v) ==
  /\ ~Calling(c)
  /\ request' = [request EXCEPT ![c] = Request(f, v)]
  /\ IF Rivals(c, f) = {}
     THEN settled' = settled \ {f} /\ UNCHANGED overlapped
     ELSE settled' = settled \ Sent(f) /\ overlapped' = overlapped \cup {c} \cup Rivals(c, f)
  /\ UNCHANGED <<cached, wire, done>>

(* What the device may be told: the value, with the other line as it was   *)
(* read.  Junk of RTS is shifted past the bit of DTR; junk of DTR may       *)
(* reach the bit of RTS, which only a set one withstands.                  *)
Told(r, f) ==
  CASE f = r.field /\ ~(f = "rts" /\ r.value = "low" /\ r.read["dtr"] = Junk) -> {r.value}
    [] f \in DOMAIN r.read /\ r.read[f] # Junk -> {r.read[f]}
    [] f \notin Sent(r.field) -> {wire[f]}
    [] OTHER -> Values(f)

Images(r) == {w \in [Fields -> Levels \cup Modes] : \A f \in Fields : w[f] \in Told(r, f)}

(* Some of what the request sends is junk. *)
SendsJunk(r) == \E g \in DOMAIN r.read : r.read[g] = Junk

Ready(c) == Calling(c) /\ c \notin done

(* The call returns. *)
EndCall(c) ==
  /\ request' = [request EXCEPT ![c] = NoRequest]
  /\ done' = done \ {c}
  /\ overlapped' = overlapped \ {c}

(* The request succeeds ... *)
Send(c) ==
  /\ Ready(c)
  /\ wire' \in Images(request[c])
  /\ done' = done \cup {c}
  /\ UNCHANGED <<cached, request, overlapped, settled>>

(* Mutant: the result is not looked at. *)
SendFailsMutant(c) ==
  /\ Ready(c)
  /\ wire' \in Images(request[c]) \cup {wire}
  /\ done' = done \cup {c}
  /\ UNCHANGED <<cached, request, overlapped, settled>>

(* ... or is reported as failed, executed or not.                           *)
SendFails(c) ==
  /\ Ready(c)
  /\ wire' \in Images(request[c]) \cup {wire}
  /\ EndCall(c)
  /\ UNCHANGED <<cached, settled>>

(* What was set is remembered, and the call succeeds. *)
Store(c) ==
  /\ c \in done
  /\ LET r == request[c] IN
       /\ cached' = [cached EXCEPT ![r.field] = r.value]
       /\ settled' = IF c \in overlapped \/ SendsJunk(r) THEN settled ELSE settled \cup Sent(r.field)
  /\ EndCall(c)
  /\ UNCHANGED wire

LineStep(c) == Send(c) \/ SendFails(c) \/ Store(c)

-----------------------------------------------------------------------------
TypeOKLines ==
  /\ cached \in [Fields -> Levels \cup Modes \cup {Junk}]
  /\ wire \in [Fields -> Levels \cup Modes]
  /\ \A f \in Fields : cached[f] \in Values(f) \cup {Junk} /\ wire[f] \in Values(f)
  /\ DOMAIN request = Callers
  /\ \A c \in Callers :
       request[c] = NoRequest \/
       \E f \in Fields : \E v \in Values(f), q \in [Sent(f) \ {f} -> Levels \cup {Junk}] :
         request[c] = [field |-> f, value |-> v, read |-> q]
  /\ done \subseteq Callers
  /\ overlapped \subseteq Callers
  /\ settled \subseteq Fields

(* What the library remembers of a line is what the device does, however   *)
(* many requests failed, met one another or sent uninitialized memory      *)
(* before: the next request that succeeds undisturbed sets it right, and   *)
(* with it the other line that it sends along.  CyUartGetHwFlowControl     *)
(* answers from what is remembered.                                        *)
LinesAgree == \A f \in settled : cached[f] = wire[f]
=============================================================================

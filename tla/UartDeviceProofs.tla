--------------------------- MODULE UartDeviceProofs --------------------------
(***************************************************************************)
(* What holds of a device from CyOpen to CyClose for any number of         *)
(* threads, monitors and modes.                                            *)
(*                                                                         *)
(* The lines: a call that met no other one still finds remembered what it  *)
(* has read when it stores its own line, so that all it sent agrees.       *)
(*                                                                         *)
(* The monitor: a thread that uses the device is the one the device knows, *)
(* or the one that a CySetEventNotification is about to make known, under  *)
(* the lock.  An abort that returns has joined it or found it gone.        *)
(***************************************************************************)
EXTENDS UartDevice, TLAPS

-----------------------------------------------------------------------------
(* The lines. *)

Alone(c) == Calling(c) /\ c \notin overlapped

LinesInv ==
  /\ TypeOKLines
  /\ \A f \in settled : cached[f] = wire[f] /\ cached[f] # Junk
  /\ \A c \in done : Calling(c)
  /\ \A c \in Callers : Alone(c) =>
       /\ Rivals(c, request[c].field) = {}
       /\ request[c].field \notin settled
       /\ \A g \in Sent(request[c].field) \ {request[c].field} : request[c].read[g] = cached[g]
       /\ c \in done /\ ~SendsJunk(request[c]) =>
            \A g \in Sent(request[c].field) :
              wire[g] = IF g = request[c].field THEN request[c].value ELSE cached[g]
  /\ \A c \in overlapped : Calling(c) /\ Sent(request[c].field) \cap settled = {}

LEMMA SentFacts ==
  /\ \A f \in Fields : f \in Sent(f) /\ Sent(f) \subseteq Fields
  /\ \A f, g \in Fields : g \in Sent(f) => Sent(g) = Sent(f)
  /\ \A f, g \in Fields : f \in Sent(g) <=> g \in Sent(f)
BY DEF Sent, Fields, Lines

LEMMA RequestFacts ==
  ASSUME TypeOKLines, NEW c \in Callers, Calling(c)
  PROVE  /\ request[c].field \in Fields
         /\ request[c].value \in Values(request[c].field)
         /\ request[c].read \in [Sent(request[c].field) \ {request[c].field} -> Levels \cup {Junk}]
<1>1. PICK f \in Fields : \E v \in Values(f), q \in [Sent(f) \ {f} -> Levels \cup {Junk}] :
         request[c] = [field |-> f, value |-> v, read |-> q]
  BY DEF TypeOKLines, Calling, NoRequest
<1> QED BY <1>1

LEMMA InitLinesInv == InitLines => LinesInv
BY DEF InitLines, LinesInv, TypeOKLines, NoRequest, Alone, Calling

LEMMA BeginKeepsLines ==
  ASSUME LinesInv, NEW c \in Callers, NEW f \in Fields, NEW v \in Values(f), Begin(c, f, v)
  PROVE  LinesInv'
<1> USE SentFacts
<1>1. /\ ~Calling(c) /\ c \notin done /\ c \notin overlapped
      /\ UNCHANGED <<cached, wire, done>>
  BY DEF Begin, LinesInv
<1>2. /\ request'[c] = Request(f, v)
      /\ \A d \in Callers \ {c} : request'[d] = request[d]
      /\ DOMAIN request' = Callers
  BY DEF Begin, LinesInv, TypeOKLines
<1>3. /\ request'[c].field = f /\ request'[c].value = v
      /\ request'[c].read = [g \in Sent(f) \ {f} |-> cached[g]]
  BY <1>2 DEF Request
<1>4. /\ TypeOKLines'
      /\ \A d \in done : Calling(d)'
  <2>1. Request(f, v) = [field |-> f, value |-> v, read |-> [g \in Sent(f) \ {f} |-> cached[g]]]
    BY DEF Request
  <2>2. [g \in Sent(f) \ {f} |-> cached[g]] \in [Sent(f) \ {f} -> Levels \cup {Junk}]
    BY DEF LinesInv, TypeOKLines, Values, Sent, Fields, Lines
  <2>3. overlapped' \subseteq Callers /\ settled' \subseteq Fields
    <3>1. overlapped \subseteq Callers /\ settled \subseteq Fields /\ Rivals(c, f) \subseteq Callers
      BY DEF LinesInv, TypeOKLines, Rivals
    <3>2. CASE Rivals(c, f) = {}
      BY <3>1, <3>2 DEF Begin
    <3>3. CASE Rivals(c, f) # {}
      BY <3>1, <3>3 DEF Begin
    <3> QED BY <3>2, <3>3
  <2>4. ASSUME NEW d \in Callers
        PROVE  request'[d] = NoRequest \/
          \E h \in Fields : \E w \in Values(h), q \in [Sent(h) \ {h} -> Levels \cup {Junk}] :
            request'[d] = [field |-> h, value |-> w, read |-> q]
    <3>1. CASE d = c
      BY <1>2, <2>1, <2>2, <3>1
    <3>2. CASE d # c
      <4>1. request'[d] = request[d]
        BY <1>2, <3>2
      <4>2. TypeOKLines
        BY DEF LinesInv
      <4> QED BY <4>1, <4>2 DEF TypeOKLines
    <3> QED BY <3>1, <3>2
  <2>5. \A d \in done : d \in Callers /\ d # c
    BY <1>1 DEF LinesInv, TypeOKLines
  <2> QED BY <1>1, <1>2, <2>3, <2>4, <2>5 DEF LinesInv, TypeOKLines, Calling
<1>5. settled' \subseteq settled /\ \A g \in settled' : cached'[g] = wire'[g] /\ cached'[g] # Junk
  BY <1>1 DEF Begin, LinesInv
<1>6. ASSUME NEW d \in Callers, Alone(d)'
      PROVE  /\ Rivals(d, request[d].field)' = {}
             /\ request'[d].field \notin settled'
             /\ \A g \in Sent(request'[d].field) \ {request'[d].field} :
                  request'[d].read[g] = cached'[g]
             /\ d \in done' /\ ~SendsJunk(request'[d]) =>
                  \A g \in Sent(request'[d].field) :
                    wire'[g] = IF g = request'[d].field THEN request'[d].value ELSE cached'[g]
  <2>1. CASE d = c
    <3>1. Rivals(c, f) = {} /\ settled' = settled \ {f}
      BY <1>1, <1>6, <2>1 DEF Begin, Alone
    <3> QED BY <1>1, <1>2, <1>3, <2>1, <3>1 DEF Rivals
  <2>2. CASE d # c
    <3>1. Alone(d) /\ request'[d] = request[d]
      BY <1>1, <1>2, <1>6, <2>2 DEF Alone, Calling, Begin
    <3>2. Rivals(c, f) = {} \/ d \notin Rivals(c, f)
      BY <1>6, <2>2 DEF Begin, Alone
    <3>3. request[d].field \in Fields
      BY <3>1, RequestFacts DEF LinesInv, Alone
    <3>4. f \notin Sent(request[d].field)
      BY <2>2, <3>2, <3>3 DEF Rivals
    <3> QED BY <1>1, <1>2, <1>3, <1>5, <2>2, <3>1, <3>4 DEF LinesInv, Rivals
  <2> QED BY <2>1, <2>2
<1>7. ASSUME NEW d \in overlapped'
      PROVE  Calling(d)' /\ Sent(request'[d].field) \cap settled' = {}
  <2>1. CASE d \in overlapped
    BY <1>1, <1>2, <1>5, <2>1 DEF LinesInv, Calling, TypeOKLines
  <2>2. CASE d \notin overlapped
    <3>1. /\ Rivals(c, f) # {} /\ settled' = settled \ Sent(f)
          /\ d = c \/ d \in Rivals(c, f)
      BY <1>7, <2>2 DEF Begin
    <3>2. CASE d = c
      BY <1>3, <3>1, <3>2, <1>2 DEF Calling, Fields, Lines
    <3>3. CASE d # c
      BY <1>2, <3>1, <3>3 DEF Rivals, Calling, Fields, Lines, Sent
    <3> QED BY <3>2, <3>3
  <2> QED BY <2>1, <2>2
<1> QED BY <1>1, <1>4, <1>5, <1>6, <1>7 DEF LinesInv

(* What a request may leave on the wire. *)
LEMMA ImageFacts ==
  ASSUME TypeOKLines, NEW c \in Callers, Calling(c), NEW w \in Images(request[c])
  PROVE  /\ w \in [Fields -> Levels \cup Modes]
         /\ \A f \in Fields : w[f] \in Values(f)
         /\ \A f \in Fields \ Sent(request[c].field) : w[f] = wire[f]
         /\ \A f \in Sent(request[c].field) \ {request[c].field} :
              request[c].read[f] # Junk => w[f] = request[c].read[f]
         /\ ~SendsJunk(request[c]) => w[request[c].field] = request[c].value
<1> DEFINE r == request[c]
<1>1. /\ w \in [Fields -> Levels \cup Modes]
      /\ \A f \in Fields : w[f] \in Told(r, f)
  BY DEF Images
<1>2. /\ r.field \in Fields
      /\ r.value \in Values(r.field)
      /\ r.read \in [Sent(r.field) \ {r.field} -> Levels \cup {Junk}]
  BY RequestFacts
<1>3. \A f \in Fields : wire[f] \in Values(f)
  BY DEF TypeOKLines
<1> HIDE DEF r
<1>4. ASSUME NEW f \in Fields PROVE w[f] \in Values(f)
  <2>1. Told(r, f) \subseteq Values(f)
    BY <1>2, <1>3, SentFacts DEF Told, Values, Sent, Fields, Lines
  <2> QED BY <1>1, <2>1
<1>5. ASSUME NEW f \in Fields \ Sent(r.field) PROVE w[f] = wire[f]
  <2>1. f # r.field /\ f \notin DOMAIN r.read
    BY <1>2, SentFacts
  <2>2. Told(r, f) = {wire[f]}
    BY <2>1 DEF Told
  <2> QED BY <1>1, <2>2
<1>6. ASSUME NEW f \in Sent(r.field) \ {r.field}, r.read[f] # Junk PROVE w[f] = r.read[f]
  <2>1. f \in DOMAIN r.read /\ f \in Fields
    BY <1>2, SentFacts
  <2>2. Told(r, f) = {r.read[f]}
    BY <1>6, <2>1 DEF Told
  <2> QED BY <1>1, <2>1, <2>2
<1>7. ASSUME ~SendsJunk(r) PROVE w[r.field] = r.value
  <2>1. ~(r.field = "rts" /\ r.read["dtr"] = Junk)
    <3>1. r.field = "rts" => "dtr" \in DOMAIN r.read
      BY <1>2 DEF Sent, Lines
    <3> QED BY <1>7, <3>1 DEF SendsJunk
  <2>2. r.field \notin DOMAIN r.read /\ r.field \in Sent(r.field)
    BY <1>2, SentFacts
  <2>3. Told(r, r.field) = {r.value}
    BY <2>1, <2>2 DEF Told
  <2> QED BY <1>1, <1>2, <2>3
<1> QED BY <1>1, <1>4, <1>5, <1>6, <1>7 DEF r

(* A request leaves alone what is settled, and what others send. *)
LEMMA WireFacts ==
  ASSUME LinesInv, NEW c \in Callers, Calling(c), NEW w \in Images(request[c]) \cup {wire}
  PROVE  /\ w \in [Fields -> Levels \cup Modes]
         /\ \A f \in Fields : w[f] \in Values(f)
         /\ \A f \in settled : cached[f] = w[f]
         /\ \A d \in Callers \ {c} : Alone(d) =>
              \A g \in Sent(request[d].field) : w[g] = wire[g]
<1>1. CASE w = wire
  BY <1>1 DEF LinesInv, TypeOKLines
<1>2. CASE w \in Images(request[c])
  <2> DEFINE r == request[c]
  <2>1. /\ w \in [Fields -> Levels \cup Modes]
        /\ \A f \in Fields : w[f] \in Values(f)
        /\ \A f \in Fields \ Sent(r.field) : w[f] = wire[f]
        /\ \A f \in Sent(r.field) \ {r.field} : r.read[f] # Junk => w[f] = r.read[f]
        /\ r.field \in Fields
    BY <1>2, ImageFacts, RequestFacts DEF LinesInv
  <2>2. settled \subseteq Fields
    BY DEF LinesInv, TypeOKLines
  <2>3. ASSUME NEW f \in settled PROVE cached[f] = w[f]
    <3>1. CASE f \in Sent(r.field)
      <4>1. Alone(c)
        BY <3>1, <2>3 DEF LinesInv, Alone
      <4>2. f # r.field /\ r.read[f] = cached[f] /\ cached[f] # Junk
        BY <2>3, <3>1, <4>1 DEF LinesInv
      <4> QED BY <2>1, <3>1, <4>2
    <3>2. CASE f \notin Sent(r.field)
      BY <2>1, <2>2, <2>3, <3>2 DEF LinesInv
    <3> QED BY <3>1, <3>2
  <2>4. ASSUME NEW d \in Callers \ {c}, Alone(d), NEW g \in Sent(request[d].field)
        PROVE  w[g] = wire[g]
    <3>1. r.field \notin Sent(request[d].field)
      BY <2>4 DEF LinesInv, Rivals
    <3>2. request[d].field \in Fields
      BY <2>4, RequestFacts DEF LinesInv, Alone
    <3>3. g \in Fields /\ g \notin Sent(r.field)
      BY <2>1, <3>1, <3>2, SentFacts
    <3> QED BY <2>1, <3>3
  <2> QED BY <2>1, <2>3, <2>4
<1> QED BY <1>1, <1>2

LEMMA SendKeepsLines ==
  ASSUME LinesInv, NEW c \in Callers, Send(c)
  PROVE  LinesInv'
<1>1. /\ Calling(c) /\ c \notin done
      /\ wire' \in Images(request[c])
      /\ done' = done \cup {c}
      /\ UNCHANGED <<cached, request, overlapped, settled>>
  BY DEF Send, Ready
<1>2. /\ wire' \in [Fields -> Levels \cup Modes]
      /\ \A f \in Fields : wire'[f] \in Values(f)
      /\ \A f \in settled : cached[f] = wire'[f]
      /\ \A d \in Callers \ {c} : Alone(d) =>
           \A g \in Sent(request[d].field) : wire'[g] = wire[g]
  BY <1>1, WireFacts
<1>3. ASSUME Alone(c), ~SendsJunk(request[c])
      PROVE  \A g \in Sent(request[c].field) :
               wire'[g] = IF g = request[c].field THEN request[c].value ELSE cached[g]
  <2>1. request[c].field \in Fields
        /\ request[c].read \in [Sent(request[c].field) \ {request[c].field} -> Levels \cup {Junk}]
    BY <1>1, RequestFacts DEF LinesInv
  <2>2. wire'[request[c].field] = request[c].value
    BY <1>1, <1>3, ImageFacts DEF LinesInv
  <2>3. ASSUME NEW g \in Sent(request[c].field) \ {request[c].field} PROVE wire'[g] = cached[g]
    <3>1. request[c].read[g] # Junk /\ request[c].read[g] = cached[g]
      BY <1>3, <2>1 DEF SendsJunk, LinesInv
    <3> QED BY <1>1, <3>1, ImageFacts DEF LinesInv
  <2> QED BY <2>2, <2>3
<1>4. TypeOKLines'
  <2>1. TypeOKLines
    BY DEF LinesInv
  <2>2. \A f \in Fields : cached'[f] \in Values(f) \cup {Junk}
    BY <1>1, <2>1 DEF TypeOKLines
  <2>3. \A d \in Callers : request'[d] = NoRequest \/
          \E f \in Fields : \E v \in Values(f), q \in [Sent(f) \ {f} -> Levels \cup {Junk}] :
            request'[d] = [field |-> f, value |-> v, read |-> q]
    BY <1>1, <2>1 DEF TypeOKLines
  <2> QED BY <1>1, <1>2, <2>1, <2>2, <2>3 DEF TypeOKLines
<1>5. ASSUME NEW d \in Callers, Alone(d)
      PROVE  d \in done' /\ ~SendsJunk(request[d]) =>
               \A g \in Sent(request[d].field) :
                 wire'[g] = IF g = request[d].field THEN request[d].value ELSE cached[g]
  <2>1. CASE d = c
    BY <1>3, <1>5, <2>1
  <2>2. CASE d # c
    BY <1>1, <1>2, <1>5, <2>2 DEF LinesInv
  <2> QED BY <2>1, <2>2
<1>6. ASSUME NEW d \in Callers, Alone(d)'
      PROVE  /\ Rivals(d, request[d].field)' = {}
             /\ request'[d].field \notin settled'
             /\ \A g \in Sent(request'[d].field) \ {request'[d].field} :
                  request'[d].read[g] = cached'[g]
             /\ d \in done' /\ ~SendsJunk(request'[d]) =>
                  \A g \in Sent(request'[d].field) :
                    wire'[g] = IF g = request'[d].field THEN request'[d].value ELSE cached'[g]
  <2>1. Alone(d)
    BY <1>1, <1>6 DEF Alone, Calling
  <2>2. Rivals(d, request[d].field)' = Rivals(d, request[d].field)
    BY <1>1 DEF Rivals
  <2> QED BY <1>1, <1>5, <2>1, <2>2 DEF LinesInv
<1>7. \A d \in overlapped' : Calling(d)' /\ Sent(request'[d].field) \cap settled' = {}
  BY <1>1 DEF LinesInv, Calling
<1>8. \A d \in done' : Calling(d)'
  BY <1>1 DEF LinesInv, Calling
<1>9. \A f \in settled' : cached'[f] = wire'[f] /\ cached'[f] # Junk
  BY <1>1, <1>2 DEF LinesInv
<1> QED BY <1>4, <1>6, <1>7, <1>8, <1>9 DEF LinesInv

(* What the end of a call leaves of the others. *)
LEMMA EndFacts ==
  ASSUME LinesInv, NEW c \in Callers, Calling(c), EndCall(c)
  PROVE  /\ request'[c] = NoRequest
         /\ \A d \in Callers \ {c} : request'[d] = request[d]
         /\ DOMAIN request' = Callers
         /\ \A d \in Callers : Alone(d)' => d # c /\ Alone(d)
         /\ \A d \in Callers \ {c} : Rivals(d, request[d].field) = {} =>
              Rivals(d, request[d].field)' = {}
         /\ \A d \in overlapped' \cup done' : d # c
         /\ overlapped' \subseteq overlapped /\ done' \subseteq done
         /\ \A d \in Callers : request'[d] = NoRequest \/
              \E f \in Fields : \E v \in Values(f), q \in [Sent(f) \ {f} -> Levels \cup {Junk}] :
                request'[d] = [field |-> f, value |-> v, read |-> q]
<1>1. /\ request'[c] = NoRequest
      /\ \A d \in Callers \ {c} : request'[d] = request[d]
      /\ DOMAIN request' = Callers
      /\ overlapped' = overlapped \ {c} /\ done' = done \ {c}
  BY DEF EndCall, LinesInv, TypeOKLines
<1>2. \A d \in Callers : Alone(d)' => d # c /\ Alone(d)
  BY <1>1 DEF Alone, Calling, NoRequest
<1>3. ASSUME NEW d \in Callers \ {c}, Rivals(d, request[d].field) = {}
      PROVE  Rivals(d, request[d].field)' = {}
  <2>1. ~Calling(c)' /\ "none" \notin Fields
    BY <1>1 DEF Calling, NoRequest, Fields, Lines
  <2>2. ASSUME NEW e \in Callers \ {d}, request'[e].field \in Sent(request[d].field)
        PROVE  FALSE
    <3>1. e # c
      BY <1>1, <2>2 DEF NoRequest, Sent, Lines
    <3> QED BY <1>1, <1>3, <2>2, <3>1 DEF Rivals
  <2> QED BY <1>1, <2>2 DEF Rivals
<1>4. ASSUME NEW d \in Callers
      PROVE  request'[d] = NoRequest \/
              \E f \in Fields : \E v \in Values(f), q \in [Sent(f) \ {f} -> Levels \cup {Junk}] :
                request'[d] = [field |-> f, value |-> v, read |-> q]
  <2>1. TypeOKLines
    BY DEF LinesInv
  <2> QED BY <1>1, <2>1 DEF TypeOKLines
<1> QED BY <1>1, <1>2, <1>3, <1>4 DEF Rivals

LEMMA SendFailsKeepsLines ==
  ASSUME LinesInv, NEW c \in Callers, SendFails(c)
  PROVE  LinesInv'
<1>1. /\ Calling(c)
      /\ wire' \in Images(request[c]) \cup {wire}
      /\ EndCall(c)
      /\ UNCHANGED <<cached, settled>>
  BY DEF SendFails, Ready
<1>2. /\ wire' \in [Fields -> Levels \cup Modes]
      /\ \A f \in Fields : wire'[f] \in Values(f)
      /\ \A f \in settled : cached[f] = wire'[f]
      /\ \A d \in Callers \ {c} : Alone(d) =>
           \A g \in Sent(request[d].field) : wire'[g] = wire[g]
  BY <1>1, WireFacts
<1>3. /\ \A d \in Callers \ {c} : request'[d] = request[d]
      /\ \A d \in Callers : Alone(d)' => d # c /\ Alone(d)
      /\ \A d \in Callers \ {c} : Rivals(d, request[d].field) = {} =>
              Rivals(d, request[d].field)' = {}
      /\ \A d \in overlapped' \cup done' : d # c
      /\ overlapped' \subseteq overlapped /\ done' \subseteq done
      /\ overlapped \subseteq Callers /\ done \subseteq Callers
  BY <1>1, EndFacts DEF LinesInv, TypeOKLines
<1>4. TypeOKLines'
  <2>1. TypeOKLines
    BY DEF LinesInv
  <2>2. \A f \in Fields : cached'[f] \in Values(f) \cup {Junk}
    BY <1>1, <2>1 DEF TypeOKLines
  <2> QED BY <1>1, <1>2, <1>3, <2>1, <2>2, EndFacts DEF TypeOKLines
<1>5. ASSUME NEW d \in Callers, Alone(d)'
      PROVE  /\ Rivals(d, request[d].field)' = {}
             /\ request'[d].field \notin settled'
             /\ \A g \in Sent(request'[d].field) \ {request'[d].field} :
                  request'[d].read[g] = cached'[g]
             /\ d \in done' /\ ~SendsJunk(request'[d]) =>
                  \A g \in Sent(request'[d].field) :
                    wire'[g] = IF g = request'[d].field THEN request'[d].value ELSE cached'[g]
  BY <1>1, <1>2, <1>3, <1>5 DEF LinesInv
<1>6. \A d \in overlapped' : Calling(d)' /\ Sent(request'[d].field) \cap settled' = {}
  BY <1>1, <1>3 DEF LinesInv, Calling
<1>7. \A d \in done' : Calling(d)'
  BY <1>1, <1>3 DEF LinesInv, Calling
<1>8. \A f \in settled' : cached'[f] = wire'[f] /\ cached'[f] # Junk
  BY <1>1, <1>2 DEF LinesInv
<1> QED BY <1>4, <1>5, <1>6, <1>7, <1>8 DEF LinesInv

LEMMA StoreKeepsLines ==
  ASSUME LinesInv, NEW c \in Callers, Store(c)
  PROVE  LinesInv'
<1> DEFINE r == request[c]
<1>1. /\ c \in done /\ Calling(c)
      /\ cached' = [cached EXCEPT ![r.field] = r.value]
      /\ settled' = IF c \in overlapped \/ SendsJunk(r) THEN settled ELSE settled \cup Sent(r.field)
      /\ EndCall(c)
      /\ wire' = wire
  BY DEF Store, LinesInv
<1>2. /\ r.field \in Fields
      /\ r.value \in Values(r.field)
      /\ r.read \in [Sent(r.field) \ {r.field} -> Levels \cup {Junk}]
      /\ Sent(r.field) \subseteq Fields /\ r.field \in Sent(r.field)
  BY <1>1, RequestFacts, SentFacts DEF LinesInv
<1>3. /\ \A d \in Callers \ {c} : request'[d] = request[d]
      /\ \A d \in Callers : Alone(d)' => d # c /\ Alone(d)
      /\ \A d \in Callers \ {c} : Rivals(d, request[d].field) = {} =>
              Rivals(d, request[d].field)' = {}
      /\ \A d \in overlapped' \cup done' : d # c
      /\ overlapped' \subseteq overlapped /\ done' \subseteq done
      /\ overlapped \subseteq Callers /\ done \subseteq Callers
  BY <1>1, EndFacts DEF LinesInv, TypeOKLines
<1>4. TypeOKLines /\ r.value \in Levels \cup Modes /\ r.value # Junk
  BY <1>2, LinesAssumption DEF LinesInv, Values, Levels, Junk
<1>5. /\ cached' \in [Fields -> Levels \cup Modes \cup {Junk}]
      /\ cached'[r.field] = r.value
      /\ \A f \in Fields \ {r.field} : cached'[f] = cached[f]
  BY <1>1, <1>2, <1>4 DEF TypeOKLines
<1>6. TypeOKLines'
  <2>1. \A f \in Fields : cached'[f] \in Values(f) \cup {Junk}
    BY <1>2, <1>4, <1>5 DEF TypeOKLines
  <2>2. settled' \subseteq Fields
    BY <1>1, <1>2, <1>4 DEF TypeOKLines
  <2> QED BY <1>1, <1>3, <1>4, <1>5, <2>1, <2>2, EndFacts DEF TypeOKLines
<1>7. r.field \notin settled
  BY <1>1, <1>2 DEF LinesInv, Alone
<1>8. ASSUME NEW f \in settled' PROVE cached'[f] = wire'[f] /\ cached'[f] # Junk
  <2>1. CASE f \in settled
    BY <1>1, <1>4, <1>5, <1>7, <2>1 DEF LinesInv, TypeOKLines
  <2>2. CASE f \notin settled
    <3>1. f \in Sent(r.field) /\ Alone(c) /\ ~SendsJunk(r)
      BY <1>1, <1>8, <2>2 DEF Alone
    <3>2. wire[f] = IF f = r.field THEN r.value ELSE cached[f]
      BY <1>1, <3>1 DEF LinesInv
    <3>3. f # r.field => cached[f] # Junk
      BY <1>2, <3>1 DEF LinesInv, SendsJunk
    <3> QED BY <1>1, <1>2, <1>4, <1>5, <3>1, <3>2, <3>3
  <2> QED BY <2>1, <2>2
<1>9. ASSUME NEW d \in Callers \ {c}, Calling(d)
      PROVE  /\ request[d].field \in Fields
             /\ Alone(d) => r.field \notin Sent(request[d].field) /\ Sent(request[d].field) \cap Sent(r.field) = {}
             /\ Alone(c) => Sent(request[d].field) \cap Sent(r.field) = {}
  <2>1. request[d].field \in Fields
    BY <1>4, <1>9, RequestFacts
  <2>2. Alone(d) => r.field \notin Sent(request[d].field)
    BY <1>1 DEF LinesInv, Rivals
  <2>3. Alone(c) => request[d].field \notin Sent(r.field)
    BY <1>1 DEF LinesInv, Rivals
  <2> QED BY <1>2, <2>1, <2>2, <2>3, SentFacts
<1>10. ASSUME NEW d \in Callers, Alone(d)'
      PROVE  /\ Rivals(d, request[d].field)' = {}
             /\ request'[d].field \notin settled'
             /\ \A g \in Sent(request'[d].field) \ {request'[d].field} :
                  request'[d].read[g] = cached'[g]
             /\ d \in done' /\ ~SendsJunk(request'[d]) =>
                  \A g \in Sent(request'[d].field) :
                    wire'[g] = IF g = request'[d].field THEN request'[d].value ELSE cached'[g]
  <2>1. d # c /\ Alone(d) /\ Calling(d) /\ request'[d] = request[d]
    BY <1>3, <1>10 DEF Alone
  <2>2. /\ r.field \notin Sent(request[d].field)
        /\ Sent(request[d].field) \cap Sent(r.field) = {}
        /\ Sent(request[d].field) \subseteq Fields
        /\ request[d].field \in Sent(request[d].field)
    BY <1>9, <2>1, SentFacts
  <2>3. \A g \in Sent(request[d].field) : cached'[g] = cached[g] /\ wire'[g] = wire[g]
    BY <1>1, <1>5, <2>2
  <2>4. request[d].field \notin settled'
    BY <1>1, <2>1, <2>2 DEF LinesInv
  <2> QED BY <1>3, <2>1, <2>3, <2>4 DEF LinesInv
<1>11. ASSUME NEW d \in overlapped'
       PROVE  Calling(d)' /\ Sent(request'[d].field) \cap settled' = {}
  <2>1. /\ d \in Callers \ {c} /\ d \in overlapped /\ request'[d] = request[d]
        /\ Calling(d) /\ Sent(request[d].field) \cap settled = {}
    BY <1>3, <1>11 DEF LinesInv
  <2>2. settled' = settled \/ Sent(request[d].field) \cap Sent(r.field) = {}
    BY <1>1, <1>9, <2>1 DEF Alone
  <2> QED BY <1>1, <2>1, <2>2 DEF Calling
<1>12. \A d \in done' : Calling(d)'
  BY <1>1, <1>3 DEF LinesInv, Calling
<1> QED BY <1>6, <1>8, <1>10, <1>11, <1>12 DEF LinesInv

LEMMA ForgottenKeepsLines ==
  ASSUME LinesInv, Forgotten, \A c \in Callers : ~Calling(c)
  PROVE  LinesInv'
<1>1. /\ cached' = [f \in Fields |-> Junk] /\ settled' = {}
      /\ UNCHANGED <<wire, request, done, overlapped>>
  BY DEF Forgotten
<1>2. TypeOKLines /\ \A c \in Callers : ~Calling(c)'
  BY <1>1 DEF LinesInv, Calling
<1>3. TypeOKLines'
  BY <1>1, <1>2 DEF TypeOKLines
<1> QED BY <1>1, <1>2, <1>3 DEF LinesInv, TypeOKLines, Alone, Calling

-----------------------------------------------------------------------------
(* The monitor. *)

Cancelling == \E a \in Apps : app[a] \in {"cancel", "join", "joining"}

(* Who is inside one of the two functions holds the lock. *)
LockInv == \A a \in Apps : app[a] # "idle" => lock = a

(* A thread that uses the device is known, or will be; an abort waits for   *)
(* the one that is known, unless it is forgotten meanwhile.                *)
UsersInv ==
  /\ \A m \in Monitors : UsesDevice(m) =>
       m = threadId \/ \E a \in Apps : app[a] = "publish" /\ thread[a] = m
  /\ \A a \in Apps : app[a] \in {"create", "publish"} => threadId = 0
  /\ \A a \in Apps : app[a] = "joining" => threadId \in {0, thread[a]}

(* Only an abort that is under way ends a thread without a word. *)
EndInv ==
  /\ cancelEvent => Cancelling
  /\ \A m \in aborted : monitor[m] \in {"free", "done"}
  /\ threadId \in aborted => Cancelling
  /\ \A a \in Apps : app[a] = "publish" => thread[a] \notin aborted
  /\ Kind = "UART" => \A m \in Monitors :
       monitor[m] \in {"free", "done"} => m \in reported \cup aborted

MonitorInv == TypeOK /\ LockInv /\ UsersInv /\ EndInv

LEMMA InitMonitorInv == Init => MonitorInv
BY NotificationAssumption
   DEF Init, MonitorInv, TypeOK, LockInv, UsersInv, EndInv, UsesDevice, Watches, Monitors

(* A call and its steps. *)
LEMMA AppKeepsMonitor ==
  ASSUME MonitorInv, NEW a \in Apps, Call(a) \/ AppStep(a)
  PROVE  MonitorInv'
<1> USE DEF MonitorInv, AppGoes, AppLocal
<1>1. ASSUME Call(a) PROVE MonitorInv'
  <2>1. /\ \/ app' = app /\ lock' = lock
           \/ threadId = 0 /\ lock = NoApp /\ lock' = a /\ app' = [app EXCEPT ![a] = "create"]
           \/ lock = NoApp /\ lock' = a /\ app' = [app EXCEPT ![a] = "flag"]
        /\ app[a] = "idle"
        /\ UNCHANGED <<threadId, cancelEvent, transfer, thread, monitor, allocated, cancelled,
                       reported, aborted, late>>
    <3>1. CASE SetCheck(a)
      BY <3>1 DEF SetCheck, TypeOK
    <3>2. CASE AbortCheck(a)
      BY <3>2 DEF AbortCheck, TypeOK
    <3> QED BY <1>1, <3>1, <3>2 DEF Call
  <2>2. TypeOK'
    BY <2>1 DEF TypeOK
  <2>3. LockInv'
    BY <2>1, NotificationAssumption DEF LockInv, TypeOK
  <2>4. /\ \A b \in Apps : app[b] \in {"publish", "cancel", "join", "joining"} => app'[b] = app[b]
        /\ \A b \in Apps : app'[b] = "joining" => app[b] = "joining"
    BY <2>1 DEF TypeOK
  <2>5. UsersInv'
    BY <2>1, <2>4 DEF UsersInv, UsesDevice, Watches, TypeOK
  <2>6. EndInv'
    <3>1. Cancelling => Cancelling'
      BY <2>4 DEF Cancelling
    <3>2. \A b \in Apps : app'[b] = "publish" => app[b] = "publish"
      BY <2>1 DEF TypeOK
    <3> QED BY <2>1, <3>1, <3>2 DEF EndInv
  <2> QED BY <2>2, <2>3, <2>5, <2>6
<1>2. ASSUME SetCreate(a) PROVE MonitorInv'
  <2>1. /\ app[a] = "create" /\ lock = a /\ threadId = 0
        /\ \A b \in Apps \ {a} : app[b] = "idle"
        /\ \A m \in Monitors : ~UsesDevice(m)
    BY <1>2 DEF SetCreate, LockInv, UsersInv, Monitors
  <2>2. ~Cancelling /\ ~cancelEvent
    BY <2>1 DEF Cancelling, EndInv
  <2>3. CASE app' = [app EXCEPT ![a] = "idle"] /\ threadId' = 0 /\ lock' = NoApp /\ UNCHANGED <<monitor, thread>>
    <3>1. \A b \in Apps : app'[b] = "idle"
      BY <2>1, <2>3 DEF TypeOK
    <3>2. TypeOK'
      BY <1>2, <2>3 DEF SetCreate, TypeOK
    <3> QED BY <1>2, <2>1, <2>2, <2>3, <3>1, <3>2
            DEF SetCreate, LockInv, UsersInv, EndInv, Cancelling, UsesDevice, Watches
  <2>4. ASSUME NEW m \in Monitors, monitor[m] = "none",
               app' = [app EXCEPT ![a] = "publish"], monitor' = [monitor EXCEPT ![m] = "start"],
               thread' = [thread EXCEPT ![a] = m], UNCHANGED <<lock, threadId>>
        PROVE  MonitorInv'
    <3>1. /\ app'[a] = "publish" /\ thread'[a] = m /\ monitor'[m] = "start"
          /\ \A b \in Apps \ {a} : app'[b] = "idle"
          /\ \A n \in Monitors \ {m} : monitor'[n] = monitor[n]
      BY <2>1, <2>4 DEF TypeOK
    <3>2. m \notin aborted
      BY <2>4 DEF EndInv
    <3>3. TypeOK'
      BY <1>2, <2>4 DEF SetCreate, TypeOK
    <3>4. LockInv'
      BY <2>1, <2>4, <3>1 DEF LockInv
    <3>5. UsersInv'
      BY <2>1, <2>4, <3>1 DEF UsersInv, UsesDevice, Watches
    <3>6. EndInv'
      <4>1. \A n \in aborted : monitor'[n] \in {"free", "done"}
        BY <3>1, <3>2 DEF EndInv, TypeOK
      <4> QED BY <1>2, <2>1, <2>2, <2>4, <3>1, <3>2, <4>1 DEF SetCreate, EndInv
    <3> QED BY <3>3, <3>4, <3>5, <3>6
  <2> QED BY <1>2, <2>3, <2>4 DEF SetCreate
<1>3. ASSUME SetPublish(a) PROVE MonitorInv'
  <2>1. /\ app[a] = "publish" /\ lock = a /\ threadId = 0
        /\ \A b \in Apps \ {a} : app[b] = "idle"
        /\ thread[a] \notin aborted
    BY <1>3 DEF SetPublish, LockInv, UsersInv, EndInv
  <2>2. ~Cancelling /\ ~cancelEvent
    BY <2>1 DEF Cancelling, EndInv
  <2>3. \A b \in Apps : app'[b] = "idle"
    BY <1>3, <2>1 DEF SetPublish, TypeOK
  <2>4. TypeOK'
    BY <1>3 DEF SetPublish, TypeOK
  <2>5. UsersInv'
    BY <1>3, <2>1, <2>3 DEF SetPublish, UsersInv, UsesDevice, Watches, Monitors
  <2> QED BY <1>3, <2>1, <2>2, <2>3, <2>4, <2>5 DEF SetPublish, LockInv, EndInv
<1>4. ASSUME AbortFlag(a) \/ AbortCancel(a) PROVE MonitorInv'
  <2>1. /\ app[a] \in {"flag", "cancel"}
        /\ app' = [app EXCEPT ![a] = IF app[a] = "flag" THEN "cancel" ELSE "join"]
        /\ cancelEvent' \in {cancelEvent, TRUE}
        /\ cancelled' \subseteq cancelled \cup Monitors
        /\ late' \subseteq late \cup Monitors
        /\ UNCHANGED <<lock, threadId, transfer, thread, monitor, allocated, reported, aborted>>
    BY <1>4 DEF AbortFlag, AbortCancel, device
  <2>2. /\ \A b \in Apps \ {a} : app'[b] = app[b]
        /\ app'[a] \in {"cancel", "join"}
    BY <2>1 DEF TypeOK
  <2>3. TypeOK'
    BY <2>1 DEF TypeOK
  <2>4. LockInv' /\ Cancelling'
    BY <2>1, <2>2 DEF LockInv, Cancelling
  <2>5. UsersInv'
    BY <2>1, <2>2 DEF UsersInv, UsesDevice, Watches
  <2>6. EndInv'
    BY <2>1, <2>2, <2>4 DEF EndInv
  <2> QED BY <2>3, <2>4, <2>5, <2>6
<1>5. ASSUME AbortJoin(a) PROVE MonitorInv'
  <2>1. /\ app[a] = "join" /\ lock = a
        /\ \A b \in Apps \ {a} : app[b] = "idle"
        /\ app'[a] = "joining" /\ thread'[a] = threadId
        /\ \A b \in Apps \ {a} : app'[b] = app[b] /\ thread'[b] = thread[b]
        /\ UNCHANGED <<device, monitor, allocated, cancelled, reported, aborted, late>>
    BY <1>5 DEF AbortJoin, LockInv, TypeOK
  <2>2. TypeOK'
    BY <1>5 DEF AbortJoin, TypeOK, device
  <2>3. Cancelling'
    BY <2>1 DEF Cancelling
  <2> QED BY <2>1, <2>2, <2>3 DEF LockInv, UsersInv, EndInv, UsesDevice, Watches, device
<1>6. ASSUME AbortReset(a) PROVE MonitorInv'
  <2>1. /\ app[a] = "joining" /\ lock = a
        /\ \A b \in Apps \ {a} : app[b] = "idle"
        /\ threadId # 0 => monitor[threadId] = "done"
    BY <1>6 DEF AbortReset, LockInv, UsersInv
  <2>2. \A m \in Monitors : ~UsesDevice(m)
    BY <2>1 DEF UsersInv, UsesDevice, Watches, Monitors
  <2>3. \A b \in Apps : app'[b] = "idle"
    BY <1>6, <2>1 DEF AbortReset, TypeOK
  <2>4. TypeOK'
    BY <1>6 DEF AbortReset, TypeOK
  <2>5. 0 \notin aborted
    BY DEF TypeOK, Monitors
  <2> QED BY <1>6, <2>1, <2>2, <2>3, <2>4, <2>5
          DEF AbortReset, LockInv, UsersInv, EndInv, UsesDevice, Watches
<1> QED BY <1>1, <1>2, <1>3, <1>4, <1>5, <1>6 DEF AppStep

(* What the steps of a monitor have in common: no user of the device       *)
(* appears, and who ends has been told or has seen the flag.               *)
LEMMA MonitorFacts ==
  ASSUME MonitorInv, NEW m \in Monitors, MonitorStep(m) \/ Event(m) \/ Ends(m)
  PROVE  /\ TypeOK'
         /\ UNCHANGED <<lock, app, thread, cancelEvent, late>>
         /\ \A n \in Monitors : UsesDevice(n)' => UsesDevice(n)
         /\ \A n \in Monitors \ {m} : monitor'[n] = monitor[n]
         /\ \/ threadId' = threadId
            \/ threadId' = 0 /\ UsesDevice(m) /\ ~UsesDevice(m)'
         /\ aborted' = aborted \/ (cancelEvent /\ aborted' = aborted \cup {m})
         /\ reported \subseteq reported'
         /\ m \in aborted' => monitor'[m] \in {"free", "done"}
         /\ Kind = "UART" /\ monitor'[m] \in {"free", "done"} => m \in reported' \cup aborted'
<1> USE DEF MonitorGoes, TellFailure, MonitorInv
<1>1. CASE Start(m)
  BY <1>1 DEF Start, TypeOK, EndInv, UsesDevice, Watches
<1>2. CASE Loop(m)
  BY <1>2 DEF Loop, TypeOK, EndInv, UsesDevice, Watches, device
<1>3. CASE Submit(m)
  BY <1>3 DEF Submit, TypeOK, EndInv, UsesDevice, Watches, device
<1>4. CASE Failed(m)
  BY <1>4 DEF Failed, TypeOK, EndInv, UsesDevice, Watches, device
<1>5. CASE Forget(m)
  BY <1>5 DEF Forget, TypeOK, EndInv, UsesDevice, Watches
<1>6. CASE Tell(m)
  BY <1>6 DEF Tell, TypeOK, EndInv, UsesDevice, Watches, device
<1>7. CASE Free(m)
  BY <1>7 DEF Free, TypeOK, EndInv, UsesDevice, Watches, device
<1>8. CASE Event(m)
  BY <1>8 DEF Event, TypeOK, EndInv, UsesDevice, Watches, device
<1>9. CASE Ends(m)
  BY <1>9 DEF Ends, TypeOK, EndInv, UsesDevice, Watches, device
<1> QED BY <1>1, <1>2, <1>3, <1>4, <1>5, <1>6, <1>7, <1>8, <1>9 DEF MonitorStep

LEMMA ThreadKeepsMonitor ==
  ASSUME MonitorInv, NEW m \in Monitors, MonitorStep(m) \/ Event(m) \/ Ends(m)
  PROVE  MonitorInv'
<1>1. /\ TypeOK'
      /\ UNCHANGED <<lock, app, thread, cancelEvent, late>>
      /\ \A n \in Monitors : UsesDevice(n)' => UsesDevice(n)
      /\ \A n \in Monitors \ {m} : monitor'[n] = monitor[n]
      /\ \/ threadId' = threadId
         \/ threadId' = 0 /\ UsesDevice(m) /\ ~UsesDevice(m)'
      /\ aborted' = aborted \/ (cancelEvent /\ aborted' = aborted \cup {m})
      /\ reported \subseteq reported'
      /\ m \in aborted' => monitor'[m] \in {"free", "done"}
      /\ Kind = "UART" /\ monitor'[m] \in {"free", "done"} => m \in reported' \cup aborted'
  BY MonitorFacts
<1>2. LockInv' /\ (Cancelling' <=> Cancelling)
  BY <1>1 DEF MonitorInv, LockInv, Cancelling
<1>3. UsersInv'
  <2>1. CASE threadId' = threadId
    BY <1>1, <2>1 DEF MonitorInv, UsersInv
  <2>2. CASE threadId' = 0 /\ UsesDevice(m) /\ ~UsesDevice(m)'
    <3>1. ASSUME NEW n \in Monitors, UsesDevice(n)'
          PROVE  \E a \in Apps : app[a] = "publish" /\ thread[a] = n
      <4>1. UsesDevice(n) /\ n # m
        BY <1>1, <2>2, <3>1
      <4>2. m = threadId \/ \E a \in Apps : app[a] = "publish" /\ thread[a] = m /\ threadId = 0
        BY <2>2 DEF MonitorInv, UsersInv
      <4>3. CASE n = threadId
        BY <4>1, <4>2, <4>3 DEF Monitors
      <4>4. CASE n # threadId
        BY <4>1, <4>4 DEF MonitorInv, UsersInv
      <4> QED BY <4>3, <4>4
    <3> QED BY <1>1, <2>2, <3>1 DEF MonitorInv, UsersInv
  <2> QED BY <1>1, <2>1, <2>2
<1>4. EndInv'
  <2>1. cancelEvent => Cancelling /\ \A a \in Apps : app[a] # "publish"
    BY DEF MonitorInv, EndInv, Cancelling, LockInv
  <2>2. aborted \subseteq Monitors /\ 0 \notin aborted'
    BY <1>1 DEF MonitorInv, TypeOK, Monitors
  <2>3. \A n \in aborted' : monitor'[n] \in {"free", "done"}
    BY <1>1, <2>2 DEF MonitorInv, EndInv
  <2>4. threadId' \in aborted' => Cancelling'
    BY <1>1, <1>2, <2>1, <2>2 DEF MonitorInv, EndInv
  <2>5. \A a \in Apps : app'[a] = "publish" => thread'[a] \notin aborted'
    BY <1>1, <2>1 DEF MonitorInv, EndInv
  <2>6. Kind = "UART" => \A n \in Monitors :
          monitor'[n] \in {"free", "done"} => n \in reported' \cup aborted'
    BY <1>1 DEF MonitorInv, EndInv
  <2> QED BY <1>1, <1>2, <2>1, <2>3, <2>4, <2>5, <2>6 DEF EndInv
<1> QED BY <1>1, <1>2, <1>3, <1>4 DEF MonitorInv

LEMMA StutterKeepsMonitor == ASSUME MonitorInv, UNCHANGED vars PROVE MonitorInv'
BY DEF MonitorInv, TypeOK, LockInv, UsersInv, EndInv, Cancelling, UsesDevice, Watches, vars, device

LEMMA StutterKeepsLines == ASSUME LinesInv, UNCHANGED lines PROVE LinesInv'
<1>1. UNCHANGED <<cached, wire, request, done, overlapped, settled>>
  BY DEF lines
<1>2. TypeOKLines'
  BY <1>1 DEF LinesInv, TypeOKLines
<1>3. \A c \in Callers : (Alone(c)' <=> Alone(c)) /\ Rivals(c, request[c].field)' = Rivals(c, request[c].field)
  BY <1>1 DEF Alone, Calling, Rivals
<1> QED BY <1>1, <1>2, <1>3 DEF LinesInv, Calling

-----------------------------------------------------------------------------
(* The device. *)

NoUsers == \A m \in Monitors : ~UsesDevice(m)

(* CyOpen and CyClose run alone, and leave no user behind. *)
LifeInv ==
  /\ life \in {"closed", "open"} \cup Opening \cup Closing
  /\ owner \in Apps \cup {NoApp}
  /\ life \notin {"closed", "open"} => owner \in Apps
  /\ life # "open" => \A a \in Apps : Calling(a) => a = owner /\ life \notin {"closed", "join", "destroy"}
  /\ life # "open" => \A a \in Apps : app[a] # "idle" => a = owner /\ life = "destroy"
  /\ life = "destroy" => app[owner] \in {"idle", "flag", "cancel", "join", "joining"}
  /\ life = "closed" \/ life \in Opening \/ (life = "destroy" /\ app[owner] = "idle") => NoUsers

DeviceInv == LinesInv /\ MonitorInv /\ LifeInv

LEMMA InitDeviceInv == InitDevice => DeviceInv
<1> SUFFICES ASSUME InitDevice PROVE DeviceInv
  OBVIOUS
<1>1. LinesInv /\ MonitorInv
  BY InitLinesInv, InitMonitorInv DEF InitDevice
<1>2. LifeInv
  BY DeviceAssumption DEF InitDevice, LifeInv, NoUsers, InitLines, Calling, NoRequest, Init,
     UsesDevice, Watches, Opening, Closing
<1> QED BY <1>1, <1>2 DEF DeviceInv

(* When the thread that an abort waits for has ended, no thread uses the   *)
(* device.                                                                 *)
LEMMA JoinedLast ==
  ASSUME MonitorInv, NEW a \in Apps, AbortReset(a)
  PROVE  NoUsers
<1>1. /\ app[a] = "joining" /\ \A b \in Apps \ {a} : app[b] = "idle"
      /\ threadId \in {0, thread[a]}
      /\ thread[a] # 0 => monitor[thread[a]] = "done"
  BY DEF AbortReset, AppGoes, MonitorInv, LockInv, UsersInv
<1> QED BY <1>1 DEF MonitorInv, UsersInv, UsesDevice, Watches, NoUsers, Monitors

(* What the steps of a call do to the users of the device. *)
LEMMA AppStepFacts ==
  ASSUME MonitorInv, NEW a \in Apps, AppStep(a)
  PROVE  /\ app[a] # "idle"
         /\ \A b \in Apps \ {a} : app'[b] = app[b]
         /\ app[a] \in {"flag", "cancel", "join", "joining"} =>
              /\ app'[a] \in {"cancel", "join", "joining", "idle"}
              /\ \A m \in Monitors : UsesDevice(m)' => UsesDevice(m)
              /\ app'[a] = "idle" => NoUsers'
<1> USE DEF AppGoes, AppLocal, MonitorInv
<1>1. CASE SetCreate(a)
  BY <1>1 DEF SetCreate, TypeOK
<1>2. CASE SetPublish(a)
  BY <1>2 DEF SetPublish, TypeOK
<1>3. CASE AbortFlag(a)
  BY <1>3 DEF AbortFlag, TypeOK, UsesDevice, Watches
<1>4. CASE AbortCancel(a)
  BY <1>4 DEF AbortCancel, TypeOK, UsesDevice, Watches
<1>5. CASE AbortJoin(a)
  BY <1>5 DEF AbortJoin, TypeOK, UsesDevice, Watches
<1>6. CASE AbortReset(a)
  <2>1. app[a] = "joining" /\ app'[a] = "idle" /\ monitor' = monitor
    BY <1>6 DEF AbortReset, TypeOK
  <2>2. NoUsers
    BY <1>6, JoinedLast
  <2>3. NoUsers'
    BY <2>1, <2>2 DEF NoUsers, UsesDevice, Watches
  <2> QED BY <1>6, <2>1, <2>2, <2>3 DEF AbortReset, TypeOK, NoUsers
<1> QED BY <1>1, <1>2, <1>3, <1>4, <1>5, <1>6 DEF AppStep

LEMMA OpenKeeps ==
  ASSUME DeviceInv, (\E a \in Apps : Open(a)) \/ OpenLines \/ OpenFields
  PROVE  DeviceInv'
<1> USE DeviceAssumption DEF DeviceInv
<1>1. ASSUME NEW a \in Apps, Open(a) PROVE DeviceInv'
  <2>1. life = "closed" /\ life' \in {"set rts", "fields"} /\ owner' = a /\ Forgotten /\ UNCHANGED vars
    BY <1>1 DEF Open
  <2>2. \A c \in Callers : ~Calling(c)
    BY <2>1 DEF LifeInv
  <2>3. LinesInv' /\ MonitorInv'
    BY <2>1, <2>2, ForgottenKeepsLines, StutterKeepsMonitor
  <2>4. LifeInv'
    BY <2>1, <2>2 DEF LifeInv, Opening, Closing, NoUsers, UsesDevice, Watches, Calling, Forgotten, vars, device
  <2> QED BY <2>3, <2>4
<1>2. ASSUME OpenLines PROVE DeviceInv'
  <2>1. /\ life \in {"set rts", "set dtr", "set mode"} /\ life' \in {"set dtr", "set mode", "fields"}
        /\ owner' = owner /\ owner \in Apps
        /\ UNCHANGED vars
    BY <1>2 DEF OpenLines, Onward, LifeInv
  <2>2. \E f \in Fields : \E v \in Values(f) : Begin(owner, f, v)
    BY <1>2, LinesAssumption DEF OpenLines, Fields, Lines, Values, Levels
  <2>3. LinesInv' /\ MonitorInv'
    BY <2>1, <2>2, BeginKeepsLines, StutterKeepsMonitor
  <2>4. \A c \in Callers \ {owner} : request'[c] = request[c]
    BY <2>2 DEF Begin, LinesInv, TypeOKLines
  <2>5. LifeInv'
    BY <2>1, <2>4 DEF LifeInv, Opening, Closing, NoUsers, UsesDevice, Watches, Calling, vars, device
  <2> QED BY <2>3, <2>5
<1>3. ASSUME OpenFields PROVE DeviceInv'
  <2>1. /\ life = "fields" /\ life' \in {"open", "closed"} /\ owner' = NoApp
        /\ ~Calling(owner) /\ threadId' = 0 /\ cancelEvent' = FALSE /\ transfer' = 0
        /\ UNCHANGED <<lock, app, thread, monitor, allocated, cancelled, reported, aborted,
                       late, lines>>
    BY <1>3 DEF OpenFields
  <2>2. /\ \A a \in Apps : app[a] = "idle" /\ ~Calling(a)
        /\ NoUsers
    BY <2>1 DEF LifeInv, Opening
  <2>3. LinesInv'
    BY <2>1, StutterKeepsLines
  <2>4. TypeOK' /\ 0 \notin aborted
    <3>1. TypeOK
      BY DEF MonitorInv
    <3>2. TypeOK'
      BY <2>1, <3>1 DEF TypeOK
    <3>3. 0 \notin Monitors /\ aborted \subseteq Monitors
      BY <3>1 DEF TypeOK, Monitors
    <3> QED BY <3>2, <3>3
  <2>5. MonitorInv'
    BY <2>1, <2>2, <2>4
       DEF MonitorInv, LockInv, UsersInv, EndInv, NoUsers, UsesDevice, Watches
  <2>6. LifeInv'
    BY <2>1, <2>2 DEF LifeInv, NoUsers, UsesDevice, Watches, Calling, lines, Opening, Closing
  <2> QED BY <2>3, <2>5, <2>6
<1> QED BY <1>1, <1>2, <1>3

LEMMA CloseKeeps ==
  ASSUME DeviceInv, (\E a \in Apps : Close(a)) \/ CloseLines \/ CloseAbort \/ CloseJoin \/ CloseFree
  PROVE  DeviceInv'
<1> USE DeviceAssumption DEF DeviceInv
<1>1. ASSUME NEW a \in Apps, Close(a) PROVE DeviceInv'
  <2>1. LinesInv' /\ MonitorInv'
    BY <1>1, StutterKeepsLines, StutterKeepsMonitor DEF Close
  <2>2. LifeInv'
    BY <1>1 DEF Close, Quiet, LifeInv, Opening, Closing, Calling, vars, device, lines
  <2> QED BY <2>1, <2>2
<1>2. ASSUME CloseLines PROVE DeviceInv'
  <2>1. /\ life \in {"clear rts", "clear dtr", "clear mode"} /\ life' \in {"clear dtr", "clear mode", "abort"}
        /\ owner' = owner /\ owner \in Apps
        /\ UNCHANGED vars
    BY <1>2 DEF CloseLines, Onward, LifeInv
  <2>2. \E f \in Fields : \E v \in Values(f) : Begin(owner, f, v)
    BY <1>2, LinesAssumption DEF CloseLines, Fields, Lines, Values, Levels
  <2>3. LinesInv' /\ MonitorInv'
    BY <2>1, <2>2, BeginKeepsLines, StutterKeepsMonitor
  <2>4. \A c \in Callers \ {owner} : request'[c] = request[c]
    BY <2>2 DEF Begin, LinesInv, TypeOKLines
  <2>5. LifeInv'
    BY <2>1, <2>4 DEF LifeInv, Opening, Closing, Calling, vars, device
  <2> QED BY <2>3, <2>5
<1>3. ASSUME CloseAbort PROVE DeviceInv'
  <2>1. /\ life = "abort" /\ life' \in {"join", "destroy"} /\ owner' = owner /\ owner \in Apps
        /\ life' = "destroy" => threadId = 0
        /\ ~Calling(owner)
        /\ UNCHANGED <<vars, lines>>
    BY <1>3 DEF CloseAbort, Onward, LifeInv
  <2>2. LinesInv' /\ MonitorInv'
    BY <2>1, StutterKeepsLines, StutterKeepsMonitor
  <2>3. \A a \in Apps : app[a] = "idle"
    BY <2>1 DEF LifeInv
  <2>4. threadId = 0 => NoUsers
    BY <2>3 DEF MonitorInv, UsersInv, NoUsers, Monitors
  <2>5. LifeInv'
    BY <2>1, <2>3, <2>4 DEF LifeInv, Opening, Closing, NoUsers, UsesDevice, Watches, Calling, vars, device, lines
  <2> QED BY <2>2, <2>5
<1>4. ASSUME CloseJoin PROVE DeviceInv'
  <2>1. /\ life = "join" /\ life' = "destroy" /\ owner' = owner /\ owner \in Apps
        /\ AbortCheck(owner) /\ UNCHANGED lines
    BY <1>4 DEF CloseJoin, Onward, LifeInv
  <2>2. LinesInv' /\ MonitorInv'
    BY <2>1, StutterKeepsLines, AppKeepsMonitor DEF Call
  <2>3. \A a \in Apps : app[a] = "idle" /\ ~Calling(a)
    BY <2>1 DEF LifeInv
  <2>4. /\ \A a \in Apps \ {owner} : app'[a] = "idle"
        /\ app'[owner] \in {"idle", "flag"}
        /\ app'[owner] = "idle" => threadId = 0
        /\ monitor' = monitor
    BY <2>1, <2>3 DEF AbortCheck, AppGoes, AppLocal, MonitorInv, TypeOK
  <2>5. threadId = 0 => NoUsers
    BY <2>3 DEF MonitorInv, UsersInv, NoUsers, Monitors
  <2>6. LifeInv'
    BY <2>1, <2>3, <2>4, <2>5 DEF LifeInv, Opening, Closing, NoUsers, UsesDevice, Watches, Calling, lines
  <2> QED BY <2>2, <2>6
<1>5. ASSUME CloseFree PROVE DeviceInv'
  <2>1. /\ life = "destroy" /\ app[owner] = "idle" /\ life' = "closed" /\ owner' = NoApp
        /\ Forgotten /\ UNCHANGED vars
    BY <1>5 DEF CloseFree
  <2>2. (\A a \in Apps : app[a] = "idle" /\ ~Calling(a)) /\ NoUsers
    BY <2>1 DEF LifeInv
  <2>3. LinesInv' /\ MonitorInv'
    BY <2>1, <2>2, ForgottenKeepsLines, StutterKeepsMonitor
  <2>4. LifeInv'
    BY <2>1, <2>2 DEF LifeInv, NoUsers, UsesDevice, Watches, Calling, Forgotten, vars, device, Opening, Closing
  <2> QED BY <2>3, <2>4
<1> QED BY <1>1, <1>2, <1>3, <1>4, <1>5

LEMMA CallsKeep ==
  ASSUME DeviceInv, (\E a \in Apps : AppCalls(a)) \/ NotificationStep \/ RequestStep
  PROVE  DeviceInv'
<1> USE DeviceAssumption DEF DeviceInv
<1>1. ASSUME NEW a \in Apps, AppCalls(a) PROVE DeviceInv'
  <2>1. life = "open" /\ UNCHANGED <<life, owner>>
    BY <1>1 DEF AppCalls
  <2>2. CASE Call(a) /\ UNCHANGED lines
    <3>1. LinesInv' /\ MonitorInv'
      BY <2>2, AppKeepsMonitor, StutterKeepsLines
    <3> QED BY <2>1, <3>1 DEF LifeInv, Opening, Closing
  <2>3. ASSUME NEW f \in Fields, NEW v \in Values(f), Begin(a, f, v), UNCHANGED vars
        PROVE  DeviceInv'
    <3>1. LinesInv' /\ MonitorInv'
      BY <2>3, BeginKeepsLines, StutterKeepsMonitor
    <3> QED BY <2>1, <3>1 DEF LifeInv, Opening, Closing
  <2> QED BY <1>1, <2>2, <2>3 DEF AppCalls
<1>2. ASSUME NEW a \in Apps, AppStep(a), UNCHANGED <<lines, life, owner>> PROVE DeviceInv'
  <2>1. LinesInv' /\ MonitorInv'
    BY <1>2, AppKeepsMonitor, StutterKeepsLines
  <2>2. /\ app[a] # "idle"
        /\ \A b \in Apps \ {a} : app'[b] = app[b]
        /\ app[a] \in {"flag", "cancel", "join", "joining"} =>
             /\ app'[a] \in {"cancel", "join", "joining", "idle"}
             /\ \A m \in Monitors : UsesDevice(m)' => UsesDevice(m)
             /\ app'[a] = "idle" => NoUsers'
    BY <1>2, AppStepFacts
  <2>3. life # "open" => life = "destroy" /\ a = owner /\ app[a] \in {"flag", "cancel", "join", "joining"}
    BY <2>2 DEF LifeInv
  <2>4. \A c \in Callers : Calling(c)' <=> Calling(c)
    BY <1>2 DEF Calling, lines
  <2> QED BY <1>2, <2>1, <2>2, <2>3, <2>4 DEF LifeInv, Opening, Closing
<1>3. ASSUME NEW m \in Monitors, MonitorStep(m) \/ Event(m) \/ Ends(m), UNCHANGED <<lines, life, owner>>
      PROVE  DeviceInv'
  <2>1. LinesInv' /\ MonitorInv'
    BY <1>3, ThreadKeepsMonitor, StutterKeepsLines
  <2>2. app' = app /\ (NoUsers => NoUsers')
    BY <1>3, MonitorFacts DEF NoUsers
  <2>3. \A c \in Callers : Calling(c)' <=> Calling(c)
    BY <1>3 DEF Calling, lines
  <2> QED BY <1>3, <2>1, <2>2, <2>3 DEF LifeInv
<1>4. ASSUME NEW a \in Apps, LineStep(a), UNCHANGED <<vars, life, owner>> PROVE DeviceInv'
  <2>1. LinesInv' /\ MonitorInv'
    BY <1>4, SendKeepsLines, SendFailsKeepsLines, StoreKeepsLines, StutterKeepsMonitor DEF LineStep
  <2>2. \A c \in Callers : Calling(c)' => Calling(c)
    BY <1>4 DEF LineStep, Send, SendFails, Store, EndCall, Calling, NoRequest, LinesInv, TypeOKLines
  <2>3. app' = app /\ (NoUsers => NoUsers')
    BY <1>4 DEF vars, NoUsers, UsesDevice, Watches
  <2> QED BY <1>4, <2>1, <2>2, <2>3 DEF LifeInv
<1> QED BY <1>1, <1>2, <1>3, <1>4 DEF NotificationStep, RequestStep

THEOREM DeviceInvariant == DeviceSpec => []DeviceInv
<1>1. ASSUME DeviceInv, UNCHANGED deviceVars PROVE DeviceInv'
  <2>1. UNCHANGED vars /\ UNCHANGED lines /\ UNCHANGED <<life, owner>>
    BY <1>1 DEF deviceVars
  <2>2. LinesInv' /\ MonitorInv'
    BY <1>1, <2>1, StutterKeepsLines, StutterKeepsMonitor DEF DeviceInv
  <2>3. LifeInv'
    BY <1>1, <2>1 DEF DeviceInv, LifeInv, NoUsers, UsesDevice, Watches, Calling, vars, device, lines
  <2> QED BY <2>2, <2>3 DEF DeviceInv
<1>2. DeviceInv /\ [NextDevice]_deviceVars => DeviceInv'
  BY <1>1, OpenKeeps, CloseKeeps, CallsKeep DEF NextDevice
<1> QED BY InitDeviceInv, <1>2, PTL DEF DeviceSpec

(* Every variable keeps its type. *)
THEOREM DeviceTypeCorrect == DeviceSpec => []DeviceTypeOK
<1>1. DeviceInv => DeviceTypeOK
  BY DEF DeviceInv, LinesInv, MonitorInv, LifeInv, DeviceTypeOK
<1> QED BY DeviceInvariant, <1>1, PTL

(* CyClose frees an object that no monitor thread uses any more, and       *)
(* CyOpen returns one that no monitor thread uses yet, whatever fails.     *)
THEOREM DeviceIsFreedUnused == DeviceSpec => []NoUseAfterFree
<1>1. DeviceInv => NoUseAfterFree
  BY DEF DeviceInv, LifeInv, NoUseAfterFree, NoUsers
<1> QED BY DeviceInvariant, <1>1, PTL

(* What is remembered of a line or mode that was last set undisturbed is   *)
(* what the device has.                                                    *)
THEOREM DeviceLinesAgree == DeviceSpec => []LinesAgree
<1>1. DeviceInv => LinesAgree
  BY DEF DeviceInv, LinesInv, LinesAgree
<1> QED BY DeviceInvariant, <1>1, PTL

(* While neither function runs, a monitor that watches is the known one. *)
THEOREM DeviceKnowsItsWatcher == DeviceSpec => []WatcherIsKnown
<1>1. DeviceInv => WatcherIsKnown
  BY NotificationAssumption
     DEF DeviceInv, MonitorInv, LockInv, UsersInv, WatcherIsKnown, UsesDevice
<1> QED BY DeviceInvariant, <1>1, PTL

(* A UART monitor ends by an abort or tells the callback. *)
THEOREM UartEndIsReported ==
  ASSUME Kind = "UART"
  PROVE  DeviceSpec => []EndIsReported
<1>1. DeviceInv => EndIsReported
  BY DEF DeviceInv, MonitorInv, EndInv, EndIsReported
<1> QED BY DeviceInvariant, <1>1, PTL

(* A UART monitor that the device knows runs, or the callback was told.    *)
THEOREM UartKnownMonitorRuns ==
  ASSUME Kind = "UART"
  PROVE  DeviceSpec => []KnownMonitorRuns
<1>1. DeviceInv => KnownMonitorRuns
  <2> SUFFICES ASSUME DeviceInv, lock = NoApp, threadId # 0, monitor[threadId] = "done"
               PROVE  threadId \in reported
    BY DEF KnownMonitorRuns
  <2>1. ~Cancelling /\ threadId \in Monitors
    BY NotificationAssumption DEF DeviceInv, MonitorInv, LockInv, Cancelling, TypeOK
  <2> QED BY <2>1 DEF DeviceInv, MonitorInv, EndInv
<1> QED BY DeviceInvariant, <1>1, PTL

(* When an abort returns, every monitor has ended or has given up its id:  *)
(* none watches the device, submits a transfer or writes the device again. *)
(* One that had failed by itself may still tell the callback so, once.     *)
THEOREM AbortSilencesMonitor == DeviceSpec => AbortSilences
<1>1. ASSUME DeviceInv, [NextDevice]_deviceVars
      PROVE  [\A a \in Apps : app[a] = "joining" /\ app'[a] = "idle" =>
                \A m \in Monitors : monitor[m] \in {"none", "tell", "free", "done"}]_vars
  <2> SUFFICES ASSUME NEW a \in Apps, app[a] = "joining", app'[a] = "idle"
               PROVE  \A m \in Monitors : monitor[m] \in {"none", "tell", "free", "done"}
    OBVIOUS
  <2>1. lock = a /\ \A b \in Apps \ {a} : app[b] = "idle"
    BY <1>1 DEF DeviceInv, MonitorInv, LockInv
  <2>2. \E b \in Apps : Call(b) \/ AppStep(b)
    <3>1. app' # app
      OBVIOUS
    <3> QED BY <1>1, <3>1, DeviceAssumption
            DEF NextDevice, Open, OpenLines, OpenFields, Close, CloseLines, CloseAbort, CloseJoin, CloseFree,
                AppCalls, NotificationStep, RequestStep, deviceVars, vars, device, Call, DeviceInv, LifeInv,
                Onward, MonitorStep, Start, Loop, Submit, Failed, Forget, Tell, Free, Event, Ends
  <2>3. AbortReset(a)
    BY <1>1, <2>1, <2>2, NotificationAssumption
       DEF Call, AppStep, SetCheck, AbortCheck, SetCreate, SetPublish, AbortFlag, AbortCancel,
           AbortJoin, AbortReset, AppGoes, DeviceInv, MonitorInv, TypeOK
  <2>4. NoUsers
    BY <1>1, <2>3, JoinedLast DEF DeviceInv
  <2> QED BY <1>1, <2>4 DEF DeviceInv, MonitorInv, TypeOK, NoUsers, UsesDevice, Watches
<1> QED BY DeviceInvariant, <1>1, PTL DEF DeviceSpec, AbortSilences
=============================================================================

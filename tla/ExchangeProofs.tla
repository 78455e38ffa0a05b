---------------------------- MODULE ExchangeProofs ----------------------------
(***************************************************************************)
(* The invariants of Exchange for every set of messages, every buffer size *)
(* and every way in which the bytes are cut.  First the turn of a receive  *)
(* loop, then the sequences a tunnel passes on, then the invariant, with a *)
(* lemma for each kind of step.                                            *)
(***************************************************************************)
EXTENDS Exchange, SequenceTheorems, TLAPS

-----------------------------------------------------------------------------
(* The parser.                                                             *)

LEMMA MessageType ==
  ASSUME TypeOKParser, NEW e \in End
  PROVE  /\ message[e].header \in Nat \ {0} /\ message[e].body \in Nat
         /\ message[e].framing \in {"length", "chunked", "close"}
         /\ message[e].valid \in BOOLEAN
         /\ Length(message[e]) \in Nat /\ message[e].header <= Length(message[e])
         /\ Length(message[e]) = message[e].header + message[e].body
         /\ BodyLimit[e] \in Nat
<1>1. message[e] \in [header : Nat \ {0}, body : Nat,
                      framing : {"length", "chunked", "close"}, valid : BOOLEAN]
  BY ParserAssumption DEF TypeOKParser
<1>2. BodyLimit[e] \in Nat
  BY ParserAssumption
<1>3. Length(message[e]) = message[e].header + message[e].body
  BY DEF Length
<1>4. /\ message[e].header \in Nat \ {0} /\ message[e].body \in Nat
      /\ message[e].framing \in {"length", "chunked", "close"}
      /\ message[e].valid \in BOOLEAN
  BY <1>1
<1> QED
  BY <1>2, <1>3, <1>4

(* put takes no more than was received, and all of a message that is there *)
(* and has an end.                                                         *)
LEMMA PutsTakesAll ==
  ASSUME TypeOKParser, NEW e \in End, NEW got \in Nat,
         consumed[e] <= got, NEW c \in Puts(message[e], consumed[e], got)
  PROVE  /\ c \in Nat /\ c <= got
         /\ (message[e].framing # "close" /\ Length(message[e]) <= got) => c = Length(message[e])
<1>1. consumed[e] \in Nat
  BY DEF TypeOKParser
<1> DEFINE m == message[e]
           most == IF m.framing = "close" \/ got < Length(m) THEN got ELSE Length(m)
<1>2. /\ m.header \in Nat \ {0} /\ Length(m) \in Nat /\ m.header <= Length(m)
      /\ most \in Nat /\ most <= got
  BY MessageType
<1>3. CASE got < m.header
  BY <1>1, <1>2, <1>3 DEF Puts
<1>4. CASE ~(got < m.header)
  <2>1. /\ c \in m.header .. most
        /\ c = most \/ (m.framing = "chunked" /\ got < Length(m))
    BY <1>4 DEF Puts
  <2> QED
    BY <1>2, <2>1
<1> QED
  BY <1>3, <1>4

(* Beast finds no error in an acceptable message, and accepts no other.    *)
LEMMA AcceptableIsWellFormed ==
  ASSUME TypeOKParser, NEW e \in End, NEW got \in Nat
  PROVE  /\ Acceptable(e) => ~Malformed(e, message[e], got)
         /\ (/\ ~Malformed(e, message[e], got) /\ message[e].framing # "close"
             /\ Length(message[e]) <= got) => Acceptable(e)
BY MessageType DEF Acceptable, Malformed

(* What the verdict on an end says, and what is known while there is none. *)
VerdictRight(e) ==
  /\ verdict[e] = "accepted" =>
       Acceptable(e) /\ consumed[e] = Length(message[e])
  /\ verdict[e] = "malformed" => ~Acceptable(e)
  /\ verdict[e] = "surplus" => written[e] > Length(message[e])
  /\ verdict[e] = "ended" =>
       /\ written[e] < Length(message[e]) \/ ~Acceptable(e)
       /\ peer[e] \notin {"none", "open"}

InOrder(e) == consumed[e] <= taken[e] /\ taken[e] <= written[e]

LEMMA ReceiveTurn ==
  ASSUME TypeOKSockets, TypeOKParser, NEW e \in End, InOrder(e), Receive(e)
  PROVE  /\ TypeOKSockets' /\ TypeOKParser' /\ InOrder(e)' /\ VerdictRight(e)'
         /\ verdict'[e] = "accepted" => taken'[e] = Length(message[e])
         /\ (verdict'[e] = "none" /\ Acceptable(e)) => taken'[e] < Length(message[e])
         /\ UNCHANGED <<written, put, message>>
         /\ \A o \in End \ {e} : /\ taken'[o] = taken[o] /\ consumed'[o] = consumed[o]
                                /\ verdict'[o] = verdict[o] /\ peer'[o] = peer[o]
         /\ peer'[e] \in {"none", "open"} => peer'[e] = peer[e]
<1>1. /\ taken[e] \in Nat /\ consumed[e] \in Nat /\ written[e] \in Nat /\ BufferSize \in Nat
      /\ taken \in [End -> Nat] /\ consumed \in [End -> Nat] /\ verdict \in [End -> Verdict]
      /\ peer \in [End -> PeerState]
      /\ consumed[e] <= taken[e] /\ taken[e] <= written[e] /\ verdict[e] = "none"
  BY SocketsAssumption DEF TypeOKSockets, TypeOKParser, InOrder, Receive
<1>2. CASE RecvFails(e) /\ verdict' = [verdict EXCEPT ![e] = "failed"] /\ UNCHANGED <<taken, consumed>>
  <2>1. UNCHANGED <<written, put, message, taken, consumed>>
    BY <1>2 DEF Receive
  <2>2. verdict'[e] = "failed" /\ verdict' \in [End -> Verdict]
    BY <1>1, <1>2 DEF Verdict
  <2>3. /\ peer' \in [End -> PeerState] /\ \A o \in End \ {e} : peer'[o] = peer[o]
        /\ peer'[e] \in {"none", "open"} => peer'[e] = peer[e]
    BY <1>1, <1>2 DEF RecvFails, PeerState
  <2>4. TypeOKSockets' /\ TypeOKParser' /\ InOrder(e)' /\ VerdictRight(e)'
    BY <2>1, <2>2, <2>3 DEF TypeOKSockets, TypeOKParser, InOrder, VerdictRight
  <2> QED
    BY <1>1, <1>2, <2>1, <2>2, <2>3, <2>4
<1>3. ASSUME NEW n \in 0 .. BufferSize, Recv(e, n), UNCHANGED peer,
             NEW c \in Puts(message[e], consumed[e], taken[e] + n),
             consumed' = [consumed EXCEPT ![e] = c],
             verdict' = [verdict EXCEPT ![e] = Parsed(e, n, c)]
      PROVE  /\ TypeOKSockets' /\ TypeOKParser' /\ InOrder(e)' /\ VerdictRight(e)'
             /\ verdict'[e] = "accepted" => taken'[e] = Length(message[e])
             /\ (verdict'[e] = "none" /\ Acceptable(e)) => taken'[e] < Length(message[e])
             /\ \A o \in End \ {e} : /\ taken'[o] = taken[o] /\ consumed'[o] = consumed[o]
                                    /\ verdict'[o] = verdict[o]
  <2> DEFINE got == taken[e] + n
  <2>1. got \in Nat /\ got <= written[e] /\ taken'[e] = got /\ taken' \in [End -> Nat]
    BY <1>1, <1>3 DEF Recv
  <2>2. /\ c \in Nat /\ c <= got
        /\ (message[e].framing # "close" /\ Length(message[e]) <= got) => c = Length(message[e])
    BY <1>1, <1>3, <2>1, PutsTakesAll
  <2>3. UNCHANGED <<written, put, message>>
    BY DEF Receive
  <2>4. consumed'[e] = c /\ consumed' \in [End -> Nat]
    BY <1>1, <1>3, <2>2
  <2>5. verdict'[e] = Parsed(e, n, c) /\ Parsed(e, n, c) \in Verdict /\ verdict' \in [End -> Verdict]
    BY <1>1, <1>3 DEF Parsed, Verdict
  <2>6. TypeOKSockets' /\ TypeOKParser'
    BY <1>1, <1>3, <2>1, <2>3, <2>4, <2>5 DEF TypeOKSockets, TypeOKParser
  <2>7. InOrder(e)'
    BY <2>1, <2>2, <2>3, <2>4 DEF InOrder
  <2>8. Length(message[e]) \in Nat
    BY MessageType
  <2>9. CASE Malformed(e, message[e], got)
    <3>1. verdict'[e] = "malformed" /\ ~Acceptable(e)
      BY <2>1, <2>5, <2>9, AcceptableIsWellFormed DEF Parsed
    <3> QED
      BY <1>3, <2>3, <2>6, <2>7, <3>1 DEF VerdictRight, Acceptable, Recv
  <2>10. CASE ~Malformed(e, message[e], got) /\ Done(message[e], c)
    <3>1. message[e].framing # "close" /\ c = Length(message[e]) /\ Acceptable(e)
      BY <2>1, <2>2, <2>8, <2>10, AcceptableIsWellFormed DEF Done
    <3>2. verdict'[e] = IF got = c THEN "accepted" ELSE "surplus"
      BY <2>5, <2>10 DEF Parsed
    <3> QED
      BY <1>1, <1>3, <2>1, <2>2, <2>3, <2>4, <2>6, <2>7, <2>8, <3>1, <3>2 DEF VerdictRight, Acceptable, Recv
  <2>11. CASE ~Malformed(e, message[e], got) /\ ~Done(message[e], c)
    <3>1. verdict'[e] = IF n = 0 THEN "ended" ELSE "none"
      BY <2>5, <2>11 DEF Parsed
    <3>2. Acceptable(e) => got < Length(message[e])
      BY <2>1, <2>2, <2>8, <2>11 DEF Done, Acceptable
    <3>3. n = 0 => got = written[e] /\ peer[e] \notin {"none", "open"}
      BY <1>1, <1>3, <2>1 DEF Recv, Unread
    <3> QED
      BY <1>1, <1>3, <2>1, <2>3, <2>6, <2>7, <2>8, <3>1, <3>2, <3>3 DEF VerdictRight, Acceptable, Recv
  <2> QED
    BY <2>9, <2>10, <2>11
<1> QED
  BY <1>2, <1>3 DEF Receive

-----------------------------------------------------------------------------
(* What a tunnel passes on.                                                *)

LEMMA BytesShape ==
  ASSUME NEW e, NEW t \in Nat, NEW n \in Nat
  PROVE  /\ Bytes(e, t + 1, t + n) \in Seq({e} \X Nat)
         /\ Len(Bytes(e, t + 1, t + n)) = n
<1> DEFINE s == Bytes(e, t + 1, t + n)
<1>1. s = [i \in 1 .. n |-> <<e, t + i>>]
  BY DEF Bytes
<1> HIDE DEF s
<1> QED
  BY <1>1 DEF s

(* More bytes are appended behind those there are.                         *)
LEMMA BytesContinue ==
  ASSUME NEW e, NEW i \in Nat, NEW j \in Nat, NEW l \in Nat, i <= j + 1, j <= l
  PROVE  /\ Bytes(e, i, j) \o Bytes(e, j + 1, l) = Bytes(e, i, l)
         /\ Len(Bytes(e, i, l)) = l - i + 1
<1> DEFINE s == Bytes(e, i, j)
           t == Bytes(e, j + 1, l)
           u == Bytes(e, i, l)
           k == j - i + 1
           n == l - j
<1>1. /\ s = [m \in 1 .. k |-> <<e, i + m - 1>>]
      /\ t = [m \in 1 .. n |-> <<e, j + m>>]
      /\ u = [m \in 1 .. k + n |-> <<e, i + m - 1>>]
  BY DEF Bytes
<1>2. k \in Nat /\ n \in Nat /\ k + n = l - i + 1 /\ i + k = j + 1
  OBVIOUS
<1> HIDE DEF s, t, u, k, n
<1>3. /\ s \in Seq({e} \X Int) /\ Len(s) = k
      /\ t \in Seq({e} \X Int) /\ Len(t) = n
      /\ u \in Seq({e} \X Int) /\ Len(u) = k + n
  BY <1>1, <1>2
<1>4. s \o t = u
  <2>1. s \o t \in Seq({e} \X Int) /\ Len(s \o t) = k + n
    BY <1>3, ConcatProperties
  <2>2. ASSUME NEW m \in 1 .. k + n PROVE (s \o t)[m] = u[m]
    BY <1>1, <1>2, <1>3
  <2> QED
    BY <1>3, <2>1, <2>2, SeqEqual
<1> QED
  BY <1>2, <1>3, <1>4 DEF s, t, u

LEMMA NoBytes ==
  ASSUME NEW e, NEW b \in Nat
  PROVE  Bytes(e, b + 1, b + 0) = << >>
BY DEF Bytes

LEMMA FirstOfLonger ==
  ASSUME NEW S, NEW p \in Seq(S), p # << >>, NEW q \in Seq(S)
  PROVE  (p \o q)[1] = p[1]
OBVIOUS

LEMMA TailOfLonger ==
  ASSUME NEW S, NEW p \in Seq(S), p # << >>, NEW q \in Seq(S)
  PROVE  Tail(p \o q) = Tail(p) \o q /\ Tail(p) \in Seq(S)
<1>1. Len(p) \in Nat \ {0} /\ Tail(p) \in Seq(S) /\ Len(Tail(p)) = Len(p) - 1
  OBVIOUS
<1>2. p \o q \in Seq(S) /\ Len(p \o q) = Len(p) + Len(q) /\ p \o q # << >>
  OBVIOUS
<1>3. Tail(p \o q) \in Seq(S) /\ Len(Tail(p \o q)) = Len(p) + Len(q) - 1
  BY <1>1, <1>2
<1>4. ASSUME NEW i \in 1 .. Len(p) + Len(q) - 1
      PROVE  Tail(p \o q)[i] = (Tail(p) \o q)[i]
  BY <1>1, <1>2, <1>3
<1> QED
  BY <1>1, <1>3, <1>4, SeqEqual

-----------------------------------------------------------------------------
(* The invariant.                                                          *)

(* Where the handler is tells what has been received and sent so far.      *)
InTunnel == {"select", "relay", "returned"}

Phases ==
  /\ step \in {"request", "connect", "send", "establish"} =>
       taken["server"] = 0 /\ verdict["server"] = "none"
  /\ step \in {"request", "connect", "establish"} =>
       put["client"] = << >> /\ put["server"] = << >>
  /\ step \notin InTunnel \cup {"thrown", "dead"} => finished = {}
  /\ step \in {"connect", "establish"} => taken["client"] = Length(message["client"])
  /\ step = "establish" => method = "CONNECT"
  /\ (step = "report" /\ method = "CONNECT") => put["client"] = << >>
  /\ step \in {"send", "response", "reply"} => method = "POST"
  /\ (step = "returned" /\ method = "CONNECT") => finished # {}
  /\ Tunnelled => step \in InTunnel \cup {"thrown", "dead"}

(* In a tunnel all that was taken from an end has been passed on, as long  *)
(* as the other one could read it.                                         *)
PassedOn(e) ==
  LET r == Relayed(Other(e))
  IN  /\ r = Bytes(e, Base(e) + 1, Base(e) + Len(r))
      /\ Base(e) + Len(r) <= taken[e]
      /\ (step \in InTunnel /\ peer[Other(e)] \in {"open", "shut"}) => Base(e) + Len(r) = taken[e]

ReadToTheEnd(e) == peer[e] \notin {"none", "open"} /\ taken[e] = written[e]

InductiveExchange ==
  /\ TypeOKExchange
  /\ \A e \in End : InOrder(e) /\ VerdictRight(e)
  /\ NeverWaitsForCompleteMessage
  /\ Phases
  /\ Tunnelled => \A e \in End : PassedOn(e)
  /\ \A e \in finished : ReadToTheEnd(e)

LEMMA InitInductiveExchange == InitExchange => InductiveExchange
<1> SUFFICES ASSUME InitExchange PROVE InductiveExchange
  OBVIOUS
<1> USE DEF InitExchange, InitSockets, InitParser, InitTunnel
<1>1. TypeOKSockets
  BY DEF TypeOKSockets, PeerState, End
<1>2. TypeOKParser
  BY DEF TypeOKParser, Verdict
<1>3. TypeOKTunnel /\ step \in Steps /\ method \in {"POST", "CONNECT"}
  BY TunnelAssumption DEF TypeOKTunnel, Steps
<1>4. \A e \in End : InOrder(e) /\ VerdictRight(e)
  BY DEF InOrder, VerdictRight
<1>5. NeverWaitsForCompleteMessage
  BY <1>2, MessageType DEF NeverWaitsForCompleteMessage
<1>6. Phases /\ ~Tunnelled
  BY DEF Phases, Tunnelled, End
<1> QED
  BY <1>1, <1>2, <1>3, <1>4, <1>5, <1>6 DEF InductiveExchange, TypeOKExchange

(* An end never goes back to a state in which it could write or read.      *)
Settles ==
  \A e \in End : /\ peer'[e] \in {"none", "open"} => peer'[e] = peer[e]
                 /\ peer'[e] = "shut" => peer[e] \in {"open", "shut"}

(* What is known of the messages lasts while the parser rests.             *)
LEMMA VerdictsLast ==
  ASSUME InductiveExchange, UNCHANGED parserVars, Settles, written' \in [End -> Nat],
         \A e \in End : written[e] <= written'[e] /\ (peer[e] # "open" => written'[e] = written[e])
  PROVE  \A e \in End : VerdictRight(e)'
<1> SUFFICES ASSUME NEW e \in End PROVE VerdictRight(e)'
  OBVIOUS
<1>1. VerdictRight(e) /\ Length(message[e]) \in Nat /\ written[e] \in Nat /\ written'[e] \in Nat
  BY MessageType DEF InductiveExchange, TypeOKExchange, TypeOKSockets
<1>2. Acceptable(e)' = Acceptable(e) /\ Length(message[e])' = Length(message[e])
  BY DEF Acceptable, parserVars, Length
<1>3. written[e] <= written'[e] /\ (peer[e] # "open" => written'[e] = written[e])
  OBVIOUS
<1>4. UNCHANGED <<verdict, consumed, message>>
  BY DEF parserVars
<1>5. peer[e] \notin {"none", "open"} => peer'[e] \notin {"none", "open"}
  BY DEF Settles
<1> QED
  BY <1>1, <1>2, <1>3, <1>4, <1>5 DEF VerdictRight

(* What has been passed on lasts while nothing is taken or put.            *)
LEMMA PassedOnLasts ==
  ASSUME Tunnelled => \A e \in End : PassedOn(e), UNCHANGED <<put, taken, message, method>>, Settles,
         step' \in InTunnel => step \in InTunnel
  PROVE  (Tunnelled => \A e \in End : PassedOn(e))'
<1> SUFFICES ASSUME Tunnelled', NEW e \in End PROVE PassedOn(e)'
  OBVIOUS
<1>1. PassedOn(e)
  BY DEF Tunnelled
<1>2. UNCHANGED <<Relayed(Other(e)), Base(e)>>
  BY DEF Relayed, Base, Length, Other
<1>3. peer'[Other(e)] \in {"open", "shut"} => peer[Other(e)] \in {"open", "shut"}
  BY DEF Settles, Other, End
<1> QED
  BY <1>1, <1>2, <1>3 DEF PassedOn, Other, Bytes

-----------------------------------------------------------------------------
(* The peers.                                                              *)

LEMMA PeersStep ==
  ASSUME InductiveExchange, NEW o \in End, Write(o) \/ Leave(o),
         UNCHANGED <<parserVars, tunnelVars, method>>
  PROVE  InductiveExchange'
<1>1. TypeOKExchange
  BY DEF InductiveExchange
<1>2. /\ written' \in [End -> Nat] /\ peer' \in [End -> PeerState] /\ Settles
      /\ \A e \in End : written[e] <= written'[e] /\ (peer[e] # "open" => written'[e] = written[e])
      /\ UNCHANGED <<taken, put>>
  <2>1. CASE Write(o)
    BY <1>1, <2>1 DEF Write, TypeOKExchange, TypeOKSockets, Settles, PeerState
  <2>2. CASE Leave(o)
    <3>1. PICK s \in {"shut", "closed", "reset", "broken"} :
            /\ peer' = [peer EXCEPT ![o] = s]
            /\ peer[o] \in {"open", "shut"} /\ (s = "shut" => peer[o] = "open")
      BY <2>2 DEF Leave
    <3>2. peer \in [End -> PeerState] /\ written \in [End -> Nat] /\ UNCHANGED <<written, taken, put>>
      BY <1>1, <2>2 DEF Leave, TypeOKExchange, TypeOKSockets
    <3>3. peer' \in [End -> PeerState] /\ peer'[o] = s /\ \A e \in End \ {o} : peer'[e] = peer[e]
      BY <3>1, <3>2 DEF PeerState
    <3>4. Settles
      BY <3>1, <3>3 DEF Settles
    <3> QED
      BY <3>2, <3>3, <3>4
  <2> QED
    BY <2>1, <2>2
<1>3. TypeOKExchange'
  BY <1>1, <1>2 DEF TypeOKExchange, TypeOKSockets, TypeOKParser, TypeOKTunnel, parserVars, tunnelVars
<1>4. \A e \in End : InOrder(e)'
  BY <1>1, <1>2 DEF InductiveExchange, InOrder, parserVars, TypeOKExchange, TypeOKSockets, TypeOKParser
<1>5. \A e \in End : VerdictRight(e)'
  BY <1>2, VerdictsLast
<1>6. NeverWaitsForCompleteMessage'
  BY <1>2 DEF InductiveExchange, NeverWaitsForCompleteMessage, Receiving, Acceptable, Length,
        parserVars, tunnelVars
<1>7. Phases'
  BY <1>2 DEF InductiveExchange, Phases, Tunnelled, Length, parserVars, tunnelVars
<1>8. (Tunnelled => \A e \in End : PassedOn(e))'
  BY <1>2, PassedOnLasts DEF InductiveExchange, parserVars, tunnelVars
<1>9. (\A e \in finished : ReadToTheEnd(e))'
  BY <1>1, <1>2 DEF InductiveExchange, ReadToTheEnd, tunnelVars, Settles, TypeOKExchange, TypeOKTunnel
<1> QED
  BY <1>3, <1>4, <1>5, <1>6, <1>7, <1>8, <1>9 DEF InductiveExchange

-----------------------------------------------------------------------------
(* The receive loops and connect.                                          *)

LEMMA ReceiveRequestStep ==
  ASSUME InductiveExchange, ReceiveRequest
  PROVE  InductiveExchange'
<1>1. /\ TypeOKExchange /\ step = "request" /\ Receive("client") /\ InOrder("client") /\ "client" \in End
      /\ UNCHANGED <<ready, finished, timeLeft, method>>
  BY DEF InductiveExchange, ReceiveRequest, End
<1>2. /\ TypeOKSockets' /\ TypeOKParser' /\ InOrder("client")' /\ VerdictRight("client")'
      /\ verdict'["client"] = "accepted" => taken'["client"] = Length(message["client"])
      /\ (verdict'["client"] = "none" /\ Acceptable("client")) => taken'["client"] < Length(message["client"])
      /\ UNCHANGED <<written, put, message>>
      /\ taken'["server"] = taken["server"] /\ consumed'["server"] = consumed["server"]
      /\ verdict'["server"] = verdict["server"] /\ peer'["server"] = peer["server"]
      /\ peer'["client"] \in {"none", "open"} => peer'["client"] = peer["client"]
  BY <1>1, ReceiveTurn DEF TypeOKExchange, End
<1>3. /\ step' \in {"request", "connect", "thrown", "report"}
      /\ step' = "request" => verdict'["client"] = "none"
      /\ step' = "connect" => verdict'["client"] = "accepted"
  BY <1>1, <1>2 DEF ReceiveRequest, After, TypeOKParser, Verdict
<1>4. TypeOKExchange'
  BY <1>1, <1>2, <1>3 DEF TypeOKExchange, TypeOKTunnel, Steps
<1>5. finished = {} /\ put["client"] = << >> /\ put["server"] = << >> /\ taken["server"] = 0 /\ verdict["server"] = "none"
  BY <1>1 DEF InductiveExchange, Phases, InTunnel
<1>6. InOrder("server")' /\ VerdictRight("server")'
  BY <1>2, <1>5 DEF InductiveExchange, InOrder, VerdictRight, End
<1>7. NeverWaitsForCompleteMessage'
  BY <1>2, <1>3 DEF NeverWaitsForCompleteMessage, Receiving, End, Acceptable
<1>8. Phases' /\ ~Tunnelled'
  BY <1>1, <1>2, <1>3, <1>5 DEF Phases, Tunnelled, InTunnel
<1> QED
  BY <1>1, <1>2, <1>4, <1>5, <1>6, <1>7, <1>8 DEF InductiveExchange, End

LEMMA ReceiveResponseStep ==
  ASSUME InductiveExchange, ReceiveResponse
  PROVE  InductiveExchange'
<1>1. /\ TypeOKExchange /\ step = "response" /\ Receive("server") /\ InOrder("server") /\ "server" \in End
      /\ UNCHANGED <<ready, finished, timeLeft, method>>
  BY DEF InductiveExchange, ReceiveResponse, End
<1>2. /\ TypeOKSockets' /\ TypeOKParser' /\ InOrder("server")' /\ VerdictRight("server")'
      /\ (verdict'["server"] = "none" /\ Acceptable("server")) => taken'["server"] < Length(message["server"])
      /\ UNCHANGED <<written, put, message>>
      /\ taken'["client"] = taken["client"] /\ consumed'["client"] = consumed["client"]
      /\ verdict'["client"] = verdict["client"] /\ peer'["client"] = peer["client"]
      /\ peer'["server"] \in {"none", "open"} => peer'["server"] = peer["server"]
  BY <1>1, ReceiveTurn DEF TypeOKExchange, End
<1>3. /\ step' \in {"response", "reply", "report"}
      /\ step' = "response" => verdict'["server"] = "none"
  BY <1>1, <1>2 DEF ReceiveResponse, After, TypeOKParser, Verdict
<1>4. TypeOKExchange'
  BY <1>1, <1>2, <1>3 DEF TypeOKExchange, TypeOKTunnel, Steps
<1>5. method = "POST" /\ finished = {}
  BY <1>1 DEF InductiveExchange, Phases, InTunnel
<1>6. InOrder("client")' /\ VerdictRight("client")'
  BY <1>2 DEF InductiveExchange, InOrder, VerdictRight, End, Acceptable
<1>7. NeverWaitsForCompleteMessage'
  BY <1>2, <1>3 DEF NeverWaitsForCompleteMessage, Receiving, End, Acceptable
<1>8. Phases' /\ ~Tunnelled'
  BY <1>1, <1>2, <1>3, <1>5 DEF Phases, Tunnelled, InTunnel
<1>9. (\A e \in finished : ReadToTheEnd(e))'
  BY <1>1 DEF InductiveExchange, Phases, InTunnel
<1> QED
  BY <1>1, <1>2, <1>4, <1>6, <1>7, <1>8, <1>9 DEF InductiveExchange, End

(* Steps that leave the parser alone: what remains to be shown of them is  *)
(* what depends on step and put.                                           *)
LEMMA ParserRests ==
  ASSUME InductiveExchange, UNCHANGED <<written, parserVars, method>>, Settles,
         TypeOKSockets', TypeOKTunnel', step' \in Steps,
         \A e \in End : taken[e] <= taken'[e] /\ taken'[e] <= written[e],
         \A e \in finished' : e \in finished \/ ReadToTheEnd(e)',
         \A e \in End : ~Receiving(e)'
  PROVE  /\ TypeOKExchange' /\ \A e \in End : InOrder(e)' /\ VerdictRight(e)'
         /\ NeverWaitsForCompleteMessage' /\ (\A e \in finished : ReadToTheEnd(e))'
<1>1. TypeOKExchange
  BY DEF InductiveExchange
<1>2. TypeOKExchange'
  BY <1>1 DEF TypeOKExchange, TypeOKParser, parserVars
<1>3. /\ taken \in [End -> Nat] /\ taken' \in [End -> Nat] /\ consumed \in [End -> Nat]
      /\ written \in [End -> Nat] /\ written' = written /\ consumed' = consumed
      /\ finished \subseteq End /\ finished' \subseteq End
  BY <1>1, <1>2 DEF TypeOKExchange, TypeOKSockets, TypeOKParser, TypeOKTunnel, parserVars
<1>4. \A e \in End : InOrder(e)'
  BY <1>3 DEF InductiveExchange, InOrder
<1>5. \A e \in End : VerdictRight(e)'
  BY <1>3, VerdictsLast
<1>6. NeverWaitsForCompleteMessage'
  BY DEF NeverWaitsForCompleteMessage
<1>7. ASSUME NEW e \in finished' PROVE ReadToTheEnd(e)'
  <2>1. CASE e \in finished
    BY <1>3, <2>1 DEF InductiveExchange, ReadToTheEnd, Settles
  <2> QED
    BY <2>1, <1>7
<1> QED
  BY <1>2, <1>4, <1>5, <1>6, <1>7

LEMMA ConnectStep ==
  ASSUME InductiveExchange, Connect
  PROVE  InductiveExchange'
<1>1. /\ TypeOKExchange /\ step = "connect" /\ step' \in {"establish", "send"}
      /\ step' = IF method = "CONNECT" THEN "establish" ELSE "send"
      /\ peer' = [peer EXCEPT !["server"] = "open"]
      /\ UNCHANGED <<written, taken, put, parserVars, ready, finished, timeLeft, method>>
  BY DEF InductiveExchange, Connect, Moves
<1>2. TypeOKExchange'
  BY <1>1 DEF TypeOKExchange, TypeOKSockets, TypeOKParser, TypeOKTunnel, parserVars, PeerState, Steps, End
<1>3. /\ finished = {} /\ put["client"] = << >> /\ put["server"] = << >>
      /\ taken["server"] = 0 /\ verdict["server"] = "none"
      /\ taken["client"] = Length(message["client"])
  BY <1>1 DEF InductiveExchange, Phases, InTunnel
<1>4. peer'["client"] = peer["client"]
  BY <1>1 DEF TypeOKExchange, TypeOKSockets, End
<1>5. \A e \in End : InOrder(e)' /\ VerdictRight(e)'
  BY <1>1, <1>3, <1>4 DEF InductiveExchange, InOrder, VerdictRight, Acceptable, Length, parserVars, End
<1>6. NeverWaitsForCompleteMessage'
  BY <1>1 DEF NeverWaitsForCompleteMessage, Receiving
<1>7. Phases' /\ ~Tunnelled'
  BY <1>1, <1>3 DEF Phases, Tunnelled, InTunnel, TypeOKExchange, Length, parserVars
<1> QED
  BY <1>1, <1>2, <1>3, <1>5, <1>6, <1>7 DEF InductiveExchange

(* What the sending of a message of the proxy changes.                     *)
LEMMA SendsFacts ==
  ASSUME TypeOKExchange, NEW e \in End, NEW s \in {"request", "response", "established", "error"},
         NEW from, NEW to, NEW failure, Sends(e, s, from, to, failure)
  PROVE  /\ step = from /\ step' \in {to, failure, "dead"}
         /\ TypeOKSockets' /\ Settles
         /\ \/ UNCHANGED put
            \/ step' = to /\ put' = [put EXCEPT ![e] = @ \o << <<s, 0>> >>]
         /\ UNCHANGED <<written, taken, parserVars, ready, finished, timeLeft, method>>
<1>1. /\ peer \in [End -> PeerState] /\ put \in [End -> Seq(Token)]
      /\ written \in [End -> Nat] /\ taken \in [End -> Nat]
      /\ UNCHANGED <<written, taken, parserVars, ready, finished, timeLeft, method>>
  BY DEF TypeOKExchange, TypeOKSockets, Sends
<1>2. << <<s, 0>> >> \in Seq(Token)
  BY DEF Token
<1>3. CASE Moves(from, to) /\ Send(e, << <<s, 0>> >>)
  <2>1. CASE /\ peer[e] \in {"open", "shut"}
             /\ put' = [put EXCEPT ![e] = @ \o << <<s, 0>> >>] /\ UNCHANGED peer
    <3>1. put[e] \o << <<s, 0>> >> \in Seq(Token)
      BY <1>1, <1>2
    <3>2. put' \in [End -> Seq(Token)]
      BY <1>1, <2>1, <3>1
    <3> QED
      BY <1>1, <1>3, <2>1, <3>2 DEF TypeOKSockets, Settles, Moves
  <2>2. CASE /\ peer[e] = "closed" /\ UNCHANGED put
             /\ \E p \in {"closed", "broken"} : peer' = [peer EXCEPT ![e] = p]
    BY <1>1, <1>3, <2>2 DEF TypeOKSockets, Settles, PeerState, Moves
  <2> QED
    BY <1>3, <2>1, <2>2 DEF Send
<1>4. CASE Moves(from, failure) /\ SendFails(e) /\ UNCHANGED put
  BY <1>1, <1>4 DEF TypeOKSockets, Settles, PeerState, Moves, SendFails
<1>5. CASE Moves(from, "dead") /\ SendKills(e) /\ UNCHANGED <<put, peer>>
  BY <1>1, <1>5 DEF TypeOKSockets, Settles, Moves
<1> QED
  BY <1>3, <1>4, <1>5 DEF Sends


LEMMA SendRequestStep ==
  ASSUME InductiveExchange, SendRequest
  PROVE  InductiveExchange'
<1>1. TypeOKExchange /\ "server" \in End
  BY DEF InductiveExchange, End
<1>2. /\ step = "send" /\ step' \in {"response", "report", "dead"}
      /\ TypeOKSockets' /\ Settles
      /\ UNCHANGED <<written, taken, parserVars, ready, finished, timeLeft, method>>
  BY <1>1, SendsFacts DEF SendRequest
<1>3. method = "POST" /\ taken["server"] = 0 /\ finished = {} /\ verdict["server"] = "none"
  BY <1>2 DEF InductiveExchange, Phases, InTunnel
<1>4. TypeOKExchange'
  BY <1>1, <1>2 DEF TypeOKExchange, TypeOKParser, TypeOKTunnel, parserVars, Steps
<1>5. \A e \in End : InOrder(e)'
  BY <1>2 DEF InductiveExchange, InOrder, parserVars
<1>6. \A e \in End : VerdictRight(e)'
  BY <1>1, <1>2, <1>4, VerdictsLast DEF TypeOKExchange, TypeOKSockets
<1>7. NeverWaitsForCompleteMessage'
  <2>1. Length(message["server"]) \in Nat /\ Length(message["server"]) > 0
    BY <1>1, MessageType DEF TypeOKExchange
  <2>2. taken'["server"] = 0 /\ message' = message
    BY <1>2, <1>3 DEF parserVars
  <2> QED
    BY <1>2, <2>1, <2>2 DEF NeverWaitsForCompleteMessage, Receiving, End
<1>8. Phases' /\ ~Tunnelled'
  BY <1>2, <1>3 DEF Phases, Tunnelled, InTunnel
<1> QED
  BY <1>2, <1>3, <1>4, <1>5, <1>6, <1>7, <1>8 DEF InductiveExchange

(* The other messages of the proxy go to the client, and nothing is        *)
(* received after them except through a tunnel.                            *)
LEMMA SendsToClient ==
  ASSUME InductiveExchange, NEW s \in {"response", "established", "error"},
         NEW from, NEW to, NEW failure, Sends("client", s, from, to, failure),
         {to, failure, "dead"} \subseteq {"select", "returned", "thrown", "dead"},
         Phases', (Tunnelled => \A e \in End : PassedOn(e))'
  PROVE  InductiveExchange'
<1>1. TypeOKExchange /\ "client" \in End
  BY DEF InductiveExchange, End
<1>2. /\ step' \in {"select", "returned", "thrown", "dead"}
      /\ TypeOKSockets' /\ Settles
      /\ UNCHANGED <<written, taken, parserVars, ready, finished, timeLeft, method>>
  BY <1>1, SendsFacts
<1>3. TypeOKTunnel' /\ step' \in Steps /\ \A e \in End : ~Receiving(e)'
  BY <1>1, <1>2 DEF TypeOKExchange, TypeOKTunnel, Steps, Receiving
<1>4. \A e \in End : taken[e] <= taken'[e] /\ taken'[e] <= written[e]
  BY <1>1, <1>2 DEF InductiveExchange, InOrder, TypeOKExchange, TypeOKSockets
<1> QED
  BY <1>2, <1>3, <1>4, ParserRests DEF InductiveExchange

LEMMA SendResponseStep ==
  ASSUME InductiveExchange, SendResponse
  PROVE  InductiveExchange'
<1>1. TypeOKExchange /\ "client" \in End
  BY DEF InductiveExchange, End
<1>2. step = "reply" /\ step' \in {"returned", "thrown", "dead"} /\ UNCHANGED <<finished, method>>
  BY <1>1, SendsFacts DEF SendResponse
<1>3. method = "POST"
  BY <1>2 DEF InductiveExchange, Phases
<1>4. Phases' /\ ~Tunnelled'
  BY <1>2, <1>3 DEF Phases, Tunnelled, InTunnel
<1> QED
  BY <1>4, SendsToClient DEF SendResponse

LEMMA SendErrorStatusStep ==
  ASSUME InductiveExchange, SendErrorStatus
  PROVE  InductiveExchange'
<1>1. TypeOKExchange /\ "client" \in End /\ put \in [End -> Seq(Token)]
  BY DEF InductiveExchange, TypeOKExchange, TypeOKSockets, End
<1>2. /\ step = "report" /\ step' \in {"thrown", "dead"} /\ UNCHANGED <<finished, method>>
      /\ UNCHANGED put \/ put' = [put EXCEPT !["client"] = @ \o << <<"error", 0>> >>]
  BY <1>1, SendsFacts DEF SendErrorStatus
<1>3. method = "CONNECT" => put["client"] = << >>
  BY <1>2 DEF InductiveExchange, Phases
<1>4. ~Tunnelled'
  <2>1. CASE method # "CONNECT"
    BY <1>2, <2>1 DEF Tunnelled
  <2>2. CASE method = "CONNECT" /\ UNCHANGED put
    BY <1>3, <2>2 DEF Tunnelled
  <2>3. CASE method = "CONNECT" /\ put' = [put EXCEPT !["client"] = @ \o << <<"error", 0>> >>]
    <3>1. put'["client"] = << >> \o << <<"error", 0>> >>
      BY <1>1, <1>3, <2>3
    <3>2. put'["client"][1][1] = "error"
      BY <3>1
    <3> QED
      BY <3>2 DEF Tunnelled
  <2> QED
    BY <1>2, <2>1, <2>2, <2>3
<1>5. Phases'
  BY <1>2, <1>4 DEF Phases, InTunnel
<1> QED
  BY <1>4, <1>5, SendsToClient DEF SendErrorStatus

LEMMA EstablishStep ==
  ASSUME InductiveExchange, Establish
  PROVE  InductiveExchange'
<1>1. TypeOKExchange /\ "client" \in End /\ put \in [End -> Seq(Token)]
  BY DEF InductiveExchange, TypeOKExchange, TypeOKSockets, End
<1>2. /\ step = "establish" /\ step' \in {"select", "thrown", "dead"}
      /\ UNCHANGED put \/ put' = [put EXCEPT !["client"] = @ \o << <<"established", 0>> >>]
      /\ UNCHANGED <<taken, parserVars, finished, method>>
  BY <1>1, SendsFacts DEF Establish
<1>3. /\ put["client"] = << >> /\ put["server"] = << >>
      /\ taken["server"] = 0 /\ taken["client"] = Length(message["client"])
  BY <1>2 DEF InductiveExchange, Phases
<1>4. Phases'
  BY <1>2 DEF Phases, InTunnel
<1>5. ASSUME Tunnelled', NEW e \in End PROVE PassedOn(e)'
  <2>1. put' = [put EXCEPT !["client"] = @ \o << <<"established", 0>> >>]
    BY <1>2, <1>3, <1>5 DEF Tunnelled
  <2>2. put'["client"] = << <<"established", 0>> >> /\ put'["server"] = << >>
    BY <1>1, <1>3, <2>1 DEF End
  <2>3. Relayed("client")' = << >> /\ Relayed("server")' = << >>
    BY <2>2 DEF Relayed
  <2>4. Base(e)' = taken'[e] /\ taken'[e] \in Nat
    BY <1>1, <1>2, <1>3 DEF Base, Length, parserVars, End, TypeOKExchange, TypeOKSockets
  <2>5. Bytes(e, Base(e)' + 1, Base(e)' + 0) = << >>
    BY <2>4, NoBytes
  <2>6. Relayed(Other(e))' = << >>
    BY <2>3 DEF Other, End
  <2> QED
    BY <2>4, <2>5, <2>6 DEF PassedOn, Other, Bytes
<1> QED
  BY <1>4, <1>5, SendsToClient DEF Establish


-----------------------------------------------------------------------------
(* The tunnel.                                                             *)

LEMMA WaitingStep ==
  ASSUME InductiveExchange, Idle \/ Timeout \/ Select \/ EndOfTurn, UNCHANGED <<parserVars, method>>
  PROVE  InductiveExchange'
<1>1. TypeOKExchange
  BY DEF InductiveExchange
<1>2. /\ UNCHANGED <<socketVars, finished>>
      /\ step \in {"select", "relay"} /\ step' \in {"select", "relay", "thrown", "returned"}
      /\ step' = "returned" => finished # {}
      /\ ready' \subseteq End /\ timeLeft' \in 0 .. IdleBudget
  <2>1. timeLeft \in 0 .. IdleBudget /\ ready \subseteq End /\ IdleBudget \in Nat
    BY <1>1, TunnelAssumption DEF TypeOKExchange, TypeOKTunnel
  <2>2. CASE Idle
    BY <2>1, <2>2 DEF Idle
  <2>3. CASE Timeout
    BY <2>1, <2>3 DEF Timeout, Moves
  <2>4. CASE Select
    BY <2>1, <2>4 DEF Select, Moves
  <2>5. CASE EndOfTurn
    BY <2>1, <2>5 DEF EndOfTurn, Moves
  <2> QED
    BY <2>2, <2>3, <2>4, <2>5
<1>3. Settles /\ UNCHANGED <<written, taken, put, peer>>
  BY <1>2 DEF socketVars, Settles
<1>4. TypeOKSockets' /\ TypeOKTunnel' /\ step' \in Steps /\ \A e \in End : ~Receiving(e)'
  BY <1>1, <1>2, <1>3 DEF TypeOKExchange, TypeOKSockets, TypeOKTunnel, Steps, Receiving
<1>5. \A e \in End : taken[e] <= taken'[e] /\ taken'[e] <= written[e]
  BY <1>1, <1>3 DEF InductiveExchange, InOrder, TypeOKExchange, TypeOKSockets
<1>6. (Tunnelled => \A e \in End : PassedOn(e))'
  <2>1. step' \in InTunnel => step \in InTunnel
    BY <1>2 DEF InTunnel
  <2> QED
    BY <1>3, <2>1, PassedOnLasts DEF InductiveExchange, parserVars
<1>7. Phases'
  BY <1>2, <1>3 DEF InductiveExchange, Phases, Tunnelled, InTunnel
<1> QED
  BY <1>2, <1>3, <1>4, <1>5, <1>6, <1>7, ParserRests DEF InductiveExchange

(* recv or send throws, or send ends the process.                          *)
LEMMA TransportFailsStep ==
  ASSUME InductiveExchange, NEW o \in End, TransportFails(o), UNCHANGED <<parserVars, method>>
  PROVE  InductiveExchange'
<1>1. /\ TypeOKExchange /\ BufferSize \in Nat
      /\ taken \in [End -> Nat] /\ peer \in [End -> PeerState] /\ Other(o) \in End
  BY SocketsAssumption DEF InductiveExchange, TypeOKExchange, TypeOKSockets, Other, End
<1>2. /\ step = "relay" /\ step' \in {"thrown", "dead"}
      /\ UNCHANGED <<written, put, ready, finished, timeLeft>>
  BY DEF TransportFails, Moves
<1>3. peer' \in [End -> PeerState] /\ Settles
  BY <1>1 DEF TransportFails, RecvFails, SendFails, Settles, PeerState
<1>4. /\ taken' \in [End -> Nat]
      /\ \A e \in End : taken[e] <= taken'[e] /\ taken'[e] <= written[e]
  <2>1. \A e \in End : taken[e] <= written[e] /\ written[e] \in Nat
    BY <1>1 DEF InductiveExchange, InOrder, TypeOKExchange, TypeOKSockets
  <2>2. CASE UNCHANGED taken
    BY <1>1, <2>1, <2>2
  <2>3. CASE \E n \in 1 .. BufferSize : Recv(o, n)
    BY <1>1, <2>1, <2>3 DEF Recv
  <2> QED
    BY <2>2, <2>3 DEF TransportFails
<1>5. TypeOKSockets' /\ TypeOKTunnel' /\ step' \in Steps /\ \A e \in End : ~Receiving(e)'
  BY <1>1, <1>2, <1>3, <1>4 DEF TypeOKExchange, TypeOKSockets, TypeOKTunnel, Steps, Receiving
<1>6. ASSUME Tunnelled', NEW e \in End PROVE PassedOn(e)'
  <2>1. PassedOn(e)
    BY <1>2, <1>6 DEF InductiveExchange, Tunnelled
  <2>2. /\ Relayed(Other(e))' = Relayed(Other(e)) /\ Base(e)' = Base(e)
        /\ Base(e) \in Nat /\ Len(Relayed(Other(e))) \in Nat
    <3>1. Base(e)' = Base(e) /\ Base(e) \in Nat
      BY <1>1, MessageType DEF Base, Length, parserVars, TypeOKExchange
    <3>2. Relayed(Other(e))' = Relayed(Other(e))
      BY <1>2 DEF Relayed, Other
    <3>3. Len(Relayed(Other(e))) \in Nat
      BY <1>1, <1>2, <1>6 DEF TypeOKExchange, TypeOKSockets, Relayed, Other, End, Tunnelled
    <3> QED
      BY <3>1, <3>2, <3>3
  <2>3. taken[e] <= taken'[e] /\ taken[e] \in Nat /\ taken'[e] \in Nat
    BY <1>1, <1>4
  <2> DEFINE r == Relayed(Other(e))
  <2>4. r = Bytes(e, Base(e) + 1, Base(e) + Len(r)) /\ Base(e) + Len(r) <= taken'[e]
    BY <2>1, <2>2, <2>3 DEF PassedOn
  <2>5. step' \notin InTunnel
    BY <1>2 DEF InTunnel
  <2> QED
    BY <2>2, <2>4, <2>5 DEF PassedOn, Bytes, Other
<1>7. Phases'
  BY <1>2 DEF InductiveExchange, Phases, Tunnelled, InTunnel
<1> QED
  BY <1>2, <1>3, <1>4, <1>5, <1>6, <1>7, ParserRests DEF InductiveExchange


(* What Transport takes from o reaches the other end, or is lost with it.  *)
LEMMA TransportFacts ==
  ASSUME InductiveExchange, NEW o \in End, Transport(o)
  PROVE  \E n \in Nat :
           /\ taken' = [taken EXCEPT ![o] = @ + n] /\ taken[o] + n <= written[o]
           /\ finished' = IF n = 0 THEN finished \cup {o} ELSE finished
           /\ n = 0 => ReadToTheEnd(o)'
           /\ step = "relay" /\ step' = "relay" /\ UNCHANGED written
           /\ TypeOKSockets' /\ TypeOKTunnel' /\ Settles
           /\ \/ /\ peer[Other(o)] \in {"open", "shut"}
                 /\ put' = [put EXCEPT ![Other(o)] = @ \o Bytes(o, taken[o] + 1, taken[o] + n)]
              \/ UNCHANGED put /\ (n = 0 \/ peer'[Other(o)] \notin {"open", "shut"})
<1>1. PICK n \in 0 .. BufferSize :
        /\ Recv(o, n)
        /\ IF n = 0 THEN UNCHANGED <<put, peer>>
           ELSE Send(Other(o), Bytes(o, taken[o] + 1, taken[o] + n))
        /\ finished' = IF n = 0 THEN finished \cup {o} ELSE finished
  BY DEF Transport
<1>2. /\ TypeOKSockets /\ TypeOKTunnel /\ BufferSize \in Nat /\ Other(o) \in End
      /\ taken \in [End -> Nat] /\ peer \in [End -> PeerState] /\ written \in [End -> Nat]
      /\ put \in [End -> Seq(Token)]
  BY SocketsAssumption DEF InductiveExchange, TypeOKExchange, TypeOKSockets, Other, End
<1>3. /\ step = "relay" /\ step' = "relay"
      /\ ready' = ready \ {o} /\ UNCHANGED <<written, timeLeft>>
  BY DEF Transport
<1>4. /\ n \in Nat /\ taken' = [taken EXCEPT ![o] = @ + n] /\ taken[o] + n <= written[o]
      /\ taken' \in [End -> Nat]
  BY <1>1, <1>2 DEF Recv
<1>5. TypeOKTunnel'
  BY <1>1, <1>2, <1>3 DEF TypeOKTunnel
<1>6. Bytes(o, taken[o] + 1, taken[o] + n) \in Seq(Token)
  <2>1. Bytes(o, taken[o] + 1, taken[o] + n) \in Seq({o} \X Nat)
    BY <1>2, <1>4, BytesShape
  <2> QED
    BY <2>1 DEF Token
<1>7. /\ peer' \in [End -> PeerState] /\ put' \in [End -> Seq(Token)] /\ Settles
      /\ \/ /\ peer[Other(o)] \in {"open", "shut"}
            /\ put' = [put EXCEPT ![Other(o)] = @ \o Bytes(o, taken[o] + 1, taken[o] + n)]
         \/ UNCHANGED put /\ (n = 0 \/ peer'[Other(o)] \notin {"open", "shut"})
      /\ peer'[o] = peer[o]
  <2>1. CASE n = 0
    BY <1>1, <1>2, <2>1 DEF Settles
  <2>2. CASE /\ n # 0 /\ peer[Other(o)] \in {"open", "shut"} /\ UNCHANGED peer
             /\ put' = [put EXCEPT ![Other(o)] = @ \o Bytes(o, taken[o] + 1, taken[o] + n)]
    <3>1. put[Other(o)] \o Bytes(o, taken[o] + 1, taken[o] + n) \in Seq(Token)
      BY <1>2, <1>6
    <3>2. put' \in [End -> Seq(Token)]
      BY <1>2, <2>2, <3>1
    <3> QED
      BY <1>2, <2>2, <3>2 DEF Settles
  <2>3. CASE /\ n # 0 /\ peer[Other(o)] = "closed" /\ UNCHANGED put
             /\ \E p \in {"closed", "broken"} : peer' = [peer EXCEPT ![Other(o)] = p]
    BY <1>2, <2>3 DEF Settles, PeerState, Other, End
  <2> QED
    BY <1>1, <2>1, <2>2, <2>3 DEF Send
<1>8. TypeOKSockets'
  BY <1>2, <1>3, <1>4, <1>7 DEF TypeOKSockets
<1>9. n = 0 => ReadToTheEnd(o)'
  BY <1>1, <1>2, <1>3, <1>4, <1>7 DEF Recv, Unread, ReadToTheEnd
<1> QED
  BY <1>1, <1>3, <1>4, <1>5, <1>7, <1>8, <1>9

LEMMA TransportStep ==
  ASSUME InductiveExchange, NEW o \in End, Transport(o), UNCHANGED <<parserVars, method>>
  PROVE  InductiveExchange'
<1>1. PICK n \in Nat :
           /\ taken' = [taken EXCEPT ![o] = @ + n] /\ taken[o] + n <= written[o]
           /\ finished' = IF n = 0 THEN finished \cup {o} ELSE finished
           /\ n = 0 => ReadToTheEnd(o)'
           /\ step = "relay" /\ step' = "relay" /\ UNCHANGED written
           /\ TypeOKSockets' /\ TypeOKTunnel' /\ Settles
           /\ \/ /\ peer[Other(o)] \in {"open", "shut"}
                 /\ put' = [put EXCEPT ![Other(o)] = @ \o Bytes(o, taken[o] + 1, taken[o] + n)]
              \/ UNCHANGED put /\ (n = 0 \/ peer'[Other(o)] \notin {"open", "shut"})
  BY TransportFacts
<1>2. /\ TypeOKExchange /\ Other(o) \in End /\ Other(o) # o /\ End = {o, Other(o)}
      /\ taken \in [End -> Nat] /\ written \in [End -> Nat] /\ put \in [End -> Seq(Token)]
      /\ taken[o] \in Nat
  BY DEF InductiveExchange, TypeOKExchange, TypeOKSockets, Other, End
<1>3. \A e \in End : taken[e] <= taken'[e] /\ taken'[e] <= written[e]
  BY <1>1, <1>2 DEF InductiveExchange, InOrder
<1>4. step' \in Steps /\ \A e \in End : ~Receiving(e)'
  BY <1>1 DEF Steps, Receiving
<1>5. \A e \in finished' : e \in finished \/ ReadToTheEnd(e)'
  BY <1>1
<1> DEFINE b == Bytes(o, taken[o] + 1, taken[o] + n)
<1>6. b \in Seq(Token) /\ Len(b) = n /\ (n # 0 => b[1][1] = o)
  <2>1. b \in Seq({o} \X Nat) /\ Len(b) = n
    BY <1>2, BytesShape
  <2>2. n # 0 => b[1][1] = o
    BY <1>2 DEF Bytes
  <2> QED
    BY <2>1, <2>2 DEF Token
<1>7. ASSUME Tunnelled'
      PROVE  Tunnelled
  <2>1. CASE put'["client"] = put["client"]
    BY <1>7, <2>1 DEF Tunnelled
  <2>2. CASE Other(o) = "client" /\ put' = [put EXCEPT !["client"] = @ \o b]
    <3>1. put'["client"] = put["client"] \o b /\ put["client"] \in Seq(Token)
      BY <1>2, <2>2
    <3>2. CASE put["client"] # << >>
      <4>1. put'["client"][1] = put["client"][1]
        BY <1>6, <3>1, <3>2, FirstOfLonger
      <4> QED
        BY <1>7, <3>2, <4>1 DEF Tunnelled
    <3>3. CASE put["client"] = << >>
      <4>1. put'["client"] = b
        BY <1>6, <3>1, <3>3
      <4>2. n # 0 /\ b[1][1] = "established"
        BY <1>6, <1>7, <4>1 DEF Tunnelled
      <4> QED
        BY <1>6, <4>2 DEF End
    <3> QED
      BY <3>2, <3>3
  <2>3. "client" = o \/ "client" = Other(o)
    BY DEF Other, End
  <2> QED
    BY <1>1, <1>2, <2>1, <2>2, <2>3
<1>8. ASSUME Tunnelled', NEW e \in End PROVE PassedOn(e)'
  <2>1. PassedOn(e) /\ Tunnelled
    BY <1>7, <1>8 DEF InductiveExchange
  <2>2. Base(e)' = Base(e) /\ Base(e) \in Nat
    BY <1>2, MessageType DEF Base, Length, parserVars, TypeOKExchange
  <2>3. Relayed(Other(e)) \in Seq(Token)
    BY <1>2, <2>1 DEF Tunnelled, Relayed, Other, End
  <2> DEFINE r == Relayed(Other(e))
             k == Len(r)
  <2>4. k \in Nat
    BY <2>3
  <2>5. r = Bytes(e, Base(e) + 1, Base(e) + k) /\ Base(e) + k <= taken[e]
    BY <2>1 DEF PassedOn
  <2>6. taken[e] \in Nat /\ taken'[e] \in Nat /\ taken[e] <= taken'[e]
    BY <1>1, <1>2, <1>3
  <2>7. CASE put'[Other(e)] = put[Other(e)]
             /\ (e # o \/ n = 0 \/ peer'[Other(e)] \notin {"open", "shut"})
    <3>1. Relayed(Other(e))' = r
      BY <2>7 DEF Relayed, Other
    <3>2. (step' \in InTunnel /\ peer'[Other(e)] \in {"open", "shut"}) => Base(e) + k = taken'[e]
      <4> SUFFICES ASSUME peer'[Other(e)] \in {"open", "shut"} PROVE Base(e) + k = taken'[e]
        OBVIOUS
      <4>1. taken'[e] = taken[e]
        BY <1>1, <1>2, <2>7
      <4>2. peer[Other(e)] \in {"open", "shut"} /\ step \in InTunnel
        BY <1>1 DEF Settles, Other, End, InTunnel
      <4> QED
        BY <2>1, <4>1, <4>2 DEF PassedOn
    <3>3. Base(e) + k <= taken'[e]
      BY <2>2, <2>4, <2>5, <2>6
    <3> QED
      BY <2>2, <2>5, <3>1, <3>2, <3>3 DEF PassedOn, Bytes, Other
  <2>8. CASE e = o /\ peer[Other(o)] \in {"open", "shut"} /\ put' = [put EXCEPT ![Other(o)] = @ \o b]
    <3>1. put'[Other(e)] = put[Other(e)] \o b
      BY <1>2, <2>8
    <3>2. Relayed(Other(e))' = r \o b
      <4>1. CASE Other(e) = "client"
        <5>1. put["client"] \in Seq(Token) /\ put["client"] # << >>
          BY <1>2, <2>1 DEF Tunnelled, End
        <5>2. put'["client"] = put["client"] \o b
          BY <3>1, <4>1
        <5>3. Tail(put["client"] \o b) = Tail(put["client"]) \o b
          BY <1>6, <5>1, TailOfLonger
        <5> QED
          BY <4>1, <5>2, <5>3 DEF Relayed
      <4>2. CASE Other(e) # "client"
        BY <3>1, <4>2 DEF Relayed, Other
      <4> QED
        BY <4>1, <4>2
    <3>3. Base(e) + k = taken[e]
      BY <1>1, <2>1, <2>8 DEF PassedOn, InTunnel
    <3>4. /\ r \o b = Bytes(e, Base(e) + 1, Base(e) + Len(r \o b))
          /\ Base(e) + Len(r \o b) = taken[e] + n
      <4> DEFINE c == Base(e)
                 j == taken[e]
      <4>1. c \in Nat /\ j \in Nat /\ k \in Nat /\ c + k = j
        BY <2>2, <2>4, <2>6, <3>3
      <4>2. r = Bytes(e, c + 1, j) /\ b = Bytes(e, j + 1, j + n)
        BY <2>5, <2>8, <3>3
      <4>3. k = Len(r)
        OBVIOUS
      <4> HIDE DEF r, b, c, j, k
      <4> DEFINE i == c + 1
                 l == j + n
      <4>4. /\ i \in Nat /\ l \in Nat /\ i <= j + 1 /\ j <= l
            /\ l - i + 1 = k + n /\ l = c + (k + n)
        BY <4>1
      <4>5. r = Bytes(e, i, j) /\ b = Bytes(e, j + 1, l) /\ i = c + 1 /\ l = j + n
        BY <4>2
      <4> HIDE DEF i, l
      <4>6. r \o b = Bytes(e, i, l) /\ Len(Bytes(e, i, l)) = l - i + 1
        <5>1. i \in Nat /\ j \in Nat /\ l \in Nat /\ i <= j + 1 /\ j <= l
          BY <4>1, <4>4
        <5>2. /\ Bytes(e, i, j) \o Bytes(e, j + 1, l) = Bytes(e, i, l)
              /\ Len(Bytes(e, i, l)) = l - i + 1
          BY <5>1, BytesContinue, Zenon
        <5> QED
          BY <4>5, <5>2
      <4> QED
        BY <4>4, <4>5, <4>6 DEF c, j
    <3>5. taken'[e] = taken[e] + n
      BY <1>1, <1>2, <2>8
    <3> HIDE DEF r, k, b
    <3>6. LET q == Relayed(Other(e))'
          IN  q = Bytes(e, Base(e) + 1, Base(e) + Len(q)) /\ Base(e) + Len(q) = taken'[e]
      BY <3>2, <3>4, <3>5
    <3> QED
      BY <2>2, <2>6, <3>6 DEF PassedOn, Bytes, Other
  <2> QED
    BY <1>1, <1>2, <2>7, <2>8 DEF Other, End
<1>9. Phases'
  BY <1>1, <1>7 DEF InductiveExchange, Phases, InTunnel
<1> QED
  BY <1>1, <1>3, <1>4, <1>5, <1>8, <1>9, ParserRests DEF InductiveExchange


LEMMA InductiveExchangeStep ==
  ASSUME InductiveExchange, [NextExchange]_exchangeVars
  PROVE  InductiveExchange'
<1>1. CASE UNCHANGED exchangeVars
  <2>1. /\ UNCHANGED <<socketVars, parserVars, tunnelVars, method>>
        /\ UNCHANGED <<written, taken, put, peer, message, consumed, verdict, step, finished>>
    BY <1>1 DEF exchangeVars, socketVars, parserVars, tunnelVars
  <2>2. UNCHANGED <<TypeOKExchange, Phases, Tunnelled, NeverWaitsForCompleteMessage>>
    BY <2>1 DEF TypeOKExchange, TypeOKSockets, TypeOKParser, TypeOKTunnel, Phases, Tunnelled,
      NeverWaitsForCompleteMessage, Receiving, Acceptable, Length, socketVars, parserVars, tunnelVars
  <2>3. \A e \in End : /\ InOrder(e)' = InOrder(e) /\ VerdictRight(e)' = VerdictRight(e)
                       /\ PassedOn(e)' = PassedOn(e) /\ ReadToTheEnd(e)' = ReadToTheEnd(e)
    BY <2>1 DEF InOrder, VerdictRight, PassedOn, ReadToTheEnd, Acceptable, Length, Relayed, Base,
      Bytes, Other
  <2> QED
    BY <2>1, <2>2, <2>3 DEF InductiveExchange, TypeOKExchange, TypeOKTunnel
<1>2. CASE ReceiveRequest
  BY <1>2, ReceiveRequestStep
<1>3. CASE Connect
  BY <1>3, ConnectStep
<1>4. CASE SendRequest
  BY <1>4, SendRequestStep
<1>5. CASE SendResponse
  BY <1>5, SendResponseStep
<1>6. CASE SendErrorStatus
  BY <1>6, SendErrorStatusStep
<1>7. CASE Establish
  BY <1>7, EstablishStep
<1>8. CASE Relaying
  <2>1. UNCHANGED <<parserVars, method>>
    BY <1>8 DEF Relaying
  <2>2. CASE Idle \/ Timeout \/ Select \/ EndOfTurn
    BY <2>1, <2>2, WaitingStep
  <2>3. CASE \E e \in End : Relay(e)
    BY <2>1, <2>3, TransportStep, TransportFailsStep DEF Relay
  <2> QED
    BY <1>8, <2>2, <2>3 DEF Relaying, TunnelStep
<1>9. CASE ReceiveResponse
  BY <1>9, ReceiveResponseStep
<1>10. CASE Peers
  BY <1>10, PeersStep DEF Peers
<1> QED
  BY <1>1, <1>2, <1>3, <1>4, <1>5, <1>6, <1>7, <1>8, <1>9, <1>10 DEF NextExchange, Handle, Over

(* What is true between any two steps of a connection: it was received     *)
(* and passed on as far as its step says.                                  *)
THEOREM ExchangeInvariant == SpecExchange => []InductiveExchange
<1>1. InductiveExchange /\ [NextExchange]_exchangeVars => InductiveExchange'
  BY InductiveExchangeStep
<1> QED
  BY InitInductiveExchange, <1>1, PTL DEF SpecExchange

-----------------------------------------------------------------------------
(* The theorems.                                                           *)

(* The variables keep their types: no length that recv reports as an error *)
(* is counted, and nothing but bytes of the other end and messages of the  *)
(* proxy is sent (TcpConnector.cpp:90-116).                                *)
THEOREM TypeCorrectnessExchange == SpecExchange => []TypeOKExchange
<1>1. InductiveExchange => TypeOKExchange
  BY DEF InductiveExchange
<1> QED
  BY <1>1, ExchangeInvariant, PTL

(* However the bytes are cut, what is accepted is exactly the message, and *)
(* what is refused deserves it (HttpParser.cpp:26-51, 87-111).             *)
THEOREM VerdictsIgnoreCuts == SpecExchange => []VerdictIgnoresCuts
<1>1. InductiveExchange => VerdictIgnoresCuts
  BY DEF InductiveExchange, VerdictIgnoresCuts, VerdictRight
<1> QED
  BY <1>1, ExchangeInvariant, PTL

(* The handler never waits for more of a message that is there             *)
(* (HttpParser.cpp:30-34).                                                 *)
THEOREM CompleteMessagesAreTaken == SpecExchange => []NeverWaitsForCompleteMessage
<1>1. InductiveExchange => NeverWaitsForCompleteMessage
  BY DEF InductiveExchange
<1> QED
  BY <1>1, ExchangeInvariant, PTL

(* A tunnel passes on every byte once and in order, from the first one     *)
(* behind the request (HttpConnector.cpp:82-131).                          *)
THEOREM BytesArriveOnce == SpecExchange => []EveryByteOnce
<1>1. InductiveExchange => EveryByteOnce
  BY DEF InductiveExchange, EveryByteOnce, PassedOn
<1> QED
  BY <1>1, ExchangeInvariant, PTL

(* A tunnel that returns leaves nothing of its finished end behind         *)
(* (HttpConnector.cpp:117-122).                                            *)
THEOREM FinishedEndsAreRelayed == SpecExchange => []FinishedEndIsRelayed
<1>1. InductiveExchange => FinishedEndIsRelayed
  <2> SUFFICES ASSUME InductiveExchange, Tunnelled, step = "returned"
               PROVE  \E e \in End :
                        /\ peer[e] \in {"shut", "closed", "broken", "reset"}
                        /\ peer[Other(e)] \in {"open", "shut"} =>
                             Base(e) + Len(Relayed(Other(e))) = written[e]
    BY DEF FinishedEndIsRelayed
  <2>1. finished # {} /\ finished \subseteq End /\ peer \in [End -> PeerState]
    BY DEF InductiveExchange, Phases, Tunnelled, TypeOKExchange, TypeOKTunnel, TypeOKSockets
  <2>2. PICK e \in End : e \in finished
    BY <2>1
  <2>3. ReadToTheEnd(e) /\ PassedOn(e)
    BY <2>2 DEF InductiveExchange
  <2> QED
    BY <2>1, <2>3 DEF ReadToTheEnd, PassedOn, InTunnel, PeerState
<1> QED
  BY <1>1, ExchangeInvariant, PTL
=============================================================================

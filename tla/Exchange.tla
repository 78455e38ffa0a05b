------------------------------- MODULE Exchange -------------------------------
(***************************************************************************)
(* One connection of the proxy byte by byte: the request is received and   *)
(* parsed, the origin is connected, and then either a message goes each    *)
(* way (POST, and a GET that misses the cache) or a tunnel is established  *)
(* (CONNECT).                                                              *)
(***************************************************************************)
EXTENDS Parser, Tunnel

VARIABLE method  \* of the request

exchangeVars == <<socketVars, parserVars, tunnelVars, method>>

Steps == {"request", "connect", "send", "response", "reply", "establish", "select",
          "relay", "report", "returned", "thrown", "dead"}
Ended == {"returned", "thrown", "dead"}

TypeOKExchange ==
  /\ TypeOKSockets /\ TypeOKParser /\ TypeOKTunnel
  /\ step \in Steps
  /\ method \in {"POST", "CONNECT"}

InitExchange ==
  /\ InitSockets /\ InitParser /\ InitTunnel
  /\ step = "request"
  /\ method \in {"POST", "CONNECT"}

(* The step to which the verdict of a receive loop leads: an               *)
(* invalid_argument is reported, a runtime_error is not.                   *)
After(e, accepted) ==
  CASE verdict'[e] = "none" -> step
    [] verdict'[e] = "accepted" -> accepted
    [] verdict'[e] = "ended" /\ e = "client" -> "thrown"
    [] OTHER -> "report"

ReceiveRequest ==
  /\ step = "request"
  /\ Receive("client")
  /\ step' = After("client", "connect")
  /\ UNCHANGED <<ready, finished, timeLeft, method>>

(* initializeClientSocket; that it fails is the matter of HttpProxy.       *)
Connect ==
  /\ Moves("connect", IF method = "CONNECT" THEN "establish" ELSE "send")
  /\ peer' = [peer EXCEPT !["server"] = "open"]
  /\ UNCHANGED <<written, taken, put, parserVars, ready, finished, timeLeft, method>>

(* sendMessage passes s to e; when it throws the step is failure.          *)
Sends(e, s, from, to, failure) ==
  /\ \/ Moves(from, to) /\ Send(e, << <<s, 0>> >>)
     \/ Moves(from, failure) /\ SendFails(e) /\ UNCHANGED put
     \/ Moves(from, "dead") /\ SendKills(e) /\ UNCHANGED <<put, peer>>
  /\ UNCHANGED <<written, taken, parserVars, ready, finished, timeLeft, method>>

SendRequest == Sends("server", "request", "send", "response", "report")

ReceiveResponse ==
  /\ step = "response"
  /\ Receive("server")
  /\ step' = After("server", "reply")
  /\ UNCHANGED <<ready, finished, timeLeft, method>>

SendResponse == Sends("client", "response", "reply", "returned", "thrown")
SendErrorStatus == Sends("client", "error", "report", "thrown", "thrown")
Establish == Sends("client", "established", "establish", "select", "thrown")

Relaying == TunnelStep /\ UNCHANGED <<parserVars, method>>

Handle ==
  \/ ReceiveRequest \/ Connect \/ SendRequest
  \/ SendResponse \/ SendErrorStatus \/ Establish \/ Relaying

Peers == \E e \in End : (Write(e) \/ Leave(e)) /\ UNCHANGED <<parserVars, tunnelVars, method>>

Over == step \in Ended /\ UNCHANGED exchangeVars

NextExchange == (step \notin Ended /\ (Handle \/ ReceiveResponse \/ Peers)) \/ Over

SpecExchange == InitExchange /\ [][NextExchange]_exchangeVars

(* The thread runs; recv on the client's socket and select time out.  The  *)
(* origin sends the whole of a response, or closes.                        *)
FairSpecExchange ==
  /\ SpecExchange
  /\ WF_exchangeVars(Handle)
  /\ WF_exchangeVars(ReceiveResponse)
  /\ WF_exchangeVars(step = "response" /\ Peers)
-----------------------------------------------------------------------------
(***************************************************************************)
(* Properties.                                                             *)
(***************************************************************************)

(* A message that Beast accepts as a whole.  A response that ends with the *)
(* connection is not one.                                                  *)
Acceptable(e) ==
  message[e].valid /\ message[e].framing # "close" /\ message[e].body <= BodyLimit[e]

(* How the bytes of a message are cut into recvs does not matter: what is  *)
(* accepted is exactly the message, taken to its last byte and not         *)
(* further; and a message is refused only if it is not acceptable or its   *)
(* sender wrote behind it, stopped or left (HttpParser.cpp:26-51, 87-111). *)
VerdictIgnoresCuts ==
  \A e \in End :
    /\ verdict[e] = "accepted" => Acceptable(e) /\ consumed[e] = Length(message[e])
    /\ verdict[e] = "malformed" => ~Acceptable(e)
    /\ verdict[e] = "surplus" => written[e] > Length(message[e])
    /\ verdict[e] = "ended" => written[e] < Length(message[e]) \/ ~Acceptable(e)

Receiving(e) == step = IF e = "client" THEN "request" ELSE "response"

(* The receive loop never goes back to recv with the whole of a message in *)
(* remainParsed, where it would wait for bytes that need not come          *)
(* (HttpParser.cpp:30-34; danger_log.txt, 02/14).                          *)
NeverWaitsForCompleteMessage ==
  \A e \in End :
    (Receiving(e) /\ Acceptable(e)) => taken[e] < Length(message[e])

(* The first byte of an end that belongs to the tunnel, less one: what the *)
(* client writes behind its request does.                                  *)
Base(e) == IF e = "client" THEN Length(message[e]) ELSE 0

(* What e has been sent by the tunnel.                                     *)
Relayed(e) == IF e = "client" THEN Tail(put[e]) ELSE put[e]

Tunnelled == method = "CONNECT" /\ put["client"] # << >> /\ put["client"][1][1] = "established"

(* Through a tunnel the bytes of each end reach the other one in order,    *)
(* from the first one behind the request, none lost, doubled or sent back, *)
(* wherever receiveRequest stopped reading and whatever the other          *)
(* direction does (HttpConnector.cpp:82-131).                              *)
EveryByteOnce ==
  Tunnelled =>
    \A e \in End :
      LET r == Relayed(Other(e))
      IN  r = Bytes(e, Base(e) + 1, Base(e) + Len(r)) /\ Base(e) + Len(r) <= taken[e]

(* A tunnel that returns has relayed everything its finished end wrote, as *)
(* long as the other one was there to read it (HttpConnector.cpp:117-122). *)
FinishedEndIsRelayed ==
  (Tunnelled /\ step = "returned") =>
    \E e \in End :
      /\ peer[e] \in {"shut", "closed", "broken", "reset"}
      /\ peer[Other(e)] \in {"open", "shut"} => Base(e) + Len(Relayed(Other(e))) = written[e]

(* The tunnel of a CONNECT keeps the promise of Channel: bytes are passed  *)
(* on only while it is open, each once and in order, and it ends only when *)
(* one end has finished and was passed on, when it is idle, or when an end *)
(* is gone (HttpConnector.cpp:82-131).                                     *)
Passed(e) ==
  IF method # "CONNECT" \/ put[Other(e)] = << >> THEN << >> ELSE Relayed(Other(e))

Presence(e) ==
  CASE peer[e] = "none" -> "absent"
    [] peer[e] \in {"open", "shut"} -> peer[e]
    [] OTHER -> "gone"

State ==
  CASE step \in {"select", "relay"} -> "open"
    [] step \in Ended -> "ended"
    [] OTHER -> "waiting"

C == INSTANCE Channel WITH
  state <- State,
  presence <- [e \in End |-> Presence(e)],
  wrote <- written,
  first <- [e \in End |-> Base(e)],
  passed <- [e \in End |-> Passed(e)]

ImplementsChannel == C!Spec

(* A connection comes to its end when the origin answers or hangs up; a    *)
(* tunnel even when both ends stay silent (HttpConnector.cpp:102-128,      *)
(* danger_log.txt, 02/21).                                                 *)
ExchangeEnds == <>(step \in Ended)

(* No peer can end the process: whatever fails, it is the connection that  *)
(* ends.                                                                   *)
ProxySurvives == step # "dead"
=============================================================================

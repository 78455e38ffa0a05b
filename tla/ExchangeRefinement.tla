-------------------------- MODULE ExchangeRefinement --------------------------
(***************************************************************************)
(* That a CONNECT implements Channel, for every set of messages, every     *)
(* buffer size and every way in which the bytes are cut: a turn of the     *)
(* loop around select passes the next bytes of an end on or changes        *)
(* nothing an end can see, and the tunnel ends for Channel's reasons only. *)
(***************************************************************************)
EXTENDS ExchangeProofs

(* The abstract variables that are not variables of Exchange.              *)
Presences == [e \in End |-> Presence(e)]
Firsts    == [e \in End |-> Base(e)]
Passes    == [e \in End |-> Passed(e)]

-----------------------------------------------------------------------------
(* What the invariant of Exchange leaves open about a tunnel.              *)

(* An end that select has reported stays readable until it is read, so     *)
(* that recv does not time out within a tunnel.                            *)
ReadyHasMore == step = "relay" => \A e \in ready : Readable(e)

Connected ==
  /\ peer["client"] # "none"
  /\ step \in {"request", "connect"} => peer["server"] = "none"
  /\ step \in {"establish", "select", "relay"} => peer["server"] # "none"

(* How much has been passed on, also when the client left before it could  *)
(* be told that the tunnel is established.                                 *)
PassedIsTaken ==
  step \in {"select", "relay"} =>
    /\ method = "CONNECT"
    /\ put["client"] = << >> => peer["client"] \notin {"open", "shut"}
    /\ \A e \in End :
         /\ Base(e) + Len(Passed(e)) <= taken[e]
         /\ peer[Other(e)] \in {"open", "shut"} => Base(e) + Len(Passed(e)) = taken[e]

InductiveChannel == ReadyHasMore /\ Connected /\ PassedIsTaken

(* What each kind of step is shown to do.                                  *)
KeepsPromise == InductiveChannel' /\ [C!Next]_(C!channelVars)

-----------------------------------------------------------------------------
(* Steps as the ends see them.                                             *)

(* Nothing the proxy does makes an end leave or come back; it may only     *)
(* notice that an end has left.                                            *)
GoneFor == {"closed", "broken", "reset"}
Noticed(e) == peer'[e] = peer[e] \/ (peer[e] \in GoneFor /\ peer'[e] \in GoneFor)
EndsStay == \A e \in End : Noticed(e)

LEMMA EndsAre == "client" \in End /\ "server" \in End /\ Other("client") = "server" /\ Other("server") = "client"
BY DEF End, Other

LEMMA PresenceStays == ASSUME EndsStay PROVE \A e \in End : Presence(e)' = Presence(e)
BY DEF EndsStay, Noticed, GoneFor, Presence

LEMMA PassedStays == ASSUME UNCHANGED <<put, method>> PROVE \A e \in End : Passed(e)' = Passed(e)
BY DEF Passed, Relayed, Other

LEMMA BaseStays == ASSUME UNCHANGED message PROVE \A e \in End : Base(e)' = Base(e)
BY DEF Base, Length

LEMMA BaseType == ASSUME InductiveExchange PROVE \A e \in End : Base(e) \in Nat
BY MessageType DEF Base, InductiveExchange, TypeOKExchange

(* The ends, and what was passed on, as they were.                         *)
Same == /\ EndsStay /\ UNCHANGED <<written, message>>
        /\ \A e \in End : Passed(e)' = Passed(e)

LEMMA SameStep ==
  ASSUME Same
  PROVE  /\ State' = State => UNCHANGED C!channelVars
         /\ \A from, to : (State = from /\ State' = to) => C!Moves(from, to)
<1>1. UNCHANGED <<Presences, written, Firsts, Passes>>
  BY PresenceStays, BaseStays DEF Same, Presences, Firsts, Passes
<1> QED
  BY <1>1 DEF C!channelVars, C!Moves, Presences, Firsts, Passes

LEMMA SameDeclines ==
  ASSUME Same, State = "waiting", State' = "waiting" \/ State' = "ended"
  PROVE  [C!Next]_(C!channelVars)
<1>1. CASE State' = "waiting"
  BY <1>1, SameStep
<1>2. CASE State' = "ended"
  BY <1>2, SameStep DEF C!Decline, C!Next
<1> QED
  BY <1>1, <1>2

-----------------------------------------------------------------------------
(* The peers.                                                              *)

LEMMA WriteKeeps ==
  ASSUME InductiveExchange, InductiveChannel, NEW o \in End, Write(o),
         UNCHANGED <<parserVars, tunnelVars, method>>
  PROVE  KeepsPromise
<1>1. /\ peer[o] = "open" /\ written' = [written EXCEPT ![o] = @ + 1]
      /\ UNCHANGED <<taken, put, peer, message, step, ready, method>>
      /\ written \in [End -> Nat] /\ taken \in [End -> Nat]
  BY DEF Write, parserVars, tunnelVars, InductiveExchange, TypeOKExchange, TypeOKSockets
<1>2. /\ \A e \in End : Passed(e)' = Passed(e) /\ Presence(e)' = Presence(e) /\ Base(e)' = Base(e)
      /\ State' = State
  BY <1>1, PassedStays, BaseStays DEF Presence, State
<1>3. C!Write(o)
  BY <1>1, <1>2 DEF C!Write, Presence
<1>4. ready \subseteq End
  BY DEF InductiveExchange, TypeOKExchange, TypeOKTunnel
<1>5. \A e \in End : Readable(e) => Readable(e)'
  BY <1>1 DEF Readable, Unread
<1>6. ReadyHasMore'
  BY <1>1, <1>4, <1>5 DEF InductiveChannel, ReadyHasMore
<1>7. Connected' /\ PassedIsTaken'
  BY <1>1, <1>2 DEF InductiveChannel, Connected, PassedIsTaken, Other
<1> QED
  BY <1>3, <1>6, <1>7 DEF KeepsPromise, InductiveChannel, C!Next

LEMMA LeaveKeeps ==
  ASSUME InductiveExchange, InductiveChannel, NEW o \in End, Leave(o),
         UNCHANGED <<parserVars, tunnelVars, method>>
  PROVE  KeepsPromise
<1>1. PICK s \in {"shut", "closed", "reset", "broken"} :
        /\ peer' = [peer EXCEPT ![o] = s]
        /\ peer[o] \in {"open", "shut"} /\ (s = "shut" => peer[o] = "open")
  BY DEF Leave
<1>2. /\ UNCHANGED <<written, taken, put, message, step, ready, method>>
      /\ peer \in [End -> PeerState] /\ ready \subseteq End
  BY DEF Leave, parserVars, tunnelVars, InductiveExchange, TypeOKExchange, TypeOKSockets, TypeOKTunnel
<1>3. /\ \A e \in End : Passed(e)' = Passed(e) /\ Base(e)' = Base(e)
      /\ State' = State
  BY <1>2, PassedStays, BaseStays DEF State
<1>4. Presence(o) \in {"open", "shut"} /\ Presence(o)' \in C!Later[Presence(o)]
  BY <1>1, <1>2 DEF Presence, C!Later
<1>5. Presences' = [Presences EXCEPT ![o] = Presence(o)']
  BY <1>1, <1>2 DEF Presences, Presence
<1>6. C!Settle(o)
  BY <1>2, <1>3, <1>4, <1>5 DEF C!Settle, Presences
<1>7. ReadyHasMore'
  BY <1>1, <1>2 DEF InductiveChannel, ReadyHasMore, Readable, Unread
<1>8. Connected'
  BY <1>1, <1>2, EndsAre DEF InductiveChannel, Connected
<1>9. \A e \in End : peer'[e] \in {"open", "shut"} => peer[e] \in {"open", "shut"}
  BY <1>1, <1>2
<1>10. PassedIsTaken'
  BY <1>2, <1>3, <1>9, EndsAre DEF InductiveChannel, PassedIsTaken, End
<1> QED
  BY <1>6, <1>7, <1>8, <1>10 DEF KeepsPromise, InductiveChannel, C!Next

-----------------------------------------------------------------------------
(* Before the tunnel.                                                      *)

LEMMA ReceiveNotices ==
  ASSUME InductiveExchange, NEW e \in End, Receive(e)
  PROVE  EndsStay /\ UNCHANGED <<written, put, message>>
<1>1. peer \in [End -> PeerState]
  BY DEF InductiveExchange, TypeOKExchange, TypeOKSockets
<1> QED
  BY <1>1 DEF Receive, RecvFails, EndsStay, Noticed, GoneFor

LEMMA SendsNotices ==
  ASSUME InductiveExchange, NEW e \in End, NEW s, NEW from, NEW to, NEW failure,
         Sends(e, s, from, to, failure)
  PROVE  /\ EndsStay /\ UNCHANGED <<written, taken, message, ready, method>>
         /\ step = from /\ step' \in {to, failure, "dead"}
         /\ UNCHANGED put \/ put' = [put EXCEPT ![e] = @ \o << <<s, 0>> >>]
         /\ step' = to => \/ put' = [put EXCEPT ![e] = @ \o << <<s, 0>> >>]
                          \/ peer'[e] \in GoneFor
<1>1. peer \in [End -> PeerState]
  BY DEF InductiveExchange, TypeOKExchange, TypeOKSockets
<1> QED
  BY <1>1 DEF Sends, Send, SendFails, SendKills, Moves, EndsStay, Noticed, GoneFor, parserVars

LEMMA OneIsNotNone == ASSUME NEW x PROVE << x >> # << >>
OBVIOUS

(* Outside the loop of a tunnel only Connected is left of the invariant.   *)
LEMMA OutsideTunnel ==
  ASSUME EndsStay, InductiveChannel, step' \notin {"select", "relay"},
         step' \in {"request", "connect"} => step \in {"request", "connect"},
         step' = "establish" => step = "establish"
  PROVE  InductiveChannel'
BY EndsAre DEF InductiveChannel, ReadyHasMore, Connected, PassedIsTaken, EndsStay, Noticed, GoneFor

LEMMA ReceiveRequestKeeps ==
  ASSUME InductiveExchange, InductiveChannel, ReceiveRequest
  PROVE  KeepsPromise
<1>1. /\ step = "request" /\ step' \in {"request", "connect", "thrown", "report"}
      /\ UNCHANGED method
  BY DEF ReceiveRequest, After
<1>2. EndsStay /\ UNCHANGED <<written, put, message>>
  BY ReceiveNotices, EndsAre DEF ReceiveRequest
<1>3. Same
  BY <1>1, <1>2, PassedStays DEF Same
<1>4. [C!Next]_(C!channelVars)
  BY <1>1, <1>3, SameDeclines DEF State, Ended
<1> QED
  BY <1>1, <1>2, <1>4, OutsideTunnel DEF KeepsPromise

LEMMA ReceiveResponseKeeps ==
  ASSUME InductiveExchange, InductiveChannel, ReceiveResponse
  PROVE  KeepsPromise
<1>1. /\ step = "response" /\ step' \in {"response", "reply", "thrown", "report"}
      /\ UNCHANGED method
  BY DEF ReceiveResponse, After
<1>2. EndsStay /\ UNCHANGED <<written, put, message>>
  BY ReceiveNotices, EndsAre DEF ReceiveResponse
<1>3. Same
  BY <1>1, <1>2, PassedStays DEF Same
<1>4. [C!Next]_(C!channelVars)
  BY <1>1, <1>3, SameDeclines DEF State, Ended
<1> QED
  BY <1>1, <1>2, <1>4, OutsideTunnel DEF KeepsPromise

LEMMA ConnectKeeps ==
  ASSUME InductiveExchange, InductiveChannel, Connect
  PROVE  KeepsPromise
<1>1. /\ step = "connect" /\ step' \in {"establish", "send"}
      /\ peer' = [peer EXCEPT !["server"] = "open"] /\ peer["server"] = "none"
      /\ peer \in [End -> PeerState]
      /\ UNCHANGED <<written, put, method, message>>
  BY DEF Connect, Moves, parserVars, InductiveChannel, Connected, InductiveExchange, TypeOKExchange,
         TypeOKSockets
<1>2. Presences' = [Presences EXCEPT !["server"] = "open"] /\ Presence("server") = "absent"
  BY <1>1, EndsAre DEF Presences, Presence
<1>3. State' = State /\ \A e \in End : Passed(e)' = Passed(e) /\ Base(e)' = Base(e)
  BY <1>1, PassedStays, BaseStays DEF State, Ended
<1>4. C!Settle("server")
  <2>1. "open" \in C!Later["absent"]
    BY DEF C!Later
  <2>2. Presences["server"] = "absent"
    BY <1>2, EndsAre DEF Presences
  <2> QED
    BY <1>1, <1>2, <1>3, <2>1, <2>2 DEF C!Settle, Presences
<1>5. InductiveChannel'
  BY <1>1, EndsAre DEF InductiveChannel, ReadyHasMore, Connected, PassedIsTaken
<1> QED
  BY <1>4, <1>5, EndsAre DEF KeepsPromise, C!Next

(* A message of a POST is none of a tunnel's.                              *)
LEMMA NothingPassed ==
  ASSUME method # "CONNECT", UNCHANGED method
  PROVE  \A e \in End : Passed(e)' = Passed(e)
BY DEF Passed

LEMMA SendRequestKeeps ==
  ASSUME InductiveExchange, InductiveChannel, SendRequest
  PROVE  KeepsPromise
<1>1. /\ EndsStay /\ UNCHANGED <<written, message, method>>
      /\ step = "send" /\ step' \in {"response", "report", "dead"}
  BY SendsNotices, EndsAre DEF SendRequest
<1>2. Same
  BY <1>1, NothingPassed DEF Same, InductiveExchange, Phases
<1>3. [C!Next]_(C!channelVars)
  BY <1>1, <1>2, SameDeclines DEF State, Ended
<1> QED
  BY <1>1, <1>3, OutsideTunnel DEF KeepsPromise

LEMMA SendResponseKeeps ==
  ASSUME InductiveExchange, InductiveChannel, SendResponse
  PROVE  KeepsPromise
<1>1. /\ EndsStay /\ UNCHANGED <<written, message, method>>
      /\ step = "reply" /\ step' \in {"returned", "thrown", "dead"}
  BY SendsNotices, EndsAre DEF SendResponse
<1>2. Same
  BY <1>1, NothingPassed DEF Same, InductiveExchange, Phases
<1>3. [C!Next]_(C!channelVars)
  BY <1>1, <1>2, SameDeclines DEF State, Ended
<1> QED
  BY <1>1, <1>3, OutsideTunnel DEF KeepsPromise

(* The first message of the proxy to the client is not a tunnel's either.  *)
LEMMA FirstToClient ==
  ASSUME InductiveExchange, UNCHANGED method, NEW s, put["client"] = << >>,
         UNCHANGED put \/ put' = [put EXCEPT !["client"] = @ \o << <<s, 0>> >>]
  PROVE  \A e \in End : Passed(e)' = Passed(e)
<1>1. CASE UNCHANGED put
  BY <1>1, PassedStays
<1>2. CASE put' = [put EXCEPT !["client"] = @ \o << <<s, 0>> >>]
  <2>1. put'["server"] = put["server"] /\ put'["client"] = << <<s, 0>> >>
    BY <1>2, EndsAre DEF InductiveExchange, TypeOKExchange, TypeOKSockets
  <2>2. Tail(put'["client"]) = << >>
    BY <2>1
  <2>3. Passed("client")' = Passed("client")
    BY <2>1, EndsAre DEF Passed, Relayed
  <2>4. Passed("server")' = << >> /\ Passed("server") = << >>
    BY <2>1, <2>2, EndsAre DEF Passed, Relayed
  <2> QED
    BY <2>3, <2>4 DEF End
<1> QED
  BY <1>1, <1>2

LEMMA SendErrorStatusKeeps ==
  ASSUME InductiveExchange, InductiveChannel, SendErrorStatus
  PROVE  KeepsPromise
<1>1. /\ EndsStay /\ UNCHANGED <<written, message, method>>
      /\ step = "report" /\ step' \in {"thrown", "dead"}
      /\ UNCHANGED put \/ put' = [put EXCEPT !["client"] = @ \o << <<"error", 0>> >>]
  BY SendsNotices, EndsAre DEF SendErrorStatus
<1>2. method = "CONNECT" => put["client"] = << >>
  BY <1>1 DEF InductiveExchange, Phases
<1>3. Same
  BY <1>1, <1>2, NothingPassed, FirstToClient DEF Same
<1>4. [C!Next]_(C!channelVars)
  BY <1>1, <1>3, SameDeclines DEF State, Ended
<1> QED
  BY <1>1, <1>4, OutsideTunnel DEF KeepsPromise

LEMMA EstablishKeeps ==
  ASSUME InductiveExchange, InductiveChannel, Establish
  PROVE  KeepsPromise
<1>1. /\ EndsStay /\ UNCHANGED <<written, taken, message, method>>
      /\ step = "establish" /\ step' \in {"select", "thrown", "dead"}
      /\ UNCHANGED put \/ put' = [put EXCEPT !["client"] = @ \o << <<"established", 0>> >>]
      /\ step' = "select" => \/ put' = [put EXCEPT !["client"] = @ \o << <<"established", 0>> >>]
                             \/ peer'["client"] \in GoneFor
  BY SendsNotices, EndsAre DEF Establish
<1>2. /\ put["client"] = << >> /\ put["server"] = << >> /\ method = "CONNECT"
      /\ taken["server"] = 0 /\ taken["client"] = Length(message["client"])
      /\ peer["client"] # "none" /\ peer["server"] # "none"
      /\ put \in [End -> Seq(Token)] /\ \A e \in End : taken[e] <= written[e]
  BY <1>1 DEF InductiveExchange, Phases, InductiveChannel, Connected, InOrder, TypeOKExchange,
              TypeOKSockets
<1>3. \A e \in End : Passed(e)' = Passed(e)
  BY <1>1, <1>2, FirstToClient
<1>4. \A e \in End : Passed(e) = << >> /\ Base(e) = taken[e] /\ taken[e] \in Nat
  BY <1>2, BaseType DEF Passed, Relayed, Other, Base, End
<1>5. Same
  BY <1>1, <1>3 DEF Same
<1>6. CASE step' = "select"
  <2>1. C!Moves("waiting", "open")
    BY <1>1, <1>5, <1>6, SameStep DEF State, Ended
  <2>2. \A e \in End : Presence(e) # "absent" /\ Base(e) <= written[e]
    BY <1>2, <1>4 DEF Presence, End
  <2>3. C!Open
    BY <2>1, <2>2 DEF C!Open
  <2>4. \A e \in End : Base(e)' + Len(Passed(e)') = taken'[e]
    BY <1>1, <1>3, <1>4, BaseStays
  <2>5. put'["client"] = << >> => peer'["client"] \notin {"open", "shut"}
    <3>1. CASE peer'["client"] \in GoneFor
      BY <3>1 DEF GoneFor
    <3>2. CASE put' = [put EXCEPT !["client"] = @ \o << <<"established", 0>> >>]
      <4>1. put'["client"] = << <<"established", 0>> >>
        BY <1>2, <3>2, EndsAre
      <4>2. put'["client"] # << >>
        BY <4>1, OneIsNotNone, Zenon
      <4> QED
        BY <4>2
    <3> QED
      BY <1>1, <1>6, <3>1, <3>2
  <2>6. Connected'
    BY <1>1, <1>2, <1>6, EndsAre DEF Connected, EndsStay, Noticed, GoneFor
  <2>7. PassedIsTaken' /\ ReadyHasMore'
    BY <1>1, <1>2, <1>4, <1>6, <2>4, <2>5 DEF PassedIsTaken, ReadyHasMore
  <2> QED
    BY <2>3, <2>6, <2>7 DEF KeepsPromise, InductiveChannel, C!Next
<1>7. CASE step' # "select"
  <2>1. [C!Next]_(C!channelVars)
    BY <1>1, <1>5, <1>7, SameDeclines DEF State, Ended
  <2> QED
    BY <1>1, <1>7, <2>1, OutsideTunnel DEF KeepsPromise
<1> QED
  BY <1>6, <1>7

-----------------------------------------------------------------------------
(* The tunnel.                                                             *)

(* What the invariants say of an end while the tunnel is open.             *)
LEMMA OpenTunnel ==
  ASSUME InductiveExchange, InductiveChannel, step \in {"select", "relay"}, NEW e \in End
  PROVE  /\ Base(e) \in Nat /\ Len(Passed(e)) \in Nat
         /\ taken[e] \in Nat /\ written[e] \in Nat /\ taken[e] <= written[e]
         /\ C!Heard(e) => Base(e) + Len(Passed(e)) = taken[e]
         /\ (C!Heard(e) /\ taken[e] = written[e]) => C!Through(e)
<1>1. put \in [End -> Seq(Token)] /\ peer \in [End -> PeerState] /\ peer[Other(e)] # "none"
  BY DEF InductiveExchange, TypeOKExchange, TypeOKSockets, InductiveChannel, Connected, Other, End
<1>2. Len(Passed(e)) \in Nat
  BY <1>1 DEF Passed, Relayed, Other, End
<1>3. Base(e) \in Nat /\ taken[e] \in Nat /\ written[e] \in Nat /\ taken[e] <= written[e]
  BY BaseType DEF InductiveExchange, TypeOKExchange, TypeOKSockets, InOrder
<1>4. C!Heard(e) => peer[Other(e)] \in {"open", "shut"}
  <2>1. Other(e) \in End \ {e} /\ Presences[Other(e)] = Presence(Other(e))
    BY DEF Other, End, Presences
  <2>2. C!Heard(e) => Presence(Other(e)) # "gone"
    BY <2>1 DEF C!Heard, Presences
  <2> QED
    BY <1>1, <2>2 DEF Presence
<1>5. C!Heard(e) => Base(e) + Len(Passed(e)) = taken[e]
  BY <1>4 DEF InductiveChannel, PassedIsTaken
<1> QED
  BY <1>2, <1>3, <1>5 DEF C!Through

LEMMA ThroughWhenRead ==
  ASSUME InductiveExchange, InductiveChannel, step \in {"select", "relay"}, NEW e \in End,
         taken[e] = written[e]
  PROVE  C!Through(e)
<1>1. CASE C!Heard(e)
  BY <1>1, OpenTunnel
<1>2. CASE ~C!Heard(e)
  BY <1>2 DEF C!Through
<1> QED
  BY <1>1, <1>2

(* select and the ends of the turns.                                       *)
LEMMA WaitingKeeps ==
  ASSUME InductiveExchange, InductiveChannel, Idle \/ Timeout \/ Select \/ EndOfTurn,
         UNCHANGED <<parserVars, method>>
  PROVE  KeepsPromise
<1>1. /\ UNCHANGED <<written, taken, put, peer, message, finished, method>>
      /\ step \in {"select", "relay"}
  BY DEF Idle, Timeout, Select, EndOfTurn, Moves, socketVars, parserVars
<1>2. EndsStay /\ Same
  BY <1>1, PassedStays DEF EndsStay, Noticed, Same
<1>3. \A e \in End : Base(e)' = Base(e) /\ Passed(e)' = Passed(e) /\ Readable(e)' = Readable(e)
  BY <1>1, <1>2, BaseStays DEF Same, Readable, Unread
<1>4. CASE Idle \/ Select \/ (EndOfTurn /\ step' = "select")
  <2>1. step' \in {"select", "relay"} /\ State' = State
    BY <1>1, <1>4 DEF Idle, Select, Moves, State, Ended
  <2>2. step' = "relay" => Select
    BY <1>4 DEF Idle
  <2>3. ReadyHasMore'
    BY <1>3, <2>2 DEF ReadyHasMore, Select
  <2>4. Connected' /\ PassedIsTaken'
    BY <1>1, <1>3, <2>1 DEF InductiveChannel, Connected, PassedIsTaken, Other
  <2> QED
    BY <1>2, <2>1, <2>3, <2>4, SameStep DEF KeepsPromise, InductiveChannel
<1>5. CASE Timeout
  <2>1. /\ step = "select" /\ step' = "thrown" /\ State = "open" /\ State' = "ended"
        /\ \A e \in End : ~Readable(e)
    BY <1>5 DEF Timeout, Moves, State, Ended
  <2>2. \A e \in End : taken[e] = written[e]
    BY <2>1, OpenTunnel DEF Readable, Unread
  <2>3. C!GiveUp
    BY <1>1, <1>2, <2>1, <2>2, SameStep, ThroughWhenRead DEF C!GiveUp
  <2> QED
    BY <1>2, <2>1, <2>3, OutsideTunnel DEF KeepsPromise, C!Next
<1>6. CASE EndOfTurn /\ step' # "select"
  <2>1. /\ step = "relay" /\ step' = "returned" /\ State = "open" /\ State' = "ended"
        /\ finished # {} /\ finished \subseteq End
    BY <1>6 DEF EndOfTurn, Moves, State, Ended, InductiveExchange, TypeOKExchange, TypeOKTunnel
  <2>2. PICK e \in End : ReadToTheEnd(e)
    BY <2>1 DEF InductiveExchange
  <2>3. Presence(e) # "open"
    BY <2>2 DEF ReadToTheEnd, Presence
  <2>4. C!Through(e)
    BY <1>1, <2>2, ThroughWhenRead DEF ReadToTheEnd
  <2>5. C!Finish
    BY <1>2, <2>1, <2>3, <2>4, SameStep DEF C!Finish
  <2> QED
    BY <1>2, <2>1, <2>5, OutsideTunnel DEF KeepsPromise, C!Next
<1> QED
  BY <1>4, <1>5, <1>6

(* recv or send has met the reset of an end, and not a timeout.            *)
LEMMA TransportFailsKeeps ==
  ASSUME InductiveExchange, InductiveChannel, NEW o \in End, TransportFails(o),
         UNCHANGED <<parserVars, method>>
  PROVE  KeepsPromise
<1>1. /\ step = "relay" /\ step' \in {"thrown", "dead"} /\ o \in ready
      /\ UNCHANGED <<written, put, message, method>>
  BY DEF TransportFails, Moves, parserVars
<1>2. peer \in [End -> PeerState] /\ Other(o) \in End
  BY DEF InductiveExchange, TypeOKExchange, TypeOKSockets, Other, End
<1>3. Readable(o)
  BY <1>1 DEF InductiveChannel, ReadyHasMore
<1>4. EndsStay /\ \E e \in End : peer[e] \in GoneFor
  BY <1>2, <1>3 DEF TransportFails, RecvFails, SendFails, SendKills, EndsStay, Noticed, GoneFor
<1>5. Same
  BY <1>1, <1>4, PassedStays DEF Same
<1>6. State = "open" /\ State' = "ended"
  BY <1>1 DEF State, Ended
<1>7. C!Break
  BY <1>4, <1>5, <1>6, SameStep DEF C!Break, Presence, GoneFor
<1> QED
  BY <1>1, <1>4, <1>7, OutsideTunnel DEF KeepsPromise, C!Next

(* What was appended for an end is what it had been passed on, and more.   *)
LEMMA PassedGrows ==
  ASSUME InductiveExchange, InductiveChannel, step = "relay", UNCHANGED method,
         NEW o \in End, NEW b \in Seq(Token), peer[Other(o)] \in {"open", "shut"},
         put' = [put EXCEPT ![Other(o)] = @ \o b]
  PROVE  Passed(o)' = Passed(o) \o b /\ Passed(Other(o))' = Passed(Other(o))
<1>1. put \in [End -> Seq(Token)] /\ Other(o) \in End /\ Other(Other(o)) = o /\ o # Other(o)
  BY DEF InductiveExchange, TypeOKExchange, TypeOKSockets, Other, End
<1>2. put'[Other(o)] = put[Other(o)] \o b /\ put'[o] = put[o] /\ method = "CONNECT"
  BY <1>1 DEF InductiveChannel, PassedIsTaken
<1>3. Passed(Other(o))' = Passed(Other(o))
  BY <1>1, <1>2 DEF Passed, Relayed
<1>4. CASE Other(o) = "client"
  <2>1. put["client"] # << >> /\ put["client"] \in Seq(Token)
    BY <1>1, <1>4 DEF InductiveChannel, PassedIsTaken
  <2>2. Tail(put["client"] \o b) = Tail(put["client"]) \o b
    BY <2>1, TailOfLonger
  <2>3. put["client"] \o b # << >>
    BY <2>1
  <2> QED
    BY <1>2, <1>3, <1>4, <2>1, <2>2, <2>3 DEF Passed, Relayed
<1>5. CASE Other(o) # "client"
  <2>1. Passed(o) = put[Other(o)] /\ Passed(o)' = put'[Other(o)]
    BY <1>2, <1>5 DEF Passed, Relayed
  <2> QED
    BY <1>2, <1>3, <2>1
<1> QED
  BY <1>4, <1>5

LEMMA TransportKeeps ==
  ASSUME InductiveExchange, InductiveChannel, NEW o \in End, Transport(o),
         UNCHANGED <<parserVars, method>>
  PROVE  KeepsPromise
<1>1. PICK n \in Nat :
           /\ taken' = [taken EXCEPT ![o] = @ + n] /\ taken[o] + n <= written[o]
           /\ step = "relay" /\ step' = "relay" /\ UNCHANGED written
           /\ \/ /\ peer[Other(o)] \in {"open", "shut"}
                 /\ put' = [put EXCEPT ![Other(o)] = @ \o Bytes(o, taken[o] + 1, taken[o] + n)]
              \/ UNCHANGED put /\ (n = 0 \/ peer'[Other(o)] \notin {"open", "shut"})
  BY TransportFacts
<1>2. /\ taken \in [End -> Nat] /\ written \in [End -> Nat] /\ peer \in [End -> PeerState]
      /\ put \in [End -> Seq(Token)] /\ ready \subseteq End
      /\ Other(o) \in End /\ End = {o, Other(o)} /\ o # Other(o) /\ Other(Other(o)) = o
  BY DEF InductiveExchange, TypeOKExchange, TypeOKSockets, TypeOKTunnel, Other, End
<1>3. ready' = ready \ {o} /\ UNCHANGED <<message, method>>
  BY DEF Transport, parserVars
<1>4. EndsStay
  BY <1>2 DEF Transport, Send, EndsStay, Noticed, GoneFor
<1>5. \A e \in End : Base(e)' = Base(e) /\ Presence(e)' = Presence(e)
  BY <1>3, <1>4, BaseStays, PresenceStays
<1>6. State = "open" /\ State' = "open"
  BY <1>1 DEF State, Ended
<1>7. ReadyHasMore'
  BY <1>1, <1>2, <1>3, <1>4 DEF InductiveChannel, ReadyHasMore, Readable, Unread, EndsStay, Noticed,
                                GoneFor
<1>8. Connected'
  BY <1>1, <1>4, EndsAre DEF InductiveChannel, Connected, EndsStay, Noticed, GoneFor
<1>9. \A e \in End : peer'[e] \in {"open", "shut"} => peer[e] = peer'[e]
  BY <1>4 DEF EndsStay, Noticed, GoneFor
<1>10. method = "CONNECT" /\ (put["client"] = << >> => peer["client"] \notin {"open", "shut"})
  BY <1>1 DEF InductiveChannel, PassedIsTaken
<1>11. CASE UNCHANGED put /\ (n = 0 \/ peer'[Other(o)] \notin {"open", "shut"})
  <2>1. Same
    BY <1>1, <1>3, <1>4, <1>11, PassedStays DEF Same
  <2>2. [C!Next]_(C!channelVars)
    BY <1>6, <2>1, SameStep
  <2>3. ASSUME NEW e \in End
        PROVE  /\ Base(e)' + Len(Passed(e)') <= taken'[e]
               /\ peer'[Other(e)] \in {"open", "shut"} => Base(e)' + Len(Passed(e)') = taken'[e]
    <3>1. Base(e)' = Base(e) /\ Passed(e)' = Passed(e)
      BY <1>5, <2>1 DEF Same
    <3>2. /\ Base(e) + Len(Passed(e)) <= taken[e]
          /\ peer[Other(e)] \in {"open", "shut"} => Base(e) + Len(Passed(e)) = taken[e]
      BY <1>1 DEF InductiveChannel, PassedIsTaken
    <3>3. Base(e) \in Nat /\ Len(Passed(e)) \in Nat /\ taken[e] \in Nat
      BY <1>1, OpenTunnel
    <3>4. CASE e = o
      BY <1>1, <1>2, <1>9, <1>11, <3>1, <3>2, <3>3, <3>4
    <3>5. CASE e # o
      BY <1>1, <1>2, <1>9, <3>1, <3>2, <3>3, <3>5
    <3> QED
      BY <3>4, <3>5
  <2>4. PassedIsTaken'
    BY <1>3, <1>9, <1>10, <1>11, <2>3, EndsAre DEF PassedIsTaken
  <2> QED
    BY <1>7, <1>8, <2>2, <2>4 DEF KeepsPromise, InductiveChannel
<1>12. CASE /\ peer[Other(o)] \in {"open", "shut"} /\ n # 0
            /\ put' = [put EXCEPT ![Other(o)] = @ \o Bytes(o, taken[o] + 1, taken[o] + n)]
  <2> DEFINE b == Bytes(o, taken[o] + 1, taken[o] + n)
  <2>1. b \in Seq(Token) /\ Len(b) = n /\ b = [k \in 1 .. n |-> <<o, taken[o] + k>>]
    <3>1. b \in Seq({o} \X Nat) /\ Len(b) = n
      BY <1>2, BytesShape
    <3>2. b = [k \in 1 .. n |-> <<o, taken[o] + k>>]
      BY <1>2 DEF Bytes
    <3> QED
      BY <3>1, <3>2 DEF Token
  <2> HIDE DEF b
  <2>2. Passed(o)' = Passed(o) \o b /\ Passed(Other(o))' = Passed(Other(o))
    BY <1>1, <1>3, <1>12, <2>1, PassedGrows DEF b
  <2>3. /\ Base(o) + Len(Passed(o)) = taken[o] /\ Base(o) \in Nat /\ Len(Passed(o)) \in Nat
        /\ taken[o] \in Nat /\ written[o] \in Nat
    BY <1>1, <1>12, OpenTunnel DEF InductiveChannel, PassedIsTaken
  <2>4. C!Heard(o)
    BY <1>2, <1>12 DEF C!Heard, Presence
  <2>5. n \in 1 .. written[o] - (Base(o) + Len(Passed(o)))
    BY <1>1, <1>12, <2>3
  <2>6. b = C!Following(o, n)
    <3>1. C!Following(o, n) = [k \in 1 .. n |-> <<o, Base(o) + Len(Passed(o)) + k>>]
      BY DEF C!Following
    <3> QED
      BY <2>1, <2>3, <3>1
  <2>7. Passes' = [Passes EXCEPT ![o] = @ \o b]
    BY <1>2, <2>2 DEF Passes
  <2>8. UNCHANGED <<State, Presences, written, Firsts>>
    BY <1>1, <1>5, <1>6 DEF Presences, Firsts
  <2>9. C!Pass(o)
    BY <1>6, <2>3, <2>4, <2>5, <2>6, <2>7, <2>8 DEF C!Pass, Passes, Presences, Firsts
  <2>10. Len(Passed(o)') = Len(Passed(o)) + n /\ Base(o)' + Len(Passed(o)') = taken'[o]
    <3>1. Passed(o) \in Seq(Token)
      BY <1>2, <1>10 DEF Passed, Relayed
    <3>2. Len(Passed(o) \o b) = Len(Passed(o)) + n
      BY <2>1, <3>1
    <3> QED
      BY <1>1, <1>2, <1>5, <2>2, <2>3, <3>2
  <2>11. ASSUME NEW e \in End
         PROVE  /\ Base(e)' + Len(Passed(e)') <= taken'[e]
                /\ peer'[Other(e)] \in {"open", "shut"} => Base(e)' + Len(Passed(e)') = taken'[e]
    <3>1. CASE e = o
      <4>1. taken'[o] \in Nat
        BY <1>1, <1>2
      <4> QED
        BY <2>10, <3>1, <4>1
    <3>2. CASE e = Other(o)
      <4>1. taken'[e] = taken[e] /\ Base(e)' = Base(e) /\ Passed(e)' = Passed(e)
        BY <1>1, <1>2, <1>5, <2>2, <3>2
      <4> QED
        BY <1>1, <1>2, <1>9, <3>2, <4>1 DEF InductiveChannel, PassedIsTaken
    <3> QED
      BY <1>2, <3>1, <3>2
  <2>12. put'["client"] = << >> => peer'["client"] \notin {"open", "shut"}
    <3>1. CASE Other(o) = "client"
      <4>1. put["client"] \in Seq(Token) /\ put'["client"] = put["client"] \o b
        BY <1>2, <1>12, <3>1 DEF b
      <4>2. Len(put["client"] \o b) = Len(put["client"]) + n
        BY <2>1, <4>1
      <4>3. Len(put["client"] \o b) # Len(<< >>)
        <5>1. Len(put["client"]) \in Nat /\ Len(<< >>) = 0 /\ n # 0
          BY <1>12, <4>1
        <5> QED
          BY <4>2, <5>1
      <4> QED
        BY <4>1, <4>3
    <3>2. CASE o = "client"
      BY <1>2, <1>9, <1>10, <1>12, <3>2
    <3> QED
      BY <1>2, <3>1, <3>2, EndsAre
  <2>13. PassedIsTaken'
    BY <1>3, <1>10, <2>11, <2>12 DEF PassedIsTaken
  <2> QED
    BY <1>7, <1>8, <2>9, <2>13 DEF KeepsPromise, InductiveChannel, C!Next
<1>13. n = 0 => UNCHANGED put
  <2> SUFFICES ASSUME n = 0 PROVE UNCHANGED put
    OBVIOUS
  <2>1. Bytes(o, taken[o] + 1, taken[o] + 0) = << >>
    BY <1>2, NoBytes
  <2>2. put[Other(o)] \o << >> = put[Other(o)]
    BY <1>2
  <2> QED
    BY <1>1, <1>2, <2>1, <2>2
<1> QED
  BY <1>1, <1>11, <1>12, <1>13

-----------------------------------------------------------------------------
(* Every step.                                                             *)

LEMMA ChannelStep ==
  ASSUME InductiveExchange, InductiveChannel, [NextExchange]_exchangeVars
  PROVE  KeepsPromise
<1>1. CASE UNCHANGED exchangeVars
  <2>1. UNCHANGED <<written, taken, put, peer, message, step, ready, method>>
    BY <1>1 DEF exchangeVars, socketVars, parserVars, tunnelVars
  <2>2. Same
    BY <2>1, PassedStays DEF Same, EndsStay, Noticed
  <2>3. \A e \in End : Base(e)' = Base(e) /\ Passed(e)' = Passed(e)
    BY <2>1, <2>2, BaseStays DEF Same
  <2>4. InductiveChannel'
    BY <2>1, <2>3 DEF InductiveChannel, ReadyHasMore, Connected, PassedIsTaken, Readable, Unread, Other
  <2>5. State' = State
    BY <2>1 DEF State
  <2> QED
    BY <2>2, <2>4, <2>5, SameStep DEF KeepsPromise
<1>2. CASE Relaying
  <2>1. UNCHANGED <<parserVars, method>>
    BY <1>2 DEF Relaying
  <2>2. CASE Idle \/ Timeout \/ Select \/ EndOfTurn
    BY <2>1, <2>2, WaitingKeeps
  <2>3. CASE \E e \in End : Relay(e)
    BY <2>1, <2>3, TransportKeeps, TransportFailsKeeps DEF Relay
  <2> QED
    BY <1>2, <2>2, <2>3 DEF Relaying, TunnelStep
<1>3. CASE Peers
  BY <1>3, WriteKeeps, LeaveKeeps DEF Peers
<1>4. CASE Handle /\ ~Relaying
  BY <1>4, ReceiveRequestKeeps, ConnectKeeps, SendRequestKeeps, SendResponseKeeps,
     SendErrorStatusKeeps, EstablishKeeps DEF Handle
<1> QED
  BY <1>1, <1>2, <1>3, <1>4, ReceiveResponseKeeps DEF NextExchange, Over

LEMMA ChannelInit == InitExchange => InductiveChannel /\ C!Init
<1> SUFFICES ASSUME InitExchange PROVE InductiveChannel /\ C!Init
  OBVIOUS
<1>1. /\ step = "request" /\ peer = [client |-> "open", server |-> "none"]
      /\ written = [e \in End |-> 0] /\ put = [e \in End |-> << >>]
  BY DEF InitExchange, InitSockets
<1>2. InductiveChannel
  BY <1>1 DEF InductiveChannel, ReadyHasMore, Connected, PassedIsTaken
<1>3. State = "waiting"
  BY <1>1 DEF State, Ended
<1>4. Presences \in [End -> {"absent", "open"}]
  BY <1>1 DEF Presences, Presence, End
<1>5. Firsts \in [End -> Nat]
  BY InitInductiveExchange, BaseType DEF Firsts
<1>6. Passes = [e \in End |-> << >>]
  <2>1. ASSUME NEW e \in End PROVE Passed(e) = << >>
    BY <1>1, EndsAre DEF Passed, End
  <2> QED
    BY <2>1 DEF Passes
<1> QED
  BY <1>1, <1>2, <1>3, <1>4, <1>5, <1>6 DEF C!Init, Presences, Firsts, Passes

(* How much a tunnel has passed on, and that no receive in it times out.   *)
THEOREM ChannelInvariant == SpecExchange => []InductiveChannel
<1>1. InductiveExchange /\ InductiveChannel /\ [NextExchange]_exchangeVars => InductiveChannel'
  BY ChannelStep DEF KeepsPromise
<1> QED
  BY ChannelInit, <1>1, ExchangeInvariant, PTL DEF SpecExchange

(* A CONNECT keeps the promise of Channel, however the bytes are cut and   *)
(* whenever an end stops, closes or resets: nothing is passed on before    *)
(* the tunnel opens or after it ends, every byte once and in order, and it *)
(* ends only behind all of a finished end, when both ends are through, or  *)
(* when one is gone (HttpConnector.cpp:82-131).                            *)
THEOREM ExchangeRefinesChannel == SpecExchange => ImplementsChannel
<1>1. InductiveExchange /\ InductiveChannel /\ [NextExchange]_exchangeVars => [C!Next]_(C!channelVars)
  BY ChannelStep DEF KeepsPromise
<1> QED
  BY ChannelInit, <1>1, ExchangeInvariant, ChannelInvariant, PTL
     DEF SpecExchange, ImplementsChannel, C!Spec
=============================================================================

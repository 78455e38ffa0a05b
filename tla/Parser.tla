-------------------------------- MODULE Parser --------------------------------
(***************************************************************************)
(* HttpParser and the loops that feed it, HttpConnector::receiveRequest    *)
(* and receiveResponse: bytes arrive in pieces, go to remainParsed, and    *)
(* Boost.Beast's parser takes of them what it can, all of a header or      *)
(* nothing of it and then as much of the body as is there.                 *)
(***************************************************************************)
EXTENDS Sockets

CONSTANTS
  Message,   \* the messages each end may send first
  BodyLimit  \* the longest body Beast accepts from each end

(* The lengths of header and body in bytes, what ends the body, and        *)
(* whether the header can be parsed.                                       *)
ASSUME ParserAssumption ==
  /\ Message \in [End -> SUBSET [header : Nat \ {0}, body : Nat,
                                 framing : {"length", "chunked", "close"}, valid : BOOLEAN]]
  /\ BodyLimit \in [End -> Nat]

VARIABLES
  message,   \* what each end sends first
  consumed,  \* how much of it the parser has taken out of remainParsed
  verdict    \* what the receive loop of each end came to

parserVars == <<message, consumed, verdict>>

(* The exceptions: 400 and 502 for a malformed message, 400 and 500 for    *)
(* surplus bytes, 408 and 504 when recv failed; when an end closes too     *)
(* early, 502 for the origin and only a log entry for the client.          *)
Verdict == {"none", "accepted", "malformed", "surplus", "ended", "failed"}

TypeOKParser ==
  /\ \A e \in End : message[e] \in Message[e]
  /\ consumed \in [End -> Nat]
  /\ verdict \in [End -> Verdict]

InitParser ==
  /\ message \in {f \in [End -> Message["client"] \cup Message["server"]] :
                    \A e \in End : f[e] \in Message[e]}
  /\ consumed = [e \in End |-> 0]
  /\ verdict = [e \in End |-> "none"]

Length(m) == m.header + m.body

(* is_done(): nobody tells the parser that a connection has closed.        *)
Done(m, c) == m.framing # "close" /\ c = Length(m)

(* Mutant: need_more is taken for an error.                                *)
MalformedByCut(e, m, got) == ~m.valid \/ got < m.header

(* An error other than need_more, with got bytes received.                 *)
Malformed(e, m, got) ==
  /\ got >= m.header
  /\ \/ ~m.valid
     \/ m.framing = "length" /\ m.body > BodyLimit[e]
     \/ got > m.header + BodyLimit[e] /\ (m.framing = "close" \/ m.body > BodyLimit[e])

(* Mutant: put is called once for each recv, and not until it takes        *)
(* nothing.                                                                *)
PutsOnce(m, c, got) ==
  CASE got < m.header -> {c}
    [] c < m.header /\ got >= m.header -> {m.header}
    [] OTHER -> {IF m.framing = "close" \/ got < Length(m) THEN got ELSE Length(m)}

(* Where put can leave the parser.  It may keep a part of a chunk for the  *)
(* next time.                                                              *)
Puts(m, c, got) ==
  LET most == IF m.framing = "close" \/ got < Length(m) THEN got ELSE Length(m)
      split == m.framing = "chunked" /\ got < Length(m)
  IN  IF got < m.header THEN {c} ELSE {k \in m.header .. most : c <= k /\ (k = most \/ split)}

(* Mutant: remainParsed is not tested behind a complete message.           *)
ParsedIgnoresSurplus(e, n, c) ==
  LET wrong == Malformed(e, message[e], taken[e] + n)
      done == ~wrong /\ Done(message[e], c)
  IN  CASE wrong -> "malformed"
        [] done -> "accepted"
        [] OTHER -> IF n = 0 THEN "ended" ELSE "none"

(* parseRequest, parseResponse and the test behind them in the loop.       *)
Parsed(e, n, c) ==
  LET got == taken[e] + n
      wrong == Malformed(e, message[e], got)
      done == ~wrong /\ Done(message[e], c)
  IN  CASE wrong -> "malformed"
        [] done /\ got # c -> "surplus"
        [] done /\ got = c -> "accepted"
        [] OTHER -> IF n = 0 THEN "ended" ELSE "none"

(* One turn of the loop.                                                   *)
Receive(e) ==
  /\ verdict[e] = "none"
  /\ \/ \E n \in 0 .. BufferSize :
          /\ Recv(e, n)
          /\ \E c \in Puts(message[e], consumed[e], taken[e] + n) :
               /\ consumed' = [consumed EXCEPT ![e] = c]
               /\ verdict' = [verdict EXCEPT ![e] = Parsed(e, n, c)]
          /\ UNCHANGED peer
     \/ /\ RecvFails(e)
        /\ verdict' = [verdict EXCEPT ![e] = "failed"]
        /\ UNCHANGED <<taken, consumed>>
  /\ UNCHANGED <<written, put, message>>
=============================================================================

-------------------------------- MODULE Tunnel --------------------------------
(***************************************************************************)
(* HttpConnector::tunnelTransport: the loop around select that relays      *)
(* between the client and the server of a CONNECT request.  The steps of a *)
(* handler before and after it are those of the module Exchange.           *)
(***************************************************************************)
EXTENDS Sockets

CONSTANT IdleBudget  \* the 10 seconds of tv, in ticks of the clock

ASSUME TunnelAssumption == IdleBudget \in Nat

VARIABLES
  step,      \* where the handler is
  ready,     \* the ends select has reported and that are yet to be read
  finished,  \* the ends from which 0 bytes came (client_len, server_len)
  timeLeft   \* what select has left of tv

tunnelVars == <<step, ready, finished, timeLeft>>

Moves(from, to) == step = from /\ step' = to

TypeOKTunnel ==
  /\ ready \subseteq End
  /\ finished \subseteq End
  /\ timeLeft \in 0 .. IdleBudget

InitTunnel ==
  /\ ready = {}
  /\ finished = {}
  /\ timeLeft = IdleBudget

(* Bytes i to j of an end.                                                 *)
Bytes(e, i, j) == [k \in 1 .. j - i + 1 |-> <<e, i + k - 1>>]

(* select waits; Linux takes the time off tv, which is set only once.      *)
Idle ==
  /\ step = "select"
  /\ \A e \in End : ~Readable(e)
  /\ timeLeft > 0
  /\ timeLeft' = timeLeft - 1
  /\ UNCHANGED <<socketVars, step, ready, finished>>

(* Mutant: the time-out is taken for an interruption, and select called    *)
(* again.                                                                  *)
TimeoutRetries ==
  /\ step = "select"
  /\ \A e \in End : ~Readable(e)
  /\ timeLeft = 0
  /\ timeLeft' = IdleBudget
  /\ UNCHANGED <<socketVars, step, ready, finished>>

(* select reports nothing in time.  Its -1 is thrown in the same way (l.   *)
(* 126) but has no step: both descriptors are open and no signal is        *)
(* handled, so that only a kernel without memory returns it.               *)
Timeout ==
  /\ Moves("select", "thrown")
  /\ \A e \in End : ~Readable(e)
  /\ timeLeft = 0
  /\ UNCHANGED <<socketVars, ready, finished, timeLeft>>

(* Mutant: both ends are read whenever select reports one.                 *)
SelectReportsBoth ==
  /\ Moves("select", "relay")
  /\ \E e \in End : Readable(e)
  /\ ready' = End
  /\ UNCHANGED <<socketVars, finished, timeLeft>>

Select ==
  /\ Moves("select", "relay")
  /\ \E e \in End : Readable(e)
  /\ ready' = {e \in End : Readable(e)}
  /\ UNCHANGED <<socketVars, finished, timeLeft>>

(* Mutant: fewer bytes than the buffer holds are taken for the end.        *)
TransportShortRead(e) ==
  /\ step = "relay" /\ e \in ready
  /\ \E n \in 0 .. BufferSize :
       /\ Recv(e, n)
       /\ IF n = 0 THEN UNCHANGED <<put, peer>>
          ELSE Send(Other(e), Bytes(e, taken[e] + 1, taken[e] + n))
       /\ finished' = IF n < BufferSize THEN finished \cup {e} ELSE finished
  /\ ready' = ready \ {e}
  /\ UNCHANGED <<written, step, timeLeft>>

(* transportRawMessage from e to the other end.                            *)
Transport(e) ==
  /\ step = "relay" /\ e \in ready
  /\ \E n \in 0 .. BufferSize :
       /\ Recv(e, n)
       /\ IF n = 0 THEN UNCHANGED <<put, peer>>
          ELSE Send(Other(e), Bytes(e, taken[e] + 1, taken[e] + n))
       /\ finished' = IF n = 0 THEN finished \cup {e} ELSE finished
  /\ ready' = ready \ {e}
  /\ UNCHANGED <<written, step, timeLeft>>

(* recv or send throws, or send ends the process.                          *)
TransportFails(e) ==
  /\ e \in ready
  /\ \/ /\ Moves("relay", "thrown")
        /\ \/ RecvFails(e) /\ UNCHANGED taken
           \/ SendFails(Other(e)) /\ \E n \in 1 .. BufferSize : Recv(e, n)
     \/ /\ Moves("relay", "dead")
        /\ SendKills(Other(e)) /\ UNCHANGED peer
        /\ \E n \in 1 .. BufferSize : Recv(e, n)
  /\ UNCHANGED <<written, put, ready, finished, timeLeft>>

(* The client's end is read first.                                         *)
Relay(e) ==
  /\ "client" \in ready => e = "client"
  /\ Transport(e) \/ TransportFails(e)

(* The end of a turn of the loop.                                          *)
EndOfTurn ==
  /\ ready = {}
  /\ \/ finished # {} /\ Moves("relay", "returned")
     \/ finished = {} /\ Moves("relay", "select")
  /\ UNCHANGED <<socketVars, ready, finished, timeLeft>>

TunnelStep == Idle \/ Timeout \/ Select \/ (\E e \in End : Relay(e)) \/ EndOfTurn
=============================================================================

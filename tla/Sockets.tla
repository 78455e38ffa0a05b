------------------------------- MODULE Sockets -------------------------------
(***************************************************************************)
(* The two connections of a handler thread, to its client and to the       *)
(* origin server, as TcpConnector's receiveMessage and sendMessage see     *)
(* them: streams of bytes that arrive in pieces, and two peers that write, *)
(* stop writing, close or reset whenever they like.                        *)
(*                                                                         *)
(* The bytes an end writes are numbered.  The sockets are blocking and     *)
(* have no send timeout, so that send takes the whole of a message or      *)
(* finds the connection gone.  Resets are as Linux has them: a message to  *)
(* an end that has closed is taken, and answered with a reset; the first   *)
(* recv or send that meets a reset returns -1; a send after that, or after *)
(* the end had stopped writing before, raises SIGPIPE.                     *)
(***************************************************************************)
EXTENDS Naturals, Sequences

CONSTANTS
  BufferSize,  \* BUFFER_SIZE, the most one recv returns
  MaxWritten   \* bounds the bytes each end writes in a finite instance

End == {"client", "server"}
Other(e) == IF e = "client" THEN "server" ELSE "client"

ASSUME SocketsAssumption ==
  /\ BufferSize \in Nat \ {0}
  /\ MaxWritten \in [End -> Nat]

VARIABLES
  written,  \* how many bytes each end has written
  taken,    \* how many of them recv has returned
  put,      \* what send has passed to each end, in order
  peer      \* the state of each end of the connections

socketVars == <<written, taken, put, peer>>

(* "none" before connect; "shut" when it has only stopped writing;         *)
(* "closed" when it no longer reads either; "reset" when it has reset the  *)
(* connection and nobody has met that yet, "broken" from then on.          *)
PeerState == {"none", "open", "shut", "closed", "broken", "reset"}

(* What can be passed on: byte n of an end, or a message of the proxy.     *)
Token == (End \cup {"request", "response", "established", "error"}) \X Nat

TypeOKSockets ==
  /\ written \in [End -> Nat]
  /\ taken \in [End -> Nat]
  /\ put \in [End -> Seq(Token)]
  /\ peer \in [End -> PeerState]

InitSockets ==
  /\ written = [e \in End |-> 0]
  /\ taken = [e \in End |-> 0]
  /\ put = [e \in End |-> << >>]
  /\ peer = [client |-> "open", server |-> "none"]

-----------------------------------------------------------------------------
(* The peers.                                                              *)

Write(e) ==
  /\ peer[e] = "open"
  /\ written[e] < MaxWritten[e]
  /\ written' = [written EXCEPT ![e] = @ + 1]
  /\ UNCHANGED <<taken, put, peer>>

Leave(e) ==
  /\ \/ peer[e] = "open" /\ \E s \in {"shut", "closed", "reset"} : peer' = [peer EXCEPT ![e] = s]
     \/ peer[e] = "shut" /\ \E s \in {"closed", "broken"} : peer' = [peer EXCEPT ![e] = s]
  /\ UNCHANGED <<written, taken, put>>

-----------------------------------------------------------------------------
(* recv and send.                                                          *)

Unread(e) == taken[e] < written[e]
Readable(e) == Unread(e) \/ peer[e] \notin {"open", "none"}

(* Mutant: the -1 of recv is taken for a length.                           *)
RecvUnchecked(e, n) ==
  /\ n <= BufferSize /\ taken[e] + n <= written[e]
  /\ n = 0 => ~Unread(e) /\ peer[e] \in {"shut", "closed", "broken", "reset"}
  /\ taken' = [taken EXCEPT ![e] = IF peer[e] = "reset" THEN @ - 1 ELSE @ + n]

(* recv returns n bytes; none when the end has finished and all are read.  *)
Recv(e, n) ==
  /\ n <= BufferSize /\ taken[e] + n <= written[e]
  /\ n = 0 => ~Unread(e) /\ peer[e] \in {"shut", "closed", "broken"}
  /\ taken' = [taken EXCEPT ![e] = @ + n]

(* recv returns -1: the connection was reset or, on the client's socket,   *)
(* nothing came within the receive timeout.                                *)
RecvFails(e) ==
  \/ peer[e] = "reset" /\ peer' = [peer EXCEPT ![e] = "broken"]
  \/ e = "client" /\ ~Readable(e) /\ UNCHANGED peer

(* send takes the message s; a closed end will never read it.              *)
Send(e, s) ==
  \/ /\ peer[e] \in {"open", "shut"}
     /\ put' = [put EXCEPT ![e] = @ \o s]
     /\ UNCHANGED peer
  \/ /\ peer[e] = "closed"
     /\ \E p \in {"closed", "broken"} : peer' = [peer EXCEPT ![e] = p]
     /\ UNCHANGED put

SendFails(e) == peer[e] = "reset" /\ peer' = [peer EXCEPT ![e] = "broken"]
SendKills(e) == peer[e] = "broken"
=============================================================================

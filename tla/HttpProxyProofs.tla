--------------------------- MODULE HttpProxyProofs ---------------------------
(***************************************************************************)
(* The invariants of HttpProxy for any number of connections and           *)
(* descriptors.  InductiveProxy is preserved by every step; a lemma for    *)
(* each action shows it conjunct by conjunct.                              *)
(***************************************************************************)
EXTENDS HttpProxy, TLAPS

(* Nothing is open, sent or counted at the start.                          *)
LEMMA InitInductiveProxy == InitProxy => InductiveProxy
<1> SUFFICES ASSUME InitProxy PROVE InductiveProxy
  OBVIOUS
<1> USE DEF InitProxy
<1>1. TypeOKProxy
  BY DEF TypeOKProxy, Status
<1>2. OwnDescriptors
  BY DEF OwnDescriptors, ClientSteps, ServerSteps
<1>3. AtMostOneReply /\ NothingSentYet
  BY DEF AtMostOneReply, NothingSentYet
<1>4. UniqueIds /\ IdsInOrder
  BY ProxyAssumption DEF UniqueIds, IdsInOrder
<1> QED
  BY <1>1, <1>2, <1>3, <1>4 DEF InductiveProxy

(* Sockets of different ends or of different connections are different.    *)
LEMMA Sockets ==
  ASSUME NEW c \in Connection
  PROVE  /\ Client(c) \in Socket /\ Server(c) \in Socket
         /\ Client(c) # NULL /\ Server(c) # NULL
         /\ \A d \in Connection : /\ Client(c) # Server(d)
                                  /\ Client(c) = Client(d) => c = d
                                  /\ Server(c) = Server(d) => c = d
<1>1. /\ Client(c).end = "client" /\ Server(c).end = "server"
      /\ Client(c).of = c /\ Server(c).of = c
      /\ \A d \in Connection : /\ Server(d).end = "server"
                               /\ Client(d).of = d /\ Server(d).of = d
  BY DEF Client, Server
<1>2. Client(c) \in Socket /\ Server(c) \in Socket
  BY DEF Client, Server, Socket
<1> QED
  BY <1>1, <1>2, ProxyAssumption DEF Socket

(* A step that opens and closes nothing keeps the descriptors in order     *)
(* unless it brings the thread to where it uses one it did not have.       *)
LEMMA SameDescriptors ==
  ASSUME OwnDescriptors, NEW c \in Connection,
         UNCHANGED <<file, clientFd, serverFd>>,
         \A d \in Connection \ {c} : step'[d] = step[d],
         step'[c] \in ClientSteps => step[c] \in ClientSteps,
         step'[c] \in ServerSteps => step[c] \in ServerSteps
  PROVE  OwnDescriptors'
  BY DEF OwnDescriptors

(* So does one that opens a socket for the descriptor of a connection that *)
(* does not use one yet, ...                                               *)
LEMMA DescriptorOpened ==
  ASSUME TypeOKProxy, OwnDescriptors, NEW f \in Fd, NEW socket \in Socket, Opens(f, socket),
         NEW c \in Connection, step[c] \in ClientSteps
  PROVE  /\ file'[clientFd[c]] = Client(c)
         /\ step[c] \in ServerSteps => file'[serverFd[c]] = Server(c)
<1>1. file \in [Fd -> Socket \cup {NULL}] /\ file[f] = NULL /\ file' = [file EXCEPT ![f] = socket]
  BY DEF TypeOKProxy, Opens
<1>2. clientFd[c] \in Fd /\ file[clientFd[c]] = Client(c)
  BY DEF OwnDescriptors
<1>3. step[c] \in ServerSteps => serverFd[c] \in Fd /\ file[serverFd[c]] = Server(c)
  BY DEF OwnDescriptors
<1>4. Client(c) # NULL /\ Server(c) # NULL
  BY Sockets
<1> QED
  BY <1>1, <1>2, <1>3, <1>4

(* ... and one that closes a socket of another connection.                 *)
LEMMA DescriptorClosed ==
  ASSUME TypeOKProxy, OwnDescriptors, NEW c \in Connection, NEW f \in Fd, Closes(f),
         file[f] \in {Client(c), Server(c)}, NEW d \in Connection \ {c}
  PROVE  /\ step[d] \in ClientSteps => file'[clientFd[d]] = Client(d)
         /\ step[d] \in ServerSteps => file'[serverFd[d]] = Server(d)
<1>1. file \in [Fd -> Socket \cup {NULL}] /\ file' = [file EXCEPT ![f] = NULL]
  BY DEF TypeOKProxy, Closes
<1>2. step[d] \in ClientSteps => clientFd[d] \in Fd /\ file[clientFd[d]] = Client(d)
  BY DEF OwnDescriptors
<1>3. step[d] \in ServerSteps => serverFd[d] \in Fd /\ file[serverFd[d]] = Server(d)
  BY DEF OwnDescriptors
<1>4. Client(d) \notin {Client(c), Server(c)} /\ Server(d) \notin {Client(c), Server(c)}
  BY Sockets
<1> QED
  BY <1>1, <1>2, <1>3, <1>4

(* One send to a client to which nothing has been sent is the first.       *)
LEMMA FirstReply ==
  ASSUME TypeOKProxy, AtMostOneReply, NothingSentYet, NEW c \in Connection,
         NEW r \in {"response", "established", "error"},
         step[c] \notin {"tunnel", "finish", "close", "closed"},
         \/ sent' = [sent EXCEPT ![c] = Append(sent[c], r)]
         \/ UNCHANGED sent
  PROVE  /\ sent' \in [Connection -> Seq({"response", "established", "error"})]
         /\ AtMostOneReply'
         /\ \A d \in Connection \ {c} : sent'[d] = sent[d]
<1>1. sent \in [Connection -> Seq({"response", "established", "error"})] /\ sent[c] = << >>
  BY DEF TypeOKProxy, NothingSentYet
<1>2. CASE UNCHANGED sent
  BY <1>1, <1>2 DEF AtMostOneReply
<1>3. CASE sent' = [sent EXCEPT ![c] = Append(sent[c], r)]
  <2>1. Append(sent[c], r) \in Seq({"response", "established", "error"}) /\ Len(Append(sent[c], r)) = 1
    BY <1>1
  <2>2. sent' \in [Connection -> Seq({"response", "established", "error"})]
    BY <1>1, <1>3, <2>1
  <2>3. ASSUME NEW d \in Connection PROVE Len(sent'[d]) <= 1
    BY <1>1, <1>3, <2>1 DEF AtMostOneReply
  <2> QED
    BY <1>1, <1>3, <2>2, <2>3 DEF AtMostOneReply
<1> QED
  BY <1>2, <1>3

(* accept gives the connection the lowest free descriptor.                 *)
LEMMA AcceptInductive ==
  ASSUME InductiveProxy, NEW c \in Connection, Accept(c)
  PROVE  InductiveProxy'
<1> USE DEF InductiveProxy
<1>a. /\ step[c] = "backlog" /\ step'[c] \in {"accepted"}
      /\ \A d \in Connection \ {c} : step'[d] = step[d]
      /\ step' \in [Connection -> {"backlog"} \cup ClientSteps \cup Ended]
      /\ status' \in Status /\ thrown' \in SUBSET Connection
      /\ UNCHANGED <<ids, method, serverFd, sent>>
  BY DEF Accept, Moves, Throws, Goes, TypeOKProxy, ClientSteps, ServerSteps, Ended
<1>b. PICK f \in Fd : Opens(f, Client(c)) /\ clientFd' = [clientFd EXCEPT ![c] = f]
  BY DEF Accept
<1>c. file' \in [Fd -> Socket \cup {NULL}] /\ file'[f] = Client(c)
  BY <1>b, Sockets DEF TypeOKProxy, Opens
<1>1. TypeOKProxy'
  BY <1>a, <1>b, <1>c DEF Accept, TypeOKProxy, locals, ids
<1>2. OwnDescriptors'
  <2>1. ASSUME NEW d \in Connection \ {c}, step[d] \in ClientSteps
        PROVE  /\ file'[clientFd[d]] = Client(d) /\ clientFd'[d] = clientFd[d]
               /\ step[d] \in ServerSteps => file'[serverFd[d]] = Server(d)
    BY <1>b, <2>1, Sockets, DescriptorOpened DEF TypeOKProxy
  <2>2. step'[c] \notin ServerSteps /\ clientFd'[c] = f
    BY <1>a, <1>b DEF ServerSteps, TypeOKProxy
  <2>3. \A d \in Connection : step[d] \in ServerSteps => step[d] \in ClientSteps
    BY DEF ClientSteps
  <2> QED
    BY <1>a, <1>c, <2>1, <2>2, <2>3 DEF OwnDescriptors
<1>3. AtMostOneReply'
  BY <1>a DEF AtMostOneReply
<1>4. UniqueIds'
  BY <1>a DEF UniqueIds, ids
<1>5. NothingSentYet'
  BY <1>a DEF NothingSentYet
<1>6. IdsInOrder'
  BY <1>a DEF IdsInOrder, ids
<1> QED
  BY <1>1, <1>2, <1>3, <1>4, <1>5, <1>6

(* A thread is started, or cannot be.                                      *)
LEMMA StartThreadInductive ==
  ASSUME InductiveProxy, NEW c \in Connection, StartThread(c)
  PROVE  InductiveProxy'
<1> USE DEF InductiveProxy
<1>a. /\ step[c] = "accepted" /\ step'[c] \in {"assign", "abandoned"}
      /\ \A d \in Connection \ {c} : step'[d] = step[d]
      /\ step' \in [Connection -> {"backlog"} \cup ClientSteps \cup Ended]
      /\ status' \in Status /\ thrown' \in SUBSET Connection
      /\ UNCHANGED <<file, ids, locals, sent>>
  BY DEF StartThread, Moves, Throws, Goes, TypeOKProxy, ClientSteps, ServerSteps, Ended
<1>1. TypeOKProxy'
  BY <1>a DEF StartThread, TypeOKProxy, locals, ids
<1>2. OwnDescriptors'
  <2>1. /\ step'[c] \in ClientSteps => step[c] \in ClientSteps
        /\ step'[c] \in ServerSteps => step[c] \in ServerSteps
    BY <1>a DEF ClientSteps, ServerSteps
  <2> QED
    BY <1>a, <2>1, SameDescriptors DEF locals
<1>3. AtMostOneReply'
  BY <1>a DEF AtMostOneReply
<1>4. UniqueIds'
  BY <1>a DEF UniqueIds, ids
<1>5. NothingSentYet'
  BY <1>a DEF NothingSentYet
<1>6. IdsInOrder'
  BY <1>a DEF IdsInOrder, ids
<1> QED
  BY <1>1, <1>2, <1>3, <1>4, <1>5, <1>6

(* The id is read under id_mutex.                                          *)
LEMMA ReadIdInductive ==
  ASSUME InductiveProxy, NEW c \in Connection, ReadId(c)
  PROVE  InductiveProxy'
<1> USE DEF InductiveProxy
<1>a. /\ step[c] = "assign" /\ step'[c] \in {"increment"}
      /\ \A d \in Connection \ {c} : step'[d] = step[d]
      /\ step' \in [Connection -> {"backlog"} \cup ClientSteps \cup Ended]
      /\ status' \in Status /\ thrown' \in SUBSET Connection
      /\ UNCHANGED <<file, main, next_client_id, locals, sent>>
  BY DEF ReadId, Moves, Throws, Goes, TypeOKProxy, ClientSteps, ServerSteps, Ended
<1>b. /\ id_mutex = NULL /\ id_mutex' = c
      /\ id'[c] = next_client_id /\ \A d \in Connection \ {c} : id'[d] = id[d]
  BY DEF ReadId, TypeOKProxy
<1>c. \A d \in Connection : id[d] < next_client_id
  BY <1>b, ProxyAssumption DEF IdsInOrder
<1>d. next_client_id \in Nat /\ \A d \in Connection : id[d] \in Nat
  BY DEF TypeOKProxy
<1>1. TypeOKProxy'
  BY <1>a DEF ReadId, TypeOKProxy, locals, ids
<1>2. OwnDescriptors'
  <2>1. /\ step'[c] \in ClientSteps => step[c] \in ClientSteps
        /\ step'[c] \in ServerSteps => step[c] \in ServerSteps
    BY <1>a DEF ClientSteps, ServerSteps
  <2> QED
    BY <1>a, <2>1, SameDescriptors DEF locals
<1>3. AtMostOneReply'
  BY <1>a DEF AtMostOneReply
<1>4. UniqueIds'
  BY <1>b, <1>c, <1>d DEF UniqueIds
<1>5. NothingSentYet'
  BY <1>a DEF NothingSentYet
<1>6. IdsInOrder'
  BY <1>a, <1>b, <1>c, ProxyAssumption DEF IdsInOrder
<1> QED
  BY <1>1, <1>2, <1>3, <1>4, <1>5, <1>6

(* The counter is incremented and id_mutex given back.                     *)
LEMMA IncrementIdInductive ==
  ASSUME InductiveProxy, NEW c \in Connection, IncrementId(c)
  PROVE  InductiveProxy'
<1> USE DEF InductiveProxy
<1>a. /\ step[c] = "increment" /\ step'[c] \in {"receive"}
      /\ \A d \in Connection \ {c} : step'[d] = step[d]
      /\ step' \in [Connection -> {"backlog"} \cup ClientSteps \cup Ended]
      /\ status' \in Status /\ thrown' \in SUBSET Connection
      /\ UNCHANGED <<file, main, id, locals, sent>>
  BY DEF IncrementId, Moves, Throws, Goes, TypeOKProxy, ClientSteps, ServerSteps, Ended
<1>b. /\ id_mutex = c /\ id_mutex' = NULL
      /\ next_client_id' = next_client_id + 1
      /\ next_client_id \in Nat /\ \A d \in Connection : id[d] \in Nat
  BY <1>a DEF IncrementId, IdsInOrder, TypeOKProxy
<1>1. TypeOKProxy'
  BY <1>a DEF IncrementId, TypeOKProxy, locals, ids
<1>2. OwnDescriptors'
  <2>1. /\ step'[c] \in ClientSteps => step[c] \in ClientSteps
        /\ step'[c] \in ServerSteps => step[c] \in ServerSteps
    BY <1>a DEF ClientSteps, ServerSteps
  <2> QED
    BY <1>a, <2>1, SameDescriptors DEF locals
<1>3. AtMostOneReply'
  BY <1>a DEF AtMostOneReply
<1>4. UniqueIds'
  BY <1>a DEF UniqueIds
<1>5. NothingSentYet'
  BY <1>a DEF NothingSentYet
<1>6. IdsInOrder'
  BY <1>a, <1>b, ProxyAssumption DEF IdsInOrder
<1> QED
  BY <1>1, <1>2, <1>3, <1>4, <1>5, <1>6

(* A request arrives, or an exception.                                     *)
LEMMA ReceiveRequestInductive ==
  ASSUME InductiveProxy, NEW c \in Connection, ReceiveRequest(c)
  PROVE  InductiveProxy'
<1> USE DEF InductiveProxy
<1>a. /\ step[c] = "receive" /\ step'[c] \in {"socket", "report", "close"}
      /\ \A d \in Connection \ {c} : step'[d] = step[d]
      /\ step' \in [Connection -> {"backlog"} \cup ClientSteps \cup Ended]
      /\ status' \in Status /\ thrown' \in SUBSET Connection
      /\ UNCHANGED <<file, main, ids, clientFd, serverFd, sent>>
  BY DEF ReceiveRequest, Moves, Throws, Goes, TypeOKProxy, ClientSteps, ServerSteps, Ended
<1>1. TypeOKProxy'
  <2>1. method' \in [Connection -> Method \cup {NULL}]
    BY DEF ReceiveRequest, TypeOKProxy
  <2> QED
    BY <1>a, <2>1 DEF TypeOKProxy, ids
<1>2. OwnDescriptors'
  <2>1. /\ step'[c] \in ClientSteps => step[c] \in ClientSteps
        /\ step'[c] \in ServerSteps => step[c] \in ServerSteps
    BY <1>a DEF ClientSteps, ServerSteps
  <2> QED
    BY <1>a, <2>1, SameDescriptors DEF locals
<1>3. AtMostOneReply'
  BY <1>a DEF AtMostOneReply
<1>4. UniqueIds'
  BY <1>a DEF UniqueIds, ids
<1>5. NothingSentYet'
  BY <1>a DEF NothingSentYet
<1>6. IdsInOrder'
  BY <1>a DEF IdsInOrder, ids
<1> QED
  BY <1>1, <1>2, <1>3, <1>4, <1>5, <1>6

(* The lowest free descriptor becomes the server's.                        *)
LEMMA OpenSocketInductive ==
  ASSUME InductiveProxy, NEW c \in Connection, OpenSocket(c)
  PROVE  InductiveProxy'
<1> USE DEF InductiveProxy
<1>a. /\ step[c] = "socket" /\ step'[c] \in {"report", "connecting", "close"}
      /\ \A d \in Connection \ {c} : step'[d] = step[d]
      /\ step' \in [Connection -> {"backlog"} \cup ClientSteps \cup Ended]
      /\ status' \in Status /\ thrown' \in SUBSET Connection
      /\ UNCHANGED <<main, ids, method, clientFd, sent>>
  BY DEF OpenSocket, Moves, Throws, Goes, TypeOKProxy, ClientSteps, ServerSteps, Ended
<1>1. TypeOKProxy'
  <2>1. file' \in [Fd -> Socket \cup {NULL}] /\ serverFd' \in [Connection -> Fd \cup {NULL}]
    <3>1. file \in [Fd -> Socket \cup {NULL}] /\ serverFd \in [Connection -> Fd \cup {NULL}]
      BY DEF TypeOKProxy
    <3>2. ASSUME NEW f \in Fd, Opens(f, Server(c)), serverFd' = [serverFd EXCEPT ![c] = f]
          PROVE  file' \in [Fd -> Socket \cup {NULL}] /\ serverFd' \in [Connection -> Fd \cup {NULL}]
      BY <3>1, <3>2, Sockets DEF Opens
    <3>3. UNCHANGED <<file, serverFd>> \/ \E f \in Fd : Opens(f, Server(c)) /\ serverFd' = [serverFd EXCEPT ![c] = f]
      BY DEF OpenSocket
    <3> QED
      BY <3>1, <3>2, <3>3
  <2> QED
    BY <1>a, <2>1 DEF TypeOKProxy, ids
<1>2. OwnDescriptors'
  <2>1. CASE UNCHANGED <<file, serverFd>> /\ step'[c] \in {"report", "close"}
    <3>1. (step'[c] \in ClientSteps => step[c] \in ClientSteps) /\ step'[c] \notin ServerSteps
      BY <1>a, <2>1 DEF ClientSteps, ServerSteps
    <3> QED
      BY <1>a, <2>1, <3>1, SameDescriptors
  <2>2. ASSUME NEW f \in Fd, Opens(f, Server(c)), serverFd' = [serverFd EXCEPT ![c] = f]
        PROVE  OwnDescriptors'
    <3>1. ASSUME NEW d \in Connection, step[d] \in ClientSteps
          PROVE  /\ file'[clientFd[d]] = Client(d)
                 /\ step[d] \in ServerSteps => file'[serverFd[d]] = Server(d)
      BY <2>2, <3>1, Sockets, DescriptorOpened
    <3>2. step[c] \in ClientSteps /\ file'[f] = Server(c) /\ serverFd'[c] = f
      BY <1>a, <2>2 DEF ClientSteps, Opens, TypeOKProxy
    <3>3. \A d \in Connection \ {c} : serverFd'[d] = serverFd[d]
      BY <2>2 DEF TypeOKProxy
    <3>4. \A d \in Connection : step[d] \in ServerSteps => step[d] \in ClientSteps
      BY DEF ClientSteps
    <3> QED
      BY <1>a, <3>1, <3>2, <3>3, <3>4 DEF OwnDescriptors
  <2> QED
    BY <1>a, <2>1, <2>2 DEF OpenSocket, Moves, Throws, Goes, TypeOKProxy
<1>3. AtMostOneReply'
  BY <1>a DEF AtMostOneReply
<1>4. UniqueIds'
  BY <1>a DEF UniqueIds, ids
<1>5. NothingSentYet'
  BY <1>a DEF NothingSentYet
<1>6. IdsInOrder'
  BY <1>a DEF IdsInOrder, ids
<1> QED
  BY <1>1, <1>2, <1>3, <1>4, <1>5, <1>6

(* connect succeeds or throws.                                             *)
LEMMA ConnectInductive ==
  ASSUME InductiveProxy, NEW c \in Connection, Connect(c)
  PROVE  InductiveProxy'
<1> USE DEF InductiveProxy
<1>a. /\ step[c] = "connecting" /\ step'[c] \in {"act", "close"}
      /\ \A d \in Connection \ {c} : step'[d] = step[d]
      /\ step' \in [Connection -> {"backlog"} \cup ClientSteps \cup Ended]
      /\ status' \in Status /\ thrown' \in SUBSET Connection
      /\ UNCHANGED <<file, main, ids, locals, sent>>
  BY DEF Connect, Moves, Throws, Goes, TypeOKProxy, ClientSteps, ServerSteps, Ended
<1>1. TypeOKProxy'
  BY <1>a DEF TypeOKProxy, locals, ids
<1>2. OwnDescriptors'
  <2>1. /\ step'[c] \in ClientSteps => step[c] \in ClientSteps
        /\ step'[c] \in ServerSteps => step[c] \in ServerSteps
    BY <1>a DEF ClientSteps, ServerSteps
  <2> QED
    BY <1>a, <2>1, SameDescriptors DEF locals
<1>3. AtMostOneReply'
  BY <1>a DEF AtMostOneReply
<1>4. UniqueIds'
  BY <1>a DEF UniqueIds, ids
<1>5. NothingSentYet'
  BY <1>a DEF NothingSentYet
<1>6. IdsInOrder'
  BY <1>a DEF IdsInOrder, ids
<1> QED
  BY <1>1, <1>2, <1>3, <1>4, <1>5, <1>6

(* The method is chosen, or an exception thrown.                           *)
LEMMA MethodActInductive ==
  ASSUME InductiveProxy, NEW c \in Connection, MethodAct(c)
  PROVE  InductiveProxy'
<1> USE DEF InductiveProxy
<1>a. /\ step[c] = "act" /\ step'[c] \in {"send", "reply", "establish", "report", "close"}
      /\ \A d \in Connection \ {c} : step'[d] = step[d]
      /\ step' \in [Connection -> {"backlog"} \cup ClientSteps \cup Ended]
      /\ status' \in Status /\ thrown' \in SUBSET Connection
      /\ UNCHANGED <<file, main, ids, locals, sent>>
  BY DEF MethodAct, Moves, Throws, Goes, TypeOKProxy, ClientSteps, ServerSteps, Ended
<1>1. TypeOKProxy'
  BY <1>a DEF TypeOKProxy, locals, ids
<1>2. OwnDescriptors'
  <2>1. /\ step'[c] \in ClientSteps => step[c] \in ClientSteps
        /\ step'[c] \in ServerSteps => step[c] \in ServerSteps
    BY <1>a DEF ClientSteps, ServerSteps
  <2> QED
    BY <1>a, <2>1, SameDescriptors DEF locals
<1>3. AtMostOneReply'
  BY <1>a DEF AtMostOneReply
<1>4. UniqueIds'
  BY <1>a DEF UniqueIds, ids
<1>5. NothingSentYet'
  BY <1>a DEF NothingSentYet
<1>6. IdsInOrder'
  BY <1>a DEF IdsInOrder, ids
<1> QED
  BY <1>1, <1>2, <1>3, <1>4, <1>5, <1>6

(* The request is sent, or an exception thrown.                            *)
LEMMA SendRequestInductive ==
  ASSUME InductiveProxy, NEW c \in Connection, SendRequest(c)
  PROVE  InductiveProxy'
<1> USE DEF InductiveProxy
<1>a. /\ step[c] = "send" /\ step'[c] \in {"await", "report"}
      /\ \A d \in Connection \ {c} : step'[d] = step[d]
      /\ step' \in [Connection -> {"backlog"} \cup ClientSteps \cup Ended]
      /\ status' \in Status /\ thrown' \in SUBSET Connection
      /\ UNCHANGED <<file, main, ids, locals, sent>>
  BY DEF SendRequest, Moves, Throws, Goes, TypeOKProxy, ClientSteps, ServerSteps, Ended
<1>1. TypeOKProxy'
  BY <1>a DEF TypeOKProxy, locals, ids
<1>2. OwnDescriptors'
  <2>1. /\ step'[c] \in ClientSteps => step[c] \in ClientSteps
        /\ step'[c] \in ServerSteps => step[c] \in ServerSteps
    BY <1>a DEF ClientSteps, ServerSteps
  <2> QED
    BY <1>a, <2>1, SameDescriptors DEF locals
<1>3. AtMostOneReply'
  BY <1>a DEF AtMostOneReply
<1>4. UniqueIds'
  BY <1>a DEF UniqueIds, ids
<1>5. NothingSentYet'
  BY <1>a DEF NothingSentYet
<1>6. IdsInOrder'
  BY <1>a DEF IdsInOrder, ids
<1> QED
  BY <1>1, <1>2, <1>3, <1>4, <1>5, <1>6

(* The response arrives, or an exception.                                  *)
LEMMA ReceiveResponseInductive ==
  ASSUME InductiveProxy, NEW c \in Connection, ReceiveResponse(c)
  PROVE  InductiveProxy'
<1> USE DEF InductiveProxy
<1>a. /\ step[c] = "await" /\ step'[c] \in {"reply", "report", "finish", "close"}
      /\ \A d \in Connection \ {c} : step'[d] = step[d]
      /\ step' \in [Connection -> {"backlog"} \cup ClientSteps \cup Ended]
      /\ status' \in Status /\ thrown' \in SUBSET Connection
      /\ UNCHANGED <<file, main, ids, locals, sent>>
  BY DEF ReceiveResponse, Moves, Throws, Goes, TypeOKProxy, ClientSteps, ServerSteps, Ended
<1>1. TypeOKProxy'
  BY <1>a DEF TypeOKProxy, locals, ids
<1>2. OwnDescriptors'
  <2>1. /\ step'[c] \in ClientSteps => step[c] \in ClientSteps
        /\ step'[c] \in ServerSteps => step[c] \in ServerSteps
    BY <1>a DEF ClientSteps, ServerSteps
  <2> QED
    BY <1>a, <2>1, SameDescriptors DEF locals
<1>3. AtMostOneReply'
  BY <1>a DEF AtMostOneReply
<1>4. UniqueIds'
  BY <1>a DEF UniqueIds, ids
<1>5. NothingSentYet'
  BY <1>a DEF NothingSentYet
<1>6. IdsInOrder'
  BY <1>a DEF IdsInOrder, ids
<1> QED
  BY <1>1, <1>2, <1>3, <1>4, <1>5, <1>6

(* The response is sent, or an exception thrown.                           *)
LEMMA ReplyToInductive ==
  ASSUME InductiveProxy, NEW c \in Connection, ReplyTo(c)
  PROVE  InductiveProxy'
<1> USE DEF InductiveProxy
<1>a. /\ step[c] = "reply" /\ step'[c] \in {"finish", "close"}
      /\ \A d \in Connection \ {c} : step'[d] = step[d]
      /\ step' \in [Connection -> {"backlog"} \cup ClientSteps \cup Ended]
      /\ status' \in Status /\ thrown' \in SUBSET Connection
      /\ UNCHANGED <<file, main, ids, locals>>
  BY DEF ReplyTo, Moves, Throws, Goes, Sends, TypeOKProxy, ClientSteps, ServerSteps, Ended
<1>b. /\ sent' \in [Connection -> Seq({"response", "established", "error"})]
      /\ AtMostOneReply'
      /\ \A d \in Connection \ {c} : sent'[d] = sent[d]
  <2>1. sent' = [sent EXCEPT ![c] = Append(sent[c], "response")] \/ UNCHANGED sent
    BY DEF ReplyTo, Sends
  <2> QED
    BY <1>a, <2>1, FirstReply
<1>1. TypeOKProxy'
  BY <1>a, <1>b DEF TypeOKProxy, locals, ids
<1>2. OwnDescriptors'
  <2>1. /\ step'[c] \in ClientSteps => step[c] \in ClientSteps
        /\ step'[c] \in ServerSteps => step[c] \in ServerSteps
    BY <1>a DEF ClientSteps, ServerSteps
  <2> QED
    BY <1>a, <2>1, SameDescriptors DEF locals
<1>3. AtMostOneReply'
  BY <1>b
<1>4. UniqueIds'
  BY <1>a DEF UniqueIds, ids
<1>5. NothingSentYet'
  BY <1>a, <1>b DEF NothingSentYet
<1>6. IdsInOrder'
  BY <1>a DEF IdsInOrder, ids
<1> QED
  BY <1>1, <1>2, <1>3, <1>4, <1>5, <1>6

(* The tunnel is announced, or an exception thrown.                        *)
LEMMA EstablishInductive ==
  ASSUME InductiveProxy, NEW c \in Connection, Establish(c)
  PROVE  InductiveProxy'
<1> USE DEF InductiveProxy
<1>a. /\ step[c] = "establish" /\ step'[c] \in {"tunnel", "close"}
      /\ \A d \in Connection \ {c} : step'[d] = step[d]
      /\ step' \in [Connection -> {"backlog"} \cup ClientSteps \cup Ended]
      /\ status' \in Status /\ thrown' \in SUBSET Connection
      /\ UNCHANGED <<file, main, ids, locals>>
  BY DEF Establish, Moves, Throws, Goes, Sends, TypeOKProxy, ClientSteps, ServerSteps, Ended
<1>b. /\ sent' \in [Connection -> Seq({"response", "established", "error"})]
      /\ AtMostOneReply'
      /\ \A d \in Connection \ {c} : sent'[d] = sent[d]
  <2>1. sent' = [sent EXCEPT ![c] = Append(sent[c], "established")] \/ UNCHANGED sent
    BY DEF Establish, Sends
  <2> QED
    BY <1>a, <2>1, FirstReply
<1>1. TypeOKProxy'
  BY <1>a, <1>b DEF TypeOKProxy, locals, ids
<1>2. OwnDescriptors'
  <2>1. /\ step'[c] \in ClientSteps => step[c] \in ClientSteps
        /\ step'[c] \in ServerSteps => step[c] \in ServerSteps
    BY <1>a DEF ClientSteps, ServerSteps
  <2> QED
    BY <1>a, <2>1, SameDescriptors DEF locals
<1>3. AtMostOneReply'
  BY <1>b
<1>4. UniqueIds'
  BY <1>a DEF UniqueIds, ids
<1>5. NothingSentYet'
  BY <1>a, <1>b DEF NothingSentYet
<1>6. IdsInOrder'
  BY <1>a DEF IdsInOrder, ids
<1> QED
  BY <1>1, <1>2, <1>3, <1>4, <1>5, <1>6

(* The tunnel ends.                                                        *)
LEMMA TunnelEndsInductive ==
  ASSUME InductiveProxy, NEW c \in Connection, TunnelEnds(c)
  PROVE  InductiveProxy'
<1> USE DEF InductiveProxy
<1>a. /\ step[c] = "tunnel" /\ step'[c] \in {"finish", "close"}
      /\ \A d \in Connection \ {c} : step'[d] = step[d]
      /\ step' \in [Connection -> {"backlog"} \cup ClientSteps \cup Ended]
      /\ status' \in Status /\ thrown' \in SUBSET Connection
      /\ UNCHANGED <<file, main, ids, locals, sent>>
  BY DEF TunnelEnds, Moves, Throws, Goes, TypeOKProxy, ClientSteps, ServerSteps, Ended
<1>1. TypeOKProxy'
  BY <1>a DEF TypeOKProxy, locals, ids
<1>2. OwnDescriptors'
  <2>1. /\ step'[c] \in ClientSteps => step[c] \in ClientSteps
        /\ step'[c] \in ServerSteps => step[c] \in ServerSteps
    BY <1>a DEF ClientSteps, ServerSteps
  <2> QED
    BY <1>a, <2>1, SameDescriptors DEF locals
<1>3. AtMostOneReply'
  BY <1>a DEF AtMostOneReply
<1>4. UniqueIds'
  BY <1>a DEF UniqueIds, ids
<1>5. NothingSentYet'
  BY <1>a DEF NothingSentYet
<1>6. IdsInOrder'
  BY <1>a DEF IdsInOrder, ids
<1> QED
  BY <1>1, <1>2, <1>3, <1>4, <1>5, <1>6

(* The server's descriptor is closed.                                      *)
LEMMA CloseServerInductive ==
  ASSUME InductiveProxy, NEW c \in Connection, CloseServer(c)
  PROVE  InductiveProxy'
<1> USE DEF InductiveProxy
<1>a. /\ step[c] = "finish" /\ step'[c] \in {"close"}
      /\ \A d \in Connection \ {c} : step'[d] = step[d]
      /\ step' \in [Connection -> {"backlog"} \cup ClientSteps \cup Ended]
      /\ status' \in Status /\ thrown' \in SUBSET Connection
      /\ UNCHANGED <<main, ids, locals, sent>>
  BY DEF CloseServer, Moves, Throws, Goes, TypeOKProxy, ClientSteps, ServerSteps, Ended
<1>b. serverFd[c] \in Fd /\ file[serverFd[c]] = Server(c) /\ Closes(serverFd[c])
  BY <1>a DEF CloseServer, OwnDescriptors, ClientSteps, ServerSteps
<1>1. TypeOKProxy'
  <2>1. file' \in [Fd -> Socket \cup {NULL}]
    BY <1>b DEF Closes, TypeOKProxy
  <2> QED
    BY <1>a, <2>1 DEF TypeOKProxy, ids, locals
<1>2. OwnDescriptors'
  <2>1. ASSUME NEW d \in Connection \ {c}
        PROVE  /\ step[d] \in ClientSteps => file'[clientFd[d]] = Client(d)
               /\ step[d] \in ServerSteps => file'[serverFd[d]] = Server(d)
    BY <1>b, DescriptorClosed
  <2>2. clientFd[c] \in Fd /\ file[clientFd[c]] = Client(c) /\ clientFd[c] # serverFd[c]
    BY <1>a, <1>b, Sockets DEF OwnDescriptors, ClientSteps, ServerSteps
  <2>3. file'[clientFd[c]] = Client(c) /\ step'[c] \notin ServerSteps
    BY <1>a, <1>b, <2>2 DEF Closes, TypeOKProxy, ServerSteps
  <2> QED
    BY <1>a, <2>1, <2>2, <2>3 DEF OwnDescriptors, locals
<1>3. AtMostOneReply'
  BY <1>a DEF AtMostOneReply
<1>4. UniqueIds'
  BY <1>a DEF UniqueIds, ids
<1>5. NothingSentYet'
  BY <1>a DEF NothingSentYet
<1>6. IdsInOrder'
  BY <1>a DEF IdsInOrder, ids
<1> QED
  BY <1>1, <1>2, <1>3, <1>4, <1>5, <1>6

(* The error status is sent, or an exception thrown.                       *)
LEMMA SendErrorStatusInductive ==
  ASSUME InductiveProxy, NEW c \in Connection, SendErrorStatus(c)
  PROVE  InductiveProxy'
<1> USE DEF InductiveProxy
<1>a. /\ step[c] = "report" /\ step'[c] \in {"close"}
      /\ \A d \in Connection \ {c} : step'[d] = step[d]
      /\ step' \in [Connection -> {"backlog"} \cup ClientSteps \cup Ended]
      /\ status' \in Status /\ thrown' \in SUBSET Connection
      /\ UNCHANGED <<file, main, ids, locals>>
  BY DEF SendErrorStatus, Moves, Throws, Goes, Sends, TypeOKProxy, ClientSteps, ServerSteps, Ended
<1>b. /\ sent' \in [Connection -> Seq({"response", "established", "error"})]
      /\ AtMostOneReply'
      /\ \A d \in Connection \ {c} : sent'[d] = sent[d]
  <2>1. sent' = [sent EXCEPT ![c] = Append(sent[c], "error")] \/ UNCHANGED sent
    BY DEF SendErrorStatus, Sends
  <2> QED
    BY <1>a, <2>1, FirstReply
<1>1. TypeOKProxy'
  BY <1>a, <1>b DEF TypeOKProxy, locals, ids
<1>2. OwnDescriptors'
  <2>1. /\ step'[c] \in ClientSteps => step[c] \in ClientSteps
        /\ step'[c] \in ServerSteps => step[c] \in ServerSteps
    BY <1>a DEF ClientSteps, ServerSteps
  <2> QED
    BY <1>a, <2>1, SameDescriptors DEF locals
<1>3. AtMostOneReply'
  BY <1>b
<1>4. UniqueIds'
  BY <1>a DEF UniqueIds, ids
<1>5. NothingSentYet'
  BY <1>a, <1>b DEF NothingSentYet
<1>6. IdsInOrder'
  BY <1>a DEF IdsInOrder, ids
<1> QED
  BY <1>1, <1>2, <1>3, <1>4, <1>5, <1>6

(* The client's descriptor is closed.                                      *)
LEMMA CloseClientInductive ==
  ASSUME InductiveProxy, NEW c \in Connection, CloseClient(c)
  PROVE  InductiveProxy'
<1> USE DEF InductiveProxy
<1>a. /\ step[c] = "close" /\ step'[c] \in {"closed"}
      /\ \A d \in Connection \ {c} : step'[d] = step[d]
      /\ step' \in [Connection -> {"backlog"} \cup ClientSteps \cup Ended]
      /\ status' \in Status /\ thrown' \in SUBSET Connection
      /\ UNCHANGED <<main, ids, locals, sent>>
  BY DEF CloseClient, Moves, Throws, Goes, TypeOKProxy, ClientSteps, ServerSteps, Ended
<1>b. clientFd[c] \in Fd /\ file[clientFd[c]] = Client(c) /\ Closes(clientFd[c])
  BY <1>a DEF CloseClient, OwnDescriptors, ClientSteps, ServerSteps
<1>1. TypeOKProxy'
  <2>1. file' \in [Fd -> Socket \cup {NULL}]
    BY <1>b DEF Closes, TypeOKProxy
  <2> QED
    BY <1>a, <2>1 DEF TypeOKProxy, ids, locals
<1>2. OwnDescriptors'
  <2>1. ASSUME NEW d \in Connection \ {c}
        PROVE  /\ step[d] \in ClientSteps => file'[clientFd[d]] = Client(d)
               /\ step[d] \in ServerSteps => file'[serverFd[d]] = Server(d)
    BY <1>b, DescriptorClosed
  <2>2. step'[c] \notin ClientSteps /\ step'[c] \notin ServerSteps
    BY <1>a DEF ClientSteps, ServerSteps
  <2> QED
    BY <1>a, <2>1, <2>2 DEF OwnDescriptors, locals
<1>3. AtMostOneReply'
  BY <1>a DEF AtMostOneReply
<1>4. UniqueIds'
  BY <1>a DEF UniqueIds, ids
<1>5. NothingSentYet'
  BY <1>a DEF NothingSentYet
<1>6. IdsInOrder'
  BY <1>a DEF IdsInOrder, ids
<1> QED
  BY <1>1, <1>2, <1>3, <1>4, <1>5, <1>6

(* A signal ends the process.                                              *)
LEMMA KilledInductive ==
  ASSUME InductiveProxy, NEW c \in Connection, NEW steps, Killed(c, steps)
  PROVE  InductiveProxy'
  BY DEF InductiveProxy, TypeOKProxy, Status, OwnDescriptors, AtMostOneReply, UniqueIds,
         NothingSentYet, IdsInOrder, Killed, locals, ids

(* Nothing happens.                                                        *)
LEMMA UnchangedInductive ==
  ASSUME InductiveProxy, UNCHANGED proxyVars
  PROVE  InductiveProxy'
  BY DEF InductiveProxy, TypeOKProxy, OwnDescriptors, AtMostOneReply, UniqueIds, NothingSentYet,
         IdsInOrder, proxyVars, locals, ids

(* Every step preserves the inductive invariant.                           *)
LEMMA NextInductiveProxy == InductiveProxy /\ [NextProxy]_proxyVars => InductiveProxy'
<1> SUFFICES ASSUME InductiveProxy, [NextProxy]_proxyVars PROVE InductiveProxy'
  OBVIOUS
<1>1. CASE UNCHANGED proxyVars \/ Waiting \/ Down
  BY <1>1, UnchangedInductive DEF Waiting, Down
<1>2. ASSUME NEW c \in Connection, SendKills(c) \/ Crash(c) PROVE InductiveProxy'
  BY <1>2, KilledInductive DEF SendKills, Crash
<1>3. ASSUME NEW c \in Connection, Accept(c) \/ StartThread(c) \/ Handle(c) \/ ReceiveResponse(c)
      PROVE  InductiveProxy'
  <2>1. CASE Accept(c)
    BY <2>1, AcceptInductive
  <2>2. CASE StartThread(c)
    BY <2>2, StartThreadInductive
  <2>3. CASE ReadId(c)
    BY <2>3, ReadIdInductive
  <2>4. CASE IncrementId(c)
    BY <2>4, IncrementIdInductive
  <2>5. CASE ReceiveRequest(c)
    BY <2>5, ReceiveRequestInductive
  <2>6. CASE OpenSocket(c)
    BY <2>6, OpenSocketInductive
  <2>7. CASE Connect(c)
    BY <2>7, ConnectInductive
  <2>8. CASE MethodAct(c)
    BY <2>8, MethodActInductive
  <2>9. CASE SendRequest(c)
    BY <2>9, SendRequestInductive
  <2>10. CASE ReceiveResponse(c)
    BY <2>10, ReceiveResponseInductive
  <2>11. CASE ReplyTo(c)
    BY <2>11, ReplyToInductive
  <2>12. CASE Establish(c)
    BY <2>12, EstablishInductive
  <2>13. CASE TunnelEnds(c)
    BY <2>13, TunnelEndsInductive
  <2>14. CASE CloseServer(c)
    BY <2>14, CloseServerInductive
  <2>15. CASE SendErrorStatus(c)
    BY <2>15, SendErrorStatusInductive
  <2>16. CASE CloseClient(c)
    BY <2>16, CloseClientInductive
  <2> QED
    BY <1>3, <2>1, <2>2, <2>3, <2>4, <2>5, <2>6, <2>7, <2>8, <2>9, <2>10, <2>11, <2>12, <2>13, <2>14, <2>15, <2>16 DEF Handle
<1> QED
  BY <1>1, <1>2, <1>3 DEF NextProxy

(* The inductive invariant holds in every reachable state.                 *)
THEOREM InductiveProxyHolds == SpecProxy => []InductiveProxy
  BY InitInductiveProxy, NextInductiveProxy, PTL DEF SpecProxy

(* Every descriptor, step and id keeps its type: a thread never goes on    *)
(* with the -1 of a failed socket as its descriptor (TcpConnector.cpp:67). *)
THEOREM TypeCorrectnessProxy == SpecProxy => []TypeOKProxy
<1>1. InductiveProxy => TypeOKProxy
  BY DEF InductiveProxy
<1> QED
  BY <1>1, InductiveProxyHolds, PTL

(* No thread ever uses or closes a descriptor that stands for another      *)
(* connection's socket, for any number of connections and any limit on     *)
(* descriptors (HttpProxy.cpp:51-87).                                      *)
THEOREM DescriptorOwnership == SpecProxy => []OwnDescriptors
<1>1. InductiveProxy => OwnDescriptors
  BY DEF InductiveProxy
<1> QED
  BY <1>1, InductiveProxyHolds, PTL

(* No client is sent a second response (HttpProxy.cpp:68-73).              *)
THEOREM SingleReply == SpecProxy => []AtMostOneReply
<1>1. InductiveProxy => AtMostOneReply
  BY DEF InductiveProxy
<1> QED
  BY <1>1, InductiveProxyHolds, PTL

(* No two connections share a client id (HttpProxy.cpp:7-14).              *)
THEOREM DistinctIds == SpecProxy => []UniqueIds
<1>1. InductiveProxy => UniqueIds
  BY DEF InductiveProxy
<1> QED
  BY <1>1, InductiveProxyHolds, PTL

-----------------------------------------------------------------------------
(* The descriptors that are left open.                                     *)

(* A tunnel begins with its own message and not with a response.           *)
TunnelUnanswered == \A c \in Connection : step[c] = "tunnel" => sent[c] # <<"response">>

(* A thread that has thrown an exception only reports it and closes.       *)
ThrownIsOver == \A c \in thrown : step[c] \in {"report", "close", "closed"}

Accounted == OnlyExceptionsLeak /\ TunnelUnanswered /\ ThrownIsOver

(* The steps at which a thread may know a server's descriptor.             *)
HasServer(c) == step[c] \in ServerSteps \/ Failed(c)

LEMMA AccountedInit == InitProxy => Accounted
BY Sockets DEF InitProxy, Accounted, OnlyExceptionsLeak, TunnelUnanswered, ThrownIsOver

(* A step of c's thread that opens and closes nothing.                     *)
LEMMA AccountLasts ==
  ASSUME TypeOKProxy, Accounted, NEW c \in Connection,
         UNCHANGED <<file, clientFd, serverFd>>,
         \A d \in Connection \ {c} : step'[d] = step[d] /\ sent'[d] = sent[d],
         step[c] \in ClientSteps => step'[c] \in ClientSteps \cup {"abandoned"},
         HasServer(c) => HasServer(c)',
         step[c] # "abandoned", step'[c] = "tunnel" => sent'[c] # <<"response">>,
         thrown' \in {thrown, thrown \cup {c}},
         c \in thrown' => step'[c] \in {"report", "close", "closed"}
  PROVE  Accounted'
<1>1. ASSUME NEW d \in Connection \ {c} PROVE HasServer(d)' = HasServer(d)
  BY DEF HasServer, Failed
<1>2. \A d \in Connection : HasServer(d) => HasServer(d)'
  BY <1>1
<1>3. \A d \in Connection : step[d] \in ClientSteps \cup {"abandoned"} =>
                             step'[d] \in ClientSteps \cup {"abandoned"}
  OBVIOUS
<1>4. OnlyExceptionsLeak'
  <2>1. \A f \in Fd, d \in Connection :
          /\ file[f] = Client(d) => f = clientFd[d] /\ step[d] \in ClientSteps \cup {"abandoned"}
          /\ file[f] = Server(d) => f = serverFd[d] /\ HasServer(d)
    BY DEF Accounted, OnlyExceptionsLeak, HasServer
  <2>2. \A f \in Fd, d \in Connection :
          /\ file'[f] = Client(d) => f = clientFd'[d] /\ step'[d] \in ClientSteps \cup {"abandoned"}
          /\ file'[f] = Server(d) => f = serverFd'[d] /\ HasServer(d)'
    BY <1>2, <1>3, <2>1
  <2> QED
    BY <2>2 DEF OnlyExceptionsLeak, HasServer
<1>5. TunnelUnanswered' /\ ThrownIsOver'
  BY DEF Accounted, TunnelUnanswered, ThrownIsOver, TypeOKProxy
<1> QED
  BY <1>4, <1>5 DEF Accounted

(* A socket is opened for c, of which none was open.                       *)
LEMMA AccountOpens ==
  ASSUME TypeOKProxy, Accounted, NEW c \in Connection, UNCHANGED <<sent, thrown>>,
         \A d \in Connection \ {c} : step'[d] = step[d],
         NEW f \in Fd,
         \/ /\ step[c] = "backlog" /\ step'[c] = "accepted"
            /\ Opens(f, Client(c)) /\ clientFd' = [clientFd EXCEPT ![c] = f] /\ UNCHANGED serverFd
         \/ /\ step[c] = "socket" /\ step'[c] = "connecting"
            /\ Opens(f, Server(c)) /\ serverFd' = [serverFd EXCEPT ![c] = f] /\ UNCHANGED clientFd
  PROVE  Accounted'
<1>1. PICK s \in {Client(c), Server(c)} : Opens(f, s)
  OBVIOUS
<1>2. /\ file \in [Fd -> Socket \cup {NULL}] /\ file' = [file EXCEPT ![f] = s]
      /\ clientFd \in [Connection -> Fd \cup {NULL}] /\ serverFd \in [Connection -> Fd \cup {NULL}]
  BY <1>1 DEF TypeOKProxy, Opens
<1>3. file'[f] = s /\ \A g \in Fd \ {f} : file'[g] = file[g]
  BY <1>2
<1>4. ASSUME NEW d \in Connection \ {c}, NEW g \in Fd
      PROVE  /\ file'[g] = Client(d) => g = clientFd'[d] /\ step'[d] \in ClientSteps \cup {"abandoned"}
             /\ file'[g] = Server(d) => g = serverFd'[d] /\ (step'[d] \in ServerSteps \/ Failed(d)')
  <2>1. Failed(d)' = Failed(d) /\ clientFd'[d] = clientFd[d] /\ serverFd'[d] = serverFd[d]
    BY <1>2 DEF Failed
  <2>2. s # Client(d) /\ s # Server(d)
    BY <1>1, Sockets
  <2>3. file'[g] \in {Client(d), Server(d)} => file'[g] = file[g]
    BY <1>3, <2>2
  <2> QED
    BY <2>1, <2>3 DEF Accounted, OnlyExceptionsLeak
<1>5. ASSUME NEW g \in Fd
      PROVE  /\ file'[g] = Client(c) => g = clientFd'[c] /\ step'[c] \in ClientSteps
             /\ file'[g] = Server(c) => g = serverFd'[c] /\ step'[c] \in ServerSteps
  <2>1. CASE /\ step[c] = "backlog" /\ step'[c] = "accepted"
             /\ Opens(f, Client(c)) /\ clientFd' = [clientFd EXCEPT ![c] = f]
    <3>1. file' = [file EXCEPT ![f] = Client(c)]
      BY <2>1 DEF Opens
    <3>2. file[g] # Client(c) /\ file[g] # Server(c)
      BY <2>1 DEF Accounted, OnlyExceptionsLeak, ThrownIsOver, ClientSteps, ServerSteps, Failed
    <3> QED
      BY <1>2, <2>1, <3>1, <3>2, Sockets DEF ClientSteps
  <2>2. CASE /\ step[c] = "socket" /\ step'[c] = "connecting"
             /\ Opens(f, Server(c)) /\ serverFd' = [serverFd EXCEPT ![c] = f] /\ UNCHANGED clientFd
    <3>1. file' = [file EXCEPT ![f] = Server(c)]
      BY <2>2 DEF Opens
    <3>2. file[g] # Server(c) /\ (file[g] = Client(c) => g = clientFd[c])
      BY <2>2 DEF Accounted, OnlyExceptionsLeak, ThrownIsOver, ServerSteps, Failed
    <3> QED
      BY <1>2, <2>2, <3>1, <3>2, Sockets DEF ClientSteps, ServerSteps
  <2> QED
    BY <2>1, <2>2
<1>6. OnlyExceptionsLeak'
  BY <1>4, <1>5 DEF OnlyExceptionsLeak
<1>7. TunnelUnanswered' /\ ThrownIsOver'
  BY DEF Accounted, TunnelUnanswered, ThrownIsOver, TypeOKProxy
<1> QED
  BY <1>6, <1>7 DEF Accounted

(* A socket of c is closed, and c's thread goes on without it.             *)
LEMMA AccountCloses ==
  ASSUME InductiveProxy, Accounted, NEW c \in Connection,
         UNCHANGED <<clientFd, serverFd, sent, thrown>>, \A d \in Connection \ {c} : step'[d] = step[d],
         \/ step[c] = "finish" /\ step'[c] = "close" /\ Closes(serverFd[c])
         \/ step[c] = "close" /\ step'[c] = "closed" /\ Closes(clientFd[c])
  PROVE  Accounted'
<1>1. file \in [Fd -> Socket \cup {NULL}] /\ NULL \notin Socket
  BY ProxyAssumption DEF InductiveProxy, TypeOKProxy, Socket
<1>2. ASSUME NEW g \in Fd, file'[g] # NULL PROVE file'[g] = file[g]
  BY <1>1, <1>2 DEF Closes
<1>3. ASSUME NEW d \in Connection \ {c}, NEW g \in Fd
      PROVE  /\ file'[g] = Client(d) => g = clientFd[d] /\ step'[d] \in ClientSteps \cup {"abandoned"}
             /\ file'[g] = Server(d) => g = serverFd[d] /\ (step'[d] \in ServerSteps \/ Failed(d)')
  <2>1. Failed(d)' = Failed(d)
    BY DEF Failed
  <2> QED
    BY <1>2, <2>1, Sockets DEF Accounted, OnlyExceptionsLeak
<1>4. ASSUME NEW g \in Fd
      PROVE  /\ file'[g] = Client(c) => g = clientFd[c] /\ step'[c] \in ClientSteps
             /\ file'[g] = Server(c) => g = serverFd[c] /\ (step'[c] \in ServerSteps \/ Failed(c)')
  <2>1. /\ file'[g] = Client(c) => g = clientFd[c]
        /\ file'[g] = Server(c) => g = serverFd[c] /\ (step[c] \in ServerSteps \/ Failed(c))
    BY <1>2, Sockets DEF Accounted, OnlyExceptionsLeak
  <2>2. CASE step[c] = "finish" /\ step'[c] = "close" /\ Closes(serverFd[c])
    <3>1. g = serverFd[c] => file'[g] = NULL
      BY <1>1, <2>2 DEF Closes
    <3> QED
      BY <2>1, <2>2, <3>1, Sockets DEF ClientSteps
  <2>3. CASE step[c] = "close" /\ step'[c] = "closed" /\ Closes(clientFd[c])
    <3>1. g = clientFd[c] => file'[g] = NULL
      BY <1>1, <2>3 DEF Closes
    <3>2. step[c] \notin ServerSteps /\ (Failed(c) => Failed(c)')
      BY <2>3 DEF ServerSteps, Failed
    <3> QED
      BY <2>1, <3>1, <3>2, Sockets
  <2> QED
    BY <2>2, <2>3
<1>5. OnlyExceptionsLeak'
  BY <1>3, <1>4 DEF OnlyExceptionsLeak
<1>6. TunnelUnanswered' /\ ThrownIsOver'
  BY DEF Accounted, TunnelUnanswered, ThrownIsOver, InductiveProxy, TypeOKProxy
<1> QED
  BY <1>5, <1>6 DEF Accounted

(* A step within exec that sends nothing: what it leaves behind by an      *)
(* exception had not been answered.                                        *)
LEMMA AccountQuiet ==
  ASSUME InductiveProxy, Accounted, NEW c \in Connection,
         UNCHANGED <<file, clientFd, serverFd, sent>>,
         \A d \in Connection \ {c} : step'[d] = step[d],
         \/ /\ step[c] \in {"accepted", "assign", "increment", "receive", "socket"}
            /\ step'[c] \in {"abandoned", "assign", "increment", "receive", "socket", "report", "close"}
         \/ /\ step[c] \in {"connecting", "act", "send", "await"}
            /\ step'[c] \in ServerSteps \cup {"report", "close"} /\ step'[c] # "tunnel"
         \/ step[c] = "tunnel" /\ step'[c] \in {"finish", "close"},
         IF step'[c] \in {"report", "close"} THEN thrown' = thrown \cup {c} ELSE UNCHANGED thrown
  PROVE  Accounted'
<1>1. step[c] # "abandoned" /\ step'[c] \in ClientSteps \cup {"abandoned"} /\ step'[c] # "tunnel"
  BY DEF ClientSteps, ServerSteps
<1>2. HasServer(c) => HasServer(c)'
  <2>1. c \notin thrown
    BY DEF Accounted, ThrownIsOver
  <2>2. step[c] \in {"connecting", "act", "send", "await"} => sent[c] # <<"response">>
    <3>1. << >> # <<"response">>
      OBVIOUS
    <3> QED
      BY <3>1 DEF InductiveProxy, NothingSentYet
  <2>3. step[c] = "tunnel" => sent[c] # <<"response">>
    BY DEF Accounted, TunnelUnanswered
  <2> QED
    BY <2>1, <2>2, <2>3 DEF HasServer, Failed, ServerSteps
<1>3. c \notin thrown
  BY DEF Accounted, ThrownIsOver
<1> QED
  BY <1>1, <1>2, <1>3, AccountLasts DEF InductiveProxy

(* A step that sends r, or fails to.                                       *)
LEMMA AccountSends ==
  ASSUME InductiveProxy, Accounted, NEW c \in Connection, UNCHANGED <<file, clientFd, serverFd>>,
         NEW r \in {"response", "established", "error"}, NEW from, NEW to, Sends(c, r, from, to),
         <<r, from, to>> \in {<<"response", "reply", "finish">>,
                             <<"established", "establish", "tunnel">>,
                             <<"error", "report", "close">>}
  PROVE  Accounted'
<1>1. /\ step \in [Connection -> {"backlog"} \cup ClientSteps \cup Ended]
      /\ sent \in [Connection -> Seq({"response", "established", "error"})]
  BY DEF InductiveProxy, TypeOKProxy
<1>2. /\ step[c] = from /\ step'[c] \in {to, "close"}
      /\ \A d \in Connection \ {c} : step'[d] = step[d] /\ sent'[d] = sent[d]
      /\ \/ sent'[c] = Append(sent[c], r) /\ step'[c] = to /\ UNCHANGED thrown
         \/ sent'[c] = sent[c] /\ step'[c] = "close" /\ thrown' = thrown \cup {c}
  BY <1>1 DEF Sends, Moves, Throws, Goes
<1>3. \/ r = "response" /\ from = "reply" /\ to = "finish"
      \/ r = "established" /\ from = "establish" /\ to = "tunnel"
      \/ r = "error" /\ from = "report" /\ to = "close"
  OBVIOUS
<1>4. step[c] \in {"reply", "establish", "report"}
  BY <1>2, <1>3
<1>5. sent[c] = << >>
  BY <1>4 DEF InductiveProxy, NothingSentYet
<1>6. sent'[c] = <<r>> \/ sent'[c] = << >>
  BY <1>2, <1>5
<1>7. sent'[c] = <<"response">> => r = "response" /\ step'[c] = "finish"
  <2>1. << >> # <<"response">> /\ <<"established">> # <<"response">> /\ <<"error">> # <<"response">>
    OBVIOUS
  <2> QED
    BY <1>2, <1>3, <1>5, <1>6, <2>1
<1>8. step[c] # "abandoned" /\ step'[c] \in ClientSteps
  BY <1>2, <1>3 DEF ClientSteps, ServerSteps
<1>9. step[c] # "report" => c \notin thrown
  BY <1>4 DEF Accounted, ThrownIsOver
<1>10. HasServer(c) => HasServer(c)'
  <2>1. CASE step'[c] \in ServerSteps
    BY <2>1 DEF HasServer
  <2>2. CASE step'[c] = "close" /\ thrown' = thrown \cup {c}
    BY <1>3, <1>7, <2>2 DEF HasServer, Failed
  <2>3. CASE r = "error" /\ step'[c] = "close" /\ UNCHANGED thrown
    BY <1>2, <1>3, <1>7, <2>3 DEF HasServer, Failed, ServerSteps
  <2> QED
    BY <1>2, <1>3, <2>1, <2>2, <2>3 DEF ServerSteps
<1>11. step'[c] = "tunnel" => sent'[c] # <<"response">>
  BY <1>7
<1>12. thrown' \in {thrown, thrown \cup {c}} /\ (c \in thrown' => step'[c] = "close")
  BY <1>2, <1>3, <1>9
<1> QED
  BY <1>2, <1>8, <1>10, <1>11, <1>12, AccountLasts DEF InductiveProxy

LEMMA AccountedStep ==
  ASSUME InductiveProxy, Accounted, [NextProxy]_proxyVars
  PROVE  Accounted'
<1>1. step \in [Connection -> {"backlog"} \cup ClientSteps \cup Ended]
  BY DEF InductiveProxy, TypeOKProxy
<1>2. CASE UNCHANGED proxyVars \/ Waiting \/ Down \/ \E c \in Connection : SendKills(c) \/ Crash(c)
  BY <1>2 DEF Waiting, Down, SendKills, Crash, Killed, proxyVars, locals, Accounted,
                 OnlyExceptionsLeak, TunnelUnanswered, ThrownIsOver, Failed
<1>3. ASSUME NEW c \in Connection, Accept(c) PROVE Accounted'
  <2>1. PICK f \in Fd : Opens(f, Client(c)) /\ clientFd' = [clientFd EXCEPT ![c] = f]
    BY <1>3 DEF Accept
  <2> QED
    BY <1>1, <1>3, <2>1, AccountOpens DEF Accept, Moves, Throws, Goes, InductiveProxy
<1>4. ASSUME NEW c \in Connection, OpenSocket(c) PROVE Accounted'
  <2>1. CASE \E f \in Fd : Opens(f, Server(c)) /\ serverFd' = [serverFd EXCEPT ![c] = f]
             /\ Moves(c, "socket", "connecting")
    BY <1>1, <1>4, <2>1, AccountOpens DEF OpenSocket, Moves, Throws, Goes, InductiveProxy
  <2>2. CASE UNCHANGED <<file, serverFd>> /\ (Throws(c, "socket", "report") \/ Throws(c, "socket", "close"))
    <3>1. /\ UNCHANGED <<file, clientFd, serverFd, sent>>
          /\ \A d \in Connection \ {c} : step'[d] = step[d]
          /\ step[c] = "socket" /\ step'[c] \in {"report", "close"} /\ thrown' = thrown \cup {c}
      BY <1>1, <1>4, <2>2 DEF OpenSocket, Moves, Throws, Goes
    <3> QED
      BY <3>1, AccountQuiet
  <2> QED
    BY <1>4, <2>1, <2>2 DEF OpenSocket
<1>5. ASSUME NEW c \in Connection,
             StartThread(c) \/ ReadId(c) \/ IncrementId(c) \/ ReceiveRequest(c) PROVE Accounted'
  <2>1. /\ UNCHANGED <<file, clientFd, serverFd, sent>>
        /\ \A d \in Connection \ {c} : step'[d] = step[d]
        /\ step[c] \in {"accepted", "assign", "increment", "receive"}
        /\ step'[c] \in {"abandoned", "assign", "increment", "receive", "socket", "report", "close"}
        /\ IF step'[c] \in {"report", "close"} THEN thrown' = thrown \cup {c} ELSE UNCHANGED thrown
    BY <1>1, <1>5 DEF StartThread, ReadId, IncrementId, ReceiveRequest, Moves, Throws, Goes, locals
  <2> QED
    BY <2>1, AccountQuiet
<1>6. ASSUME NEW c \in Connection,
             Connect(c) \/ MethodAct(c) \/ SendRequest(c) \/ ReceiveResponse(c) PROVE Accounted'
  <2>1. /\ UNCHANGED <<file, clientFd, serverFd, sent>>
        /\ \A d \in Connection \ {c} : step'[d] = step[d]
        /\ step[c] \in {"connecting", "act", "send", "await"}
        /\ step'[c] \in {"act", "send", "await", "reply", "establish", "finish", "report", "close"}
        /\ IF step'[c] \in {"report", "close"} THEN thrown' = thrown \cup {c} ELSE UNCHANGED thrown
    BY <1>1, <1>6 DEF Connect, MethodAct, SendRequest, ReceiveResponse, Moves, Throws, Goes, locals
  <2>2. step'[c] \in ServerSteps \cup {"report", "close"} /\ step'[c] # "tunnel"
    BY <2>1 DEF ServerSteps
  <2> QED
    BY <2>1, <2>2, AccountQuiet
<1>7. ASSUME NEW c \in Connection, TunnelEnds(c) PROVE Accounted'
  BY <1>1, <1>7, AccountQuiet DEF TunnelEnds, Moves, Throws, Goes, locals
<1>8. ASSUME NEW c \in Connection, ReplyTo(c) PROVE Accounted'
  BY <1>8, AccountSends DEF ReplyTo, locals
<1>9. ASSUME NEW c \in Connection, Establish(c) PROVE Accounted'
  BY <1>9, AccountSends DEF Establish, locals
<1>10. ASSUME NEW c \in Connection, SendErrorStatus(c) PROVE Accounted'
  BY <1>10, AccountSends DEF SendErrorStatus, locals
<1>11. ASSUME NEW c \in Connection, CloseServer(c) \/ CloseClient(c) PROVE Accounted'
  BY <1>1, <1>11, AccountCloses DEF CloseServer, CloseClient, Moves, Throws, Goes, locals
<1> QED
  BY <1>2, <1>3, <1>4, <1>5, <1>6, <1>7, <1>8, <1>9, <1>10, <1>11 DEF NextProxy, Handle

(* Only exceptions cost descriptors, each at most the one its thread       *)
(* knows, for any number of connections and any limit on descriptors: a    *)
(* thread that ends without one, that of a CONNECT included, has closed    *)
(* both of its own (HttpProxy.cpp:51-87, HttpConnector.cpp:119-129,        *)
(* TcpConnector.cpp:65-76).                                                *)
THEOREM OnlyExceptionsCostDescriptors == SpecProxy => []OnlyExceptionsLeak
<1>1. InductiveProxy /\ Accounted /\ [NextProxy]_proxyVars => Accounted'
  BY AccountedStep
<1>2. Accounted => OnlyExceptionsLeak
  BY DEF Accounted
<1> QED
  BY AccountedInit, <1>1, <1>2, InductiveProxyHolds, PTL DEF SpecProxy
=============================================================================

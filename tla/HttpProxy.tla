------------------------------ MODULE HttpProxy ------------------------------
(***************************************************************************)
(* The class HttpProxy with the sockets of TcpConnector and HttpConnector: *)
(* the accept loop, the detached thread it starts for each connection, and *)
(* the file descriptors, which the threads of one process share.           *)
(*                                                                         *)
(* An exception is a change of step: invalid_argument leads to the handler *)
(* in _exec that sends an error status ("report"), every other exception   *)
(* to the end of exec ("close"), where it has only been logged.  What a    *)
(* GET does with the cache is the subject of GetMethod; here it either     *)
(* needs the origin or does not, and ends in each way it can end.  No      *)
(* exception ends the process; a signal that one thread meets does, and    *)
(* every other connection ends with it (status).                           *)
(***************************************************************************)
EXTENDS Integers, Sequences

CONSTANTS
  Connection,  \* the client connections that arrive
  Fd,          \* the descriptors the process may open, below its limit
  NULL         \* no descriptor, no thread, nothing

ASSUME ProxyAssumption ==
  /\ Fd \subseteq Nat
  /\ NULL \notin Fd \cup Connection \cup [end : {"client", "server"}, of : Connection]

VARIABLES
  file,            \* the socket each descriptor is open on, or NULL
  main,            \* the connection the accept loop is handling
  next_client_id,  \* the static counter
  id_mutex,        \* the connection whose thread holds it, or NULL
  step,            \* where each connection is
  method,          \* the method of the request received
  clientFd,        \* client_socket_fd of each thread
  serverFd,        \* server_socket_fd of each thread
  id,              \* client_id of each thread, 0 before it is assigned
  sent,            \* what has been sent to each client, in order
  status,          \* of the process
  thrown           \* history: the connections whose thread has thrown an exception

locals == <<method, clientFd, serverFd>>
ids == <<next_client_id, id_mutex, id>>
proxyVars == <<file, main, ids, step, locals, sent, status, thrown>>

Method == {"GET", "POST", "CONNECT", "other"}

Socket == [end : {"client", "server"}, of : Connection]
Client(c) == [end |-> "client", of |-> c]
Server(c) == [end |-> "server", of |-> c]

(* The steps at which the thread may still use its server descriptor.      *)
ServerSteps == {"connecting", "act", "send", "await", "reply", "establish", "tunnel", "finish"}
ClientSteps == {"accepted", "assign", "increment", "receive", "socket", "report", "close"} \cup ServerSteps
Ended == {"closed", "abandoned"}

(* A signal has killed the process, or an exception that nothing caught    *)
(* has terminated it.                                                      *)
Status == {"running", "killed", "terminated"}

TypeOKProxy ==
  /\ file \in [Fd -> Socket \cup {NULL}]
  /\ main \in Connection \cup {NULL}
  /\ next_client_id \in Nat /\ id_mutex \in Connection \cup {NULL}
  /\ step \in [Connection -> {"backlog"} \cup ClientSteps \cup Ended]
  /\ method \in [Connection -> Method \cup {NULL}]
  /\ clientFd \in [Connection -> Fd \cup {NULL}]
  /\ serverFd \in [Connection -> Fd \cup {NULL}]
  /\ id \in [Connection -> Nat]
  /\ sent \in [Connection -> Seq({"response", "established", "error"})]
  /\ status \in Status
  /\ thrown \in SUBSET Connection

InitProxy ==
  /\ file = [f \in Fd |-> NULL]
  /\ main = NULL
  /\ next_client_id = 1 /\ id_mutex = NULL
  /\ step = [c \in Connection |-> "backlog"]
  /\ method = [c \in Connection |-> NULL]
  /\ clientFd = [c \in Connection |-> NULL]
  /\ serverFd = [c \in Connection |-> NULL]
  /\ id = [c \in Connection |-> 0]
  /\ sent = [c \in Connection |-> << >>]
  /\ status = "running"
  /\ thrown = {}

(* The thread of c goes from one step to another, as long as the process   *)
(* runs: to the next one, or to a handler by throwing an exception.        *)
Goes(c, from, to) ==
  /\ status = "running"
  /\ step[c] = from
  /\ step' = [step EXCEPT ![c] = to]
  /\ UNCHANGED status

Moves(c, from, to) == Goes(c, from, to) /\ UNCHANGED thrown

Throws(c, from, to) == Goes(c, from, to) /\ thrown' = thrown \cup {c}

(* POSIX: a new descriptor is the lowest one that is not open.             *)
Opens(f, socket) ==
  /\ f \in Fd
  /\ file[f] = NULL
  /\ \A g \in Fd : file[g] = NULL => f <= g
  /\ file' = [file EXCEPT ![f] = socket]

Closes(f) == file' = [file EXCEPT ![f] = NULL]

NoneFree == \A f \in Fd : file[f] # NULL

(* The thread sends r to its client and goes on, or send fails with a      *)
(* runtime_error.                                                          *)
Sends(c, r, from, to) ==
  \/ /\ Moves(c, from, to)
     /\ sent' = [sent EXCEPT ![c] = Append(sent[c], r)]
  \/ /\ Throws(c, from, "close")
     /\ UNCHANGED sent

-----------------------------------------------------------------------------
(***************************************************************************)
(* multiThread, in the main thread.                                        *)
(***************************************************************************)

(* Mutant: the loop does not catch the exception of a failed accept. *)
AcceptEndsProcess(c) ==
  /\ main = NULL
  /\ \/ /\ Moves(c, "backlog", "accepted")
        /\ \E f \in Fd : Opens(f, Client(c)) /\ clientFd' = [clientFd EXCEPT ![c] = f]
        /\ main' = c
     \/ /\ status = "running" /\ step[c] = "backlog" /\ NoneFree
        /\ status' = "terminated"
        /\ UNCHANGED <<file, main, step, clientFd, thrown>>
  /\ UNCHANGED <<ids, method, serverFd, sent>>

(* accept, and the receive timeout of the socket.  When no descriptor is   *)
(* free accept fails, the loop logs it and tries again.                    *)
Accept(c) ==
  /\ main = NULL
  /\ Moves(c, "backlog", "accepted")
  /\ \E f \in Fd : Opens(f, Client(c)) /\ clientFd' = [clientFd EXCEPT ![c] = f]
  /\ main' = c
  /\ UNCHANGED <<ids, method, serverFd, sent>>

(* std::thread t(&HttpProxy::exec, ...), detached; when it cannot be       *)
(* started the exception is logged and the descriptor stays open.          *)
StartThread(c) ==
  /\ main = c
  /\ Moves(c, "accepted", "assign") \/ Moves(c, "accepted", "abandoned")
  /\ main' = NULL
  /\ UNCHANGED <<file, ids, locals, sent>>

-----------------------------------------------------------------------------
(***************************************************************************)
(* exec and _exec, in the thread of a connection.                          *)
(***************************************************************************)

(* Mutant: the id is read before the mutex is taken. *)
ReadIdUnlocked(c) ==
  /\ Moves(c, "assign", "increment")
  /\ id' = [id EXCEPT ![c] = next_client_id]
  /\ UNCHANGED <<file, main, next_client_id, id_mutex, locals, sent>>

(* assignClientId: the lock and the read ...                               *)
ReadId(c) ==
  /\ id_mutex = NULL
  /\ Moves(c, "assign", "increment")
  /\ id_mutex' = c
  /\ id' = [id EXCEPT ![c] = next_client_id]
  /\ UNCHANGED <<file, main, next_client_id, locals, sent>>

(* Mutant: the mutex is not given back. *)
IncrementIdKeepsMutex(c) ==
  /\ Moves(c, "increment", "receive")
  /\ next_client_id' = next_client_id + 1
  /\ UNCHANGED <<file, main, id, id_mutex, locals, sent>>

(* ... the increment and the unlock.                                       *)
IncrementId(c) ==
  /\ Moves(c, "increment", "receive")
  /\ next_client_id' = next_client_id + 1
  /\ id_mutex' = NULL
  /\ UNCHANGED <<file, main, id, locals, sent>>

(* receiveRequest: a request, when the parser has one; 408 when recv timed *)
(* out or failed and 400 when the parser refuses the message; only a log   *)
(* entry when the client closes the connection first.  A part of a request *)
(* leaves the thread where it is.                                          *)
ReceiveRequest(c) ==
  /\ \/ /\ Moves(c, "receive", "socket")
        /\ \E m \in Method : method' = [method EXCEPT ![c] = m]
     \/ Throws(c, "receive", "report") /\ UNCHANGED method
     \/ Throws(c, "receive", "close") /\ UNCHANGED method
  /\ UNCHANGED <<file, main, ids, clientFd, serverFd, sent>>

(* Mutant: the -1 of socket is not tested. *)
OpenSocketUnchecked(c) ==
  /\ \/ /\ Throws(c, "socket", "report")
        /\ UNCHANGED <<file, serverFd>>
     \/ /\ Moves(c, "socket", "connecting")
        /\ \E f \in Fd : Opens(f, Server(c)) /\ serverFd' = [serverFd EXCEPT ![c] = f]
     \/ /\ NoneFree
        /\ Moves(c, "socket", "connecting")
        /\ serverFd' = [serverFd EXCEPT ![c] = -1]
        /\ UNCHANGED file
  /\ UNCHANGED <<main, ids, method, clientFd, sent>>

(* initializeClientSocket: getaddrinfo fails (400), or socket returns a    *)
(* descriptor, or fails for want of one (a runtime_error).                 *)
OpenSocket(c) ==
  /\ \/ /\ Throws(c, "socket", "report")
        /\ UNCHANGED <<file, serverFd>>
     \/ /\ Moves(c, "socket", "connecting")
        /\ \E f \in Fd : Opens(f, Server(c)) /\ serverFd' = [serverFd EXCEPT ![c] = f]
     \/ /\ NoneFree
        /\ Throws(c, "socket", "close")
        /\ UNCHANGED <<file, serverFd>>
  /\ UNCHANGED <<main, ids, method, clientFd, sent>>

(* connect; when it fails, with a runtime_error, the descriptor is lost.   *)
Connect(c) ==
  /\ Moves(c, "connecting", "act") \/ Throws(c, "connecting", "close")
  /\ UNCHANGED <<file, main, ids, locals, sent>>

(* methodAct.  A GET that finds its response in the cache replies with it, *)
(* unless the test of its freshness throws (an invalid_argument or an      *)
(* out_of_range); any other method than the three throws 405.              *)
MethodAct(c) ==
  /\ \/ method[c] \in {"GET", "POST"} /\ Moves(c, "act", "send")
     \/ method[c] = "GET" /\ Moves(c, "act", "reply")
     \/ method[c] = "CONNECT" /\ Moves(c, "act", "establish")
     \/ method[c] \in {"GET", "other"} /\ Throws(c, "act", "report")
     \/ method[c] = "GET" /\ Throws(c, "act", "close")
  /\ UNCHANGED <<file, main, ids, locals, sent>>

(* sendRequest: 500 when it fails.                                         *)
SendRequest(c) ==
  /\ Moves(c, "send", "await") \/ Throws(c, "send", "report")
  /\ UNCHANGED <<file, main, ids, locals, sent>>

(* receiveResponse: 502 or 504 when it fails, only a log entry when an     *)
(* out_of_range is thrown: by the parser on a Date that begins with GMT,   *)
(* or when a GET logs the expiry of the response it has stored.  A GET may *)
(* end without a reply when it was validating a stored response.           *)
ReceiveResponse(c) ==
  /\ \/ Moves(c, "await", "reply")
     \/ Throws(c, "await", "report")
     \/ method[c] = "GET" /\ Moves(c, "await", "finish")
     \/ Throws(c, "await", "close")
  /\ UNCHANGED <<file, main, ids, locals, sent>>

(* sendResponse of a GET or a POST.                                        *)
ReplyTo(c) ==
  /\ Sends(c, "response", "reply", "finish")
  /\ UNCHANGED <<file, main, ids, locals>>

(* CONNECT: 200 to the client.                                             *)
Establish(c) ==
  /\ Sends(c, "established", "establish", "tunnel")
  /\ UNCHANGED <<file, main, ids, locals>>

(* Mutant: the tunnel reports its end like receiveResponse does. *)
TunnelReports(c) ==
  /\ Moves(c, "tunnel", "finish") \/ Throws(c, "tunnel", "report")
  /\ UNCHANGED <<file, main, ids, locals, sent>>

(* tunnelTransport returns when one side has closed, and throws a          *)
(* runtime_error when nothing comes in time or a recv or send fails.       *)
TunnelEnds(c) ==
  /\ Moves(c, "tunnel", "finish") \/ Throws(c, "tunnel", "close")
  /\ UNCHANGED <<file, main, ids, locals, sent>>

(* Mutant: the descriptor is left to the end of exec, which does not know  *)
(* it.                                                                     *)
CloseServerForgotten(c) ==
  /\ Moves(c, "finish", "close")
  /\ UNCHANGED <<file, main, ids, locals, sent>>

(* The end of _exec's try block: close(server_socket_fd).                  *)
CloseServer(c) ==
  /\ Moves(c, "finish", "close")
  /\ Closes(serverFd[c])
  /\ UNCHANGED <<main, ids, locals, sent>>

(* The catch clause of _exec: sendErrorStatus, which may throw.            *)
SendErrorStatus(c) ==
  /\ Sends(c, "error", "report", "close")
  /\ UNCHANGED <<file, main, ids, locals>>

(* Mutant: both descriptors are closed, wherever the thread comes from.    *)
CloseBoth(c) ==
  /\ Moves(c, "close", "closed")
  /\ file' = [f \in Fd |-> IF f \in {clientFd[c], serverFd[c]} THEN NULL ELSE file[f]]
  /\ UNCHANGED <<main, ids, locals, sent>>

(* The end of exec: close(client_socket_fd).                               *)
CloseClient(c) ==
  /\ Moves(c, "close", "closed")
  /\ Closes(clientFd[c])
  /\ UNCHANGED <<main, ids, locals, sent>>

-----------------------------------------------------------------------------
(***************************************************************************)
(* The ends of the process.  The kernel closes every descriptor; the model *)
(* leaves them, as no step reads them any more.                            *)
(***************************************************************************)

(* A signal whose action is to end the process meets the thread of c.      *)
Killed(c, steps) ==
  /\ status = "running"
  /\ step[c] \in steps
  /\ status' = "killed"
  /\ UNCHANGED <<file, main, ids, step, locals, sent, thrown>>

(* send on a connection that the peer has broken raises SIGPIPE, to the    *)
(* client as well as to the server.                                        *)
SendKills(c) == Killed(c, {"send", "reply", "establish", "tunnel", "report"})

(* A GET dereferences a node that another thread has taken out of the      *)
(* cache, or reads the map while another thread changes it.                *)
Crash(c) == method[c] = "GET" /\ Killed(c, {"act", "await"})

-----------------------------------------------------------------------------
Handle(c) ==
  \/ ReadId(c) \/ IncrementId(c)
  \/ ReceiveRequest(c) \/ OpenSocket(c) \/ Connect(c) \/ MethodAct(c)
  \/ SendRequest(c) \/ ReplyTo(c) \/ Establish(c) \/ TunnelEnds(c)
  \/ CloseServer(c) \/ SendErrorStatus(c) \/ CloseClient(c)

(* Every connection has ended; the loop waits in accept, or cannot accept. *)
Waiting ==
  /\ main = NULL
  /\ \A c \in Connection : step[c] \in Ended \/ (step[c] = "backlog" /\ NoneFree)
  /\ UNCHANGED proxyVars

(* The process has ended, and nothing happens any more.                    *)
Down == status # "running" /\ UNCHANGED proxyVars

NextProxy ==
  \/ \E c \in Connection : Accept(c) \/ StartThread(c) \/ Handle(c) \/ ReceiveResponse(c)
  \/ \E c \in Connection : SendKills(c) \/ Crash(c)
  \/ Waiting \/ Down

SpecProxy == InitProxy /\ [][NextProxy]_proxyVars

(* The operating system schedules the accept loop and every thread; a recv *)
(* on the client's socket and a select end by their timeouts, and neither  *)
(* a request nor the traffic of a tunnel goes on for ever.                 *)
ThreadFairness ==
  \A c \in Connection :
    WF_proxyVars(Accept(c)) /\ WF_proxyVars(StartThread(c)) /\ WF_proxyVars(Handle(c))

(* The origin answers or hangs up: a recv on its socket has no timeout.    *)
OriginFairnessProxy == \A c \in Connection : WF_proxyVars(ReceiveResponse(c))

FairSpecProxy == SpecProxy /\ ThreadFairness /\ OriginFairnessProxy
-----------------------------------------------------------------------------
(***************************************************************************)
(* Properties.                                                             *)
(***************************************************************************)

(* A thread reads, writes and closes only its own connections: no thread   *)
(* closes a descriptor that the process has given to another one since,    *)
(* on any of the paths through the two layers of exception handlers        *)
(* (HttpProxy.cpp:51-87).                                                  *)
OwnDescriptors ==
  \A c \in Connection :
    /\ step[c] \in ClientSteps => clientFd[c] \in Fd /\ file[clientFd[c]] = Client(c)
    /\ step[c] \in ServerSteps => serverFd[c] \in Fd /\ file[serverFd[c]] = Server(c)

(* The proxy sends at most one response to a client: no error status       *)
(* follows a response that has been sent, or the 200 of an established     *)
(* tunnel, whose bytes it would corrupt (HttpProxy.cpp:68-73).             *)
AtMostOneReply == \A c \in Connection : Len(sent[c]) <= 1

(* No two connections have the same client id in the log (HttpProxy.cpp:   *)
(* 7-14).                                                                  *)
UniqueIds ==
  \A c, d \in Connection : (id[c] # 0 /\ id[c] = id[d]) => c = d

(* The thread of c has left _exec by an exception, and no response had     *)
(* been sent to its client.  It may have sent the 200 of a tunnel, or sent *)
(* an error status since.                                                  *)
Failed(c) == c \in thrown /\ sent[c] # <<"response">>

(* What an exception can cost: every socket is open on one descriptor, the *)
(* one its thread knows; the client's is open until the thread ends, or    *)
(* for good if it could not be started, and the server's outlives the      *)
(* steps that use it only behind a thread that has thrown an exception     *)
(* before a response was sent, be it out of an established tunnel.  A GET  *)
(* or a POST whose response was sent leaves nothing open, nor does a       *)
(* tunnel that ended because one side closed, whichever exceptions the     *)
(* others met (HttpProxy.cpp:51-87, 111-124, HttpConnector.cpp:119-129,    *)
(* TcpConnector.cpp:65-76).                                                *)
OnlyExceptionsLeak ==
  \A f \in Fd, c \in Connection :
    /\ file[f] = Client(c) => f = clientFd[c] /\ step[c] \in ClientSteps \cup {"abandoned"}
    /\ file[f] = Server(c) => f = serverFd[c] /\ (step[c] \in ServerSteps \/ Failed(c))

(* Nothing has been sent before the steps that follow a send; the error    *)
(* status is sent only from there.                                         *)
NothingSentYet ==
  \A c \in Connection : step[c] \notin {"tunnel", "finish", "close", "closed"} => sent[c] = << >>

(* The thread between the read and the increment holds id_mutex and has    *)
(* the newest id; every other id has been counted.                         *)
IdsInOrder ==
  /\ next_client_id >= 1
  /\ \A c \in Connection :
       /\ step[c] = "increment" <=> id_mutex = c
       /\ IF step[c] = "increment" THEN id[c] = next_client_id ELSE id[c] < next_client_id

(* The conjunction every step of the proxy preserves: the invariants above *)
(* with what each step relies on.                                          *)
InductiveProxy ==
  /\ TypeOKProxy
  /\ OwnDescriptors
  /\ AtMostOneReply
  /\ UniqueIds
  /\ NothingSentYet
  /\ IdsInOrder

(* Every connection is accepted and comes to an end, or is given up for    *)
(* want of a thread, whatever exceptions the ones before it met: no        *)
(* exception ends the accept loop or the process, or a thread before it    *)
(* has closed its client's descriptor (HttpProxy.cpp:77-87, 111-124,       *)
(* danger_log.txt, 02/22).  Excepted are a connection for which no         *)
(* descriptor is left for good, and those in a process that a signal has   *)
(* killed.                                                                 *)
EveryConnectionEnds ==
  \A c \in Connection :
    \/ <>(step[c] \in Ended)
    \/ <>[](step[c] = "backlog" /\ NoneFree)
    \/ <>(status = "killed")

(* Exceptions leave the running of the program as it was: with no          *)
(* connection in progress, and none given up for want of a thread, no      *)
(* descriptor is left open.                                                *)
NothingLeftOpen ==
  (\A c \in Connection : step[c] \in {"backlog", "closed"}) => \A f \in Fd : file[f] = NULL
=============================================================================

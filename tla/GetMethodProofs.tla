---------------------------- MODULE GetMethodProofs ----------------------------
(***************************************************************************)
(* The invariants of GetMethod for any number of threads, requests, URIs   *)
(* and versions.  What a GET does to the cache it does through the         *)
(* operations of Cache, so that the invariant of Cache holds; on top of it *)
(* one says whose responses the nodes, the calls of putResponse, the       *)
(* copies and the answers hold, and how old they may be.                   *)
(***************************************************************************)
EXTENDS GetMethod, CacheProofs

(* Every step of a GET is a step of the cache, or leaves it alone.         *)
LEMMA CacheStep == [NextGet]_allVars => [Next]_vars
<1> SUFFICES ASSUME [NextGet]_allVars PROVE [Next]_vars
  OBVIOUS
<1>1. ASSUME NEW t \in Thread, Proceed(t) PROVE [Next]_vars
  <2>1. CASE Lookup(t) \/ Hit(t) \/ IsFreshLooksUp(t)
    BY <2>1 DEF Lookup, Hit, IsFreshLooksUp, Next, Step, ReadStep
  <2>2. ASSUME NEW r \in Response \cup {TornResponse}, Judge(t, r) \/ Serve(t, r) \/ Revalidate(t, r)
        PROVE  [Next]_vars
    BY <2>2 DEF Judge, Serve, Revalidate, Next, Step, ReadStep
  <2>3. CASE Revalidated(t) \/ Fetched(t)
    BY <2>3 DEF Revalidated, Fetched, Next, Step
  <2>4. CASE Storing(t) \/ Crash(t)
    BY <2>4 DEF Storing, Crash, Next, Step
  <2>5. CASE Validated(t) \/ Ignored(t) \/ Miss(t) \/ Stored(t) \/ Respond(t) \/ NoAnswer(t)
    BY <2>5 DEF Validated, Ignored, Miss, Stored, Respond, NoAnswer
  <2> QED
    BY <1>1, <2>1, <2>2, <2>3, <2>4, <2>5 DEF Proceed
<1>2. ASSUME NEW t \in Thread, OriginAnswers(t) PROVE [Next]_vars
  BY <1>2 DEF OriginAnswers
<1>3. ASSUME NEW t \in Thread, NEW u \in URI, Get(t, u) PROVE [Next]_vars
  BY <1>3 DEF Get, Next, Step
<1>4. ASSUME NEW u \in URI, Publish(u) PROVE [Next]_vars
  BY <1>4 DEF Publish
<1>5. CASE UNCHANGED allVars
  BY <1>5 DEF allVars
<1> QED
  BY <1>1, <1>2, <1>3, <1>4, <1>5 DEF NextGet, Rest

-----------------------------------------------------------------------------
(* The invariant.                                                          *)

(* A version has its URI and its number.                                   *)
LEMMA VersionType ==
  ASSUME NEW c \in Content
  PROVE  /\ c.uri \in URI /\ c.version \in Nat \ {0} /\ c # Torn /\ c # NULL
         /\ Bodiless(c).uri = c.uri /\ Bodiless(c).version = c.version
<1>1. c \in [uri : URI, version : Nat \ {0}, kind : Kind]
  BY GetAssumption
<1>2. c # Torn /\ c # NULL
  BY GetAssumption, CacheAssumption
<1> QED
  BY <1>1, <1>2 DEF Bodiless

(* The origin has held c, or has answered with its 304.                    *)
Known(c) == c.version <= origin[c.uri].version

(* A node holds a response for its URI that may be stored, and so does     *)
(* what putResponse is about to store.                                     *)
Storable(c) == Cacheable(c) /\ Known(c)

NodesRight ==
  \A a \in allocated : response[a].content.uri = uri[a] /\ Storable(response[a].content)

ArgumentsRight ==
  \A t \in Thread : pc[t] \in PutSteps => arg[t].uri = request[t] /\ Storable(arg[t])

(* What a thread has got from the origin or copied from a node is for the  *)
(* URI of its request; the origin's is as new as the request, and what the *)
(* origin validated for a client without a validator is, too.              *)
OriginRight == \A u \in URI : origin[u].uri = u

ThreadRight(t) ==
  /\ request[t] \in URI => since[t] <= origin[request[t]].version
  /\ answer[t] \in Content =>
       answer[t].uri = request[t] /\ answer[t].version >= since[t] /\ Known(answer[t])
  /\ copy[t] \in Content => copy[t].uri = request[t] /\ Storable(copy[t])
  /\ (answer[t] = NotModified /\ tag[t] = 0) => copy[t].version >= since[t]
  /\ stage[t] \in {"lookup", "judge", "serve", "stale"} => answer[t] = NULL
  /\ stage[t] = "revalidate" => copy[t] \in Copied
  /\ stage[t] \in {"store", "respond"} => answer[t] \in Content
  /\ stage[t] # "done" => request[t] \in URI

ReplyRight(t) ==
  (reply[t] \in Reply /\ reply[t].content # Torn) =>
    /\ reply[t].content.uri = request[t]
    /\ (reply[t].from # "cache" /\ tag[t] = 0) => reply[t].content.version >= since[t]

InductiveGet ==
  /\ Inductive
  /\ TypeOKGet
  /\ NodesRight /\ ArgumentsRight
  /\ OriginRight
  /\ \A t \in Thread : ThreadRight(t) /\ ReplyRight(t)

LEMMA InitInductiveGet == InitGet => InductiveGet
<1> SUFFICES ASSUME InitGet PROVE InductiveGet
  OBVIOUS
<1>1. Inductive
  BY InitInductive DEF InitGet
<1>2. OriginRight /\ origin \in [URI -> Content]
  BY DEF InitGet, OriginRight
<1>3. TypeOKGet
  BY <1>2, RequestBound DEF InitGet, TypeOKGet
<1>4. NodesRight /\ ArgumentsRight
  BY DEF InitGet, Init, NodesRight, ArgumentsRight, PutSteps, CriticalSteps
<1>5. ASSUME NEW t \in Thread PROVE ThreadRight(t) /\ ReplyRight(t)
  <2>1. /\ request[t] = NULL /\ answer[t] = NULL /\ copy[t] = NULL /\ reply[t] = NULL
        /\ stage[t] = "done" /\ since[t] = 0
    BY DEF InitGet, Init
  <2>2. NULL \notin Content /\ NULL # NotModified /\ NULL \notin Reply /\ NULL \notin URI
    BY GetAssumption, CacheAssumption
  <2> QED
    BY <2>1, <2>2 DEF ThreadRight, ReplyRight
<1> QED
  BY <1>1, <1>2, <1>3, <1>4, <1>5 DEF InductiveGet

-----------------------------------------------------------------------------
(* The nodes.                                                              *)

(* Steps that write no response and start no putResponse.                  *)
LEMMA NodesRest ==
  ASSUME NodesRight, ArgumentsRight, UNCHANGED <<response, uri, allocated, origin>>,
         \A t \in Thread : pc'[t] \in PutSteps =>
           pc[t] \in PutSteps /\ arg'[t] = arg[t] /\ request'[t] = request[t]
  PROVE  NodesRight' /\ ArgumentsRight'
BY DEF NodesRight, ArgumentsRight, Storable, Known, Cacheable

(* The response of one node is replaced by one that belongs there.         *)
LEMMA NodeWritten ==
  ASSUME Inductive, NodesRight, NEW a \in Address, NEW r,
         response' = [response EXCEPT ![a] = r], uri' = uri, allocated' = allocated,
         UNCHANGED origin,
         r.content.uri = uri[a], Storable(r.content)
  PROVE  NodesRight'
<1>1. response \in [Address -> Response \cup {NULL}] /\ allocated \subseteq Address
  BY DEF Inductive, TypeOK
<1> QED
  BY <1>1 DEF NodesRight, Storable, Known, Cacheable

LEMMA ReadersKeepNodes ==
  ASSUME Inductive, NodesRight, ArgumentsRight, NEW t \in Thread,
         UNCHANGED origin, ReadStep(t) \/ (\E u \in URI : CallGet(t, u)) \/ Segfault(t)
  PROVE  NodesRight' /\ ArgumentsRight'
<1>1. /\ pc \in [Thread -> ReaderSteps \cup PutSteps] /\ node \in [Thread -> Pointer]
      /\ response \in [Address -> Response \cup {NULL}] /\ request \in [Thread -> URI \cup {NULL}]
  BY DEF Inductive, TypeOK
<1>2. CASE SetFirstRequestTime(t)
  <2>1. /\ node[t] \in allocated /\ node[t] \in Address
        /\ response' = [response EXCEPT ![node[t]] =
                          [content |-> response[node[t]].content, timed |-> TRUE]]
        /\ UNCHANGED <<uri, allocated>>
    BY <1>1, <1>2 DEF SetFirstRequestTime, Pointer, Inductive, PointersLeadToTheirURI
  <2>2. NodesRight'
    <3> DEFINE r == [content |-> response[node[t]].content, timed |-> TRUE]
    <3>1. r.content.uri = uri[node[t]] /\ Storable(r.content)
      BY <2>1 DEF NodesRight
    <3> HIDE DEF r
    <3> QED
      BY <2>1, <3>1, NodeWritten DEF r
  <2>3. ArgumentsRight'
    BY <1>1, <1>2 DEF SetFirstRequestTime, Goto, ArgumentsRight, Storable, Known, Cacheable, PutSteps, CriticalSteps,
       callVars
  <2> QED
    BY <2>2, <2>3
<1>3. CASE GetResponse(t) \/ FindAgain(t) \/ \E r \in Response \cup {TornResponse} : CopyFound(t, r) \/ CopyNode(t, r)
  BY <1>1, <1>3, NodesRest
  DEF GetResponse, FindAgain, CopyFound, CopyNode, Goto, heapVars, callVars, PutSteps, CriticalSteps
<1>4. CASE (\E u \in URI : CallGet(t, u)) \/ Segfault(t)
  BY <1>1, <1>4, NodesRest DEF CallGet, Segfault, Goto, heapVars, callVars, PutSteps, CriticalSteps
<1> QED
  BY <1>2, <1>3, <1>4 DEF ReadStep

LEMMA PutStepKeepsNodes ==
  ASSUME Inductive, NodesRight, ArgumentsRight, NEW t \in Thread, PutStep(t), UNCHANGED origin
  PROVE  NodesRight' /\ ArgumentsRight'
<1>1. /\ pc \in [Thread -> ReaderSteps \cup PutSteps] /\ cursor \in [Thread -> Pointer \cup {Wild}]
      /\ response \in [Address -> Response \cup {NULL}] /\ uri \in [Address -> URI \cup {NULL}]
      /\ arg \in [Thread -> Content \cup {NULL}] /\ allocated \subseteq Address
  BY DEF Inductive, TypeOK
<1>2. CASE Lock(t) \/ Scan(t) \/ Index(t) \/ Evict(t)
  BY <1>1, <1>2, NodesRest DEF Lock, Scan, Index, Evict, At, Goto, heapVars, callVars, PutSteps, CriticalSteps
<1>3. CASE Unlock(t)
  BY <1>1, <1>3, NodesRest DEF Unlock, Goto, heapVars, PutSteps, CriticalSteps
<1> DEFINE r == [content |-> arg[t], timed |-> FALSE]
<1>4. r.content = arg[t]
  OBVIOUS
<1> HIDE DEF r
<1>5. CASE Update(t)
  <2>1. PICK i \in DOMAIN chain : cursor[t] = chain[i] /\ uri[chain[i]] = request[t]
    BY <1>5 DEF Update, Goto, At, Inductive, Scanned
  <2>2. cursor[t] \in Address /\ uri[cursor[t]] = request[t]
    BY <1>1, <2>1 DEF Inductive, TypeOK
  <2>3. arg[t].uri = request[t] /\ Storable(arg[t])
    BY <1>5 DEF Update, Goto, At, ArgumentsRight, PutSteps, CriticalSteps
  <2>4. response' = [response EXCEPT ![cursor[t]] = r] /\ UNCHANGED <<uri, allocated>>
    BY <1>5 DEF Update, r
  <2>5. NodesRight'
    BY <1>4, <2>2, <2>3, <2>4, NodeWritten
  <2>6. ArgumentsRight'
    BY <1>1, <1>5 DEF Update, Goto, At, callVars, ArgumentsRight, Storable, Known, Cacheable, PutSteps, CriticalSteps
  <2> QED
    BY <2>5, <2>6
<1>6. CASE Link(t)
  <2>1. PICK a \in Address \ allocated :
          /\ allocated' = allocated \cup {a}
          /\ uri' = [uri EXCEPT ![a] = request[t]]
          /\ response' = [response EXCEPT ![a] = r]
    BY <1>6 DEF Link, r
  <2>2. arg[t].uri = request[t] /\ Storable(arg[t])
    BY <1>6 DEF Link, Goto, At, ArgumentsRight, PutSteps, CriticalSteps
  <2>3. NodesRight'
    <3>1. uri'[a] = request[t] /\ response'[a] = r
      BY <1>1, <2>1
    <3>2. \A b \in allocated : uri'[b] = uri[b] /\ response'[b] = response[b]
      BY <1>1, <2>1
    <3> QED
      BY <1>4, <2>1, <2>2, <3>1, <3>2 DEF NodesRight, Storable, Known, Cacheable
  <2>4. ArgumentsRight'
    BY <1>1, <1>6 DEF Link, Goto, At, callVars, ArgumentsRight, Storable, Known, Cacheable, PutSteps, CriticalSteps
  <2> QED
    BY <2>3, <2>4
<1> QED
  BY <1>2, <1>3, <1>5, <1>6 DEF PutStep

(* A putResponse is called with a response for the URI of the request.     *)
LEMMA CallPutKeepsNodes ==
  ASSUME Inductive, NodesRight, ArgumentsRight, NEW t \in Thread, NEW c, CallPut(t, c), UNCHANGED origin,
         c.uri = request[t], Storable(c)
  PROVE  NodesRight' /\ ArgumentsRight'
<1>1. pc \in [Thread -> ReaderSteps \cup PutSteps] /\ arg \in [Thread -> Content \cup {NULL}]
  BY DEF Inductive, TypeOK
<1>2. NodesRight'
  BY DEF CallPut, heapVars, NodesRight, Storable, Known, Cacheable
<1>3. ASSUME NEW s \in Thread, pc'[s] \in PutSteps
      PROVE  arg'[s].uri = request'[s] /\ Storable(arg[s])'
  <2>1. CASE s = t
    BY <1>1, <2>1 DEF CallPut, Storable, Known, Cacheable
  <2>2. CASE s # t
    BY <1>1, <1>3, <2>2 DEF CallPut, Goto, ArgumentsRight, Storable, Known, Cacheable
  <2> QED
    BY <2>1, <2>2
<1> QED
  BY <1>2, <1>3 DEF ArgumentsRight, Storable, Known, Cacheable

(* What the origin has held it has still held after a new version.         *)
LEMMA PublishKeepsKnown ==
  ASSUME TypeOKGet, NEW u \in URI, Publish(u), NEW c \in Content, Known(c)
  PROVE  Known(c)'
<1>1. PICK d \in Content :
        d.uri = u /\ d.version = origin[u].version + 1 /\ origin' = [origin EXCEPT ![u] = d]
  BY DEF Publish
<1>2. origin[c.uri] \in Content /\ origin \in [URI -> Content]
  BY VersionType DEF TypeOKGet
<1>3. c.version \in Nat /\ origin[c.uri].version \in Nat /\ c.uri \in URI
  BY <1>2, VersionType
<1> QED
  BY <1>1, <1>2, <1>3 DEF Known

LEMMA PublishKeepsNodes ==
  ASSUME Inductive, TypeOKGet, NodesRight, ArgumentsRight, NEW u \in URI, Publish(u)
  PROVE  NodesRight' /\ ArgumentsRight'
<1>1. UNCHANGED <<response, uri, allocated, pc, arg, request>>
  BY DEF Publish, vars, heapVars, callVars
<1>2. \A a \in allocated : response[a].content \in Content
  BY DEF Inductive, Constructed, Response
<1>3. \A t \in Thread : pc[t] \in PutSteps => arg[t] \in Content
  BY DEF Inductive, LocalsSet, PutSteps, CriticalSteps
<1>4. NodesRight'
  BY <1>1, <1>2, PublishKeepsKnown DEF NodesRight, Storable, Cacheable
<1>5. ArgumentsRight'
  BY <1>1, <1>3, PublishKeepsKnown DEF ArgumentsRight, Storable, Cacheable
<1> QED
  BY <1>4, <1>5

LEMMA NodesStep ==
  ASSUME InductiveGet, [NextGet]_allVars
  PROVE  NodesRight' /\ ArgumentsRight'
<1>1. Inductive /\ TypeOKGet /\ NodesRight /\ ArgumentsRight
  BY DEF InductiveGet
<1>2. ASSUME UNCHANGED <<vars, origin>> PROVE NodesRight' /\ ArgumentsRight'
  BY <1>1, <1>2, NodesRest DEF vars, heapVars, callVars
<1>3. ASSUME NEW t \in Thread, Proceed(t) PROVE NodesRight' /\ ArgumentsRight'
  <2>1. CASE Lookup(t) \/ Hit(t) \/ IsFreshLooksUp(t) \/ Crash(t)
    BY <1>1, <2>1, ReadersKeepNodes DEF Lookup, Hit, IsFreshLooksUp, Crash, ReadStep, getVars
  <2>2. ASSUME NEW r \in Response \cup {TornResponse}, Judge(t, r) \/ Serve(t, r) \/ Revalidate(t, r)
        PROVE  NodesRight' /\ ArgumentsRight'
    BY <1>1, <2>2, ReadersKeepNodes DEF Judge, Serve, Revalidate, ReadStep
  <2>3. CASE Revalidated(t) \/ Fetched(t)
    <3>1. answer[t] \in Content /\ UNCHANGED origin
      BY <2>3 DEF Revalidated, Fetched
    <3>2. answer[t].uri = request[t] /\ Known(answer[t])
      BY <3>1 DEF InductiveGet, ThreadRight
    <3> QED
      BY <1>1, <1>2, <2>3, <3>1, <3>2, CallPutKeepsNodes DEF Revalidated, Fetched, Storable
  <2>4. CASE Storing(t)
    BY <1>1, <2>4, PutStepKeepsNodes DEF Storing, getVars
  <2>5. CASE Validated(t) \/ Ignored(t) \/ Miss(t) \/ Stored(t) \/ Respond(t) \/ NoAnswer(t)
    BY <1>2, <2>5 DEF Validated, Ignored, Miss, Stored, Respond, NoAnswer
  <2> QED
    BY <1>3, <2>1, <2>2, <2>3, <2>4, <2>5 DEF Proceed
<1>4. ASSUME NEW t \in Thread, OriginAnswers(t) PROVE NodesRight' /\ ArgumentsRight'
  BY <1>2, <1>4 DEF OriginAnswers
<1>5. ASSUME NEW t \in Thread, NEW u \in URI, Get(t, u) PROVE NodesRight' /\ ArgumentsRight'
  BY <1>1, <1>5, ReadersKeepNodes DEF Get
<1>6. ASSUME NEW u \in URI, Publish(u) PROVE NodesRight' /\ ArgumentsRight'
  BY <1>1, <1>6, PublishKeepsNodes
<1>7. CASE UNCHANGED allVars
  BY <1>2, <1>7 DEF allVars, getVars
<1> QED
  BY <1>3, <1>4, <1>5, <1>6, <1>7 DEF NextGet, Rest

-----------------------------------------------------------------------------
(* The threads.                                                            *)

ThreadsRight ==
  TypeOKGet /\ OriginRight /\ \A t \in Thread : ThreadRight(t) /\ ReplyRight(t)

Stages == {"done", "lookup", "judge", "serve", "stale", "revalidate", "fetch", "store", "respond"}

(* The stages thread t may be in, as its answer and its copy are.          *)
MayBeIn(t, s) ==
  /\ s \in {"lookup", "judge", "serve", "stale"} => answer[t] = NULL
  /\ s = "revalidate" => copy[t] \in Copied
  /\ s \in {"store", "respond"} => answer[t] \in Content
  /\ s # "done" => request[t] \in URI

(* What thread t may send its client.                                      *)
MaySend(t, r) ==
  r \in Reply /\ (r.content # Torn =>
    /\ r.content.uri = request[t]
    /\ (r.from # "cache" /\ tag[t] = 0) => r.content.version >= since[t])

Sends(t) ==
  \/ UNCHANGED reply
  \/ \E r : (r \in {ErrorStatus, Lost} \/ MaySend(t, r)) /\ reply' = [reply EXCEPT ![t] = r]

LEMMA SendIsRight ==
  ASSUME NEW t \in Thread, NEW r, r = ErrorStatus \/ MaySend(t, r), Send(t, r)
  PROVE  Sends(t)
BY DEF Sends, Send

(* A thread goes on to another stage and may send something.               *)
LEMMA StageStep ==
  ASSUME ThreadsRight, NEW t \in Thread, NEW s \in Stages, To(t, s), MayBeIn(t, s), Sends(t),
         UNCHANGED <<request, origin, copy, answer, tag, since, requests>>
  PROVE  ThreadsRight'
<1>1. TypeOKGet
  BY DEF ThreadsRight
<1>2. /\ stage' = [stage EXCEPT ![t] = s]
      /\ \A o \in Thread \ {t} : stage'[o] = stage[o] /\ reply'[o] = reply[o]
      /\ stage'[t] = s
  BY <1>1 DEF TypeOKGet, To, Sends
<1>3. reply' \in [Thread -> Reply \cup {NULL, ErrorStatus, Lost}]
  BY <1>1 DEF TypeOKGet, Sends, MaySend
<1>4. TypeOKGet'
  BY <1>1, <1>2, <1>3 DEF TypeOKGet, Stages
<1>5. OriginRight'
  BY DEF ThreadsRight, OriginRight
<1>6. ASSUME NEW o \in Thread PROVE ThreadRight(o)'
  <2>1. CASE o = t
    BY <1>2, <2>1 DEF ThreadsRight, ThreadRight, MayBeIn, Storable, Known, Cacheable
  <2>2. CASE o # t
    BY <1>2, <2>2 DEF ThreadsRight, ThreadRight, Storable, Known, Cacheable
  <2> QED
    BY <2>1, <2>2
<1>7. ASSUME NEW o \in Thread PROVE ReplyRight(o)'
  <2>1. CASE reply'[o] = reply[o]
    BY <2>1 DEF ThreadsRight, ReplyRight
  <2>2. CASE o = t /\ reply'[o] # reply[o]
    <3>1. PICK r : (r \in {ErrorStatus, Lost} \/ MaySend(t, r)) /\ reply' = [reply EXCEPT ![t] = r]
      BY <2>2 DEF Sends
    <3>2. reply'[t] = r
      BY <1>1, <3>1 DEF TypeOKGet
    <3>3. r \in {ErrorStatus, Lost} => r \notin Reply
      BY GetAssumption
    <3> QED
      BY <2>2, <3>1, <3>2, <3>3 DEF ReplyRight, MaySend
  <2> QED
    BY <1>2, <2>1, <2>2
<1> QED
  BY <1>4, <1>5, <1>6, <1>7 DEF ThreadsRight

LEMMA ThreadsRest ==
  ASSUME ThreadsRight, UNCHANGED <<getVars, request>>
  PROVE  ThreadsRight'
BY DEF ThreadsRight, TypeOKGet, OriginRight, ThreadRight, ReplyRight, Storable, Known, Cacheable, getVars

LEMMA PublishStep ==
  ASSUME ThreadsRight, NEW u \in URI, Publish(u)
  PROVE  ThreadsRight'
<1>1. PICK c \in Content :
        c.uri = u /\ c.version = origin[u].version + 1 /\ origin' = [origin EXCEPT ![u] = c]
  BY DEF Publish
<1>2. /\ UNCHANGED <<request, stage, copy, answer, reply, tag, since, requests>>
      /\ TypeOKGet /\ origin \in [URI -> Content]
  BY DEF Publish, vars, callVars, ThreadsRight, TypeOKGet
<1>3. TypeOKGet'
  BY <1>1, <1>2 DEF TypeOKGet
<1>4. OriginRight'
  BY <1>1, <1>2 DEF ThreadsRight, OriginRight
<1>5. ASSUME NEW v \in URI PROVE origin[v].version <= origin'[v].version
  <2>1. origin[v].version \in Nat \ {0}
    BY <1>2, VersionType
  <2> QED
    BY <1>1, <1>2, <2>1
<1>6. ASSUME NEW t \in Thread PROVE ThreadRight(t)' /\ ReplyRight(t)'
  <2>1. request[t] \in URI => since[t] <= origin'[request[t]].version
    <3> SUFFICES ASSUME request[t] \in URI PROVE since[t] <= origin'[request[t]].version
      OBVIOUS
    <3>1. origin[request[t]] \in Content /\ origin'[request[t]] \in Content
      BY <1>1, <1>2
    <3>2. origin[request[t]].version \in Nat /\ origin'[request[t]].version \in Nat /\ since[t] \in Nat
      BY <1>2, <3>1, VersionType DEF TypeOKGet
    <3>3. since[t] <= origin[request[t]].version
      BY DEF ThreadsRight, ThreadRight
    <3> QED
      BY <1>5, <3>2, <3>3
  <2> QED
    <3>1. answer[t] \in Content => (Known(answer[t]) => Known(answer[t])')
      BY <1>2, PublishKeepsKnown
    <3>2. copy[t] \in Content => (Known(copy[t]) => Known(copy[t])')
      BY <1>2, PublishKeepsKnown
    <3> QED
      BY <1>2, <2>1, <3>1, <3>2 DEF ThreadsRight, ThreadRight, ReplyRight, Storable, Cacheable
<1> QED
  BY <1>3, <1>4, <1>6 DEF ThreadsRight

LEMMA GetStep ==
  ASSUME ThreadsRight, request \in [Thread -> URI \cup {NULL}],
         NEW t \in Thread, NEW u \in URI, Get(t, u)
  PROVE  ThreadsRight'
<1>1. /\ TypeOKGet /\ requests \in Nat /\ requests < MaxRequests
      /\ origin \in [URI -> Content] /\ since \in [Thread -> Nat]
      /\ answer \in [Thread -> Answers \cup {NULL}] /\ copy \in [Thread -> Copied \cup {NULL}]
      /\ stage \in [Thread -> Stages] /\ tag \in [Thread -> ClientTag \cup {0}]
      /\ reply \in [Thread -> Reply \cup {NULL, ErrorStatus, Lost}]
  BY DEF Get, ThreadsRight, TypeOKGet, Stages
<1>2. origin[u].version \in Nat
  BY <1>1, VersionType
<1>3. /\ request' = [request EXCEPT ![t] = u] /\ stage' = [stage EXCEPT ![t] = "lookup"]
      /\ copy' = [copy EXCEPT ![t] = NULL] /\ answer' = [answer EXCEPT ![t] = NULL]
      /\ reply' = [reply EXCEPT ![t] = NULL] /\ since' = [since EXCEPT ![t] = origin[u].version]
      /\ requests' = requests + 1 /\ UNCHANGED origin
      /\ \E v \in ClientTag \cup {0} : tag' = [tag EXCEPT ![t] = v]
  BY DEF Get, CallGet, To
<1>4. TypeOKGet'
  <2>1. requests' \in 0 .. MaxRequests
    BY <1>1, <1>3, RequestBound
  <2> QED
    BY <1>1, <1>2, <1>3, <2>1 DEF TypeOKGet, Stages
<1>5. OriginRight'
  BY <1>3 DEF ThreadsRight, OriginRight
<1>6. ASSUME NEW o \in Thread PROVE ThreadRight(o)' /\ ReplyRight(o)'
  <2>1. CASE o = t
    <3>1. /\ request'[o] = u /\ stage'[o] = "lookup" /\ copy'[o] = NULL /\ answer'[o] = NULL
          /\ reply'[o] = NULL /\ since'[o] = origin'[u].version
      BY <1>1, <1>3, <2>1
    <3>2. NULL \notin Content /\ NULL # NotModified /\ NULL \notin Reply
      BY GetAssumption
    <3> QED
      BY <1>2, <1>3, <3>1, <3>2 DEF ThreadRight, ReplyRight
  <2>2. CASE o # t
    <3>1. /\ request'[o] = request[o] /\ stage'[o] = stage[o] /\ copy'[o] = copy[o]
          /\ answer'[o] = answer[o] /\ reply'[o] = reply[o] /\ since'[o] = since[o]
          /\ tag'[o] = tag[o]
      BY <1>1, <1>3, <2>2
    <3> QED
      BY <1>3, <3>1 DEF ThreadsRight, ThreadRight, ReplyRight, Storable, Known, Cacheable
  <2> QED
    BY <2>1, <2>2
<1> QED
  BY <1>4, <1>5, <1>6 DEF ThreadsRight

LEMMA OriginAnswersStep ==
  ASSUME ThreadsRight, NEW t \in Thread, OriginAnswers(t)
  PROVE  ThreadsRight'
<1> DEFINE current == origin[request[t]]
<1>1. /\ TypeOKGet /\ request[t] \in URI /\ UNCHANGED <<request, stage, origin, copy, reply, tag, since, requests>>
      /\ stage[t] \in {"fetch", "revalidate"}
      /\ answer \in [Thread -> Answers \cup {NULL}] /\ since \in [Thread -> Nat]
      /\ origin \in [URI -> Content]
  BY DEF OriginAnswers, In, vars, callVars, ThreadsRight, ThreadRight, TypeOKGet
<1>2. /\ current \in Content /\ current.uri = request[t] /\ current.version \in Nat \ {0}
      /\ since[t] <= current.version
      /\ Bodiless(current).uri = request[t] /\ Bodiless(current).version = current.version
  BY <1>1, VersionType DEF ThreadsRight, ThreadRight, OriginRight
<1>3. PICK a :
        /\ answer' = [answer EXCEPT ![t] = a]
        /\ \/ a \in {current, OtherStatus, Failed}
           \/ a \in Content /\ a = Bodiless(current)
           \/ a = NotModified /\ stage[t] = "revalidate"
              /\ (tag[t] = current.version \/ copy[t] \in {current, Bodiless(current)})
  BY DEF OriginAnswers, In
<1>4. a \in Answers /\ (a \in Content => a.uri = request[t] /\ a.version = current.version)
  BY <1>2, <1>3, GetAssumption DEF Answers
<1>5. TypeOKGet'
  BY <1>1, <1>3, <1>4 DEF TypeOKGet
<1>6. OriginRight'
  BY <1>1 DEF ThreadsRight, OriginRight
<1>7. ASSUME NEW o \in Thread PROVE ThreadRight(o)' /\ ReplyRight(o)'
  <2>1. CASE o = t
    <3>1. answer'[t] = a
      BY <1>1, <1>3
    <3>2. (a = NotModified /\ tag[t] = 0) => copy[t].version >= since[t]
      <4>1. NotModified \notin Content /\ NotModified # OtherStatus /\ NotModified # Failed
        BY GetAssumption
      <4>2. tag[t] = 0 => tag[t] # current.version
        BY <1>2
      <4> HIDE DEF current
      <4>3. (a = NotModified /\ tag[t] = 0) => copy[t] \in {current, Bodiless(current)}
        BY <1>2, <1>3, <4>1, <4>2
      <4> QED
        BY <1>1, <1>2, <4>3
    <3>3. a \in Content => a.version >= since[t] /\ Known(a)
      BY <1>1, <1>2, <1>4 DEF Known
    <3> QED
      BY <1>1, <1>4, <2>1, <3>1, <3>2, <3>3
      DEF ThreadsRight, ThreadRight, ReplyRight, Storable, Known, Cacheable
  <2>2. CASE o # t
    <3>1. answer'[o] = answer[o]
      BY <1>1, <1>3, <2>2
    <3> QED
      BY <1>1, <3>1 DEF ThreadsRight, ThreadRight, ReplyRight, Storable, Known, Cacheable
  <2> QED
    BY <2>1, <2>2
<1> QED
  BY <1>5, <1>6, <1>7 DEF ThreadsRight

(* What a thread copies from its node is torn or for its URI.              *)
LEMMA CopyIsRight ==
  ASSUME Inductive, NodesRight, NEW t \in Thread, NEW r, CopyNode(t, r)
  PROVE  /\ r.content \in Copied
         /\ r.content # Torn => r.content.uri = request[t] /\ Storable(r.content)
<1>1. /\ node[t] \in allocated /\ uri[node[t]] = request[t]
  BY DEF CopyNode, Inductive, PointersLeadToTheirURI, TypeOK, Pointer
<1>2. CASE r = response[node[t]]
  BY <1>1, <1>2 DEF Inductive, Constructed, NodesRight, Response, Copied
<1>3. CASE r = TornResponse
  BY <1>3 DEF TornResponse, Copied
<1> QED
  BY <1>2, <1>3 DEF CopyNode, Copies

LEMMA RevalidateStep ==
  ASSUME ThreadsRight, Inductive, NodesRight, NEW t \in Thread, NEW r, Revalidate(t, r)
  PROVE  ThreadsRight'
<1>1. /\ TypeOKGet /\ stage[t] = "stale" /\ UNCHANGED <<request, origin, answer, reply, tag, since, requests>>
      /\ copy \in [Thread -> Copied \cup {NULL}] /\ stage \in [Thread -> Stages]
      /\ copy' = [copy EXCEPT ![t] = r.content] /\ stage' = [stage EXCEPT ![t] = "revalidate"]
  BY DEF Revalidate, In, To, CopyNode, callVars, ThreadsRight, TypeOKGet, Stages
<1>2. r.content \in Copied /\ (r.content # Torn => r.content.uri = request[t] /\ Storable(r.content))
  BY CopyIsRight DEF Revalidate
<1>3. TypeOKGet'
  BY <1>1, <1>2 DEF TypeOKGet, Stages
<1>4. OriginRight'
  BY <1>1 DEF ThreadsRight, OriginRight
<1>5. ASSUME NEW o \in Thread PROVE ThreadRight(o)' /\ ReplyRight(o)'
  <2>1. CASE o = t
    <3>1. copy'[t] = r.content /\ stage'[t] = "revalidate" /\ answer[t] = NULL /\ request[t] \in URI
      BY <1>1 DEF ThreadsRight, ThreadRight
    <3>2. NULL \notin Content /\ NULL # NotModified /\ Torn \notin Content
      BY GetAssumption, CacheAssumption
    <3> QED
      BY <1>1, <1>2, <2>1, <3>1, <3>2
      DEF ThreadsRight, ThreadRight, ReplyRight, Storable, Known, Cacheable
  <2>2. CASE o # t
    <3>1. copy'[o] = copy[o] /\ stage'[o] = stage[o]
      BY <1>1, <2>2
    <3> QED
      BY <1>1, <3>1 DEF ThreadsRight, ThreadRight, ReplyRight, Storable, Known, Cacheable
  <2> QED
    BY <2>1, <2>2
<1> QED
  BY <1>3, <1>4, <1>5 DEF ThreadsRight

(* The steps of a thread on its own.                                       *)
LEMMA ProceedStep ==
  ASSUME ThreadsRight, Inductive, NodesRight, NEW t \in Thread, Proceed(t)
  PROVE  ThreadsRight'
<1>1. /\ ThreadRight(t) /\ Stages = {"done", "lookup", "judge", "serve", "stale", "revalidate", "fetch", "store", "respond"}
  BY DEF ThreadsRight, Stages
<1>2. CASE Lookup(t) \/ IsFreshLooksUp(t) \/ Storing(t) \/ Crash(t)
  BY <1>2, ThreadsRest
  DEF Lookup, IsFreshLooksUp, Storing, Crash, GetResponse, FindAgain, Segfault, callVars, PutStep,
      Lock, Scan, Update, Link, Index, Evict, Unlock
<1>3. CASE Hit(t)
  <2>1. MayBeIn(t, "judge") /\ Sends(t)
    BY <1>1, <1>3 DEF Hit, In, ThreadRight, MayBeIn, Sends
  <2> QED
    BY <1>1, <1>3, <2>1, StageStep DEF Hit, SetFirstRequestTime, callVars
<1>4. ASSUME NEW r, Judge(t, r) PROVE ThreadsRight'
  <2>1. UNCHANGED <<request, origin, copy, answer, tag, since, requests>>
    BY <1>4 DEF Judge, CopyFound, callVars
  <2>2. CASE To(t, "done") /\ Throw(t)
    <3>1. Sends(t) /\ MayBeIn(t, "done")
      BY <2>2, SendIsRight DEF Throw, Report, Sends, MayBeIn
    <3> QED
      BY <1>1, <2>1, <2>2, <3>1, StageStep
  <2>3. ASSUME NEW s \in {"serve", "stale"}, To(t, s), UNCHANGED reply PROVE ThreadsRight'
    <3>1. answer[t] = NULL /\ request[t] \in URI
      BY <1>1, <1>4 DEF Judge, In, ThreadRight
    <3>2. Sends(t) /\ MayBeIn(t, s)
      BY <2>3, <3>1 DEF Sends, MayBeIn
    <3> QED
      BY <1>1, <2>1, <2>3, <3>2, StageStep
  <2> QED
    BY <1>4, <2>2, <2>3 DEF Judge
<1>5. ASSUME NEW r, Serve(t, r) PROVE ThreadsRight'
  <2> DEFINE m == [from |-> "cache", content |-> r.content]
  <2>1. r.content \in Copied /\ (r.content # Torn => r.content.uri = request[t] /\ Storable(r.content))
    BY <1>5, CopyIsRight DEF Serve
  <2>2. MaySend(t, m)
    BY <2>1 DEF MaySend, Reply
  <2> HIDE DEF m
  <2>3. Sends(t) /\ MayBeIn(t, "done")
    BY <1>5, <2>2, SendIsRight DEF Serve, MayBeIn, m
  <2> QED
    BY <1>1, <1>5, <2>3, StageStep DEF Serve, CopyNode, callVars
<1>6. CASE \E r \in Response \cup {TornResponse} : Revalidate(t, r)
  BY <1>6, RevalidateStep
<1>7. CASE Validated(t)
  <2> DEFINE m == [from |-> "validation", content |-> copy[t]]
  <2>1. MaySend(t, m)
    BY <1>1, <1>7 DEF Validated, In, ThreadRight, MaySend, Reply, Copied
  <2> HIDE DEF m
  <2>2. Sends(t) /\ MayBeIn(t, "done")
    BY <1>7, <2>1, SendIsRight DEF Validated, MayBeIn, m
  <2> QED
    BY <1>1, <1>7, <2>2, StageStep DEF Validated, vars, callVars
<1>8. CASE Revalidated(t) \/ Fetched(t)
  <2>1. /\ UNCHANGED <<request, origin, copy, answer, reply, tag, since, requests>>
        /\ answer[t] \in Content /\ request[t] \in URI
        /\ To(t, "store") \/ To(t, "respond")
    BY <1>1, <1>8 DEF Revalidated, Fetched, In, ThreadRight, CallPut, vars, callVars
  <2>2. Sends(t) /\ MayBeIn(t, "store") /\ MayBeIn(t, "respond")
    BY <2>1 DEF Sends, MayBeIn
  <2> QED
    BY <1>1, <2>1, <2>2, StageStep
<1>9. CASE Ignored(t)
  <2>1. Sends(t) /\ MayBeIn(t, "done")
    BY <1>9 DEF Ignored, Sends, MayBeIn
  <2> QED
    BY <1>1, <1>9, <2>1, StageStep DEF Ignored, vars, callVars
<1>10. CASE Miss(t)
  <2>1. Sends(t) /\ MayBeIn(t, "fetch")
    BY <1>1, <1>10 DEF Miss, In, ThreadRight, Sends, MayBeIn
  <2> QED
    BY <1>1, <1>10, <2>1, StageStep DEF Miss, vars, callVars
<1>11. CASE Stored(t)
  <2>1. /\ UNCHANGED <<request, origin, copy, answer, tag, since, requests>>
        /\ answer[t] \in Content /\ request[t] \in URI
    BY <1>1, <1>11 DEF Stored, In, ThreadRight, vars, callVars
  <2>2. CASE To(t, "respond") /\ UNCHANGED reply
    <3>1. Sends(t) /\ MayBeIn(t, "respond")
      BY <2>1, <2>2 DEF Sends, MayBeIn
    <3> QED
      BY <1>1, <2>1, <2>2, <3>1, StageStep
  <2>3. CASE To(t, "done") /\ Throw(t)
    <3>1. Sends(t) /\ MayBeIn(t, "done")
      BY <2>3, SendIsRight DEF Throw, Report, Sends, MayBeIn
    <3> QED
      BY <1>1, <2>1, <2>3, <3>1, StageStep
  <2> QED
    BY <1>11, <2>2, <2>3 DEF Stored
<1>12. CASE Respond(t)
  <2> DEFINE m == [from |-> "origin", content |-> answer[t]]
  <2>1. MaySend(t, m)
    BY <1>1, <1>12 DEF Respond, In, ThreadRight, MaySend, Reply, Copied
  <2> HIDE DEF m
  <2>2. Sends(t) /\ MayBeIn(t, "done")
    BY <1>12, <2>1, SendIsRight DEF Respond, MayBeIn, m
  <2> QED
    BY <1>1, <1>12, <2>2, StageStep DEF Respond, vars, callVars
<1>13. CASE NoAnswer(t)
  <2>1. Sends(t) /\ MayBeIn(t, "done")
    BY <1>13, SendIsRight DEF NoAnswer, Throw, Report, Sends, MayBeIn
  <2> QED
    BY <1>1, <1>13, <2>1, StageStep DEF NoAnswer, vars, callVars
<1> QED
  BY <1>2, <1>3, <1>4, <1>5, <1>6, <1>7, <1>8, <1>9, <1>10, <1>11, <1>12, <1>13 DEF Proceed

LEMMA InductiveGetStep ==
  ASSUME InductiveGet, [NextGet]_allVars
  PROVE  InductiveGet'
<1>1. Inductive /\ NodesRight /\ ThreadsRight /\ request \in [Thread -> URI \cup {NULL}]
  BY DEF InductiveGet, ThreadsRight, Inductive, TypeOK
<1>2. Inductive'
  BY <1>1, CacheStep, NextInductive
<1>3. NodesRight' /\ ArgumentsRight'
  BY NodesStep
<1>4. ThreadsRight'
  <2>1. CASE UNCHANGED allVars
    BY <1>1, <2>1, ThreadsRest DEF allVars, vars, callVars
  <2>2. ASSUME NEW t \in Thread, Proceed(t) PROVE ThreadsRight'
    BY <1>1, <2>2, ProceedStep
  <2>3. ASSUME NEW t \in Thread, OriginAnswers(t) PROVE ThreadsRight'
    BY <1>1, <2>3, OriginAnswersStep
  <2>4. ASSUME NEW t \in Thread, NEW u \in URI, Get(t, u) PROVE ThreadsRight'
    BY <1>1, <2>4, GetStep
  <2>5. ASSUME NEW u \in URI, Publish(u) PROVE ThreadsRight'
    BY <1>1, <2>5, PublishStep
  <2> QED
    BY <2>1, <2>2, <2>3, <2>4, <2>5 DEF NextGet, Rest
<1> QED
  BY <1>2, <1>3, <1>4 DEF InductiveGet, ThreadsRight

(* What is true between any two steps of any number of GETs.               *)
THEOREM GetInvariant == SpecGet => []InductiveGet
<1>1. InductiveGet /\ [NextGet]_allVars => InductiveGet'
  BY InductiveGetStep
<1> QED
  BY InitInductiveGet, <1>1, PTL DEF SpecGet

-----------------------------------------------------------------------------
(* The theorems.                                                           *)

(* The handlers use the cache only as Cache lets its callers: what holds   *)
(* of it under callers in any order holds under GETs and revalidations     *)
(* (GetMethod.cpp:9-67, Cache.cpp:207-297).                                *)
THEOREM GetUsesCache == SpecGet => Spec
<1>1. InitGet => Init
  BY DEF InitGet
<1> QED
  BY <1>1, CacheStep, PTL DEF SpecGet, Spec

(* The variables of the handlers keep their types; no reply is ever an     *)
(* answer that was not received.                                           *)
THEOREM TypeCorrectnessGet == SpecGet => []TypeOKGet
<1>1. InductiveGet => TypeOKGet
  BY DEF InductiveGet
<1> QED
  BY <1>1, GetInvariant, PTL

(* Nothing that must not be stored is in any node (GetMethod.cpp:49,       *)
(* Cache.cpp:258).                                                         *)
THEOREM NothingUncacheableIsStored == SpecGet => []StoresOnlyCacheable
<1>1. InductiveGet => StoresOnlyCacheable
  BY DEF InductiveGet, NodesRight, Storable, StoresOnlyCacheable
<1> QED
  BY <1>1, GetInvariant, PTL

(* No client gets the response for another URI, evictions and races of the *)
(* map notwithstanding (GetMethod.cpp:30, Cache.cpp:61-69).                *)
THEOREM RepliesAreForTheRequest == SpecGet => []AnswersTheRequest
<1>1. InductiveGet => AnswersTheRequest
  BY DEF InductiveGet, ReplyRight, AnswersTheRequest
<1> QED
  BY <1>1, GetInvariant, PTL

(* What the origin sent or validated is as new as the request              *)
(* (GetMethod.cpp:32, Cache.cpp:250).                                      *)
THEOREM RepliesAreAsNewAsTheRequest == SpecGet => []NeverOlderThanTheRequest
<1>1. InductiveGet => NeverOlderThanTheRequest
  BY DEF InductiveGet, ReplyRight, NeverOlderThanTheRequest
<1> QED
  BY <1>1, GetInvariant, PTL
=============================================================================

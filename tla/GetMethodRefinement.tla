-------------------------- MODULE GetMethodRefinement --------------------------
(***************************************************************************)
(* That GETs through the cache implement Web, for every number of threads, *)
(* requests, URIs and versions: a step of a handler closes its request     *)
(* with the one answer Web allows it, or leaves the requests as they are.  *)
(***************************************************************************)
EXTENDS GetMethodProofs, CacheRefinement

(* The abstract variables that are not variables of GetMethod.             *)
Questions == [t \in Thread |-> Asked(t)]
OpenRequests == {t \in Thread : stage[t] # "done"}

(* A step that keeps what was asked, what the origin holds and what was    *)
(* answered, and neither begins nor ends a request.                        *)
Silent ==
  UNCHANGED <<request, origin, tag, since, reply, OpenRequests>>

LEMMA SilentStep == ASSUME Silent PROVE UNCHANGED W!webVars
BY DEF Silent, OpenRequests, Asked, W!webVars

(* A thread goes on within its request.                                    *)
LEMMA Onward ==
  ASSUME InductiveGet, NEW t \in Thread, NEW s \in Stages \ {"done"},
         stage[t] # "done", To(t, s), UNCHANGED <<request, origin, tag, since, reply>>
  PROVE  UNCHANGED W!webVars
<1>1. stage \in [Thread -> Stages]
  BY DEF InductiveGet, TypeOKGet, Stages
<1>2. OpenRequests' = OpenRequests
  BY <1>1 DEF OpenRequests, To
<1> QED
  BY <1>2, SilentStep DEF Silent

(* A thread ends its request.                                              *)
LEMMA Closing ==
  ASSUME InductiveGet, NEW t \in Thread, stage[t] # "done", To(t, "done"),
         UNCHANGED <<request, origin, tag, since>>
  PROVE  W!Close(t)
<1>1. stage \in [Thread -> Stages]
  BY DEF InductiveGet, TypeOKGet, Stages
<1>2. OpenRequests' = OpenRequests \ {t} /\ t \in OpenRequests
  BY <1>1 DEF OpenRequests, To
<1>3. Questions' = Questions
  BY DEF Questions, Asked
<1> QED
  BY <1>2, <1>3 DEF W!Close, OpenRequests, Questions

(* What a thread sends is the answer to its request, or is lost.           *)
LEMMA Refusal ==
  ASSUME NEW t \in Thread, W!Close(t), NEW r \in {ErrorStatus, Lost},
         reply' = [reply EXCEPT ![t] = r]
  PROVE  W!Next
BY DEF W!Refuse, W!Answer, W!Next

LEMMA Answering ==
  ASSUME NEW t \in Thread, NEW r, W!Close(t), Send(t, r), W!Answer(t, r) => W!Next
  PROVE  W!Next
<1>1. CASE reply' = [reply EXCEPT ![t] = r]
  BY <1>1 DEF W!Answer
<1>2. CASE reply' = [reply EXCEPT ![t] = Lost]
  BY <1>2, Refusal
<1> QED
  BY <1>1, <1>2 DEF Send

LEMMA Throwing ==
  ASSUME NEW t \in Thread, W!Close(t), Throw(t)
  PROVE  W!Next
<1>1. CASE Report(t)
  BY <1>1, Refusal DEF Report, Send
<1>2. CASE UNCHANGED reply
  BY <1>2 DEF W!GiveUp, W!Next
<1> QED
  BY <1>1, <1>2 DEF Throw

(* What the invariant says of the request of a thread that is in progress. *)
LEMMA QuestionOf ==
  ASSUME InductiveGet, NEW t \in Thread, stage[t] # "done"
  PROVE  /\ t \in OpenRequests /\ request[t] \in URI
         /\ Questions[t].uri = request[t] /\ Questions[t].since = since[t]
         /\ Questions[t].names = tag[t]
<1>1. request[t] \in URI /\ request[t] # NULL
  BY CacheAssumption DEF InductiveGet, ThreadRight
<1>2. Questions[t] = [uri |-> request[t], since |-> since[t], names |-> tag[t]]
  BY <1>1 DEF Questions, Asked
<1> QED
  BY <1>1, <1>2 DEF OpenRequests

(* A content the invariant calls known has been held.                      *)
LEMMA KnownWasHeld ==
  ASSUME InductiveGet, NEW t \in Thread, stage[t] # "done",
         NEW c \in Content, c.uri = request[t], Known(c)
  PROVE  W!WasHeld(t, c)
BY QuestionOf DEF W!WasHeld, Known, OpenRequests, Questions

Shared == {c \in Content : Cacheable(c)}

-----------------------------------------------------------------------------
(* The answers.                                                            *)

LEMMA ServeStep ==
  ASSUME InductiveGet, NEW t \in Thread, NEW r, Serve(t, r)
  PROVE  W!Next
<1> DEFINE m == [from |-> "cache", content |-> r.content]
<1>1. W!Close(t) /\ Send(t, m) /\ stage[t] # "done"
  BY Closing DEF Serve, In, CopyNode, callVars
<1>2. r.content \in Copied /\ (r.content # Torn => r.content.uri = request[t] /\ Storable(r.content))
  BY CopyIsRight DEF Serve, InductiveGet
<1>3. ASSUME W!Answer(t, m) PROVE W!Next
  <2>1. CASE r.content = Torn
    BY <1>3, <2>1 DEF W!Damaged, W!Next
  <2>2. CASE r.content # Torn
    <3>1. r.content \in Shared /\ W!WasHeld(t, r.content)
      BY <1>1, <1>2, <2>2, KnownWasHeld DEF Copied, Storable, Shared
    <3> QED
      BY <1>3, <3>1 DEF W!FromCache, W!Next, Shared
  <2> QED
    BY <2>1, <2>2
<1> HIDE DEF m
<1> QED
  BY <1>1, <1>3, Answering

LEMMA ValidatedStep ==
  ASSUME InductiveGet, NEW t \in Thread, Validated(t)
  PROVE  W!Next
<1> DEFINE m == [from |-> "validation", content |-> copy[t]]
<1>1. W!Close(t) /\ Send(t, m) /\ stage[t] = "revalidate" /\ answer[t] = NotModified
  BY Closing DEF Validated, In, vars, callVars
<1>2. /\ copy[t] \in Copied
      /\ copy[t] \in Content => copy[t].uri = request[t] /\ Storable(copy[t])
      /\ tag[t] = 0 => copy[t].version >= since[t]
  BY <1>1 DEF InductiveGet, ThreadRight
<1>3. ASSUME W!Answer(t, m) PROVE W!Next
  <2>1. CASE copy[t] = Torn
    BY <1>3, <2>1 DEF W!Damaged, W!Next
  <2>2. CASE copy[t] \in Content
    <3>1. copy[t] \in Shared /\ W!WasHeld(t, copy[t])
      BY <1>1, <1>2, <2>2, KnownWasHeld DEF Storable, Shared
    <3>2. Questions[t].since = since[t] /\ Questions[t].names = tag[t]
      BY <1>1, QuestionOf
    <3>3. copy[t].version \in Nat /\ since[t] \in Nat
      BY <2>2, VersionType DEF InductiveGet, TypeOKGet
    <3>4. W!HeldSince(t, copy[t]) \/ Questions[t].names # 0
      BY <1>2, <3>1, <3>2, <3>3 DEF W!HeldSince, Questions
    <3> QED
      BY <1>3, <3>1, <3>4 DEF W!FromValidation, W!Next, Shared, Questions
  <2> QED
    BY <1>2, <2>1, <2>2 DEF Copied
<1> HIDE DEF m
<1> QED
  BY <1>1, <1>3, Answering

LEMMA RespondStep ==
  ASSUME InductiveGet, NEW t \in Thread, Respond(t)
  PROVE  W!Next
<1> DEFINE m == [from |-> "origin", content |-> answer[t]]
<1>1. W!Close(t) /\ Send(t, m) /\ stage[t] = "respond"
  BY Closing DEF Respond, In, vars, callVars
<1>2. /\ answer[t] \in Content /\ answer[t].uri = request[t]
      /\ answer[t].version >= since[t] /\ Known(answer[t])
  BY <1>1 DEF InductiveGet, ThreadRight
<1>3. W!WasHeld(t, answer[t])
  BY <1>1, <1>2, KnownWasHeld
<1>4. Questions[t].since = since[t] /\ answer[t].version \in Nat /\ since[t] \in Nat
  BY <1>1, <1>2, QuestionOf, VersionType DEF InductiveGet, TypeOKGet
<1>5. W!HeldSince(t, answer[t])
  BY <1>2, <1>3, <1>4 DEF W!HeldSince, Questions
<1>6. ASSUME W!Answer(t, m) PROVE W!Next
  BY <1>2, <1>5, <1>6 DEF W!FromOrigin, W!Next
<1> HIDE DEF m
<1> QED
  BY <1>1, <1>6, Answering

-----------------------------------------------------------------------------
(* The steps.                                                              *)

LEMMA JudgeStep ==
  ASSUME InductiveGet, NEW t \in Thread, NEW r, Judge(t, r)
  PROVE  [W!Next]_(W!webVars)
<1>1. stage[t] # "done" /\ UNCHANGED <<request, origin, tag, since>>
  BY DEF Judge, In, CopyFound, callVars
<1>2. ASSUME NEW s \in {"serve", "stale"}, To(t, s), UNCHANGED reply PROVE UNCHANGED W!webVars
  BY <1>1, <1>2, Onward DEF Stages
<1>3. ASSUME To(t, "done"), Throw(t) PROVE W!Next
  BY <1>1, <1>3, Closing, Throwing
<1> QED
  BY <1>2, <1>3 DEF Judge

LEMMA StoredStep ==
  ASSUME InductiveGet, NEW t \in Thread, Stored(t)
  PROVE  [W!Next]_(W!webVars)
<1>1. stage[t] # "done" /\ UNCHANGED <<request, origin, tag, since>>
  BY DEF Stored, In, vars, callVars
<1>2. ASSUME To(t, "respond"), UNCHANGED reply PROVE UNCHANGED W!webVars
  BY <1>1, <1>2, Onward DEF Stages
<1>3. ASSUME To(t, "done"), Throw(t) PROVE W!Next
  BY <1>1, <1>3, Closing, Throwing
<1> QED
  BY <1>2, <1>3 DEF Stored

LEMMA HandlerStep ==
  ASSUME InductiveGet, NEW t \in Thread, Proceed(t)
  PROVE  [W!Next]_(W!webVars)
<1>1. CASE Lookup(t) \/ IsFreshLooksUp(t) \/ Storing(t) \/ Crash(t)
  <2>1. UNCHANGED <<getVars, request>>
    BY <1>1 DEF Lookup, IsFreshLooksUp, Storing, Crash, GetResponse, FindAgain, Segfault,
       callVars, PutStep, Lock, Scan, Update, Link, Index, Evict, Unlock
  <2> QED
    BY <2>1, SilentStep DEF getVars, Silent, OpenRequests
<1>2. CASE Hit(t) \/ Miss(t)
  BY <1>2, Onward DEF Hit, Miss, In, SetFirstRequestTime, vars, callVars, Stages
<1>3. ASSUME NEW r, Revalidate(t, r) PROVE [W!Next]_(W!webVars)
  BY <1>3, Onward DEF Revalidate, In, CopyNode, callVars, Stages
<1>4. CASE Revalidated(t) \/ Fetched(t)
  BY <1>4, Onward DEF Revalidated, Fetched, In, CallPut, vars, callVars, Stages
<1>5. CASE Ignored(t)
  <2>1. W!Close(t)
    BY <1>5, Closing DEF Ignored, In, vars, callVars
  <2> QED
    BY <1>5, <2>1 DEF Ignored, W!GiveUp, W!Next
<1>6. CASE NoAnswer(t)
  <2>1. W!Close(t) /\ Throw(t)
    BY <1>6, Closing DEF NoAnswer, In, Throw, vars, callVars
  <2> QED
    BY <2>1, Throwing
<1> QED
  BY <1>1, <1>2, <1>3, <1>4, <1>5, <1>6, JudgeStep, ServeStep, ValidatedStep, StoredStep, RespondStep
  DEF Proceed

LEMMA AskStep ==
  ASSUME InductiveGet, NEW t \in Thread, NEW u \in URI, Get(t, u)
  PROVE  W!Ask(t, u)
<1>1. /\ stage \in [Thread -> Stages] /\ request \in [Thread -> URI \cup {NULL}]
      /\ since \in [Thread -> Nat] /\ tag \in [Thread -> ClientTag \cup {0}]
  BY DEF InductiveGet, TypeOKGet, Inductive, TypeOK, Stages
<1>2. PICK v \in ClientTag \cup {0} : v <= origin[u].version /\ tag' = [tag EXCEPT ![t] = v]
  BY DEF Get
<1>3. /\ stage[t] = "done" /\ stage' = [stage EXCEPT ![t] = "lookup"]
      /\ request' = [request EXCEPT ![t] = u] /\ since' = [since EXCEPT ![t] = origin[u].version]
      /\ reply' = [reply EXCEPT ![t] = NULL] /\ UNCHANGED origin
  BY DEF Get, In, To, CallGet
<1> DEFINE q == [uri |-> u, since |-> origin[u].version, names |-> v]
<1>4. Questions' = [Questions EXCEPT ![t] = q]
  <2>1. u # NULL
    BY CacheAssumption
  <2>2. Asked(t)' = q
    BY <1>1, <1>2, <1>3, <2>1 DEF Asked
  <2>3. \A o \in Thread \ {t} : Asked(o)' = Asked(o)
    BY <1>1, <1>2, <1>3 DEF Asked
  <2> HIDE DEF q
  <2> QED
    BY <2>2, <2>3 DEF Questions
<1>5. t \notin OpenRequests /\ OpenRequests' = OpenRequests \cup {t}
  BY <1>1, <1>3 DEF OpenRequests
<1>6. v \in 0 .. origin[u].version
  <2>1. origin[u] \in Content
    BY DEF InductiveGet, TypeOKGet
  <2>2. v \in Nat /\ origin[u].version \in Nat
    BY <2>1, GetAssumption, VersionType
  <2> QED
    BY <1>2, <2>2
<1> QED
  BY <1>3, <1>4, <1>5, <1>6 DEF W!Ask, Questions, OpenRequests

LEMMA WebStep ==
  ASSUME InductiveGet, [NextGet]_allVars
  PROVE  [W!Next]_(W!webVars)
<1>1. ASSUME NEW t \in Thread, OriginAnswers(t) PROVE UNCHANGED W!webVars
  BY <1>1, SilentStep DEF OriginAnswers, vars, callVars, Silent, OpenRequests
<1>2. ASSUME NEW u \in URI, Publish(u) PROVE W!Next
  <2>1. UNCHANGED <<Questions, OpenRequests, reply>>
    BY <1>2 DEF Publish, vars, callVars, Questions, Asked, OpenRequests
  <2>2. W!Publish(u)
    BY <1>2, <2>1 DEF Publish, W!Publish, Questions, OpenRequests
  <2> QED
    BY <2>2 DEF W!Next
<1>3. ASSUME NEW t \in Thread, NEW u \in URI, Get(t, u) PROVE W!Next
  BY <1>3, AskStep DEF W!Next
<1>4. CASE UNCHANGED allVars
  BY <1>4, SilentStep DEF allVars, getVars, vars, callVars, Silent, OpenRequests
<1> QED
  BY <1>1, <1>2, <1>3, <1>4, HandlerStep DEF NextGet, Rest

LEMMA WebInit == InitGet => W!Init
<1> SUFFICES ASSUME InitGet PROVE W!Init
  OBVIOUS
<1>1. Questions = [t \in Thread |-> NULL] /\ OpenRequests = {}
  BY DEF InitGet, Init, Questions, Asked, OpenRequests
<1> QED
  BY <1>1 DEF InitGet, W!Init, Questions, OpenRequests

-----------------------------------------------------------------------------
(* The theorems.                                                           *)

(* The GETs, however the threads interleave and whatever the cache evicts  *)
(* or races over meanwhile, keep the promise of Web: one answer for each   *)
(* request at most, of a version the origin has held, and held since the   *)
(* request if it was asked; what must not be stored comes from the origin  *)
(* only (GetMethod.cpp:18-67, Cache.cpp:207-297).                          *)
THEOREM GetRefinesWeb == SpecGet => ImplementsWeb
<1>1. InductiveGet /\ [NextGet]_allVars => [W!Next]_(W!webVars)
  BY WebStep
<1> QED
  BY WebInit, <1>1, GetInvariant, PTL DEF SpecGet, ImplementsWeb, W!Spec

(* GETs that miss and revalidations store like any caller of putResponse:  *)
(* what they keep is a store of at most Capacity responses that drops the  *)
(* oldest, each stored at one instant (Cache.cpp:12-73, 207-273,           *)
(* GetMethod.cpp:49).                                                      *)
THEOREM GetsStoreInOrder == SpecGet => ImplementsFifoStore
BY GetUsesCache, StoreRefinement, PTL
=============================================================================

------------------------------ MODULE GetMethod ------------------------------
(***************************************************************************)
(* A GET request on its way through GetMethod::takeAction and, when the    *)
(* cached response is not fresh, through Cache::revalidation: the handler  *)
(* threads of the proxy, the Cache they share, and the origin server.      *)
(*                                                                         *)
(* Each thread serves one request at a time; a finished thread's place is  *)
(* taken by the thread of a later connection.  What the origin holds under *)
(* a URI changes from version to version, and the origin may also answer   *)
(* with an error or not at all.                                            *)
(***************************************************************************)
EXTENDS Cache

CONSTANTS
  MaxRequests,  \* bounds the GET requests of a finite instance
  ClientTag,    \* the versions a client may name in an If-None-Match; 0 for none
  NotModified,  \* the answer 304 to a conditional request
  OtherStatus,  \* an answer whose status is neither 200 nor 304
  Failed,       \* an exception: no answer could be got from the origin
  ErrorStatus,  \* the reply that reports an exception to the client
  Lost          \* a reply whose send failed

(* A version of what the origin holds under a URI: cacheable, not (no      *)
(* cache-control, no-store or private), cacheable with a max-age or an age *)
(* that stoi cannot convert, or with a lifetime longer than the time since *)
(* 1970; or the 304 that a client's own If-None-Match brings for it.       *)
Kind == {"cacheable", "uncacheable", "garbled", "everlasting", "bodiless"}

Copied == Content \cup {Torn}
Answers == Content \cup {NotModified, OtherStatus, Failed}
Reply == [from : {"cache", "validation", "origin"}, content : Copied]

ASSUME RequestBound == MaxRequests \in Nat

ASSUME GetAssumption ==
  /\ Content \subseteq [uri : URI, version : Nat \ {0}, kind : Kind]
  /\ \A u \in URI : \E c \in Content : c.uri = u /\ c.version = 1
  /\ ClientTag \subseteq Nat
  /\ {NULL, NotModified, OtherStatus, Failed} \cap Content = {}
  /\ NotModified \notin {NULL, OtherStatus, Failed}
  /\ {NULL, ErrorStatus, Lost} \cap Reply = {}

VARIABLES
  stage,     \* where in takeAction each thread is
  origin,    \* what the origin holds under each URI
  copy,      \* the stored response a thread passed to revalidation
  answer,    \* what a thread has received from the origin
  reply,     \* what a thread has sent to its client; NULL if nothing yet
  tag,       \* what each client named in an If-None-Match of its own
  since,     \* history: the origin's version when the request arrived
  requests   \* the number of GET requests so far

getVars == <<stage, origin, copy, answer, reply, tag, since, requests>>
allVars == <<vars, getVars>>

Garbled(c) == c # Torn /\ c.kind = "garbled"
Everlasting(c) == c # Torn => c.kind = "everlasting"

(* getCacheable() == "yes".                                                *)
Cacheable(c) == c.kind # "uncacheable"

TypeOKGet ==
  /\ stage \in [Thread -> {"done", "lookup", "judge", "serve", "stale", "revalidate",
                           "fetch", "store", "respond"}]
  /\ origin \in [URI -> Content]
  /\ copy \in [Thread -> Copied \cup {NULL}]
  /\ answer \in [Thread -> Answers \cup {NULL}]
  /\ reply \in [Thread -> Reply \cup {NULL, ErrorStatus, Lost}]
  /\ tag \in [Thread -> ClientTag \cup {0}]
  /\ since \in [Thread -> Nat]
  /\ requests \in 0 .. MaxRequests

InitGet ==
  /\ Init
  /\ stage = [t \in Thread |-> "done"]
  /\ origin \in {f \in [URI -> Content] : \A u \in URI : f[u].uri = u /\ f[u].version = 1 /\ f[u].kind # "bodiless"}
  /\ copy = [t \in Thread |-> NULL]
  /\ answer = [t \in Thread |-> NULL]
  /\ reply = [t \in Thread |-> NULL]
  /\ tag = [t \in Thread |-> 0]
  /\ since = [t \in Thread |-> 0]
  /\ requests = 0

(* Thread t of the running process is in a stage; it goes on to another.   *)
In(t, s) == status = "up" /\ stage[t] = s
To(t, s) == stage' = [stage EXCEPT ![t] = s]

(* The thread sends r to its client, or fails to: sendResponse throws a    *)
(* runtime_error, which exec only logs.                                    *)
Send(t, r) == reply' = [reply EXCEPT ![t] = r] \/ reply' = [reply EXCEPT ![t] = Lost]

(* An invalid_argument is reported to the client by sendErrorStatus, any   *)
(* other exception is only logged.                                         *)
Report(t) == Send(t, ErrorStatus)
Throw(t) == Report(t) \/ UNCHANGED reply

-----------------------------------------------------------------------------
(* The origin and the clients.                                             *)

Publish(u) ==
  /\ status = "up"
  /\ \E c \in Content :
       /\ c.uri = u
       /\ c.version = origin[u].version + 1
       /\ c.kind # "bodiless"
       /\ origin' = [origin EXCEPT ![u] = c]
  /\ UNCHANGED <<vars, stage, copy, answer, reply, tag, since, requests>>

Bodiless(c) == [c EXCEPT !.kind = "bodiless"]

(* The origin answers the request it was sent, or the connection fails.    *)
(* It confirms the validator of the copy only while it holds that version, *)
(* and so for the validator of the client, which is in the request next to *)
(* that of the copy (the names differ in case, Cache.cpp:230).             *)
OriginAnswers(t) ==
  LET current == origin[request[t]]
      held == tag[t] = current.version
  IN  /\ \/ /\ In(t, "fetch")
           /\ \E a \in {current, Failed} \cup {c \in Content : held /\ c = Bodiless(current)} :
                answer' = [answer EXCEPT ![t] = a]
        \/ /\ In(t, "revalidate")
           /\ \E a \in {current, OtherStatus, Failed}
                        \cup {a \in {NotModified} : held \/ copy[t] \in {current, Bodiless(current)}} :
                answer' = [answer EXCEPT ![t] = a]
      /\ answer[t] = NULL
      /\ UNCHANGED <<vars, stage, origin, copy, reply, tag, since, requests>>

(* A client's GET reaches takeAction, which calls getResponse.             *)
Get(t, u) ==
  /\ requests < MaxRequests
  /\ In(t, "done")
  /\ CallGet(t, u)
  /\ To(t, "lookup")
  /\ copy' = [copy EXCEPT ![t] = NULL]
  /\ answer' = [answer EXCEPT ![t] = NULL]
  /\ reply' = [reply EXCEPT ![t] = NULL]
  /\ \E v \in ClientTag \cup {0} : v <= origin[u].version /\ tag' = [tag EXCEPT ![t] = v]
  /\ since' = [since EXCEPT ![t] = origin[u].version]
  /\ requests' = requests + 1
  /\ UNCHANGED origin

-----------------------------------------------------------------------------
(* A URI that is in the cache.                                             *)

Lookup(t) ==
  /\ In(t, "lookup")
  /\ GetResponse(t)
  /\ UNCHANGED getVars

Hit(t) ==
  /\ In(t, "lookup")
  /\ SetFirstRequestTime(t)
  /\ To(t, "judge")
  /\ UNCHANGED <<origin, copy, answer, reply, tag, since, requests>>

IsFreshLooksUp(t) ==
  /\ In(t, "judge")
  /\ FindAgain(t)
  /\ UNCHANGED getVars

(* isFresh judges the copy r.  While first_request_time is 1 a response    *)
(* counts as old as the clock, so only an everlasting one can be fresh;    *)
(* otherwise the clock decides, either way here.  stoi throws on a garbled *)
(* age.                                                                    *)
Judge(t, r) ==
  /\ In(t, "judge")
  /\ CopyFound(t, r)
  /\ \/ /\ ~Garbled(r.content)
        /\ r.timed \/ Everlasting(r.content)
        /\ To(t, "serve")
        /\ UNCHANGED reply
     \/ /\ ~Garbled(r.content)
        /\ To(t, "stale")
        /\ UNCHANGED reply
     \/ /\ Garbled(r.content)
        /\ To(t, "done")
        /\ Throw(t)
  /\ UNCHANGED <<origin, copy, answer, tag, since, requests>>

(* response = &(node->response), sent as it is by then.                    *)
Serve(t, r) ==
  /\ In(t, "serve")
  /\ CopyNode(t, r)
  /\ Send(t, [from |-> "cache", content |-> r.content])
  /\ To(t, "done")
  /\ UNCHANGED <<origin, copy, answer, tag, since, requests>>

(* revalidation(..., node->response, ...): copied, and the validating      *)
(* request sent; that the send fails is one way to the answer Failed.      *)
Revalidate(t, r) ==
  /\ In(t, "stale")
  /\ CopyNode(t, r)
  /\ copy' = [copy EXCEPT ![t] = r.content]
  /\ To(t, "revalidate")
  /\ UNCHANGED <<origin, answer, reply, tag, since, requests>>

(* Mutant: the reply to a 304 is read from the cache again.                *)
ValidatedFromNode(t) ==
  /\ In(t, "revalidate")
  /\ answer[t] = NotModified
  /\ Send(t, [from |-> "validation", content |-> response[node[t]].content])
  /\ To(t, "done")
  /\ UNCHANGED <<vars, origin, copy, answer, tag, since, requests>>

(* Mutant: takeAction does not return behind revalidation, and sends again. *)
ValidatedGoesOn(t) ==
  /\ In(t, "revalidate")
  /\ answer[t] = NotModified
  /\ Send(t, [from |-> "validation", content |-> copy[t]])
  /\ To(t, "respond")
  /\ UNCHANGED <<vars, origin, copy, answer, tag, since, requests>>

(* 304: the copy is the reply.                                             *)
Validated(t) ==
  /\ In(t, "revalidate")
  /\ answer[t] = NotModified
  /\ Send(t, [from |-> "validation", content |-> copy[t]])
  /\ To(t, "done")
  /\ UNCHANGED <<vars, origin, copy, answer, tag, since, requests>>

(* Mutants: a 200 is stored without a look at getCacheable; whatever the   *)
(* origin answers is passed on.                                            *)
RevalidatedUnchecked(t) ==
  /\ In(t, "revalidate")
  /\ answer[t] \in Content
  /\ CallPut(t, answer[t])
  /\ To(t, "store")
  /\ UNCHANGED <<origin, copy, answer, reply, tag, since, requests>>

RevalidatedAny(t) ==
  /\ In(t, "revalidate")
  /\ answer[t] \in Content \cup {NotModified, OtherStatus}
  /\ To(t, "respond")
  /\ UNCHANGED <<vars, origin, copy, answer, reply, tag, since, requests>>

(* 200: stored if it may be, and sent.                                     *)
Revalidated(t) ==
  /\ In(t, "revalidate")
  /\ answer[t] \in Content
  /\ \/ /\ Cacheable(answer[t])
        /\ CallPut(t, answer[t])
        /\ To(t, "store")
     \/ /\ ~Cacheable(answer[t])
        /\ To(t, "respond")
        /\ UNCHANGED vars
  /\ UNCHANGED <<origin, copy, answer, reply, tag, since, requests>>

(* Any other status: check_validation returns, and so does takeAction.     *)
Ignored(t) ==
  /\ In(t, "revalidate")
  /\ answer[t] = OtherStatus
  /\ To(t, "done")
  /\ UNCHANGED <<vars, origin, copy, answer, reply, tag, since, requests>>

-----------------------------------------------------------------------------
(* A URI that is not in the cache.                                         *)

Miss(t) ==
  /\ In(t, "lookup")
  /\ pc[t] = "idle"
  /\ node[t] = NULL
  /\ To(t, "fetch")
  /\ UNCHANGED <<vars, origin, copy, answer, reply, tag, since, requests>>

Fetched(t) ==
  /\ In(t, "fetch")
  /\ answer[t] \in Content
  /\ \/ /\ Cacheable(answer[t])
        /\ CallPut(t, answer[t])
        /\ To(t, "store")
     \/ /\ ~Cacheable(answer[t])
        /\ To(t, "respond")
        /\ UNCHANGED vars
  /\ UNCHANGED <<origin, copy, answer, reply, tag, since, requests>>

-----------------------------------------------------------------------------
(* Both.                                                                   *)

Storing(t) ==
  /\ In(t, "store")
  /\ PutStep(t)
  /\ UNCHANGED getVars

(* putResponse has returned.  The expiry is logged, of the new response    *)
(* after a miss, of the old copy after a revalidation; stoi may throw.     *)
Stored(t) ==
  /\ In(t, "store")
  /\ pc[t] = "idle"
  /\ \/ /\ To(t, "respond")
        /\ UNCHANGED reply
     \/ /\ Garbled(IF copy[t] = NULL THEN answer[t] ELSE copy[t])
        /\ Throw(t)
        /\ To(t, "done")
  /\ UNCHANGED <<vars, origin, copy, answer, tag, since, requests>>

Respond(t) ==
  /\ In(t, "respond")
  /\ Send(t, [from |-> "origin", content |-> answer[t]])
  /\ To(t, "done")
  /\ UNCHANGED <<vars, origin, copy, answer, tag, since, requests>>

(* sendRequest or receiveResponse threw: an invalid_argument, or the       *)
(* out_of_range of the parser on a Date that begins with GMT.              *)
NoAnswer(t) ==
  /\ In(t, "fetch") \/ In(t, "revalidate")
  /\ answer[t] = Failed
  /\ Throw(t)
  /\ To(t, "done")
  /\ UNCHANGED <<vars, origin, copy, answer, tag, since, requests>>

Crash(t) == Segfault(t) /\ UNCHANGED getVars

Proceed(t) ==
  \/ Lookup(t) \/ Hit(t) \/ IsFreshLooksUp(t)
  \/ \E r \in Response \cup {TornResponse} : Judge(t, r) \/ Serve(t, r) \/ Revalidate(t, r)
  \/ Validated(t) \/ Revalidated(t) \/ Ignored(t)
  \/ Miss(t) \/ Fetched(t)
  \/ Storing(t) \/ Stored(t) \/ Respond(t) \/ NoAnswer(t)
  \/ Crash(t)

(* With no GET in progress the proxy waits in accept; after a crash there  *)
(* is nothing left to run.                                                 *)
Rest ==
  /\ status = "crashed" \/ \A t \in Thread : stage[t] = "done"
  /\ UNCHANGED allVars

NextGet ==
  \/ \E t \in Thread : Proceed(t) \/ OriginAnswers(t) \/ \E u \in URI : Get(t, u)
  \/ \E u \in URI : Publish(u)
  \/ Rest

SpecGet == InitGet /\ [][NextGet]_allVars

(* The operating system schedules every thread that can run.               *)
HandlerFairness == \A t \in Thread : WF_allVars(Proceed(t))

(* The origin answers every request, or closes the connection, in time.    *)
OriginFairness == \A t \in Thread : WF_allVars(OriginAnswers(t))

SpecFairOrigin == SpecGet /\ HandlerFairness /\ OriginFairness
-----------------------------------------------------------------------------
(***************************************************************************)
(* Properties.                                                             *)
(***************************************************************************)

(* A client is answered with a response for the URI it asked for, even     *)
(* when the node its handler holds is evicted before the send              *)
(* (GetMethod.cpp:30, Cache.cpp:61-69).                                    *)
AnswersTheRequest ==
  \A t \in Thread :
    (reply[t] \in Reply /\ reply[t].content # Torn) => reply[t].content.uri = request[t]

(* An answer that involved the origin, a 200 or a stored response the      *)
(* origin validated, is never older than what the origin held when the     *)
(* request arrived, although other threads may overwrite the cached        *)
(* response with an older one meanwhile (GetMethod.cpp:32, Cache.cpp:250); *)
(* unless the client brought a validator, whose 304 the proxy takes for    *)
(* that of its own.                                                        *)
NeverOlderThanTheRequest ==
  \A t \in Thread :
    (reply[t] \in Reply /\ reply[t].from # "cache" /\ reply[t].content # Torn /\ tag[t] = 0)
      => reply[t].content.version >= since[t]

(* What the origin marked no-store or private, or did not mark at all, is  *)
(* in no node, whichever of the two paths received it (GetMethod.cpp:49,   *)
(* Cache.cpp:258).                                                         *)
StoresOnlyCacheable ==
  \A a \in allocated : Cacheable(response[a].content)

(* The handlers and the cache keep the promise of Web: one answer at most  *)
(* for each request, of a version the origin has held, and between request *)
(* and answer if the origin was asked; nothing that must not be stored     *)
(* ever reaches a client but from the origin (GetMethod.cpp:18-67,         *)
(* Cache.cpp:207-297).                                                     *)
Asked(t) ==
  IF request[t] = NULL THEN NULL
  ELSE [uri |-> request[t], since |-> since[t], names |-> tag[t]]

W == INSTANCE Web WITH
  Client <- Thread,
  Public <- {c \in Content : Cacheable(c)},
  Notice <- {ErrorStatus, Lost},
  None <- NULL,
  held <- origin,
  asked <- [t \in Thread |-> Asked(t)],
  open <- {t \in Thread : stage[t] # "done"},
  answered <- reply

ImplementsWeb == W!Spec

(* Every GET comes to an end when the origin answers or hangs up: no       *)
(* thread is left behind a lock or in a loop (danger_log.txt, 02/24).      *)
GetsFinish ==
  \A t \in Thread : stage[t] # "done" ~> (stage[t] = "done" \/ status = "crashed")

(* Every GET that has ended has sent its client something, or has tried,   *)
(* unless no answer of the origin came through the parser (Cache.hpp:85-88 *)
(* on revalidation: send the response to the client).  Checked where no    *)
(* age is garbled: the only exception left is a failed send.               *)
EveryGetIsAnswered ==
  \A t \in Thread :
    (stage[t] = "done" /\ request[t] # NULL /\ answer[t] # Failed) => reply[t] # NULL
=============================================================================

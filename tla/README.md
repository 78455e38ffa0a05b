# A specification of HTTP_Caching_Proxy

TLA+ modules for the caching HTTP proxy in `src/`, the TLC configurations that
check them on small instances, and TLAPS proofs about them. The reference is the
C++ code; every definition that stands for code names its lines in `PROJECT.json`
("map").

## The system

| Component | State it keeps | Operations | Interacts with |
|---|---|---|---|
| `Cache` (`Cache.hpp`, `Cache.cpp`) | doubly linked list `head`..`tail` of `Node`, `size`, `capacity`, `map` URI → `Node*`, mutex `m` | `getResponse`, `putResponse`, `isFresh`, `revalidation` | shared by all handler threads; `m` protects `putResponse` only |
| GET (`GetMethod.cpp`, `Cache::check_validation`) | locals of a thread: `node`, the response | `takeAction`: hit → `isFresh` → serve or revalidate; miss → fetch, store, reply | Cache, origin server, client |
| `HttpProxy` | `next_client_id`, `id_mutex`, listening socket | `multiThread`, `exec`, `_exec`, `methodAct`, `sendErrorStatus` | one detached thread for each connection |
| `TcpConnector`, `HttpConnector` | the two descriptors of a connection | connect, send, receive, `tunnelTransport` | the process's descriptor table |
| POST, CONNECT | none | forward; 200 and relay | HttpConnector |
| `HttpParser` | `remainParsed`, the Beast parser | `parseRequest`, `parseResponse`, `createResponse` | HttpConnector |
| Headers and policy (`Response`, `HttpMessage`, `Request`) | header map, `first_request_time` | `getCacheable`, `getMaxAge`, ... | GET, Cache |
| Freshness arithmetic (`Cache.cpp:76-128`) | none | age, lifetime, date conversion | `isFresh` |
| `ResponseFactory`, `Logger`, `daemonize` | log file | | all |

What is hard about it:

- **Concurrency.** Every connection has a thread, all threads share one `Cache`.
  `putResponse` holds `m`; `getResponse`, `isFresh` and the copies made of
  `node->response` hold nothing, although `operator[]` of the map writes. `gmtime`'s
  buffer is shared as well.
- **Pointers that outlive their lookup.** A handler keeps a `Node*` through
  judging, sending and revalidating, while others update or evict that node.
- **Order.** Two handlers that fetch one URI may store the two answers in the
  wrong order.
- **Bytes.** Messages arrive in pieces cut anywhere; what follows a message belongs to
  nobody, or to a tunnel. Either end of a tunnel may stop, close or reset while the
  other goes on.
- **Time.** An entry of the cache is judged again and again, with a first request time that
  one hit sets for all, in the host's time zone, in 32 bits.
- **Failure.** Every call on a socket may throw. There are two layers of handlers:
  `invalid_argument` becomes an error status for the client, everything else is
  only logged. Descriptors and the mutex are released by hand, not by destructors.
- **Silence.** The client's socket has a receive timeout of 10 s, `select` has one,
  the origin's socket has none.
- **Limits.** A full cache; a process without free descriptors.

### What makes each component correct

- Cache: the list is never cut, looped, shared or miscounted; no URI twice; the
  capacity holds; map and list agree; no pointer leads to a deleted or reused node;
  replacement is first in, first out; the mutex is always given back.
- GET: the reply is for the URI requested; what the origin has just sent or
  validated is not older than the request; nothing uncacheable is stored; every
  GET ends.
- HttpProxy: a thread touches only its own descriptors; at most one reply to a
  client; ids are distinct; every connection ends.
- Receiving: how a message is cut does not change the verdict on it, and nothing
  complete is waited for.
- Tunnel: every byte once, in order, all of the end that finishes; silence ends it.
- Freshness: what is served is young enough, ages, and does not become fresh again.

`PROJECT.json` lists every hazard of this kind with its line and the properties
that cover it, or the reason why none does.

## Modules

| Module | Models |
|---|---|
| `FifoStore` | the abstract specification: a queue of at most `Capacity` (URI, content) entries with `Replace` and `Insert` |
| `Web` | the abstract specification of a GET: what a client may rely on, without cache, threads or messages |
| `Channel` | the abstract specification of a tunnel: bytes passed on in order until it ends, for one of three reasons |
| `Cache` | the class Cache, one action for one group of writes of `putResponse`, and each operation that takes no lock; refines `FifoStore` |
| `GetMethod` | extends `Cache`: GET requests, revalidation, the origin, clients with validators of their own; refines `Web` |
| `HttpProxy` | accept loop, threads, exception layers, descriptors, POST, CONNECT and the outcomes of GET |
| `Sockets` | the two byte streams of a connection, `recv` and `send`, and two peers that write, stop, close and reset |
| `Parser` | extends `Sockets`: `HttpParser` and one turn of the receive loops |
| `Tunnel` | extends `Sockets`: the loop of `tunnelTransport` |
| `Exchange` | composes `Parser` and `Tunnel`: one connection from its first byte to its end; a CONNECT refines `Channel` |
| `Headers` | from the fields of a response to what the cache goes by, as operators |
| `Freshness` | extends `Headers`: one entry of the cache over time, stored, hit and judged |
| `MCCache`, `MCGetMethod`, `MCHttpProxy`, `MCExchange`, `MCFreshness` | symmetry sets and the values of constants for TLC |
| `CacheProofs`, `CacheRefinement`, `GetMethodProofs`, `GetMethodRefinement`, `HttpProxyProofs`, `ExchangeProofs`, `ExchangeRefinement`, `FreshnessProofs` | the theorems |

### Cache

`head`, `tail`, `size`, `map` and `lock` are the members; `uri`, `response`, `prev`
and `next` are functions from addresses to the members of the `Node` there;
`allocated` are the addresses `new Node` has returned. `pc`, `cursor`, `request`,
`arg`, `node` and `found` are the program counter and the locals of each thread.
`chain` and `raced` are history variables: the sequence of linked nodes, and whether
a data race has had an effect.

`putResponse` is `CallPut`, `Lock`, `Scan` (one turn of the loop), then `Update`, or
`Link`, `Index` and perhaps `Evict`, then `Unlock`. Writes that no other thread can
tell apart are one step: readers without the lock see only the map and
`node->response`, never `head`, `tail`, `prev`, `next` or `size`. So all pointer writes
of `Link` are one step, and the write of the map is another.

Two accesses of the map at once, one of which inserts, are a data race, which C++
leaves undefined. Here such an access behaves, or loses one element of the tree or
its own effect, or ends the process; a copy of a response that is being assigned is
whole or `Torn`. Corruption beyond the map and that response is not modelled. The
constructor leaves `head` and `tail` uninitialised: they start as `NULL` or `Wild`. A first
scan that follows a wild `head` ends the process or the loop; that it finds a "node" with
the URI there, or goes on to further ones, is not modelled.

`FifoStore` is what `Cache.hpp:32` and the fifth test of `proxy_test.txt` promise (with room for
three, "if there is a fourth response that wants to be caches, the first stored cache is
removed"). Its clients get control back only after their entry has been taken.

### GetMethod

`stage` follows `takeAction`. The origin holds under each URI a version, numbered
upwards by `Publish`; a version has a kind: cacheable or not (`getCacheable`), garbled
(`stoi` throws on its age or max-age), everlasting (fresh even when
`first_request_time` is still 1), or the 304 without a body that a client's own
If-None-Match brings for it, which a miss stores like any response. A response that can be
fresh is judged either way here; `Freshness` has the clock. `OriginAnswers` gives the
version held now, a 304 if a validator in the request names that version, another
status, or a failure (hang-up, reset, malformed response). `reply` is what the client was
sent, or `Lost` when `send` failed. `since` is a history variable: what the origin held when
the request arrived; `tag` is the version a client's own validator names.

`Web` is what this amounts to for a client. A request is open until it is answered, once, or given up. The
answer is a content the origin has held under the URI asked for: from the origin, one it held between
the request and the answer; confirmed by the origin, the same unless the client's own validator did the
confirming; from the cache, any older one. What does not come from the origin may be shared, and only that can be
damaged (a copy torn by an update). `ImplementsWeb` maps its questions to `request`, `since` and `tag` and
its open requests to the threads that are not "done".

A GET that dies with the process (`Segfault`, `Crash`) is a state in its own right:
`status` is "crashed" and nothing moves any more.

### HttpProxy

`step` is where each connection is, from the backlog to its end; an exception is a
move to "report" (the handler in `_exec`) or to "close" (the end of `exec`), which the history
variable `thrown` remembers. `status` is the process: a signal kills it, `SIGPIPE` at a `send` or the
segmentation fault of a GET (`GetMethod` has how that comes about), and every connection with it; an
exception that nothing caught would terminate it, which no action of the code does, only a mutant. `file` maps
each descriptor to the socket it is open on, and, as POSIX says, a new descriptor is
the lowest free one, so that numbers are reused as soon as they can be. What a GET
does with the cache is left to `GetMethod`; here a GET takes each of the ways it can
take through the sockets. Messages are whole, and the relay loop of a tunnel is one
step with its two ends; `Exchange` has their bytes.

### Sockets, Parser, Tunnel, Exchange

The bytes an end writes are numbered: `written` and `taken` are how many it has written and
`recv` has returned; `put` is what `send` has passed to each end. `Recv` returns any number of bytes up
to the buffer's size, so that a message is cut in every possible way. `peer` is how
each end of the connection is: open, shut (it reads, but writes no more), closed, or
reset; a reset is met by the first `recv` or `send` as an error, by a later `send` as
`SIGPIPE`.

Beast's parser is external. It is modelled from how `HttpParser` uses it: `put` takes a
whole header or nothing, then of a body what is there (or less, inside a chunk); a message
ends by its length, its last chunk, or never, because nobody tells the parser that the
connection has closed; it refuses malformed headers and bodies longer than its limit, at once
if a length announces them and otherwise when they arrive. `message` is what each end
sends first, and `verdict` is what the receive loop came to.

`Tunnel` is one action for each outcome of `select`, one for each `transportRawMessage`, and
the test at the end of a turn. `timeLeft` is `tv`, which Linux counts down over all calls.
`Channel` is what the two ends of a CONNECT may rely on. Before it opens, bytes belong to the
request (`Base`); from then on the bytes of each end are passed to the other one after the other. It ends when an
end has stopped writing and everything it wrote was passed on, when silence has lasted and nothing is left to pass
on, or when an end is gone. `Finish` looks at the end that stopped only: what the
other one has written by then and the tunnel has not read is lost, as in `HttpConnector.cpp:117-122`.

`Exchange` leads from one to the other: receive, connect, then request and response for POST, or
200 and the tunnel for CONNECT, with the two exception layers. That the origin cannot be
connected is left to `HttpProxy`.

### Headers, Freshness

A field is a name and what its text means: a time (in hours), a number, a set of directives,
`Bad` for what cannot be read. `CreateResponse` drops repeated fields and malformed
`expires`, refuses other malformed dates, and undoes a chunked coding. `Freshness` follows one
entry: `Store` (any handler, at any time), `Hit` (`setFirstRequestTime`), `IsFresh` (the
verdict, on what is stored by then), `Tick`. `zone` is how far `mktime` is off UTC, with and
without summer time, since `tm_isdst` is uninitialised; a missing date is `Garbage`;
`Buffered` are times another thread may leave in `gmtime`'s static buffer; `Narrow` keeps a sum
in an int. `requestTime`, `firstHit` and `rejected` are history variables: when the stored response
was fetched, the time of its first hit, and whether it has been found stale.

## Runs

| Run | Bounds | Shows |
|---|---|---|
| `cache_safety` | 2 threads, 3 URIs, 2 contents, 3 nodes, capacity 2 | the invariants of `Cache`, its inductive invariant, and that it implements `FifoStore` |
| `cache_races` | 2 threads, 2 URIs | **violated**: two threads in `operator[]`, one inserting |
| `get_safety` | 2 threads, 2 URIs, 3 nodes, capacity 1, 3 requests | `AnswersTheRequest`, `NeverOlderThanTheRequest`, `StoresOnlyCacheable`, and that GETs implement `Web` |
| `get_finish` | 2 threads, 1 URI, 3 requests, fairness | every GET ends when origins answer |
| `get_isfresh` | 2 threads, 2 URIs, capacity 1 | **violated**: `isFresh` dereferences null after an eviction |
| `get_answered` | 1 URI | **violated**: a validation answered with, say, 404 leaves the client without a reply |
| `proxy_paths` | 2 connections, 2 descriptors, fairness | `OwnDescriptors`, `AtMostOneReply`, `OnlyExceptionsLeak`, `UniqueIds`, the inductive invariant, and that every connection ends, or waits for a descriptor that never comes, or is killed with the process |
| `proxy_leak` | 2 connections, 4 descriptors | **violated**: an exception leaves the origin's descriptor open |
| `exchange_bytes` | 4 bytes from each end, 2 in a `recv`, 2 ticks, fairness | `VerdictIgnoresCuts`, `NeverWaitsForCompleteMessage`, `EveryByteOnce`, `FinishedEndIsRelayed`, that a CONNECT implements `Channel`, and that the connection ends |
| `exchange_sigpipe` | the same, without fairness | **violated**: an error status for a client that has reset the connection ends the process |
| `freshness` | 7 hours, 19 kinds of response, 3 zones, an int of 40 | `FreshIsYoung`, `AgeGrowsFromFirstHit`, `StaleStaysStale`, `UntimedIsStale`, `OneFraming` |
| `freshness_request` | the same hours and responses, UTC only, nothing in `gmtime`'s buffer | **violated**: the time between the request and the first hit is not added to the age |

The six violated properties are stated in the repository (comments in `Cache.hpp` and
`HttpProxy.cpp`, `README.md`, `danger_log.txt`) and contradicted by its code; the findings
in `PROJECT.json` quote both sides. `AgeGrowsFromRequest` is what `Cache.hpp:57-60` says of the request
time. In the trace a response with an age of 6 and a `max-age` of 7 is stored at 12, first hit at 13, and served: its age is
7. A `Store` that sets `first_request_time` to the present time, as `Hit` does, satisfies the property
in all three zones, so it is this line that breaks it and not the error of the zone. Every other property has a mutant, a plausible bug
in a mapped definition, that the same run catches.

Some properties name what they leave out, and what they leave out does happen in the
model: `NeverOlderThanTheRequest` clients with a validator of their own (the proxy takes the 304 for
that as one for its copy); `VerdictIgnoresCuts` responses that end with the
connection (always a 502); `EveryConnectionEnds` connections for which no descriptor is ever free again, and those
in a process a signal has killed; `OneFraming` a chunked coding that `handleChunked` does not recognise ("Chunked", or "gzip,chunked" without a
blank), which Beast has decoded and which is kept beside the new length; the properties of `Freshness` sums that do not fit an int and responses without a date.
`FreshIsYoung` allows for the error of the fixed four hours: in UTC a response is taken for stale
up to four hours early, in the east of the United States for fresh up to two hours late.

### Why the bounds are enough

- *Two threads*: the lock excludes any two writers, and every property relates at most
  a writer and one other thread. *Two connections with two descriptors* reuse each
  other's numbers and run out of them. The theorems drop these bounds.
- *Capacity 2 with 3 URIs* gives an eviction that leaves other nodes behind it;
  *capacity 1 with 2 URIs* an eviction of a node in use, a list that empties but for the new
  node, and a URI that is evicted, requested and linked again (`get_safety`, with three requests and three
  addresses). `cache_safety` has no such return: every URI takes one of its three addresses, and a fourth address
  multiplies its states beyond what a run may take. The theorems cover every number of addresses and
  every capacity, 0 included, where the node just linked is the one evicted.
- *`HeapBound`* stops a finite instance from starting a `putResponse` that could find no
  free address. It is a bound of the instance, not of the code: the proofs hold
  with it for finite `Address` and without it for infinite `Address`.
- *`MaxRequests`* bounds GETs, and the versions in `Content` bound `Publish`. Three requests
  are the fewest that let one be served while a second overwrites and a third
  has filled the cache.
- *Four bytes, two at a time*: headers of one and two bytes, bodies of none to three, so that a
  header can be cut or arrive with a part of the body, a body can be cut, and surplus
  can arrive with a message or after it; and a tunnel carries several pieces. Requests are
  malformed, too long or right, responses have each kind of end.
- *Two ticks* let a tunnel use up its time in one pause or in two.
- *Hours 10 to 16* with lifetimes of up to 7 hours, ages of 0 and 6, and shifts of 0 to 6 let each
  response be fresh and stale in one zone or another; an int of 40 wraps where an age of
  39 grows.
- *Symmetry* is used in safety runs only, over threads, nodes, connections and, in the runs of
  `Cache`, URIs and contents; `chain`, `prev` and `next` keep the structure that matters.
- Deadlock is checked in every run. `Down`, `Rest`, `Waiting` and `Over` are the states in which
  the code really rests: a dead process, a main thread waiting in `accept`, a connection that
  has ended (in `HttpProxy`, `Down` is the first and `Waiting` the second).

### Fairness

`HandlerFairness` and `ThreadFairness` are weak fairness of each thread's steps: the
operating system schedules every runnable thread. Weak fairness is enough for the
mutexes in these instances: a thread can be overtaken at `m` only as often as there
are requests left. In `HttpProxy`, a receive from the client ends by `SO_RCVTIMEO` and a relay by
`select`'s timeout; that traffic does not trickle on for ever is an assumption there.
`Exchange` has these timeouts as steps of the thread, under weak fairness of `Handle`, and
finite messages; nothing is assumed of the client or of the ends of a tunnel, which may
stay silent. `OriginFairness` and its like (`WF(ReceiveResponse)`, `WF(step = "response" /\ Peers)`)
say that the origin answers or hangs up. Nothing in the code
ensures it: `setClientSocketFdRecvTimeout` (`HttpProxy.cpp:115`) is called for the client's socket only, although
`danger_log.txt` (02/21) has a timeout of 10 s for an origin that sends nothing. `get_finish`, `proxy_paths` and
`exchange_bytes` assume it; without it their liveness properties fail at once, as a thread waits in `recv` for ever.

## Proofs

The theorems hold for every value of the constants allowed by the named assumptions
(`CacheAssumption`, `RequestBound`, `GetAssumption`, `ProxyAssumption`, `SocketsAssumption`,
`ParserAssumption`, `TunnelAssumption`, `FreshnessAssumption`), which TLC evaluates in the runs.
They give the types of the constants and keep the sentinel values apart from the data; that of
`Freshness` also says that the clock starts, and `gmtime`'s buffer holds, a time more than a zone's
offset after 1970, and that Beast accepts "chunked" only as the last coding and without a `content-length`.

| Theorem | States |
|---|---|
| `CacheProofs!InductiveInvariant` | `Spec => []Inductive` |
| `CacheProofs!TypeCorrectness`, `ListIntegrity`, `NoDuplicates`, `CapacityBound`, `MapAgreement`, `PointerSafety` | the safety invariants of `cache_safety` |
| `CacheRefinement!StoreRefinement` | `Spec => ImplementsFifoStore` |
| `GetMethodProofs!GetInvariant`, `GetUsesCache` | `SpecGet => []InductiveGet`, `SpecGet => Spec` |
| `GetMethodRefinement!GetRefinesWeb`, `GetsStoreInOrder` | `SpecGet => ImplementsWeb`, `SpecGet => ImplementsFifoStore` |
| `GetMethodProofs!TypeCorrectnessGet`, `NothingUncacheableIsStored`, `RepliesAreForTheRequest`, `RepliesAreAsNewAsTheRequest` | the invariants of `get_safety` |
| `HttpProxyProofs!InductiveProxyHolds`, `TypeCorrectnessProxy`, `DescriptorOwnership`, `SingleReply`, `DistinctIds`, `OnlyExceptionsCostDescriptors` | the safety invariants of `proxy_paths` |
| `ExchangeProofs!ExchangeInvariant` | `SpecExchange => []InductiveExchange` |
| `ExchangeProofs!TypeCorrectnessExchange`, `VerdictsIgnoreCuts`, `CompleteMessagesAreTaken`, `BytesArriveOnce`, `FinishedEndsAreRelayed` | the safety invariants of `exchange_bytes` |
| `ExchangeRefinement!ChannelInvariant`, `ExchangeRefinesChannel` | `SpecExchange => []InductiveChannel`, `SpecExchange => ImplementsChannel` |
| `FreshnessProofs!FreshnessInvariant` | `SpecFreshness => []InductiveFreshness` |
| `FreshnessProofs!TypeCorrectnessFreshness`, `FreshResponsesAreYoung`, `AgeGrows`, `UntimedResponsesAreStale`, `StaleResponsesStayStale`, `StoredResponsesAreFramed` | the invariants of `freshness` |

**Cache.** None of the invariants is inductive by itself. That `Link` introduces no
duplicate needs to know what the scan has seen: `Scanned` says that the cursor is a node
of the list and no earlier node has the URI, so that at the end of the list the URI
is absent. That this stays true from the scan to `Link` needs mutual exclusion
(`LockDiscipline`: exactly the holder of `m` is in the critical section). That linking
behind `tail` keeps the list whole needs `Constructed`: a node that was never allocated has
null pointers, and an allocated one keeps its URI, because nothing deletes. That the map
leads to nodes of the right URI needs `LocalsSet` and the fact that the map is
written only by the holder of `m` or by insertions of null. Data races weaken only `MapAgrees`,
which is conditional on `raced`: the list and the pointers are safe whatever the
races do to the map. The step proof has one lemma for each action.

**Refinement.** The mapping shows the nodes of `chain` without the one whose insertion
has not finished as the queue, and as pending each call of `putResponse` that has not
taken effect. `CallPut` maps to `HandOver`; `Update` to `Replace`; `Unlock` never changes the queue;
`Insert` takes place at `Index` when nothing is evicted and at `Evict` otherwise, where the
append and the removal of the oldest entry become visible together; all other
steps, the damage of data races included, map to stutters. The proof uses `Inductive` for
both states of every step.

**GetMethod.** Every step of a GET is a step of `Cache` or leaves it alone (`CacheStep`), so that
`Inductive` carries over. What the properties need beside it is `NodesRight` and `ArgumentsRight` (a
node, and what is about to be stored, is for its URI and cacheable) and, for each thread,
`ThreadRight`: what it copied or received is for its request, the origin's version has
only grown since, and a 304 confirms a copy that is no older.

**GetMethod implements Web.** `Publish` and `Get` map to `Publish` and `Ask`; a step after which a thread is not
"done" keeps everything `Web` sees (`Onward`); a step to "done" closes one request (`Closing`) and either sends
nothing (`GiveUp`) or sends one thing, or loses it (`Answering`). So each action needs one fact about what
it sends. What came from the origin is `answer`, which `ThreadRight` bounds by `since` from below and by `Known` from
above. What comes from the cache is `node->response` as it is when it is sent, or the copy a 304
confirmed; `NodesRight` says that it is for the URI, may be shared and has been held (`Storable`). `Web` does
not let a handler go on after it has answered, whence its mutant. `GetsStoreInOrder` joins
`GetUsesCache` with `StoreRefinement`.

**HttpProxy.** `OwnDescriptors` is preserved because a descriptor is opened only when the
table has it free and each thread closes its server descriptor at one step, after
which no step uses it; that `file` holds the socket of the connection itself makes two
owners of one number impossible. `AtMostOneReply` needs `NothingSentYet`: no step that sends can
be reached after a send, on any path of exceptions. `UniqueIds` needs `IdsInOrder`: between
the read and the increment the thread holds `id_mutex` and its id is the newest. `OnlyExceptionsLeak` says
that a server's descriptor outlives its use only behind a thread that has thrown before it had sent a response; a
tunnel that times out is one, a tunnel that returns is not. It needs two facts more to be inductive
(`Accounted`): a tunnel has not sent a response, so that the exceptions of its relay count, and a thread that has
thrown is in a handler or has ended. Its steps are of four kinds, those that open a descriptor, close one,
neither, or send, with a lemma for each; the ends of the process change neither descriptors nor steps.

**Exchange.** `VerdictRight` and `InOrder` relate a verdict to the positions in the stream;
`Phases` says what has been received and sent at each step, in particular that a tunnel starts
with exactly the request taken and nothing sent; `PassedOn` that, between two actions of the tunnel, all
that was taken from an end has been passed on while the other could read it; `ReadToTheEnd` that an end
in `finished` has no byte left. The sequence lemmas show that `Bytes` appended to `Bytes` is
again one run of bytes.

**Exchange implements Channel.** The step of the proof that `InductiveExchange` does not give is what a running tunnel
knows of its ends, `InductiveChannel`: an end that `select` has reported still has something to tell when its turn
comes, so that the receive timeout of the client's socket never strikes inside a tunnel (`ReadyHasMore`); both
ends are connected (`Connected`); what was passed on of an end is all that was taken from it while the other end
could read (`PassedIsTaken`). A turn of the loop reads a run of bytes and appends it to what was passed (`Pass`), or reads a run
and finds the other end gone (nothing, then `Break`), or reads nothing because the end stopped, in which case nothing
of it is unread; the test at the end of the turn is `Finish` or `Break`, and a timeout `GiveUp`, because an end with
bytes unread would have been reported. Refused requests and failed connections are `Decline`, a POST never opens the channel.

**Freshness.** A verdict is a fact about the state it was given in, so the invariant keeps what
`isFresh` saw: `FoundFresh` (some lifetime exceeds some age, for the stored header and the
present time), `FoundStale` (none does, and the clock only makes it worse, provided the first
request time is no longer to be set), and `Timed` (the first request time is 1, or the time of the first hit
seen through the zone). The bounds follow by arithmetic, with `max` and the zones' offsets split into cases. `OneFraming` is inductive by itself, since only `Store` changes
what is stored; the lemmas are about the operators: a header as sent has one framing
(`SentIsFramed`, from what Beast accepts), and `HandleChunked` takes the last coding away (`DecodedIsFramed`).

**Only model-checked.** Liveness (`GetsFinish`, `EveryConnectionEnds`, `ExchangeEnds`), which
TLAPS cannot prove under fairness. Every invariant and every refinement that a run checks is a theorem.

## Not modelled

- Partial sends and send buffers: `send` on a blocking socket takes the whole of a message; a
  client that does not read blocks its thread, since no send timeout is set.
- Memory exhaustion, which would leave `m` locked, and would be the only cause for `select` to return
  −1 (`HttpConnector.cpp:126-129`, which ends the tunnel as a timeout does); descriptors of `FD_SETSIZE` and more.
- The text of messages: start lines, `Request::getHost`, the fields that getters add to a
  header, how dates and numbers are written. Statuses, but for 200, 304 and the rest in
  a revalidation.
- `HttpProxy` and `Exchange` are not composed with `GetMethod`: a GET's messages go the ways
  of a POST's, and what it does with the cache does not depend on how they are cut.
- `Logger` (its mutex is taken under `m` and never the other way round), `daemonize`, the
  dead code (`GetMethod::filter`, `noneMultiThread`, the thread pool headers).

## Order of the work

`FifoStore` and `Cache` (the shared state every GET depends on), `GetMethod` over it, `HttpProxy`, the proofs
of `Cache`, its refinement, the proofs of `HttpProxy`; then `Sockets`, `Parser`, `Tunnel` and `Exchange`,
`Headers` and `Freshness`, and the proofs of these and of `GetMethod`; then `Web` and `Channel`, what a client and the ends of
a tunnel are promised, with their refinements, the account of descriptors and the framing of stored responses. Left for later:

1. A composition of `Freshness` with `GetMethod`, in place of the verdict that `Judge` leaves open.
2. Buffers of limited size in `Sockets`, so that two tunnels' ends that do not read can block.
3. Statuses and sizes on the path of a miss, with 1xx responses in `Parser`.

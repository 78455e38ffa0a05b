-------------------------------- MODULE Cache --------------------------------
(***************************************************************************)
(* The class Cache (Cache.hpp, Cache.cpp) under the handler threads that   *)
(* share it: a doubly linked list of Nodes in insertion order, a std::map  *)
(* from URI to Node, and one mutex m.                                      *)
(*                                                                         *)
(* putResponse runs under m; one step of it here is one group of writes    *)
(* that another thread can tell apart.  getResponse, isFresh and the       *)
(* copies made of node->response take no lock, so they run between any     *)
(* two steps of putResponse.                                               *)
(*                                                                         *)
(* Overlapping accesses of the map or of a Response are data races, whose  *)
(* behaviour C++ leaves undefined.  Here such an access either behaves, or *)
(* damages the map, or yields a torn Response, or ends the process; the    *)
(* history variable raced remembers that one of them did not behave.       *)
(***************************************************************************)
EXTENDS Naturals, Sequences, FiniteSets

CONSTANTS
  Thread,    \* the handler threads
  URI,       \* the request targets, the keys of map
  Content,   \* what a stored response carries (status line, header, body)
  Address,   \* the addresses new Node may return
  Capacity,  \* the first argument of the constructor (5 in daemonize.cpp)
  NULL,      \* the null pointer; also "no thread" and "no value"
  Wild,      \* an uninitialised pointer that is not null
  Absent,    \* map has no element for the key
  Torn       \* the content of a Response copied while it was assigned

ASSUME CacheAssumption ==
  /\ Capacity \in Nat
  /\ NULL \notin Address \cup URI \cup Thread \cup [uri : URI, content : Content]
  /\ Wild \notin Address \cup {NULL}
  /\ Absent \notin Address \cup {NULL}
  /\ Torn \notin Content

VARIABLES
  head, tail,  \* the ends of the list
  size,        \* the number of nodes putResponse has counted
  map,         \* URI -> Node*: Absent, NULL or an address
  allocated,   \* the addresses new Node has returned; nothing is ever deleted
  uri, response, prev, next,  \* the fields of the Node at an address
  lock,        \* the thread that holds m, or NULL
  status,      \* "up", or "crashed" once the process has died
  pc,          \* the step of the Cache operation each thread is at
  request,     \* the URI of the request each thread is serving
  arg,         \* the content each thread passes to putResponse
  cursor,      \* the local pointer (then temp) of putResponse
  node,        \* the Node* getResponse returned to the thread
  found,       \* the local response_node of isFresh
  chain,       \* history: the linked nodes, the one linked first at the head
  raced        \* history: a data race has already had a visible effect

listVars   == <<head, tail, size, chain>>
heapVars   == <<allocated, uri, response, prev, next>>
mapVars    == <<map, raced>>
callVars   == <<request, arg>>
readerVars == <<node, found>>
vars == <<listVars, heapVars, mapVars, lock, status, pc, callVars, cursor, readerVars>>

Pointer == Address \cup {NULL}

(* first_request_time is 1 until setFirstRequestTime has been called; the  *)
(* model keeps whether it has.                                             *)
Response == [content : Content, timed : BOOLEAN]
TornResponse == [content |-> Torn, timed |-> FALSE]

ReaderSteps   == {"idle", "get", "isFresh", "judge"}
CriticalSteps == {"scan", "update", "link", "index", "evict", "unlock"}
PutSteps      == {"lock"} \cup CriticalSteps

TypeOK ==
  /\ head \in Pointer \cup {Wild} /\ tail \in Pointer \cup {Wild}
  /\ size \in Nat
  /\ map \in [URI -> Pointer \cup {Absent}]
  /\ allocated \subseteq Address
  /\ uri \in [Address -> URI \cup {NULL}]
  /\ response \in [Address -> Response \cup {NULL}]
  /\ prev \in [Address -> Pointer] /\ next \in [Address -> Pointer]
  /\ lock \in Thread \cup {NULL}
  /\ status \in {"up", "crashed"}
  /\ pc \in [Thread -> ReaderSteps \cup PutSteps]
  /\ request \in [Thread -> URI \cup {NULL}]
  /\ arg \in [Thread -> Content \cup {NULL}]
  /\ cursor \in [Thread -> Pointer \cup {Wild}]
  /\ node \in [Thread -> Pointer] /\ found \in [Thread -> Pointer]
  /\ chain \in Seq(Address)
  /\ raced \in BOOLEAN

(* The constructor sets capacity and size and leaves head and tail as they *)
(* are: null or garbage.                                                   *)
Init ==
  /\ head \in {NULL, Wild} /\ tail \in {NULL, Wild}
  /\ size = 0
  /\ map = [u \in URI |-> Absent]
  /\ allocated = {}
  /\ uri = [a \in Address |-> NULL]
  /\ response = [a \in Address |-> NULL]
  /\ prev = [a \in Address |-> NULL] /\ next = [a \in Address |-> NULL]
  /\ lock = NULL
  /\ status = "up"
  /\ pc = [t \in Thread |-> "idle"]
  /\ request = [t \in Thread |-> NULL]
  /\ arg = [t \in Thread |-> NULL]
  /\ cursor = [t \in Thread |-> NULL]
  /\ node = [t \in Thread |-> NULL] /\ found = [t \in Thread |-> NULL]
  /\ chain = << >>
  /\ raced = FALSE

(* Thread t of the running process is at a step.                           *)
At(t, step) == status = "up" /\ pc[t] = step

Goto(t, from, to) ==
  /\ At(t, from)
  /\ pc' = [pc EXCEPT ![t] = to]

-----------------------------------------------------------------------------
(***************************************************************************)
(* Data races.                                                             *)
(***************************************************************************)

(* The key of the map[...] expression the thread is evaluating.            *)
Key(t) == IF pc[t] = "evict" THEN uri[head] ELSE request[t]

InMap(t) == pc[t] \in {"get", "isFresh", "index", "evict"}

(* operator[] on a missing key changes the tree that others walk.          *)
Inserts(t) == InMap(t) /\ map[Key(t)] = Absent

MapRace(t) ==
  /\ InMap(t)
  /\ \E s \in Thread \ {t} : InMap(s) /\ (Inserts(s) \/ Inserts(t))

(* What a racing access that should have turned map into m leaves behind:  *)
(* its own effect, none, or a tree that has lost one of its elements.      *)
Damage(m) == {m, map} \cup {[m EXCEPT ![u] = Absent] : u \in URI}

(* map[u], with the default insertion of operator[].                       *)
Subscript(u) == [map EXCEPT ![u] = IF @ = Absent THEN NULL ELSE @]

(* The access behaves and leaves m, or it races and leaves some damage.    *)
WriteMap(t, m) ==
  \/ /\ map' = m
     /\ UNCHANGED raced
  \/ /\ MapRace(t)
     /\ map' \in Damage(m)
     /\ raced' = TRUE

(* Another thread is at the assignment pointer->response = response.       *)
Assigning(a) == \E s \in Thread : pc[s] = "update" /\ cursor[s] = a

(* r is a copy of the response of the node at a, whole or torn.            *)
Copies(r, a) ==
  \/ /\ r = response[a]
     /\ UNCHANGED raced
  \/ /\ Assigning(a)
     /\ r = TornResponse
     /\ raced' = TRUE

-----------------------------------------------------------------------------
(***************************************************************************)
(* The operations that take no lock.                                       *)
(***************************************************************************)

(* A handler enters getResponse for the URI of its request.                *)
CallGet(t, u) ==
  /\ Goto(t, "idle", "get")
  /\ request' = [request EXCEPT ![t] = u]
  /\ node' = [node EXCEPT ![t] = NULL]
  /\ UNCHANGED <<listVars, heapVars, mapVars, lock, status, arg, cursor, found>>

(* Mutant: map.find(URI)->second without the test against end(). *)
GetResponseUnchecked(t) ==
  /\ Goto(t, "get", "idle")
  /\ node' = [node EXCEPT ![t] = map[request[t]]]
  /\ UNCHANGED <<listVars, heapVars, mapVars, lock, status, callVars, cursor, found>>

(* return map[URI]; a racing lookup may also miss an element that is there. *)
GetResponse(t) ==
  LET m == Subscript(request[t])
      MissedByRace == MapRace(t) /\ raced'
  IN  /\ Goto(t, "get", "idle")
      /\ WriteMap(t, m)
      /\ \/ node' = [node EXCEPT ![t] = m[request[t]]]
         \/ MissedByRace /\ node' = [node EXCEPT ![t] = NULL]
      /\ UNCHANGED <<listVars, heapVars, lock, status, callVars, cursor, found>>

(* node->response.setFirstRequestTime(t), then the call of isFresh.        *)
SetFirstRequestTime(t) ==
  /\ Goto(t, "idle", "isFresh")
  /\ node[t] # NULL
  /\ response' = [response EXCEPT ![node[t]] = [content |-> response[node[t]].content, timed |-> TRUE]]
  /\ UNCHANGED <<listVars, allocated, uri, prev, next, mapVars, lock, status,
                 callVars, cursor, readerVars>>

(* isFresh looks the URI up again.  With a null result it goes on to       *)
(* dereference it: see Segfault.                                           *)
FindAgain(t) ==
  LET m == Subscript(request[t])
  IN  /\ Goto(t, "isFresh", "judge")
      /\ m[request[t]] \in Address
      /\ WriteMap(t, m)
      /\ found' = [found EXCEPT ![t] = m[request[t]]]
      /\ UNCHANGED <<listVars, heapVars, lock, status, callVars, cursor, node>>

(* response_old = response_node->response, the copy r isFresh judges.      *)
CopyFound(t, r) ==
  /\ Goto(t, "judge", "idle")
  /\ Copies(r, found[t])
  /\ found' = [found EXCEPT ![t] = NULL]
  /\ UNCHANGED <<listVars, heapVars, map, lock, status, callVars, cursor, node>>

(* The handler makes the copy r of node->response, to send or revalidate it. *)
CopyNode(t, r) ==
  /\ At(t, "idle")
  /\ node[t] # NULL
  /\ Copies(r, node[t])
  /\ UNCHANGED <<listVars, heapVars, map, lock, status, pc, callVars, cursor, readerVars>>

-----------------------------------------------------------------------------
(***************************************************************************)
(* putResponse.                                                            *)
(***************************************************************************)

(* Bounds the heap of a finite instance: a putResponse is not started when *)
(* the ones that have yet to link a node could use every address up.       *)
HeapBound ==
  IsFiniteSet(Address) =>
    Cardinality(Address \ allocated) >
      Cardinality({t \in Thread : pc[t] \in {"lock", "scan", "link"}})

CallPut(t, c) ==
  /\ HeapBound
  /\ request[t] # NULL
  /\ Goto(t, "idle", "lock")
  /\ arg' = [arg EXCEPT ![t] = c]
  /\ UNCHANGED <<listVars, heapVars, mapVars, lock, status, request, cursor, readerVars>>

(* m.lock(); pointer = head.                                               *)
Lock(t) ==
  /\ lock = NULL
  /\ Goto(t, "lock", "scan")
  /\ lock' = t
  /\ cursor' = [cursor EXCEPT ![t] = head]
  /\ UNCHANGED <<listVars, heapVars, mapVars, status, callVars, readerVars>>

(* Mutant: the loop ends at the last node instead of behind it.            *)
ScanSkipsLast(t) ==
  /\ At(t, "scan")
  /\ \/ /\ cursor[t] \in Address => next[cursor[t]] = NULL
        /\ Goto(t, "scan", "link")
        /\ UNCHANGED cursor
     \/ /\ cursor[t] \in Address
        /\ next[cursor[t]] # NULL
        /\ uri[cursor[t]] = request[t]
        /\ Goto(t, "scan", "update")
        /\ UNCHANGED cursor
     \/ /\ cursor[t] \in Address
        /\ next[cursor[t]] # NULL
        /\ uri[cursor[t]] # request[t]
        /\ cursor' = [cursor EXCEPT ![t] = next[cursor[t]]]
        /\ UNCHANGED pc
  /\ UNCHANGED <<listVars, heapVars, mapVars, lock, status, callVars, readerVars>>

(* One evaluation of the loop condition and of the comparison of URIs.     *)
(* A wild pointer that does not fault is taken to end the loop.            *)
Scan(t) ==
  /\ At(t, "scan")
  /\ \/ /\ cursor[t] \notin Address
        /\ Goto(t, "scan", "link")
        /\ UNCHANGED cursor
     \/ /\ cursor[t] \in Address
        /\ uri[cursor[t]] = request[t]
        /\ Goto(t, "scan", "update")
        /\ UNCHANGED cursor
     \/ /\ cursor[t] \in Address
        /\ uri[cursor[t]] # request[t]
        /\ cursor' = [cursor EXCEPT ![t] = next[cursor[t]]]
        /\ UNCHANGED pc
  /\ UNCHANGED <<listVars, heapVars, mapVars, lock, status, callVars, readerVars>>

(* Mutants: the return without m.unlock() of danger_log.txt, 02/24; and an  *)
(* update of the first node instead of the one that was found.             *)
UpdateKeepsLock(t) ==
  /\ Goto(t, "update", "idle")
  /\ response' = [response EXCEPT ![cursor[t]] = [content |-> arg[t], timed |-> FALSE]]
  /\ UNCHANGED <<listVars, allocated, uri, prev, next, mapVars, lock, status,
                 callVars, cursor, readerVars>>

UpdateHead(t) ==
  /\ Goto(t, "update", "unlock")
  /\ response' = [response EXCEPT ![head] = [content |-> arg[t], timed |-> FALSE]]
  /\ UNCHANGED <<listVars, allocated, uri, prev, next, mapVars, lock, status,
                 callVars, cursor, readerVars>>

(* The URI is in the list: pointer->response = response.                   *)
Update(t) ==
  /\ Goto(t, "update", "unlock")
  /\ response' = [response EXCEPT ![cursor[t]] = [content |-> arg[t], timed |-> FALSE]]
  /\ UNCHANGED <<listVars, allocated, uri, prev, next, mapVars, lock, status,
                 callVars, cursor, readerVars>>

(* Mutant: a full cache gives the oldest node to the new URI instead of     *)
(* making another one.                                                     *)
LinkReusesNode(t) ==
  /\ Goto(t, "link", IF size >= Capacity THEN "unlock" ELSE "index")
  /\ \E a \in IF size >= Capacity THEN {head} ELSE Address \ allocated :
       /\ uri' = [uri EXCEPT ![a] = request[t]]
       /\ response' = [response EXCEPT ![a] = [content |-> arg[t], timed |-> FALSE]]
       /\ allocated' = allocated \cup {a}
       /\ cursor' = [cursor EXCEPT ![t] = a]
       /\ head' = a /\ tail' = a /\ chain' = <<a>>
  /\ UNCHANGED <<size, prev, next, mapVars, lock, status, callVars, readerVars>>

(* It is not: temp = new Node(URI, response), appended to the list.        *)
Link(t) ==
  /\ Goto(t, "link", "index")
  /\ \E a \in Address \ allocated :
       /\ allocated' = allocated \cup {a}
       /\ uri' = [uri EXCEPT ![a] = request[t]]
       /\ response' = [response EXCEPT ![a] = [content |-> arg[t], timed |-> FALSE]]
       /\ cursor' = [cursor EXCEPT ![t] = a]
       /\ tail' = a
       /\ chain' = Append(chain, a)
       /\ \/ /\ size = 0
             /\ head' = a
             /\ UNCHANGED <<prev, next>>
          \/ /\ size # 0
             /\ next' = [next EXCEPT ![tail] = a]
             /\ prev' = [prev EXCEPT ![a] = tail]
             /\ UNCHANGED head
  /\ UNCHANGED <<size, mapVars, lock, status, callVars, readerVars>>

(* Mutant: the capacity is tested before size is incremented. *)
IndexTestsFirst(t) ==
  /\ Goto(t, "index", IF size > Capacity THEN "evict" ELSE "unlock")
  /\ WriteMap(t, [map EXCEPT ![request[t]] = cursor[t]])
  /\ size' = size + 1
  /\ UNCHANGED <<head, tail, chain, heapVars, lock, status, callVars, cursor, readerVars>>

(* map[URI] = temp; ++size; and the test of the capacity.                  *)
Index(t) ==
  /\ Goto(t, "index", IF size + 1 > Capacity THEN "evict" ELSE "unlock")
  /\ WriteMap(t, [map EXCEPT ![request[t]] = cursor[t]])
  /\ size' = size + 1
  /\ UNCHANGED <<head, tail, chain, heapVars, lock, status, callVars, cursor, readerVars>>

(* Mutants: head->prev keeps pointing at the evicted node; the map entry   *)
(* is cleared through head after head has moved; the node is deleted.      *)
EvictKeepsPrev(t) ==
  /\ Goto(t, "evict", "unlock")
  /\ WriteMap(t, [map EXCEPT ![uri[head]] = NULL])
  /\ head' = next[head]
  /\ tail' = IF next[head] = NULL THEN NULL ELSE tail
  /\ size' = size - 1
  /\ chain' = Tail(chain)
  /\ UNCHANGED <<heapVars, lock, status, callVars, cursor, readerVars>>

EvictClearsNewHead(t) ==
  /\ Goto(t, "evict", "unlock")
  /\ WriteMap(t, [map EXCEPT ![uri[next[head]]] = NULL])
  /\ head' = next[head]
  /\ prev' = [prev EXCEPT ![next[head]] = NULL]
  /\ size' = size - 1
  /\ chain' = Tail(chain)
  /\ UNCHANGED <<tail, allocated, uri, response, next, lock, status, callVars, cursor, readerVars>>

EvictDeletes(t) ==
  /\ Goto(t, "evict", "unlock")
  /\ WriteMap(t, [map EXCEPT ![uri[head]] = NULL])
  /\ allocated' = allocated \ {head}
  /\ head' = next[head]
  /\ prev' = [prev EXCEPT ![next[head]] = NULL]
  /\ size' = size - 1
  /\ chain' = Tail(chain)
  /\ UNCHANGED <<tail, uri, response, next, lock, status, callVars, cursor, readerVars>>

(* The first node leaves the map and the list, which may empty it; it is   *)
(* not deleted.                                                            *)
Evict(t) ==
  /\ Goto(t, "evict", "unlock")
  /\ WriteMap(t, [map EXCEPT ![uri[head]] = NULL])
  /\ head' = next[head]
  /\ tail' = IF next[head] = NULL THEN NULL ELSE tail
  /\ prev' = [a \in Address |-> IF a = next[head] THEN NULL ELSE prev[a]]
  /\ size' = size - 1
  /\ chain' = Tail(chain)
  /\ UNCHANGED <<allocated, uri, response, next, lock, status, callVars, cursor, readerVars>>

(* m.unlock(), in both branches, and the locals go out of scope.           *)
Unlock(t) ==
  /\ Goto(t, "unlock", "idle")
  /\ lock' = NULL
  /\ arg' = [arg EXCEPT ![t] = NULL]
  /\ cursor' = [cursor EXCEPT ![t] = NULL]
  /\ UNCHANGED <<listVars, heapVars, mapVars, status, request, readerVars>>

PutStep(t) ==
  Lock(t) \/ Scan(t) \/ Update(t) \/ Link(t) \/ Index(t) \/ Evict(t) \/ Unlock(t)

-----------------------------------------------------------------------------
(* The process dies of a bad memory access: the comparison through a wild  *)
(* head, the dereference of the null pointer isFresh has just tested for,  *)
(* or a data race.                                                         *)
Segfault(t) ==
  /\ status = "up"
  /\ \/ pc[t] = "scan" /\ cursor[t] = Wild
     \/ pc[t] = "isFresh" /\ map[request[t]] \notin Address
     \/ MapRace(t)
     \/ pc[t] = "judge" /\ Assigning(found[t])
     \/ pc[t] = "idle" /\ node[t] # NULL /\ Assigning(node[t])
  /\ status' = "crashed"
  /\ UNCHANGED <<listVars, heapVars, mapVars, lock, pc, callVars, cursor, readerVars>>

ReadStep(t) ==
  \/ GetResponse(t) \/ SetFirstRequestTime(t) \/ FindAgain(t)
  \/ \E r \in Response \cup {TornResponse} : CopyFound(t, r) \/ CopyNode(t, r)

(* The handlers call the operations in any order.                          *)
Step(t) ==
  \/ \E u \in URI : CallGet(t, u)
  \/ ReadStep(t)
  \/ \E c \in Content : CallPut(t, c)
  \/ PutStep(t)
  \/ Segfault(t)

(* After a crash there is nothing left to run.                             *)
Down == status = "crashed" /\ UNCHANGED vars

Next == (\E t \in Thread : Step(t)) \/ Down

Spec == Init /\ [][Next]_vars
-----------------------------------------------------------------------------
(***************************************************************************)
(* Properties.                                                             *)
(***************************************************************************)

(* The two pointers of every node, head, tail and size describe exactly    *)
(* the nodes linked so far and not yet evicted, in insertion order: the    *)
(* list putResponse walks is never cut, looped, shared or miscounted       *)
(* (putResponse counts a node one step after linking it), whatever the     *)
(* threads that take no lock do meanwhile.                                 *)
ListRepresentsChain ==
  LET n == Len(chain)
  IN  /\ \A i, j \in 1 .. n : chain[i] = chain[j] => i = j
      /\ \A i \in 1 .. n : chain[i] \in allocated
      /\ size = IF \E t \in Thread : pc[t] = "index" THEN n - 1 ELSE n
      /\ n = 0 => head \in {NULL, Wild}
      /\ n > 0 => head = chain[1] /\ tail = chain[n] /\ next[tail] = NULL
      /\ n > 0 => prev[head] = NULL
      /\ \A i \in 1 .. n - 1 : next[chain[i]] = chain[i + 1] /\ prev[chain[i + 1]] = chain[i]

(* The scan of putResponse finds a URI that is in the list: no URI is ever *)
(* linked twice.                                                           *)
NoDuplicateURI ==
  \A i, j \in DOMAIN chain : uri[chain[i]] = uri[chain[j]] => i = j

(* The list exceeds the capacity by at most the node whose insertion has   *)
(* not finished, and only while m is held for that insertion.              *)
CapacityRespected ==
  /\ Len(chain) <= Capacity + 1
  /\ Len(chain) > Capacity => \E t \in Thread : lock = t /\ pc[t] \in {"index", "evict"}

(* Outside putResponse the map holds exactly the nodes of the list, each   *)
(* under its URI, as long as no data race has damaged the map.             *)
MapMatchesList ==
  (~raced /\ lock = NULL) =>
    /\ \A u \in URI : map[u] \in Address => \E i \in DOMAIN chain : chain[i] = map[u]
    /\ \A i \in DOMAIN chain : map[uri[chain[i]]] = chain[i]

(* Every Node pointer a handler can still use, from the map, from          *)
(* getResponse or from isFresh, leads to a node that was never deleted or  *)
(* reused and that holds the URI it was asked for, evicted or not and      *)
(* whatever the races did to the map.                                      *)
PointersLeadToTheirURI ==
  /\ \A u \in URI : map[u] \in Address => map[u] \in allocated /\ uri[map[u]] = u
  /\ \A t \in Thread :
       LET Leads(p) == p \in Address => p \in allocated /\ uri[p] = request[t]
       IN  Leads(node[t]) /\ (pc[t] = "judge" => Leads(found[t]))

(* The six invariants above are preserved by every step together with what *)
(* each step relies on: below, the facts about the lock, about the memory, *)
(* and about where each thread is in putResponse.                          *)

(* m is held exactly by the thread between its lock() and its unlock().    *)
LockDiscipline ==
  \A t \in Thread : pc[t] \in CriticalSteps <=> lock = t

(* A node in the list or in the map has been constructed; one that has not *)
(* has the null pointers its members are initialised with.                 *)
Constructed ==
  /\ \A a \in allocated : uri[a] \in URI /\ response[a] \in Response
  /\ \A a \in Address \ allocated : next[a] = NULL /\ prev[a] = NULL

(* The locals of a thread that is inside an operation have been set.       *)
LocalsSet ==
  \A t \in Thread :
    /\ pc[t] # "idle" => request[t] \in URI
    /\ pc[t] \in PutSteps => arg[t] \in Content
    /\ node[t] # NULL => request[t] \in URI
    /\ pc[t] = "judge" => found[t] # NULL

NotListed(u) == \A i \in DOMAIN chain : uri[chain[i]] # u

(* What the scan has established when putResponse reaches each step.       *)
Scanned(t) ==
  /\ pc[t] = "scan" =>
       IF cursor[t] \in Address
       THEN \E i \in DOMAIN chain :
              /\ cursor[t] = chain[i]
              /\ \A j \in 1 .. i - 1 : uri[chain[j]] # request[t]
       ELSE NotListed(request[t])
  /\ pc[t] = "update" => \E i \in DOMAIN chain : cursor[t] = chain[i] /\ uri[chain[i]] = request[t]
  /\ pc[t] = "link" => NotListed(request[t])
  /\ pc[t] \in {"index", "evict"} =>
       /\ chain # << >>
       /\ cursor[t] = chain[Len(chain)]
       /\ uri[cursor[t]] = request[t]
       /\ response[cursor[t]].content = arg[t]
  /\ pc[t] = "evict" => Len(chain) = Capacity + 1

(* The list is over its capacity only before the eviction.                 *)
WithinCapacity ==
  /\ (\A t \in Thread : pc[t] \notin {"index", "evict"}) => Len(chain) <= Capacity
  /\ Len(chain) <= Capacity + 1

(* The map agrees with the list while no data race has damaged it; only a  *)
(* node that has just been linked is not in it yet.                        *)
MapAgrees ==
  ~raced =>
    /\ \A u \in URI : map[u] \in Address => \E i \in DOMAIN chain : chain[i] = map[u]
    /\ \A i \in DOMAIN chain :
         \/ map[uri[chain[i]]] = chain[i]
         \/ i = Len(chain) /\ \E t \in Thread : pc[t] = "index"

(* The conjunction every step preserves.                                   *)
Inductive ==
  /\ TypeOK
  /\ LockDiscipline
  /\ Constructed
  /\ LocalsSet
  /\ ListRepresentsChain
  /\ NoDuplicateURI
  /\ \A t \in Thread : Scanned(t)
  /\ WithinCapacity
  /\ MapAgrees
  /\ PointersLeadToTheirURI

(* The data-race conditions the lock does not exclude; see the run that    *)
(* refutes it.  No two threads are inside operator[] of map while one of   *)
(* them inserts a key, and no response is assigned while another thread is *)
(* about to copy it, to judge it (Cache.cpp:139) or to send it             *)
(* (GetMethod.cpp:30-33, 55).                                              *)
DataRaceFree ==
  \A t \in Thread :
    /\ ~MapRace(t)
    /\ ~(pc[t] = "judge" /\ Assigning(found[t]))
    /\ ~(pc[t] = "idle" /\ node[t] # NULL /\ Assigning(node[t]))

(* When isFresh looks the URI up again it finds a node, as getResponse did *)
(* a moment before, at least while no data race has damaged the map: the   *)
(* pointer it tests for null, reports and then dereferences all the same   *)
(* (Cache.cpp:133-139) is never null.                                      *)
IsFreshFindsNode ==
  \A t \in Thread : (pc[t] = "isFresh" /\ ~raced) => map[request[t]] \in Address

(* The entries of the abstract store: the nodes of the list without the    *)
(* one whose insertion has not finished.                                   *)
Committed ==
  IF \E t \in Thread : pc[t] \in {"index", "evict"}
  THEN SubSeq(chain, 1, Len(chain) - 1)
  ELSE chain

(* The calls of putResponse that have not taken effect.                    *)
Pending(t) ==
  IF pc[t] \in PutSteps \ {"unlock"} THEN [uri |-> request[t], content |-> arg[t]] ELSE NULL

Queue ==
  [i \in DOMAIN Committed |->
     [uri |-> uri[Committed[i]], content |-> response[Committed[i]].content]]

Fifo == INSTANCE FifoStore WITH
  Client <- Thread,
  None <- NULL,
  queue <- Queue,
  pending <- [t \in Thread |-> Pending(t)]

(* Cache implements FifoStore: seen through its list, every putResponse    *)
(* takes effect at one instant between its call and its return, as Replace *)
(* or as Insert with first-in-first-out eviction, whatever other threads   *)
(* and data races on the map do (Cache.hpp:32, 47-51).                     *)
ImplementsFifoStore == Fifo!Spec
=============================================================================

--------------------------- MODULE CacheRefinement ---------------------------
(***************************************************************************)
(* That Cache implements FifoStore, for every set of threads, URIs,        *)
(* contents and addresses and every capacity: each step of Cache is        *)
(* HandOver (CallPut), Replace (Update), Insert (Index when nothing is     *)
(* evicted, otherwise Evict), or leaves the store as it is.                *)
(***************************************************************************)
EXTENDS CacheProofs

Handed == [t \in Thread |-> Pending(t)]

(* putResponse is between its new node's appending and its completion.     *)
Inserting == \E s \in Thread : pc[s] \in {"index", "evict"}

(* What putResponse was called with is an entry, and not NULL.             *)
LEMMA PendingEntry ==
  ASSUME Inductive, NEW t \in Thread, pc[t] \in PutSteps \ {"unlock"}
  PROVE  /\ Pending(t) = [uri |-> request[t], content |-> arg[t]]
         /\ Pending(t) \in [uri : URI, content : Content]
         /\ Pending(t) # NULL
<1>1. pc[t] # "idle"
  BY DEF PutSteps, CriticalSteps
<1>2. request[t] \in URI /\ arg[t] \in Content
  BY <1>1 DEF Inductive, LocalsSet
<1>3. Pending(t) = [uri |-> request[t], content |-> arg[t]]
  BY DEF Pending
<1> QED
  BY <1>2, <1>3, CacheAssumption

(* The history of the list is a sequence of addresses.                     *)
LEMMA ChainFacts ==
  ASSUME Inductive
  PROVE  /\ chain \in Seq(Address)
         /\ Len(chain) \in Nat
         /\ DOMAIN chain = 1 .. Len(chain)
         /\ \A i \in 1 .. Len(chain) : chain[i] \in allocated /\ chain[i] \in Address
  BY DEF Inductive, TypeOK, ListRepresentsChain

(* What the abstract queue is, without and during an insertion.            *)
LEMMA QueueWhole ==
  ASSUME Inductive, ~Inserting
  PROVE  Queue = [i \in 1 .. Len(chain) |->
                    [uri |-> uri[chain[i]], content |-> response[chain[i]].content]]
  BY ChainFacts DEF Queue, Committed, Inserting

LEMMA QueueInserting ==
  ASSUME Inductive, Inserting
  PROVE  /\ Len(chain) > 0
         /\ Queue = [i \in 1 .. Len(chain) - 1 |->
                      [uri |-> uri[chain[i]], content |-> response[chain[i]].content]]
<1>1. PICK s \in Thread : pc[s] \in {"index", "evict"}
  BY DEF Inserting
<1>2. chain # << >>
  BY <1>1 DEF Inductive, Scanned
<1>3. chain \in Seq(Address) /\ Len(chain) \in Nat /\ DOMAIN chain = 1 .. Len(chain)
  BY ChainFacts
<1>4. Len(chain) > 0
  BY <1>2, <1>3
<1> DEFINE c == SubSeq(chain, 1, Len(chain) - 1)
<1>5. Committed = c
  BY <1>1 DEF Committed
<1>6. DOMAIN c = 1 .. Len(chain) - 1 /\ \A i \in 1 .. Len(chain) - 1 : c[i] = chain[i]
  BY <1>3, <1>4
<1> HIDE DEF c
<1>7. Queue = [i \in 1 .. Len(chain) - 1 |-> [uri |-> uri[c[i]], content |-> response[c[i]].content]]
  BY <1>5, <1>6 DEF Queue
<1> QED
  BY <1>4, <1>6, <1>7

(* A step that changes no list, URI or content leaves the queue alone.     *)
LEMMA SameQueue ==
  ASSUME Inductive, Inductive', UNCHANGED <<chain, uri>>, Inserting' <=> Inserting,
         \A a \in allocated : response'[a].content = response[a].content
  PROVE  Queue' = Queue
<1>1. \A i \in 1 .. Len(chain) : response'[chain[i]].content = response[chain[i]].content
  BY ChainFacts
<1>2. CASE ~Inserting
  BY <1>1, <1>2, ChainFacts DEF Queue, Committed, Inserting
<1>3. CASE Inserting
  <2>1. Committed' = Committed
    BY <1>3 DEF Committed, Inserting
  <2>2. Committed = SubSeq(chain, 1, Len(chain) - 1)
    BY <1>3 DEF Committed, Inserting
  <2>3. DOMAIN Committed = 1 .. Len(chain) - 1
        /\ \A i \in 1 .. Len(chain) - 1 : Committed[i] = chain[i]
    BY <1>3, <2>2, ChainFacts, QueueInserting
  <2>4. \A i \in DOMAIN Committed : response'[Committed[i]].content = response[Committed[i]].content
    BY <1>1, <2>3, ChainFacts
  <2> QED
    BY <2>1, <2>4 DEF Queue
<1> QED
  BY <1>2, <1>3

(* What a thread has handed over depends on its own variables only.        *)
LEMMA SameHanded ==
  ASSUME NEW t \in Thread, Pending(t)' = Pending(t),
         \A s \in Thread \ {t} : pc'[s] = pc[s] /\ request'[s] = request[s] /\ arg'[s] = arg[s]
  PROVE  Handed' = Handed
<1>1. ASSUME NEW s \in Thread PROVE Pending(s)' = Pending(s)
  BY DEF Pending
<1> QED
  BY <1>1 DEF Handed

(* When one thread takes effect, what the others have handed over stays.   *)
LEMMA Taken ==
  ASSUME NEW t \in Thread, pc'[t] = "unlock",
         \A s \in Thread \ {t} : pc'[s] = pc[s] /\ request'[s] = request[s] /\ arg'[s] = arg[s]
  PROVE  Handed' = [Handed EXCEPT ![t] = NULL]
<1>1. Pending(t)' = NULL
  BY DEF Pending
<1>2. ASSUME NEW s \in Thread \ {t} PROVE Pending(s)' = Pending(s)
  BY DEF Pending
<1> QED
  BY <1>1, <1>2 DEF Handed

(* The steps that take no lock, other than the call of putResponse.        *)
LEMMA ReaderQuiet ==
  ASSUME Inductive, Inductive', NEW t \in Thread,
         \/ \E u \in URI : CallGet(t, u)
         \/ ReadStep(t)
         \/ Segfault(t)
  PROVE  UNCHANGED <<Queue, Handed>>
<1>1. /\ UNCHANGED <<chain, uri, arg>>
      /\ \A s \in Thread \ {t} : pc'[s] = pc[s] /\ request'[s] = request[s]
      /\ \A a \in allocated : response'[a].content = response[a].content
      /\ \/ pc'[t] = pc[t] /\ request'[t] = request[t]
         \/ pc[t] \in ReaderSteps /\ pc'[t] \in ReaderSteps
  <2> USE DEF Goto, At, listVars, heapVars, mapVars, callVars, readerVars
  <2>1. CASE \E u \in URI : CallGet(t, u)
    BY <2>1 DEF CallGet, Inductive, TypeOK, ReaderSteps
  <2>2. CASE GetResponse(t)
    BY <2>2 DEF GetResponse, Inductive, TypeOK, ReaderSteps
  <2>3. CASE SetFirstRequestTime(t)
    BY <2>3 DEF SetFirstRequestTime, Inductive, TypeOK, ReaderSteps
  <2>4. CASE FindAgain(t)
    BY <2>4 DEF FindAgain, Inductive, TypeOK, ReaderSteps
  <2>5. CASE \E r \in Response \cup {TornResponse} : CopyFound(t, r) \/ CopyNode(t, r)
    BY <2>5 DEF CopyFound, CopyNode, Inductive, TypeOK, ReaderSteps
  <2>6. CASE Segfault(t)
    BY <2>6 DEF Segfault
  <2> QED
    BY <2>1, <2>2, <2>3, <2>4, <2>5, <2>6 DEF ReadStep
<1>2. Inserting' <=> Inserting
  BY <1>1 DEF Inserting, ReaderSteps
<1>3. Queue' = Queue
  BY <1>1, <1>2, SameQueue
<1>4. Pending(t)' = Pending(t)
  BY <1>1 DEF Pending, ReaderSteps, PutSteps, CriticalSteps
<1> QED
  BY <1>1, <1>3, <1>4, SameHanded

(* The steps of putResponse that take m, search the list and give m back.  *)
LEMMA SearchQuiet ==
  ASSUME Inductive, Inductive', NEW t \in Thread, Lock(t) \/ Scan(t) \/ Unlock(t)
  PROVE  UNCHANGED <<Queue, Handed>>
<1>1. /\ UNCHANGED <<chain, uri, response, request>>
      /\ \A s \in Thread \ {t} : pc'[s] = pc[s] /\ arg'[s] = arg[s]
      /\ \/ /\ pc[t] \in {"lock", "scan"} /\ pc'[t] \in {"scan", "update", "link"}
            /\ arg'[t] = arg[t]
         \/ pc[t] = "unlock" /\ pc'[t] = "idle"
  <2> USE DEF Goto, At, listVars, heapVars, mapVars, callVars, readerVars
  <2>1. CASE Lock(t)
    BY <2>1 DEF Lock, Inductive, TypeOK
  <2>2. CASE Scan(t)
    BY <2>2 DEF Scan, Inductive, TypeOK
  <2>3. CASE Unlock(t)
    BY <2>3 DEF Unlock, Inductive, TypeOK
  <2> QED
    BY <2>1, <2>2, <2>3
<1>2. Inserting' <=> Inserting
  BY <1>1 DEF Inserting
<1>3. Queue' = Queue
  BY <1>1, <1>2, SameQueue
<1>4. Pending(t)' = Pending(t)
  BY <1>1 DEF Pending, PutSteps, CriticalSteps
<1> QED
  BY <1>1, <1>3, <1>4, SameHanded

(* In a critical step the thread holds m, and no other thread is in one.   *)
LEMMA OnlyWriter ==
  ASSUME Inductive, NEW t \in Thread, pc[t] \in CriticalSteps
  PROVE  \A s \in Thread \ {t} : pc[s] \notin CriticalSteps
  BY DEF Inductive, LockDiscipline

(* putResponse is called: the content is handed over.                      *)
LEMMA CallPutHandsOver ==
  ASSUME Inductive, Inductive', NEW t \in Thread, NEW c \in Content, CallPut(t, c)
  PROVE  \E e \in Fifo!Entry : Fifo!HandOver(t, e)
<1>1. /\ pc[t] = "idle" /\ pc'[t] = "lock"
      /\ \A s \in Thread \ {t} : pc'[s] = pc[s] /\ arg'[s] = arg[s]
      /\ UNCHANGED <<chain, uri, response, request>>
  BY DEF CallPut, Goto, At, Inductive, TypeOK, listVars, heapVars, mapVars, readerVars
<1>2. Queue' = Queue
  <2>1. Inserting' <=> Inserting
    BY <1>1 DEF Inserting
  <2> QED
    BY <1>1, <2>1, SameQueue
<1> DEFINE e == Pending(t)'
<1>3. e \in Fifo!Entry
  BY <1>1, PendingEntry DEF Fifo!Entry, Pending, PutSteps, Inductive, LocalsSet
<1>4. Pending(t) = NULL
  BY <1>1 DEF Pending, PutSteps, CriticalSteps
<1>5. \A s \in Thread \ {t} : Pending(s)' = Pending(s)
  BY <1>1 DEF Pending
<1>6. Handed' = [Handed EXCEPT ![t] = e]
  BY <1>5 DEF Handed
<1>7. Fifo!HandOver(t, e)
  BY <1>2, <1>4, <1>6 DEF Fifo!HandOver, Handed
<1> QED
  BY <1>3, <1>7

(* The URI is in the list: the update replaces its content.                *)
LEMMA UpdateReplaces ==
  ASSUME Inductive, Inductive', NEW t \in Thread, Update(t)
  PROVE  Fifo!Replace(t)
<1>1. /\ pc[t] = "update" /\ pc'[t] = "unlock"
      /\ \A s \in Thread \ {t} : pc'[s] = pc[s]
      /\ UNCHANGED <<chain, uri, request, arg>>
      /\ response' = [response EXCEPT ![cursor[t]] = [content |-> arg[t], timed |-> FALSE]]
      /\ response \in [Address -> Response \cup {NULL}]
  BY DEF Update, Goto, At, Inductive, TypeOK, listVars, mapVars, callVars, readerVars
<1>2. \A s \in Thread \ {t} : pc[s] \notin CriticalSteps
  BY <1>1, OnlyWriter DEF CriticalSteps
<1>3. ~Inserting /\ ~Inserting'
  BY <1>1, <1>2 DEF Inserting, CriticalSteps
<1> DEFINE n == Len(chain)
<1>4. /\ DOMAIN Queue = 1 .. n /\ DOMAIN Queue' = 1 .. n
      /\ \A i \in 1 .. n :
           /\ Queue[i] = [uri |-> uri[chain[i]], content |-> response[chain[i]].content]
           /\ Queue'[i] = [uri |-> uri[chain[i]], content |-> response'[chain[i]].content]
      /\ Queue' = [i \in 1 .. n |-> [uri |-> uri[chain[i]], content |-> response'[chain[i]].content]]
  BY <1>1, <1>3, QueueWhole, ChainFacts DEF Queue, Committed, Inserting
<1>5. PICK k \in 1 .. n : cursor[t] = chain[k] /\ uri[chain[k]] = request[t]
  BY <1>1, ChainFacts DEF Inductive, Scanned
<1>6. /\ Pending(t) = [uri |-> request[t], content |-> arg[t]]
      /\ Pending(t) # NULL
  BY <1>1, PendingEntry DEF PutSteps, CriticalSteps
<1>7. ASSUME NEW i \in 1 .. n
      PROVE  Queue'[i] = IF Queue[i].uri = Pending(t).uri THEN Pending(t) ELSE Queue[i]
  <2>1. CASE i = k
    BY <1>1, <1>4, <1>5, <1>6, <2>1, ChainFacts
  <2>2. CASE i # k
    <3>1. chain[i] # chain[k] /\ uri[chain[i]] # uri[chain[k]]
      BY <1>5, <2>2, ChainFacts DEF Inductive, NoDuplicateURI
    <3> QED
      BY <1>1, <1>4, <1>5, <1>6, <3>1, ChainFacts
  <2> QED
    BY <2>1, <2>2
<1>8. Queue' = [i \in DOMAIN Queue |-> IF Queue[i].uri = Pending(t).uri THEN Pending(t) ELSE Queue[i]]
  BY <1>4, <1>7
<1>9. Fifo!Stored(Pending(t).uri)
  BY <1>4, <1>5, <1>6 DEF Fifo!Stored
<1>10. Handed' = [Handed EXCEPT ![t] = NULL]
  BY <1>1, Taken
<1>11. Handed[t] = Pending(t)
  BY DEF Handed
<1> QED
  BY <1>6, <1>8, <1>9, <1>10, <1>11 DEF Fifo!Replace, Handed

(* A node that has been linked is not in the store yet.                    *)
LEMMA LinkQuiet ==
  ASSUME Inductive, Inductive', NEW t \in Thread, Link(t)
  PROVE  UNCHANGED <<Queue, Handed>>
<1>1. /\ pc[t] = "link" /\ pc'[t] = "index"
      /\ \A s \in Thread \ {t} : pc'[s] = pc[s]
      /\ UNCHANGED <<request, arg>>
  BY DEF Link, Goto, At, Inductive, TypeOK, callVars
<1>2. PICK a \in Address \ allocated :
        /\ uri' = [uri EXCEPT ![a] = request[t]]
        /\ response' = [response EXCEPT ![a] = [content |-> arg[t], timed |-> FALSE]]
        /\ chain' = Append(chain, a)
  BY DEF Link
<1> DEFINE n == Len(chain)
<1>3. /\ Len(chain') = n + 1 /\ n \in Nat
      /\ \A i \in 1 .. n : /\ chain'[i] = chain[i]
                           /\ uri'[chain[i]] = uri[chain[i]]
                           /\ response'[chain[i]] = response[chain[i]]
  BY <1>2, ChainFacts DEF Inductive, TypeOK
<1>4. ~Inserting /\ Inserting'
  BY <1>1, OnlyWriter DEF Inserting, CriticalSteps
<1>5. Queue = [i \in 1 .. n |-> [uri |-> uri[chain[i]], content |-> response[chain[i]].content]]
  BY <1>4, QueueWhole
<1>6. Queue' = [i \in 1 .. n |-> [uri |-> uri'[chain'[i]], content |-> response'[chain'[i]].content]]
  <2> DEFINE c == SubSeq(chain', 1, Len(chain') - 1)
  <2>1. Committed' = c
    BY <1>4 DEF Committed, Inserting
  <2>2. DOMAIN c = 1 .. n /\ \A i \in 1 .. n : c[i] = chain'[i]
    BY <1>2, <1>3, ChainFacts
  <2> HIDE DEF c
  <2> QED
    BY <2>1, <2>2 DEF Queue
<1>7. Queue' = Queue
  BY <1>3, <1>5, <1>6
<1>8. Pending(t)' = Pending(t)
  BY <1>1 DEF Pending, PutSteps, CriticalSteps
<1> QED
  BY <1>1, <1>7, <1>8, SameHanded

(* Nothing is evicted: the insertion is complete with the count.           *)
LEMMA IndexInserts ==
  ASSUME Inductive, Inductive', NEW t \in Thread, Index(t)
  PROVE  Fifo!Insert(t) \/ UNCHANGED <<Queue, Handed>>
<1>1. /\ pc[t] = "index"
      /\ pc'[t] = IF size + 1 > Capacity THEN "evict" ELSE "unlock"
      /\ \A s \in Thread \ {t} : pc'[s] = pc[s]
      /\ UNCHANGED <<chain, uri, response, request, arg>>
  BY DEF Index, Goto, At, Inductive, TypeOK, heapVars, callVars
<1>2. Inserting /\ \A s \in Thread \ {t} : pc[s] \notin CriticalSteps
  BY <1>1, OnlyWriter DEF Inserting, CriticalSteps
<1>3. CASE size + 1 > Capacity
  <2>1. Inserting' /\ pc'[t] = "evict"
    BY <1>1, <1>3 DEF Inserting
  <2>2. Queue' = Queue
    BY <1>1, <1>2, <2>1, SameQueue
  <2>3. Pending(t)' = Pending(t)
    BY <1>1, <2>1 DEF Pending, PutSteps, CriticalSteps
  <2> QED
    BY <1>1, <2>2, <2>3, SameHanded
<1>4. CASE ~(size + 1 > Capacity)
  <2> DEFINE n == Len(chain)
             e(i) == [uri |-> uri[chain[i]], content |-> response[chain[i]].content]
  <2>1. pc'[t] = "unlock" /\ ~Inserting'
    BY <1>1, <1>2, <1>4 DEF Inserting, CriticalSteps
  <2>2. n \in Nat /\ n > 0 /\ n <= Capacity /\ Queue = [i \in 1 .. n - 1 |-> e(i)]
    <3>1. n \in Nat /\ n > 0 /\ Queue = [i \in 1 .. n - 1 |-> e(i)]
      BY <1>2, QueueInserting, ChainFacts
    <3>2. size = n - 1
      BY <1>1 DEF Inductive, ListRepresentsChain
    <3> QED
      BY <1>4, <3>1, <3>2, CacheAssumption
  <2>3. Queue' = [i \in 1 .. n |-> e(i)]
    BY <1>1, <2>1, ChainFacts DEF Queue, Committed, Inserting
  <2>4. Pending(t) = e(n) /\ Pending(t) # NULL
    BY <1>1, PendingEntry DEF Inductive, Scanned, PutSteps, CriticalSteps
  <2> HIDE DEF e
  <2>5. Append(Queue, Pending(t)) = [i \in 1 .. n |-> e(i)] /\ Len(Append(Queue, Pending(t))) = n
    BY <2>2, <2>4
  <2>6. ~Fifo!Stored(Pending(t).uri)
    <3>1. \A i \in 1 .. n - 1 : uri[chain[i]] # uri[chain[n]]
      BY <2>2, ChainFacts DEF Inductive, NoDuplicateURI
    <3>2. DOMAIN Queue = 1 .. n - 1 /\ \A i \in 1 .. n - 1 : Queue[i].uri # Pending(t).uri
      BY <2>2, <2>4, <3>1 DEF e
    <3> QED
      BY <3>2 DEF Fifo!Stored
  <2>7. Handed' = [Handed EXCEPT ![t] = NULL] /\ Handed[t] = Pending(t)
    BY <1>1, <2>1, Taken DEF Handed
  <2>8. Queue' = Append(Queue, Pending(t)) /\ ~(Len(Append(Queue, Pending(t))) > Capacity)
    BY <2>2, <2>3, <2>5, CacheAssumption
  <2> QED
    BY <2>4, <2>6, <2>7, <2>8 DEF Fifo!Insert, Handed
<1> QED
  BY <1>3, <1>4

(* The list was full: the insertion is complete with the eviction of the   *)
(* node that was linked first.                                             *)
LEMMA EvictInserts ==
  ASSUME Inductive, Inductive', NEW t \in Thread, Evict(t)
  PROVE  Fifo!Insert(t)
<1>1. /\ pc[t] = "evict" /\ pc'[t] = "unlock"
      /\ \A s \in Thread \ {t} : pc'[s] = pc[s]
      /\ chain' = Tail(chain)
      /\ UNCHANGED <<uri, response, request, arg>>
  BY DEF Evict, Goto, At, Inductive, TypeOK, callVars
<1>2. Inserting /\ ~Inserting'
  BY <1>1, OnlyWriter DEF Inserting, CriticalSteps
<1> DEFINE n == Len(chain)
           e(i) == [uri |-> uri[chain[i]], content |-> response[chain[i]].content]
<1>3. /\ n \in Nat /\ n > 0 /\ n = Capacity + 1
      /\ Queue = [i \in 1 .. n - 1 |-> e(i)]
  BY <1>1, <1>2, QueueInserting, ChainFacts DEF Inductive, Scanned
<1>4. Queue' = [i \in 1 .. n - 1 |-> e(i + 1)]
  <2>1. DOMAIN chain' = 1 .. n - 1 /\ \A i \in 1 .. n - 1 : chain'[i] = chain[i + 1]
    BY <1>1, <1>3, ChainFacts
  <2>2. Committed' = chain'
    BY <1>2 DEF Committed, Inserting
  <2> QED
    BY <1>1, <2>1, <2>2 DEF Queue
<1>5. Pending(t) = e(n) /\ Pending(t) # NULL
  BY <1>1, PendingEntry DEF Inductive, Scanned, PutSteps, CriticalSteps
<1>6. ~Fifo!Stored(Pending(t).uri)
  <2>1. \A i \in 1 .. n - 1 : uri[chain[i]] # uri[chain[n]]
    BY <1>3, ChainFacts DEF Inductive, NoDuplicateURI
  <2>2. DOMAIN Queue = 1 .. n - 1 /\ \A i \in 1 .. n - 1 : Queue[i].uri # Pending(t).uri
    BY <1>3, <1>5, <2>1
  <2> QED
    BY <2>2 DEF Fifo!Stored
<1> HIDE DEF e
<1>7. Append(Queue, Pending(t)) = [i \in 1 .. n |-> e(i)] /\ Len(Append(Queue, Pending(t))) = n
  BY <1>3, <1>5
<1>8. Queue' = Tail(Append(Queue, Pending(t))) /\ Len(Append(Queue, Pending(t))) > Capacity
  BY <1>3, <1>4, <1>7, CacheAssumption
<1>9. Handed' = [Handed EXCEPT ![t] = NULL] /\ Handed[t] = Pending(t)
  BY <1>1, Taken DEF Handed
<1> QED
  BY <1>5, <1>6, <1>8, <1>9 DEF Fifo!Insert, Handed

(* No step of the process leaves the store in a state FifoStore does not   *)
(* allow.                                                                  *)
LEMMA StepRefines ==
  Inductive /\ Inductive' /\ [Next]_vars => [Fifo!Next]_<<Queue, Handed>>
<1> SUFFICES ASSUME Inductive, Inductive', [Next]_vars
             PROVE  Fifo!Next \/ UNCHANGED <<Queue, Handed>>
  OBVIOUS
<1>1. CASE UNCHANGED vars
  <2>1. UNCHANGED <<chain, uri, response, pc, request, arg>>
    BY <1>1 DEF vars, listVars, heapVars, callVars
  <2> QED
    BY <2>1 DEF Queue, Committed, Handed, Pending
<1>2. ASSUME NEW t \in Thread, Step(t)
      PROVE  Fifo!Next \/ UNCHANGED <<Queue, Handed>>
  <2>1. CASE (\E u \in URI : CallGet(t, u)) \/ ReadStep(t) \/ Segfault(t)
    BY <2>1, ReaderQuiet
  <2>2. CASE Lock(t) \/ Scan(t) \/ Unlock(t)
    BY <2>2, SearchQuiet
  <2>3. ASSUME NEW c \in Content, CallPut(t, c)
        PROVE  Fifo!Next
    BY <2>3, CallPutHandsOver DEF Fifo!Next
  <2>4. CASE Update(t)
    BY <2>4, UpdateReplaces DEF Fifo!Next
  <2>5. CASE Link(t)
    BY <2>5, LinkQuiet
  <2>6. CASE Index(t)
    BY <2>6, IndexInserts DEF Fifo!Next
  <2>7. CASE Evict(t)
    BY <2>7, EvictInserts DEF Fifo!Next
  <2> QED
    BY <1>2, <2>1, <2>2, <2>3, <2>4, <2>5, <2>6, <2>7 DEF Step, PutStep
<1> QED
  BY <1>1, <1>2 DEF Next, Down

(* Cache implements FifoStore: every putResponse takes effect at one       *)
(* instant, as a replacement or as an insertion with first-in-first-out    *)
(* eviction (Cache.cpp:17-73).                                             *)
THEOREM StoreRefinement == Spec => ImplementsFifoStore
<1>1. Init => Fifo!Init
  <2> SUFFICES ASSUME Init PROVE Fifo!Init
    OBVIOUS
  <2>1. chain = << >> /\ ~Inserting
    BY DEF Init, Inserting
  <2>2. Queue = << >>
    BY <2>1 DEF Queue, Committed, Inserting
  <2>3. Handed = [t \in Thread |-> NULL]
    BY DEF Init, Handed, Pending, PutSteps, CriticalSteps
  <2> QED
    BY <2>2, <2>3 DEF Fifo!Init, Handed
<1>2. Inductive /\ Inductive' /\ [Next]_vars => [Fifo!Next]_<<Queue, [t \in Thread |-> Pending(t)]>>
  BY StepRefines DEF Handed
<1>3. Spec => []Inductive
  BY InductiveInvariant
<1> QED
  BY <1>1, <1>2, <1>3, PTL DEF Spec, ImplementsFifoStore, Fifo!Spec
=============================================================================

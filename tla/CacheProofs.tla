----------------------------- MODULE CacheProofs -----------------------------
(***************************************************************************)
(* Proofs about Cache, for any set of threads, URIs, contents and          *)
(* addresses and any capacity: every step preserves Inductive, the         *)
(* conjunction of the safety invariants with what the steps rely on.       *)
(***************************************************************************)
EXTENDS Cache, TLAPS

USE CacheAssumption DEF Pointer, ReaderSteps, CriticalSteps, PutSteps

(* The initial states satisfy the inductive invariant.                     *)
LEMMA InitInductive == Init => Inductive
<1> SUFFICES ASSUME Init PROVE Inductive
  OBVIOUS
<1>1. TypeOK
  <2>1. chain \in Seq(Address)
    BY DEF Init
  <2>2. /\ status \in {"up", "crashed"}
        /\ raced \in BOOLEAN
        /\ pc \in [Thread -> ReaderSteps \cup PutSteps]
    BY DEF Init
  <2> QED
    BY <2>1, <2>2 DEF Init, TypeOK
<1>2. LockDiscipline /\ LocalsSet /\ (\A t \in Thread : Scanned(t))
  BY DEF Init, LockDiscipline, LocalsSet, Scanned
<1>3. Constructed
  BY DEF Init, Constructed
<1>4. ListRepresentsChain
  BY DEF Init, ListRepresentsChain
<1>5. NoDuplicateURI
  BY DEF Init, NoDuplicateURI
<1>6. WithinCapacity
  BY DEF Init, WithinCapacity
<1>7. MapAgrees /\ PointersLeadToTheirURI
  BY DEF Init, MapAgrees, PointersLeadToTheirURI
<1> QED
  BY <1>1, <1>2, <1>3, <1>4, <1>5, <1>6, <1>7 DEF Inductive

(* Whatever a race does, an access of the map leaves each element as it    *)
(* was, as it should become, or lost; without a race, as it should become. *)
LEMMA WriteMapEffect ==
  ASSUME TypeOK, NEW t \in Thread, NEW m \in [URI -> Pointer \cup {Absent}], WriteMap(t, m)
  PROVE  /\ map' \in [URI -> Pointer \cup {Absent}]
         /\ raced' \in BOOLEAN
         /\ \A u \in URI : map'[u] \in {m[u], map[u], Absent}
         /\ ~raced' => ~raced /\ map' = m
<1> DEFINE T == [URI -> Pointer \cup {Absent}]
<1>1. map \in T /\ raced \in BOOLEAN
  BY DEF TypeOK
<1>2. CASE map' = m /\ UNCHANGED raced
  BY <1>1, <1>2
<1>3. CASE map' \in Damage(m) /\ raced' = TRUE
  <2>1. CASE map' = m \/ map' = map
    BY <1>1, <1>3, <2>1
  <2>2. CASE \E v \in URI : map' = [m EXCEPT ![v] = Absent]
    BY <1>1, <1>3, <2>2
  <2> QED
    BY <1>3, <2>1, <2>2 DEF Damage
<1> QED
  BY <1>2, <1>3 DEF WriteMap

(* operator[] gives a missing key the null pointer.                        *)
LEMMA SubscriptEffect ==
  ASSUME TypeOK, NEW u \in URI
  PROVE  /\ Subscript(u) \in [URI -> Pointer \cup {Absent}]
         /\ Subscript(u)[u] \in Pointer
         /\ Subscript(u)[u] \in Address => Subscript(u)[u] = map[u]
         /\ \A v \in URI : Subscript(u)[v] = map[v] \/ (Subscript(u)[v] = NULL /\ map[v] = Absent)
<1>1. map \in [URI -> Pointer \cup {Absent}]
  BY DEF TypeOK
<1>2. \A v \in URI : Subscript(u)[v] = IF v = u /\ map[v] = Absent THEN NULL ELSE map[v]
  BY <1>1 DEF Subscript
<1>3. Subscript(u) \in [URI -> Pointer \cup {Absent}]
  BY <1>1 DEF Subscript
<1> QED
  BY <1>1, <1>2, <1>3

(* A handler enters getResponse.                                           *)
LEMMA CallGetInductive ==
  ASSUME Inductive, NEW t \in Thread, NEW u \in URI, CallGet(t, u)
  PROVE  Inductive'
<1> USE DEF CallGet, Goto, At, listVars, heapVars, mapVars, callVars, readerVars
<1>1. TypeOK'
  BY DEF Inductive, TypeOK
<1>2. LockDiscipline'
  BY DEF Inductive, TypeOK, LockDiscipline
<1>3. Constructed'
  BY DEF Inductive, TypeOK, Constructed
<1>4. LocalsSet'
  BY DEF Inductive, TypeOK, LocalsSet
<1>5. ListRepresentsChain'
  BY DEF Inductive, TypeOK, ListRepresentsChain
<1>6. NoDuplicateURI'
  BY DEF Inductive, NoDuplicateURI
<1>7. ASSUME NEW s \in Thread PROVE Scanned(s)'
  BY DEF Inductive, TypeOK, Scanned, NotListed
<1>8. WithinCapacity'
  BY DEF Inductive, TypeOK, WithinCapacity
<1>9. MapAgrees'
  BY DEF Inductive, TypeOK, MapAgrees
<1>10. PointersLeadToTheirURI'
  BY DEF Inductive, TypeOK, PointersLeadToTheirURI
<1> QED
  BY <1>1, <1>2, <1>3, <1>4, <1>5, <1>6, <1>7, <1>8, <1>9, <1>10 DEF Inductive

(* map[URI], which may insert the key, race and lose elements.             *)
LEMMA GetResponseInductive ==
  ASSUME Inductive, NEW t \in Thread, GetResponse(t)
  PROVE  Inductive'
<1> USE DEF GetResponse, Goto, At, listVars, heapVars, mapVars, callVars, readerVars
<1>a. TypeOK /\ request[t] \in URI
  BY DEF Inductive, TypeOK, LocalsSet
<1>b. /\ Subscript(request[t]) \in [URI -> Pointer \cup {Absent}]
      /\ Subscript(request[t])[request[t]] \in Pointer
      /\ Subscript(request[t])[request[t]] \in Address => Subscript(request[t])[request[t]] = map[request[t]]
      /\ \A v \in URI : \/ Subscript(request[t])[v] = map[v]
                        \/ Subscript(request[t])[v] = NULL /\ map[v] = Absent
  BY <1>a, SubscriptEffect
<1>c. /\ map' \in [URI -> Pointer \cup {Absent}]
      /\ raced' \in BOOLEAN
      /\ \A u \in URI : map'[u] \in {Subscript(request[t])[u], map[u], Absent}
      /\ ~raced' => ~raced /\ map' = Subscript(request[t])
  BY <1>a, <1>b, WriteMapEffect
<1>d. \A s \in Thread : pc'[s] = "index" <=> pc[s] = "index"
  BY DEF Inductive, TypeOK
<1>1. TypeOK'
  BY <1>a, <1>b, <1>c DEF Inductive, TypeOK
<1>2. LockDiscipline'
  BY DEF Inductive, TypeOK, LockDiscipline
<1>3. Constructed'
  BY DEF Inductive, TypeOK, Constructed
<1>4. LocalsSet'
  BY DEF Inductive, TypeOK, LocalsSet
<1>5. ListRepresentsChain'
  BY DEF Inductive, TypeOK, ListRepresentsChain
<1>6. NoDuplicateURI'
  BY DEF Inductive, NoDuplicateURI
<1>7. ASSUME NEW s \in Thread PROVE Scanned(s)'
  BY DEF Inductive, TypeOK, Scanned, NotListed
<1>8. WithinCapacity'
  BY DEF Inductive, TypeOK, WithinCapacity
<1>9. MapAgrees'
  <2> SUFFICES ASSUME ~raced'
               PROVE  /\ \A u \in URI : map'[u] \in Address => \E i \in DOMAIN chain : chain[i] = map'[u]
                      /\ \A i \in DOMAIN chain : \/ map'[uri[chain[i]]] = chain[i]
                                                 \/ i = Len(chain) /\ \E s \in Thread : pc[s] = "index"
    BY <1>d DEF MapAgrees
  <2>1. ~raced /\ MapAgrees
    BY <1>c DEF Inductive
  <2>2. \A i \in DOMAIN chain : chain[i] \in Address /\ uri[chain[i]] \in URI
    BY DEF Inductive, TypeOK, Constructed, ListRepresentsChain
  <2>3. \A v \in URI : map'[v] = map[v] \/ (map'[v] = NULL /\ map[v] = Absent)
    BY <1>b, <1>c
  <2> QED
    BY <2>1, <2>2, <2>3 DEF MapAgrees
<1>10. PointersLeadToTheirURI'
  BY <1>a, <1>b, <1>c DEF Inductive, TypeOK, PointersLeadToTheirURI
<1> QED
  BY <1>1, <1>2, <1>3, <1>4, <1>5, <1>6, <1>7, <1>8, <1>9, <1>10 DEF Inductive

(* The first_request_time of the node that was found.                      *)
LEMMA SetFirstRequestTimeInductive ==
  ASSUME Inductive, NEW t \in Thread, SetFirstRequestTime(t)
  PROVE  Inductive'
<1> USE DEF SetFirstRequestTime, Goto, At, listVars, heapVars, mapVars, callVars, readerVars
<1>a. node[t] \in allocated /\ response[node[t]] \in Response
  BY DEF Inductive, TypeOK, PointersLeadToTheirURI, Constructed
<1>1. TypeOK'
  BY <1>a DEF Inductive, TypeOK, Response
<1>2. LockDiscipline'
  BY DEF Inductive, TypeOK, LockDiscipline
<1>3. Constructed'
  BY <1>a DEF Inductive, TypeOK, Constructed, Response
<1>4. LocalsSet'
  BY DEF Inductive, TypeOK, LocalsSet
<1>5. ListRepresentsChain'
  BY DEF Inductive, TypeOK, ListRepresentsChain
<1>6. NoDuplicateURI'
  BY DEF Inductive, NoDuplicateURI
<1>7. ASSUME NEW s \in Thread PROVE Scanned(s)'
  <2>1. s # t => pc'[s] = pc[s]
    BY DEF Inductive, TypeOK
  <2>2. pc'[t] = "isFresh"
    BY DEF Inductive, TypeOK
  <2> QED
    BY <2>1, <2>2 DEF Inductive, Scanned, NotListed
<1>8. WithinCapacity'
  BY DEF Inductive, TypeOK, WithinCapacity
<1>9. MapAgrees'
  BY DEF Inductive, TypeOK, MapAgrees
<1>10. PointersLeadToTheirURI'
  BY DEF Inductive, TypeOK, PointersLeadToTheirURI
<1> QED
  BY <1>1, <1>2, <1>3, <1>4, <1>5, <1>6, <1>7, <1>8, <1>9, <1>10 DEF Inductive

(* isFresh looks the URI up.                                               *)
LEMMA FindAgainInductive ==
  ASSUME Inductive, NEW t \in Thread, FindAgain(t)
  PROVE  Inductive'
<1> USE DEF FindAgain, Goto, At, listVars, heapVars, mapVars, callVars, readerVars
<1>a. TypeOK /\ request[t] \in URI
  BY DEF Inductive, TypeOK, LocalsSet
<1>b. /\ Subscript(request[t]) \in [URI -> Pointer \cup {Absent}]
      /\ Subscript(request[t])[request[t]] \in Pointer
      /\ Subscript(request[t])[request[t]] \in Address => Subscript(request[t])[request[t]] = map[request[t]]
      /\ \A v \in URI : \/ Subscript(request[t])[v] = map[v]
                        \/ Subscript(request[t])[v] = NULL /\ map[v] = Absent
  BY <1>a, SubscriptEffect
<1>c. /\ map' \in [URI -> Pointer \cup {Absent}]
      /\ raced' \in BOOLEAN
      /\ \A u \in URI : map'[u] \in {Subscript(request[t])[u], map[u], Absent}
      /\ ~raced' => ~raced /\ map' = Subscript(request[t])
  BY <1>a, <1>b, WriteMapEffect
<1>d. \A s \in Thread : pc'[s] = "index" <=> pc[s] = "index"
  BY DEF Inductive, TypeOK
<1>1. TypeOK'
  BY <1>a, <1>b, <1>c DEF Inductive, TypeOK
<1>2. LockDiscipline'
  BY DEF Inductive, TypeOK, LockDiscipline
<1>3. Constructed'
  BY DEF Inductive, TypeOK, Constructed
<1>4. LocalsSet'
  BY DEF Inductive, TypeOK, LocalsSet
<1>5. ListRepresentsChain'
  BY DEF Inductive, TypeOK, ListRepresentsChain
<1>6. NoDuplicateURI'
  BY DEF Inductive, NoDuplicateURI
<1>7. ASSUME NEW s \in Thread PROVE Scanned(s)'
  BY DEF Inductive, TypeOK, Scanned, NotListed
<1>8. WithinCapacity'
  BY DEF Inductive, TypeOK, WithinCapacity
<1>9. MapAgrees'
  <2> SUFFICES ASSUME ~raced'
               PROVE  /\ \A u \in URI : map'[u] \in Address => \E i \in DOMAIN chain : chain[i] = map'[u]
                      /\ \A i \in DOMAIN chain : \/ map'[uri[chain[i]]] = chain[i]
                                                 \/ i = Len(chain) /\ \E s \in Thread : pc[s] = "index"
    BY <1>d DEF MapAgrees
  <2>1. ~raced /\ MapAgrees
    BY <1>c DEF Inductive
  <2>2. \A i \in DOMAIN chain : chain[i] \in Address /\ uri[chain[i]] \in URI
    BY DEF Inductive, TypeOK, Constructed, ListRepresentsChain
  <2>3. \A v \in URI : map'[v] = map[v] \/ (map'[v] = NULL /\ map[v] = Absent)
    BY <1>b, <1>c
  <2> QED
    BY <2>1, <2>2, <2>3 DEF MapAgrees
<1>10. PointersLeadToTheirURI'
  BY <1>a, <1>b, <1>c DEF Inductive, TypeOK, PointersLeadToTheirURI
<1> QED
  BY <1>1, <1>2, <1>3, <1>4, <1>5, <1>6, <1>7, <1>8, <1>9, <1>10 DEF Inductive

(* isFresh copies the response.                                            *)
LEMMA CopyFoundInductive ==
  ASSUME Inductive, NEW t \in Thread, NEW r, CopyFound(t, r)
  PROVE  Inductive'
<1> USE DEF CopyFound, Copies, Goto, At, listVars, heapVars, mapVars, callVars, readerVars
<1>1. TypeOK'
  BY DEF Inductive, TypeOK
<1>2. LockDiscipline'
  BY DEF Inductive, TypeOK, LockDiscipline
<1>3. Constructed'
  BY DEF Inductive, TypeOK, Constructed
<1>4. LocalsSet'
  BY DEF Inductive, TypeOK, LocalsSet
<1>5. ListRepresentsChain'
  BY DEF Inductive, TypeOK, ListRepresentsChain
<1>6. NoDuplicateURI'
  BY DEF Inductive, NoDuplicateURI
<1>7. ASSUME NEW s \in Thread PROVE Scanned(s)'
  BY DEF Inductive, TypeOK, Scanned, NotListed
<1>8. WithinCapacity'
  BY DEF Inductive, TypeOK, WithinCapacity
<1>9. MapAgrees'
  BY DEF Inductive, TypeOK, MapAgrees
<1>10. PointersLeadToTheirURI'
  BY DEF Inductive, TypeOK, PointersLeadToTheirURI
<1> QED
  BY <1>1, <1>2, <1>3, <1>4, <1>5, <1>6, <1>7, <1>8, <1>9, <1>10 DEF Inductive

(* The handler copies the response.                                        *)
LEMMA CopyNodeInductive ==
  ASSUME Inductive, NEW t \in Thread, NEW r, CopyNode(t, r)
  PROVE  Inductive'
<1> USE DEF CopyNode, Copies, Goto, At, listVars, heapVars, mapVars, callVars, readerVars
<1>1. TypeOK'
  BY DEF Inductive, TypeOK
<1>2. LockDiscipline'
  BY DEF Inductive, TypeOK, LockDiscipline
<1>3. Constructed'
  BY DEF Inductive, TypeOK, Constructed
<1>4. LocalsSet'
  BY DEF Inductive, TypeOK, LocalsSet
<1>5. ListRepresentsChain'
  BY DEF Inductive, TypeOK, ListRepresentsChain
<1>6. NoDuplicateURI'
  BY DEF Inductive, NoDuplicateURI
<1>7. ASSUME NEW s \in Thread PROVE Scanned(s)'
  BY DEF Inductive, TypeOK, Scanned, NotListed
<1>8. WithinCapacity'
  BY DEF Inductive, TypeOK, WithinCapacity
<1>9. MapAgrees'
  BY DEF Inductive, TypeOK, MapAgrees
<1>10. PointersLeadToTheirURI'
  BY DEF Inductive, TypeOK, PointersLeadToTheirURI
<1> QED
  BY <1>1, <1>2, <1>3, <1>4, <1>5, <1>6, <1>7, <1>8, <1>9, <1>10 DEF Inductive

(* putResponse is called.                                                  *)
LEMMA CallPutInductive ==
  ASSUME Inductive, NEW t \in Thread, NEW c \in Content, CallPut(t, c)
  PROVE  Inductive'
<1> USE DEF CallPut, Goto, At, listVars, heapVars, mapVars, callVars, readerVars
<1>1. TypeOK'
  BY DEF Inductive, TypeOK
<1>2. LockDiscipline'
  BY DEF Inductive, TypeOK, LockDiscipline
<1>3. Constructed'
  BY DEF Inductive, TypeOK, Constructed
<1>4. LocalsSet'
  BY DEF Inductive, TypeOK, LocalsSet
<1>5. ListRepresentsChain'
  BY DEF Inductive, TypeOK, ListRepresentsChain
<1>6. NoDuplicateURI'
  BY DEF Inductive, NoDuplicateURI
<1>7. ASSUME NEW s \in Thread PROVE Scanned(s)'
  BY DEF Inductive, TypeOK, Scanned, NotListed
<1>8. WithinCapacity'
  BY DEF Inductive, TypeOK, WithinCapacity
<1>9. MapAgrees'
  BY DEF Inductive, TypeOK, MapAgrees
<1>10. PointersLeadToTheirURI'
  BY DEF Inductive, TypeOK, PointersLeadToTheirURI
<1> QED
  BY <1>1, <1>2, <1>3, <1>4, <1>5, <1>6, <1>7, <1>8, <1>9, <1>10 DEF Inductive

(* m.lock(); pointer = head.                                               *)
LEMMA LockInductive ==
  ASSUME Inductive, NEW t \in Thread, Lock(t)
  PROVE  Inductive'
<1> USE DEF Lock, Goto, At, listVars, heapVars, mapVars, callVars, readerVars
<1>1. TypeOK'
  BY DEF Inductive, TypeOK
<1>2. LockDiscipline'
  BY DEF Inductive, TypeOK, LockDiscipline
<1>3. Constructed'
  BY DEF Inductive, TypeOK, Constructed
<1>4. LocalsSet'
  BY DEF Inductive, TypeOK, LocalsSet
<1>5. ListRepresentsChain'
  BY DEF Inductive, TypeOK, ListRepresentsChain
<1>6. NoDuplicateURI'
  BY DEF Inductive, NoDuplicateURI
<1>7. ASSUME NEW s \in Thread PROVE Scanned(s)'
  <2>1. s # t => pc'[s] = pc[s] /\ cursor'[s] = cursor[s]
    BY DEF Inductive, TypeOK
  <2>2. pc'[t] = "scan" /\ cursor'[t] = head
    BY DEF Inductive, TypeOK
  <2>3. chain \in Seq(Address)
    BY DEF Inductive, TypeOK
  <2>4. CASE Len(chain) = 0
    BY <2>1, <2>2, <2>3, <2>4 DEF Inductive, Scanned, NotListed, ListRepresentsChain
  <2>5. CASE Len(chain) > 0
    <3>1. head = chain[1] /\ 1 \in DOMAIN chain /\ head \in Address
      BY <2>3, <2>5 DEF Inductive, ListRepresentsChain
    <3> QED
      BY <2>1, <2>2, <3>1 DEF Inductive, Scanned, NotListed
  <2> QED
    BY <2>3, <2>4, <2>5
<1>8. WithinCapacity'
  BY DEF Inductive, TypeOK, WithinCapacity
<1>9. MapAgrees'
  BY DEF Inductive, TypeOK, MapAgrees
<1>10. PointersLeadToTheirURI'
  BY DEF Inductive, TypeOK, PointersLeadToTheirURI
<1> QED
  BY <1>1, <1>2, <1>3, <1>4, <1>5, <1>6, <1>7, <1>8, <1>9, <1>10 DEF Inductive

(* One evaluation of the loop condition and of the comparison.             *)
LEMMA ScanInductive ==
  ASSUME Inductive, NEW t \in Thread, Scan(t)
  PROVE  Inductive'
<1> USE DEF Scan, Goto, At, listVars, heapVars, mapVars, callVars, readerVars
<1>1. TypeOK'
  BY DEF Inductive, TypeOK
<1>2. LockDiscipline'
  BY DEF Inductive, TypeOK, LockDiscipline
<1>3. Constructed'
  BY DEF Inductive, TypeOK, Constructed
<1>4. LocalsSet'
  BY DEF Inductive, TypeOK, LocalsSet
<1>5. ListRepresentsChain'
  BY DEF Inductive, TypeOK, ListRepresentsChain
<1>6. NoDuplicateURI'
  BY DEF Inductive, NoDuplicateURI
<1>7. ASSUME NEW s \in Thread PROVE Scanned(s)'
  <2>1. s # t => pc'[s] = pc[s] /\ cursor'[s] = cursor[s]
    BY DEF Inductive, TypeOK
  <2>2. chain \in Seq(Address)
    BY DEF Inductive, TypeOK
  <2>3. CASE s # t
    BY <2>1, <2>3 DEF Inductive, Scanned, NotListed
  <2>4. CASE s = t /\ cursor[t] \notin Address
    BY <2>4 DEF Inductive, TypeOK, Scanned, NotListed
  <2>5. CASE s = t /\ cursor[t] \in Address
    <3>1. PICK i \in DOMAIN chain : cursor[t] = chain[i] /\ \A j \in 1 .. i - 1 : uri[chain[j]] # request[t]
      BY <2>5 DEF Inductive, Scanned
    <3>2. CASE uri[cursor[t]] = request[t]
      BY <2>5, <3>1, <3>2 DEF Inductive, TypeOK, Scanned, NotListed
    <3>3. CASE uri[cursor[t]] # request[t]
      <4>1. pc'[t] = "scan" /\ cursor'[t] = next[cursor[t]]
        BY <2>5, <3>3 DEF Inductive, TypeOK
      <4>2. \A j \in 1 .. i : uri[chain[j]] # request[t]
        BY <2>2, <3>1, <3>3
      <4>3. CASE i = Len(chain)
        <5>1. next[chain[i]] = NULL
          BY <2>2, <3>1, <4>3 DEF Inductive, ListRepresentsChain
        <5> QED
          BY <2>2, <2>5, <3>1, <4>1, <4>2, <4>3, <5>1 DEF Inductive, TypeOK, Scanned, NotListed
      <4>4. CASE i < Len(chain)
        <5>1. next[chain[i]] = chain[i + 1] /\ i + 1 \in DOMAIN chain /\ chain[i + 1] \in Address
          BY <2>2, <3>1, <4>4 DEF Inductive, ListRepresentsChain
        <5>2. \A j \in 1 .. (i + 1) - 1 : uri[chain[j]] # request[t]
          BY <4>2, <2>2, <3>1
        <5> QED
          BY <2>5, <3>1, <4>1, <5>1, <5>2 DEF Scanned
      <4> QED
        BY <2>2, <3>1, <4>3, <4>4
    <3> QED
      BY <3>2, <3>3
  <2> QED
    BY <2>3, <2>4, <2>5
<1>8. WithinCapacity'
  BY DEF Inductive, TypeOK, WithinCapacity
<1>9. MapAgrees'
  BY DEF Inductive, TypeOK, MapAgrees
<1>10. PointersLeadToTheirURI'
  BY DEF Inductive, TypeOK, PointersLeadToTheirURI
<1> QED
  BY <1>1, <1>2, <1>3, <1>4, <1>5, <1>6, <1>7, <1>8, <1>9, <1>10 DEF Inductive

(* An update in place.                                                     *)
LEMMA UpdateInductive ==
  ASSUME Inductive, NEW t \in Thread, Update(t)
  PROVE  Inductive'
<1> USE DEF Update, Goto, At, listVars, heapVars, mapVars, callVars, readerVars
<1>a. cursor[t] \in allocated /\ cursor[t] \in Address
  BY DEF Inductive, TypeOK, Scanned, ListRepresentsChain
<1>b. [content |-> arg[t], timed |-> FALSE] \in Response
  BY DEF Inductive, LocalsSet, Response
<1>1. TypeOK'
  BY <1>a, <1>b DEF Inductive, TypeOK
<1>2. LockDiscipline'
  BY DEF Inductive, TypeOK, LockDiscipline
<1>3. Constructed'
  BY <1>a, <1>b DEF Inductive, TypeOK, Constructed
<1>4. LocalsSet'
  BY DEF Inductive, TypeOK, LocalsSet
<1>5. ListRepresentsChain'
  BY DEF Inductive, TypeOK, ListRepresentsChain
<1>6. NoDuplicateURI'
  BY DEF Inductive, NoDuplicateURI
<1>7. ASSUME NEW s \in Thread PROVE Scanned(s)'
  <2>1. pc'[t] = "unlock"
    BY DEF Inductive, TypeOK
  <2>2. s # t => pc'[s] = pc[s] /\ pc[s] \notin CriticalSteps
    BY DEF Inductive, TypeOK, LockDiscipline
  <2> QED
    BY <2>1, <2>2 DEF Scanned
<1>8. WithinCapacity'
  BY DEF Inductive, TypeOK, WithinCapacity
<1>9. MapAgrees'
  BY DEF Inductive, TypeOK, MapAgrees
<1>10. PointersLeadToTheirURI'
  BY DEF Inductive, TypeOK, PointersLeadToTheirURI
<1> QED
  BY <1>1, <1>2, <1>3, <1>4, <1>5, <1>6, <1>7, <1>8, <1>9, <1>10 DEF Inductive

(* A new node behind the last one.                                         *)
LEMMA LinkInductive ==
  ASSUME Inductive, NEW t \in Thread, Link(t)
  PROVE  Inductive'
<1> USE DEF Goto, At, listVars, heapVars, mapVars, callVars, readerVars
<1>n. \A s \in Thread \ {t} : pc[s] \notin CriticalSteps
  BY DEF Inductive, LockDiscipline, Link
<1>a. PICK a \in Address \ allocated :
        /\ allocated' = allocated \cup {a}
        /\ uri' = [uri EXCEPT ![a] = request[t]]
        /\ response' = [response EXCEPT ![a] = [content |-> arg[t], timed |-> FALSE]]
        /\ cursor' = [cursor EXCEPT ![t] = a]
        /\ tail' = a
        /\ chain' = Append(chain, a)
        /\ \/ /\ size = 0
              /\ head' = a
              /\ UNCHANGED <<prev, next>>
           \/ /\ size # 0
              /\ next' = [next EXCEPT ![tail] = a]
              /\ prev' = [prev EXCEPT ![a] = tail]
              /\ UNCHANGED head
  BY DEF Link
<1>b. /\ pc[t] = "link"
      /\ pc' = [pc EXCEPT ![t] = "index"]
      /\ pc'[t] = "index"
      /\ \A s \in Thread \ {t} : pc'[s] = pc[s]
      /\ UNCHANGED <<size, map, raced, lock, status, request, arg, node, found>>
  BY DEF Link, Inductive, TypeOK
<1> DEFINE n == Len(chain)
<1>c. /\ n \in Nat
      /\ DOMAIN chain = 1 .. n
      /\ \A i \in 1 .. n : chain[i] \in allocated /\ chain[i] \in Address /\ chain[i] # a
  BY <1>a DEF Inductive, TypeOK, ListRepresentsChain
<1>d. /\ chain' \in Seq(Address)
      /\ Len(chain') = n + 1
      /\ DOMAIN chain' = 1 .. n + 1
      /\ \A i \in 1 .. n : chain'[i] = chain[i]
      /\ chain'[n + 1] = a
  BY <1>a, <1>c DEF Inductive, TypeOK
<1>e. /\ size = n
      /\ n > 0 => /\ head = chain[1] /\ tail = chain[n] /\ next[tail] = NULL
                  /\ prev[head] = NULL
      /\ \A i, j \in 1 .. n : chain[i] = chain[j] => i = j
      /\ \A i \in 1 .. n - 1 : next[chain[i]] = chain[i + 1] /\ prev[chain[i + 1]] = chain[i]
  BY <1>n, <1>b DEF Inductive, ListRepresentsChain
<1>f. next[a] = NULL /\ prev[a] = NULL
  BY <1>a DEF Inductive, Constructed
<1>g. request[t] \in URI /\ arg[t] \in Content
  BY <1>b DEF Inductive, LocalsSet
<1>h. NotListed(request[t])
  BY <1>b DEF Inductive, Scanned
<1>1. TypeOK'
  <2>1. head' \in Pointer \cup {Wild} /\ prev' \in [Address -> Pointer] /\ next' \in [Address -> Pointer]
    <3>1. CASE size = 0
      BY <1>a, <3>1 DEF Inductive, TypeOK
    <3>2. CASE size # 0
      <4>1. tail \in Address
        BY <1>c, <1>e, <3>2
      <4>2. head \in Pointer \cup {Wild} /\ prev \in [Address -> Pointer] /\ next \in [Address -> Pointer]
        BY DEF Inductive, TypeOK
      <4> QED
        BY <1>a, <3>2, <4>1, <4>2
    <3> QED
      BY <3>1, <3>2
  <2>2. uri' \in [Address -> URI \cup {NULL}] /\ response' \in [Address -> Response \cup {NULL}]
    BY <1>a, <1>g DEF Inductive, TypeOK, Response
  <2> QED
    BY <1>a, <1>b, <1>d, <2>1, <2>2 DEF Inductive, TypeOK
<1>2. LockDiscipline'
  BY <1>n, <1>b DEF Inductive, LockDiscipline
<1>3. Constructed'
  <2>1. \A b \in allocated' : uri'[b] \in URI /\ response'[b] \in Response
    BY <1>a, <1>g DEF Inductive, TypeOK, Constructed, Response
  <2>2. \A b \in Address \ allocated' : next'[b] = NULL /\ prev'[b] = NULL
    BY <1>a, <1>c, <1>e DEF Inductive, TypeOK, Constructed
  <2> QED
    BY <2>1, <2>2 DEF Constructed
<1>4. LocalsSet'
  BY <1>b DEF Inductive, LocalsSet
<1>5. ListRepresentsChain'
  <2>1. \A i, j \in 1 .. n + 1 : chain'[i] = chain'[j] => i = j
    BY <1>c, <1>d, <1>e
  <2>2. \A i \in 1 .. n + 1 : chain'[i] \in allocated'
    BY <1>a, <1>c, <1>d
  <2>3. size' = IF \E s \in Thread : pc'[s] = "index" THEN (n + 1) - 1 ELSE n + 1
    BY <1>b, <1>c, <1>e
  <2>4. head' = chain'[1] /\ tail' = chain'[n + 1]
    BY <1>a, <1>c, <1>d, <1>e
  <2>5. next'[tail'] = NULL /\ prev'[head'] = NULL
    BY <1>a, <1>c, <1>d, <1>e, <1>f DEF Inductive, TypeOK
  <2>6. ASSUME NEW i \in 1 .. n
        PROVE  next'[chain'[i]] = chain'[i + 1] /\ prev'[chain'[i + 1]] = chain'[i]
    <3>1. /\ next' = [next EXCEPT ![tail] = a]
          /\ prev' = [prev EXCEPT ![a] = tail]
          /\ tail = chain[n]
          /\ next \in [Address -> Pointer] /\ prev \in [Address -> Pointer]
      BY <1>a, <1>c, <1>e DEF Inductive, TypeOK
    <3>2. CASE i = n
      BY <1>a, <1>c, <1>d, <3>1, <3>2
    <3>3. CASE i < n
      <4>1. chain'[i] = chain[i] /\ chain'[i + 1] = chain[i + 1] /\ i + 1 \in 1 .. n
        BY <1>c, <1>d, <3>3
      <4>2. next[chain[i]] = chain[i + 1] /\ prev[chain[i + 1]] = chain[i]
        BY <1>c, <1>e, <3>3
      <4>3. chain[i] # tail /\ chain[i] \in Address /\ chain[i + 1] \in Address /\ chain[i + 1] # a
        BY <1>c, <1>e, <3>1, <3>3, <4>1
      <4> QED
        BY <3>1, <4>1, <4>2, <4>3
    <3> QED
      BY <1>c, <3>2, <3>3
  <2> QED
    BY <1>c, <1>d, <2>1, <2>2, <2>3, <2>4, <2>5, <2>6 DEF ListRepresentsChain
<1>6. NoDuplicateURI'
  <2>1. \A i \in 1 .. n : uri'[chain'[i]] = uri[chain[i]] /\ uri[chain[i]] # request[t]
    BY <1>a, <1>c, <1>d, <1>h DEF NotListed, Inductive, TypeOK
  <2>2. uri'[chain'[n + 1]] = request[t]
    BY <1>a, <1>d DEF Inductive, TypeOK
  <2> QED
    BY <1>c, <1>d, <2>1, <2>2 DEF Inductive, NoDuplicateURI
<1>7. ASSUME NEW s \in Thread PROVE Scanned(s)'
  <2>1. CASE s # t
    BY <1>n, <1>b, <2>1 DEF Scanned
  <2>2. CASE s = t
    <3>1. cursor'[t] = a /\ uri'[a] = request[t] /\ request' = request
      BY <1>a, <1>b DEF Inductive, TypeOK
    <3>2. chain' # << >> /\ cursor'[t] = chain'[Len(chain')]
      BY <1>c, <1>d, <3>1
    <3>3. response'[a].content = arg'[t]
      BY <1>a, <1>b DEF Inductive, TypeOK
    <3> QED
      BY <1>b, <2>2, <3>1, <3>2, <3>3 DEF Scanned
  <2> QED
    BY <2>1, <2>2
<1>8. WithinCapacity'
  BY <1>n, <1>b, <1>c, <1>d DEF Inductive, WithinCapacity
<1>9. MapAgrees'
  <2> SUFFICES ASSUME ~raced' PROVE MapAgrees'
    BY DEF MapAgrees
  <2>1. /\ \A u \in URI : map[u] \in Address => \E i \in 1 .. n : chain[i] = map[u]
        /\ \A i \in 1 .. n : map[uri[chain[i]]] = chain[i]
    BY <1>n, <1>b, <1>c DEF Inductive, MapAgrees
  <2>2. \A i \in 1 .. n : map'[uri'[chain'[i]]] = chain'[i]
    BY <1>a, <1>b, <1>c, <1>d, <2>1 DEF Inductive, TypeOK
  <2>3. \A u \in URI : map'[u] \in Address => \E i \in 1 .. n : chain'[i] = map'[u]
    BY <1>b, <1>d, <2>1
  <2> QED
    BY <1>b, <1>c, <1>d, <2>2, <2>3 DEF MapAgrees
<1>10. PointersLeadToTheirURI'
  BY <1>a, <1>b DEF Inductive, TypeOK, PointersLeadToTheirURI
<1> QED
  BY <1>1, <1>2, <1>3, <1>4, <1>5, <1>6, <1>7, <1>8, <1>9, <1>10 DEF Inductive

(* The new node enters the map, and size counts it.                        *)
LEMMA IndexInductive ==
  ASSUME Inductive, NEW t \in Thread, Index(t)
  PROVE  Inductive'
<1> USE DEF Goto, At, listVars, heapVars, mapVars, callVars, readerVars
<1> DEFINE n == Len(chain)
           m == [map EXCEPT ![request[t]] = cursor[t]]
<1>n. \A s \in Thread \ {t} : pc[s] \notin CriticalSteps
  BY DEF Inductive, LockDiscipline, Index
<1>a. /\ pc[t] = "index"
      /\ pc'[t] = IF size + 1 > Capacity THEN "evict" ELSE "unlock"
      /\ \A s \in Thread \ {t} : pc'[s] = pc[s]
      /\ pc' \in [Thread -> ReaderSteps \cup PutSteps]
      /\ WriteMap(t, m)
      /\ size' = size + 1
      /\ UNCHANGED <<head, tail, chain, heapVars, lock, status, callVars, cursor, readerVars>>
  BY DEF Index, Inductive, TypeOK
<1>b. /\ chain \in Seq(Address) /\ n \in Nat /\ n > 0 /\ DOMAIN chain = 1 .. n
      /\ cursor[t] = chain[n] /\ cursor[t] \in allocated /\ cursor[t] \in Address
      /\ uri[cursor[t]] = request[t]
      /\ request[t] \in URI
      /\ size = n - 1
      /\ n <= Capacity + 1
  <2>1. chain \in Seq(Address) /\ chain # << >>
    BY <1>a DEF Inductive, TypeOK, Scanned
  <2>2. n \in Nat /\ n > 0 /\ DOMAIN chain = 1 .. n
    BY <2>1
  <2>3. cursor[t] = chain[n] /\ uri[cursor[t]] = request[t]
    BY <1>a DEF Inductive, Scanned
  <2>4. chain[n] \in allocated /\ chain[n] \in Address
    <3>1. n \in 1 .. n
      BY <2>2
    <3>2. \A i \in 1 .. n : chain[i] \in allocated
      BY DEF Inductive, ListRepresentsChain
    <3> QED
      BY <2>1, <3>1, <3>2
  <2>5. size = n - 1
    BY <1>a DEF Inductive, ListRepresentsChain
  <2>6. request[t] \in URI /\ n <= Capacity + 1
    BY <1>a DEF Inductive, LocalsSet, WithinCapacity
  <2> QED
    BY <2>1, <2>2, <2>3, <2>4, <2>5, <2>6
<1>c. TypeOK /\ m \in [URI -> Pointer \cup {Absent}]
  BY <1>b DEF Inductive, TypeOK
<1>d. /\ map' \in [URI -> Pointer \cup {Absent}]
      /\ raced' \in BOOLEAN
      /\ \A u \in URI : map'[u] \in {m[u], map[u], Absent}
      /\ ~raced' => ~raced /\ map' = m
  BY <1>a, <1>c, WriteMapEffect
<1>e. \A u \in URI : m[u] = IF u = request[t] THEN cursor[t] ELSE map[u]
  BY <1>c DEF TypeOK
<1> HIDE DEF m
<1>1. TypeOK'
  BY <1>a, <1>b, <1>d DEF Inductive, TypeOK
<1>2. LockDiscipline'
  BY <1>n, <1>a DEF Inductive, LockDiscipline
<1>3. Constructed'
  BY <1>a DEF Inductive, Constructed
<1>4. LocalsSet'
  BY <1>a DEF Inductive, LocalsSet
<1>5. ListRepresentsChain'
  <2>1. \A s \in Thread : pc'[s] # "index"
    BY <1>n, <1>a
  <2>2. size' = n /\ n > 0
    <3>1. size' = size + 1 /\ size = n - 1 /\ n \in Nat /\ n > 0
      BY <1>a, <1>b
    <3> QED
      BY <3>1
  <2>3. UNCHANGED <<head, tail, chain, allocated, prev, next>>
    BY <1>a DEF heapVars
  <2> QED
    BY <2>1, <2>2, <2>3 DEF Inductive, ListRepresentsChain
<1>6. NoDuplicateURI'
  BY <1>a DEF Inductive, NoDuplicateURI
<1>7. ASSUME NEW s \in Thread PROVE Scanned(s)'
  <2>1. CASE s # t
    BY <1>n, <1>a, <2>1 DEF Scanned
  <2>2. CASE s = t
    <3>1. pc'[t] = "evict" => Len(chain) = Capacity + 1
      BY <1>a, <1>b
    <3>2. /\ chain # << >> /\ cursor[t] = chain[Len(chain)]
          /\ uri[cursor[t]] = request[t] /\ response[cursor[t]].content = arg[t]
      BY <1>a DEF Inductive, Scanned
    <3>3. UNCHANGED <<chain, cursor, uri, request, response, arg>>
      BY <1>a DEF heapVars, callVars
    <3> QED
      BY <1>a, <2>2, <3>1, <3>2, <3>3 DEF Scanned
  <2> QED
    BY <2>1, <2>2
<1>8. WithinCapacity'
  <2>1. pc'[t] # "evict" => n <= Capacity
    BY <1>a, <1>b
  <2> QED
    BY <1>a, <1>b, <2>1 DEF WithinCapacity
<1>9. MapAgrees'
  <2> SUFFICES ASSUME ~raced' PROVE MapAgrees'
    BY DEF MapAgrees
  <2>1. /\ \A u \in URI : map[u] \in Address => \E i \in 1 .. n : chain[i] = map[u]
        /\ \A i \in 1 .. n - 1 : map[uri[chain[i]]] = chain[i]
    BY <1>b, <1>d DEF Inductive, MapAgrees
  <2>2. ASSUME NEW i \in 1 .. n - 1 PROVE uri[chain[i]] \in URI /\ uri[chain[i]] # request[t]
    <3>1. i \in 1 .. n /\ n \in 1 .. n /\ i # n
      <4>1. n \in Nat /\ n > 0
        BY <1>b
      <4> QED
        BY <4>1
    <3>2. uri[chain[i]] # uri[chain[n]]
      BY <1>b, <3>1 DEF Inductive, NoDuplicateURI
    <3>3. chain[i] \in allocated
      BY <3>1 DEF Inductive, ListRepresentsChain
    <3> QED
      BY <1>b, <3>2, <3>3 DEF Inductive, Constructed
  <2>3. \A i \in 1 .. n : map'[uri[chain[i]]] = chain[i]
    BY <1>b, <1>d, <1>e, <2>1, <2>2
  <2>4. \A u \in URI : map'[u] \in Address => \E i \in 1 .. n : chain[i] = map'[u]
    BY <1>b, <1>d, <1>e, <2>1
  <2> QED
    BY <1>a, <1>b, <2>3, <2>4 DEF MapAgrees
<1>10. PointersLeadToTheirURI'
  <2>1. ASSUME NEW u \in URI, map'[u] \in Address
        PROVE  map'[u] \in allocated /\ uri[map'[u]] = u
    <3>1. map'[u] = map[u] \/ (u = request[t] /\ map'[u] = cursor[t])
      BY <1>d, <1>e, <2>1
    <3> QED
      BY <1>b, <2>1, <3>1 DEF Inductive, PointersLeadToTheirURI
  <2>2. ASSUME NEW s \in Thread PROVE pc'[s] = "judge" => pc[s] = "judge"
    BY <1>a
  <2> QED
    BY <1>a, <2>1, <2>2 DEF Inductive, PointersLeadToTheirURI, heapVars, callVars, readerVars
<1> QED
  BY <1>1, <1>2, <1>3, <1>4, <1>5, <1>6, <1>7, <1>8, <1>9, <1>10 DEF Inductive

(* The first node leaves the list and the map.                             *)
LEMMA EvictInductive ==
  ASSUME Inductive, NEW t \in Thread, Evict(t)
  PROVE  Inductive'
<1> USE DEF Goto, At, listVars, heapVars, mapVars, callVars, readerVars
<1> DEFINE n == Len(chain)
           m == [map EXCEPT ![uri[head]] = NULL]
<1>n. \A s \in Thread \ {t} : pc[s] \notin CriticalSteps
  BY DEF Inductive, LockDiscipline, Evict
<1>a. /\ pc[t] = "evict"
      /\ pc'[t] = "unlock"
      /\ \A s \in Thread \ {t} : pc'[s] = pc[s]
      /\ pc' \in [Thread -> ReaderSteps \cup PutSteps]
      /\ WriteMap(t, m)
      /\ head' = next[head]
      /\ \/ next[head] = NULL /\ tail' = NULL /\ UNCHANGED prev
         \/ /\ next[head] # NULL
            /\ prev' = [prev EXCEPT ![next[head]] = NULL]
            /\ UNCHANGED tail
      /\ size' = size - 1
      /\ chain' = Tail(chain)
      /\ UNCHANGED <<allocated, uri, response, next, lock, status, callVars, cursor, readerVars>>
  <2>1. prev \in [Address -> Pointer]
    BY DEF Inductive, TypeOK
  <2>2. /\ prev' = [a \in Address |-> IF a = next[head] THEN NULL ELSE prev[a]]
        /\ tail' = IF next[head] = NULL THEN NULL ELSE tail
    BY DEF Evict
  <2>3. CASE next[head] = NULL
    <3>1. prev' = prev
      BY <2>1, <2>2, <2>3, CacheAssumption
    <3> QED
      BY <2>2, <2>3, <3>1 DEF Evict, Inductive, TypeOK
  <2>4. CASE next[head] # NULL
    <3>1. prev' = [prev EXCEPT ![next[head]] = NULL]
      BY <2>1, <2>2
    <3> QED
      BY <2>2, <2>4, <3>1 DEF Evict, Inductive, TypeOK
  <2> QED
    BY <2>3, <2>4
<1>b. /\ chain \in Seq(Address) /\ n = Capacity + 1 /\ n \in Nat /\ n > 0
      /\ DOMAIN chain = 1 .. n
      /\ size = n
      /\ head = chain[1] /\ tail = chain[n] /\ next[tail] = NULL
      /\ \A i, j \in 1 .. n : chain[i] = chain[j] => i = j
      /\ \A i \in 1 .. n : chain[i] \in allocated /\ chain[i] \in Address /\ uri[chain[i]] \in URI
      /\ \A i \in 1 .. n - 1 : next[chain[i]] = chain[i + 1] /\ prev[chain[i + 1]] = chain[i]
  <2>1. chain \in Seq(Address) /\ n = Capacity + 1
    BY <1>a DEF Inductive, TypeOK, Scanned
  <2> QED
    BY <1>n, <1>a, <2>1 DEF Inductive, TypeOK, ListRepresentsChain, Constructed
<1>c. TypeOK /\ m \in [URI -> Pointer \cup {Absent}]
  BY <1>b DEF Inductive, TypeOK
<1>d. /\ map' \in [URI -> Pointer \cup {Absent}]
      /\ raced' \in BOOLEAN
      /\ \A u \in URI : map'[u] \in {m[u], map[u], Absent}
      /\ ~raced' => ~raced /\ map' = m
  BY <1>a, <1>c, WriteMapEffect
<1>e. \A u \in URI : m[u] = IF u = uri[head] THEN NULL ELSE map[u]
  BY <1>c DEF TypeOK
<1>f. /\ chain' \in Seq(Address)
      /\ Len(chain') = n - 1
      /\ DOMAIN chain' = 1 .. n - 1
      /\ \A i \in 1 .. n - 1 : chain'[i] = chain[i + 1]
  BY <1>a, <1>b
<1> HIDE DEF m
<1>1. TypeOK'
  <2>1. head' \in Pointer /\ tail' \in Pointer \cup {Wild} /\ prev' \in [Address -> Pointer]
    BY <1>a, <1>b DEF Inductive, TypeOK
  <2> QED
    BY <1>a, <1>b, <1>d, <1>f, <2>1 DEF Inductive, TypeOK
<1>2. LockDiscipline'
  BY <1>n, <1>a DEF Inductive, LockDiscipline
<1>3. Constructed'
  BY <1>a DEF Inductive, TypeOK, Constructed
<1>4. LocalsSet'
  BY <1>a DEF Inductive, LocalsSet
<1>5. ListRepresentsChain'
  <2>1. \A s \in Thread : pc'[s] # "index"
    BY <1>n, <1>a
  <2>2. ASSUME NEW i \in 1 .. n - 1, NEW j \in 1 .. n - 1, chain'[i] = chain'[j] PROVE i = j
    <3>1. i + 1 \in 1 .. n /\ j + 1 \in 1 .. n /\ chain[i + 1] = chain[j + 1]
      BY <1>b, <1>f, <2>2
    <3>2. i + 1 = j + 1
      BY <1>b, <3>1
    <3> QED
      BY <3>2
  <2>3. \A i \in 1 .. n - 1 : chain'[i] \in allocated'
    BY <1>a, <1>b, <1>f
  <2>4. CASE n = 1
    BY <1>a, <1>b, <1>f, <2>1, <2>2, <2>3, <2>4 DEF ListRepresentsChain
  <2>5. CASE n > 1
    <3>1. /\ next[head] = chain[2] /\ chain[2] \in Address
          /\ prev' = [prev EXCEPT ![chain[2]] = NULL]
          /\ prev \in [Address -> Pointer]
          /\ UNCHANGED <<tail, next>>
      BY <1>a, <1>b, <2>5 DEF Inductive, TypeOK
    <3>2. head' = chain'[1] /\ tail' = chain'[n - 1] /\ next'[tail'] = NULL /\ prev'[head'] = NULL
      BY <1>a, <1>b, <1>f, <2>5, <3>1
    <3>3. ASSUME NEW i \in 1 .. (n - 1) - 1
          PROVE  next'[chain'[i]] = chain'[i + 1] /\ prev'[chain'[i + 1]] = chain'[i]
      <4>1. chain'[i] = chain[i + 1] /\ chain'[i + 1] = chain[i + 2]
        BY <1>b, <1>f
      <4>2. next[chain[i + 1]] = chain[i + 2] /\ prev[chain[i + 2]] = chain[i + 1]
        BY <1>b
      <4>3. chain[i + 2] # chain[2] /\ chain[i + 2] \in Address
        BY <1>b, <2>5
      <4> QED
        BY <3>1, <4>1, <4>2, <4>3
    <3> QED
      BY <1>a, <1>b, <1>f, <2>1, <2>2, <2>3, <2>5, <3>2, <3>3 DEF ListRepresentsChain
  <2> QED
    BY <1>b, <2>4, <2>5
<1>6. NoDuplicateURI'
  <2> SUFFICES ASSUME NEW i \in 1 .. n - 1, NEW j \in 1 .. n - 1, uri[chain'[i]] = uri[chain'[j]]
               PROVE  i = j
    BY <1>a, <1>f DEF NoDuplicateURI
  <2>1. i + 1 \in 1 .. n /\ j + 1 \in 1 .. n /\ uri[chain[i + 1]] = uri[chain[j + 1]]
    BY <1>b, <1>f
  <2>2. i + 1 = j + 1
    BY <1>b, <2>1 DEF Inductive, NoDuplicateURI
  <2> QED
    BY <2>2
<1>7. ASSUME NEW s \in Thread PROVE Scanned(s)'
  BY <1>n, <1>a DEF Scanned
<1>8. WithinCapacity'
  BY <1>b, <1>f DEF WithinCapacity
<1>9. MapAgrees'
  <2> SUFFICES ASSUME ~raced' PROVE MapAgrees'
    BY DEF MapAgrees
  <2>1. /\ \A u \in URI : map[u] \in Address => \E i \in 1 .. n : chain[i] = map[u]
        /\ \A i \in 1 .. n : map[uri[chain[i]]] = chain[i]
    BY <1>n, <1>a, <1>b, <1>d DEF Inductive, MapAgrees
  <2>2. \A i \in 1 .. n - 1 : uri[chain[i + 1]] # uri[head]
    BY <1>b DEF Inductive, NoDuplicateURI
  <2>3. \A i \in 1 .. n - 1 : map'[uri[chain'[i]]] = chain'[i]
    BY <1>b, <1>d, <1>e, <1>f, <2>1, <2>2
  <2>4. ASSUME NEW u \in URI, map'[u] \in Address
        PROVE  \E i \in 1 .. n - 1 : chain'[i] = map'[u]
    <3>1. map'[u] = map[u] /\ u # uri[head]
      BY <1>d, <1>e, <2>4
    <3>2. PICK i \in 1 .. n : chain[i] = map[u]
      BY <2>1, <2>4, <3>1
    <3>3. uri[map[u]] = u
      BY <2>4, <3>1 DEF Inductive, PointersLeadToTheirURI
    <3>4. i # 1
      BY <1>b, <3>1, <3>2, <3>3
    <3>5. i - 1 \in 1 .. n - 1 /\ chain'[i - 1] = chain[i]
      BY <1>b, <1>f, <3>2, <3>4
    <3> QED
      BY <3>1, <3>2, <3>5
  <2> QED
    BY <1>a, <1>f, <2>3, <2>4 DEF MapAgrees
<1>10. PointersLeadToTheirURI'
  BY <1>a, <1>d, <1>e DEF Inductive, TypeOK, PointersLeadToTheirURI
<1> QED
  BY <1>1, <1>2, <1>3, <1>4, <1>5, <1>6, <1>7, <1>8, <1>9, <1>10 DEF Inductive

(* m.unlock().                                                             *)
LEMMA UnlockInductive ==
  ASSUME Inductive, NEW t \in Thread, Unlock(t)
  PROVE  Inductive'
<1> USE DEF Unlock, Goto, At, listVars, heapVars, mapVars, callVars, readerVars
<1>1. TypeOK'
  BY DEF Inductive, TypeOK
<1>2. LockDiscipline'
  BY DEF Inductive, TypeOK, LockDiscipline
<1>3. Constructed'
  BY DEF Inductive, TypeOK, Constructed
<1>4. LocalsSet'
  BY DEF Inductive, TypeOK, LocalsSet
<1>5. ListRepresentsChain'
  BY DEF Inductive, TypeOK, ListRepresentsChain
<1>6. NoDuplicateURI'
  BY DEF Inductive, NoDuplicateURI
<1>7. ASSUME NEW s \in Thread PROVE Scanned(s)'
  BY DEF Inductive, TypeOK, Scanned, NotListed
<1>8. WithinCapacity'
  BY DEF Inductive, TypeOK, WithinCapacity
<1>9. MapAgrees'
  BY DEF Inductive, TypeOK, MapAgrees
<1>10. PointersLeadToTheirURI'
  BY DEF Inductive, TypeOK, PointersLeadToTheirURI
<1> QED
  BY <1>1, <1>2, <1>3, <1>4, <1>5, <1>6, <1>7, <1>8, <1>9, <1>10 DEF Inductive

(* The process dies.                                                       *)
LEMMA SegfaultInductive ==
  ASSUME Inductive, NEW t \in Thread, Segfault(t)
  PROVE  Inductive'
<1> USE DEF Segfault, Goto, At, listVars, heapVars, mapVars, callVars, readerVars
<1>1. TypeOK'
  BY DEF Inductive, TypeOK
<1>2. LockDiscipline'
  BY DEF Inductive, TypeOK, LockDiscipline
<1>3. Constructed'
  BY DEF Inductive, TypeOK, Constructed
<1>4. LocalsSet'
  BY DEF Inductive, TypeOK, LocalsSet
<1>5. ListRepresentsChain'
  BY DEF Inductive, TypeOK, ListRepresentsChain
<1>6. NoDuplicateURI'
  BY DEF Inductive, NoDuplicateURI
<1>7. ASSUME NEW s \in Thread PROVE Scanned(s)'
  BY DEF Inductive, TypeOK, Scanned, NotListed
<1>8. WithinCapacity'
  BY DEF Inductive, TypeOK, WithinCapacity
<1>9. MapAgrees'
  BY DEF Inductive, TypeOK, MapAgrees
<1>10. PointersLeadToTheirURI'
  BY DEF Inductive, TypeOK, PointersLeadToTheirURI
<1> QED
  BY <1>1, <1>2, <1>3, <1>4, <1>5, <1>6, <1>7, <1>8, <1>9, <1>10 DEF Inductive

(* Nothing happens.                                                        *)
LEMMA UnchangedInductive ==
  ASSUME Inductive, UNCHANGED vars
  PROVE  Inductive'
<1> USE DEF vars, listVars, heapVars, mapVars, callVars, readerVars
<1>1. TypeOK' /\ LockDiscipline' /\ Constructed' /\ LocalsSet'
  BY DEF Inductive, TypeOK, LockDiscipline, Constructed, LocalsSet
<1>2. ListRepresentsChain' /\ NoDuplicateURI' /\ WithinCapacity'
  BY DEF Inductive, ListRepresentsChain, NoDuplicateURI, WithinCapacity
<1>3. ASSUME NEW s \in Thread PROVE Scanned(s)'
  BY DEF Inductive, Scanned, NotListed
<1>4. MapAgrees' /\ PointersLeadToTheirURI'
  BY DEF Inductive, MapAgrees, PointersLeadToTheirURI
<1> QED
  BY <1>1, <1>2, <1>3, <1>4 DEF Inductive

(* Every step preserves the inductive invariant: one case for each action. *)
LEMMA NextInductive == Inductive /\ [Next]_vars => Inductive'
<1> SUFFICES ASSUME Inductive, [Next]_vars PROVE Inductive'
  OBVIOUS
<1>1. CASE UNCHANGED vars
  BY <1>1, UnchangedInductive
<1>2. CASE Down
  BY <1>2, UnchangedInductive DEF Down
<1>3. ASSUME NEW t \in Thread, Step(t) PROVE Inductive'
  <2>1. ASSUME NEW u \in URI, CallGet(t, u) PROVE Inductive'
    BY <2>1, CallGetInductive
  <2>2. CASE GetResponse(t)
    BY <2>2, GetResponseInductive
  <2>3. CASE SetFirstRequestTime(t)
    BY <2>3, SetFirstRequestTimeInductive
  <2>4. CASE FindAgain(t)
    BY <2>4, FindAgainInductive
  <2>5. ASSUME NEW r, CopyFound(t, r) PROVE Inductive'
    BY <2>5, CopyFoundInductive
  <2>6. ASSUME NEW r, CopyNode(t, r) PROVE Inductive'
    BY <2>6, CopyNodeInductive
  <2>7. ASSUME NEW c \in Content, CallPut(t, c) PROVE Inductive'
    BY <2>7, CallPutInductive
  <2>8. CASE Lock(t)
    BY <2>8, LockInductive
  <2>9. CASE Scan(t)
    BY <2>9, ScanInductive
  <2>10. CASE Update(t)
    BY <2>10, UpdateInductive
  <2>11. CASE Link(t)
    BY <2>11, LinkInductive
  <2>12. CASE Index(t)
    BY <2>12, IndexInductive
  <2>13. CASE Evict(t)
    BY <2>13, EvictInductive
  <2>14. CASE Unlock(t)
    BY <2>14, UnlockInductive
  <2>15. CASE Segfault(t)
    BY <2>15, SegfaultInductive
  <2> QED
    BY <1>3, <2>1, <2>2, <2>3, <2>4, <2>5, <2>6, <2>7, <2>8, <2>9, <2>10, <2>11, <2>12, <2>13,
       <2>14, <2>15 DEF Step, ReadStep, PutStep
<1> QED
  BY <1>1, <1>2, <1>3 DEF Next

(* The inductive invariant holds in every reachable state.                 *)
THEOREM InductiveInvariant == Spec => []Inductive
<1>1. Init => Inductive
  BY InitInductive
<1>2. Inductive /\ [Next]_vars => Inductive'
  BY NextInductive
<1> QED
  BY <1>1, <1>2, PTL DEF Spec

(* The fields of every node, the map and the locals of every handler hold  *)
(* values of their types, and size never drops below zero                  *)
(* (Cache.hpp:33-39).                                                      *)
THEOREM TypeCorrectness == Spec => []TypeOK
<1>1. Inductive => TypeOK
  BY DEF Inductive
<1> QED
  BY <1>1, InductiveInvariant, PTL

(* The list of putResponse is well formed in every reachable state, for    *)
(* every capacity (Cache.cpp:48-50, 61-69).                                *)
THEOREM ListIntegrity == Spec => []ListRepresentsChain
<1>1. Inductive => ListRepresentsChain
  BY DEF Inductive
<1> QED
  BY <1>1, InductiveInvariant, PTL

(* No URI is in the list of putResponse twice (Cache.cpp:23-42).           *)
THEOREM NoDuplicates == Spec => []NoDuplicateURI
<1>1. Inductive => NoDuplicateURI
  BY DEF Inductive
<1> QED
  BY <1>1, InductiveInvariant, PTL

(* Only the thread that inserts, and only before its eviction step, sees   *)
(* more than Capacity nodes in the list (Cache.cpp:58-70).                 *)
THEOREM CapacityBound == Spec => []CapacityRespected
<1>1. Inductive => CapacityRespected
  <2> SUFFICES ASSUME Inductive PROVE CapacityRespected
    OBVIOUS
  <2>1. Len(chain) <= Capacity + 1
    BY DEF Inductive, WithinCapacity
  <2>2. chain \in Seq(Address)
    BY DEF Inductive, TypeOK
  <2>3. ASSUME Len(chain) > Capacity
        PROVE  \E t \in Thread : lock = t /\ pc[t] \in {"index", "evict"}
    <3>1. PICK t \in Thread : pc[t] \in {"index", "evict"}
      BY <2>2, <2>3 DEF Inductive, WithinCapacity
    <3>2. lock = t
      BY <3>1 DEF Inductive, LockDiscipline
    <3> QED
      BY <3>1, <3>2
  <2> QED
    BY <2>1, <2>3 DEF CapacityRespected
<1> QED
  BY <1>1, InductiveInvariant, PTL

(* Between two calls of putResponse the map and the list hold the same     *)
(* nodes, unless a data race has damaged the map (Cache.cpp:52, 62).       *)
THEOREM MapAgreement == Spec => []MapMatchesList
<1>1. Inductive => MapMatchesList
  <2> SUFFICES ASSUME Inductive, ~raced, lock = NULL
               PROVE  /\ \A u \in URI : map[u] \in Address => \E i \in DOMAIN chain : chain[i] = map[u]
                      /\ \A i \in DOMAIN chain : map[uri[chain[i]]] = chain[i]
    BY DEF MapMatchesList
  <2>1. \A t \in Thread : pc[t] # "index"
    BY DEF Inductive, LockDiscipline
  <2> QED
    BY <2>1 DEF Inductive, MapAgrees
<1> QED
  BY <1>1, InductiveInvariant, PTL

(* A Node pointer of a handler is never dangling and never leads to a node *)
(* of another URI, whatever was evicted or raced meanwhile                 *)
(* (Cache.cpp:13, 133; GetMethod.cpp:22, 30).                              *)
THEOREM PointerSafety == Spec => []PointersLeadToTheirURI
<1>1. Inductive => PointersLeadToTheirURI
  BY DEF Inductive
<1> QED
  BY <1>1, InductiveInvariant, PTL
=============================================================================

------------------------------ MODULE FifoStore ------------------------------
(***************************************************************************)
(* What the class Cache promises to the request handlers, without lists,   *)
(* nodes, locks or data races: a store of at most Capacity contents, at    *)
(* most one for each URI.  A client hands over a content for a URI; at     *)
(* one instant before it gets control back the store takes it.  Storing a  *)
(* URI that is present replaces its content and keeps its place; storing a *)
(* new URI into a full store drops the entry that was inserted first.      *)
(* The module Cache is shown to implement this one.                        *)
(***************************************************************************)
EXTENDS Naturals, Sequences

CONSTANTS
  Client,    \* who stores contents
  URI,       \* the request targets
  Content,   \* what a stored response carries
  Capacity,  \* the number of entries the store may keep
  None       \* a client with nothing to store

VARIABLES
  queue,     \* the entries, the one inserted first at the head
  pending    \* what each client has handed over and the store not yet taken

Entry == [uri : URI, content : Content]

Stored(u) == \E i \in DOMAIN queue : queue[i].uri = u

Init ==
  /\ queue = << >>
  /\ pending = [t \in Client |-> None]

HandOver(t, e) ==
  /\ pending[t] = None
  /\ pending' = [pending EXCEPT ![t] = e]
  /\ UNCHANGED queue

(* The URI is present: its content changes, its place does not.            *)
Replace(t) ==
  /\ pending[t] # None
  /\ Stored(pending[t].uri)
  /\ queue' = [i \in DOMAIN queue |->
                 IF queue[i].uri = pending[t].uri THEN pending[t] ELSE queue[i]]
  /\ pending' = [pending EXCEPT ![t] = None]

(* The URI is new: it becomes the youngest entry, and the oldest goes when *)
(* the store would grow beyond its capacity.                               *)
Insert(t) ==
  LET longer == Append(queue, pending[t])
  IN  /\ pending[t] # None
      /\ ~Stored(pending[t].uri)
      /\ queue' = IF Len(longer) > Capacity THEN Tail(longer) ELSE longer
      /\ pending' = [pending EXCEPT ![t] = None]

Next == \E t \in Client : (\E e \in Entry : HandOver(t, e)) \/ Replace(t) \/ Insert(t)

Spec == Init /\ [][Next]_<<queue, pending>>
=============================================================================

--------------------------------- MODULE Web ---------------------------------
(***************************************************************************)
(* What a client may rely on when it sends a GET through the proxy,        *)
(* without cache, threads, nodes or messages.  The origin holds one        *)
(* version of a content under each URI.  A client asks for a URI; its      *)
(* request is open until it is answered, once, or given up.  The answer is *)
(* a content the origin has held under that URI: an old one perhaps, but   *)
(* when the origin was asked one it held between the request and the       *)
(* answer.  An answer that does not come fresh from the origin is one that *)
(* may be shared.  The module GetMethod is shown to implement this one.    *)
(***************************************************************************)
EXTENDS Naturals

CONSTANTS
  Client,   \* who asks
  URI,      \* the request targets
  Content,  \* what the origin may hold: versions, each for one URI
  Public,   \* the contents that may be stored and shared
  Torn,     \* what a client gets of a content that is damaged
  Notice,   \* what a client may get instead of a content
  None      \* not asked yet, or not answered

VARIABLES
  held,      \* the content the origin holds under each URI
  asked,     \* the latest request of each client
  open,      \* the clients whose request is still to be answered
  answered   \* what each client has got for it

webVars == <<held, asked, open, answered>>

Init ==
  /\ held \in {f \in [URI -> Content] : \A u \in URI : f[u].uri = u /\ f[u].version = 1}
  /\ asked = [t \in Client |-> None]
  /\ open = {}
  /\ answered = [t \in Client |-> None]

Publish(u) ==
  /\ \E c \in Content :
       /\ c.uri = u /\ c.version = held[u].version + 1
       /\ held' = [held EXCEPT ![u] = c]
  /\ UNCHANGED <<asked, open, answered>>

(* A client asks, and names in its request a version it has already got,   *)
(* or none (0).                                                            *)
Ask(t, u) ==
  /\ t \notin open
  /\ open' = open \cup {t}
  /\ \E v \in 0 .. held[u].version :
       asked' = [asked EXCEPT ![t] = [uri |-> u, since |-> held[u].version, names |-> v]]
  /\ answered' = [answered EXCEPT ![t] = None]
  /\ UNCHANGED held

Close(t) ==
  /\ t \in open
  /\ open' = open \ {t}
  /\ UNCHANGED <<held, asked>>

Answer(t, r) == Close(t) /\ answered' = [answered EXCEPT ![t] = r]

(* The origin has held version c of what t asks for; it has since t asked. *)
WasHeld(t, c) == t \in open /\ c.uri = asked[t].uri /\ c.version <= held[c.uri].version
HeldSince(t, c) == WasHeld(t, c) /\ asked[t].since <= c.version

FromOrigin(t) ==
  \E c \in Content :
    /\ HeldSince(t, c)
    /\ Answer(t, [from |-> "origin", content |-> c])

(* What the origin has confirmed; the client's own validator may have done *)
(* what the proxy's would not have.                                        *)
FromValidation(t) ==
  \E c \in Public :
    /\ WasHeld(t, c)
    /\ HeldSince(t, c) \/ asked[t].names # 0
    /\ Answer(t, [from |-> "validation", content |-> c])

FromCache(t) ==
  \E c \in Public :
    /\ WasHeld(t, c)
    /\ Answer(t, [from |-> "cache", content |-> c])

(* What is shared may be damaged; what comes from the origin is not.       *)
Damaged(t) ==
  \E s \in {"cache", "validation"} : Answer(t, [from |-> s, content |-> Torn])

Refuse(t) == \E r \in Notice : Answer(t, r)
GiveUp(t) == Close(t) /\ UNCHANGED answered

Next ==
  \/ \E u \in URI : Publish(u) \/ \E t \in Client : Ask(t, u)
  \/ \E t \in Client : FromOrigin(t) \/ FromValidation(t) \/ FromCache(t)
                         \/ Damaged(t) \/ Refuse(t) \/ GiveUp(t)

Spec == Init /\ [][Next]_webVars
=============================================================================

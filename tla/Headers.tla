------------------------------- MODULE Headers -------------------------------
(***************************************************************************)
(* From the header of a response as the origin sent it to what the cache   *)
(* goes by: HttpParser::createResponse and the getters of HttpMessage and  *)
(* Response.  A field is a name, in lower case, and what its text means;   *)
(* times are in hours.                                                     *)
(***************************************************************************)
EXTENDS Integers, Sequences

CONSTANTS
  None,  \* the value of a field that is absent
  Bad    \* a text that is not what the field wants: no date, no number

Names == {"cache-control", "date", "expires", "last-modified", "age",
          "transfer-encoding", "content-length"}

(* checkHeaderFiledValid: a malformed expires is passed over; a malformed  *)
(* date or last-modified is an exception (500).                            *)
Skipped(line) == line.name = "expires" /\ line.value = Bad

(* Mutant: last-modified is not looked at.                                 *)
RefusedForDate(lines) ==
  \E i \in DOMAIN lines : lines[i].name = "date" /\ lines[i].value = Bad

Refused(lines) ==
  \E i \in DOMAIN lines : lines[i].name \in {"date", "last-modified"} /\ lines[i].value = Bad

(* collectHeaderKV: insert keeps the first of several fields of one name.  *)
CollectHeaderKV(lines) ==
  [n \in Names |->
     LET given == {i \in DOMAIN lines : lines[i].name = n /\ ~Skipped(lines[i])}
     IN  IF given = {} THEN None
         ELSE lines[CHOOSE i \in given : \A j \in given : i <= j].value]

(* The value of transfer-encoding: the codings, and whether the last is    *)
(* spelled "chunked" or ", chunked", which is all handleChunked knows;     *)
(* Beast knows it in any spelling.                                         *)
Chunked(h) ==
  h["transfer-encoding"] # None /\ h["transfer-encoding"].codings # << >> /\
  h["transfer-encoding"].codings[Len(h["transfer-encoding"].codings)] = "chunked"

(* Mutant: chunked goes only where it is the only coding.                  *)
HandleChunkedAlone(h, body) ==
  [h EXCEPT !["transfer-encoding"] = IF @.plain /\ Len(@.codings) = 1 THEN None ELSE @,
            !["content-length"] = body]

(* The body arrives decoded, and its length is body.                       *)
HandleChunked(h, body) ==
  LET te   == h["transfer-encoding"]
      rest == SubSeq(te.codings, 1, Len(te.codings) - 1)
  IN  [h EXCEPT !["transfer-encoding"] =
                     CASE ~te.plain -> te
                       [] te.plain /\ rest = << >> -> None
                       [] te.plain /\ rest # << >> -> [te EXCEPT !.codings = rest],
                !["content-length"] = body]

CreateResponse(lines, body) ==
  LET h == CollectHeaderKV(lines)
  IN  IF Chunked(h) THEN HandleChunked(h, body) ELSE h

(* getCacheable() == "yes".                                                *)
Cacheable(h) ==
  h["cache-control"] # None /\ {"no-store", "private"} \cap h["cache-control"].directives = {}

(* getMaxAge and getAge; the last is "0" if there is no such field.        *)
MaxAge(h) == IF h["cache-control"] = None THEN None ELSE h["cache-control"].maxAge
Age(h) == IF h["age"] = None THEN 0 ELSE h["age"]
=============================================================================

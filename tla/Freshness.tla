------------------------------- MODULE Freshness -------------------------------
(***************************************************************************)
(* Is a stored response fresh?  The arithmetic of Cache::isFresh, which    *)
(* takes the times in a header for local time of the host and subtracts    *)
(* four hours from them, over the life of one entry of the cache: a        *)
(* response is received and stored, hits mark it with the time and judge   *)
(* it, other handlers store newer ones meanwhile, and the clock goes on.   *)
(***************************************************************************)
EXTENDS Headers

CONSTANTS
  NoResponse,  \* nothing is stored
  Answer,      \* the responses the origin may send
  Zone,        \* the time zones of the host
  Garbage,     \* what mktime may make of a struct tm nobody has filled in
  Buffered,    \* times another handler may leave in gmtime's buffer
  IntMax,      \* of an int
  StartTime,   \* the clock at the start, and
  MaxTime      \* where it stops in a finite instance

Shift == 4  \* 14400 seconds

Coded == [codings : Seq(STRING), plain : BOOLEAN]

(* What Beast lets through: chunked is the last coding or none, and does   *)
(* not come with a content-length.                                         *)
ChunkedLast(lines) ==
  \A i \in DOMAIN lines : lines[i].name = "transfer-encoding" =>
    \A k \in DOMAIN lines[i].value.codings : lines[i].value.codings[k] = "chunked" =>
      /\ k = Len(lines[i].value.codings)
      /\ \A j \in DOMAIN lines : lines[j].name # "content-length"

(* mktime returns UTC plus the zone's offset: low or high, since tm_isdst  *)
(* is not initialised and mktime heeds it where there is summer time.      *)
ASSUME FreshnessAssumption ==
  /\ \A z \in Zone : z.low \in Int /\ z.high \in Int /\ z.low <= z.high
  /\ Garbage \subseteq Int
  /\ IntMax \in Nat
  /\ StartTime \in Nat \ {0} /\ MaxTime \in Nat /\ Buffered \subseteq Nat \ {0}
  /\ \A z \in Zone, t \in Buffered \cup {StartTime} : t + z.low > 1
  /\ None \notin Nat \cup {Bad} \cup Coded
  /\ \A a \in Answer :
       /\ DOMAIN a.lines \subseteq Nat
       /\ \A i \in DOMAIN a.lines :
            /\ a.lines[i].name \in {"date", "expires", "last-modified", "age"} =>
                 a.lines[i].value \in Nat \cup {Bad}
            /\ a.lines[i].name = "cache-control" =>
                 a.lines[i].value # None /\ a.lines[i].value.maxAge \in Nat \cup {None}
            /\ a.lines[i].name = "transfer-encoding" => a.lines[i].value \in Coded
       /\ ChunkedLast(a.lines)

VARIABLES
  now,               \* the clock
  zone,              \* the host's, throughout
  stored,            \* the header of the stored response
  firstRequestTime,  \* first_request_time of the stored response
  hit,               \* where the handler with a hit is
  verdict,           \* what isFresh has just returned
  firstHit,          \* history: the time setFirstRequestTime was first given; 0 if it was not
  rejected,          \* history: isFresh has returned false since then, from sums that fit
  requestTime        \* history: when the stored response was stored, which is the latest
                     \*          that the request for it can have been made

freshVars == <<now, zone, stored, firstRequestTime, hit, verdict, firstHit, rejected, requestTime>>

InitFreshness ==
  /\ now = StartTime
  /\ zone \in Zone
  /\ stored = NoResponse
  /\ firstRequestTime = 1
  /\ hit = "none"
  /\ verdict = "none"
  /\ firstHit = 0
  /\ rejected = FALSE
  /\ requestTime = 0

-----------------------------------------------------------------------------
(* The arithmetic.  A sum is computed in 64 bits and kept in 32.           *)

Offsets == {zone.low, zone.high}

Narrow(x) ==
  IF x \in -IntMax - 1 .. IntMax THEN x ELSE ((x + IntMax + 1) % (2 * IntMax + 2)) - IntMax - 1

(* convert_string2timet.                                                   *)
Times(t) == IF t = None THEN Garbage ELSE {t + o - Shift : o \in Offsets}

Larger(a, b) == IF a > b THEN a ELSE b

(* Division in C++, towards zero.                                          *)
Tenth(x) == IF x >= 0 THEN x \div 10 ELSE -((-x) \div 10)

(* Mutants: the resident time has its operands swapped; the age a response *)
(* arrived with is dropped.                                                *)
CurrentAgeSwapped(h, date) == Larger(0, Age(h) + date - firstRequestTime) + date - now
CurrentAgeWithoutAge(h, date) == now - date

(* get_current_age.  The response time is the date, so that the apparent   *)
(* age is 0.                                                               *)
CurrentAge(h, date) == Larger(0, Age(h) + date - firstRequestTime) + now - date

(* get_freshness_lifetime.                                                 *)
Lifetimes(h) ==
  CASE MaxAge(h) # None -> {MaxAge(h)}
    [] MaxAge(h) = None /\ h["expires"] # None ->
         {e - d : e \in Times(h["expires"]), d \in Times(h["date"])}
    [] MaxAge(h) = None /\ h["expires"] = None /\ h["last-modified"] # None ->
         {Tenth(d - l) : d \in Times(h["date"]), l \in Times(h["last-modified"])}
    [] OTHER -> {-1}

(* stoi throws at a text without a number, or with one beyond an int.      *)
Unconvertible(v) == v # None /\ (v = Bad \/ v > IntMax)

(* The response has a date, and its sums fit an int.                       *)
Judgeable(h) ==
  /\ h["date"] # None
  /\ \A x \in Lifetimes(h) \cup {CurrentAge(h, d) : d \in Times(h["date"])} :
       x \in -IntMax - 1 .. IntMax

-----------------------------------------------------------------------------
(* The steps.                                                              *)

Tick ==
  /\ now < MaxTime
  /\ now' = now + 1
  /\ verdict' = "none"
  /\ UNCHANGED <<zone, stored, firstRequestTime, hit, firstHit, rejected, requestTime>>

(* A handler, this one or another, has fetched a response and stores it,   *)
(* if it may.  The origin's clock is right.                                *)
Store(a) ==
  LET h == CreateResponse(a.lines, a.body)
  IN  /\ \A i \in DOMAIN a.lines :
           (a.lines[i].name = "date" /\ a.lines[i].value # Bad) => a.lines[i].value <= now
      /\ ~Refused(a.lines)
      /\ Cacheable(h)
      /\ stored' = h
      /\ firstRequestTime' = 1
      /\ firstHit' = 0
      /\ rejected' = FALSE
      /\ requestTime' = now
      /\ verdict' = "none"
      /\ UNCHANGED <<now, zone, hit>>

(* Mutant: every hit sets the time.                                        *)
HitAlwaysSets ==
  /\ stored # NoResponse /\ hit = "none"
  /\ \E t \in {now} \cup Buffered, o \in Offsets :
       /\ firstRequestTime' = t + o
       /\ firstHit' = IF firstHit = 0 THEN t ELSE firstHit
  /\ hit' = "timed"
  /\ verdict' = "none"
  /\ UNCHANGED <<now, zone, stored, rejected, requestTime>>

(* getResponse has found it: setFirstRequestTime, with a time that went    *)
(* through gmtime, whose buffer the threads share, a text, and mktime.     *)
Hit ==
  /\ stored # NoResponse /\ hit = "none"
  /\ \/ /\ firstRequestTime = 1
        /\ \E t \in {now} \cup Buffered, o \in Offsets :
             firstRequestTime' = t + o /\ firstHit' = t
     \/ firstRequestTime # 1 /\ UNCHANGED <<firstRequestTime, firstHit>>
  /\ hit' = "timed"
  /\ verdict' = "none"
  /\ UNCHANGED <<now, zone, stored, rejected, requestTime>>

(* isFresh, of what is stored by then.                                     *)
IsFresh ==
  /\ hit = "timed"
  /\ hit' = "none"
  /\ IF Unconvertible(MaxAge(stored)) \/ Unconvertible(Age(stored))
       THEN verdict' = "threw"
       ELSE \E l \in Lifetimes(stored), d \in Times(stored["date"]) :
              verdict' = IF Narrow(l) > Narrow(CurrentAge(stored, d)) THEN "fresh" ELSE "stale"
  /\ rejected' = (rejected \/ (verdict' = "stale" /\ Judgeable(stored) /\ firstHit # 0))
  /\ UNCHANGED <<now, zone, stored, firstRequestTime, firstHit, requestTime>>

NextFreshness == Tick \/ (\E a \in Answer : Store(a)) \/ Hit \/ IsFresh

SpecFreshness == InitFreshness /\ [][NextFreshness]_freshVars
-----------------------------------------------------------------------------
(***************************************************************************)
(* Properties.                                                             *)
(***************************************************************************)

TypeOKFreshness ==
  /\ now \in Nat
  /\ zone \in Zone
  /\ stored = NoResponse
     \/ \A n \in {"date", "expires", "last-modified"} : stored[n] \in Nat \cup {None}
  /\ firstRequestTime \in Int
  /\ hit \in {"none", "timed"}
  /\ verdict \in {"none", "fresh", "stale", "threw"}
  /\ firstHit \in Nat
  /\ rejected \in BOOLEAN
  /\ requestTime \in Nat

(* The lifetime the origin meant.                                          *)
Meant(h) ==
  CASE MaxAge(h) # None -> MaxAge(h)
    [] MaxAge(h) = None /\ h["expires"] # None -> h["expires"] - h["date"]
    [] MaxAge(h) = None /\ h["expires"] = None /\ h["last-modified"] # None ->
         Tenth(h["date"] - h["last-modified"])
    [] OTHER -> -1

(* How much longer than that a response may be taken for fresh: what the   *)
(* zone is further west than four hours, and the hour of summer time.      *)
Late == zone.high - Shift + zone.high - zone.low

(* What isFresh lets through is younger than the origin allowed, but for   *)
(* the error of the zone: hours too early to expire in UTC, up to two too  *)
(* late in the east of the United States (Cache.cpp:76-119).               *)
FreshIsYoung ==
  (verdict = "fresh" /\ Judgeable(stored)) => now - stored["date"] < Meant(stored) + Late

(* Counted from time t on, the age of a response taken for fresh has not   *)
(* reached its lifetime, but for the error of the zone.                    *)
YoungSince(t) ==
  (verdict = "fresh" /\ Judgeable(stored))
    => Age(stored) + now - t < Meant(stored) + zone.high + zone.high - zone.low

(* The documented rule: the age a response arrived with grows from the     *)
(* time of the request that resulted in it (Cache.hpp:56-60).  The code    *)
(* breaks it: first_request_time is set by the first hit (GetMethod.cpp:   *)
(* 24-28), and what lies between the two is not added.                     *)
AgeGrowsFromRequest == YoungSince(requestTime)

(* What the code keeps of that rule: the age a response arrived with       *)
(* counts as well, and grows from the first hit on, however many hits      *)
(* there are (Cache.cpp:93-103, Response.cpp:125-129).                     *)
AgeGrowsFromFirstHit == firstHit # 0 => YoungSince(firstHit)

(* A response found stale is not found fresh again, before a newer one     *)
(* takes its place, where there is no summer time (Cache.cpp:127-166).     *)
StaleStaysStale ==
  (rejected /\ Judgeable(stored) /\ zone.low = zone.high) => verdict # "fresh"

(* A response that is stored between a hit and its judgement, so that it   *)
(* has no time yet, is not served, unless it is to live longer than the    *)
(* time since 1970 (GetMethod.cpp:28-29, Cache.cpp:32).                    *)
UntimedIsStale ==
  (verdict = "fresh" /\ Judgeable(stored) /\ firstHit = 0) => Meant(stored) + zone.high - zone.low >= now

(* Where the body of a stored response ends is said in one way: one that   *)
(* arrived in chunks is kept whole, with its length and without the last   *)
(* coding, provided that was spelled as handleChunked spells it; else it   *)
(* is kept with both (HttpParser.cpp:53-68, 81-83).                        *)
OneFraming ==
  (stored # NoResponse /\ stored["content-length"] # None) =>
     LET te == stored["transfer-encoding"]
     IN  te = None \/ ~te.plain \/ \A k \in DOMAIN te.codings : te.codings[k] # "chunked"
=============================================================================

--------------------------- MODULE FreshnessProofs ---------------------------
(***************************************************************************)
(* What isFresh lets through, for every set of responses, every time zone  *)
(* and every clock.                                                        *)
(***************************************************************************)
EXTENDS Freshness, WellFoundedInduction, TLAPS

(* A set of numbers that is not empty has a least one.                     *)
LEMMA Least ==
  ASSUME NEW S, S \subseteq Nat, S # {}
  PROVE  \E i \in S : \A j \in S : i <= j
<1> DEFINE R == OpToRel(<, Nat)
<1>1. IsWellFoundedOn(R, Nat)
  BY NatLessThanWellFounded
<1>2. \A y, x \in Nat : y < x => <<y, x>> \in R
  BY DEF OpToRel
<1> HIDE DEF R
<1>3. PICK x \in S : \A y \in S : ~ (<<y, x>> \in R)
  BY <1>1, WFMin
<1>4. ASSUME NEW j \in S PROVE x <= j
  <2>1. x \in Nat /\ j \in Nat /\ ~ (<<j, x>> \in R)
    BY <1>3
  <2>2. ~ (j < x)
    BY <2>1, <1>2
  <2> QED
    BY <2>1, <2>2
<1> QED
  BY <1>4

(* A header the cache may hold: its times are times, and it may be stored. *)
WellFormed(h) ==
  /\ \A n \in {"date", "expires", "last-modified"} : h[n] \in Nat \cup {None}
  /\ h["age"] \in Nat \cup {None, Bad}
  /\ h["cache-control"].maxAge \in Nat \cup {None}
  /\ Cacheable(h)

(* A field that is collected is one of those sent.                         *)
LEMMA CollectedWasSent ==
  ASSUME NEW a \in Answer, NEW n \in Names, CollectHeaderKV(a.lines)[n] # None
  PROVE  \E i \in DOMAIN a.lines :
           /\ a.lines[i].name = n /\ ~Skipped(a.lines[i])
           /\ CollectHeaderKV(a.lines)[n] = a.lines[i].value
<1> DEFINE given == {i \in DOMAIN a.lines : a.lines[i].name = n /\ ~Skipped(a.lines[i])}
<1>1. given # {} /\ CollectHeaderKV(a.lines)[n] = a.lines[CHOOSE i \in given : \A j \in given : i <= j].value
  BY DEF CollectHeaderKV
<1>2. given \subseteq Nat
  BY FreshnessAssumption
<1>3. \E i \in given : \A j \in given : i <= j
  <2> HIDE DEF given
  <2> QED
    BY <1>1, <1>2, Least
<1>4. (CHOOSE i \in given : \A j \in given : i <= j) \in given
  <2> HIDE DEF given
  <2> QED
    BY <1>3
<1> QED
  BY <1>1, <1>4

(* HandleChunked leaves the other fields alone.                            *)
LEMMA OtherFields ==
  ASSUME NEW a \in Answer, NEW n \in {"date", "expires", "last-modified", "age", "cache-control"}
  PROVE  CreateResponse(a.lines, a.body)[n] = CollectHeaderKV(a.lines)[n]
<1>1. DOMAIN CollectHeaderKV(a.lines) = Names /\ n \in Names
  BY DEF CollectHeaderKV, Names
<1> DEFINE h == CollectHeaderKV(a.lines)
<1> HIDE DEF h
<1>2. HandleChunked(h, a.body)[n] = h[n]
  BY <1>1 DEF HandleChunked, h
<1> QED
  BY <1>2 DEF CreateResponse, h

LEMMA CreatedIsWellFormed ==
  ASSUME NEW a \in Answer, ~Refused(a.lines), Cacheable(CreateResponse(a.lines, a.body))
  PROVE  WellFormed(CreateResponse(a.lines, a.body))
<1> DEFINE h == CreateResponse(a.lines, a.body)
<1>1. ASSUME NEW n \in {"date", "expires", "last-modified"} PROVE h[n] \in Nat \cup {None}
  <2>1. CASE CollectHeaderKV(a.lines)[n] = None
    BY <2>1, OtherFields
  <2>2. CASE CollectHeaderKV(a.lines)[n] # None
    <3>1. PICK i \in DOMAIN a.lines : /\ a.lines[i].name = n /\ ~Skipped(a.lines[i])
                                      /\ h[n] = a.lines[i].value
      BY <2>2, CollectedWasSent, OtherFields DEF Names
    <3>2. a.lines[i].value \in Nat \cup {Bad}
      BY <3>1, FreshnessAssumption
    <3> QED
      BY <3>1, <3>2 DEF Refused, Skipped
  <2> QED
    BY <2>1, <2>2
<1>2. h["age"] \in Nat \cup {None, Bad}
  <2>1. CASE CollectHeaderKV(a.lines)["age"] = None
    BY <2>1, OtherFields
  <2>2. CASE CollectHeaderKV(a.lines)["age"] # None
    <3>1. PICK i \in DOMAIN a.lines : a.lines[i].name = "age" /\ h["age"] = a.lines[i].value
      BY <2>2, CollectedWasSent, OtherFields DEF Names
    <3> QED
      BY <3>1, FreshnessAssumption
  <2> QED
    BY <2>1, <2>2
<1>3. h["cache-control"].maxAge \in Nat \cup {None}
  <2>1. CollectHeaderKV(a.lines)["cache-control"] # None
    BY OtherFields DEF Cacheable
  <2>2. PICK i \in DOMAIN a.lines : /\ a.lines[i].name = "cache-control"
                                    /\ h["cache-control"] = a.lines[i].value
    BY <2>1, CollectedWasSent, OtherFields DEF Names
  <2> QED
    BY <2>2, FreshnessAssumption
<1> HIDE DEF h
<1>4. Cacheable(h)
  BY DEF h
<1>5. WellFormed(h)
  BY <1>1, <1>2, <1>3, <1>4 DEF WellFormed
<1> QED
  BY <1>5 DEF h
-----------------------------------------------------------------------------
(* The sums.                                                               *)

(* A date becomes a time that is off by what the zone is off four hours.   *)
LEMMA DatesAreShifted ==
  ASSUME NEW z \in Zone, zone = z, NEW t \in Nat, NEW d \in Times(t)
  PROVE  /\ d \in Int
         /\ t + zone.low - Shift <= d /\ d <= t + zone.high - Shift
<1>1. PICK o \in {zone.low, zone.high} : d = t + o - Shift
  BY FreshnessAssumption DEF Times, Offsets
<1> QED
  BY <1>1, FreshnessAssumption DEF Shift

(* The tenth part grows by at most as much as what it is of.               *)
LEMMA TenthOfMore ==
  ASSUME NEW x \in Int, NEW y \in Int, NEW k \in Nat, y <= x + k
  PROVE  Tenth(x) \in Int /\ Tenth(y) \in Int /\ Tenth(y) <= Tenth(x) + k
BY DEF Tenth

(* A lifetime exceeds the one that was meant by the hour of summer time at *)
(* most.                                                                   *)
LEMMA LifetimesAreMeant ==
  ASSUME NEW h, WellFormed(h), h["date"] # None, NEW z \in Zone, zone = z, NEW l \in Lifetimes(h)
  PROVE  /\ l \in Int /\ Meant(h) \in Int
         /\ l <= Meant(h) + zone.high - zone.low
         /\ zone.low = zone.high => l = Meant(h)
<1>1. zone.low \in Int /\ zone.high \in Int /\ zone.low <= zone.high
  BY FreshnessAssumption
<1>2. h["date"] \in Nat /\ MaxAge(h) \in Nat \cup {None}
  BY DEF WellFormed, MaxAge
<1>3. CASE MaxAge(h) # None
  BY <1>1, <1>2, <1>3 DEF Lifetimes, Meant
<1>4. CASE MaxAge(h) = None /\ h["expires"] # None
  <2>1. PICK e \in Times(h["expires"]), d \in Times(h["date"]) : l = e - d
    BY <1>4 DEF Lifetimes
  <2>2. h["expires"] \in Nat /\ Meant(h) = h["expires"] - h["date"]
    BY <1>4 DEF WellFormed, Meant
  <2> QED
    BY <1>1, <1>2, <2>1, <2>2, DatesAreShifted DEF Shift
<1>5. CASE MaxAge(h) = None /\ h["expires"] = None /\ h["last-modified"] # None
  <2>1. PICK d \in Times(h["date"]), m \in Times(h["last-modified"]) : l = Tenth(d - m)
    BY <1>5 DEF Lifetimes
  <2>2. h["last-modified"] \in Nat /\ Meant(h) = Tenth(h["date"] - h["last-modified"])
    BY <1>5 DEF WellFormed, Meant
  <2>3. /\ d - m \in Int /\ h["date"] - h["last-modified"] \in Int /\ zone.high - zone.low \in Nat
        /\ d - m <= h["date"] - h["last-modified"] + (zone.high - zone.low)
        /\ zone.low = zone.high => d - m = h["date"] - h["last-modified"]
    BY <1>1, <1>2, <2>1, <2>2, DatesAreShifted DEF Shift
  <2>4. /\ l \in Int /\ Meant(h) \in Int
        /\ l <= Meant(h) + (zone.high - zone.low)
    BY <2>1, <2>2, <2>3, TenthOfMore
  <2> QED
    BY <1>1, <2>1, <2>2, <2>3, <2>4
<1>6. CASE MaxAge(h) = None /\ h["expires"] = None /\ h["last-modified"] = None
  BY <1>1, <1>6 DEF Lifetimes, Meant
<1> QED
  BY <1>3, <1>4, <1>5, <1>6

-----------------------------------------------------------------------------
(* The invariant.                                                          *)

Convertible(h) == ~Unconvertible(MaxAge(h)) /\ ~Unconvertible(Age(h))

(* What isFresh saw when it returned true, and still can.                  *)
FoundFresh ==
  /\ WellFormed(stored) /\ Convertible(stored)
  /\ \E l \in Lifetimes(stored), d \in Times(stored["date"]) :
       Narrow(l) > Narrow(CurrentAge(stored, d))

(* Once the age has reached the lifetime it stays there.                   *)
FoundStale ==
  /\ WellFormed(stored) /\ Convertible(stored) /\ stored["date"] # None /\ firstHit # 0
  /\ zone.low = zone.high =>
       \A l \in Lifetimes(stored), d \in Times(stored["date"]) : l <= CurrentAge(stored, d)

Timed ==
  /\ firstHit = 0 => firstRequestTime = 1
  /\ firstHit # 0 => firstRequestTime # 1 /\ \E o \in Offsets : firstRequestTime = firstHit + o

Variables ==
  /\ now \in Nat /\ StartTime <= now
  /\ zone \in Zone
  /\ firstRequestTime \in Int /\ firstHit \in Nat
  /\ hit \in {"none", "timed"}
  /\ verdict \in {"none", "fresh", "stale", "threw"}
  /\ rejected \in BOOLEAN /\ requestTime \in Nat

InductiveFreshness ==
  /\ Variables
  /\ stored # NoResponse => WellFormed(stored)
  /\ hit = "timed" => WellFormed(stored)
  /\ Timed
  /\ verdict = "fresh" => FoundFresh
  /\ rejected => FoundStale

(* The age is a number, and what fits an int is kept as it is.             *)
LEMMA AgeIsNumber ==
  ASSUME NEW h, WellFormed(h), Convertible(h)
  PROVE  Age(h) \in Nat
BY FreshnessAssumption DEF WellFormed, Convertible, Unconvertible, Age

LEMMA Kept ==
  ASSUME NEW h, Judgeable(h), NEW l \in Lifetimes(h), NEW d \in Times(h["date"])
  PROVE  Narrow(l) = l /\ Narrow(CurrentAge(h, d)) = CurrentAge(h, d)
BY DEF Judgeable, Narrow

LEMMA InitInductiveFreshness == InitFreshness => InductiveFreshness
<1> SUFFICES ASSUME InitFreshness PROVE InductiveFreshness
  OBVIOUS
<1>1. Variables
  <2>1. now \in Nat /\ StartTime <= now /\ zone \in Zone
    BY FreshnessAssumption DEF InitFreshness
  <2>2. firstRequestTime \in Int /\ firstHit \in Nat
    BY DEF InitFreshness
  <2>3. hit \in {"none", "timed"} /\ verdict \in {"none", "fresh", "stale", "threw"} /\ rejected \in BOOLEAN
       /\ requestTime \in Nat
    BY DEF InitFreshness
  <2> QED
    BY <2>1, <2>2, <2>3 DEF Variables
<1>2. Timed
  BY DEF InitFreshness, Timed
<1>3. stored = NoResponse /\ hit = "none" /\ verdict = "none" /\ ~rejected
  BY DEF InitFreshness
<1> QED
  BY <1>1, <1>2, <1>3 DEF InductiveFreshness

LEMMA TickStep ==
  ASSUME InductiveFreshness, Tick
  PROVE  InductiveFreshness'
<1> USE DEF InductiveFreshness, Tick
<1>1. Variables'
  BY FreshnessAssumption DEF Variables
<1>2. (stored # NoResponse => WellFormed(stored))' /\ (hit = "timed" => WellFormed(stored))'
  BY DEF WellFormed, Cacheable
<1>3. Timed'
  BY DEF Timed, Offsets
<1>4. (rejected => FoundStale)'
  <2> SUFFICES ASSUME rejected PROVE FoundStale'
    OBVIOUS
  <2>1. FoundStale /\ WellFormed(stored) /\ Age(stored) \in Nat /\ stored["date"] \in Nat
    BY AgeIsNumber DEF FoundStale, WellFormed
  <2>2. Lifetimes(stored)' = Lifetimes(stored) /\ Times(stored["date"])' = Times(stored["date"])
    BY DEF Lifetimes, Times, Offsets
  <2>3. ASSUME NEW d \in Times(stored["date"])
        PROVE  CurrentAge(stored, d)' = CurrentAge(stored, d) + 1 /\ CurrentAge(stored, d) \in Int
    <3>1. d \in Int
      BY <2>1, DatesAreShifted DEF Variables
    <3> QED
      BY <2>1, <3>1 DEF CurrentAge, Larger, Variables, Age
  <2>4. ASSUME zone.low = zone.high,
               NEW l \in Lifetimes(stored), NEW d \in Times(stored["date"])
        PROVE  l <= CurrentAge(stored, d)'
    <3>1. l <= CurrentAge(stored, d)
      BY <2>1, <2>4 DEF FoundStale
    <3>2. l \in Int
      BY <2>1, LifetimesAreMeant DEF Variables, FoundStale
    <3> QED
      BY <2>3, <3>1, <3>2
  <2> QED
    BY <2>1, <2>2, <2>4 DEF FoundStale, Convertible, Unconvertible
<1> QED
  BY <1>1, <1>2, <1>3, <1>4

LEMMA StoreStep ==
  ASSUME InductiveFreshness, NEW a \in Answer, Store(a)
  PROVE  InductiveFreshness'
<1>1. WellFormed(stored')
  BY CreatedIsWellFormed DEF Store
<1>2. WellFormed(stored)'
  BY <1>1 DEF WellFormed, Cacheable
<1>3. Variables'
  <2>1. UNCHANGED <<now, zone, hit>> /\ firstRequestTime' = 1 /\ firstHit' = 0
    BY DEF Store
  <2>2. /\ verdict' \in {"none", "fresh", "stale", "threw"} /\ rejected' \in BOOLEAN
        /\ requestTime' = now
    BY DEF Store
  <2> QED
    BY <2>1, <2>2 DEF InductiveFreshness, Variables
<1>4. Timed'
  BY DEF Store, Timed
<1>5. verdict' = "none" /\ ~rejected'
  BY DEF Store
<1> QED
  BY <1>2, <1>3, <1>4, <1>5 DEF InductiveFreshness

(* A hit is timed once, with a time that is not the mark 1.                *)
LEMMA HitStep ==
  ASSUME InductiveFreshness, Hit
  PROVE  InductiveFreshness'
<1>1. WellFormed(stored) /\ UNCHANGED <<stored, zone, now, rejected, requestTime>> /\ verdict' = "none" /\ hit' = "timed"
  BY DEF InductiveFreshness, Hit
<1>2. CASE firstRequestTime = 1
  <2>1. PICK t \in {now} \cup Buffered, o \in Offsets : firstRequestTime' = t + o /\ firstHit' = t
    BY <1>2 DEF Hit
  <2>2. /\ t \in Nat \ {0} /\ now \in Nat /\ zone \in Zone
        /\ \E u \in Buffered \cup {StartTime} : u <= t /\ u \in Nat
    BY FreshnessAssumption DEF InductiveFreshness, Variables
  <2>3. o \in Int /\ zone.low \in Int /\ zone.low <= o
    BY <2>2, FreshnessAssumption DEF Offsets
  <2>4. t + o > 1
    <3>1. PICK u \in Buffered \cup {StartTime} : u <= t /\ u \in Nat
      BY <2>2
    <3>2. u + zone.low > 1
      BY <2>2, <3>1, FreshnessAssumption
    <3> QED
      BY <2>2, <2>3, <3>1, <3>2
  <2>5. Timed' /\ firstRequestTime' \in Int /\ firstHit' \in Nat
    BY <1>1, <2>1, <2>2, <2>3, <2>4 DEF Timed, Offsets
  <2>6. ~rejected
    BY <1>2 DEF InductiveFreshness, FoundStale, Timed
  <2>7. Variables'
    BY <1>1, <2>5 DEF InductiveFreshness, Variables
  <2> QED
    BY <1>1, <2>5, <2>6, <2>7 DEF InductiveFreshness, WellFormed, Cacheable
<1>3. CASE firstRequestTime # 1
  <2>1. UNCHANGED <<firstRequestTime, firstHit>>
    BY <1>3 DEF Hit
  <2>2. Variables' /\ Timed'
    BY <1>1, <2>1 DEF InductiveFreshness, Variables, Timed, Offsets
  <2>3. (rejected => FoundStale)'
    BY <1>1, <2>1 DEF InductiveFreshness, FoundStale, WellFormed, Cacheable, Convertible,
          Unconvertible, Lifetimes, Times, Offsets, CurrentAge
  <2> QED
    BY <1>1, <2>2, <2>3 DEF InductiveFreshness, WellFormed, Cacheable
<1> QED
  BY <1>2, <1>3

LEMMA IsFreshStep ==
  ASSUME InductiveFreshness, IsFresh
  PROVE  InductiveFreshness'
<1>1. /\ WellFormed(stored) /\ hit' = "none"
      /\ UNCHANGED <<now, zone, stored, firstRequestTime, firstHit, requestTime>>
  BY DEF InductiveFreshness, IsFresh
<1>2. UNCHANGED <<WellFormed(stored), Convertible(stored), FoundFresh, FoundStale>>
  BY <1>1 DEF FoundFresh, FoundStale, WellFormed, Cacheable, Convertible, Unconvertible,
        Lifetimes, Times, Offsets, CurrentAge, Narrow
<1>3. verdict' \in {"fresh", "stale", "threw"} /\ (verdict' = "fresh" => FoundFresh)
  BY <1>1 DEF IsFresh, FoundFresh, Convertible
<1>4. rejected' \in BOOLEAN
  BY DEF IsFresh, InductiveFreshness, Variables
<1>5. ASSUME rejected' PROVE FoundStale
  <2>1. CASE rejected
    BY <2>1 DEF InductiveFreshness
  <2>2. CASE verdict' = "stale" /\ Judgeable(stored) /\ firstHit # 0
    <3>1. Convertible(stored) /\ \E l \in Lifetimes(stored), d \in Times(stored["date"]) :
            ~ (Narrow(l) > Narrow(CurrentAge(stored, d)))
      BY <2>2 DEF IsFresh, Convertible
    <3>2. PICK l \in Lifetimes(stored), d \in Times(stored["date"]) : ~ (l > CurrentAge(stored, d))
      BY <2>2, <3>1, Kept
    <3>3. /\ l \in Int /\ CurrentAge(stored, d) \in Int
          /\ stored["date"] # None /\ stored["date"] \in Nat
      <4>1. stored["date"] # None /\ stored["date"] \in Nat
        BY <1>1, <2>2 DEF Judgeable, WellFormed
      <4>2. l \in Int
        BY <1>1, <4>1, LifetimesAreMeant DEF InductiveFreshness, Variables
      <4>3. d \in Int
        BY <4>1, DatesAreShifted DEF InductiveFreshness, Variables
      <4> QED
        BY <1>1, <3>1, <4>1, <4>2, <4>3, AgeIsNumber DEF CurrentAge, Larger, InductiveFreshness, Variables
    <3>4. ASSUME zone.low = zone.high,
                 NEW k \in Lifetimes(stored), NEW e \in Times(stored["date"])
          PROVE  k <= CurrentAge(stored, e)
      <4>1. k = l
        BY <1>1, <3>3, <3>4, LifetimesAreMeant DEF InductiveFreshness, Variables
      <4>2. e = d
        BY <3>3, <3>4 DEF Times, Offsets
      <4> QED
        BY <3>2, <3>3, <4>1, <4>2
    <3> QED
      BY <1>1, <2>2, <3>1, <3>3, <3>4 DEF FoundStale
  <2> QED
    BY <1>5, <2>1, <2>2 DEF IsFresh
<1>6. Variables' /\ Timed'
  BY <1>1, <1>3, <1>4 DEF InductiveFreshness, Variables, Timed, Offsets
<1> QED
  BY <1>1, <1>2, <1>3, <1>5, <1>6 DEF InductiveFreshness

LEMMA StutterStepFreshness ==
  ASSUME InductiveFreshness, UNCHANGED freshVars
  PROVE  InductiveFreshness'
<1>1. Variables' /\ Timed'
  BY DEF InductiveFreshness, freshVars, Variables, Timed, Offsets
<1>2. UNCHANGED <<WellFormed(stored), FoundFresh, FoundStale>>
  BY DEF freshVars, FoundFresh, FoundStale, WellFormed, Cacheable, Convertible, Unconvertible,
        Lifetimes, Times, Offsets, CurrentAge, Narrow
<1> QED
  BY <1>1, <1>2 DEF InductiveFreshness, freshVars

THEOREM FreshnessInvariant == SpecFreshness => []InductiveFreshness
<1>1. InductiveFreshness /\ [NextFreshness]_freshVars => InductiveFreshness'
  BY TickStep, StoreStep, HitStep, IsFreshStep, StutterStepFreshness DEF NextFreshness
<1> QED
  BY <1>1, InitInductiveFreshness, PTL DEF SpecFreshness

-----------------------------------------------------------------------------
(***************************************************************************)
(* Theorems.                                                               *)
(***************************************************************************)

(* isFresh reads a response that is there, and the times in it are times   *)
(* (HttpParser.cpp:113-142).                                               *)
THEOREM TypeCorrectnessFreshness == SpecFreshness => []TypeOKFreshness
<1>1. InductiveFreshness => TypeOKFreshness
  BY DEF InductiveFreshness, Variables, TypeOKFreshness, WellFormed
<1> QED
  BY <1>1, FreshnessInvariant, PTL

(* What a verdict "fresh" means: a lifetime above the age, neither of them *)
(* cut to an int.                                                          *)
LEMMA FreshMeans ==
  ASSUME InductiveFreshness, verdict = "fresh", Judgeable(stored)
  PROVE  /\ WellFormed(stored) /\ Age(stored) \in Nat /\ stored["date"] \in Nat
         /\ Meant(stored) \in Int /\ zone.low \in Int /\ zone.high \in Int
         /\ \E d \in Times(stored["date"]) :
              /\ d \in Int /\ d <= stored["date"] + zone.high - Shift
              /\ CurrentAge(stored, d) < Meant(stored) + zone.high - zone.low
<1>1. FoundFresh /\ zone \in Zone /\ now \in Nat /\ firstRequestTime \in Int
  BY DEF InductiveFreshness, Variables
<1>2. zone.low \in Int /\ zone.high \in Int
  BY <1>1, FreshnessAssumption
<1>3. WellFormed(stored) /\ Age(stored) \in Nat /\ stored["date"] # None /\ stored["date"] \in Nat
  BY <1>1, AgeIsNumber DEF FoundFresh, Judgeable, WellFormed
<1>4. PICK l \in Lifetimes(stored), d \in Times(stored["date"]) : l > CurrentAge(stored, d)
  BY <1>1, Kept DEF FoundFresh
<1>5. l \in Int /\ Meant(stored) \in Int /\ l <= Meant(stored) + zone.high - zone.low
  BY <1>1, <1>3, LifetimesAreMeant
<1>6. d \in Int /\ d <= stored["date"] + zone.high - Shift
  BY <1>1, <1>3, DatesAreShifted
<1>7. CurrentAge(stored, d) \in Int
  BY <1>1, <1>3, <1>6 DEF CurrentAge, Larger
<1> QED
  BY <1>2, <1>3, <1>4, <1>5, <1>6, <1>7

(* Whatever the zone, the date and the way the lifetime was given, isFresh *)
(* lets through no response older than was allowed, but for the error of   *)
(* the zone.                                                               *)
THEOREM FreshResponsesAreYoung == SpecFreshness => []FreshIsYoung
<1>1. ASSUME InductiveFreshness PROVE FreshIsYoung
  <2> SUFFICES ASSUME verdict = "fresh", Judgeable(stored)
               PROVE  now - stored["date"] < Meant(stored) + Late
    BY DEF FreshIsYoung
  <2>1. PICK d \in Times(stored["date"]) :
           /\ d \in Int /\ d <= stored["date"] + zone.high - Shift
           /\ CurrentAge(stored, d) < Meant(stored) + zone.high - zone.low
    BY <1>1, FreshMeans
  <2>2. CurrentAge(stored, d) \in Int /\ now - d <= CurrentAge(stored, d)
    BY <1>1, <2>1, FreshMeans DEF CurrentAge, Larger, InductiveFreshness, Variables
  <2> QED
    BY <1>1, <2>1, <2>2, FreshMeans DEF Late, Shift, InductiveFreshness, Variables
<1> QED
  BY <1>1, FreshnessInvariant, PTL

(* The age a response arrived with counts from its first hit on.           *)
THEOREM AgeGrows == SpecFreshness => []AgeGrowsFromFirstHit
<1>1. ASSUME InductiveFreshness PROVE AgeGrowsFromFirstHit
  <2> SUFFICES ASSUME verdict = "fresh", Judgeable(stored), firstHit # 0
               PROVE  Age(stored) + now - firstHit < Meant(stored) + zone.high + zone.high - zone.low
    BY DEF AgeGrowsFromFirstHit, YoungSince
  <2>1. PICK d \in Times(stored["date"]) :
           /\ d \in Int
           /\ CurrentAge(stored, d) < Meant(stored) + zone.high - zone.low
    BY <1>1, FreshMeans
  <2>2. firstRequestTime \in Int /\ firstHit \in Nat /\ now \in Nat /\ firstRequestTime <= firstHit + zone.high
    BY <1>1, FreshnessAssumption DEF InductiveFreshness, Variables, Timed, Offsets
  <2>3. CurrentAge(stored, d) \in Int /\ Age(stored) + now - firstRequestTime <= CurrentAge(stored, d)
    BY <1>1, <2>1, <2>2, FreshMeans DEF CurrentAge, Larger
  <2> QED
    BY <1>1, <2>1, <2>2, <2>3, FreshMeans
<1> QED
  BY <1>1, FreshnessInvariant, PTL

(* A response that was stored after its reader's hit is not served, unless *)
(* it lives for ever.                                                      *)
THEOREM UntimedResponsesAreStale == SpecFreshness => []UntimedIsStale
<1>1. ASSUME InductiveFreshness PROVE UntimedIsStale
  <2> SUFFICES ASSUME verdict = "fresh", Judgeable(stored), firstHit = 0
               PROVE  Meant(stored) + zone.high - zone.low >= now
    BY DEF UntimedIsStale
  <2>1. PICK d \in Times(stored["date"]) :
           /\ d \in Int
           /\ CurrentAge(stored, d) < Meant(stored) + zone.high - zone.low
    BY <1>1, FreshMeans
  <2>2. firstRequestTime = 1 /\ now \in Nat
    BY <1>1 DEF InductiveFreshness, Variables, Timed
  <2>3. CurrentAge(stored, d) \in Int /\ Age(stored) + now - 1 <= CurrentAge(stored, d)
    BY <1>1, <2>1, <2>2, FreshMeans DEF CurrentAge, Larger
  <2> QED
    BY <1>1, <2>1, <2>2, <2>3, FreshMeans
<1> QED
  BY <1>1, FreshnessInvariant, PTL

(* A response found stale is not found fresh again.                        *)
THEOREM StaleResponsesStayStale == SpecFreshness => []StaleStaysStale
<1>1. ASSUME InductiveFreshness PROVE StaleStaysStale
  <2> SUFFICES ASSUME rejected, Judgeable(stored), zone.low = zone.high, verdict = "fresh"
               PROVE  FALSE
    BY DEF StaleStaysStale
  <2>1. FoundFresh /\ FoundStale
    BY <1>1 DEF InductiveFreshness
  <2>2. PICK l \in Lifetimes(stored), d \in Times(stored["date"]) : l > CurrentAge(stored, d)
    BY <2>1, Kept DEF FoundFresh
  <2>3. l <= CurrentAge(stored, d)
    BY <2>1, <2>2 DEF FoundStale
  <2>4. l \in Int /\ CurrentAge(stored, d) \in Int
    <3>1. WellFormed(stored) /\ stored["date"] # None /\ stored["date"] \in Nat /\ Age(stored) \in Nat
      BY <1>1, FreshMeans, FreshnessAssumption
    <3>2. l \in Int /\ d \in Int
      BY <1>1, <3>1, LifetimesAreMeant, DatesAreShifted DEF InductiveFreshness, Variables
    <3> QED
      BY <1>1, <3>1, <3>2 DEF CurrentAge, Larger, InductiveFreshness, Variables
  <2> QED
    BY <2>2, <2>3, <2>4
<1> QED
  BY <1>1, FreshnessInvariant, PTL

-----------------------------------------------------------------------------
(* Where a body ends.                                                      *)

Framed(h) ==
  h["content-length"] # None =>
     LET te == h["transfer-encoding"]
     IN  te = None \/ ~te.plain \/ \A k \in DOMAIN te.codings : te.codings[k] # "chunked"

(* A header as it was sent says chunked, at the end, or a length.          *)
LEMMA SentIsFramed ==
  ASSUME NEW a \in Answer
  PROVE  LET h  == CollectHeaderKV(a.lines)
             te == h["transfer-encoding"]
         IN  /\ Framed(h)
             /\ te # None => /\ te \in Coded
                             /\ \A k \in DOMAIN te.codings : te.codings[k] = "chunked" => k = Len(te.codings)
<1> DEFINE h == CollectHeaderKV(a.lines)
<1>1. CASE h["transfer-encoding"] = None
  BY <1>1 DEF Framed
<1>2. CASE h["transfer-encoding"] # None
  <2>1. PICK i \in DOMAIN a.lines : /\ a.lines[i].name = "transfer-encoding"
                                    /\ h["transfer-encoding"] = a.lines[i].value
    BY <1>2, CollectedWasSent DEF Names
  <2>2. /\ h["transfer-encoding"] \in Coded
        /\ \A k \in DOMAIN h["transfer-encoding"].codings :
             h["transfer-encoding"].codings[k] = "chunked" =>
               /\ k = Len(h["transfer-encoding"].codings)
               /\ \A j \in DOMAIN a.lines : a.lines[j].name # "content-length"
    BY <2>1, FreshnessAssumption DEF ChunkedLast
  <2>3. h["content-length"] # None => \E j \in DOMAIN a.lines : a.lines[j].name = "content-length"
    BY CollectedWasSent DEF Names
  <2> HIDE DEF h
  <2> QED
    BY <2>2, <2>3 DEF Framed, h
<1> QED
  BY <1>1, <1>2

(* handleChunked takes the last coding away, where it knows its spelling.  *)
LEMMA DecodedIsFramed ==
  ASSUME NEW h, NEW body, DOMAIN h = Names, h["transfer-encoding"] \in Coded,
         h["transfer-encoding"].codings # << >>,
         \A k \in DOMAIN h["transfer-encoding"].codings :
           h["transfer-encoding"].codings[k] = "chunked" => k = Len(h["transfer-encoding"].codings)
  PROVE  Framed(HandleChunked(h, body))
<1> DEFINE te   == h["transfer-encoding"]
           rest == SubSeq(te.codings, 1, Len(te.codings) - 1)
           d    == HandleChunked(h, body)
<1>1. "transfer-encoding" \in DOMAIN h
  BY DEF Names
<1>2. te.codings \in Seq(STRING) /\ te.plain \in BOOLEAN /\ DOMAIN te = {"codings", "plain"}
  BY DEF Coded
<1>3. d["transfer-encoding"] = CASE ~te.plain -> te
                                 [] te.plain /\ rest = << >> -> None
                                 [] te.plain /\ rest # << >> -> [te EXCEPT !.codings = rest]
  BY <1>1 DEF HandleChunked
<1>4. \A k \in DOMAIN rest : rest[k] # "chunked"
  <2>1. Len(te.codings) \in Nat \ {0} /\ DOMAIN te.codings = 1 .. Len(te.codings)
    BY <1>2
  <2>2. DOMAIN rest = 1 .. Len(te.codings) - 1 /\ \A k \in DOMAIN rest : rest[k] = te.codings[k]
    BY <1>2, <2>1
  <2> HIDE DEF rest
  <2> QED
    BY <2>1, <2>2
<1> HIDE DEF te, rest, d
<1>5. ASSUME ~te.plain PROVE Framed(d)
  BY <1>3, <1>5 DEF Framed
<1>6. ASSUME te.plain, rest = << >> PROVE Framed(d)
  BY <1>3, <1>6 DEF Framed
<1>7. ASSUME te.plain, rest # << >> PROVE Framed(d)
  <2>1. d["transfer-encoding"].codings = rest
    BY <1>2, <1>3, <1>7
  <2> QED
    BY <1>4, <2>1 DEF Framed
<1>8. Framed(d)
  BY <1>2, <1>5, <1>6, <1>7
<1> QED
  BY <1>8 DEF d

LEMMA CreatedIsFramed ==
  ASSUME NEW a \in Answer
  PROVE  Framed(CreateResponse(a.lines, a.body))
<1> DEFINE h == CollectHeaderKV(a.lines)
<1>1. DOMAIN h = Names
  BY DEF CollectHeaderKV
<1>2. CASE ~Chunked(h)
  BY <1>2, SentIsFramed DEF CreateResponse
<1>3. CASE Chunked(h)
  <2>1. Framed(HandleChunked(h, a.body))
    BY <1>1, <1>3, SentIsFramed, DecodedIsFramed DEF Chunked
  <2> QED
    BY <1>3, <2>1 DEF CreateResponse
<1> QED
  BY <1>2, <1>3

(* A stored response says in one way where its body ends, whatever codings *)
(* it arrived in and whichever fields it gave twice.                       *)
THEOREM StoredResponsesAreFramed == SpecFreshness => []OneFraming
<1>1. InitFreshness => OneFraming
  BY DEF InitFreshness, OneFraming
<1>2. ASSUME OneFraming, [NextFreshness]_freshVars PROVE OneFraming'
  <2>1. CASE UNCHANGED stored
    BY <1>2, <2>1 DEF OneFraming
  <2>2. ASSUME NEW a \in Answer, Store(a) PROVE OneFraming'
    <3>1. Framed(stored')
      BY <2>2, CreatedIsFramed DEF Store
    <3> QED
      BY <3>1 DEF Framed, OneFraming
  <2> QED
    BY <1>2, <2>1, <2>2 DEF NextFreshness, Tick, Hit, IsFresh, freshVars
<1> QED
  BY <1>1, <1>2, PTL DEF SpecFreshness
=============================================================================

----------------------------- MODULE MCGetMethod -----------------------------
(* Small instances of GetMethod for TLC: the versions the origin publishes *)
(* under each URI, and the sets of interchangeable values.                 *)
EXTENDS GetMethod, TLC

CONSTANTS u1, u2

Version(u, n, k) == [uri |-> u, version |-> n, kind |-> k]

(* A URI whose second version may be stored or may not, may live for ever, *)
(* and may be answered with a 304, and another one.                        *)
TwoVersions ==
  {Version(u, 1, "cacheable") : u \in {u1, u2}}
    \cup {Version(u1, 2, k) : k \in {"cacheable", "uncacheable", "everlasting", "bodiless"}}

(* Two URIs that never change.                                             *)
TwoURIs == {Version(u, 1, "cacheable") : u \in {u1, u2}}

(* One URI, two versions.                                                  *)
OneURI == {Version(u1, 1, "cacheable"), Version(u1, 2, "cacheable")}

(* One URI whose second version has an age that cannot be converted.       *)
GarbledLater == {Version(u1, 1, "cacheable"), Version(u1, 2, "garbled")}

Symmetry == Permutations(Thread) \cup Permutations(Address)
=============================================================================

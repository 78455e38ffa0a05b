----------------------------- MODULE MCFreshness -----------------------------
(* A small instance of Freshness for TLC: the responses and the zones.     *)
EXTENDS Freshness

L(n, v) == [name |-> n, value |-> v]
Control(ds, m) == L("cache-control", [directives |-> ds, maxAge |-> m])
Chunks(cs, p) == L("transfer-encoding", [codings |-> cs, plain |-> p])

(* Each way to a lifetime, with dates at and after the start; an age that  *)
(* matters, one that is no number and one near the end of an int; a        *)
(* lifetime longer than the clock, and one that no int holds; no date;     *)
(* fields given twice or malformed; marked ones; chunked ones.             *)
HeadersSent == {
  <<Control({}, 6), L("date", 10)>>,
  <<Control({}, 7), L("date", 12), L("age", 6)>>,
  <<Control({}, None), L("date", 10), L("expires", 15), L("last-modified", 1)>>,
  <<Control({}, None), L("date", 12), L("expires", Bad), L("last-modified", 1)>>,
  <<Control({}, None), L("date", 12)>>,
  <<Control({}, 6), L("date", 10), L("age", 39)>>,
  <<Control({}, 6), L("date", 10), L("age", Bad)>>,
  <<Control({}, 35), L("date", 10)>>,
  <<Control({}, 41), L("date", 10)>>,
  <<Control({}, 6)>>,
  <<Control({}, 6), L("date", 10), Control({"no-store"}, None)>>,
  <<Control({"no-store"}, 6), L("date", 10)>>,
  <<Control({"private"}, 6), L("date", 10)>>,
  <<Control({}, 6), L("date", 10), L("last-modified", Bad)>>,
  <<Control({}, 6), L("date", 10), Chunks(<<"chunked">>, TRUE)>>,
  <<Control({}, 6), L("date", 10), Chunks(<<"gzip", "chunked">>, TRUE)>>,
  <<Control({}, 6), L("date", 10), Chunks(<<"gzip", "chunked">>, FALSE)>>,
  <<Control({}, 6), L("date", 10), Chunks(<<"gzip">>, TRUE), L("content-length", 7)>>,
  <<L("date", 10)>>}

Answers == {[lines |-> ls, body |-> 7] : ls \in HeadersSent}

Garbled == {-5, 20}

AtUTC == {[low |-> 0, high |-> 0]}

(* UTC, the east of the United States, and Central Europe.                 *)
Zones == AtUTC \cup {[low |-> 4, high |-> 5], [low |-> -2, high |-> -1]}
=============================================================================

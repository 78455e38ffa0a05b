------------------------------- MODULE MCCache -------------------------------
(* Small instances of Cache for TLC.                                       *)
EXTENDS Cache, TLC

Symmetry == Permutations(Thread) \cup Permutations(Address) \cup Permutations(Content) \cup Permutations(URI)
=============================================================================

----------------------------- MODULE MCHttpProxy -----------------------------
(* Small instances of HttpProxy for TLC.                                   *)
EXTENDS HttpProxy, TLC

CONSTANT MaxFd

Descriptors == 1 .. MaxFd

Symmetry == Permutations(Connection)
=============================================================================

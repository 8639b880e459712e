--------------------------- MODULE MCBackendPool ---------------------------
(* BackendPool with two addresses and a pool of two guests.                *)
EXTENDS BackendPool, TLC

Symmetry == Permutations(Ips) \cup Permutations(Sessions)
=============================================================================

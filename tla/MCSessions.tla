----------------------------- MODULE MCSessions -----------------------------
(* The registry of Sessions with a few clients. *)
EXTENDS Sessions, TLC

Symmetry == Permutations(Threads) \cup Permutations(Chunks)
=============================================================================

--------------------------- MODULE MCFeeBumpQueue ---------------------------
(* FeeBumpQueue for TLC: jobs and transactions are interchangeable. *)
EXTENDS FeeBumpQueue, TLC

Symmetry == Permutations(Jobs) \cup Permutations(Txs)
=============================================================================

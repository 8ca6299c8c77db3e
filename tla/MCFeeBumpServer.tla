--------------------------- MODULE MCFeeBumpServer --------------------------
(* FeeBumpServer for TLC: interchangeable requests of one tenant. *)
EXTENDS FeeBumpServer, TLC

MCTenantOf == [r \in Requests |-> "free"]
MCDailyQuota == [t \in Tenants |-> 4]
RequestSymmetry == Permutations(Requests)
=============================================================================

-------------------------- MODULE MCNodeSignerPool --------------------------
(***************************************************************************)
(* NodeSignerPool for TLC.  A behaviour shows either the nonces of one key *)
(* under least_used, with a guard and larger bounds, or the selection      *)
(* among all keys by round robin, without a guard as loadConfig builds it. *)
(***************************************************************************)
EXTENDS NodeSignerPool, TLC

CONSTANT OneKey

VARIABLE mode

RoundRobinPool == INSTANCE NodeSignerPool
    WITH Strategy <- "round_robin", MaxNonce <- 0, MaxUses <- 1, MaxGen <- 1

\* The other keys take no part.
OnlyOneKey ==
    /\ \A p \in DOMAIN accounts' : accounts'[p] = OneKey
    /\ \A k \in Keys \ {OneKey} : lastNonce'[k] = lastNonce[k]

MCInit ==
    /\ Init
    /\ mode \in {"nonces", "selection"} /\ (guarded <=> mode = "nonces")
    /\ mode = "nonces" => \A p \in DOMAIN accounts : accounts[p] = OneKey

MCNext ==
    /\ \/ mode = "nonces" /\ Next /\ OnlyOneKey
       \/ mode = "selection" /\ RoundRobinPool!Next
    /\ UNCHANGED mode

MCSpec == MCInit /\ [][MCNext]_<<vars, mode>>

Symmetry == Permutations(Keys \ {OneKey}) \cup Permutations(Holders)
=============================================================================

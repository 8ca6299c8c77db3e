--------------------------- MODULE HorizonCluster ---------------------------
(***************************************************************************)
(* Calls of the Rust server to a cluster of Horizon nodes                  *)
(* (paymaster-server/src/horizon.rs).  A call computes the order in which  *)
(* it will try the nodes once, under the mutex, and then awaits one HTTP   *)
(* exchange per node; the marks it leaves on the nodes interleave with     *)
(* those of other calls.  submit_transaction, fetch_account_auth and       *)
(* get_transaction share this control and differ in what ends them.        *)
(*                                                                         *)
(* The network is external: a submission that reached a node may be        *)
(* applied to the ledger whether or not its answer reaches the server.     *)
(* Timestamps and error texts are left out.                                *)
(***************************************************************************)
EXTENDS Integers, FiniteSets

CONSTANTS NNodes,     \* number of Horizon URLs
          Calls,      \* the calls made in a behaviour
          KindOf(_)   \* the operation a call performs

ASSUME ClusterAssumption ==
    /\ NNodes \in Nat \ {0}
    /\ \A c \in Calls : KindOf(c) \in {"submit", "auth", "lookup"}

Nodes == 1 .. NNodes

VARIABLES state, consecutive_node_failures,  \* HorizonNodeRuntimeState
          strategy,                          \* HorizonSelectionStrategy
          round_robin_cursor,                \* modulo the number of nodes
          order,    \* order[c]: the nodes in the order c tries them
          pos,      \* the attempt c is at
          result,   \* "new", "busy" or how the call ended
          applied,  \* submissions that are on the ledger
          loose     \* submissions with an attempt of unknown outcome

nodeVars == <<state, consecutive_node_failures, strategy, round_robin_cursor>>
callVars == <<order, pos, result>>
ledgerVars == <<applied, loose>>
clusterVars == <<nodeVars, callVars, ledgerVars>>

Orders == {p \in [Nodes -> Nodes] : \A a, b \in Nodes : p[a] = p[b] => a = b}
Unordered == [a \in Nodes |-> a]

\* One type for each variable.
ClusterTypeOK ==
    /\ state \in [Nodes -> {"Active", "Inactive"}]
    /\ consecutive_node_failures \in [Nodes -> Nat]
    /\ strategy \in {"priority", "round_robin"}
    /\ round_robin_cursor \in 0 .. NNodes - 1
    /\ order \in [Calls -> Orders]
    /\ pos \in [Calls -> Nodes]
    /\ result \in [Calls -> {"new", "busy", "ok", "refused", "exhausted"}]
    /\ applied \in SUBSET Calls
    /\ loose \in SUBSET Calls

ClusterInit ==
    /\ state = [n \in Nodes |-> "Active"]
    /\ consecutive_node_failures = [n \in Nodes |-> 0]
    /\ strategy \in {"priority", "round_robin"}
    /\ round_robin_cursor = 0
    /\ order = [c \in Calls |-> Unordered]
    /\ pos = [c \in Calls |-> 1]
    /\ result = [c \in Calls |-> "new"]
    /\ applied = {}
    /\ loose = {}

-----------------------------------------------------------------------------
(* node_order *)

\* The stable sort by "is not Active".
PriorityOrder(p) ==
    \A a, b \in Nodes : a < b =>
        \/ state[p[a]] = "Active" /\ state[p[b]] # "Active"
        \/ (state[p[a]] = "Active" <=> state[p[b]] = "Active") /\ p[a] < p[b]

\* 1, 2, ..., NNodes rotated left by the cursor.
RotatedOrder(p) ==
    \A a \in Nodes : p[a] = ((a - 1 + round_robin_cursor) % NNodes) + 1

NodeOrder(p) ==
    \/ strategy = "priority" /\ PriorityOrder(p)
    \/ strategy = "round_robin" /\ RotatedOrder(p)

Begin(c) ==
    /\ result[c] = "new"
    /\ result' = [result EXCEPT ![c] = "busy"]
    /\ \E p \in Orders :
        /\ NodeOrder(p)
        /\ order' = [order EXCEPT ![c] = p]
    /\ round_robin_cursor' = IF strategy = "round_robin"
                               THEN (round_robin_cursor + 1) % NNodes
                               ELSE round_robin_cursor
    /\ UNCHANGED <<state, consecutive_node_failures, strategy, pos, ledgerVars>>

-----------------------------------------------------------------------------
(* One exchange with the node the call is at *)

Node(c) == order[c][pos[c]]

MarkActive(n) ==
    /\ state' = [state EXCEPT ![n] = "Active"]
    /\ consecutive_node_failures' = [consecutive_node_failures EXCEPT ![n] = 0]

MarkInactive(n) ==
    /\ state' = [state EXCEPT ![n] = "Inactive"]
    /\ consecutive_node_failures' = [consecutive_node_failures EXCEPT ![n] = @ + 1]

End(c, r) == result' = [result EXCEPT ![c] = r]

\* External: Horizon answers a submission with success only once the
\* transaction is on the ledger.
Acknowledged(c) == KindOf(c) = "submit" => c \in applied

\* 2xx with a body that decodes: mark_node_active, Ok.
Succeeds(c) ==
    /\ result[c] = "busy" /\ Acknowledged(c)
    /\ MarkActive(Node(c))
    /\ End(c, "ok")
    /\ UNCHANGED <<strategy, round_robin_cursor, order, pos, ledgerVars>>

\* 2xx whose body does not decode: Err before any mark.  Also the 404 of
\* fetch_account_auth, which returns ACCOUNT_NOT_FOUND without a mark.
EndsUnmarked(c) ==
    /\ result[c] = "busy"
    /\ KindOf(c) = "auth" \/ Acknowledged(c)
    /\ End(c, "refused")
    /\ UNCHANGED <<nodeVars, order, pos, ledgerVars>>

\* A final HTTP status: mark_node_checked touches only the error text.
Refused(c) ==
    /\ result[c] = "busy"
    /\ End(c, "refused")
    /\ UNCHANGED <<nodeVars, order, pos, ledgerVars>>

\* A failover that gives up before the last node.
FailsOverEarly(c) ==
    /\ result[c] = "busy"
    /\ MarkInactive(Node(c))
    /\ IF pos[c] = NNodes - 1
         THEN End(c, "exhausted") /\ UNCHANGED pos
         ELSE pos' = [pos EXCEPT ![c] = @ + 1] /\ UNCHANGED result
    /\ loose' = IF KindOf(c) = "submit" THEN loose \cup {c} ELSE loose
    /\ UNCHANGED <<strategy, round_robin_cursor, order, applied>>

\* 408, 425, 429, 5xx or a transport error: mark_node_inactive and go on to
\* the next node, or give up after the last.
FailsOver(c) ==
    /\ result[c] = "busy"
    /\ MarkInactive(Node(c))
    /\ IF pos[c] = NNodes
         THEN End(c, "exhausted") /\ UNCHANGED pos
         ELSE pos' = [pos EXCEPT ![c] = @ + 1] /\ UNCHANGED result
    /\ loose' = IF KindOf(c) = "submit" THEN loose \cup {c} ELSE loose
    /\ UNCHANGED <<strategy, round_robin_cursor, order, applied>>

\* External: the network applies a transaction that some node may hold.
LedgerApplies(c) ==
    /\ KindOf(c) = "submit" /\ c \notin applied
    /\ result[c] = "busy" \/ c \in loose
    /\ applied' = applied \cup {c}
    /\ UNCHANGED <<nodeVars, callVars, loose>>

Exchange(c) == Succeeds(c) \/ EndsUnmarked(c) \/ Refused(c) \/ FailsOver(c)

ClusterNext == \E c \in Calls : Begin(c) \/ Exchange(c) \/ LedgerApplies(c)

ClusterSpec == ClusterInit /\ [][ClusterNext]_clusterVars

-----------------------------------------------------------------------------
(* Properties *)

\* The state a node is given by mark_node_active and mark_node_inactive and
\* its failure count agree, in every interleaving of the marks of calls.
NodeHealthAgrees ==
    \A n \in Nodes : state[n] = "Active" <=> consecutive_node_failures[n] = 0

Tried(c) == {order[c][a] : a \in 1 .. pos[c]}

\* submit_transaction reports "all Horizon nodes failed" only after an
\* attempt on every node, the ones marked Inactive included, although the
\* order was computed before the other calls changed the marks.
ExhaustedTriedEveryNode ==
    \A c \in Calls : result[c] = "exhausted" => Tried(c) = Nodes

StartedAt(n) == {c \in Calls : result[c] # "new" /\ order[c][1] = n}

\* round_robin: the numbers of calls that started at two nodes differ by at
\* most one, whatever happened to the calls in between.
RoundRobinBalanced ==
    strategy = "round_robin" =>
        \A n, m \in Nodes :
            Cardinality(StartedAt(n)) <= Cardinality(StartedAt(m)) + 1

\* The failover loop is sound under concurrent calls: marks agree with the
\* counts, nobody gives up before every node was tried, and round robin
\* spreads the calls evenly.
ClusterInv ==
    ClusterTypeOK /\ NodeHealthAgrees /\ ExhaustedTriedEveryNode /\ RoundRobinBalanced
=============================================================================

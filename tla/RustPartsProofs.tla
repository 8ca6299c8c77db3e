--------------------------- MODULE RustPartsProofs ---------------------------
(***************************************************************************)
(* What the parts of the Rust server guarantee on their own, for every     *)
(* number of accounts, requests, nodes, processes and rows and for every   *)
(* threshold.                                                              *)
(*                                                                         *)
(* The signer pool: the inductive invariant is the conjunction of the type *)
(* invariant and the four named invariants of its module; each is          *)
(* preserved with the help of at most two of the others.                   *)
(* The Horizon cluster: what the calls keep (CallsInv) and where the       *)
(* round-robin cursor is after the calls begun so far.                     *)
(* The archival job: where each process is in its batch, and that the      *)
(* batch it deletes is in its object.                                      *)
(***************************************************************************)
EXTENDS SignerPool, HorizonCluster, ArchivalJob, FiniteSetTheorems,
        WellFoundedInduction, TLAPS

\* Every action of the pool keeps every variable in its type.
LEMMA PoolTypeStep ==
    PoolTypeOK /\ [PoolNext]_poolVars => PoolTypeOK'
<1> SUFFICES ASSUME PoolTypeOK, [PoolNext]_poolVars PROVE PoolTypeOK'
    OBVIOUS
<1> USE PoolAssumption DEF PoolTypeOK, Accounts
<1>1. ASSUME NEW h \in Holders, Acquire(h) PROVE PoolTypeOK'
    BY <1>1 DEF Acquire, Selected, taskVars
<1>2. ASSUME NEW h \in Holders, ReportSuccess(h) PROVE PoolTypeOK'
    BY <1>2 DEF ReportSuccess, Holding, taskVars
<1>3. ASSUME NEW h \in Holders, ReportFailure(h) PROVE PoolTypeOK'
    BY <1>3 DEF ReportFailure, Holding, taskVars
<1>4. ASSUME NEW h \in Holders, Release(h) PROVE PoolTypeOK'
  <2>1. \A n \in Nat : Decrement(n) \in Nat
      BY DEF Decrement
  <2>2. lease[h] \in Accounts /\ in_flight[lease[h]] \in Nat
      BY <1>4 DEF Release, Holding
  <2>3. in_flight' \in [Accounts -> Nat]
      BY <1>4, <2>1, <2>2 DEF Release
  <2>4. lease' \in [Holders -> 0 .. N]
      BY <1>4 DEF Release
  <2> QED BY <1>4, <2>3, <2>4 DEF Release, taskVars
<1>5. ASSUME NEW h \in Holders, Abandon(h) PROVE PoolTypeOK'
    BY <1>5 DEF Abandon, accountVars, taskVars
<1>6. CASE RevalidateSnapshot
    BY <1>6 DEF RevalidateSnapshot, accountVars, leaseVars
<1>7. ASSUME NEW b \in Balances, RevalidateApply(b) PROVE PoolTypeOK'
    BY <1>7 DEF RevalidateApply, Advance, leaseVars
<1>8. CASE RevalidateSkip
    BY <1>8 DEF RevalidateSkip, Advance, accountVars, leaseVars
<1>9. CASE UNCHANGED poolVars
    BY <1>9 DEF poolVars, accountVars, leaseVars, taskVars
<1> QED BY <1>1, <1>2, <1>3, <1>4, <1>5, <1>6, <1>7, <1>8, <1>9
        DEF PoolNext, Revalidate

\* The type invariant of the pool: no counter of state.rs leaves its range.
THEOREM PoolTypeCorrect == PoolSpec => []PoolTypeOK
<1>1. PoolInit => PoolTypeOK
    BY PoolAssumption DEF PoolInit, PoolTypeOK, Accounts
<1> QED BY <1>1, PoolTypeStep, PTL DEF PoolSpec

-----------------------------------------------------------------------------
\* report_failure takes an account out of service at the threshold and only
\* revalidation, which clears the counter, puts one back.
THEOREM ActiveAccountsBelowThreshold == PoolSpec => []ActiveBelowThreshold
<1>1. PoolInit => ActiveBelowThreshold
    BY PoolAssumption DEF PoolInit, ActiveBelowThreshold, Accounts
<1>2. PoolTypeOK /\ ActiveBelowThreshold /\ [PoolNext]_poolVars
        => ActiveBelowThreshold'
  <2> SUFFICES ASSUME PoolTypeOK, ActiveBelowThreshold, [PoolNext]_poolVars
               PROVE  ActiveBelowThreshold'
      OBVIOUS
  <2> USE PoolAssumption DEF PoolTypeOK, ActiveBelowThreshold, Accounts
  <2>1. ASSUME NEW h \in Holders, Acquire(h) PROVE ActiveBelowThreshold'
      BY <2>1 DEF Acquire
  <2>2. ASSUME NEW h \in Holders, ReportSuccess(h) PROVE ActiveBelowThreshold'
      BY <2>2 DEF ReportSuccess, Holding
  <2>3. ASSUME NEW h \in Holders, ReportFailure(h) PROVE ActiveBelowThreshold'
      BY <2>3 DEF ReportFailure, Holding
  <2>4. ASSUME NEW h \in Holders, Release(h) PROVE ActiveBelowThreshold'
      BY <2>4 DEF Release
  <2>5. ASSUME NEW h \in Holders, Abandon(h) PROVE ActiveBelowThreshold'
      BY <2>5 DEF Abandon, accountVars
  <2>6. CASE RevalidateSnapshot
      BY <2>6 DEF RevalidateSnapshot, accountVars
  <2>7. ASSUME NEW b \in Balances, RevalidateApply(b)
        PROVE  ActiveBelowThreshold'
      BY <2>7 DEF RevalidateApply
  <2>8. CASE RevalidateSkip
      BY <2>8 DEF RevalidateSkip, accountVars
  <2>9. CASE UNCHANGED poolVars
      BY <2>9 DEF poolVars, accountVars
  <2> QED BY <2>1, <2>2, <2>3, <2>4, <2>5, <2>6, <2>7, <2>8, <2>9
          DEF PoolNext, Revalidate
<1> QED BY <1>1, <1>2, PoolTypeCorrect, PTL DEF PoolSpec

\* The copy of the active flags revalidate works from, however stale, never
\* calls an account inactive that is back in service.
THEOREM StaleSnapshotIsSound == PoolSpec => []SnapshotSound
<1>1. PoolInit => SnapshotSound
    BY DEF PoolInit, SnapshotSound
<1>2. PoolTypeOK /\ SnapshotSound /\ [PoolNext]_poolVars => SnapshotSound'
  <2> SUFFICES ASSUME PoolTypeOK, SnapshotSound, [PoolNext]_poolVars
               PROVE  SnapshotSound'
      OBVIOUS
  <2> USE PoolAssumption DEF PoolTypeOK, SnapshotSound, Accounts
  <2>1. ASSUME NEW h \in Holders, Acquire(h) PROVE SnapshotSound'
      BY <2>1 DEF Acquire, taskVars
  <2>2. ASSUME NEW h \in Holders, ReportSuccess(h) PROVE SnapshotSound'
      BY <2>2 DEF ReportSuccess, taskVars
  <2>3. ASSUME NEW h \in Holders, ReportFailure(h) PROVE SnapshotSound'
      BY <2>3 DEF ReportFailure, Holding, taskVars
  <2>4. ASSUME NEW h \in Holders, Release(h) PROVE SnapshotSound'
      BY <2>4 DEF Release, taskVars
  <2>5. ASSUME NEW h \in Holders, Abandon(h) PROVE SnapshotSound'
      BY <2>5 DEF Abandon, accountVars, taskVars
  <2>6. CASE RevalidateSnapshot
      BY <2>6 DEF RevalidateSnapshot, accountVars
  <2>7. ASSUME NEW b \in Balances, RevalidateApply(b) PROVE SnapshotSound'
      BY <2>7 DEF RevalidateApply, Advance
  <2>8. CASE RevalidateSkip
      BY <2>8 DEF RevalidateSkip, Advance, accountVars
  <2>9. CASE UNCHANGED poolVars
      BY <2>9 DEF poolVars, accountVars, taskVars
  <2> QED BY <2>1, <2>2, <2>3, <2>4, <2>5, <2>6, <2>7, <2>8, <2>9
          DEF PoolNext, Revalidate
<1> QED BY <1>1, <1>2, PoolTypeCorrect, PTL DEF PoolSpec

\* A deactivated account returns to service only through revalidation's own
\* answer for it, and with its failures cleared.
THEOREM OnlyRevalidationReenables == PoolSpec => ReenabledOnlyByRevalidation
<1>1. PoolTypeOK /\ [PoolNext]_poolVars => [CleanReenable]_poolVars
  <2> SUFFICES ASSUME PoolTypeOK, PoolNext PROVE CleanReenable
      OBVIOUS
  <2> USE PoolAssumption DEF PoolTypeOK, Accounts, CleanReenable
  <2>1. ASSUME NEW h \in Holders,
               Acquire(h) \/ ReportSuccess(h) \/ Release(h) \/ Abandon(h)
        PROVE  CleanReenable
      BY <2>1 DEF Acquire, ReportSuccess, Release, Abandon, accountVars
  <2>2. ASSUME NEW h \in Holders, ReportFailure(h) PROVE CleanReenable
      BY <2>2 DEF ReportFailure, Holding
  <2>3. CASE RevalidateSnapshot \/ RevalidateSkip
      BY <2>3 DEF RevalidateSnapshot, RevalidateSkip, accountVars
  <2>4. ASSUME NEW b \in Balances, RevalidateApply(b) PROVE CleanReenable
      BY <2>4 DEF RevalidateApply
  <2> QED BY <2>1, <2>2, <2>3, <2>4 DEF PoolNext, Revalidate
<1> QED BY <1>1, PoolTypeCorrect, PTL DEF PoolSpec, ReenabledOnlyByRevalidation

-----------------------------------------------------------------------------
\* Sets of leases are finite, so that they can be counted.
LEMMA LeasesFinite ==
    ASSUME NEW i
    PROVE  /\ IsFiniteSet(LeasesOf(i)) /\ Cardinality(LeasesOf(i)) \in Nat
           /\ IsFiniteSet(UnreportedLeasesOf(i))
           /\ Cardinality(UnreportedLeasesOf(i)) \in Nat
           /\ Cardinality(UnreportedLeasesOf(i)) <= Cardinality(Holders)
<1>1. LeasesOf(i) \in SUBSET Holders /\ UnreportedLeasesOf(i) \in SUBSET Holders
    BY DEF LeasesOf, UnreportedLeasesOf
<1> QED BY <1>1, PoolAssumption, FS_Subset, FS_CardinalityType

\* Taking a lease adds one element to the leases of the chosen account, giving
\* it back removes one; nothing else moves a lease, whoever was abandoned.
THEOREM LeasesAreCounted == PoolSpec => []LeaseAccounting
<1>1. PoolInit => LeaseAccounting
  <2> SUFFICES ASSUME PoolInit, NEW i \in Accounts
               PROVE  in_flight[i] = Cardinality(LeasesOf(i))
      BY DEF LeaseAccounting
  <2>1. LeasesOf(i) = {}
      BY DEF PoolInit, LeasesOf, Accounts
  <2> QED BY <2>1, FS_EmptySet DEF PoolInit
<1>2. PoolTypeOK /\ LeaseAccounting /\ [PoolNext]_poolVars => LeaseAccounting'
  <2> SUFFICES ASSUME PoolTypeOK, LeaseAccounting, [PoolNext]_poolVars,
                      NEW j \in Accounts
               PROVE  in_flight'[j] = Cardinality(LeasesOf(j)')
      BY DEF LeaseAccounting
  <2>0. in_flight[j] = Cardinality(LeasesOf(j)) /\ in_flight[j] \in Nat
      BY DEF LeaseAccounting, PoolTypeOK
  <2>1. ASSUME NEW h \in Holders, Acquire(h)
        PROVE  in_flight'[j] = Cardinality(LeasesOf(j)')
    <3>1. PICK i \in Accounts :
            /\ in_flight' = [in_flight EXCEPT ![i] = @ + 1]
            /\ lease' = [lease EXCEPT ![h] = i]
        BY <2>1 DEF Acquire
    <3>2. lease[h] = 0
        BY <2>1 DEF Acquire
    <3>3. CASE i = j
      <4>1. LeasesOf(j)' = LeasesOf(j) \cup {h} /\ h \notin LeasesOf(j)
          BY <3>1, <3>2, <3>3 DEF LeasesOf, PoolTypeOK, Accounts
      <4>2. Cardinality(LeasesOf(j)') = in_flight[j] + 1
          BY <2>0, <4>1, LeasesFinite, FS_AddElement
      <4>3. in_flight'[j] = in_flight[j] + 1
          BY <3>1, <3>3 DEF PoolTypeOK
      <4> QED BY <4>2, <4>3
    <3>4. CASE i # j
      <4>1. LeasesOf(j)' = LeasesOf(j)
          BY <3>1, <3>2, <3>4 DEF LeasesOf, PoolTypeOK, Accounts
      <4> QED BY <2>0, <3>1, <3>4, <4>1 DEF PoolTypeOK
    <3> QED BY <3>3, <3>4
  <2>2. ASSUME NEW h \in Holders, Release(h)
        PROVE  in_flight'[j] = Cardinality(LeasesOf(j)')
    <3>1. CASE lease[h] = j
      <4>1. LeasesOf(j)' = LeasesOf(j) \ {h} /\ h \in LeasesOf(j)
          BY <2>2, <3>1 DEF LeasesOf, PoolTypeOK, Accounts, Release
      <4>2. Cardinality(LeasesOf(j)') = in_flight[j] - 1
          BY <2>0, <4>1, LeasesFinite, FS_RemoveElement
      <4>3. in_flight[j] # 0
          BY <2>0, <4>1, LeasesFinite, FS_EmptySet
      <4>4. in_flight'[j] = in_flight[j] - 1
          BY <2>0, <2>2, <3>1, <4>3 DEF Release, Decrement, PoolTypeOK
      <4> QED BY <4>2, <4>4
    <3>2. CASE lease[h] # j
      <4>1. LeasesOf(j)' = LeasesOf(j)
          BY <2>2, <3>2 DEF LeasesOf, PoolTypeOK, Accounts, Release
      <4> QED BY <2>0, <2>2, <3>2, <4>1 DEF Release, PoolTypeOK
    <3> QED BY <3>1, <3>2
  <2>3. CASE UNCHANGED <<in_flight, lease>>
      BY <2>0, <2>3 DEF LeasesOf
  <2>4. ASSUME NEW h \in Holders,
               ReportSuccess(h) \/ ReportFailure(h) \/ Abandon(h)
        PROVE  UNCHANGED <<in_flight, lease>>
      BY <2>4 DEF ReportSuccess, ReportFailure, Abandon, accountVars
  <2>5. CASE Revalidate
      BY <2>3, <2>5 DEF Revalidate, RevalidateSnapshot, RevalidateApply,
                        RevalidateSkip, accountVars, leaseVars
  <2>6. CASE UNCHANGED poolVars
      BY <2>3, <2>6 DEF poolVars, accountVars, leaseVars
  <2> QED BY <2>1, <2>2, <2>3, <2>4, <2>5, <2>6 DEF PoolNext
<1> QED BY <1>1, <1>2, PoolTypeCorrect, PTL DEF PoolSpec

-----------------------------------------------------------------------------
\* Each lease reports at most once and no lease is taken on an inactive
\* account, so the failures that pile up after a deactivation are bounded by
\* the requests that were already running.
THEOREM FailureCountersBounded == PoolSpec => []FailuresBounded
<1> DEFINE Bound == (FAILURE_THRESHOLD - 1) + Cardinality(Holders)
<1>0. Cardinality(Holders) \in Nat /\ FAILURE_THRESHOLD \in Nat \ {0}
    BY PoolAssumption, FS_CardinalityType
<1>1. PoolInit => FailuresBounded
  <2> SUFFICES ASSUME PoolInit, NEW i \in Accounts
               PROVE  consecutive_failures[i]
                        + Cardinality(UnreportedLeasesOf(i)) <= Bound
      BY DEF FailuresBounded
  <2> QED BY <1>0, LeasesFinite DEF PoolInit
<1>2. PoolTypeOK /\ ActiveBelowThreshold /\ FailuresBounded
        /\ PoolTypeOK' /\ ActiveBelowThreshold' /\ [PoolNext]_poolVars
        => FailuresBounded'
  <2> SUFFICES ASSUME PoolTypeOK, ActiveBelowThreshold, FailuresBounded,
                      PoolTypeOK', ActiveBelowThreshold', [PoolNext]_poolVars,
                      NEW j \in Accounts
               PROVE  consecutive_failures'[j]
                        + Cardinality(UnreportedLeasesOf(j)') <= Bound
      BY DEF FailuresBounded
  <2> DEFINE U == UnreportedLeasesOf(j)
  <2>0. /\ consecutive_failures[j] \in Nat /\ consecutive_failures'[j] \in Nat
        /\ consecutive_failures[j] + Cardinality(U) <= Bound
      BY DEF FailuresBounded, PoolTypeOK
  <2>1. /\ IsFiniteSet(U) /\ Cardinality(U) \in Nat
      BY LeasesFinite
  <2>2. U' \in SUBSET Holders
      BY DEF UnreportedLeasesOf, LeasesOf
  <2>3. /\ IsFiniteSet(U') /\ Cardinality(U') \in Nat
        /\ Cardinality(U') <= Cardinality(Holders)
      BY <2>2, PoolAssumption, FS_Subset, FS_CardinalityType
  <2>4. CASE active'[j]
    <3>1. consecutive_failures'[j] <= FAILURE_THRESHOLD - 1
        BY <1>0, <2>0, <2>4 DEF ActiveBelowThreshold
    <3> QED BY <1>0, <2>0, <2>3, <3>1
  <2>5. ASSUME consecutive_failures'[j] <= consecutive_failures[j], U' \subseteq U
        PROVE  consecutive_failures'[j] + Cardinality(U') <= Bound
    <3>1. Cardinality(U') <= Cardinality(U)
        BY <2>1, <2>5, FS_Subset
    <3> QED BY <1>0, <2>0, <2>1, <2>3, <2>5, <3>1
  <2>6. ASSUME NEW h \in Holders, Acquire(h), ~active'[j]
        PROVE  consecutive_failures'[j] + Cardinality(U') <= Bound
    <3>1. PICK i \in Accounts : active[i] /\ lease' = [lease EXCEPT ![h] = i]
        BY <2>6 DEF Acquire, Selected
    <3>2. i # j /\ consecutive_failures' = consecutive_failures
        BY <2>6, <3>1 DEF Acquire
    <3>3. U' \subseteq U
        BY <2>6, <3>1, <3>2 DEF UnreportedLeasesOf, LeasesOf, Acquire, PoolTypeOK
    <3> QED BY <2>0, <2>5, <3>2, <3>3
  <2>7. ASSUME NEW h \in Holders, ReportSuccess(h)
        PROVE  consecutive_failures'[j] + Cardinality(U') <= Bound
    <3>1. U' \subseteq U
        BY <2>7 DEF ReportSuccess, UnreportedLeasesOf, LeasesOf, PoolTypeOK
    <3>2. consecutive_failures'[j] <= consecutive_failures[j]
        BY <2>0, <2>7 DEF ReportSuccess, PoolTypeOK
    <3> QED BY <2>5, <3>1, <3>2
  <2>8. ASSUME NEW h \in Holders, ReportFailure(h)
        PROVE  consecutive_failures'[j] + Cardinality(U') <= Bound
    <3>1. CASE lease[h] = j
      <4>1. U' = U \ {h} /\ h \in U
          BY <2>8, <3>1
          DEF ReportFailure, UnreportedLeasesOf, LeasesOf, PoolTypeOK
      <4>2. Cardinality(U') = Cardinality(U) - 1
          BY <2>1, <4>1, FS_RemoveElement
      <4>3. consecutive_failures'[j] = consecutive_failures[j] + 1
          BY <2>8, <3>1 DEF ReportFailure, PoolTypeOK
      <4> QED BY <1>0, <2>0, <2>1, <4>2, <4>3
    <3>2. CASE lease[h] # j
      <4>1. U' \subseteq U
          BY <2>8 DEF ReportFailure, UnreportedLeasesOf, LeasesOf, PoolTypeOK
      <4>2. consecutive_failures'[j] = consecutive_failures[j]
          BY <2>8, <3>2 DEF ReportFailure, PoolTypeOK
      <4> QED BY <2>0, <2>5, <4>1, <4>2
    <3> QED BY <3>1, <3>2
  <2>9. ASSUME NEW h \in Holders, Release(h)
        PROVE  consecutive_failures'[j] + Cardinality(U') <= Bound
    <3>1. U' \subseteq U /\ consecutive_failures' = consecutive_failures
        BY <2>9 DEF Release, UnreportedLeasesOf, LeasesOf, PoolTypeOK, Accounts
    <3> QED BY <2>0, <2>5, <3>1
  <2>10. ASSUME NEW h \in Holders, Abandon(h)
         PROVE  consecutive_failures'[j] + Cardinality(U') <= Bound
    <3>1. U' \subseteq U /\ consecutive_failures' = consecutive_failures
        BY <2>10 DEF Abandon, accountVars, UnreportedLeasesOf, LeasesOf
    <3> QED BY <2>0, <2>5, <3>1
  <2>11. CASE Revalidate
    <3>1. U' \subseteq U
        BY <2>11 DEF Revalidate, RevalidateSnapshot, RevalidateApply,
           RevalidateSkip, leaseVars, UnreportedLeasesOf, LeasesOf
    <3>2. consecutive_failures'[j] <= consecutive_failures[j]
        BY <2>0, <2>11 DEF Revalidate, RevalidateSnapshot, RevalidateApply,
           RevalidateSkip, accountVars, PoolTypeOK
    <3> QED BY <2>5, <3>1, <3>2
  <2>12. CASE UNCHANGED poolVars
    <3>1. U' \subseteq U /\ consecutive_failures' = consecutive_failures
        BY <2>12 DEF poolVars, accountVars, leaseVars, UnreportedLeasesOf, LeasesOf
    <3> QED BY <2>0, <2>5, <3>1
  <2>13. active'[j] \in BOOLEAN
      BY DEF PoolTypeOK
  <2> QED BY <2>4, <2>6, <2>7, <2>8, <2>9, <2>10, <2>11, <2>12, <2>13
          DEF PoolNext
<1> QED BY <1>1, <1>2, PoolTypeCorrect, ActiveAccountsBelowThreshold, PTL
        DEF PoolSpec

\* The pool's accounts stay healthy, all four parts together (the health that
\* state.rs keeps per account): types, threshold, stale copy and counters.
THEOREM HealthIsSound == PoolSpec => []HealthSound
BY PoolTypeCorrect, ActiveAccountsBelowThreshold, StaleSnapshotIsSound,
   FailureCountersBounded, PTL DEF HealthSound
-----------------------------------------------------------------------------
\* The attempts of a call go through the whole order before it gives up.
ExhaustedAtEnd == \A c \in Calls : result[c] = "exhausted" => pos[c] = NNodes

CallsInv == ClusterTypeOK /\ NodeHealthAgrees /\ ExhaustedAtEnd

\* Numbers below NNodes and the cursor's increment, as the provers need them.
LEMMA CursorStep ==
    ASSUME NEW k \in 0 .. NNodes - 1
    PROVE  /\ (k + 1) % NNodes = IF k + 1 = NNodes THEN 0 ELSE k + 1
           /\ k % NNodes = k
BY ClusterAssumption

\* The start of a call computes an order of all nodes and moves the cursor.
LEMMA BeginKeepsCalls ==
    ASSUME CallsInv, NEW c \in Calls, Begin(c) PROVE CallsInv'
<1> USE ClusterAssumption DEF CallsInv, ClusterTypeOK, Nodes
<1>1. /\ result' = [result EXCEPT ![c] = "busy"]
      /\ \E p \in Orders : order' = [order EXCEPT ![c] = p]
      /\ UNCHANGED <<state, consecutive_node_failures, strategy, pos, applied, loose>>
    BY DEF Begin, ledgerVars
<1>2. round_robin_cursor' \in 0 .. NNodes - 1
  <2>1. (round_robin_cursor + 1) % NNodes \in 0 .. NNodes - 1
      BY CursorStep
  <2> QED BY <2>1 DEF Begin
<1>3. ClusterTypeOK'
    BY <1>1, <1>2
<1> QED BY <1>1, <1>3 DEF NodeHealthAgrees, ExhaustedAtEnd

\* One exchange: the node is marked and its count follows, and a call that
\* gives up has been at the last place of its order.
LEMMA ExchangeKeepsCalls ==
    ASSUME CallsInv, NEW c \in Calls, Exchange(c) PROVE CallsInv'
<1> USE ClusterAssumption DEF CallsInv
<1>0. Node(c) \in Nodes /\ pos[c] \in Nodes
    BY DEF ClusterTypeOK, Node, Orders
<1>1. CASE Succeeds(c)
  <2>1. /\ state' = [state EXCEPT ![Node(c)] = "Active"]
        /\ consecutive_node_failures' =
             [consecutive_node_failures EXCEPT ![Node(c)] = 0]
        /\ result' = [result EXCEPT ![c] = "ok"]
        /\ UNCHANGED <<strategy, round_robin_cursor, order, pos, applied, loose>>
      BY <1>1 DEF Succeeds, MarkActive, End, ledgerVars
  <2>2. ClusterTypeOK'
      BY <1>0, <2>1 DEF ClusterTypeOK
  <2>3. NodeHealthAgrees'
      BY <1>0, <2>1 DEF ClusterTypeOK, NodeHealthAgrees
  <2>4. ExhaustedAtEnd'
      BY <2>1 DEF ClusterTypeOK, ExhaustedAtEnd
  <2> QED BY <2>2, <2>3, <2>4
<1>2. CASE EndsUnmarked(c) \/ Refused(c)
  <2>1. /\ result' = [result EXCEPT ![c] = "refused"]
        /\ UNCHANGED <<state, consecutive_node_failures, strategy,
                       round_robin_cursor, order, pos, applied, loose>>
      BY <1>2 DEF EndsUnmarked, Refused, End, ledgerVars, nodeVars
  <2>2. ClusterTypeOK'
      BY <2>1 DEF ClusterTypeOK
  <2> QED BY <2>1, <2>2 DEF ClusterTypeOK, NodeHealthAgrees, ExhaustedAtEnd
<1>3. CASE FailsOver(c)
  <2>1. /\ state' = [state EXCEPT ![Node(c)] = "Inactive"]
        /\ consecutive_node_failures' =
             [consecutive_node_failures EXCEPT ![Node(c)] = @ + 1]
        /\ UNCHANGED <<strategy, round_robin_cursor, order, applied>>
      BY <1>3 DEF FailsOver, MarkInactive
  <2>2. /\ \/ pos[c] = NNodes /\ result' = [result EXCEPT ![c] = "exhausted"] /\ UNCHANGED pos
           \/ pos[c] # NNodes /\ pos' = [pos EXCEPT ![c] = @ + 1] /\ UNCHANGED result
        /\ result[c] = "busy"
      BY <1>3 DEF FailsOver, End
  <2>3. loose' \in SUBSET Calls
      BY <1>3 DEF FailsOver, ClusterTypeOK
  <2>4. pos' \in [Calls -> Nodes]
    <3>1. pos[c] # NNodes => pos[c] + 1 \in Nodes
        BY <1>0 DEF Nodes
    <3>2. pos \in [Calls -> Nodes]
        BY DEF ClusterTypeOK
    <3> QED BY <2>2, <3>1, <3>2
  <2>5. result' \in [Calls -> {"new", "busy", "ok", "refused", "exhausted"}]
      BY <2>2 DEF ClusterTypeOK
  <2>6. /\ state' \in [Nodes -> {"Active", "Inactive"}]
        /\ consecutive_node_failures' \in [Nodes -> Nat]
      BY <1>0, <2>1 DEF ClusterTypeOK
  <2>7. ClusterTypeOK'
      BY <2>1, <2>3, <2>4, <2>5, <2>6 DEF ClusterTypeOK
  <2>8. NodeHealthAgrees'
      BY <1>0, <2>1 DEF ClusterTypeOK, NodeHealthAgrees
  <2>9. ExhaustedAtEnd'
      BY <2>2 DEF ClusterTypeOK, ExhaustedAtEnd
  <2> QED BY <2>7, <2>8, <2>9
<1> QED BY <1>1, <1>2, <1>3 DEF Exchange

\* An order that repeats no node leaves none out.
LEMMA OrderCoversNodes ==
    ASSUME NEW p \in Orders PROVE {p[a] : a \in Nodes} = Nodes
<1>1. IsFiniteSet(Nodes)
    BY FS_Interval, ClusterAssumption DEF Nodes
<1>2. p \in Injection(Nodes, Nodes)
    BY DEF Orders, Injection, IsInjective
<1>3. p \in Surjection(Nodes, Nodes)
    BY <1>1, <1>2, FS_Injection
<1> QED BY <1>2, <1>3 DEF Surjection, Injection

\* The failover loop gives up only behind the last node of its order, and an
\* order leaves no node out (horizon.rs, submit_transaction).
LEMMA ExhaustedTriedAll == CallsInv => ExhaustedTriedEveryNode
<1> SUFFICES ASSUME CallsInv, NEW c \in Calls, result[c] = "exhausted"
             PROVE  Tried(c) = Nodes
    BY DEF ExhaustedTriedEveryNode
<1>1. pos[c] = NNodes /\ order[c] \in Orders
    BY DEF CallsInv, ExhaustedAtEnd, ClusterTypeOK
<1> QED BY <1>1, OrderCoversNodes DEF Tried, Nodes

-----------------------------------------------------------------------------
\* Under round robin the nodes up to the cursor have one start more than the
\* others, which all have the same number.
StartsFollowCursor ==
    /\ \A n \in Nodes : IsFiniteSet(StartedAt(n))
    /\ strategy = "round_robin" =>
         \E q \in Nat : \A n \in Nodes :
            Cardinality(StartedAt(n)) = IF n <= round_robin_cursor THEN q + 1 ELSE q

\* A call that starts adds itself to the node its order begins with.
LEMMA BeginAddsStart ==
    ASSUME CallsInv, NEW c \in Calls, Begin(c), NEW n \in Nodes
    PROVE  /\ c \notin StartedAt(n)
           /\ StartedAt(n)' = StartedAt(n) \/ StartedAt(n)' = StartedAt(n) \cup {c}
           /\ strategy = "round_robin" =>
                StartedAt(n)' = IF n = round_robin_cursor + 1
                                THEN StartedAt(n) \cup {c} ELSE StartedAt(n)
<1>1. PICK p \in Orders : NodeOrder(p) /\ order' = [order EXCEPT ![c] = p]
    BY DEF Begin
<1>2. result[c] = "new" /\ result' = [result EXCEPT ![c] = "busy"]
    BY DEF Begin
<1>3. StartedAt(n)' = IF p[1] = n THEN StartedAt(n) \cup {c} ELSE StartedAt(n)
    BY <1>1, <1>2 DEF CallsInv, ClusterTypeOK, StartedAt
<1>4. strategy = "round_robin" => p[1] = round_robin_cursor + 1
  <2> SUFFICES ASSUME strategy = "round_robin" PROVE p[1] = round_robin_cursor + 1
      OBVIOUS
  <2>1. 1 \in Nodes /\ round_robin_cursor \in 0 .. NNodes - 1
      BY ClusterAssumption DEF Nodes, CallsInv, ClusterTypeOK
  <2>2. p[1] = ((1 - 1 + round_robin_cursor) % NNodes) + 1
      BY <1>1, <2>1 DEF NodeOrder, RotatedOrder
  <2>3. 1 - 1 + round_robin_cursor = round_robin_cursor
      BY <2>1
  <2> QED BY <2>1, <2>2, <2>3, CursorStep
<1>5. c \notin StartedAt(n)
    BY <1>2 DEF StartedAt
<1> QED BY <1>3, <1>4, <1>5

\* The start of a call keeps the starts behind the cursor.
LEMMA BeginKeepsStarts ==
    ASSUME CallsInv, StartsFollowCursor, NEW c \in Calls, Begin(c)
    PROVE  StartsFollowCursor'
<1> DEFINE cur == round_robin_cursor
<1>1. \A n \in Nodes : IsFiniteSet(StartedAt(n)')
    BY BeginAddsStart, FS_AddElement DEF StartsFollowCursor
<1>2. ASSUME strategy = "round_robin"
      PROVE  \E q \in Nat : \A n \in Nodes :
               Cardinality(StartedAt(n)') = IF n <= cur' THEN q + 1 ELSE q
  <2>1. PICK q \in Nat : \A n \in Nodes :
            Cardinality(StartedAt(n)) = IF n <= cur THEN q + 1 ELSE q
      BY <1>2 DEF StartsFollowCursor
  <2>2. cur \in 0 .. NNodes - 1 /\ NNodes \in Nat \ {0}
      BY ClusterAssumption DEF CallsInv, ClusterTypeOK
  <2>3. cur' = IF cur + 1 = NNodes THEN 0 ELSE cur + 1
      BY <1>2, <2>2, CursorStep DEF Begin
  <2>4. \A n \in Nodes : Cardinality(StartedAt(n)') =
                           IF n <= cur + 1 THEN q + 1 ELSE q
    <3> SUFFICES ASSUME NEW n \in Nodes
                 PROVE  Cardinality(StartedAt(n)') = IF n <= cur + 1 THEN q + 1 ELSE q
        OBVIOUS
    <3>0. n \in Nat
        BY DEF Nodes
    <3>1. CASE n = cur + 1
      <4>1. StartedAt(n)' = StartedAt(n) \cup {c} /\ c \notin StartedAt(n)
          BY <1>2, <3>1, BeginAddsStart
      <4>2. Cardinality(StartedAt(n)') = Cardinality(StartedAt(n)) + 1
          BY <4>1, FS_AddElement DEF StartsFollowCursor
      <4>3. Cardinality(StartedAt(n)) = q
          BY <2>1, <2>2, <3>1
      <4> QED BY <3>1, <4>2, <4>3, <2>2
    <3>2. CASE n # cur + 1
      <4>1. StartedAt(n)' = StartedAt(n)
          BY <1>2, <3>2, BeginAddsStart
      <4> QED BY <2>1, <2>2, <3>0, <3>2, <4>1
    <3> QED BY <3>1, <3>2
  <2>5. CASE cur + 1 = NNodes
    <3>1. q + 1 \in Nat /\ \A n \in Nodes : ~(n <= cur') /\ n <= cur + 1
        BY <2>2, <2>3, <2>5 DEF Nodes
    <3>2. \A n \in Nodes : Cardinality(StartedAt(n)') =
                             IF n <= cur' THEN (q + 1) + 1 ELSE q + 1
        BY <2>4, <3>1
    <3> QED BY <3>1, <3>2
  <2>6. CASE cur + 1 # NNodes
      BY <2>3, <2>4, <2>6
  <2> QED BY <2>5, <2>6
<1>3. UNCHANGED strategy
    BY DEF Begin
<1> QED BY <1>1, <1>2, <1>3 DEF StartsFollowCursor

\* round_robin hands out the nodes in turn, so the nodes before the cursor are
\* ahead by one and no other difference exists.
LEMMA StartsAreBalanced ==
    ASSUME CallsInv, StartsFollowCursor PROVE RoundRobinBalanced
<1> SUFFICES ASSUME strategy = "round_robin", NEW n \in Nodes, NEW m \in Nodes
             PROVE  Cardinality(StartedAt(n)) <= Cardinality(StartedAt(m)) + 1
    BY DEF RoundRobinBalanced
<1>1. PICK q \in Nat : \A k \in Nodes :
          Cardinality(StartedAt(k)) = IF k <= round_robin_cursor THEN q + 1 ELSE q
    BY DEF StartsFollowCursor
<1>2. Cardinality(StartedAt(n)) \in {q, q + 1} /\ Cardinality(StartedAt(m)) \in {q, q + 1}
    BY <1>1
<1> QED BY <1>2

\* The cluster client of horizon.rs for any number of nodes and calls: marks
\* agree with the counts, nobody gives up before every node was tried, and
\* round robin spreads the starts evenly.
THEOREM ClusterIsSound == ClusterSpec => []ClusterInv
<1>1. ClusterInit => CallsInv /\ StartsFollowCursor
  <2> SUFFICES ASSUME ClusterInit PROVE CallsInv /\ StartsFollowCursor
      OBVIOUS
  <2> USE ClusterAssumption DEF ClusterInit
  <2>1. Unordered \in Orders
      BY DEF Unordered, Orders
  <2>2. ClusterTypeOK
      BY <2>1 DEF ClusterTypeOK, Nodes
  <2>3. NodeHealthAgrees /\ ExhaustedAtEnd
      BY DEF NodeHealthAgrees, ExhaustedAtEnd
  <2>4. \A n \in Nodes : StartedAt(n) = {}
      BY DEF StartedAt
  <2>5. \A n \in Nodes : IsFiniteSet(StartedAt(n)) /\ Cardinality(StartedAt(n)) = 0
      BY <2>4, FS_EmptySet
  <2>6. \A n \in Nodes : ~(n <= round_robin_cursor)
      BY DEF Nodes
  <2>7. StartsFollowCursor
      BY <2>5, <2>6 DEF StartsFollowCursor
  <2> QED BY <2>2, <2>3, <2>7 DEF CallsInv
<1>2. CallsInv /\ StartsFollowCursor /\ [ClusterNext]_clusterVars
        => CallsInv' /\ StartsFollowCursor'
  <2> SUFFICES ASSUME CallsInv, StartsFollowCursor, [ClusterNext]_clusterVars
               PROVE  CallsInv' /\ StartsFollowCursor'
      OBVIOUS
  <2>0. ASSUME UNCHANGED <<strategy, round_robin_cursor, order>>,
               \A c \in Calls : result'[c] = "new" <=> result[c] = "new"
        PROVE  StartsFollowCursor'
    <3>1. \A n : StartedAt(n)' = StartedAt(n)
        BY <2>0 DEF StartedAt
    <3> QED BY <2>0, <3>1 DEF StartsFollowCursor
  <2>1. ASSUME NEW c \in Calls, Begin(c) PROVE CallsInv' /\ StartsFollowCursor'
      BY <2>1, BeginKeepsCalls, BeginKeepsStarts
  <2>2. ASSUME NEW c \in Calls, Exchange(c) PROVE CallsInv' /\ StartsFollowCursor'
    <3>1. UNCHANGED <<strategy, round_robin_cursor, order>>
        BY <2>2 DEF Exchange, Succeeds, EndsUnmarked, Refused, FailsOver, nodeVars
    <3>2. /\ result[c] = "busy"
          /\ \/ UNCHANGED result
             \/ \E r \in {"ok", "refused", "exhausted"} :
                  result' = [result EXCEPT ![c] = r]
        BY <2>2 DEF Exchange, Succeeds, EndsUnmarked, Refused, FailsOver, End
    <3>3. \A d \in Calls : result'[d] = "new" <=> result[d] = "new"
        BY <3>2 DEF CallsInv, ClusterTypeOK
    <3> QED BY <2>0, <2>2, <3>1, <3>3, ExchangeKeepsCalls
  <2>3. ASSUME NEW c \in Calls, LedgerApplies(c) PROVE CallsInv' /\ StartsFollowCursor'
    <3>1. /\ UNCHANGED <<state, consecutive_node_failures, strategy,
                         round_robin_cursor, order, pos, result, loose>>
          /\ applied' \in SUBSET Calls
        BY <2>3 DEF LedgerApplies, nodeVars, callVars, CallsInv, ClusterTypeOK
    <3>2. CallsInv'
        BY <3>1 DEF CallsInv, ClusterTypeOK, NodeHealthAgrees, ExhaustedAtEnd
    <3> QED BY <2>0, <3>1, <3>2
  <2>4. CASE UNCHANGED clusterVars
    <3>1. UNCHANGED <<state, consecutive_node_failures, strategy,
                      round_robin_cursor, order, pos, result, applied, loose>>
        BY <2>4 DEF clusterVars, nodeVars, callVars, ledgerVars
    <3>2. CallsInv'
        BY <3>1 DEF CallsInv, ClusterTypeOK, NodeHealthAgrees, ExhaustedAtEnd
    <3> QED BY <2>0, <3>1, <3>2
  <2> QED BY <2>1, <2>2, <2>3, <2>4 DEF ClusterNext
<1>3. CallsInv /\ StartsFollowCursor => ClusterInv
    BY ExhaustedTriedAll, StartsAreBalanced DEF ClusterInv, CallsInv
<1> QED BY <1>1, <1>2, <1>3, PTL DEF ClusterSpec
-----------------------------------------------------------------------------
\* A set of natural numbers that is not empty has a smallest element.
LEMMA SmallestNumber ==
    ASSUME NEW S \in SUBSET Nat, S # {} PROVE Min(S) \in S
<1> DEFINE R == OpToRel(<, Nat)
<1>1. IsWellFoundedOn(R, Nat)
    BY NatLessThanWellFounded
<1>2. \A m, n \in Nat : m < n => <<m, n>> \in R
    BY DEF OpToRel
<1> HIDE DEF R
<1>3. PICK x \in S : \A y \in S : ~(<<y, x>> \in R)
    BY <1>1, WFMin
<1>4. ASSUME NEW y \in S PROVE x <= y
  <2>1. x \in Nat /\ y \in Nat
      OBVIOUS
  <2>2. ~(y < x)
      BY <1>2, <1>3, <2>1
  <2> QED BY <2>1, <2>2
<1> QED BY <1>3, <1>4 DEF Min

ArchiverTypes ==
    [at : {"idle", "fetch", "put", "delete"}, rows : SUBSET Rows, left : SUBSET Rows,
     batch_num : Nat, key : {<<>>} \cup (Nat \X Nat), runs : Nat]

\* Where a process is in its batch: what it has still to delete is part of what
\* it read, and is not empty as long as it deletes.
BatchOK(b) ==
    /\ b.left \subseteq b.rows
    /\ b.at \in {"put", "delete"} => b.left # {}

ArchiverInv ==
    /\ table \in SUBSET Rows /\ second \in 0 .. MaxSeconds /\ overwritten \in BOOLEAN
    /\ \A k \in DOMAIN objects : objects[k] \in SUBSET Rows
    /\ archiver \in [Archivers -> ArchiverTypes]
    /\ \A a \in Archivers : BatchOK(archiver[a])

\* Unless an object was written over, a process that deletes rows has them in
\* its object.
WrittenBeforeDeleted ==
    ~overwritten =>
        \A a \in Archivers : archiver[a].at = "delete" =>
            /\ archiver[a].key \in DOMAIN objects
            /\ objects[archiver[a].key] = archiver[a].rows

ArchiveIndInv == ArchiverInv /\ WrittenBeforeDeleted /\ NoRowLost

\* A step that changes one process only, and does not send it to delete.
LEMMA OtherStepsKeepRows ==
    ASSUME ArchiveIndInv, NEW a \in Archivers, NEW b \in ArchiverTypes,
           BatchOK(b), b.at # "delete",
           archiver' = [archiver EXCEPT ![a] = b],
           UNCHANGED <<table, objects, second, overwritten>>
    PROVE  ArchiveIndInv'
<1>1. ArchiverInv'
    BY DEF ArchiveIndInv, ArchiverInv
<1>2. WrittenBeforeDeleted'
    BY DEF ArchiveIndInv, ArchiverInv, WrittenBeforeDeleted
<1>3. NoRowLost'
    BY DEF ArchiveIndInv, NoRowLost
<1> QED BY <1>1, <1>2, <1>3 DEF ArchiveIndInv

\* One process begins a run, reads a batch or stops.
LEMMA RunKeepsRows ==
    ASSUME ArchiveIndInv, NEW a \in Archivers,
           StartRun(a) \/ FetchBatch(a) \/ RunFails(a)
    PROVE  ArchiveIndInv'
<1> DEFINE b == archiver[a]
<1>0. b \in ArchiverTypes /\ BatchOK(b)
    BY DEF ArchiveIndInv, ArchiverInv
<1>1. CASE StartRun(a)
  <2> DEFINE c == [b EXCEPT !.at = "fetch", !.runs = b.runs + 1, !.batch_num = 0]
  <2>1. archiver' = [archiver EXCEPT ![a] = c]
      BY <1>1 DEF StartRun, ArchiveIndInv, ArchiverInv, ArchiverTypes
  <2>2. c \in ArchiverTypes /\ BatchOK(c) /\ c.at # "delete"
    <3> DEFINE n == b.runs + 1
    <3>1. n \in Nat
        BY <1>0 DEF ArchiverTypes
    <3>2. c = [b EXCEPT !.at = "fetch", !.runs = n, !.batch_num = 0]
        OBVIOUS
    <3> HIDE DEF b, c, n
    <3>3. c \in ArchiverTypes /\ c.at = "fetch" /\ c.left = b.left /\ c.rows = b.rows
        BY <1>0, <3>1, <3>2 DEF ArchiverTypes
    <3> QED BY <1>0, <3>3 DEF BatchOK
  <2> HIDE DEF c
  <2> QED BY <1>1, <2>1, <2>2, OtherStepsKeepRows DEF StartRun
<1>2. CASE FetchBatch(a)
  <2>1. CASE Oldest = {}
    <3>1. archiver' = [archiver EXCEPT ![a] = Resting(b.runs)]
        BY <1>2, <2>1 DEF FetchBatch, ArchiveIndInv, ArchiverInv
    <3>2. Resting(b.runs) \in ArchiverTypes /\ BatchOK(Resting(b.runs))
          /\ Resting(b.runs).at # "delete"
        BY <1>0 DEF ArchiverTypes, BatchOK, Resting
    <3> QED BY <1>2, <3>1, <3>2, OtherStepsKeepRows DEF FetchBatch
  <2>2. CASE Oldest # {}
    <3> DEFINE c == [b EXCEPT !.at = "put", !.rows = Oldest, !.left = Oldest,
                              !.key = <<second, b.batch_num>>]
    <3>1. archiver' = [archiver EXCEPT ![a] = c]
        BY <1>2, <2>2 DEF FetchBatch, ArchiveIndInv, ArchiverInv
    <3>2. Oldest \in SUBSET Rows /\ second \in Nat
        BY ArchiveAssumption DEF Oldest, ArchiveIndInv, ArchiverInv
    <3>3. c \in ArchiverTypes /\ BatchOK(c) /\ c.at # "delete"
      <4> HIDE DEF b
      <4> QED BY <1>0, <2>2, <3>2 DEF ArchiverTypes, BatchOK
    <3> HIDE DEF c
    <3> QED BY <1>2, <3>1, <3>3, OtherStepsKeepRows DEF FetchBatch
  <2> QED BY <2>1, <2>2
<1>3. CASE RunFails(a)
  <2>1. archiver' = [archiver EXCEPT ![a] = Resting(b.runs)]
      BY <1>3 DEF RunFails, ArchiveIndInv, ArchiverInv
  <2>2. Resting(b.runs) \in ArchiverTypes /\ BatchOK(Resting(b.runs))
        /\ Resting(b.runs).at # "delete"
      BY <1>0 DEF ArchiverTypes, BatchOK, Resting
  <2> QED BY <1>3, <2>1, <2>2, OtherStepsKeepRows DEF RunFails
<1> QED BY <1>1, <1>2, <1>3

\* put_object adds the batch to what S3 holds, or writes over an object.
LEMMA PutKeepsRows ==
    ASSUME ArchiveIndInv, NEW a \in Archivers, PutObject(a)
    PROVE  ArchiveIndInv'
<1> DEFINE b == archiver[a]
           c == [b EXCEPT !.at = "delete"]
<1>0. b \in ArchiverTypes /\ BatchOK(b) /\ b.at = "put"
    BY DEF ArchiveIndInv, ArchiverInv, PutObject
<1>1. archiver' = [archiver EXCEPT ![a] = c]
    BY DEF PutObject, ArchiveIndInv, ArchiverInv, ArchiverTypes
<1>2. /\ c \in ArchiverTypes /\ BatchOK(c) /\ c.at = "delete"
      /\ c.key = b.key /\ c.rows = b.rows
    BY <1>0 DEF ArchiverTypes, BatchOK
<1>3. /\ DOMAIN objects' = DOMAIN objects \cup {b.key}
      /\ objects'[b.key] = b.rows
      /\ \A k \in DOMAIN objects : k # b.key => objects'[k] = objects[k]
    BY DEF PutObject
<1>4. /\ overwritten' = (overwritten \/ b.key \in DOMAIN objects)
      /\ UNCHANGED <<table, second>>
    BY DEF PutObject
<1>5. b.rows \in SUBSET Rows
    BY <1>0 DEF ArchiverTypes
<1> HIDE DEF b, c
<1>6. ArchiverInv'
  <2>1. overwritten' \in BOOLEAN
      BY <1>4
  <2>2. archiver' \in [Archivers -> ArchiverTypes]
      BY <1>1, <1>2 DEF ArchiveIndInv, ArchiverInv
  <2>3. \A d \in Archivers : BatchOK(archiver'[d])
      BY <1>1, <1>2 DEF ArchiveIndInv, ArchiverInv
  <2>4. \A k \in DOMAIN objects' : objects'[k] \in SUBSET Rows
      BY <1>3, <1>5 DEF ArchiveIndInv, ArchiverInv
  <2> QED BY <1>4, <2>1, <2>2, <2>3, <2>4 DEF ArchiveIndInv, ArchiverInv, BatchOK
<1>7. ASSUME ~overwritten' PROVE WrittenBeforeDeleted' /\ NoRowLost'
  <2>1. ~overwritten /\ b.key \notin DOMAIN objects
      BY <1>4, <1>7
  <2>2. \A d \in Archivers : archiver'[d].at = "delete" =>
            /\ archiver'[d].key \in DOMAIN objects'
            /\ objects'[archiver'[d].key] = archiver'[d].rows
    <3> SUFFICES ASSUME NEW d \in Archivers, archiver'[d].at = "delete"
                 PROVE  /\ archiver'[d].key \in DOMAIN objects'
                        /\ objects'[archiver'[d].key] = archiver'[d].rows
        OBVIOUS
    <3>1. CASE d = a
        BY <1>1, <1>2, <1>3, <3>1 DEF ArchiveIndInv, ArchiverInv
    <3>2. CASE d # a
        BY <1>1, <1>3, <2>1, <3>2 DEF ArchiveIndInv, ArchiverInv, WrittenBeforeDeleted
    <3> QED BY <3>1, <3>2
  <2>3. UNION Range(objects') = (UNION Range(objects)) \cup b.rows
    <3>1. \A r : r \in UNION Range(objects') <=> \E k \in DOMAIN objects' : r \in objects'[k]
        BY Zenon DEF Range
    <3>2. \A r : r \in UNION Range(objects) <=> \E k \in DOMAIN objects : r \in objects[k]
        BY Zenon DEF Range
    <3>3. ASSUME NEW r, r \in UNION Range(objects')
          PROVE  r \in (UNION Range(objects)) \cup b.rows
      <4>1. PICK k \in DOMAIN objects' : r \in objects'[k]
          BY <3>1, <3>3
      <4>2. CASE k = b.key
          BY <1>3, <4>1, <4>2
      <4>3. CASE k # b.key
        <5>1. k \in DOMAIN objects /\ r \in objects[k]
            BY <1>3, <4>1, <4>3
        <5> QED BY <3>2, <5>1
      <4> QED BY <4>2, <4>3
    <3>4. ASSUME NEW r \in UNION Range(objects) PROVE r \in UNION Range(objects')
      <4>1. PICK k \in DOMAIN objects : r \in objects[k]
          BY <3>2
      <4>2. k \in DOMAIN objects' /\ r \in objects'[k]
          BY <1>3, <2>1, <4>1
      <4> QED BY <3>1, <4>2
    <3>5. ASSUME NEW r \in b.rows PROVE r \in UNION Range(objects')
        BY <1>3, <3>1
    <3> QED BY <3>3, <3>4, <3>5
  <2>4. table \cup UNION Range(objects) = Rows
      BY <2>1 DEF ArchiveIndInv, NoRowLost
  <2>5. table' \cup UNION Range(objects') = Rows
      BY <1>4, <1>5, <2>3, <2>4
  <2> QED BY <2>2, <2>5 DEF WrittenBeforeDeleted, NoRowLost
<1>8. overwritten' => WrittenBeforeDeleted' /\ NoRowLost'
    BY DEF WrittenBeforeDeleted, NoRowLost
<1> QED BY <1>6, <1>7, <1>8 DEF ArchiveIndInv

\* A row is deleted that the process has in its object.
LEMMA DeleteKeepsRows ==
    ASSUME ArchiveIndInv, NEW a \in Archivers, DeleteRow(a)
    PROVE  ArchiveIndInv'
<1> DEFINE b == archiver[a]
           m == Min(b.left)
           c == IF Cardinality(b.left) = 1
                THEN [b EXCEPT !.at = "fetch", !.left = {}, !.batch_num = @ + 1]
                ELSE [b EXCEPT !.left = @ \ {Min(b.left)}]
<1>0. b \in ArchiverTypes /\ BatchOK(b) /\ b.at = "delete"
    BY DEF ArchiveIndInv, ArchiverInv, DeleteRow
<1>1. /\ archiver' = [archiver EXCEPT ![a] = c] /\ table' = table \ {m}
      /\ UNCHANGED <<objects, second, overwritten>>
    BY DEF DeleteRow, DeletesNext, ArchiveIndInv, ArchiverInv
<1>2. b.left \in SUBSET Rows /\ b.left # {} /\ b.left \subseteq b.rows
    BY <1>0 DEF ArchiverTypes, BatchOK
<1>3. m \in b.left
    BY <1>2, SmallestNumber DEF Rows
<1>4. Cardinality(b.left) # 1 => b.left \ {m} # {}
  <2>1. Cardinality({m}) = 1
      BY FS_Singleton
  <2> HIDE DEF m, b
  <2> QED BY <1>2, <1>3, <2>1
<1>5. /\ c \in ArchiverTypes /\ BatchOK(c)
      /\ c.at = "delete" => c.key = b.key /\ c.rows = b.rows
  <2>1. CASE Cardinality(b.left) = 1
    <3> DEFINE n == b.batch_num + 1
    <3>1. c = [b EXCEPT !.at = "fetch", !.left = {}, !.batch_num = n]
        BY <2>1
    <3>2. {} \in SUBSET Rows /\ n \in Nat
        BY <1>0 DEF ArchiverTypes
    <3> HIDE DEF b, c, m, n
    <3>3. c \in ArchiverTypes /\ c.at = "fetch" /\ c.left = {}
        BY <1>0, <3>1, <3>2 DEF ArchiverTypes
    <3> QED BY <3>3 DEF BatchOK
  <2>2. CASE Cardinality(b.left) # 1
    <3>1. c = [b EXCEPT !.left = @ \ {m}]
        BY <2>2
    <3> HIDE DEF b, c, m
    <3> QED BY <1>0, <1>2, <1>4, <2>2, <3>1 DEF ArchiverTypes, BatchOK
  <2> QED BY <2>1, <2>2
<1> HIDE DEF b, c, m
<1>6. ArchiverInv'
  <2>1. archiver' \in [Archivers -> ArchiverTypes]
      BY <1>1, <1>5 DEF ArchiveIndInv, ArchiverInv
  <2>2. \A d \in Archivers : BatchOK(archiver'[d])
      BY <1>1, <1>5 DEF ArchiveIndInv, ArchiverInv
  <2> QED BY <1>1, <2>1, <2>2 DEF ArchiveIndInv, ArchiverInv, BatchOK
<1>7. ASSUME ~overwritten PROVE WrittenBeforeDeleted' /\ NoRowLost'
  <2>1. \A d \in Archivers : archiver[d].at = "delete" =>
            /\ archiver[d].key \in DOMAIN objects
            /\ objects[archiver[d].key] = archiver[d].rows
      BY <1>7 DEF ArchiveIndInv, WrittenBeforeDeleted
  <2>2. WrittenBeforeDeleted'
    <3> SUFFICES ASSUME NEW d \in Archivers, archiver'[d].at = "delete"
                 PROVE  /\ archiver'[d].key \in DOMAIN objects
                        /\ objects[archiver'[d].key] = archiver'[d].rows
        BY <1>1 DEF WrittenBeforeDeleted
    <3>1. CASE d = a
        BY <1>0, <1>1, <1>5, <2>1, <3>1 DEF ArchiveIndInv, ArchiverInv, b
    <3>2. CASE d # a
        BY <1>1, <2>1, <3>2 DEF ArchiveIndInv, ArchiverInv
    <3> QED BY <3>1, <3>2
  <2>3. m \in objects[b.key] /\ b.key \in DOMAIN objects
      BY <1>0, <1>2, <1>3, <2>1 DEF b
  <2>4. m \in UNION Range(objects)
      BY <2>3 DEF Range
  <2>5. table \cup UNION Range(objects) = Rows
      BY <1>7 DEF ArchiveIndInv, NoRowLost
  <2>6. table' \cup UNION Range(objects') = Rows
      BY <1>1, <2>4, <2>5
  <2> QED BY <2>2, <2>6 DEF NoRowLost
<1>8. overwritten => WrittenBeforeDeleted' /\ NoRowLost'
    BY <1>1 DEF WrittenBeforeDeleted, NoRowLost
<1> QED BY <1>6, <1>7, <1>8 DEF ArchiveIndInv

\* The archival job of archive.rs loses no row, for any number of processes,
\* rows and batches, as long as no two batches get the same object name.
THEOREM ArchivingIsSound == ArchiveSpec => []ArchiveInv
<1>1. ArchiveInit => ArchiveIndInv
  <2> SUFFICES ASSUME ArchiveInit PROVE ArchiveIndInv
      OBVIOUS
  <2>1. Resting(0) \in ArchiverTypes /\ BatchOK(Resting(0)) /\ Resting(0).at = "idle"
      BY DEF Resting, ArchiverTypes, BatchOK
  <2>2. DOMAIN objects = {}
      BY DEF ArchiveInit
  <2>3. ArchiverInv
    <3>1. table \in SUBSET Rows /\ second \in 0 .. MaxSeconds /\ overwritten \in BOOLEAN
      <4>1. table = Rows /\ second = 0 /\ overwritten = FALSE
          BY DEF ArchiveInit
      <4>2. 0 \in 0 .. MaxSeconds
          BY ArchiveAssumption
      <4>3. table \in SUBSET Rows /\ overwritten \in BOOLEAN
          BY <4>1
      <4> QED BY <4>1, <4>2, <4>3
    <3>2. \A k \in DOMAIN objects : objects[k] \in SUBSET Rows
        BY <2>2
    <3>3. /\ archiver \in [Archivers -> ArchiverTypes]
          /\ \A a \in Archivers : BatchOK(archiver[a])
        BY <2>1 DEF ArchiveInit
    <3> QED BY <3>1, <3>2, <3>3 DEF ArchiverInv
  <2>4. WrittenBeforeDeleted
      BY <2>1 DEF ArchiveInit, WrittenBeforeDeleted
  <2>5. NoRowLost
    <3>1. objects = << >> /\ table = Rows
        BY DEF ArchiveInit
    <3>2. Range(objects) = {}
        BY <2>2 DEF Range
    <3> QED BY <3>1, <3>2 DEF NoRowLost
  <2> QED BY <2>3, <2>4, <2>5 DEF ArchiveIndInv
<1>2. ArchiveIndInv /\ [ArchiveNext]_archiveVars => ArchiveIndInv'
  <2> SUFFICES ASSUME ArchiveIndInv, [ArchiveNext]_archiveVars PROVE ArchiveIndInv'
      OBVIOUS
  <2>1. ASSUME NEW a \in Archivers, StartRun(a) \/ FetchBatch(a) \/ RunFails(a)
        PROVE  ArchiveIndInv'
      BY <2>1, RunKeepsRows
  <2>2. ASSUME NEW a \in Archivers, PutObject(a) PROVE ArchiveIndInv'
      BY <2>2, PutKeepsRows
  <2>3. ASSUME NEW a \in Archivers, DeleteRow(a) PROVE ArchiveIndInv'
      BY <2>3, DeleteKeepsRows
  <2>4. CASE ClockTicks
      BY <2>4, ArchiveAssumption DEF ClockTicks, ArchiveIndInv, ArchiverInv,
         BatchOK, WrittenBeforeDeleted, NoRowLost
  <2>5. CASE UNCHANGED archiveVars
      BY <2>5 DEF archiveVars, ArchiveIndInv, ArchiverInv, BatchOK,
         WrittenBeforeDeleted, NoRowLost
  <2> QED BY <2>1, <2>2, <2>3, <2>4, <2>5 DEF ArchiveNext
<1>3. ArchiveIndInv => ArchiveInv
    BY DEF ArchiveIndInv, ArchiverInv, ArchiveInv, ArchiveTypeOK, BatchOK
<1> QED BY <1>1, <1>2, <1>3, PTL DEF ArchiveSpec
=============================================================================

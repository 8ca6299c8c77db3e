----------------------------- MODULE SignerPool -----------------------------
(***************************************************************************)
(* The pool of fee-payer accounts of the Rust server                       *)
(* (paymaster-server/src/state.rs).  Requests lease an account, report how *)
(* their submission went and give the lease back; every operation runs     *)
(* under one async mutex and is therefore one action.  A background task   *)
(* revalidates the accounts against Horizon: it copies the active flags    *)
(* under the mutex, gives the mutex up, and applies the answer for each    *)
(* account later, so its copy may be stale when it is used.                *)
(*                                                                         *)
(* Abstractions: keys and secrets are account indexes; a balance of None   *)
(* is 0, as in acquire's unwrap_or(0); total_uses, a statistic that no     *)
(* decision reads, is left out.                                            *)
(***************************************************************************)
EXTENDS Integers, FiniteSets

CONSTANTS N,                  \* number of fee-payer accounts
          Holders,            \* the requests that can hold a lease
          Balances,           \* balances Horizon can report
          FAILURE_THRESHOLD   \* consecutive failures that deactivate

ASSUME PoolAssumption ==
    /\ N \in Nat \ {0}
    /\ IsFiniteSet(Holders)
    /\ Balances \subseteq Nat
    /\ FAILURE_THRESHOLD \in Nat \ {0}

Accounts == 1 .. N

VARIABLES active, balance, consecutive_failures, in_flight,
          lease,      \* lease[h]: the account h holds, 0 for none
          reported,   \* h has reported the outcome under its lease
          gone,       \* holders whose request future was dropped
          was_active, \* the revalidation task's copy of the active flags
          next        \* the account it fetches next, 0 between two rounds

accountVars == <<active, balance, consecutive_failures, in_flight>>
leaseVars == <<lease, reported, gone>>
taskVars == <<was_active, next>>
poolVars == <<accountVars, leaseVars, taskVars>>

\* One type for each variable; every counter is a natural number.
PoolTypeOK ==
    /\ active \in [Accounts -> BOOLEAN]
    /\ balance \in [Accounts -> Nat]
    /\ consecutive_failures \in [Accounts -> Nat]
    /\ in_flight \in [Accounts -> Nat]
    /\ lease \in [Holders -> 0 .. N]
    /\ reported \in [Holders -> BOOLEAN]
    /\ gone \in SUBSET Holders
    /\ was_active \in [Accounts -> BOOLEAN]
    /\ next \in 0 .. N

PoolInit ==
    /\ active = [i \in Accounts |-> TRUE]
    /\ balance = [i \in Accounts |-> 0]
    /\ consecutive_failures = [i \in Accounts |-> 0]
    /\ in_flight = [i \in Accounts |-> 0]
    /\ lease = [h \in Holders |-> 0]
    /\ reported = [h \in Holders |-> FALSE]
    /\ gone = {}
    /\ was_active = [i \in Accounts |-> TRUE]
    /\ next = 0

-----------------------------------------------------------------------------
(* acquire *)

\* max_by_key on (balance, MAX - in_flight); the last maximum wins a tie.
Preferred(i, j) ==
    \/ balance[i] > balance[j]
    \/ balance[i] = balance[j] /\ in_flight[i] < in_flight[j]
    \/ balance[i] = balance[j] /\ in_flight[i] = in_flight[j] /\ i > j

Selected(i) ==
    /\ active[i]
    /\ \A j \in Accounts \ {i} : active[j] => Preferred(i, j)

Acquire(h) ==
    /\ lease[h] = 0 /\ h \notin gone
    /\ \E i \in Accounts :
        /\ Selected(i)
        /\ in_flight' = [in_flight EXCEPT ![i] = @ + 1]
        /\ lease' = [lease EXCEPT ![h] = i]
    /\ reported' = [reported EXCEPT ![h] = FALSE]
    /\ UNCHANGED <<active, balance, consecutive_failures, gone, taskVars>>

\* acquire answers 503: no account is active.
NoActiveAccount == \A i \in Accounts : ~active[i]

-----------------------------------------------------------------------------
(* report_success, report_failure and SignerLease::release *)

Holding(h) == lease[h] # 0 /\ h \notin gone

\* A late success puts the account back into service.
ReportSuccessReactivates(h) ==
    /\ Holding(h) /\ ~reported[h]
    /\ consecutive_failures' = [consecutive_failures EXCEPT ![lease[h]] = 0]
    /\ active' = [active EXCEPT ![lease[h]] = TRUE]
    /\ reported' = [reported EXCEPT ![h] = TRUE]
    /\ UNCHANGED <<balance, in_flight, lease, gone, taskVars>>

ReportSuccess(h) ==
    /\ Holding(h) /\ ~reported[h]
    /\ consecutive_failures' = [consecutive_failures EXCEPT ![lease[h]] = 0]
    /\ reported' = [reported EXCEPT ![h] = TRUE]
    /\ UNCHANGED <<active, balance, in_flight, lease, gone, taskVars>>

ReportFailure(h) ==
    /\ Holding(h) /\ ~reported[h]
    /\ LET i == lease[h]
           failures == consecutive_failures[i] + 1
       IN /\ consecutive_failures' = [consecutive_failures EXCEPT ![i] = failures]
          /\ active' = [active EXCEPT ![i] = @ /\ failures < FAILURE_THRESHOLD]
    /\ reported' = [reported EXCEPT ![h] = TRUE]
    /\ UNCHANGED <<balance, in_flight, lease, gone, taskVars>>

\* saturating_sub
Decrement(n) == IF n = 0 THEN 0 ELSE n - 1

\* A release that forgets the counter.
ReleaseForgetsCount(h) ==
    /\ Holding(h)
    /\ lease' = [lease EXCEPT ![h] = 0]
    /\ UNCHANGED <<accountVars, reported, gone, taskVars>>

Release(h) ==
    /\ Holding(h)
    /\ in_flight' = [in_flight EXCEPT ![lease[h]] = Decrement(@)]
    /\ lease' = [lease EXCEPT ![h] = 0]
    /\ UNCHANGED <<active, balance, consecutive_failures, reported, gone, taskVars>>

\* The request future is dropped (the client hung up).  SignerLease has no
\* Drop, so a lease it held is never given back.
Abandon(h) ==
    /\ h \notin gone
    /\ gone' = gone \cup {h}
    /\ UNCHANGED <<accountVars, lease, reported, taskVars>>

-----------------------------------------------------------------------------
(* revalidate, run by one background task on a 30 s interval *)

\* A copy that is not taken anew for each round.
RevalidateOldSnapshot ==
    /\ next = 0
    /\ next' = 1
    /\ UNCHANGED <<accountVars, leaseVars, was_active>>

RevalidateSnapshot ==
    /\ next = 0
    /\ was_active' = active
    /\ next' = 1
    /\ UNCHANGED <<accountVars, leaseVars>>

Advance == next' = IF next = N THEN 0 ELSE next + 1

\* Re-enabling that keeps the old failures.
RevalidateKeepsFailures(b) ==
    /\ next # 0
    /\ balance' = [balance EXCEPT ![next] = b]
    /\ active' = [active EXCEPT ![next] = @ \/ ~was_active[next]]
    /\ Advance
    /\ UNCHANGED <<consecutive_failures, in_flight, leaseVars, was_active>>

\* Horizon answered with a decodable account: store the balance and
\* re-enable the account if the COPY says it was inactive.
RevalidateApply(b) ==
    /\ next # 0
    /\ balance' = [balance EXCEPT ![next] = b]
    /\ active' = [active EXCEPT ![next] = @ \/ ~was_active[next]]
    /\ consecutive_failures' =
         [consecutive_failures EXCEPT ![next] = IF was_active[next] THEN @ ELSE 0]
    /\ Advance
    /\ UNCHANGED <<in_flight, leaseVars, was_active>>

\* The fetch failed or its body did not decode: log and go on.
RevalidateSkip ==
    /\ next # 0
    /\ Advance
    /\ UNCHANGED <<accountVars, leaseVars, was_active>>

Revalidate ==
    \/ RevalidateSnapshot
    \/ \E b \in Balances : RevalidateApply(b)
    \/ RevalidateSkip

-----------------------------------------------------------------------------
PoolNext ==
    \/ \E h \in Holders :
        \/ Acquire(h)
        \/ ReportSuccess(h)
        \/ ReportFailure(h)
        \/ Release(h)
        \/ Abandon(h)
    \/ Revalidate

PoolSpec == PoolInit /\ [][PoolNext]_poolVars

\* The interval keeps ticking and every fetch of a round ends; Horizon
\* answers for each account again and again.
PoolFairness ==
    /\ WF_poolVars(Revalidate)
    /\ \A i \in Accounts :
        SF_poolVars(next = i /\ \E b \in Balances : RevalidateApply(b))

PoolFairSpec == PoolSpec /\ PoolFairness

-----------------------------------------------------------------------------
(* Properties *)

LeasesOf(i) == {h \in Holders : lease[h] = i}
UnreportedLeasesOf(i) == {h \in LeasesOf(i) : ~reported[h]}

\* SignerAccount.in_flight counts exactly the leases that were taken and not
\* released, the ones leaked by dropped requests included; so the
\* saturating_sub of release never saturates.
LeaseAccounting ==
    \A i \in Accounts :
        in_flight[i] = Cardinality(LeasesOf(i))

\* An account that acquire can hand out has fewer than FAILURE_THRESHOLD
\* consecutive failures, whatever the interleaving of late reports with
\* revalidation's re-enabling.
ActiveBelowThreshold ==
    \A i \in Accounts : active[i] => consecutive_failures[i] < FAILURE_THRESHOLD

\* revalidate's stale copy is harmless in the dangerous direction: an account
\* the copy calls inactive, and whose answer is still to be applied, is still
\* inactive, so re-enabling it never wipes failures of an account in service.
SnapshotSound ==
    \A i \in Accounts :
        next # 0 /\ i >= next /\ ~was_active[i] => ~active[i]

CleanReenable ==
    \A i \in Accounts :
        ~active[i] /\ active'[i] => next = i /\ consecutive_failures'[i] = 0

\* An account goes back into service only when revalidation heard from
\* Horizon about that very account, and then with a clean failure count; a
\* late success report of an old lease never puts it back.
ReenabledOnlyByRevalidation == [][CleanReenable]_poolVars

\* Failures reported after the deactivation keep counting, but only the
\* leases taken before it can still report: the counter of an account stays
\* below the threshold plus the number of requests that can run at once.
FailuresBounded ==
    \A i \in Accounts :
        consecutive_failures[i] + Cardinality(UnreportedLeasesOf(i))
            <= (FAILURE_THRESHOLD - 1) + Cardinality(Holders)

\* revalidate: a deactivated account is eventually back in service.
EventuallyReenabled ==
    \A i \in Accounts : ~active[i] ~> active[i]

\* Accounts stay healthy whatever late report, lost request or revalidation
\* round comes between: only accounts below the threshold are handed out, a
\* stale copy never re-enables an account in service, and failure counts of
\* accounts out of service stay bounded.
HealthSound ==
    PoolTypeOK /\ ActiveBelowThreshold /\ SnapshotSound /\ FailuresBounded
=============================================================================

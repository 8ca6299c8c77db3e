--------------------------- MODULE FeeBumpServer ----------------------------
(***************************************************************************)
(* The fee-bump endpoints of the Rust server (paymaster-server/src/main.rs *)
(* fee_bump, fee_bump_batch and process_fee_bump_request), composed with   *)
(* the signer pool and the Horizon cluster they use.  A request is a       *)
(* process; every await on a mutex or on the network ends an action, so    *)
(* that requests interleave exactly where the code lets them.  /fee-bump   *)
(* is a batch of one.                                                      *)
(*                                                                         *)
(* Abstractions: an inner transaction is its form and its number of        *)
(* operations; the quota ledger, a vector of records that is only ever     *)
(* filtered by tenant and UTC day and summed, is that sum; a rate-limit    *)
(* window may expire between any two checks.                               *)
(***************************************************************************)
EXTENDS Integers, FiniteSets

CONSTANTS N, Balances, FAILURE_THRESHOLD,   \* signer pool
          NNodes,                           \* Horizon cluster
          Requests, Tenants, TenantOf,
          MaxBatch,                         \* longest batch a client sends
          OpCounts,                         \* operation counts of inner transactions
          BaseFee, MultNum, MultDen,        \* base fee, fee_multiplier = MultNum / MultDen
          DailyQuota,                       \* daily_quota_stroops of a tenant
          GlobalMax, KeyMax,                \* rate limits, requests per window
          MaxDay                            \* bound: the last UTC day modelled

Items == Requests \X (1 .. MaxBatch)
Calls == Items \X {"submit", "auth"}
KindOf(c) == c[2]
Days == 0 .. MaxDay
Unbumpable == -1   \* an unsigned, undecodable, v0 or fee-bump envelope

ASSUME ServerAssumption ==
    /\ TenantOf \in [Requests -> Tenants]
    /\ MaxBatch \in Nat \ {0}
    /\ OpCounts \subseteq Nat
    /\ BaseFee \in Nat /\ MultNum \in Nat /\ MultDen \in Nat \ {0}
    /\ DailyQuota \in [Tenants -> Nat]
    /\ GlobalMax \in Nat /\ KeyMax \in Nat
    /\ MaxDay \in Nat

VARIABLES active, balance, consecutive_failures, in_flight, lease, reported,
          gone, was_active, next,
          state, consecutive_node_failures, strategy, round_robin_cursor, order, pos,
          result, applied, loose,
          has_horizon,   \* configuration: horizon_urls is not empty
          pc, size, submit, item, ops,  \* of each request
          ip_count, key_count,          \* rate-limit windows
          day,           \* the current UTC day
          spent,         \* spent[t][d]: sum of the quota ledger
          seen,          \* the spend a request read before its check
          raced,         \* history: fees pushed after another push was missed
          charged,       \* history: items with a quota record
          store          \* transaction_store: items recorded as submitted

Pool == INSTANCE SignerPool WITH Holders <- Requests
Cluster == INSTANCE HorizonCluster

poolVars == <<active, balance, consecutive_failures, in_flight, lease,
              reported, gone, was_active, next>>
clusterVars == <<state, consecutive_node_failures, strategy,
                 round_robin_cursor, order, pos, result, applied, loose>>
inputVars == <<size, submit, item, ops>>
limitVars == <<ip_count, key_count>>
quotaVars == <<day, spent, seen, raced, charged>>
vars == <<poolVars, clusterVars, has_horizon, pc, inputVars, limitVars,
          quotaVars, store>>

Places == {"idle", "ip", "key", "validate", "auth", "authing", "acquire",
           "sign", "reject", "quota", "push", "submit", "submitting",
           "success", "failure", "store", "release", "over_quota",
           "failed", "quota_exceeded", "done"}

Final == {"idle", "failed", "quota_exceeded", "done"}
Running(r) == pc[r] \notin Final /\ r \notin gone

TypeOK ==
    /\ has_horizon \in BOOLEAN
    /\ pc \in [Requests -> Places]
    /\ size \in [Requests -> 1 .. MaxBatch]
    /\ submit \in [Requests -> BOOLEAN]
    /\ item \in [Requests -> 1 .. MaxBatch]
    /\ ops \in [Requests -> OpCounts \cup {Unbumpable}]
    /\ ip_count \in 0 .. GlobalMax
    /\ key_count \in [Tenants -> 0 .. KeyMax]
    /\ day \in Days
    /\ spent \in [Tenants -> [Days -> Nat]]
    /\ seen \in [Requests -> Nat]
    /\ raced \in [Tenants -> [Days -> Nat]]
    /\ charged \in SUBSET Items
    /\ store \in SUBSET Items

Init ==
    /\ Pool!PoolInit
    /\ Cluster!ClusterInit
    /\ has_horizon \in BOOLEAN
    /\ pc = [r \in Requests |-> "idle"]
    /\ size = [r \in Requests |-> 1]
    /\ submit = [r \in Requests |-> FALSE]
    /\ item = [r \in Requests |-> 1]
    /\ ops = [r \in Requests |-> Unbumpable]
    /\ ip_count = 0
    /\ key_count = [t \in Tenants |-> 0]
    /\ day = 0
    /\ spent = [t \in Tenants |-> [d \in Days |-> 0]]
    /\ seen = [r \in Requests |-> 0]
    /\ raced = [t \in Tenants |-> [d \in Days |-> 0]]
    /\ charged = {}
    /\ store = {}

-----------------------------------------------------------------------------
(* Steps of a request *)

Goto(r, p) == pc' = [pc EXCEPT ![r] = p]
At(r, p) == pc[r] = p /\ r \notin gone
Item(r) == <<r, item[r]>>

Arrive(r) ==
    /\ At(r, "idle")
    /\ \E n \in 1 .. MaxBatch : size' = [size EXCEPT ![r] = n]
    /\ \E s \in BOOLEAN : submit' = [submit EXCEPT ![r] = s]
    /\ Goto(r, "ip")
    /\ UNCHANGED <<poolVars, clusterVars, has_horizon, item, ops, limitVars,
                   quotaVars, store>>

\* The count a limiter sees: 0 when the window has expired.
WindowCounts(n) == {0, n}

\* RateLimiter::check on the client's address.
CheckIp(r) ==
    /\ At(r, "ip")
    /\ \E n \in WindowCounts(ip_count) :
        \/ n < GlobalMax /\ ip_count' = n + 1 /\ Goto(r, "key")
        \/ n >= GlobalMax /\ ip_count' = n /\ Goto(r, "failed")
    /\ UNCHANGED <<poolVars, clusterVars, has_horizon, inputVars, key_count,
                   quotaVars, store>>

\* check_api_key_rate_limit
CheckKey(r) ==
    /\ At(r, "key")
    /\ LET t == TenantOf[r]
       IN \E n \in WindowCounts(key_count[t]) :
           \/ /\ n < KeyMax
              /\ key_count' = [key_count EXCEPT ![t] = n + 1]
              /\ Goto(r, "validate")
           \/ /\ n >= KeyMax
              /\ key_count' = [key_count EXCEPT ![t] = n]
              /\ Goto(r, "failed")
    /\ UNCHANGED <<poolVars, clusterVars, has_horizon, inputVars, ip_count,
                   quotaVars, store>>

\* The structural checks before a signer is leased: an empty or oversized
\* envelope is refused; a decodable v1 envelope goes to the signature-weight
\* preflight if Horizon is configured; anything else goes on and fails in
\* create_fee_bump_transaction.
Validate(r) ==
    /\ At(r, "validate")
    /\ \/ Goto(r, "failed") /\ UNCHANGED ops
       \/ \E n \in OpCounts \cup {Unbumpable} :
            /\ ops' = [ops EXCEPT ![r] = n]
            /\ Goto(r, IF has_horizon THEN "auth" ELSE "acquire")
       \/ ops' = [ops EXCEPT ![r] = Unbumpable] /\ Goto(r, "acquire")
    /\ UNCHANGED <<poolVars, clusterVars, has_horizon, size, submit, item,
                   limitVars, quotaVars, store>>

FetchAccountAuth(r) ==
    /\ At(r, "auth")
    /\ Cluster!Begin(<<Item(r), "auth">>)
    /\ Goto(r, "authing")
    /\ UNCHANGED <<poolVars, has_horizon, inputVars, limitVars, quotaVars, store>>

\* The lookup ended: its error, or a signature weight below the threshold,
\* ends the request.
AuthFetched(r) ==
    /\ At(r, "authing")
    /\ \/ result[<<Item(r), "auth">>] = "ok" /\ Goto(r, "acquire")
       \/ result[<<Item(r), "auth">>] \in {"ok", "refused", "exhausted"}
            /\ Goto(r, "failed")
    /\ UNCHANGED <<poolVars, clusterVars, has_horizon, inputVars, limitVars,
                   quotaVars, store>>

AcquireSigner(r) ==
    /\ At(r, "acquire")
    /\ Pool!Acquire(r)
    /\ Goto(r, "sign")
    /\ UNCHANGED <<clusterVars, has_horizon, inputVars, limitVars, quotaVars, store>>

NoSigner(r) ==
    /\ At(r, "acquire")
    /\ Pool!NoActiveAccount
    /\ Goto(r, "failed")
    /\ UNCHANGED <<poolVars, clusterVars, has_horizon, inputVars, limitVars,
                   quotaVars, store>>

\* create_fee_bump_transaction
CreateFeeBump(r) ==
    /\ At(r, "sign")
    /\ Goto(r, IF ops[r] = Unbumpable THEN "reject" ELSE "quota")
    /\ UNCHANGED <<poolVars, clusterVars, has_horizon, inputVars, limitVars,
                   quotaVars, store>>

\* ceil((operation_count + 1) * base_fee * fee_multiplier): what the ledger
\* records.
FeeAmount(n) == ((n + 1) * BaseFee * MultNum + MultDen - 1) \div MultDen

\* A check that leaves out the fee to come.
CheckQuotaBeforeFee(r) ==
    /\ At(r, "quota")
    /\ LET t == TenantOf[r]
           current_spend == spent[t][day]
       IN /\ seen' = [seen EXCEPT ![r] = current_spend]
          /\ Goto(r, IF current_spend > DailyQuota[t]
                       THEN "over_quota" ELSE "push")
    /\ UNCHANGED <<poolVars, clusterVars, has_horizon, inputVars, limitVars,
                   day, spent, raced, charged, store>>

\* The spend is summed under one lock of the ledger and compared ...
CheckQuota(r) ==
    /\ At(r, "quota")
    /\ LET t == TenantOf[r]
           current_spend == spent[t][day]
       IN /\ seen' = [seen EXCEPT ![r] = current_spend]
          /\ Goto(r, IF current_spend + FeeAmount(ops[r]) > DailyQuota[t]
                       THEN "over_quota" ELSE "push")
    /\ UNCHANGED <<poolVars, clusterVars, has_horizon, inputVars, limitVars,
                   day, spent, raced, charged, store>>

\* ... and the record is pushed under another: what was seen may be stale.
PushQuota(r) ==
    /\ At(r, "push")
    /\ LET t == TenantOf[r]
           fee == FeeAmount(ops[r])
       IN /\ spent' = [spent EXCEPT ![t][day] = @ + fee]
          /\ raced' = [raced EXCEPT ![t][day] =
                          IF spent[t][day] > seen[r] THEN @ + fee ELSE @]
    /\ charged' = charged \cup {Item(r)}
    /\ Goto(r, IF ~submit[r] THEN "release"
               ELSE IF has_horizon THEN "submit" ELSE "reject")
    /\ UNCHANGED <<poolVars, clusterVars, has_horizon, inputVars, limitVars,
                   day, seen, store>>

\* The submission starts before the charge is recorded.
SubmitBeforePush(r) ==
    /\ At(r, "push") /\ submit[r] /\ has_horizon
    /\ Cluster!Begin(<<Item(r), "submit">>)
    /\ Goto(r, "submitting")
    /\ UNCHANGED <<poolVars, has_horizon, inputVars, limitVars, quotaVars, store>>

SubmitTransaction(r) ==
    /\ At(r, "submit")
    /\ Cluster!Begin(<<Item(r), "submit">>)
    /\ Goto(r, "submitting")
    /\ UNCHANGED <<poolVars, has_horizon, inputVars, limitVars, quotaVars, store>>

Submitted(r) ==
    /\ At(r, "submitting")
    /\ LET ended == result[<<Item(r), "submit">>]
       IN \/ ended = "ok" /\ Goto(r, "success")
          \/ ended \in {"refused", "exhausted"} /\ Goto(r, "failure")
    /\ UNCHANGED <<poolVars, clusterVars, has_horizon, inputVars, limitVars,
                   quotaVars, store>>

ReportSuccess(r) ==
    /\ At(r, "success")
    /\ Pool!ReportSuccess(r)
    /\ Goto(r, "store")
    /\ UNCHANGED <<clusterVars, has_horizon, inputVars, limitVars, quotaVars, store>>

ReportFailure(r) ==
    /\ At(r, "failure")
    /\ Pool!ReportFailure(r)
    /\ Goto(r, "reject")
    /\ UNCHANGED <<clusterVars, has_horizon, inputVars, limitVars, quotaVars, store>>

StoreTransaction(r) ==
    /\ At(r, "store")
    /\ store' = store \cup {Item(r)}
    /\ Goto(r, "release")
    /\ UNCHANGED <<poolVars, clusterVars, has_horizon, inputVars, limitVars, quotaVars>>

\* Give the lease back and answer with the error; the items of the batch
\* that were already processed stay charged and submitted.
RejectAndRelease(r) ==
    /\ \/ At(r, "reject") /\ Goto(r, "failed")
       \/ At(r, "over_quota") /\ Goto(r, "quota_exceeded")
    /\ Pool!Release(r)
    /\ UNCHANGED <<clusterVars, has_horizon, inputVars, limitVars, quotaVars, store>>

\* Give the lease back; the batch goes on with its next item.
ReleaseSigner(r) ==
    /\ At(r, "release")
    /\ Pool!Release(r)
    /\ IF item[r] < size[r]
         THEN item' = [item EXCEPT ![r] = @ + 1] /\ Goto(r, "validate")
         ELSE Goto(r, "done") /\ UNCHANGED item
    /\ UNCHANGED <<clusterVars, has_horizon, size, submit, ops, limitVars,
                   quotaVars, store>>

\* The client hangs up and the handler's future is dropped at an await.
Dropped(r) ==
    /\ Running(r)
    /\ Pool!Abandon(r)
    /\ UNCHANGED <<clusterVars, has_horizon, pc, inputVars, limitVars, quotaVars, store>>

Handle(r) ==
    \/ CheckIp(r) \/ CheckKey(r) \/ Validate(r)
    \/ FetchAccountAuth(r) \/ AuthFetched(r)
    \/ AcquireSigner(r) \/ NoSigner(r) \/ CreateFeeBump(r)
    \/ CheckQuota(r) \/ PushQuota(r)
    \/ SubmitTransaction(r) \/ Submitted(r)
    \/ ReportSuccess(r) \/ ReportFailure(r) \/ StoreTransaction(r)
    \/ RejectAndRelease(r) \/ ReleaseSigner(r)

-----------------------------------------------------------------------------
(* The environment of the requests *)

serverVars == <<has_horizon, pc, inputVars, limitVars, quotaVars, store>>

\* A node answers a call; the caller of a dropped request is gone.
HorizonAnswers(c) ==
    /\ c[1][1] \notin gone
    /\ Cluster!Exchange(c)
    /\ UNCHANGED <<poolVars, serverVars>>

LedgerApplies(c) ==
    /\ Cluster!LedgerApplies(c)
    /\ UNCHANGED <<poolVars, serverVars>>

\* The background task runs only if a Horizon URL is configured.
RevalidateSigners ==
    /\ has_horizon
    /\ Pool!Revalidate
    /\ UNCHANGED <<clusterVars, serverVars>>

NextDay ==
    /\ day < MaxDay
    /\ day' = day + 1
    /\ UNCHANGED <<poolVars, clusterVars, has_horizon, pc, inputVars, limitVars,
                   spent, seen, raced, charged, store>>

Next ==
    \/ \E r \in Requests : Arrive(r) \/ Handle(r) \/ Dropped(r)
    \/ \E c \in Calls : HorizonAnswers(c) \/ LedgerApplies(c)
    \/ RevalidateSigners
    \/ NextDay

Spec == Init /\ [][Next]_vars

-----------------------------------------------------------------------------
(* Properties *)

\* Every return of process_fee_bump_request gives its lease back: only the
\* requests still at work, and those dropped while at work, hold a signer.
LeaseOnlyWhileProcessing ==
    \A r \in Requests :
        lease[r] # 0 <=>
            pc[r] \in {"sign", "reject", "quota", "push", "submit", "submitting",
                       "success", "failure", "store", "release", "over_quota"}

\* The daily quota can be overshot only by pushes that missed another push
\* between their check and themselves, and by no more than their fees; a
\* tenant whose requests do not overlap never exceeds daily_quota_stroops.
OvershootOnlyByRaces ==
    \A t \in Tenants, d \in Days : spent[t][d] <= DailyQuota[t] + raced[t][d]

\* No transaction reaches the ledger at the sponsor's expense without a
\* record in the tenant's quota ledger, whatever fails after the push.
AppliedWasCharged ==
    \A c \in applied : c[1] \in charged

\* transaction_store lists as submitted only what is on the ledger.
StoredWasApplied ==
    \A i \in store : <<i, "submit">> \in applied

\* docs/sponsorship-quotas.md: dailyQuotaStroops is the maximum sponsored fee
\* spend allowed per tenant per UTC day.
DailyQuotaRespected ==
    \A t \in Tenants, d \in Days : spent[t][d] <= DailyQuota[t]

\* docs/sponsorship-quotas.md: a batch is checked as a whole before any
\* sponsorship is created, so a batch refused with QUOTA_EXCEEDED leaves no
\* charge behind.
RefusedBatchChargesNothing ==
    \A r \in Requests :
        pc[r] = "quota_exceeded" => \A k \in 1 .. MaxBatch : <<r, k>> \notin charged

\* The books of fee_bump and fee_bump_batch are true at every await: leases are
\* held only while a request processes, what the network applied was charged,
\* and what the store says was submitted was applied.
ServerInv ==
    TypeOK /\ LeaseOnlyWhileProcessing /\ AppliedWasCharged /\ StoredWasApplied
=============================================================================

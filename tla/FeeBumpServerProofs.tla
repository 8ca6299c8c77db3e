------------------------ MODULE FeeBumpServerProofs -------------------------
(***************************************************************************)
(* The composed Rust server for every number of requests, tenants, nodes   *)
(* and days: the daily quota is overshot only by racing pushes, and what   *)
(* is leased, charged, applied and stored agrees.                          *)
(***************************************************************************)
EXTENDS FeeBumpServer, TLAPS

\* The types the quota argument needs.
QuotaTypeOK ==
    /\ pc \in [Requests -> Places]
    /\ ops \in [Requests -> OpCounts \cup {Unbumpable}]
    /\ day \in Days
    /\ spent \in [Tenants -> [Days -> Int]]
    /\ seen \in [Requests -> Int]
    /\ raced \in [Tenants -> [Days -> Int]]

\* A request about to push passed its check with the spend it saw.
PassedCheck ==
    \A r \in Requests :
        pc[r] = "push" =>
            seen[r] + FeeAmount(ops[r]) <= DailyQuota[TenantOf[r]]

QuotaInv == QuotaTypeOK /\ PassedCheck /\ OvershootOnlyByRaces
            /\ \A t \in Tenants, d \in Days : raced[t][d] >= 0

\* The fee is an integer, whatever the operation count, and not negative.
LEMMA FeeIsInteger ==
    ASSUME NEW n \in OpCounts \cup {Unbumpable}
    PROVE  FeeAmount(n) \in Int /\ FeeAmount(n) >= 0
<1>1. n \in Int /\ n + 1 >= 0
    BY ServerAssumption DEF Unbumpable
<1>2. (n + 1) * BaseFee \in Nat
    BY <1>1, ServerAssumption
<1>3. (n + 1) * BaseFee * MultNum \in Nat
    BY <1>2, ServerAssumption
<1>4. (n + 1) * BaseFee * MultNum + MultDen - 1 \in Nat
    BY <1>3, ServerAssumption
<1>5. \A a \in Nat, b \in Nat \ {0} : a \div b \in Nat
    OBVIOUS
<1> QED BY <1>4, <1>5, ServerAssumption DEF FeeAmount

\* Actions that leave the quota ledger, the reads and the inputs alone, and
\* send no request to "push".
Idle == /\ UNCHANGED <<day, spent, seen, raced>>
        /\ pc' \in [Requests -> Places]
        /\ ops' \in [Requests -> OpCounts \cup {Unbumpable}]
        /\ \A r \in Requests : pc'[r] = "push" => pc[r] = "push" /\ ops'[r] = ops[r]

\* Such actions preserve the quota invariant.
LEMMA IdlePreservesQuota == QuotaInv /\ Idle => QuotaInv'
BY ServerAssumption DEF QuotaInv, Idle, QuotaTypeOK, PassedCheck, OvershootOnlyByRaces

\* The steps of a request outside the quota check and the push are idle.
LEMMA RequestStepsIdle ==
    ASSUME QuotaInv, NEW r \in Requests,
           \/ Arrive(r) \/ CheckIp(r) \/ CheckKey(r) \/ Validate(r)
           \/ FetchAccountAuth(r) \/ AuthFetched(r) \/ AcquireSigner(r)
           \/ NoSigner(r) \/ CreateFeeBump(r) \/ SubmitTransaction(r)
           \/ Submitted(r) \/ ReportSuccess(r) \/ ReportFailure(r)
           \/ StoreTransaction(r) \/ RejectAndRelease(r) \/ ReleaseSigner(r)
           \/ Dropped(r)
    PROVE  Idle
<1> USE DEF QuotaInv, QuotaTypeOK, Idle, At, Goto, Places, quotaVars, inputVars
<1>1. CASE Arrive(r) \/ CheckIp(r) \/ CheckKey(r)
    BY <1>1 DEF Arrive, CheckIp, CheckKey
<1>2. CASE Validate(r)
    BY <1>2 DEF Validate
<1>3. CASE FetchAccountAuth(r) \/ AuthFetched(r)
    BY <1>3 DEF FetchAccountAuth, AuthFetched
<1>4. CASE AcquireSigner(r) \/ NoSigner(r) \/ CreateFeeBump(r)
    BY <1>4 DEF AcquireSigner, NoSigner, CreateFeeBump
<1>5. CASE SubmitTransaction(r) \/ Submitted(r)
    BY <1>5 DEF SubmitTransaction, Submitted
<1>6. CASE ReportSuccess(r) \/ ReportFailure(r) \/ StoreTransaction(r)
    BY <1>6 DEF ReportSuccess, ReportFailure, StoreTransaction
<1>7. CASE RejectAndRelease(r)
    BY <1>7 DEF RejectAndRelease
<1>8. CASE ReleaseSigner(r)
    BY <1>8 DEF ReleaseSigner
<1>9. CASE Dropped(r)
    BY <1>9 DEF Dropped
<1> QED BY <1>1, <1>2, <1>3, <1>4, <1>5, <1>6, <1>7, <1>8, <1>9

\* The check lets a request go on to the push only within the quota.
LEMMA CheckPreservesQuota ==
    ASSUME QuotaInv, NEW r \in Requests, CheckQuota(r)
    PROVE  QuotaInv'
<1> USE ServerAssumption DEF QuotaInv
<1>1. TenantOf[r] \in Tenants /\ spent[TenantOf[r]][day] \in Int
    BY DEF QuotaTypeOK
<1>2. QuotaTypeOK'
    BY <1>1 DEF CheckQuota, QuotaTypeOK, inputVars, Goto, Places
<1>3. PassedCheck'
  <2> SUFFICES ASSUME NEW q \in Requests, pc'[q] = "push"
               PROVE  seen'[q] + FeeAmount(ops[q]) <= DailyQuota[TenantOf[q]]
      BY DEF PassedCheck, CheckQuota, inputVars
  <2>1. FeeAmount(ops[q]) \in Int /\ DailyQuota[TenantOf[q]] \in Int
    <3>1. ops[q] \in OpCounts \cup {Unbumpable}
        BY DEF QuotaTypeOK
    <3>2. DailyQuota[TenantOf[q]] \in Int
        OBVIOUS
    <3> QED BY <3>1, <3>2, FeeIsInteger
  <2>2. CASE q = r
      BY <1>1, <2>1, <2>2 DEF CheckQuota, Goto, QuotaTypeOK
  <2>3. CASE q # r
      BY <2>3 DEF CheckQuota, Goto, QuotaTypeOK, PassedCheck
  <2> QED BY <2>2, <2>3
<1>4. UNCHANGED <<spent, raced>>
    BY DEF CheckQuota
<1> QED BY <1>2, <1>3, <1>4 DEF OvershootOnlyByRaces

\* The push: without a race the sum stays within the quota, with one the
\* fee is added to both sides.
LEMMA PushPreservesQuota ==
    ASSUME QuotaInv, NEW r \in Requests, PushQuota(r)
    PROVE  QuotaInv'
<1> DEFINE t == TenantOf[r]
           fee == FeeAmount(ops[r])
           bump == IF spent[t][day] > seen[r] THEN fee ELSE 0
<1> USE ServerAssumption DEF QuotaInv
<1>1. /\ t \in Tenants /\ day \in Days
      /\ spent[t][day] \in Int /\ raced[t][day] \in Int /\ seen[r] \in Int
      /\ DailyQuota[t] \in Int
    BY DEF QuotaTypeOK
<1>2. fee \in Int /\ fee >= 0
    BY FeeIsInteger DEF QuotaTypeOK
<1>3. /\ spent' = [spent EXCEPT ![t][day] = @ + fee]
      /\ raced' = [raced EXCEPT ![t][day] =
                      IF spent[t][day] > seen[r] THEN @ + fee ELSE @]
      /\ pc[r] = "push"
      /\ UNCHANGED <<ops, day, seen>>
    BY DEF PushQuota, At, inputVars
<1>4. pc' \in [Requests -> Places]
      /\ \A q \in Requests : pc'[q] = "push" => pc[q] = "push"
    BY DEF PushQuota, Goto, Places, QuotaTypeOK
<1> HIDE DEF t, fee
<1>5. \A u \in Tenants, d \in Days :
        /\ spent'[u][d] = IF u = t /\ d = day THEN spent[u][d] + fee
                          ELSE spent[u][d]
        /\ raced'[u][d] = IF u = t /\ d = day THEN raced[u][d] + bump
                          ELSE raced[u][d]
    BY <1>1, <1>2, <1>3 DEF QuotaTypeOK
<1>6. QuotaTypeOK'
    BY <1>1, <1>2, <1>3, <1>4 DEF QuotaTypeOK
<1>7. PassedCheck'
    BY <1>3, <1>4 DEF PassedCheck
<1>8. bump \in Int /\ bump >= 0
    BY <1>2
<1>9. spent[t][day] + fee <= DailyQuota[t] + raced[t][day] + bump
  <2>1. CASE spent[t][day] > seen[r]
      BY <1>1, <1>2, <2>1 DEF OvershootOnlyByRaces
  <2>2. CASE ~(spent[t][day] > seen[r])
    <3>1. seen[r] + fee <= DailyQuota[t]
        BY <1>3 DEF PassedCheck, t, fee
    <3>2. raced[t][day] >= 0
        BY <1>1
    <3> QED BY <1>1, <1>2, <2>2, <3>1, <3>2
  <2> QED BY <2>1, <2>2
<1>10. \A u \in Tenants, d \in Days :
          /\ spent[u][d] \in Int /\ raced[u][d] \in Int /\ DailyQuota[u] \in Int
          /\ spent[u][d] <= DailyQuota[u] + raced[u][d]
          /\ raced[u][d] >= 0
    BY DEF QuotaTypeOK, OvershootOnlyByRaces
<1> HIDE DEF bump
<1>11. \A u \in Tenants, d \in Days :
          spent'[u][d] <= DailyQuota[u] + raced'[u][d] /\ raced'[u][d] >= 0
    BY <1>1, <1>2, <1>5, <1>8, <1>9, <1>10
<1> QED BY <1>6, <1>7, <1>11 DEF OvershootOnlyByRaces, QuotaInv

\* process_fee_bump_request: the daily quota is exceeded only through pushes
\* that raced another push, and only by the fees of those.
THEOREM QuotaOvershootBounded == Spec => []OvershootOnlyByRaces
<1>1. Init => QuotaInv
  <2> SUFFICES ASSUME Init PROVE QuotaInv
      OBVIOUS
  <2>1. QuotaTypeOK
      BY ServerAssumption DEF Init, QuotaTypeOK, Places, Days
  <2>2. PassedCheck
      BY DEF Init, PassedCheck
  <2> QED BY <2>1, <2>2, ServerAssumption
          DEF Init, QuotaInv, OvershootOnlyByRaces
<1>2. QuotaInv /\ [Next]_vars => QuotaInv'
  <2> SUFFICES ASSUME QuotaInv, [Next]_vars PROVE QuotaInv'
      OBVIOUS
  <2>1. ASSUME NEW r \in Requests, Arrive(r) \/ Handle(r) \/ Dropped(r)
        PROVE  QuotaInv'
      BY <2>1, RequestStepsIdle, IdlePreservesQuota, CheckPreservesQuota,
         PushPreservesQuota DEF Handle
  <2>2. ASSUME NEW c \in Calls, HorizonAnswers(c) \/ LedgerApplies(c)
        PROVE  QuotaInv'
    <3>1. Idle
        BY <2>2 DEF HorizonAnswers, LedgerApplies, serverVars, Idle, quotaVars,
           inputVars, QuotaInv, QuotaTypeOK
    <3> QED BY <3>1, IdlePreservesQuota
  <2>3. CASE RevalidateSigners
    <3>1. Idle
        BY <2>3 DEF RevalidateSigners, serverVars, Idle, quotaVars, inputVars,
           QuotaInv, QuotaTypeOK
    <3> QED BY <3>1, IdlePreservesQuota
  <2>4. CASE NextDay
      BY <2>4, ServerAssumption DEF NextDay, QuotaInv, QuotaTypeOK, PassedCheck,
         OvershootOnlyByRaces, inputVars, Days
  <2>5. CASE UNCHANGED vars
    <3>1. Idle
        BY <2>5 DEF vars, Idle, quotaVars, inputVars, QuotaInv, QuotaTypeOK
    <3> QED BY <3>1, IdlePreservesQuota
  <2> QED BY <2>1, <2>2, <2>3, <2>4, <2>5 DEF Next
<1>3. QuotaInv => OvershootOnlyByRaces
    BY DEF QuotaInv
<1> QED BY <1>1, <1>2, <1>3, PTL DEF Spec

-----------------------------------------------------------------------------
\* Every step of a request keeps its variables within their types.
LEMMA RequestKeepsTypes ==
    ASSUME TypeOK, NEW r \in Requests, Arrive(r) \/ Handle(r) \/ Dropped(r)
    PROVE  TypeOK'
<1> USE DEF TypeOK, At, Goto, Places, quotaVars, inputVars, limitVars
<1>1. CASE Arrive(r)
    BY <1>1 DEF Arrive
<1>2. CASE CheckIp(r)
  <2>1. ip_count' \in 0 .. GlobalMax
    <3>1. PICK n \in WindowCounts(ip_count) :
            \/ n < GlobalMax /\ ip_count' = n + 1 /\ Goto(r, "key")
            \/ n >= GlobalMax /\ ip_count' = n /\ Goto(r, "failed")
        BY <1>2, Zenon DEF CheckIp
    <3>2. n \in 0 .. GlobalMax
        BY ServerAssumption DEF WindowCounts
    <3> QED BY <3>1, <3>2, ServerAssumption
  <2> QED BY <1>2, <2>1 DEF CheckIp
<1>3. CASE CheckKey(r)
  <2>1. TenantOf[r] \in Tenants
      BY ServerAssumption
  <2>2. PICK n \in {0, key_count[TenantOf[r]]} :
            \/ n < KeyMax /\ key_count' = [key_count EXCEPT ![TenantOf[r]] = n + 1]
            \/ n >= KeyMax /\ key_count' = [key_count EXCEPT ![TenantOf[r]] = n]
      BY <1>3 DEF CheckKey, WindowCounts
  <2>3. n \in 0 .. KeyMax
      BY <2>1, ServerAssumption
  <2>4. key_count' \in [Tenants -> 0 .. KeyMax]
      BY <2>1, <2>2, <2>3, ServerAssumption
  <2> QED BY <1>3, <2>4 DEF CheckKey
<1>4. CASE Validate(r)
    BY <1>4 DEF Validate
<1>5. CASE FetchAccountAuth(r) \/ AuthFetched(r)
    BY <1>5 DEF FetchAccountAuth, AuthFetched
<1>6. CASE AcquireSigner(r) \/ NoSigner(r) \/ CreateFeeBump(r)
    BY <1>6 DEF AcquireSigner, NoSigner, CreateFeeBump
<1>7. CASE CheckQuota(r)
  <2>1. spent[TenantOf[r]][day] \in Nat
      BY ServerAssumption
  <2> QED BY <1>7, <2>1 DEF CheckQuota
<1>8. CASE PushQuota(r)
  <2> DEFINE t == TenantOf[r]
             fee == FeeAmount(ops[r])
  <2>1. /\ t \in Tenants /\ day \in Days /\ spent[t] \in [Days -> Nat]
        /\ raced[t] \in [Days -> Nat]
      BY ServerAssumption
  <2>2. fee \in Nat
      BY FeeIsInteger
  <2>3. /\ spent' = [spent EXCEPT ![t][day] = @ + fee]
        /\ raced' = [raced EXCEPT ![t][day] =
                        IF spent[t][day] > seen[r] THEN @ + fee ELSE @]
      BY <1>8 DEF PushQuota
  <2> HIDE DEF t, fee
  <2>4. /\ spent' \in [Tenants -> [Days -> Nat]]
        /\ raced' \in [Tenants -> [Days -> Nat]]
      BY <2>1, <2>2, <2>3
  <2>5. charged' \in SUBSET Items
      BY <1>8 DEF PushQuota, Item, Items
  <2> QED BY <1>8, <2>4, <2>5 DEF PushQuota
<1>9. CASE SubmitTransaction(r) \/ Submitted(r)
    BY <1>9 DEF SubmitTransaction, Submitted
<1>10. CASE ReportSuccess(r) \/ ReportFailure(r)
    BY <1>10 DEF ReportSuccess, ReportFailure
<1>11. CASE StoreTransaction(r)
    BY <1>11 DEF StoreTransaction, Item, Items
<1>12. CASE RejectAndRelease(r)
    BY <1>12 DEF RejectAndRelease
<1>13. CASE ReleaseSigner(r)
  <2>1. size[r] \in 1 .. MaxBatch /\ item[r] \in 1 .. MaxBatch
      OBVIOUS
  <2>2. item' \in [Requests -> 1 .. MaxBatch]
      BY <1>13, <2>1, ServerAssumption DEF ReleaseSigner
  <2> QED BY <1>13, <2>2 DEF ReleaseSigner
<1>14. CASE Dropped(r)
    BY <1>14 DEF Dropped
<1> QED BY <1>1, <1>2, <1>3, <1>4, <1>5, <1>6, <1>7, <1>8, <1>9, <1>10, <1>11,
        <1>12, <1>13, <1>14 DEF Handle

\* The type invariant of the composed server, whose quota sums are natural
\* numbers and whose rate-limit counters stay within their limits.
THEOREM ServerTypeCorrect == Spec => []TypeOK
<1>1. Init => TypeOK
    BY ServerAssumption DEF Init, TypeOK, Places, Days
<1>2. TypeOK /\ [Next]_vars => TypeOK'
  <2> SUFFICES ASSUME TypeOK, [Next]_vars PROVE TypeOK'
      OBVIOUS
  <2>1. ASSUME NEW r \in Requests, Arrive(r) \/ Handle(r) \/ Dropped(r)
        PROVE  TypeOK'
      BY <2>1, RequestKeepsTypes
  <2>2. ASSUME UNCHANGED serverVars PROVE TypeOK'
      BY <2>2 DEF serverVars, TypeOK, inputVars, limitVars, quotaVars
  <2>3. ASSUME NEW c \in Calls, HorizonAnswers(c) \/ LedgerApplies(c)
        PROVE  TypeOK'
      BY <2>2, <2>3 DEF HorizonAnswers, LedgerApplies
  <2>4. CASE RevalidateSigners
      BY <2>2, <2>4 DEF RevalidateSigners
  <2>5. CASE NextDay
      BY <2>5, ServerAssumption DEF NextDay, TypeOK, Days, inputVars, limitVars
  <2>6. CASE UNCHANGED vars
      BY <2>2, <2>6 DEF vars, serverVars
  <2> QED BY <2>1, <2>3, <2>4, <2>5, <2>6 DEF Next
<1> QED BY <1>1, <1>2, PTL DEF Spec

-----------------------------------------------------------------------------
AtWork == {"sign", "reject", "quota", "push", "submit", "submitting", "success",
           "failure", "store", "release", "over_quota"}

\* Leases are typed, so that a signer's number is told apart from no lease.
LeaseInv == lease \in [Requests -> Nat] /\ LeaseOnlyWhileProcessing

\* Steps that move no lease and no request across the boundary of its work.
Within == /\ UNCHANGED lease
          /\ \A r \in Requests : pc'[r] \in AtWork <=> pc[r] \in AtWork

\* process_fee_bump_request takes its lease on the way into its work and
\* gives it back on every way out; a dropped request keeps both.
LEMMA LeaseStep == TypeOK /\ LeaseInv /\ [Next]_vars => LeaseInv'
<1> SUFFICES ASSUME TypeOK, LeaseInv, [Next]_vars PROVE LeaseInv'
    OBVIOUS
<1>0. ASSUME Within PROVE LeaseInv'
    BY <1>0 DEF Within, LeaseInv, LeaseOnlyWhileProcessing, AtWork
<1>1. ASSUME NEW r \in Requests,
             \/ Arrive(r) \/ CheckIp(r) \/ CheckKey(r) \/ Validate(r)
             \/ FetchAccountAuth(r) \/ AuthFetched(r) \/ NoSigner(r)
             \/ CreateFeeBump(r) \/ CheckQuota(r) \/ PushQuota(r)
             \/ SubmitTransaction(r) \/ Submitted(r) \/ StoreTransaction(r)
      PROVE  Within
  <2> USE DEF TypeOK, At, Goto, AtWork, Within, poolVars
  <2>1. CASE \/ Arrive(r) \/ CheckIp(r) \/ CheckKey(r) \/ Validate(r)
      BY <2>1 DEF Arrive, CheckIp, CheckKey, Validate
  <2>2. CASE FetchAccountAuth(r) \/ AuthFetched(r) \/ NoSigner(r)
      BY <2>2 DEF FetchAccountAuth, AuthFetched, NoSigner
  <2>3. CASE CreateFeeBump(r) \/ CheckQuota(r) \/ PushQuota(r)
      BY <2>3 DEF CreateFeeBump, CheckQuota, PushQuota
  <2>4. CASE SubmitTransaction(r) \/ Submitted(r) \/ StoreTransaction(r)
      BY <2>4 DEF SubmitTransaction, Submitted, StoreTransaction
  <2> QED BY <1>1, <2>1, <2>2, <2>3, <2>4
<1>2. ASSUME NEW r \in Requests, AcquireSigner(r) PROVE LeaseInv'
  <2>1. PICK i \in 1 .. N : lease' = [lease EXCEPT ![r] = i]
      BY <1>2 DEF AcquireSigner, Pool!Acquire, Pool!Accounts
  <2>2. pc' = [pc EXCEPT ![r] = "sign"]
      BY <1>2 DEF AcquireSigner, Goto
  <2> QED BY <2>1, <2>2 DEF LeaseInv, LeaseOnlyWhileProcessing, TypeOK
<1>3. ASSUME NEW r \in Requests, ReportSuccess(r) \/ ReportFailure(r)
      PROVE  Within
    BY <1>3 DEF ReportSuccess, ReportFailure, Pool!ReportSuccess,
       Pool!ReportFailure, Within, AtWork, At, Goto, TypeOK
<1>4. ASSUME NEW r \in Requests, RejectAndRelease(r) \/ ReleaseSigner(r)
      PROVE  LeaseInv'
  <2>1. lease' = [lease EXCEPT ![r] = 0]
      BY <1>4 DEF RejectAndRelease, ReleaseSigner, Pool!Release
  <2>2. \E p \in {"failed", "quota_exceeded", "validate", "done"} :
            pc' = [pc EXCEPT ![r] = p]
      BY <1>4 DEF RejectAndRelease, ReleaseSigner, Goto
  <2> QED BY <2>1, <2>2 DEF LeaseInv, LeaseOnlyWhileProcessing, TypeOK
<1>5. ASSUME NEW r \in Requests, Dropped(r) PROVE Within
    BY <1>5 DEF Dropped, Pool!Abandon, Within
<1>6. ASSUME NEW c \in Calls, HorizonAnswers(c) \/ LedgerApplies(c)
      PROVE  Within
    BY <1>6 DEF HorizonAnswers, LedgerApplies, serverVars, poolVars, Within
<1>7. CASE RevalidateSigners
  <2>1. UNCHANGED lease
      BY <1>7 DEF RevalidateSigners, Pool!Revalidate, Pool!RevalidateSnapshot,
         Pool!RevalidateApply, Pool!RevalidateSkip, Pool!leaseVars
  <2> QED BY <1>0, <1>7, <2>1 DEF RevalidateSigners, serverVars, Within
<1>8. CASE NextDay \/ UNCHANGED vars
  <2>1. UNCHANGED <<pc, lease>>
      BY <1>8 DEF NextDay, vars, poolVars
  <2> QED BY <1>0, <2>1 DEF Within
<1> QED BY <1>0, <1>1, <1>2, <1>3, <1>4, <1>5, <1>6, <1>7, <1>8
        DEF Next, Handle

-----------------------------------------------------------------------------
Results == {"new", "busy", "ok", "refused", "exhausted"}

CallTypeOK ==
    /\ result \in [Calls -> Results]
    /\ applied \in SUBSET Calls
    /\ loose \in SUBSET Calls

\* A submission that left the server, however it ended, was charged first,
\* and nothing but a submission is ever applied.
SentWasCharged ==
    /\ \A c \in Calls :
        /\ KindOf(c) = "submit"
        /\ result[c] # "new" \/ c \in loose \/ c \in applied
        => c[1] \in charged
    /\ \A c \in applied : KindOf(c) = "submit"

\* Horizon's acknowledgement means the transaction is on the ledger.
OkWasApplied ==
    \A c \in Calls : KindOf(c) = "submit" /\ result[c] = "ok" => c \in applied

\* What a request knows of its current item at the places after the push.
PlaceKnows ==
    \A r \in Requests :
        /\ pc[r] \in {"submit", "submitting", "success", "store"}
             => Item(r) \in charged
        /\ pc[r] \in {"success", "store"} => <<Item(r), "submit">> \in applied

LedgerInv ==
    CallTypeOK /\ SentWasCharged /\ OkWasApplied /\ PlaceKnows /\ StoredWasApplied

\* A step that leaves the cluster alone keeps what is known of the calls.
LEMMA QuietKeepsCalls ==
    ASSUME LedgerInv, UNCHANGED clusterVars, charged \subseteq charged'
    PROVE  CallTypeOK' /\ SentWasCharged' /\ OkWasApplied'
<1>1. UNCHANGED <<result, applied, loose>>
    BY DEF clusterVars
<1> QED BY <1>1 DEF LedgerInv, CallTypeOK, SentWasCharged, OkWasApplied, KindOf

\* The exchanges with Horizon: a call that is under way was charged, and it
\* ends well only once it is applied.
LEMMA HorizonKeepsLedger ==
    ASSUME LedgerInv, NEW c \in Calls, HorizonAnswers(c) \/ LedgerApplies(c)
    PROVE  LedgerInv'
<1> USE DEF KindOf
<1>1. UNCHANGED <<pc, item, charged, store>>
    BY DEF HorizonAnswers, LedgerApplies, serverVars, inputVars, quotaVars
<1>2. CASE Cluster!Succeeds(c) \/ Cluster!EndsUnmarked(c) \/ Cluster!Refused(c)
  <2>1. /\ UNCHANGED <<applied, loose>>
        /\ result[c] = "busy"
        /\ \/ result' = [result EXCEPT ![c] = "ok"]
                /\ (KindOf(c) = "submit" => c \in applied)
           \/ result' = [result EXCEPT ![c] = "refused"]
      BY <1>2 DEF Cluster!Succeeds, Cluster!EndsUnmarked, Cluster!Refused,
         Cluster!End, Cluster!Acknowledged, Cluster!ledgerVars
  <2>2. CallTypeOK' /\ SentWasCharged' /\ OkWasApplied'
      BY <1>1, <2>1 DEF LedgerInv, CallTypeOK, Results, SentWasCharged, OkWasApplied
  <2> QED BY <1>1, <2>1, <2>2 DEF LedgerInv, PlaceKnows, StoredWasApplied, Item
<1>3. CASE Cluster!FailsOver(c)
  <2>1. /\ UNCHANGED applied
        /\ result[c] = "busy"
        /\ result' = [result EXCEPT ![c] = "exhausted"] \/ UNCHANGED result
        /\ loose' = loose \/ loose' = loose \cup {c}
      BY <1>3 DEF Cluster!FailsOver, Cluster!End
  <2>2. CallTypeOK' /\ OkWasApplied'
      BY <2>1 DEF LedgerInv, CallTypeOK, Results, OkWasApplied
  <2>3. SentWasCharged'
      BY <1>1, <2>1 DEF LedgerInv, CallTypeOK, SentWasCharged
  <2> QED BY <1>1, <2>1, <2>2, <2>3 DEF LedgerInv, PlaceKnows, StoredWasApplied, Item
<1>4. CASE LedgerApplies(c)
  <2>1. /\ UNCHANGED <<result, loose>>
        /\ KindOf(c) = "submit"
        /\ result[c] = "busy" \/ c \in loose
        /\ applied' = applied \cup {c}
      BY <1>4 DEF LedgerApplies, Cluster!LedgerApplies, Cluster!callVars
  <2>2. CallTypeOK' /\ SentWasCharged' /\ OkWasApplied'
      BY <1>1, <2>1 DEF LedgerInv, CallTypeOK, SentWasCharged, OkWasApplied
  <2> QED BY <1>1, <2>1, <2>2 DEF LedgerInv, PlaceKnows, StoredWasApplied, Item
<1> QED BY <1>2, <1>3, <1>4 DEF HorizonAnswers, Cluster!Exchange

\* The start of a call: a submission starts at a charged item.
LEMMA BeginKeepsLedger ==
    ASSUME TypeOK, LedgerInv, NEW r \in Requests,
           FetchAccountAuth(r) \/ SubmitTransaction(r)
    PROVE  LedgerInv'
<1> USE DEF KindOf
<1>1. UNCHANGED <<item, charged, store, applied, loose>>
    BY DEF FetchAccountAuth, SubmitTransaction, inputVars, quotaVars,
       Cluster!Begin, Cluster!ledgerVars
<1>2. Item(r) \in Items
    BY DEF Item, Items, TypeOK
<1>3. PICK k \in {"auth", "submit"} :
        /\ result' = [result EXCEPT ![<<Item(r), k>>] = "busy"]
        /\ k = "submit" => pc[r] = "submit"
    BY DEF FetchAccountAuth, SubmitTransaction, Cluster!Begin, At
<1>4. <<Item(r), k>> \in Calls
    BY <1>2 DEF Calls
<1>5. k = "submit" => Item(r) \in charged
    BY <1>3 DEF LedgerInv, PlaceKnows
<1>6. CallTypeOK' /\ OkWasApplied'
    BY <1>1, <1>3, <1>4 DEF LedgerInv, CallTypeOK, Results, OkWasApplied
<1>7. SentWasCharged'
  <2> SUFFICES ASSUME NEW c \in Calls, KindOf(c) = "submit",
                      result'[c] # "new" \/ c \in loose \/ c \in applied
               PROVE  c[1] \in charged
      BY <1>1 DEF LedgerInv, SentWasCharged
  <2>1. CASE c = <<Item(r), k>>
      BY <1>5, <2>1
  <2>2. CASE c # <<Item(r), k>>
      BY <1>3, <1>4, <2>2 DEF LedgerInv, CallTypeOK, SentWasCharged
  <2> QED BY <2>1, <2>2
<1>8. /\ \/ pc' = [pc EXCEPT ![r] = "authing"]
         \/ pc[r] = "submit" /\ pc' = [pc EXCEPT ![r] = "submitting"]
      /\ \A q \in Requests : Item(q)' = Item(q)
  <2>1. \A q \in Requests : Item(q)' = Item(q)
      BY <1>1 DEF Item
  <2>2. \/ pc' = [pc EXCEPT ![r] = "authing"]
        \/ pc[r] = "submit" /\ pc' = [pc EXCEPT ![r] = "submitting"]
      BY DEF FetchAccountAuth, SubmitTransaction, Goto, At
  <2> QED BY <2>1, <2>2
<1>9. PlaceKnows'
  <2> SUFFICES ASSUME NEW q \in Requests
               PROVE  /\ pc'[q] \in {"submit", "submitting", "success", "store"}
                           => Item(q) \in charged
                      /\ pc'[q] \in {"success", "store"}
                           => <<Item(q), "submit">> \in applied
      BY <1>1, <1>8 DEF PlaceKnows
  <2>1. CASE q = r
      BY <1>8, <2>1 DEF LedgerInv, PlaceKnows, TypeOK
  <2>2. CASE q # r
      BY <1>8, <2>2 DEF LedgerInv, PlaceKnows, TypeOK
  <2> QED BY <2>1, <2>2
<1> QED BY <1>1, <1>6, <1>7, <1>9 DEF LedgerInv, StoredWasApplied

\* The steps of a request that start no call: what it knows of its item
\* follows it from the push to the store.
LEMMA QuietKeepsLedger ==
    ASSUME TypeOK, LedgerInv, NEW r \in Requests, UNCHANGED clusterVars,
           \/ Arrive(r) \/ CheckIp(r) \/ CheckKey(r) \/ Validate(r)
           \/ AuthFetched(r) \/ AcquireSigner(r) \/ NoSigner(r)
           \/ CreateFeeBump(r) \/ CheckQuota(r) \/ PushQuota(r)
           \/ Submitted(r) \/ ReportSuccess(r) \/ ReportFailure(r)
           \/ StoreTransaction(r) \/ RejectAndRelease(r) \/ ReleaseSigner(r)
           \/ Dropped(r)
    PROVE  LedgerInv'
<1> DEFINE Charged == {"submit", "submitting", "success", "store"}
           Applied == {"success", "store"}
<1>0. UNCHANGED <<result, applied, loose>>
    BY DEF clusterVars
<1>1. Item(r) \in Items /\ <<Item(r), "submit">> \in Calls
    BY DEF Item, Items, TypeOK, Calls
<1>2. /\ charged' = charged \/ charged' = charged \cup {Item(r)}
      /\ \/ store' = store
         \/ pc[r] = "store" /\ store' = store \cup {Item(r)}
  <2>1. CASE PushQuota(r)
      BY <2>1 DEF PushQuota
  <2>2. CASE StoreTransaction(r)
      BY <2>2 DEF StoreTransaction, quotaVars, At
  <2>3. CASE \/ Arrive(r) \/ CheckIp(r) \/ CheckKey(r) \/ Validate(r)
             \/ AuthFetched(r) \/ AcquireSigner(r) \/ NoSigner(r)
             \/ CreateFeeBump(r) \/ CheckQuota(r) \/ Submitted(r)
             \/ ReportSuccess(r) \/ ReportFailure(r) \/ RejectAndRelease(r)
             \/ ReleaseSigner(r) \/ Dropped(r)
    <3>1. UNCHANGED <<charged, store>>
        BY <2>3 DEF Arrive, CheckIp, CheckKey, Validate, AuthFetched,
           AcquireSigner, NoSigner, CreateFeeBump, CheckQuota, Submitted,
           ReportSuccess, ReportFailure, RejectAndRelease, ReleaseSigner,
           Dropped, quotaVars
    <3> QED BY <3>1
  <2> QED BY <2>1, <2>2, <2>3
<1>3. CallTypeOK' /\ SentWasCharged' /\ OkWasApplied'
    BY <1>2, QuietKeepsCalls
<1>4. StoredWasApplied'
    BY <1>0, <1>2 DEF LedgerInv, StoredWasApplied, PlaceKnows
<1>5. \A q \in Requests : q # r => pc'[q] = pc[q] /\ Item(q)' = Item(q)
    BY DEF Arrive, CheckIp, CheckKey, Validate, AuthFetched, AcquireSigner,
       NoSigner, CreateFeeBump, CheckQuota, PushQuota, Submitted, ReportSuccess,
       ReportFailure, StoreTransaction, RejectAndRelease, ReleaseSigner,
       Dropped, inputVars, Goto, Item, TypeOK
<1>6. /\ pc'[r] \in Charged => Item(r)' \in charged'
      /\ pc'[r] \in Applied => <<Item(r)', "submit">> \in applied
  <2> USE DEF TypeOK, Goto, At
  <2>1. CASE \/ Arrive(r) \/ CheckIp(r) \/ CheckKey(r) \/ Validate(r)
             \/ AuthFetched(r) \/ AcquireSigner(r) \/ NoSigner(r)
             \/ CreateFeeBump(r) \/ CheckQuota(r) \/ ReportFailure(r)
             \/ StoreTransaction(r) \/ RejectAndRelease(r) \/ ReleaseSigner(r)
    <3>1. pc'[r] \notin Charged
        BY <2>1 DEF Arrive, CheckIp, CheckKey, Validate, AuthFetched,
           AcquireSigner, NoSigner, CreateFeeBump, CheckQuota, ReportFailure,
           StoreTransaction, RejectAndRelease, ReleaseSigner
    <3> QED BY <3>1
  <2>2. CASE PushQuota(r)
      BY <2>2 DEF PushQuota, Item, inputVars
  <2>3. CASE Submitted(r)
    <3>1. Item(r)' = Item(r) /\ charged' = charged /\ pc[r] = "submitting"
        BY <2>3 DEF Submitted, Item, inputVars, quotaVars
    <3>2. Item(r)' \in charged'
        BY <3>1 DEF LedgerInv, PlaceKnows
    <3>3. \/ pc'[r] = "success" /\ result[<<Item(r), "submit">>] = "ok"
          \/ pc'[r] = "failure"
        BY <2>3 DEF Submitted
    <3>4. result[<<Item(r), "submit">>] = "ok" => <<Item(r), "submit">> \in applied
        BY <1>1 DEF LedgerInv, OkWasApplied, KindOf
    <3> QED BY <3>1, <3>2, <3>3, <3>4
  <2>4. CASE ReportSuccess(r)
    <3>1. Item(r)' = Item(r) /\ charged' = charged /\ pc[r] = "success"
        BY <2>4 DEF ReportSuccess, Item, inputVars, quotaVars
    <3> QED BY <3>1 DEF LedgerInv, PlaceKnows
  <2>5. CASE Dropped(r)
    <3>1. Item(r)' = Item(r) /\ UNCHANGED <<charged, pc>>
        BY <2>5 DEF Dropped, Item, inputVars, quotaVars
    <3> QED BY <3>1 DEF LedgerInv, PlaceKnows
  <2> QED BY <2>1, <2>2, <2>3, <2>4, <2>5
<1>7. PlaceKnows'
  <2> SUFFICES ASSUME NEW q \in Requests
               PROVE  /\ pc'[q] \in Charged => Item(q)' \in charged'
                      /\ pc'[q] \in Applied => <<Item(q)', "submit">> \in applied'
      BY DEF PlaceKnows
  <2>1. CASE q = r
      BY <1>0, <1>6, <2>1
  <2>2. CASE q # r
      BY <1>0, <1>2, <1>5, <2>2 DEF LedgerInv, PlaceKnows
  <2> QED BY <2>1, <2>2
<1> QED BY <1>3, <1>4, <1>7 DEF LedgerInv

\* The server's books (main.rs, fee_bump and fee_bump_batch) are true for
\* every number of requests, tenants, nodes and accounts: no lease outlives
\* its work, nothing is applied uncharged and nothing is stored unapplied.
THEOREM ServerBooksAreTrue == Spec => []ServerInv
<1>1. Init => LeaseInv /\ LedgerInv
  <2> SUFFICES ASSUME Init PROVE LeaseInv /\ LedgerInv
      OBVIOUS
  <2>1. LeaseInv
      BY DEF Init, Pool!PoolInit, LeaseInv, LeaseOnlyWhileProcessing
  <2>2. /\ result = [c \in Calls |-> "new"] /\ applied = {} /\ loose = {}
        /\ pc = [r \in Requests |-> "idle"] /\ store = {}
      BY DEF Init, Cluster!ClusterInit
  <2> QED BY <2>1, <2>2 DEF LedgerInv, CallTypeOK, Results, SentWasCharged,
             OkWasApplied, PlaceKnows, StoredWasApplied
<1>2. TypeOK /\ LedgerInv /\ [Next]_vars => LedgerInv'
  <2> SUFFICES ASSUME TypeOK, LedgerInv, [Next]_vars PROVE LedgerInv'
      OBVIOUS
  <2>1. ASSUME NEW r \in Requests, Arrive(r) \/ Handle(r) \/ Dropped(r)
        PROVE  LedgerInv'
    <3>1. CASE FetchAccountAuth(r) \/ SubmitTransaction(r)
        BY <3>1, BeginKeepsLedger
    <3>2. CASE \/ Arrive(r) \/ CheckIp(r) \/ CheckKey(r) \/ Validate(r)
               \/ AuthFetched(r) \/ AcquireSigner(r) \/ NoSigner(r)
               \/ CreateFeeBump(r) \/ CheckQuota(r) \/ PushQuota(r)
               \/ Submitted(r) \/ ReportSuccess(r) \/ ReportFailure(r)
               \/ StoreTransaction(r) \/ RejectAndRelease(r)
               \/ ReleaseSigner(r) \/ Dropped(r)
      <4>1. UNCHANGED clusterVars
          BY <3>2 DEF Arrive, CheckIp, CheckKey, Validate, AuthFetched,
             AcquireSigner, NoSigner, CreateFeeBump, CheckQuota, PushQuota,
             Submitted, ReportSuccess, ReportFailure, StoreTransaction,
             RejectAndRelease, ReleaseSigner, Dropped
      <4> QED BY <3>2, <4>1, QuietKeepsLedger
    <3> QED BY <2>1, <3>1, <3>2 DEF Handle
  <2>2. ASSUME NEW c \in Calls, HorizonAnswers(c) \/ LedgerApplies(c)
        PROVE  LedgerInv'
      BY <2>2, HorizonKeepsLedger
  <2>3. CASE RevalidateSigners \/ NextDay \/ UNCHANGED vars
    <3>1. UNCHANGED <<result, applied, loose, charged, store, pc, item>>
        BY <2>3 DEF RevalidateSigners, NextDay, vars, serverVars, clusterVars,
           inputVars, quotaVars
    <3> QED BY <3>1 DEF LedgerInv, CallTypeOK, SentWasCharged, OkWasApplied,
               PlaceKnows, StoredWasApplied, Item
  <2> QED BY <2>1, <2>2, <2>3 DEF Next
<1>3. TypeOK /\ LeaseInv /\ LedgerInv => ServerInv
    BY DEF ServerInv, LeaseInv, LedgerInv, AppliedWasCharged, SentWasCharged,
       CallTypeOK
<1> QED BY <1>1, <1>2, <1>3, LeaseStep, ServerTypeCorrect, PTL DEF Spec
=============================================================================

------------------------- MODULE FeeBumpQueueProofs -------------------------
(***************************************************************************)
(* What the Node server's fee-bump queue guarantees for every set of jobs  *)
(* and transactions, every limit, concurrency and number of attempts: its  *)
(* types, how far the quota race overshoots, how often the replay guard    *)
(* lets a transaction be charged, and that a job's outcome is the one it   *)
(* reports.  And that the books of the batch handler are true.             *)
(***************************************************************************)
EXTENDS FeeBumpQueue, BatchFeeBump, FiniteSetTheorems, TLAPS

-----------------------------------------------------------------------------
(* The backoff *)

\* A power of two is a natural number: the number of subsets of 1 .. n.
LEMMA PowerIsNat ==
    ASSUME NEW n \in Nat
    PROVE  2 ^ n \in Nat
<1>1. IsFiniteSet(1 .. n) /\ Cardinality(1 .. n) = n
    BY FS_Interval
<1>2. IsFiniteSet(SUBSET (1 .. n)) /\ Cardinality(SUBSET (1 .. n)) = 2 ^ n
    BY <1>1, FS_SUBSET
<1> QED BY <1>2, FS_CardinalityType

\* A smaller exponent gives a smaller power: fewer subsets.
LEMMA PowerIsMonotone ==
    ASSUME NEW m \in Nat, NEW n \in Nat, m <= n
    PROVE  2 ^ m <= 2 ^ n
<1>1. /\ IsFiniteSet(1 .. n) /\ Cardinality(1 .. n) = n
      /\ IsFiniteSet(1 .. m) /\ Cardinality(1 .. m) = m
    BY FS_Interval
<1>2. /\ IsFiniteSet(SUBSET (1 .. n)) /\ Cardinality(SUBSET (1 .. n)) = 2 ^ n
      /\ IsFiniteSet(SUBSET (1 .. m)) /\ Cardinality(SUBSET (1 .. m)) = 2 ^ m
    BY <1>1, FS_SUBSET
<1>3. SUBSET (1 .. m) \in SUBSET (SUBSET (1 .. n))
    OBVIOUS
<1> QED BY <1>2, <1>3, FS_Subset

\* No delay of the exponential backoff is longer than the one before the last
\* attempt, and the first is not either.
LEMMA DelayIsBounded ==
    /\ MaxDelay \in Nat
    /\ \A n \in 0 .. Attempts - 1 : BackoffDelay * 2 ^ n \in 0 .. MaxDelay
<1>1. Attempts - 1 \in Nat /\ BackoffDelay \in Nat
    BY QueueAssumption
<1>2. 2 ^ (Attempts - 1) \in Nat
    BY <1>1, PowerIsNat
<1>3. MaxDelay \in Nat
    BY <1>1, <1>2 DEF MaxDelay
<1>4. ASSUME NEW n \in 0 .. Attempts - 1 PROVE BackoffDelay * 2 ^ n \in 0 .. MaxDelay
  <2>1. 2 ^ n \in Nat /\ 2 ^ n <= 2 ^ (Attempts - 1)
      BY <1>1, PowerIsNat, PowerIsMonotone
  <2>2. \A a, x, y \in Nat : x <= y => a * x \in Nat /\ a * x <= a * y
      OBVIOUS
  <2> QED BY <1>1, <1>2, <1>3, <2>1, <2>2 DEF MaxDelay
<1> QED BY <1>3, <1>4

-----------------------------------------------------------------------------
(* Types *)

\* What the types rest on: exactly the active jobs have a running attempt, a job
\* is added by its request, and one that is not over has an attempt left.
Books ==
    /\ TypeOK
    /\ \A j \in Jobs :
          /\ pc[j] # "idle" <=> status[j] = "active"
          /\ handler[j] = "none" => status[j] = "none"
          /\ status[j] \notin Over => attemptsMade[j] < Attempts

\* What an attempt that throws leaves behind.
LEMMA ThrowBooks ==
    ASSUME Books, NEW j \in Jobs, pc[j] # "idle", Throw(j)
    PROVE  /\ pc' = [pc EXCEPT ![j] = "idle"]
           /\ \E s \in {"delayed", "failed"} : status' = [status EXCEPT ![j] = s]
           /\ attemptsMade' \in [Jobs -> 0 .. Attempts]
           /\ delay' \in [Jobs -> 0 .. MaxDelay]
           /\ UNCHANGED <<tx, kind, handler, left, stalledCount>>
           /\ \A i \in Jobs : status'[i] \notin Over => attemptsMade'[i] < Attempts
<1>1. attemptsMade[j] \in Nat /\ attemptsMade[j] < Attempts /\ Attempts \in Nat
    BY QueueAssumption DEF Books, TypeOK, Over
<1>2. UNCHANGED <<tx, kind, handler, left, stalledCount>>
    BY DEF Throw, requestVars
<1>3. /\ pc' = [pc EXCEPT ![j] = "idle"]
      /\ attemptsMade' = [attemptsMade EXCEPT ![j] = @ + 1]
    BY DEF Throw
<1>4. attemptsMade \in [Jobs -> 0 .. Attempts] /\ delay \in [Jobs -> 0 .. MaxDelay]
    BY DEF Books, TypeOK
<1>5. attemptsMade' \in [Jobs -> 0 .. Attempts]
    BY <1>1, <1>3, <1>4
<1>6. CASE attemptsMade[j] + 1 < Attempts
  <2>1. /\ status' = [status EXCEPT ![j] = "delayed"]
        /\ delay' = [delay EXCEPT ![j] = BackoffDelay * 2 ^ attemptsMade[j]]
      BY <1>6 DEF Throw
  <2>2. BackoffDelay * 2 ^ attemptsMade[j] \in 0 .. MaxDelay
      BY <1>1, DelayIsBounded
  <2>3. delay' \in [Jobs -> 0 .. MaxDelay]
      BY <1>4, <2>1, <2>2
  <2>4. \A i \in Jobs : status'[i] \notin Over => attemptsMade'[i] < Attempts
      BY <1>1, <1>3, <1>6, <2>1 DEF Books, TypeOK
  <2> QED BY <1>2, <1>3, <1>5, <2>1, <2>3, <2>4
<1>7. CASE ~(attemptsMade[j] + 1 < Attempts)
  <2>1. status' = [status EXCEPT ![j] = "failed"] /\ delay' = delay
      BY <1>7 DEF Throw
  <2>2. \A i \in Jobs : status'[i] \notin Over => attemptsMade'[i] < Attempts
      BY <1>3, <2>1 DEF Books, TypeOK, Over
  <2> QED BY <1>2, <1>3, <1>4, <1>5, <2>1, <2>2
<1> QED BY <1>6, <1>7

LEMMA BooksInit == Init => Books
<1> SUFFICES ASSUME Init PROVE Books
    OBVIOUS
<1>1. MaxDelay \in Nat
    BY DelayIsBounded
<1>2. delay \in [Jobs -> 0 .. MaxDelay]
    BY <1>1 DEF Init
<1> QED BY <1>2, QueueAssumption DEF Init, Books, TypeOK, Kinds, Over, Landed

\* Every step keeps the books.
LEMMA BooksStep == Books /\ [Next]_vars => Books'
<1> SUFFICES ASSUME Books, [Next]_vars PROVE Books'
    OBVIOUS
<1> USE QueueAssumption DEF requestVars, queueVars, guardVars, moneyVars
<1>0. MaxDelay \in Nat /\ delay \in [Jobs -> 0 .. MaxDelay]
    BY DelayIsBounded DEF Books, TypeOK
<1>1. ASSUME NEW j \in Jobs,
             Enqueue(j) \/ Respond(j) \/ TimesOut(j) \/ Start(j) \/ Promote(j)
               \/ RequeueStalled(j) \/ RowLands(j) \/ RowLost(j)
      PROVE  Books'
  <2>1. CASE Enqueue(j)
      BY <2>1 DEF Enqueue, Books, TypeOK, Over
  <2>2. CASE Respond(j)
      BY <2>2 DEF Respond, Books, TypeOK, Over
  <2>3. CASE TimesOut(j)
      BY <2>3 DEF TimesOut, Books, TypeOK, Over
  <2>4. CASE Start(j)
      BY <2>4 DEF Start, Books, TypeOK, Over
  <2>5. CASE Promote(j)
      BY <2>5 DEF Promote, Books, TypeOK, Over
  <2>6. CASE RequeueStalled(j)
      BY <2>6 DEF RequeueStalled, Books, TypeOK, Over
  <2>7. CASE RowLands(j) \/ RowLost(j)
      BY <2>7 DEF RowLands, RowLost, Books, TypeOK, Landed
  <2> QED BY <1>1, <2>1, <2>2, <2>3, <2>4, <2>5, <2>6, <2>7
<1>2. ASSUME NEW j \in Jobs, Attempt(j) PROVE Books'
  <2>1. ASSUME pc[j] # "idle", Throw(j),
               refused' \in SUBSET Jobs, row' \in [Jobs -> Landed \cup {"none", "in_flight"}],
               UNCHANGED <<guardVars, moneyVars>>
        PROVE  Books'
    <3>1. PICK s \in {"delayed", "failed"} : status' = [status EXCEPT ![j] = s]
        BY <2>1, ThrowBooks
    <3>2. /\ pc' = [pc EXCEPT ![j] = "idle"]
          /\ attemptsMade' \in [Jobs -> 0 .. Attempts]
          /\ delay' \in [Jobs -> 0 .. MaxDelay]
          /\ UNCHANGED <<tx, kind, handler, left, stalledCount>>
          /\ \A i \in Jobs : status'[i] \notin Over => attemptsMade'[i] < Attempts
        BY <2>1, ThrowBooks
    <3>3. /\ pc' \in [Jobs -> {"idle", "mark", "quota", "charge", "submit", "update",
                        "inner_catch", "outer_catch", "return"}]
          /\ status' \in [Jobs -> Over \cup {"none", "waiting", "active", "delayed", "stalled"}]
        BY <3>1, <3>2 DEF Books, TypeOK, Over
    <3>4. \A i \in Jobs : /\ pc'[i] # "idle" <=> status'[i] = "active"
                          /\ handler'[i] = "none" => status'[i] = "none"
        BY <2>1, <3>1, <3>2 DEF Books, TypeOK
    <3> QED BY <2>1, <3>2, <3>3, <3>4 DEF Books, TypeOK
  <2>2. CASE PrepareThrows(j) \/ Duplicate(j) \/ QuotaExceeded(j) \/ QuotaThrows(j)
      BY <2>1, <2>2 DEF PrepareThrows, Duplicate, QuotaExceeded, QuotaThrows, Books, TypeOK
  <2>3. CASE OuterCatch(j)
      BY <2>1, <2>3 DEF OuterCatch, SetFailed, Books, TypeOK, Landed
  <2>4. CASE UpdateThrows(j)
    <3>1. CASE kind[j] = "shadow" /\ Throw(j)
        BY <2>1, <2>4, <3>1 DEF UpdateThrows, Books, TypeOK
    <3>2. CASE (Goto(j, "inner_catch") \/ Goto(j, "outer_catch")) /\ UNCHANGED queueVars
        BY <2>4, <3>2 DEF UpdateThrows, Goto, Books, TypeOK
    <3> QED BY <2>4, <3>1, <3>2 DEF UpdateThrows
  <2>5. CASE MarkTransactionHash(j)
      BY <2>5 DEF MarkTransactionHash, Goto, Books, TypeOK
  <2>6. CASE MarkFailsOpen(j)
      BY <2>6 DEF MarkFailsOpen, Goto, Books, TypeOK
  <2>7. CASE CheckQuota(j)
      BY <2>7 DEF CheckQuota, Goto, Books, TypeOK
  <2>8. CASE RecordSponsored(j)
      BY <2>8 DEF RecordSponsored, Goto, Books, TypeOK
  <2>9. CASE RecordThrows(j)
      BY <2>9 DEF RecordThrows, Goto, Books, TypeOK
  <2>10. CASE SubmitTransaction(j)
      BY <2>10 DEF SubmitTransaction, Goto, Books, TypeOK
  <2>11. CASE UpdateRow(j)
      BY <2>11 DEF UpdateRow, Goto, Books, TypeOK, Landed
  <2>12. CASE InnerCatch(j)
      BY <2>12 DEF InnerCatch, SetFailed, Goto, Books, TypeOK, Landed
  <2>13. CASE Return(j)
      BY <2>13 DEF Return, Books, TypeOK, Over
  <2> QED BY <1>2, <2>2, <2>3, <2>4, <2>5, <2>6, <2>7, <2>8, <2>9, <2>10, <2>11, <2>12,
             <2>13 DEF Attempt
<1>3. ASSUME NEW t \in Txs, MarkExpires(t) PROVE Books'
    BY <1>3 DEF MarkExpires, Books, TypeOK
<1>4. CASE Crash
    BY <1>4 DEF Crash, Books, TypeOK, Over
<1>5. CASE Tick
  <2>0. \A m \in Nat : \A n \in 0 .. m : Less(n) \in 0 .. m
      BY DEF Less
  <2>1. left' \in [Jobs -> 0 .. JobTimeout]
      BY <1>5, <2>0 DEF Tick, Books, TypeOK
  <2>2. delay' \in [Jobs -> 0 .. MaxDelay]
      BY <1>0, <1>5, <2>0 DEF Tick
  <2> QED BY <1>5, <2>1, <2>2 DEF Tick, Books, TypeOK
<1>6. CASE UNCHANGED vars
    BY <1>6 DEF vars, Books, TypeOK
<1> QED BY <1>1, <1>2, <1>3, <1>4, <1>5, <1>6 DEF Next

\* The delays, counters and stages of every job keep their types.
THEOREM QueueTypeCorrect == Spec => []TypeOK
<1>1. Books => TypeOK
    BY DEF Books
<1> QED BY BooksInit, BooksStep, <1>1, PTL DEF Spec

-----------------------------------------------------------------------------
(* The quota race *)

Charging == {j \in Jobs : pc[j] = "charge"}

\* No more attempts run than the worker's concurrency, and those that passed the
\* quota check and have not recorded yet count as if they had.
Race ==
    /\ Cardinality(ActiveJobs) <= Concurrency
    /\ sponsored + Cardinality(Charging) <= TxLimit + Concurrency - 1

\* A set of jobs is finite, and a subset is no larger.
LEMMA JobSets ==
    ASSUME NEW S \in SUBSET Jobs
    PROVE  /\ IsFiniteSet(S) /\ Cardinality(S) \in Nat
           /\ \A T \in SUBSET S : IsFiniteSet(T) /\ Cardinality(T) \in Nat
                                 /\ Cardinality(T) <= Cardinality(S)
<1>1. IsFiniteSet(Jobs)
    BY QueueAssumption
<1>2. IsFiniteSet(S)
    BY <1>1, FS_Subset
<1>3. ASSUME NEW T \in SUBSET S
      PROVE  IsFiniteSet(T) /\ Cardinality(T) \in Nat /\ Cardinality(T) <= Cardinality(S)
    BY <1>2, FS_Subset, FS_CardinalityType
<1> QED BY <1>2, <1>3, FS_CardinalityType

\* A step that starts no attempt, passes no check and records nothing keeps the
\* race within its bounds.
LEMMA RaceShrinks ==
    ASSUME Books, Race, sponsored' = sponsored,
           ActiveJobs' \subseteq ActiveJobs, Charging' \subseteq Charging
    PROVE  Race'
<1>1. ActiveJobs \in SUBSET Jobs /\ Charging \in SUBSET Jobs
    BY DEF ActiveJobs, Charging
<1>2. /\ Cardinality(ActiveJobs)' <= Cardinality(ActiveJobs)
      /\ Cardinality(Charging)' <= Cardinality(Charging)
      /\ Cardinality(ActiveJobs) \in Nat /\ Cardinality(ActiveJobs)' \in Nat
      /\ Cardinality(Charging) \in Nat /\ Cardinality(Charging)' \in Nat
    BY <1>1, JobSets
<1>3. sponsored \in Nat
    BY DEF Books, TypeOK
<1> QED BY <1>2, <1>3, QueueAssumption DEF Race

LEMMA RaceInit == Init => Race
<1> SUFFICES ASSUME Init PROVE Race
    OBVIOUS
<1>1. ActiveJobs = {} /\ Charging = {} /\ sponsored = 0
    BY DEF Init, ActiveJobs, Charging
<1> QED BY <1>1, FS_EmptySet, QueueAssumption DEF Race

\* Every step keeps the race within its bounds.
LEMMA RaceStep == Books /\ Race /\ [Next]_vars => Race'
<1> SUFFICES ASSUME Books, Race, [Next]_vars PROVE Race'
    OBVIOUS
<1> USE DEF requestVars, queueVars, guardVars, moneyVars
<1>1. ASSUME NEW j \in Jobs, Start(j) PROVE Race'
  <2>1. /\ ActiveJobs' = ActiveJobs \cup {j} /\ Charging' \subseteq Charging
        /\ sponsored' = sponsored /\ Cardinality(ActiveJobs) < Concurrency
      BY <1>1 DEF Start, ActiveJobs, Charging, Books, TypeOK
  <2>2. ActiveJobs \in SUBSET Jobs /\ Charging \in SUBSET Jobs
      BY DEF ActiveJobs, Charging
  <2>3. IsFiniteSet(ActiveJobs) /\ Cardinality(ActiveJobs) \in Nat
      BY <2>2, JobSets
  <2>4. Cardinality(ActiveJobs)' <= Cardinality(ActiveJobs) + 1
    <3>1. Cardinality(ActiveJobs \cup {j}) =
            IF j \in ActiveJobs THEN Cardinality(ActiveJobs) ELSE Cardinality(ActiveJobs) + 1
        BY <2>3, FS_AddElement
    <3> QED BY <2>1, <2>3, <3>1
  <2>7. Cardinality(ActiveJobs)' \in Nat
    <3>1. (ActiveJobs \cup {j}) \in SUBSET Jobs
        BY <2>2
    <3> QED BY <2>1, <3>1, JobSets
  <2>5. /\ Cardinality(Charging)' <= Cardinality(Charging)
        /\ Cardinality(Charging) \in Nat /\ Cardinality(Charging)' \in Nat
      BY <2>1, <2>2, JobSets
  <2>6. sponsored \in Nat
      BY DEF Books, TypeOK
  <2> QED BY <2>1, <2>3, <2>4, <2>5, <2>6, <2>7, QueueAssumption DEF Race
<1>2. ASSUME NEW j \in Jobs, CheckQuota(j) PROVE Race'
  <2>1. /\ ActiveJobs' = ActiveJobs /\ sponsored' = sponsored
        /\ sponsored \in Nat /\ sponsored + 1 <= TxLimit
      BY <1>2 DEF CheckQuota, ActiveJobs, Books, TypeOK
  <2>2. Charging' \subseteq ActiveJobs
      BY <1>2 DEF CheckQuota, Goto, ActiveJobs, Charging, Books, TypeOK
  <2>3. /\ Cardinality(ActiveJobs) \in Nat /\ Cardinality(Charging)' \in Nat
        /\ Cardinality(Charging)' <= Cardinality(ActiveJobs)
    <3>1. ActiveJobs \in SUBSET Jobs
        BY DEF ActiveJobs
    <3> QED BY <2>2, <3>1, JobSets
  <2> QED BY <2>1, <2>3, QueueAssumption DEF Race
<1>3. ASSUME NEW j \in Jobs, RecordSponsored(j) PROVE Race'
  <2>1. /\ ActiveJobs' = ActiveJobs /\ Charging' = Charging \ {j} /\ j \in Charging
        /\ sponsored \in Nat /\ sponsored' = sponsored + 1
      BY <1>3 DEF RecordSponsored, Goto, ActiveJobs, Charging, Books, TypeOK
  <2>2. Charging \in SUBSET Jobs
      BY DEF Charging
  <2>3. IsFiniteSet(Charging) /\ Cardinality(Charging) \in Nat
      BY <2>2, JobSets
  <2>4. Cardinality(Charging)' = Cardinality(Charging) - 1
      BY <2>1, <2>3, FS_RemoveElement
  <2> QED BY <2>1, <2>3, <2>4, QueueAssumption DEF Race
<1>4. ASSUME NEW j \in Jobs,
             Enqueue(j) \/ Respond(j) \/ TimesOut(j) \/ Promote(j) \/ RequeueStalled(j)
               \/ RowLands(j) \/ RowLost(j)
      PROVE  /\ sponsored' = sponsored /\ ActiveJobs' \subseteq ActiveJobs
             /\ Charging' \subseteq Charging
    BY <1>4 DEF Enqueue, Respond, TimesOut, Promote, RequeueStalled, RowLands, RowLost,
                ActiveJobs, Charging, Books, TypeOK
<1>5. ASSUME NEW j \in Jobs, pc[j] # "idle", Throw(j)
      PROVE  ActiveJobs' \subseteq ActiveJobs /\ Charging' \subseteq Charging
  <2>1. PICK s \in {"delayed", "failed"} : status' = [status EXCEPT ![j] = s]
      BY <1>5, ThrowBooks
  <2>2. pc' = [pc EXCEPT ![j] = "idle"]
      BY <1>5, ThrowBooks
  <2> QED BY <2>1, <2>2 DEF ActiveJobs, Charging, Books, TypeOK
<1>6. ASSUME NEW j \in Jobs, Attempt(j), ~CheckQuota(j), ~RecordSponsored(j)
      PROVE  /\ sponsored' = sponsored /\ ActiveJobs' \subseteq ActiveJobs
             /\ Charging' \subseteq Charging
  <2>1. CASE PrepareThrows(j) \/ Duplicate(j) \/ QuotaExceeded(j) \/ QuotaThrows(j)
               \/ OuterCatch(j)
      BY <1>5, <2>1 DEF PrepareThrows, Duplicate, QuotaExceeded, QuotaThrows, OuterCatch
  <2>2. CASE UpdateThrows(j)
    <3>1. CASE kind[j] = "shadow" /\ Throw(j)
        BY <1>5, <2>2, <3>1 DEF UpdateThrows
    <3>2. CASE (Goto(j, "inner_catch") \/ Goto(j, "outer_catch")) /\ UNCHANGED queueVars
        BY <2>2, <3>2 DEF UpdateThrows, Goto, ActiveJobs, Charging, Books, TypeOK
    <3> QED BY <2>2, <3>1, <3>2 DEF UpdateThrows
  <2>3. CASE MarkTransactionHash(j) \/ MarkFailsOpen(j) \/ RecordThrows(j)
               \/ SubmitTransaction(j)
      BY <2>3 DEF MarkTransactionHash, MarkFailsOpen, RecordThrows, SubmitTransaction, Goto,
                  ActiveJobs, Charging, Books, TypeOK
  <2>4. CASE UpdateRow(j) \/ InnerCatch(j) \/ Return(j)
      BY <2>4 DEF UpdateRow, InnerCatch, Return, Goto, ActiveJobs, Charging, Books, TypeOK
  <2> QED BY <1>6, <2>1, <2>2, <2>3, <2>4 DEF Attempt
<1>7. ASSUME NEW t \in Txs, MarkExpires(t)
      PROVE  /\ sponsored' = sponsored /\ ActiveJobs' \subseteq ActiveJobs
             /\ Charging' \subseteq Charging
    BY <1>7 DEF MarkExpires, ActiveJobs, Charging
<1>8. ASSUME Crash \/ Tick \/ UNCHANGED vars
      PROVE  /\ sponsored' = sponsored /\ ActiveJobs' \subseteq ActiveJobs
             /\ Charging' \subseteq Charging
    BY <1>8 DEF Crash, Tick, vars, ActiveJobs, Charging, Books, TypeOK
<1> QED BY <1>1, <1>2, <1>3, <1>4, <1>6, <1>7, <1>8, RaceShrinks DEF Next

\* However many jobs the tenant has, txLimit is exceeded by less than the worker's
\* concurrency.
THEOREM OvershootIsBounded == Spec => []OvershootBelowConcurrency
<1>1. Books /\ Race => OvershootBelowConcurrency
  <2> SUFFICES ASSUME Books, Race PROVE OvershootBelowConcurrency
      OBVIOUS
  <2>1. Charging \in SUBSET Jobs
      BY DEF Charging
  <2>2. Cardinality(Charging) \in Nat
      BY <2>1, JobSets
  <2>3. sponsored \in Nat
      BY DEF Books, TypeOK
  <2> QED BY <2>2, <2>3, QueueAssumption DEF Race, OvershootBelowConcurrency
<1> QED BY BooksInit, BooksStep, RaceInit, RaceStep, <1>1, PTL DEF Spec

-----------------------------------------------------------------------------
(* The replay guard *)

\* The attempts that hold the guard for t and have not charged it yet.
Holding(t) == {j \in Jobs : tx[j] = t /\ pc[j] \in {"quota", "charge"}}

\* Charges made and still to come are paid for by the hash in the guard and by
\* the times the guard lapsed.
Guarded ==
    \A t \in Txs : charged[t] + Cardinality(Holding(t)) <=
                    lapses + (IF t \in marked THEN 1 ELSE 0)

\* A step in which no attempt passes the guard or charges keeps the account.
LEMMA GuardShrinks ==
    ASSUME Books, Guarded, UNCHANGED <<charged, marked, lapses>>,
           \A t \in Txs : Holding(t)' \subseteq Holding(t)
    PROVE  Guarded'
<1> SUFFICES ASSUME NEW t \in Txs
             PROVE  charged'[t] + Cardinality(Holding(t)') <=
                      lapses' + (IF t \in marked' THEN 1 ELSE 0)
    BY DEF Guarded
<1>1. Holding(t) \in SUBSET Jobs /\ Holding(t)' \subseteq Holding(t)
    BY DEF Holding
<1>2. /\ Cardinality(Holding(t)) \in Nat /\ Cardinality(Holding(t)') \in Nat
      /\ Cardinality(Holding(t)') <= Cardinality(Holding(t))
    BY <1>1, JobSets
<1>3. charged[t] \in Nat /\ lapses \in Nat
    BY QueueAssumption DEF Books, TypeOK
<1>4. charged[t] + Cardinality(Holding(t)) <= lapses + (IF t \in marked THEN 1 ELSE 0)
    BY DEF Guarded
<1> QED BY <1>2, <1>3, <1>4

\* An attempt that passes the guard adds itself to the holders of its hash only.
LEMMA PassingHolds ==
    ASSUME Books, NEW j \in Jobs, pc[j] = "mark", Goto(j, "quota"), tx' = tx, NEW t \in Txs
    PROVE  /\ Cardinality(Holding(t)) \in Nat
           /\ Cardinality(Holding(t)') =
                Cardinality(Holding(t)) + (IF t = tx[j] THEN 1 ELSE 0)
<1>1. Holding(t)' = IF t = tx[j] THEN Holding(t) \cup {j} ELSE Holding(t)
    BY DEF Holding, Goto, Books, TypeOK
<1>2. j \notin Holding(t)
    BY DEF Holding
<1>3. Holding(t) \in SUBSET Jobs
    BY DEF Holding
<1>4. IsFiniteSet(Holding(t)) /\ Cardinality(Holding(t)) \in Nat
    BY <1>3, JobSets
<1>5. Cardinality(Holding(t) \cup {j}) = Cardinality(Holding(t)) + 1
    BY <1>2, <1>4, FS_AddElement
<1>6. CASE t = tx[j]
    BY <1>1, <1>4, <1>5, <1>6
<1>7. CASE t # tx[j]
    BY <1>1, <1>4, <1>7
<1> QED BY <1>6, <1>7

LEMMA GuardInit == Init => Guarded
<1> SUFFICES ASSUME Init, NEW t \in Txs
             PROVE  charged[t] + Cardinality(Holding(t)) <=
                      lapses + (IF t \in marked THEN 1 ELSE 0)
    BY DEF Guarded
<1>1. Holding(t) = {} /\ charged[t] = 0 /\ lapses = 0 /\ marked = {}
    BY DEF Init, Holding
<1> QED BY <1>1, FS_EmptySet

\* Every step keeps the account of the replay guard.
LEMMA GuardStep == Books /\ Guarded /\ [Next]_vars => Guarded'
<1> SUFFICES ASSUME Books, Guarded, [Next]_vars PROVE Guarded'
    OBVIOUS
<1> USE DEF requestVars, queueVars, guardVars, moneyVars
<1>0. /\ \A t \in Txs : charged[t] \in Nat
      /\ \A t \in Txs : charged[t] + Cardinality(Holding(t)) <=
                          lapses + (IF t \in marked THEN 1 ELSE 0)
      /\ lapses \in Nat
    BY QueueAssumption DEF Books, TypeOK, Guarded
<1>1. ASSUME NEW j \in Jobs, MarkTransactionHash(j) PROVE Guarded'
  <2> SUFFICES ASSUME NEW t \in Txs
               PROVE  charged'[t] + Cardinality(Holding(t)') <=
                        lapses' + (IF t \in marked' THEN 1 ELSE 0)
      BY DEF Guarded
  <2>1. /\ Cardinality(Holding(t)) \in Nat
        /\ Cardinality(Holding(t)') =
             Cardinality(Holding(t)) + (IF t = tx[j] THEN 1 ELSE 0)
      BY <1>1, PassingHolds DEF MarkTransactionHash
  <2>2. /\ charged' = charged /\ lapses' = lapses
        /\ tx[j] \notin marked /\ marked' = marked \cup {tx[j]}
      BY <1>1 DEF MarkTransactionHash
  <2> QED BY <1>0, <2>1, <2>2
<1>2. ASSUME NEW j \in Jobs, MarkFailsOpen(j) PROVE Guarded'
  <2> SUFFICES ASSUME NEW t \in Txs
               PROVE  charged'[t] + Cardinality(Holding(t)') <=
                        lapses' + (IF t \in marked' THEN 1 ELSE 0)
      BY DEF Guarded
  <2>1. /\ Cardinality(Holding(t)) \in Nat
        /\ Cardinality(Holding(t)') =
             Cardinality(Holding(t)) + (IF t = tx[j] THEN 1 ELSE 0)
      BY <1>2, PassingHolds DEF MarkFailsOpen
  <2>2. charged' = charged /\ lapses' = lapses + 1 /\ marked \subseteq marked'
      BY <1>2 DEF MarkFailsOpen
  <2> QED BY <1>0, <2>1, <2>2
<1>3. ASSUME NEW u \in Txs, MarkExpires(u) PROVE Guarded'
  <2> SUFFICES ASSUME NEW t \in Txs
               PROVE  charged'[t] + Cardinality(Holding(t)') <=
                        lapses' + (IF t \in marked' THEN 1 ELSE 0)
      BY DEF Guarded
  <2>1. /\ charged' = charged /\ lapses' = lapses + 1 /\ marked' = marked \ {u}
        /\ Holding(t)' = Holding(t)
      BY <1>3 DEF MarkExpires, Holding
  <2>2. Holding(t) \in SUBSET Jobs
      BY DEF Holding
  <2>3. Cardinality(Holding(t)) \in Nat
      BY <2>2, JobSets
  <2> QED BY <1>0, <2>1, <2>3
<1>4. ASSUME NEW j \in Jobs, RecordSponsored(j) PROVE Guarded'
  <2> SUFFICES ASSUME NEW t \in Txs
               PROVE  charged'[t] + Cardinality(Holding(t)') <=
                        lapses' + (IF t \in marked' THEN 1 ELSE 0)
      BY DEF Guarded
  <2>1. /\ pc[j] = "charge" /\ UNCHANGED <<tx, lapses, marked>> /\ tx[j] \in Txs
        /\ charged' = [charged EXCEPT ![tx[j]] = @ + 1]
      BY <1>4 DEF RecordSponsored, Books, TypeOK
  <2>2. Holding(t)' = IF t = tx[j] THEN Holding(t) \ {j} ELSE Holding(t)
      BY <1>4 DEF RecordSponsored, Goto, Holding, Books, TypeOK
  <2>3. Holding(t) \in SUBSET Jobs
      BY DEF Holding
  <2>4. IsFiniteSet(Holding(t)) /\ Cardinality(Holding(t)) \in Nat
      BY <2>3, JobSets
  <2>5. CASE t = tx[j]
    <3>1. j \in Holding(t)
        BY <2>1, <2>5 DEF Holding
    <3>2. Cardinality(Holding(t) \ {j}) = Cardinality(Holding(t)) - 1
        BY <2>4, <3>1, FS_RemoveElement
    <3>3. charged'[t] = charged[t] + 1
        BY <2>1, <2>5 DEF Books, TypeOK
    <3> QED BY <1>0, <2>1, <2>2, <2>4, <2>5, <3>2, <3>3
  <2>6. CASE t # tx[j]
    <3>1. charged'[t] = charged[t]
        BY <2>1, <2>6 DEF Books, TypeOK
    <3> QED BY <1>0, <2>1, <2>2, <2>6, <3>1
  <2> QED BY <2>5, <2>6
<1>5. ASSUME NEW j \in Jobs,
             Enqueue(j) \/ Respond(j) \/ TimesOut(j) \/ Start(j) \/ Promote(j)
               \/ RequeueStalled(j) \/ RowLands(j) \/ RowLost(j)
      PROVE  Guarded'
  <2>1. /\ UNCHANGED <<charged, marked, lapses>>
        /\ \A t \in Txs : Holding(t)' \subseteq Holding(t)
      BY <1>5 DEF Enqueue, Respond, TimesOut, Start, Promote, RequeueStalled, RowLands,
                  RowLost, Holding, Books, TypeOK
  <2> QED BY <2>1, GuardShrinks
<1>6. ASSUME NEW j \in Jobs, pc[j] # "idle", Throw(j), UNCHANGED <<charged, marked, lapses>>
      PROVE  Guarded'
  <2>1. pc' = [pc EXCEPT ![j] = "idle"] /\ tx' = tx
      BY <1>6, ThrowBooks
  <2>2. \A t \in Txs : Holding(t)' \subseteq Holding(t)
      BY <2>1 DEF Holding, Books, TypeOK
  <2> QED BY <1>6, <2>2, GuardShrinks
<1>7. ASSUME NEW j \in Jobs, Attempt(j),
             ~MarkTransactionHash(j), ~MarkFailsOpen(j), ~RecordSponsored(j)
      PROVE  Guarded'
  <2>1. CASE PrepareThrows(j) \/ Duplicate(j) \/ QuotaExceeded(j) \/ QuotaThrows(j)
               \/ OuterCatch(j)
      BY <1>6, <2>1 DEF PrepareThrows, Duplicate, QuotaExceeded, QuotaThrows, OuterCatch
  <2>2. CASE UpdateThrows(j)
    <3>1. CASE kind[j] = "shadow" /\ Throw(j)
        BY <1>6, <2>2, <3>1 DEF UpdateThrows
    <3>2. CASE (Goto(j, "inner_catch") \/ Goto(j, "outer_catch")) /\ UNCHANGED queueVars
      <4>1. \A t \in Txs : Holding(t)' \subseteq Holding(t)
          BY <2>2, <3>2 DEF UpdateThrows, Goto, Holding, Books, TypeOK
      <4> QED BY <2>2, <4>1, GuardShrinks DEF UpdateThrows
    <3> QED BY <2>2, <3>1, <3>2 DEF UpdateThrows
  <2>3. CASE CheckQuota(j)
    <3>1. \A t \in Txs : Holding(t)' \subseteq Holding(t)
        BY <2>3 DEF CheckQuota, Goto, Holding, Books, TypeOK
    <3> QED BY <2>3, <3>1, GuardShrinks DEF CheckQuota
  <2>4. CASE RecordThrows(j) \/ SubmitTransaction(j) \/ UpdateRow(j) \/ InnerCatch(j)
               \/ Return(j)
    <3>1. \A t \in Txs : Holding(t)' \subseteq Holding(t)
        BY <2>4 DEF RecordThrows, SubmitTransaction, UpdateRow, InnerCatch, Return, Goto,
                    Holding, Books, TypeOK
    <3>2. UNCHANGED <<charged, marked, lapses>>
        BY <2>4 DEF RecordThrows, SubmitTransaction, UpdateRow, InnerCatch, Return
    <3> QED BY <3>1, <3>2, GuardShrinks
  <2> QED BY <1>7, <2>1, <2>2, <2>3, <2>4 DEF Attempt
<1>8. CASE Crash \/ Tick \/ UNCHANGED vars
  <2>1. /\ UNCHANGED <<charged, marked, lapses>>
        /\ \A t \in Txs : Holding(t)' \subseteq Holding(t)
      BY <1>8 DEF Crash, Tick, vars, Holding, Books, TypeOK
  <2> QED BY <2>1, GuardShrinks
<1> QED BY <1>1, <1>2, <1>3, <1>4, <1>5, <1>7, <1>8 DEF Next

\* However often an inner transaction is requested, retried or stalled, it is
\* charged once, and once more for each lapse of the replay guard.
THEOREM ChargesAreGuarded == Spec => []ChargedOncePerLapse
<1>1. Books /\ Guarded => ChargedOncePerLapse
  <2> SUFFICES ASSUME Books, Guarded, NEW t \in Txs PROVE charged[t] <= 1 + lapses
      BY DEF ChargedOncePerLapse
  <2>1. Holding(t) \in SUBSET Jobs
      BY DEF Holding
  <2>2. Cardinality(Holding(t)) \in Nat
      BY <2>1, JobSets
  <2>3. charged[t] \in Nat /\ lapses \in Nat
      BY QueueAssumption DEF Books, TypeOK
  <2> QED BY <2>2, <2>3 DEF Guarded
<1> QED BY BooksInit, BooksStep, GuardInit, GuardStep, <1>1, PTL DEF Spec

-----------------------------------------------------------------------------
(* Outcomes *)

Final(j) == IF kind[j] = "shadow" THEN "SHADOW" ELSE "SUCCESS"

\* What an attempt has done when it reaches the update of its row.
DidIt(j) ==
    /\ kind[j] = "submit" => tx[j] \in ledgered
    /\ kind[j] # "shadow" => charged[tx[j]] > 0

\* An attempt has charged before it submits, has done its work before it updates
\* its row, and leaves the final status behind when it returns.
Outcome ==
    /\ \A t \in ledgered : charged[t] > 0
    /\ \A j \in Jobs :
          /\ pc[j] = "charge" => kind[j] # "shadow"
          /\ pc[j] = "submit" => charged[tx[j]] > 0
          /\ pc[j] \in {"update", "return"} => DidIt(j)
          /\ pc[j] = "return" => row[j] = Final(j)
          /\ status[j] = "completed" => row[j] = Final(j) /\ DidIt(j)

LEMMA OutcomeInit == Init => Outcome
BY DEF Init, Outcome

\* Every step keeps the outcomes: nothing takes a charge or a ledger entry back,
\* and only a running attempt or the landing of its row changes its row.
LEMMA OutcomeStep == Books /\ Outcome /\ [Next]_vars => Outcome'
<1> SUFFICES ASSUME Books, Outcome, [Next]_vars PROVE Outcome'
    OBVIOUS
<1> USE DEF requestVars, queueVars, guardVars, moneyVars, DidIt, Final
<1>1. ASSUME NEW j \in Jobs,
             Enqueue(j) \/ Respond(j) \/ TimesOut(j) \/ Start(j) \/ Promote(j)
               \/ RequeueStalled(j)
      PROVE  Outcome'
    BY <1>1 DEF Enqueue, Respond, TimesOut, Start, Promote, RequeueStalled, Outcome, Books,
                TypeOK
<1>2. ASSUME NEW j \in Jobs, RowLands(j) \/ RowLost(j) PROVE Outcome'
    BY <1>2 DEF RowLands, RowLost, Outcome, Books, TypeOK
<1>3. ASSUME NEW j \in Jobs, pc[j] # "idle", Throw(j),
             UNCHANGED <<charged, ledgered>>,
             \A i \in Jobs \ {j} : row'[i] = row[i]
      PROVE  Outcome'
  <2>1. PICK s \in {"delayed", "failed"} : status' = [status EXCEPT ![j] = s]
      BY <1>3, ThrowBooks
  <2>2. pc' = [pc EXCEPT ![j] = "idle"] /\ UNCHANGED <<tx, kind>>
      BY <1>3, ThrowBooks
  <2> QED BY <1>3, <2>1, <2>2 DEF Outcome, Books, TypeOK
<1>4. ASSUME NEW j \in Jobs, Attempt(j) PROVE Outcome'
  <2>1. CASE PrepareThrows(j) \/ Duplicate(j) \/ QuotaExceeded(j) \/ QuotaThrows(j)
      BY <1>3, <2>1 DEF PrepareThrows, Duplicate, QuotaExceeded, QuotaThrows
  <2>2. CASE OuterCatch(j)
    <3>1. \A i \in Jobs \ {j} : row'[i] = row[i]
        BY <2>2 DEF OuterCatch, SetFailed, Books, TypeOK
    <3> QED BY <1>3, <2>2, <3>1 DEF OuterCatch
  <2>3. CASE UpdateThrows(j)
    <3>1. CASE kind[j] = "shadow" /\ Throw(j)
        BY <1>3, <2>3, <3>1 DEF UpdateThrows
    <3>2. CASE (Goto(j, "inner_catch") \/ Goto(j, "outer_catch")) /\ UNCHANGED queueVars
        BY <2>3, <3>2 DEF UpdateThrows, Goto, Outcome, Books, TypeOK
    <3> QED BY <2>3, <3>1, <3>2 DEF UpdateThrows
  <2>4. CASE MarkTransactionHash(j) \/ MarkFailsOpen(j) \/ RecordThrows(j)
      BY <2>4 DEF MarkTransactionHash, MarkFailsOpen, RecordThrows, Goto, Outcome, Books,
                  TypeOK
  <2>5. CASE CheckQuota(j)
      BY <2>5 DEF CheckQuota, Goto, Outcome, Books, TypeOK
  <2>6. CASE RecordSponsored(j)
    <3>1. /\ charged' = [charged EXCEPT ![tx[j]] = @ + 1] /\ tx[j] \in Txs
          /\ pc' = [pc EXCEPT ![j] = IF kind[j] = "submit" THEN "submit" ELSE "update"]
          /\ UNCHANGED <<tx, kind, status, row, ledgered>>
          /\ pc[j] = "charge"
        BY <2>6 DEF RecordSponsored, Goto, Books, TypeOK
    <3>2. charged'[tx[j]] > 0 /\ \A t \in Txs : charged[t] > 0 => charged'[t] > 0
        BY <3>1 DEF Books, TypeOK
    <3> QED BY <3>1, <3>2 DEF Outcome, Books, TypeOK
  <2>7. CASE SubmitTransaction(j)
      BY <2>7 DEF SubmitTransaction, Goto, Outcome, Books, TypeOK
  <2>8. CASE UpdateRow(j)
      BY <2>8 DEF UpdateRow, Goto, Outcome, Books, TypeOK
  <2>9. CASE InnerCatch(j)
      BY <2>9 DEF InnerCatch, SetFailed, Goto, Outcome, Books, TypeOK
  <2>10. CASE Return(j)
      BY <2>10 DEF Return, Outcome, Books, TypeOK
  <2> QED BY <1>4, <2>1, <2>2, <2>3, <2>4, <2>5, <2>6, <2>7, <2>8, <2>9, <2>10 DEF Attempt
<1>5. ASSUME NEW t \in Txs, MarkExpires(t) PROVE Outcome'
    BY <1>5 DEF MarkExpires, Outcome
<1>6. CASE Crash \/ Tick \/ UNCHANGED vars
    BY <1>6 DEF Crash, Tick, vars, Outcome, Books, TypeOK
<1> QED BY <1>1, <1>2, <1>4, <1>5, <1>6 DEF Next

\* A job that completed did what its response says, and nothing reaches the
\* ledger uncharged, across retries, stalls, crashes and rows that land late.
THEOREM OutcomesAreTrue == Spec => []QueueInv
<1>1. Books /\ Outcome => QueueInv
    BY DEF Books, Outcome, QueueInv, AppliedWasCharged, CompletedDidIt, DidIt, Final
<1> QED BY BooksInit, BooksStep, OutcomeInit, OutcomeStep, <1>1, PTL DEF Spec
-----------------------------------------------------------------------------
(* The batch handler *)

BatchStages == {"check", "create", "charge", "submit", "succeed", "inner_catch", "catch",
                "done", "refused", "thrown", "stopped", "unmarked"}
RowStatuses == {"PENDING", "SUCCESS", "FAILED"}
Outside == {"check", "refused"}
OnItem == {"charge", "submit", "succeed", "inner_catch", "catch"}

\* The state r of batch b, its rows w, and what of it is in C, the charged items, and
\* in A, the applied transactions; h says whether Horizon is configured.
RowsTrue(b, r, w, A, h) ==
    /\ r \in [at : BatchStages, item : 1 .. Len(ItemsOf[b])]
    /\ w \in Seq(RowStatuses) /\ Len(w) <= Len(ItemsOf[b])
    /\ \A i \in 1 .. Len(w) : \/ w[i] = "SUCCESS"
                              \/ i = Len(w) /\ r.at \in OnItem \cup {"stopped", "unmarked"}
                              \/ i = Len(w) /\ r.at = "thrown" /\ w[i] = "FAILED"
    /\ r.at \in Outside => r.item = 1 /\ Len(w) = 0
    /\ r.at = "create" => Len(w) = r.item - 1
    /\ r.at \in OnItem => Len(w) = r.item
    /\ SubmitOf[b] /\ h => \A i \in 1 .. Len(w) : w[i] = "SUCCESS" => ItemsOf[b][i] \in A
    /\ SubmitOf[b] /\ h /\ r.at = "succeed" => ItemsOf[b][r.item] \in A
ChargesTrue(b, r, C) ==
    /\ \A i \in Nat : <<b, i>> \in C =>
         /\ 1 <= i /\ i <= r.item /\ r.at \notin Outside /\ (r.at \in {"create", "charge"} => i < r.item)
    /\ r.at = "submit" => <<b, r.item>> \in C
    /\ r.at \notin Outside => Len(ItemsOf[b]) <= BatchTxLimit

BatchTypes ==
    /\ DOMAIN batch = Batches /\ DOMAIN txRow = Batches
    /\ batchFaults \in 0 .. MaxBatchFaults /\ appliedTxs \in SUBSET BatchTxs
    /\ chargedItems \in SUBSET (Batches \X Nat) /\ IsFiniteSet(chargedItems)
    /\ charges = Cardinality(chargedItems)
    /\ batch = [b \in Batches |-> batch[b]] /\ txRow = [b \in Batches |-> txRow[b]]
BatchIndInv ==
    /\ hasHorizon \in BOOLEAN /\ BatchTypes /\ BatchAppliedWasCharged
    /\ \A b \in Batches : /\ RowsTrue(b, batch[b], txRow[b], appliedTxs, hasHorizon)
                          /\ ChargesTrue(b, batch[b], chargedItems)

LEMMA BatchLists ==
    ASSUME NEW b \in Batches
    PROVE  /\ ItemsOf[b] \in Seq(BatchTxs) /\ Len(ItemsOf[b]) \in Nat /\ Len(ItemsOf[b]) >= 1
           /\ DOMAIN ItemsOf[b] = 1 .. Len(ItemsOf[b]) /\ \A i \in 1 .. Len(ItemsOf[b]) : ItemsOf[b][i] \in BatchTxs
BY BatchAssumption

\* A step of batch b to state r with rows w that charges nothing or the current item.
BatchStep(b, r, w) ==
    /\ batch' = [batch EXCEPT ![b] = r] /\ txRow' = [txRow EXCEPT ![b] = w]
    /\ RowsTrue(b, r, w, appliedTxs', hasHorizon) /\ ChargesTrue(b, r, chargedItems')
    /\ batchFaults' \in 0 .. MaxBatchFaults /\ hasHorizon' = hasHorizon
    /\ appliedTxs \subseteq appliedTxs' /\ appliedTxs' \in SUBSET BatchTxs
    /\ \/ UNCHANGED <<charges, chargedItems>>
       \/ /\ batch[b].at = "charge"
          /\ chargedItems' = chargedItems \cup {<<b, batch[b].item>>} /\ charges' = charges + 1
    /\ \A x \in appliedTxs' \ appliedTxs : \E c \in chargedItems : ItemsOf[c[1]][c[2]] = x

LEMMA BatchStepKeeps ==
    ASSUME BatchIndInv, NEW b \in Batches, NEW r, NEW w, BatchStep(b, r, w)
    PROVE  BatchIndInv'
<1>1. BatchTypes
    BY DEF BatchIndInv
<1>2. /\ batch'[b] = r /\ txRow'[b] = w
      /\ \A c \in Batches \ {b} : batch'[c] = batch[c] /\ txRow'[c] = txRow[c]
      /\ DOMAIN batch' = Batches /\ DOMAIN txRow' = Batches
      /\ batch' = [c \in Batches |-> batch'[c]] /\ txRow' = [c \in Batches |-> txRow'[c]]
    BY <1>1 DEF BatchTypes, BatchStep
<1>3. chargedItems \subseteq chargedItems' /\ \A c \in Batches \ {b}, i \in Nat : <<c, i>> \in chargedItems' => <<c, i>> \in chargedItems
    BY DEF BatchStep
<1>4. /\ chargedItems' \in SUBSET (Batches \X Nat) /\ IsFiniteSet(chargedItems')
      /\ charges' = Cardinality(chargedItems')
  <2>1. CASE UNCHANGED <<charges, chargedItems>>
      BY <1>1, <2>1 DEF BatchTypes
  <2>2. CASE /\ batch[b].at = "charge"
             /\ chargedItems' = chargedItems \cup {<<b, batch[b].item>>} /\ charges' = charges + 1
    <3>1. batch[b].item \in Nat /\ <<b, batch[b].item>> \notin chargedItems
        BY <2>2, BatchLists DEF BatchIndInv, RowsTrue, ChargesTrue
    <3>2. IsFiniteSet(chargedItems \cup {<<b, batch[b].item>>})
          /\ Cardinality(chargedItems \cup {<<b, batch[b].item>>}) = Cardinality(chargedItems) + 1
        BY <1>1, <3>1, FS_AddElement DEF BatchTypes
    <3> QED BY <1>1, <2>2, <3>1, <3>2 DEF BatchTypes
  <2> QED BY <2>1, <2>2 DEF BatchStep
<1>5. BatchTypes'
    BY <1>2, <1>4 DEF BatchTypes, BatchStep
<1>6. BatchAppliedWasCharged'
    BY <1>3 DEF BatchIndInv, BatchAppliedWasCharged, BatchStep
<1>7. ASSUME NEW c \in Batches PROVE RowsTrue(c, batch'[c], txRow'[c], appliedTxs', hasHorizon')
                                      /\ ChargesTrue(c, batch'[c], chargedItems')
  <2>0. hasHorizon' = hasHorizon
      BY DEF BatchStep
  <2>1. CASE c = b
    <3>1. RowsTrue(b, r, w, appliedTxs', hasHorizon) /\ ChargesTrue(b, r, chargedItems')
        BY DEF BatchStep
    <3> QED BY <1>2, <2>0, <2>1, <3>1
  <2>2. CASE c # b
    <3>1. RowsTrue(c, batch[c], txRow[c], appliedTxs, hasHorizon) /\ ChargesTrue(c, batch[c], chargedItems)
          /\ batch'[c] = batch[c] /\ txRow'[c] = txRow[c] /\ appliedTxs \subseteq appliedTxs'
        BY <1>2, <2>2 DEF BatchIndInv, BatchStep
    <3>2. \A i \in Nat : <<c, i>> \in chargedItems' <=> <<c, i>> \in chargedItems
        BY <1>3, <2>2
    <3>3. RowsTrue(c, batch'[c], txRow'[c], appliedTxs', hasHorizon)
        BY <3>1 DEF RowsTrue
    <3>4. batch[c].item \in Nat
        BY <3>1, BatchLists DEF RowsTrue
    <3>5. ChargesTrue(c, batch'[c], chargedItems')
        BY <3>1, <3>2, <3>4 DEF ChargesTrue
    <3> QED BY <2>0, <3>3, <3>5
  <2> QED BY <2>1, <2>2
<1>8. hasHorizon' \in BOOLEAN
  <2>1. hasHorizon' = hasHorizon /\ hasHorizon \in BOOLEAN
      BY DEF BatchStep, BatchIndInv
  <2> QED BY <2>1
<1> QED BY <1>5, <1>6, <1>7, <1>8 DEF BatchIndInv

\* What a step of batch b may rely on.
LEMMA BatchAt ==
    ASSUME BatchIndInv, NEW b \in Batches
    PROVE  /\ RowsTrue(b, batch[b], txRow[b], appliedTxs, hasHorizon) /\ ChargesTrue(b, batch[b], chargedItems)
           /\ batch[b].item \in 1 .. Len(ItemsOf[b]) /\ batch[b].item \in Nat /\ batch[b].at \in BatchStages
           /\ txRow[b] \in Seq(RowStatuses) /\ Len(txRow[b]) \in Nat
           /\ charges \in Nat /\ batchFaults \in 0 .. MaxBatchFaults /\ appliedTxs \in SUBSET BatchTxs
           /\ batch = [batch EXCEPT ![b] = batch[b]] /\ txRow = [txRow EXCEPT ![b] = txRow[b]]
           /\ TxOf(b) \in BatchTxs
<1>1. RowsTrue(b, batch[b], txRow[b], appliedTxs, hasHorizon) /\ ChargesTrue(b, batch[b], chargedItems)
    BY DEF BatchIndInv
<1>2. batch[b].item \in 1 .. Len(ItemsOf[b]) /\ batch[b].at \in BatchStages
      /\ txRow[b] \in Seq(RowStatuses) /\ Len(txRow[b]) \in Nat
    BY <1>1 DEF RowsTrue
<1>3. charges \in Nat
    BY FS_CardinalityType DEF BatchIndInv, BatchTypes
<1>4. batch = [batch EXCEPT ![b] = batch[b]] /\ txRow = [txRow EXCEPT ![b] = txRow[b]]
      /\ batchFaults \in 0 .. MaxBatchFaults /\ appliedTxs \in SUBSET BatchTxs
    BY DEF BatchIndInv, BatchTypes
<1>5. TxOf(b) \in BatchTxs
    BY <1>2, BatchLists DEF TxOf
<1> QED BY <1>1, <1>2, <1>3, <1>4, <1>5

\* The state of b with another stage.
LEMMA NextStage ==
    ASSUME BatchIndInv, NEW b \in Batches, NEW st \in BatchStages
    PROVE  /\ [at |-> st, item |-> batch[b].item] \in [at : BatchStages, item : 1 .. Len(ItemsOf[b])]
           /\ BatchTo(b, st) => batch' = [batch EXCEPT ![b] = [at |-> st, item |-> batch[b].item]]
<1>1. batch[b] \in [at : BatchStages, item : 1 .. Len(ItemsOf[b])]
    BY BatchAt DEF RowsTrue
<1>2. [batch[b] EXCEPT !.at = st] = [at |-> st, item |-> batch[b].item]
    BY <1>1
<1>3. BatchTo(b, st) => batch' = [batch EXCEPT ![b] = [batch[b] EXCEPT !.at = st]]
    BY DEF BatchTo
<1> QED BY <1>1, <1>2, <1>3

LEMMA CheckQuotaKeeps ==
    ASSUME BatchIndInv, hasHorizon' = hasHorizon, NEW b \in Batches, checkTenantDailyQuota(b)
    PROVE  BatchIndInv'
<1> DEFINE st == IF ProjectedTxCount(b) <= BatchTxLimit THEN "create" ELSE "refused"
           r == [at |-> st, item |-> batch[b].item]
<1>1. /\ batch[b].at = "check" /\ BatchTo(b, st)
      /\ UNCHANGED <<txRow, charges, chargedItems, appliedTxs, batchFaults>>
    BY DEF checkTenantDailyQuota
<1>2. st \in {"create", "refused"} /\ st \in BatchStages
    BY DEF BatchStages
<1>3. st = "create" => Len(ItemsOf[b]) <= BatchTxLimit
    BY BatchAt, BatchLists, BatchAssumption DEF ProjectedTxCount
<1> HIDE DEF st
<1>4. batch' = [batch EXCEPT ![b] = r] /\ r \in [at : BatchStages, item : 1 .. Len(ItemsOf[b])]
      /\ r.at = st /\ r.item = batch[b].item
    BY <1>1, <1>2, NextStage
<1> HIDE DEF r
<1>5. RowsTrue(b, r, txRow[b], appliedTxs, hasHorizon)
    BY <1>1, <1>2, <1>4, BatchAt DEF RowsTrue, Outside, OnItem
<1>6. ChargesTrue(b, r, chargedItems)
    BY <1>1, <1>2, <1>3, <1>4, BatchAt DEF ChargesTrue, Outside
<1>7. BatchStep(b, r, txRow[b])
    BY <1>1, <1>4, <1>5, <1>6, BatchAt DEF BatchStep
<1> QED BY <1>7, BatchStepKeeps

LEMMA CreatePendingKeeps ==
    ASSUME BatchIndInv, hasHorizon' = hasHorizon, NEW b \in Batches, CreatePending(b)
    PROVE  BatchIndInv'
<1>1. batch[b].at = "create" /\ UNCHANGED <<charges, chargedItems, appliedTxs, batchFaults>>
    BY DEF CreatePending
<1>2. CASE UNCHANGED txRow /\ BatchTo(b, "thrown")
  <2> DEFINE r == [at |-> "thrown", item |-> batch[b].item]
  <2>1. batch' = [batch EXCEPT ![b] = r] /\ r \in [at : BatchStages, item : 1 .. Len(ItemsOf[b])]
        /\ r.at = "thrown" /\ r.item = batch[b].item
      BY <1>2, NextStage DEF BatchStages
  <2> HIDE DEF r
  <2>2. RowsTrue(b, r, txRow[b], appliedTxs, hasHorizon) /\ ChargesTrue(b, r, chargedItems)
      BY <1>1, <2>1, BatchAt DEF RowsTrue, ChargesTrue, Outside, OnItem
  <2>3. BatchStep(b, r, txRow[b])
      BY <1>1, <1>2, <2>1, <2>2, BatchAt DEF BatchStep
  <2> QED BY <2>3, BatchStepKeeps
<1>3. CASE txRow' = [txRow EXCEPT ![b] = Append(@, "PENDING")] /\ BatchTo(b, "charge")
  <2> DEFINE r == [at |-> "charge", item |-> batch[b].item]
             w == Append(txRow[b], "PENDING")
  <2>1. batch' = [batch EXCEPT ![b] = r] /\ r \in [at : BatchStages, item : 1 .. Len(ItemsOf[b])]
        /\ r.at = "charge" /\ r.item = batch[b].item
      BY <1>3, NextStage DEF BatchStages
  <2>2. /\ w \in Seq(RowStatuses) /\ Len(w) = Len(txRow[b]) + 1 /\ w[Len(w)] = "PENDING"
        /\ \A i \in 1 .. Len(txRow[b]) : w[i] = txRow[b][i]
      BY BatchAt DEF RowStatuses
  <2>3. txRow' = [txRow EXCEPT ![b] = w]
      BY <1>3
  <2> HIDE DEF r, w
  <2>4. Len(txRow[b]) = batch[b].item - 1 /\ Len(w) = batch[b].item /\ \A i \in 1 .. Len(txRow[b]) : txRow[b][i] = "SUCCESS"
      BY <1>1, <2>2, BatchAt DEF RowsTrue, OnItem
  <2>5. RowsTrue(b, r, w, appliedTxs, hasHorizon)
    <3>1. \A i \in 1 .. Len(w) : i = Len(w) \/ i \in 1 .. Len(txRow[b])
        BY <2>2, BatchAt
    <3>2. Len(w) <= Len(ItemsOf[b])
        BY <2>4, BatchAt, BatchLists
    <3>3. SubmitOf[b] /\ hasHorizon => \A i \in 1 .. Len(w) : w[i] = "SUCCESS" => ItemsOf[b][i] \in appliedTxs
        BY <2>2, <3>1, BatchAt DEF RowsTrue
    <3> QED BY <2>1, <2>2, <2>4, <3>1, <3>2, <3>3 DEF RowsTrue, Outside, OnItem
  <2>6. ChargesTrue(b, r, chargedItems)
      BY <1>1, <2>1, BatchAt DEF ChargesTrue, Outside
  <2>7. BatchStep(b, r, w)
      BY <1>1, <2>1, <2>3, <2>5, <2>6, BatchAt DEF BatchStep
  <2> QED BY <2>7, BatchStepKeeps
<1> QED BY <1>2, <1>3 DEF CreatePending

LEMMA SignAndChargeKeeps ==
    ASSUME BatchIndInv, hasHorizon' = hasHorizon, NEW b \in Batches, SignAndCharge(b)
    PROVE  BatchIndInv'
<1> DEFINE st == IF Submits(b) THEN "submit" ELSE "succeed"
           r == [at |-> st, item |-> batch[b].item]
<1>1. /\ batch[b].at = "charge" /\ BatchTo(b, st)
      /\ charges' = charges + 1 /\ chargedItems' = chargedItems \cup {<<b, batch[b].item>>}
      /\ UNCHANGED <<txRow, appliedTxs, batchFaults>>
    BY DEF SignAndCharge
<1>2. st \in BatchStages /\ (st = "submit" \/ (st = "succeed" /\ ~(SubmitOf[b] /\ hasHorizon)))
    BY DEF BatchStages, Submits
<1> HIDE DEF st
<1>4. batch' = [batch EXCEPT ![b] = r] /\ r \in [at : BatchStages, item : 1 .. Len(ItemsOf[b])]
      /\ r.at = st /\ r.item = batch[b].item
    BY <1>1, <1>2, NextStage
<1> HIDE DEF r
<1>5. RowsTrue(b, r, txRow[b], appliedTxs, hasHorizon)
    BY <1>1, <1>2, <1>4, BatchAt DEF RowsTrue, Outside, OnItem
<1>6. ChargesTrue(b, r, chargedItems')
  <2> DEFINE n == batch[b].item
  <2>1. n \in Nat /\ 1 <= n
      BY BatchAt, BatchLists
  <2>2. \A i \in Nat : <<b, i>> \in chargedItems => 1 <= i /\ i <= n
      BY BatchAt DEF ChargesTrue
  <2>3. Len(ItemsOf[b]) <= BatchTxLimit
      BY <1>1, BatchAt DEF ChargesTrue, Outside
  <2>4. chargedItems' = chargedItems \cup {<<b, n>>} /\ r.item = n /\ r.at \in {"submit", "succeed"}
      BY <1>1, <1>2, <1>4
  <2> HIDE DEF n
  <2>5. \A i \in Nat : <<b, i>> \in chargedItems' => <<b, i>> \in chargedItems \/ i = n
      BY <2>4
  <2>6. \A i \in Nat : <<b, i>> \in chargedItems' => 1 <= i /\ i <= n
      BY <2>1, <2>2, <2>5
  <2>7. <<b, n>> \in chargedItems'
      BY <2>4
  <2> QED BY <2>3, <2>4, <2>6, <2>7 DEF ChargesTrue, Outside
<1>7. BatchStep(b, r, txRow[b])
    BY <1>1, <1>4, <1>5, <1>6, BatchAt DEF BatchStep
<1> QED BY <1>7, BatchStepKeeps

LEMMA SubmitTxKeeps ==
    ASSUME BatchIndInv, hasHorizon' = hasHorizon, NEW b \in Batches, SubmitTx(b)
    PROVE  BatchIndInv'
<1>1. batch[b].at = "submit" /\ UNCHANGED <<txRow, charges, chargedItems, batchFaults>>
    BY DEF SubmitTx
<1>2. PICK st \in {"succeed", "inner_catch"} :
        /\ BatchTo(b, st) /\ (st = "succeed" => TxOf(b) \in appliedTxs')
        /\ appliedTxs' \in {appliedTxs, appliedTxs \cup {TxOf(b)}}
    BY DEF SubmitTx
<1> DEFINE r == [at |-> st, item |-> batch[b].item]
<1>3. st \in BatchStages
    BY DEF BatchStages
<1>4. batch' = [batch EXCEPT ![b] = r] /\ r \in [at : BatchStages, item : 1 .. Len(ItemsOf[b])]
      /\ r.at = st /\ r.item = batch[b].item
    BY <1>2, <1>3, NextStage
<1> HIDE DEF r
<1>5. appliedTxs \subseteq appliedTxs' /\ appliedTxs' \in SUBSET BatchTxs
    BY <1>2, BatchAt
<1>6. RowsTrue(b, r, txRow[b], appliedTxs', hasHorizon)
  <2>1. r.at = "succeed" => ItemsOf[b][r.item] \in appliedTxs'
      BY <1>2, <1>4 DEF TxOf
  <2> QED BY <1>1, <1>2, <1>4, <1>5, <2>1, BatchAt DEF RowsTrue, Outside, OnItem
<1>7. ChargesTrue(b, r, chargedItems)
    BY <1>1, <1>2, <1>4, BatchAt DEF ChargesTrue, Outside
<1>8. \A x \in appliedTxs' \ appliedTxs : \E c \in chargedItems : ItemsOf[c[1]][c[2]] = x
  <2>1. <<b, batch[b].item>> \in chargedItems
      BY <1>1, BatchAt DEF ChargesTrue
  <2>2. \A x \in appliedTxs' \ appliedTxs : x = ItemsOf[b][batch[b].item]
      BY <1>2 DEF TxOf
  <2>3. <<b, batch[b].item>>[1] = b /\ <<b, batch[b].item>>[2] = batch[b].item
      OBVIOUS
  <2> QED BY <2>1, <2>2, <2>3
<1>9. BatchStep(b, r, txRow[b])
    BY <1>1, <1>4, <1>5, <1>6, <1>7, <1>8, BatchAt DEF BatchStep
<1> QED BY <1>9, BatchStepKeeps

\* The row of the current item with another status.
LEMMA RowWith ==
    ASSUME BatchIndInv, NEW b \in Batches, batch[b].at \in OnItem, NEW s \in RowStatuses, Row(b, s)
    PROVE  \E w \in Seq(RowStatuses) :
             /\ txRow' = [txRow EXCEPT ![b] = w] /\ Len(w) = Len(txRow[b]) /\ Len(w) = batch[b].item
             /\ w[Len(w)] = s /\ \A i \in 1 .. Len(w) : i # Len(w) => w[i] = txRow[b][i] /\ w[i] = "SUCCESS"
<1> DEFINE n == batch[b].item
           w == [txRow[b] EXCEPT ![n] = s]
<1>1. /\ txRow[b] \in Seq(RowStatuses) /\ Len(txRow[b]) = n /\ n \in Nat /\ n >= 1
      /\ \A i \in 1 .. n : i # n => txRow[b][i] = "SUCCESS"
  <2>1. Len(txRow[b]) = n /\ \A i \in 1 .. n : i # n => txRow[b][i] = "SUCCESS"
      BY BatchAt DEF RowsTrue, OnItem
  <2> QED BY <2>1, BatchAt, BatchLists
<1> HIDE DEF n
<1>2. /\ w \in Seq(RowStatuses) /\ Len(w) = n /\ w[n] = s
      /\ \A i \in 1 .. n : i # n => w[i] = txRow[b][i]
    BY <1>1
<1>3. txRow' = [txRow EXCEPT ![b] = w]
    BY DEF Row, n
<1> HIDE DEF w
<1> QED BY <1>1, <1>2, <1>3 DEF n

LEMMA SucceedKeeps ==
    ASSUME BatchIndInv, hasHorizon' = hasHorizon, NEW b \in Batches, Succeed(b)
    PROVE  BatchIndInv'
<1> DEFINE more == batch[b].item < Len(ItemsOf[b])
           r == IF more THEN [at |-> "create", item |-> batch[b].item + 1]
                ELSE [at |-> "done", item |-> batch[b].item]
<1>1. batch[b].at = "succeed" /\ Row(b, "SUCCESS") /\ UNCHANGED <<charges, chargedItems, appliedTxs, batchFaults>>
    BY DEF Succeed
<1>2. batch' = [batch EXCEPT ![b] = r]
  <2>1. batch[b] \in [at : BatchStages, item : 1 .. Len(ItemsOf[b])]
      BY BatchAt DEF RowsTrue
  <2>2. [batch[b] EXCEPT !.at = "done"] = [at |-> "done", item |-> batch[b].item]
      BY <2>1
  <2>3. batch' = [batch EXCEPT ![b] = IF more THEN [at |-> "create", item |-> batch[b].item + 1]
                                      ELSE [batch[b] EXCEPT !.at = "done"]]
      BY DEF Succeed
  <2> QED BY <2>2, <2>3
<1>3. /\ r \in [at : BatchStages, item : 1 .. Len(ItemsOf[b])]
      /\ \/ r.at = "create" /\ r.item = batch[b].item + 1
         \/ r.at = "done" /\ r.item = batch[b].item
    BY BatchAt, BatchLists DEF BatchStages
<1> HIDE DEF r, more
<1>4. PICK w \in Seq(RowStatuses) :
             /\ txRow' = [txRow EXCEPT ![b] = w] /\ Len(w) = Len(txRow[b]) /\ Len(w) = batch[b].item
             /\ w[Len(w)] = "SUCCESS" /\ \A i \in 1 .. Len(w) : i # Len(w) => w[i] = txRow[b][i] /\ w[i] = "SUCCESS"
    BY <1>1, RowWith DEF OnItem, RowStatuses
<1>5. RowsTrue(b, r, w, appliedTxs, hasHorizon)
  <2>1. \A i \in 1 .. Len(w) : w[i] = "SUCCESS"
      BY <1>4
  <2>2. SubmitOf[b] /\ hasHorizon => \A i \in 1 .. Len(w) : ItemsOf[b][i] \in appliedTxs
    <3>1. SubmitOf[b] /\ hasHorizon => ItemsOf[b][batch[b].item] \in appliedTxs
        BY <1>1, BatchAt DEF RowsTrue
    <3>2. SubmitOf[b] /\ hasHorizon => \A i \in 1 .. Len(w) : i # Len(w) => ItemsOf[b][i] \in appliedTxs
        BY <1>4, BatchAt DEF RowsTrue
    <3> QED BY <1>4, <3>1, <3>2
  <2>3. Len(w) <= Len(ItemsOf[b]) /\ (r.at = "create" => Len(w) = r.item - 1)
      BY <1>3, <1>4, BatchAt, BatchLists
  <2> QED BY <1>3, <1>4, <2>1, <2>2, <2>3 DEF RowsTrue, Outside, OnItem
<1>6. ChargesTrue(b, r, chargedItems)
  <2> DEFINE n == batch[b].item
  <2>1. n \in Nat
      BY BatchAt
  <2>2. (\A i \in Nat : <<b, i>> \in chargedItems => 1 <= i /\ i <= n) /\ Len(ItemsOf[b]) <= BatchTxLimit
      BY <1>1, BatchAt DEF ChargesTrue, Outside
  <2>3. \/ r.at = "create" /\ r.item = n + 1
        \/ r.at = "done" /\ r.item = n
      BY <1>3
  <2> HIDE DEF n
  <2>4. \A i \in Nat : <<b, i>> \in chargedItems => 1 <= i /\ i <= r.item /\ (r.at = "create" => i < r.item)
      BY <2>1, <2>2, <2>3
  <2> QED BY <2>2, <2>3, <2>4 DEF ChargesTrue, Outside
<1>7. BatchStep(b, r, w)
    BY <1>1, <1>2, <1>4, <1>5, <1>6, BatchAt DEF BatchStep
<1> QED BY <1>7, BatchStepKeeps

LEMMA FailKeeps ==
    ASSUME BatchIndInv, hasHorizon' = hasHorizon, NEW b \in Batches, Fail(b)
    PROVE  BatchIndInv'
<1> DEFINE st == IF batch[b].at = "catch" THEN "thrown" ELSE "catch"
           r == [at |-> st, item |-> batch[b].item]
<1>1. batch[b].at \in {"inner_catch", "catch"} /\ Row(b, "FAILED") /\ BatchTo(b, st)
      /\ UNCHANGED <<charges, chargedItems, appliedTxs, batchFaults>>
    BY DEF Fail
<1>2. st \in {"thrown", "catch"} /\ st \in BatchStages
    BY DEF BatchStages
<1> HIDE DEF st
<1>3. batch' = [batch EXCEPT ![b] = r] /\ r \in [at : BatchStages, item : 1 .. Len(ItemsOf[b])]
      /\ r.at = st /\ r.item = batch[b].item
    BY <1>1, <1>2, NextStage
<1> HIDE DEF r
<1>4. PICK w \in Seq(RowStatuses) :
             /\ txRow' = [txRow EXCEPT ![b] = w] /\ Len(w) = Len(txRow[b]) /\ Len(w) = batch[b].item
             /\ w[Len(w)] = "FAILED" /\ \A i \in 1 .. Len(w) : i # Len(w) => w[i] = txRow[b][i] /\ w[i] = "SUCCESS"
    BY <1>1, RowWith DEF OnItem, RowStatuses
<1>5. RowsTrue(b, r, w, appliedTxs, hasHorizon)
  <2>1. SubmitOf[b] /\ hasHorizon => \A i \in 1 .. Len(w) : w[i] = "SUCCESS" => ItemsOf[b][i] \in appliedTxs
      BY <1>4, BatchAt DEF RowsTrue
  <2>2. Len(w) <= Len(ItemsOf[b])
      BY <1>4, BatchAt, BatchLists
  <2> QED BY <1>2, <1>3, <1>4, <2>1, <2>2 DEF RowsTrue, Outside, OnItem
<1>6. ChargesTrue(b, r, chargedItems)
    BY <1>1, <1>2, <1>3, BatchAt DEF ChargesTrue, Outside
<1>7. BatchStep(b, r, w)
    BY <1>1, <1>3, <1>4, <1>5, <1>6, BatchAt DEF BatchStep
<1> QED BY <1>7, BatchStepKeeps

LEMMA ThrowsKeeps ==
    ASSUME BatchIndInv, hasHorizon' = hasHorizon, NEW b \in Batches, BatchThrows(b) \/ BatchCrash(b)
    PROVE  BatchIndInv'
<1>1. UNCHANGED <<txRow, charges, chargedItems, appliedTxs>> /\ batchFaults' \in 0 .. MaxBatchFaults
    BY BatchAt, BatchAssumption DEF BatchThrows, BatchCrash, BatchFault
<1>2. PICK st \in {"refused", "stopped", "unmarked", "inner_catch", "catch"} :
        /\ BatchTo(b, st)
        /\ st = "refused" => batch[b].at = "check"
        /\ st = "stopped" => batch[b].at \notin {"check", "stopped"} \cup BatchAnswered
        /\ st = "unmarked" => batch[b].at = "catch"
        /\ st \in {"inner_catch", "catch"} => batch[b].at \in OnItem
  <2>1. CASE BatchCrash(b)
      BY <2>1 DEF BatchCrash
  <2>2. CASE BatchThrows(b)
    <3> DEFINE st == CASE batch[b].at = "check" -> "refused"
                       [] batch[b].at = "catch" -> "unmarked"
                       [] batch[b].at = "succeed" /\ Submits(b) -> "inner_catch"
                       [] OTHER -> "catch"
    <3>1. BatchTo(b, st) /\ batch[b].at \in {"check", "charge", "succeed", "inner_catch", "catch"}
        BY <2>2 DEF BatchThrows
    <3>2. /\ st \in {"refused", "unmarked", "inner_catch", "catch"}
          /\ st = "refused" => batch[b].at = "check"
          /\ st = "unmarked" => batch[b].at = "catch"
          /\ st \in {"inner_catch", "catch"} => batch[b].at \in OnItem
        BY <3>1 DEF OnItem
    <3> HIDE DEF st
    <3> QED BY <3>1, <3>2
  <2> QED BY <2>1, <2>2
<1> DEFINE r == [at |-> st, item |-> batch[b].item]
<1>3. st \in BatchStages
    BY DEF BatchStages
<1>4. batch' = [batch EXCEPT ![b] = r] /\ r \in [at : BatchStages, item : 1 .. Len(ItemsOf[b])]
      /\ r.at = st /\ r.item = batch[b].item
    BY <1>2, <1>3, NextStage
<1> HIDE DEF r
<1>5. RowsTrue(b, r, txRow[b], appliedTxs, hasHorizon)
    BY <1>1, <1>2, <1>4, BatchAt DEF RowsTrue, Outside, OnItem, BatchStages, BatchAnswered
<1>6. ChargesTrue(b, r, chargedItems)
    BY <1>1, <1>2, <1>4, BatchAt DEF ChargesTrue, Outside, OnItem, BatchAnswered
<1>7. BatchStep(b, r, txRow[b])
    BY <1>1, <1>4, <1>5, <1>6, BatchAt DEF BatchStep
<1> QED BY <1>7, BatchStepKeeps

\* The charges are those of the batches let in, of which each fits the limit alone.
LEMMA OvershootIsOthers == BatchIndInv => BatchOvershoot
<1> DEFINE letIn == {b \in Batches : batch[b].at \notin {"check", "refused"}}
           OfBatch(c) == {c} \X DOMAIN ItemsOf[c]
           Others(b) == UNION {OfBatch(c) : c \in letIn \ {b}}
<1> SUFFICES ASSUME BatchIndInv, NEW b \in letIn
             PROVE  charges <= BatchTxLimit + Cardinality(Others(b))
    BY DEF BatchOvershoot
<1>1. ASSUME NEW c \in Batches PROVE IsFiniteSet(OfBatch(c)) /\ Cardinality(OfBatch(c)) = Len(ItemsOf[c])
  <2>1. IsFiniteSet({c}) /\ Cardinality({c}) = 1
      BY FS_Singleton
  <2>2. IsFiniteSet(DOMAIN ItemsOf[c]) /\ Cardinality(DOMAIN ItemsOf[c]) = Len(ItemsOf[c]) /\ Len(ItemsOf[c]) \in Nat
    <3>1. DOMAIN ItemsOf[c] = 1 .. Len(ItemsOf[c]) /\ Len(ItemsOf[c]) \in Nat
        BY BatchLists
    <3> QED BY <3>1, FS_Interval
  <2> DEFINE T == DOMAIN ItemsOf[c]
             n == Len(ItemsOf[c])
  <2>3. IsFiniteSet({c} \X T) /\ Cardinality({c} \X T) = Cardinality({c}) * Cardinality(T)
    <3> HIDE DEF T, n
    <3>1. IsFiniteSet(T)
        BY <2>2 DEF T
    <3> QED BY <2>1, <3>1, FS_Product
  <2>4. n \in Nat /\ Cardinality(T) = n
      BY <2>2
  <2>5. Cardinality({c}) * Cardinality(T) = n
    <3> HIDE DEF T, n
    <3>1. 1 * n = n
        BY <2>4
    <3> QED BY <2>1, <2>4, <3>1
  <2> QED BY <2>3, <2>5
<1>2. \A c \in Batches, i \in Nat : <<c, i>> \in chargedItems => c \in letIn /\ <<c, i>> \in OfBatch(c)
  <2> SUFFICES ASSUME NEW c \in Batches, NEW i \in Nat, <<c, i>> \in chargedItems
               PROVE  c \in letIn /\ <<c, i>> \in OfBatch(c)
      OBVIOUS
  <2>1. ChargesTrue(c, batch[c], chargedItems)
      BY BatchAt
  <2>2. batch[c].at \notin Outside /\ 1 <= i /\ i <= batch[c].item
      BY <2>1 DEF ChargesTrue
  <2>3. batch[c].item \in 1 .. Len(ItemsOf[c]) /\ batch[c].item \in Nat
      BY BatchAt
  <2>4. DOMAIN ItemsOf[c] = 1 .. Len(ItemsOf[c]) /\ Len(ItemsOf[c]) \in Nat
      BY BatchLists
  <2>5. i \in DOMAIN ItemsOf[c]
      BY <2>2, <2>3, <2>4
  <2> QED BY <2>2, <2>5 DEF Outside
<1>3. IsFiniteSet(letIn \ {b})
    BY BatchAssumption, FS_Subset
<1>4. IsFiniteSet(Others(b))
  <2> DEFINE S == letIn \ {b}
             Sets == {OfBatch(c) : c \in S}
  <2>1. [c \in S |-> OfBatch(c)] \in Surjection(S, Sets)
      BY DEF Surjection
  <2>2. IsFiniteSet(Sets)
      BY <1>3, <2>1, FS_Surjection
  <2>3. \A T \in Sets : IsFiniteSet(T)
      BY <1>1
  <2> QED BY <2>2, <2>3, FS_UNION
<1>5. chargedItems \subseteq Others(b) \cup OfBatch(b)
  <2> SUFFICES ASSUME NEW x \in chargedItems PROVE x \in Others(b) \cup OfBatch(b)
      OBVIOUS
  <2>1. PICK c \in Batches, i \in Nat : x = <<c, i>>
      BY DEF BatchIndInv, BatchTypes
  <2>2. c \in letIn /\ x \in OfBatch(c)
      BY <1>2, <2>1
  <2> HIDE DEF OfBatch
  <2> QED BY <2>2
<1> HIDE DEF Others, OfBatch
<1>6. /\ IsFiniteSet(Others(b) \cup OfBatch(b))
      /\ Cardinality(Others(b) \cup OfBatch(b)) =
           Cardinality(Others(b)) + Cardinality(OfBatch(b)) - Cardinality(Others(b) \cap OfBatch(b))
    BY <1>1, <1>4, FS_Union
<1>7. Cardinality(Others(b) \cap OfBatch(b)) \in Nat /\ Cardinality(Others(b)) \in Nat
  <2>1. IsFiniteSet(Others(b) \cap OfBatch(b))
      BY <1>4, FS_Intersection
  <2> QED BY <1>4, <2>1, FS_CardinalityType
<1>8. Cardinality(chargedItems) <= Cardinality(Others(b) \cup OfBatch(b))
    BY <1>5, <1>6, FS_Subset
<1>9. charges = Cardinality(chargedItems) /\ charges \in Nat
    BY BatchAt DEF BatchIndInv, BatchTypes
<1>10. Cardinality(OfBatch(b)) = Len(ItemsOf[b]) /\ Len(ItemsOf[b]) \in Nat
    BY <1>1, BatchLists
<1>11. Len(ItemsOf[b]) <= BatchTxLimit
    BY BatchAt DEF ChargesTrue, Outside
<1> HIDE DEF letIn
<1> QED BY <1>6, <1>7, <1>8, <1>9, <1>10, <1>11, BatchAssumption

\* The books of the batch path are true, for any batches, limits and faults (BatchInv:
\* feeBumpBatchHandler of feeBump.ts and buildSponsoredTx of sponsors/stellar.ts).
THEOREM BatchBooksAreTrue == BatchSpec => []BatchInv
<1>1. BatchInit => BatchIndInv
  <2> SUFFICES ASSUME BatchInit PROVE BatchIndInv
      OBVIOUS
  <2>1. BatchTypes
      BY BatchAssumption, FS_EmptySet DEF BatchInit, BatchTypes
  <2>2. BatchAppliedWasCharged
      BY DEF BatchInit, BatchAppliedWasCharged
  <2>3. ASSUME NEW b \in Batches
        PROVE  RowsTrue(b, batch[b], txRow[b], appliedTxs, hasHorizon) /\ ChargesTrue(b, batch[b], chargedItems)
    <3>1. batch[b].at = "check" /\ batch[b].item = 1 /\ txRow[b] = << >> /\ chargedItems = {}
          /\ batch[b] = [at |-> "check", item |-> 1]
        BY DEF BatchInit
    <3>2. << >> \in Seq(RowStatuses) /\ Len(<< >>) = 0 /\ 1 \in 1 .. Len(ItemsOf[b]) /\ Len(ItemsOf[b]) \in Nat
        BY BatchLists
    <3>3. batch[b] \in [at : BatchStages, item : 1 .. Len(ItemsOf[b])]
        BY <3>1, <3>2 DEF BatchStages
    <3> QED BY <3>1, <3>2, <3>3 DEF RowsTrue, ChargesTrue, Outside, OnItem
  <2>4. hasHorizon \in BOOLEAN
      BY DEF BatchInit
  <2> QED BY <2>1, <2>2, <2>3, <2>4 DEF BatchIndInv
<1>2. BatchIndInv /\ [BatchNext]_batchVars => BatchIndInv'
  <2> SUFFICES ASSUME BatchIndInv, [BatchNext]_batchVars PROVE BatchIndInv'
      OBVIOUS
  <2>1. CASE UNCHANGED batchVars
      BY <2>1 DEF batchVars, BatchIndInv, BatchTypes, BatchAppliedWasCharged
  <2>2. BatchNext => hasHorizon' = hasHorizon
      BY DEF BatchNext
  <2> QED BY <2>1, <2>2, CheckQuotaKeeps, CreatePendingKeeps, SignAndChargeKeeps, SubmitTxKeeps, SucceedKeeps,
             FailKeeps, ThrowsKeeps DEF BatchNext
<1>3. BatchIndInv => BatchInv
  <2> SUFFICES ASSUME BatchIndInv PROVE BatchInv
      OBVIOUS
  <2>1. BatchTypeOK
    <3>1. ASSUME NEW b \in Batches
          PROVE  /\ batch[b].item \in 1 .. Len(ItemsOf[b]) /\ Len(txRow[b]) <= Len(ItemsOf[b])
                 /\ \A i \in DOMAIN txRow[b] : txRow[b][i] \in {"PENDING", "SUCCESS", "FAILED"}
        BY BatchAt DEF RowsTrue, RowStatuses
    <3>2. hasHorizon \in BOOLEAN /\ charges \in Nat /\ appliedTxs \subseteq BatchTxs /\ batchFaults \in 0 .. MaxBatchFaults
        BY FS_CardinalityType DEF BatchIndInv, BatchTypes
    <3> QED BY <3>1, <3>2 DEF BatchTypeOK
  <2>2. BatchSuccessIsApplied
    <3>1. ASSUME NEW b \in Batches PROVE DOMAIN txRow[b] = 1 .. Len(txRow[b])
        BY BatchAt
    <3>2. ASSUME NEW b \in Batches, Submits(b), NEW i \in 1 .. Len(txRow[b]), txRow[b][i] = "SUCCESS"
          PROVE  ItemsOf[b][i] \in appliedTxs
        BY <3>2, BatchAt DEF RowsTrue, Submits
    <3> QED BY <3>1, <3>2 DEF BatchSuccessIsApplied
  <2>3. AnsweredLeavesNoPending
    <3>1. ASSUME NEW b \in Batches PROVE DOMAIN txRow[b] = 1 .. Len(txRow[b])
        BY BatchAt
    <3>2. ASSUME NEW b \in Batches, batch[b].at \in BatchAnswered, NEW i \in 1 .. Len(txRow[b])
          PROVE  /\ txRow[b][i] = "PENDING" => batch[b].at = "unmarked"
                 /\ txRow[b][i] # "SUCCESS" => i = Len(txRow[b])
        BY <3>2, BatchAt DEF RowsTrue, OnItem, BatchAnswered
    <3> QED BY <3>1, <3>2 DEF AnsweredLeavesNoPending
  <2> QED BY <2>1, <2>2, <2>3, OvershootIsOthers DEF BatchIndInv, BatchInv
<1> QED BY <1>1, <1>2, <1>3, PTL DEF BatchSpec
=============================================================================

---------------------------- MODULE FeeBumpQueue ----------------------------
(***************************************************************************)
(* The single fee-bump path of the Node server: feeBumpHandler adds a job  *)
(* to the BullMQ queue and waits for it up to a timeout, a worker runs     *)
(* processFeeBump, and the queue runs a failed attempt again after a       *)
(* backoff (server/src/handlers/feeBump.ts, queues/feeBumpQueue.ts,        *)
(* workers/feeBumpWorker.ts).  An action ends at an await of an attempt,   *)
(* so up to Concurrency attempts interleave there.                         *)
(*                                                                         *)
(* The jobs are those of one tenant on one UTC day, each fee counts as     *)
(* one, and txLimit stands for both limits.  A Prisma call that rejects    *)
(* has changed nothing.  BullMQ, Redis, PostgreSQL and Horizon are         *)
(* external; Redis keeps the queue over a crash of the server.             *)
(***************************************************************************)
EXTENDS Integers, FiniteSets

CONSTANTS Jobs,          \* requests of the tenant
          Txs,           \* inner transactions, by hash
          Attempts,      \* defaultJobOptions.attempts
          BackoffDelay,  \* first delay of the exponential backoff
          JobTimeout,    \* FEEBUMP_JOB_TIMEOUT_MS
          Concurrency,   \* FEEBUMP_QUEUE_CONCURRENCY
          MaxStalled,    \* BullMQ's maxStalledCount
          TxLimit,       \* tenant.txLimit
          MaxLapses      \* bound: times the replay guard lapses

ASSUME QueueAssumption ==
    /\ Attempts \in Nat \ {0} /\ BackoffDelay \in Nat \ {0}
    /\ JobTimeout \in Nat \ {0} /\ Concurrency \in Nat \ {0}
    /\ MaxStalled \in Nat /\ TxLimit \in Nat /\ MaxLapses \in Nat
    /\ IsFiniteSet(Jobs)

VARIABLES tx, kind,      \* job.data of each job
          handler, left, \* the waiting request and the time it still waits
          status, attemptsMade, stalledCount, delay,   \* BullMQ's job
          refused,       \* history: jobs that met QUOTA_EXCEEDED
          pc,            \* where the running attempt stands
          row,           \* the prisma.transaction row of the last attempt
          marked,        \* hashes in the replay guard
          lapses,        \* history: fail-opens and expiries of the guard
          sponsored,     \* number of sponsoredTransaction records
          charged,       \* history: how many of them are for each inner tx
          ledgered       \* inner transactions on the ledger

requestVars == <<tx, kind, handler, left>>
queueVars == <<status, attemptsMade, stalledCount, delay>>
guardVars == <<marked, lapses>>
moneyVars == <<sponsored, charged, ledgered>>
vars == <<requestVars, queueVars, refused, pc, row, guardVars, moneyVars>>

\* unsent: to be submitted, on a server without config.horizonUrl.
Kinds == {"submit", "unsent", "ready", "shadow", "invalid"}
Landed == {"PENDING", "SUCCESS", "FAILED", "SHADOW"}
Over == {"completed", "failed"}
MaxDelay == BackoffDelay * 2 ^ (Attempts - 1)   \* before the last attempt

TypeOK ==
    /\ tx \in [Jobs -> Txs] /\ kind \in [Jobs -> Kinds]
    /\ handler \in [Jobs -> {"none", "waiting", "answered", "error", "504", "lost"}]
    /\ left \in [Jobs -> 0 .. JobTimeout]
    /\ status \in [Jobs -> Over \cup {"none", "waiting", "active", "delayed", "stalled"}]
    /\ attemptsMade \in [Jobs -> 0 .. Attempts]
    /\ stalledCount \in [Jobs -> 0 .. MaxStalled]
    /\ delay \in [Jobs -> 0 .. MaxDelay]
    /\ refused \in SUBSET Jobs
    /\ pc \in [Jobs -> {"idle", "mark", "quota", "charge", "submit", "update",
                        "inner_catch", "outer_catch", "return"}]
    /\ row \in [Jobs -> Landed \cup {"none", "in_flight"}]
    /\ marked \in SUBSET Txs /\ lapses \in 0 .. MaxLapses
    /\ sponsored \in Nat /\ charged \in [Txs -> Nat] /\ ledgered \in SUBSET Txs

Init ==
    /\ tx \in [Jobs -> Txs] /\ kind \in [Jobs -> Kinds]
    /\ \A i, j \in Jobs : kind[i] = "submit" => kind[j] # "unsent"
    /\ handler = [j \in Jobs |-> "none"] /\ left = [j \in Jobs |-> 0]
    /\ status = [j \in Jobs |-> "none"]
    /\ attemptsMade = [j \in Jobs |-> 0]
    /\ stalledCount = [j \in Jobs |-> 0]
    /\ delay = [j \in Jobs |-> 0]
    /\ refused = {}
    /\ pc = [j \in Jobs |-> "idle"]
    /\ row = [j \in Jobs |-> "none"]
    /\ marked = {} /\ lapses = 0
    /\ sponsored = 0 /\ charged = [t \in Txs |-> 0] /\ ledgered = {}

-----------------------------------------------------------------------------
(* The handler *)

\* feeBumpQueue.add; waitUntilFinished starts its timer.
Enqueue(j) ==
    /\ handler[j] = "none"
    /\ handler' = [handler EXCEPT ![j] = "waiting"]
    /\ left' = [left EXCEPT ![j] = JobTimeout]
    /\ status' = [status EXCEPT ![j] = "waiting"]
    /\ UNCHANGED <<refused, tx, kind, attemptsMade, stalledCount, delay, pc, row,
                   guardVars, moneyVars>>

\* The job finished: its result, or the error of its last attempt.
Respond(j) ==
    /\ handler[j] = "waiting" /\ status[j] \in Over
    /\ handler' = [handler EXCEPT ![j] =
                      IF status[j] = "completed" THEN "answered" ELSE "error"]
    /\ left' = [left EXCEPT ![j] = 0]
    /\ UNCHANGED <<refused, tx, kind, queueVars, pc, row, guardVars, moneyVars>>

\* 504 JOB_TIMEOUT; the job goes on.
TimesOut(j) ==
    /\ handler[j] = "waiting" /\ left[j] = 0
    /\ handler' = [handler EXCEPT ![j] = "504"]
    /\ UNCHANGED <<refused, tx, kind, left, queueVars, pc, row, guardVars, moneyVars>>

-----------------------------------------------------------------------------
(* The queue, external: what BullMQ does with the job options *)

ActiveJobs == {j \in Jobs : status[j] = "active"}

Start(j) ==
    /\ status[j] = "waiting" /\ Cardinality(ActiveJobs) < Concurrency
    /\ status' = [status EXCEPT ![j] = "active"]
    /\ pc' = [pc EXCEPT ![j] = "mark"]
    /\ UNCHANGED <<refused, requestVars, attemptsMade, stalledCount, delay, row,
                   guardVars, moneyVars>>

\* Attempts that are not counted.
ThrowUncounted(j) ==
    /\ pc' = [pc EXCEPT ![j] = "idle"]
    /\ status' = [status EXCEPT ![j] = "delayed"]
    /\ delay' = [delay EXCEPT ![j] = BackoffDelay]
    /\ UNCHANGED <<requestVars, attemptsMade, stalledCount>>

\* An attempt threw: the job is delayed, or failed after the last attempt.
Throw(j) ==
    /\ pc' = [pc EXCEPT ![j] = "idle"]
    /\ attemptsMade' = [attemptsMade EXCEPT ![j] = @ + 1]
    /\ IF attemptsMade[j] + 1 < Attempts
         THEN /\ status' = [status EXCEPT ![j] = "delayed"]
              /\ delay' = [delay EXCEPT ![j] = BackoffDelay * 2 ^ attemptsMade[j]]
         ELSE /\ status' = [status EXCEPT ![j] = "failed"]
              /\ UNCHANGED delay
    /\ UNCHANGED <<requestVars, stalledCount>>

\* The attempt returned its response.
Return(j) ==
    /\ pc[j] = "return"
    /\ pc' = [pc EXCEPT ![j] = "idle"]
    /\ status' = [status EXCEPT ![j] = "completed"]
    /\ UNCHANGED <<refused, requestVars, attemptsMade, stalledCount, delay, row,
                   guardVars, moneyVars>>

Promote(j) ==
    /\ status[j] = "delayed" /\ delay[j] = 0
    /\ status' = [status EXCEPT ![j] = "waiting"]
    /\ UNCHANGED <<refused, requestVars, attemptsMade, stalledCount, delay, pc, row,
                   guardVars, moneyVars>>

\* A stalled job is queued again, MaxStalled times.
RequeueStalled(j) ==
    /\ status[j] = "stalled"
    /\ IF stalledCount[j] < MaxStalled
         THEN /\ status' = [status EXCEPT ![j] = "waiting"]
              /\ stalledCount' = [stalledCount EXCEPT ![j] = @ + 1]
         ELSE status' = [status EXCEPT ![j] = "failed"] /\ UNCHANGED stalledCount
    /\ UNCHANGED <<refused, requestVars, attemptsMade, delay, pc, row, guardVars, moneyVars>>

\* The server process dies: attempts and waiting requests are gone, and the
\* locks of their jobs expire.
Crash ==
    /\ pc' = [j \in Jobs |-> "idle"]
    /\ status' = [j \in Jobs |-> IF status[j] = "active" THEN "stalled" ELSE status[j]]
    /\ handler' = [j \in Jobs |-> IF handler[j] = "waiting" THEN "lost" ELSE handler[j]]
    /\ left' = [j \in Jobs |-> 0]
    /\ UNCHANGED <<refused, tx, kind, attemptsMade, stalledCount, delay, row,
                   guardVars, moneyVars>>

Less(n) == IF n = 0 THEN 0 ELSE n - 1

Tick ==
    /\ \E j \in Jobs : left[j] > 0 \/ delay[j] > 0
    /\ left' = [j \in Jobs |-> Less(left[j])]
    /\ delay' = [j \in Jobs |-> Less(delay[j])]
    /\ UNCHANGED <<refused, tx, kind, handler, status, attemptsMade, stalledCount, pc,
                   row, guardVars, moneyVars>>

-----------------------------------------------------------------------------
(* processFeeBump *)

Goto(j, p) == pc' = [pc EXCEPT ![j] = p]

\* prepareFeeBump refuses an unsigned, undecodable or bumped transaction.
PrepareThrows(j) ==
    /\ pc[j] = "mark" /\ kind[j] = "invalid"
    /\ Throw(j)
    /\ UNCHANGED <<refused, row, guardVars, moneyVars>>

\* A guard that looks and does not set.
MarkWithoutSet(j) ==
    /\ pc[j] = "mark" /\ kind[j] # "invalid" /\ tx[j] \notin marked
    /\ Goto(j, "quota")
    /\ UNCHANGED <<refused, requestVars, queueVars, row, guardVars, moneyVars>>

\* markTransactionHashProcessed: SET NX
MarkTransactionHash(j) ==
    /\ pc[j] = "mark" /\ kind[j] # "invalid" /\ tx[j] \notin marked
    /\ marked' = marked \cup {tx[j]}
    /\ Goto(j, "quota")
    /\ UNCHANGED <<refused, requestVars, queueVars, row, lapses, moneyVars>>

\* 409 DUPLICATE_TRANSACTION
Duplicate(j) ==
    /\ pc[j] = "mark" /\ kind[j] # "invalid" /\ tx[j] \in marked
    /\ Throw(j)
    /\ UNCHANGED <<refused, row, guardVars, moneyVars>>

\* Redis does not answer: the guard fails open, whether or not it was set.
MarkFailsOpen(j) ==
    /\ pc[j] = "mark" /\ kind[j] # "invalid" /\ lapses < MaxLapses
    /\ lapses' = lapses + 1
    /\ marked' \in {marked, marked \cup {tx[j]}}
    /\ Goto(j, "quota")
    /\ UNCHANGED <<refused, requestVars, queueVars, row, moneyVars>>

\* TX_HASH_TTL_SECONDS have passed.
MarkExpires(t) ==
    /\ t \in marked /\ lapses < MaxLapses
    /\ marked' = marked \ {t}
    /\ lapses' = lapses + 1
    /\ UNCHANGED <<refused, requestVars, queueVars, pc, row, moneyVars>>

\* A check that leaves out the transaction to come.
CheckQuotaBefore(j) ==
    /\ pc[j] = "quota" /\ sponsored <= TxLimit
    /\ row' = [row EXCEPT ![j] = "in_flight"]
    /\ Goto(j, IF kind[j] = "shadow" THEN "update" ELSE "charge")
    /\ UNCHANGED <<refused, requestVars, queueVars, guardVars, moneyVars>>

\* checkTenantDailyQuota reads the ledger; then the PENDING row is sent to
\* the database without waiting for it.
CheckQuota(j) ==
    /\ pc[j] = "quota" /\ sponsored + 1 <= TxLimit
    /\ row' = [row EXCEPT ![j] = "in_flight"]
    /\ Goto(j, IF kind[j] = "shadow" THEN "update" ELSE "charge")
    /\ UNCHANGED <<refused, requestVars, queueVars, guardVars, moneyVars>>

\* 403 QUOTA_EXCEEDED; the hash stays marked.
QuotaExceeded(j) ==
    /\ pc[j] = "quota" /\ sponsored + 1 > TxLimit
    /\ Throw(j)
    /\ refused' = refused \cup {j}
    /\ UNCHANGED <<row, guardVars, moneyVars>>

\* The database does not answer.
QuotaThrows(j) ==
    /\ pc[j] = "quota"
    /\ Throw(j)
    /\ UNCHANGED <<refused, row, guardVars, moneyVars>>

RowLands(j) ==
    /\ row[j] = "in_flight"
    /\ row' = [row EXCEPT ![j] = "PENDING"]
    /\ UNCHANGED <<refused, requestVars, queueVars, pc, guardVars, moneyVars>>

\* The insert fails, which persistTransactionAsync only logs.
RowLost(j) ==
    /\ row[j] = "in_flight"
    /\ row' = [row EXCEPT ![j] = "none"]
    /\ UNCHANGED <<refused, requestVars, queueVars, pc, guardVars, moneyVars>>

-----------------------------------------------------------------------------
(* executePreparedFeeBump *)

\* buildFeeBumpTransaction, sign and recordSponsoredTransaction; only a server
\* with a Horizon URL submits.
RecordSponsored(j) ==
    /\ pc[j] = "charge"
    /\ sponsored' = sponsored + 1
    /\ charged' = [charged EXCEPT ![tx[j]] = @ + 1]
    /\ Goto(j, IF kind[j] = "submit" THEN "submit" ELSE "update")
    /\ UNCHANGED <<refused, requestVars, queueVars, row, guardVars, ledgered>>

RecordThrows(j) ==
    /\ pc[j] = "charge"
    /\ Goto(j, "outer_catch")
    /\ UNCHANGED <<refused, requestVars, queueVars, row, guardVars, moneyVars>>

\* External: Horizon answers with success once the transaction is applied;
\* an error or a timeout does not say whether it was or will be.
SubmitTransaction(j) ==
    /\ pc[j] = "submit"
    /\ \/ ledgered' = ledgered \cup {tx[j]} /\ Goto(j, "update")
       \/ ledgered' \in {ledgered, ledgered \cup {tx[j]}} /\ Goto(j, "inner_catch")
    /\ UNCHANGED <<refused, requestVars, queueVars, row, guardVars, sponsored, charged>>

\* An update of no row counts as done.
UpdateAnyRow(j) ==
    /\ pc[j] = "update"
    /\ row' = [row EXCEPT ![j] =
                 IF @ \notin Landed THEN @
                 ELSE IF kind[j] = "shadow" THEN "SHADOW" ELSE "SUCCESS"]
    /\ Goto(j, "return")
    /\ UNCHANGED <<refused, requestVars, queueVars, guardVars, moneyVars>>

\* prisma.transaction.update needs the row to be there.
UpdateRow(j) ==
    /\ pc[j] = "update" /\ row[j] \in Landed
    /\ row' = [row EXCEPT ![j] = IF kind[j] = "shadow" THEN "SHADOW" ELSE "SUCCESS"]
    /\ Goto(j, "return")
    /\ UNCHANGED <<refused, requestVars, queueVars, guardVars, moneyVars>>

\* The row has not landed, or the database does not answer.
UpdateThrows(j) ==
    /\ pc[j] = "update"
    /\ \/ kind[j] = "submit" /\ Goto(j, "inner_catch") /\ UNCHANGED queueVars
       \/ kind[j] \in {"unsent", "ready"} /\ Goto(j, "outer_catch") /\ UNCHANGED queueVars
       \/ kind[j] = "shadow" /\ Throw(j)
    /\ UNCHANGED <<refused, requestVars, row, guardVars, moneyVars>>

\* Both catch blocks set the row to FAILED; an update that throws there
\* leaves the inner block for the outer, and the outer for the queue.
SetFailed(j) ==
    row' \in {row} \cup {[row EXCEPT ![j] = "FAILED"] : s \in {row[j]} \cap Landed}

InnerCatch(j) ==
    /\ pc[j] = "inner_catch"
    /\ SetFailed(j)
    /\ Goto(j, "outer_catch")
    /\ UNCHANGED <<refused, requestVars, queueVars, guardVars, moneyVars>>

OuterCatch(j) ==
    /\ pc[j] = "outer_catch"
    /\ SetFailed(j)
    /\ Throw(j)
    /\ UNCHANGED <<refused, guardVars, moneyVars>>

Attempt(j) ==
    \/ PrepareThrows(j) \/ MarkTransactionHash(j) \/ Duplicate(j) \/ MarkFailsOpen(j)
    \/ CheckQuota(j) \/ QuotaExceeded(j) \/ QuotaThrows(j)
    \/ RecordSponsored(j) \/ RecordThrows(j) \/ SubmitTransaction(j)
    \/ UpdateRow(j) \/ UpdateThrows(j) \/ InnerCatch(j) \/ OuterCatch(j)
    \/ Return(j)

Next ==
    \/ \E j \in Jobs :
          \/ Enqueue(j) \/ Respond(j) \/ TimesOut(j)
          \/ Start(j) \/ Attempt(j) \/ Promote(j) \/ RequeueStalled(j)
          \/ RowLands(j) \/ RowLost(j)
    \/ \E t \in Txs : MarkExpires(t)
    \/ Crash
    \/ Tick

Spec == Init /\ [][Next]_vars

\* Every await of an attempt settles, BullMQ keeps moving its jobs, and
\* timers run.
FairSpec ==
    /\ Spec
    /\ \A j \in Jobs :
          /\ WF_vars(Start(j)) /\ WF_vars(Attempt(j)) /\ WF_vars(Promote(j))
          /\ WF_vars(RequeueStalled(j))
          /\ WF_vars(Respond(j)) /\ WF_vars(TimesOut(j))
    /\ WF_vars(Tick)

-----------------------------------------------------------------------------
(* Properties *)

\* The replay guard (#688) covers retries, stalled jobs and repeated requests
\* alike: an inner transaction is charged once, and once more for each time
\* Redis was away or the hash expired.
ChargedOncePerLapse == \A t \in Txs : charged[t] <= 1 + lapses

\* checkTenantDailyQuota and recordSponsoredTransaction are separate awaits,
\* yet the attempts that may sit between them are at most the worker's
\* concurrency: txLimit is exceeded by at most one less than that.
OvershootBelowConcurrency == sponsored <= TxLimit + Concurrency - 1

\* No inner transaction reaches the ledger at the sponsor's expense without
\* a sponsoredTransaction record, whatever crashes or retries follow.
AppliedWasCharged == \A t \in ledgered : charged[t] > 0

\* A job that completed did what its response says: the row of its last
\* attempt carries the final status although it was inserted without
\* waiting, and a submitted transaction is on the ledger.  Not of an unsent one:
\* its response is "submitted" and its row SUCCESS all the same.
CompletedDidIt ==
    \A j \in Jobs : status[j] = "completed" =>
        /\ row[j] = IF kind[j] = "shadow" THEN "SHADOW" ELSE "SUCCESS"
        /\ kind[j] = "submit" => tx[j] \in ledgered
        /\ kind[j] # "shadow" => charged[tx[j]] > 0

\* Every request is answered unless the server dies under it, and every job
\* it added completes or fails, even if its worker dies.
EveryJobEnds ==
    \A j \in Jobs :
        /\ handler[j] = "waiting" ~> handler[j] # "waiting"
        /\ handler[j] # "none" ~> status[j] \in Over

\* docs/sponsorship-quotas.md: "When a quota is exceeded, XLM Paymaster
\* returns a 403 error", here: the request is not left to JOB_TIMEOUT.
RefusalIsAnswered == \A j \in refused : handler[j] # "504"

\* Behaviours in which only the backoff takes time.
Quiet ==
    \A j \in Jobs :
        /\ status[j] \in Over \/ (status[j] = "delayed" /\ delay[j] > 0)
        /\ handler[j] = "waiting" => status[j] \notin Over /\ left[j] > 0
PromptSpec == Init /\ [][Next /\ (Tick => Quiet)]_vars

\* The outcome a job reports is the one it had, across retries, stalls, crashes
\* and rows that land late: see AppliedWasCharged and CompletedDidIt.
QueueInv == TypeOK /\ AppliedWasCharged /\ CompletedDidIt
=============================================================================

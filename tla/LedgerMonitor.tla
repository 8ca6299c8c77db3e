--------------------------- MODULE LedgerMonitor ---------------------------
(***************************************************************************)
(* The ledger monitor (server/src/workers/ledgerMonitor.ts) with the       *)
(* cycle control of baseWorker.ts, the in-memory transaction store         *)
(* (transactionStore.ts) and the tenant webhooks it sends (dispatch in     *)
(* services/webhook.ts).  A cycle looks up the pending transactions in     *)
(* batches; the checks of a batch run concurrently, each awaiting Horizon  *)
(* and then the webhook.  When one of them throws, Promise.all rejects and *)
(* the cycle is over although the others still run.                        *)
(*                                                                         *)
(* Horizon and the receivers are external; lookups that fail and           *)
(* dispatches that throw are bounded by MaxMonitorFaults.                  *)
(***************************************************************************)
EXTENDS Integers, FiniteSets, Sequences

CONSTANTS Hashes,             \* real hashes: no test- prefix, 56 characters or more
          batchSize,
          MaxTracked,         \* bound: times a hash is added
          MaxMonitorFaults    \* bound: failing lookups and dispatches

ASSUME MonitorAssumption ==
    batchSize \in Nat \ {0} /\ MaxTracked \in Nat /\ MaxMonitorFaults \in Nat

VARIABLES txStatus,     \* txStatus[h]: the record's status, "none" if not tracked
          onLedger,     \* onLedger[h]: what the network made of the transaction
          cycle,        \* the hashes the running cycle has still to check, or NoCycle
          checks,       \* the checks in flight: [hash, epoch, stage]
          isShuttingDown, stopped,
          monitorFaults,
          rejections,   \* batches that rejected; a check of an earlier epoch is a stray
          tracked,      \* history: tracked[h], times h was added
          webhooks,     \* history: webhooks[h], final webhooks sent for h
          missed,       \* history: hashes a lookup did not find
          abandoned     \* history: hashes with a check in flight when its batch rejected

monitorVars == <<txStatus, onLedger, cycle, checks, isShuttingDown, stopped,
                 monitorFaults, rejections, tracked, webhooks, missed, abandoned>>

NoCycle == [running |-> FALSE, rest |-> {}]

MonitorInit ==
    /\ txStatus = [h \in Hashes |-> "none"]
    /\ onLedger = [h \in Hashes |-> "unknown"]
    /\ cycle = NoCycle /\ checks = {}
    /\ isShuttingDown = FALSE /\ stopped = FALSE
    /\ monitorFaults = 0 /\ rejections = 0 /\ missed = {} /\ abandoned = {}
    /\ tracked = [h \in Hashes |-> 0] /\ webhooks = [h \in Hashes |-> 0]

MonitorFault == monitorFaults < MaxMonitorFaults /\ monitorFaults' = monitorFaults + 1

\* A submitted transaction is tracked, or tracked again, at any time.
addTransaction(h) ==
    /\ tracked[h] < MaxTracked
    /\ txStatus' = [txStatus EXCEPT ![h] = "submitted"]
    /\ tracked' = [tracked EXCEPT ![h] = @ + 1]
    /\ UNCHANGED <<onLedger, cycle, checks, isShuttingDown, stopped, monitorFaults,
                   rejections, webhooks, missed, abandoned>>

LedgerCloses(h) ==
    /\ onLedger[h] = "unknown"
    /\ \E o \in {"successful", "unsuccessful"} : onLedger' = [onLedger EXCEPT ![h] = o]
    /\ UNCHANGED <<txStatus, cycle, checks, isShuttingDown, stopped, monitorFaults,
                   rejections, tracked, webhooks, missed, abandoned>>

getPendingTransactions == {h \in Hashes : txStatus[h] = "submitted"}

\* The checks the running cycle awaits.
Batch == {c \in checks : c.epoch = rejections}

\* runCycle on the timer.
runCycle ==
    /\ ~isShuttingDown /\ ~cycle.running /\ getPendingTransactions # {}
    /\ cycle' = [running |-> TRUE, rest |-> getPendingTransactions]
    /\ UNCHANGED <<txStatus, onLedger, checks, isShuttingDown, stopped, monitorFaults,
                   rejections, tracked, webhooks, missed, abandoned>>

\* The loop of checkPendingTransactions: the next batch, unless shutting down.
NextBatch ==
    /\ cycle.running /\ Batch = {} /\ cycle.rest # {} /\ ~isShuttingDown
    /\ \E b \in SUBSET cycle.rest :
         /\ Cardinality(b) = batchSize \/ (b = cycle.rest /\ Cardinality(b) < batchSize)
         /\ cycle' = [cycle EXCEPT !.rest = @ \ b]
         /\ checks' = checks \cup
              {[hash |-> h, epoch |-> rejections, stage |-> "lookup"] : h \in b}
    /\ UNCHANGED <<txStatus, onLedger, isShuttingDown, stopped, monitorFaults, rejections,
                   tracked, webhooks, missed, abandoned>>

\* Mutant: the flag of a running cycle is not cleared.
CycleStaysOn == cycle' = [cycle EXCEPT !.rest = {}]

\* The finally of runCycle.
ClearCycle == cycle' = NoCycle

CycleEnds ==
    /\ cycle.running /\ Batch = {} /\ (cycle.rest = {} \/ isShuttingDown)
    /\ ClearCycle
    /\ UNCHANGED <<txStatus, onLedger, checks, isShuttingDown, stopped, monitorFaults,
                   rejections, tracked, webhooks, missed, abandoned>>

\* The status of a transaction that Horizon returned.
FinalStatus(h) == IF onLedger[h] = "successful" THEN "success" ELSE "failed"

\* getTransaction answers and updateTransactionStatus makes the record final
\* before the webhook is sent.  A node that has not seen the transaction yet
\* answers 404, which is taken for a failure in the catch block.
Answered(c) ==
    LET h == c.hash
        Await(st) == checks' = (checks \ {c}) \cup {[c EXCEPT !.stage = st]}
    IN  /\ c.stage = "lookup"
        /\ \/ /\ onLedger[h] # "unknown"
              /\ txStatus' = [txStatus EXCEPT ![h] = FinalStatus(h)]
              /\ Await("dispatch")
              /\ UNCHANGED missed
           \/ /\ txStatus' = [txStatus EXCEPT ![h] = "failed"]
              /\ Await("dispatch_in_catch")
              /\ missed' = missed \cup {h}
        /\ UNCHANGED <<onLedger, cycle, isShuttingDown, stopped, monitorFaults, rejections,
                       tracked, webhooks, abandoned>>

\* The lookup fails with anything but 404: the record stays for the next cycle.
LookupFails(c) ==
    /\ c.stage = "lookup" /\ MonitorFault
    /\ checks' = checks \ {c}
    /\ UNCHANGED <<txStatus, onLedger, cycle, isShuttingDown, stopped, rejections, tracked,
                   webhooks, missed, abandoned>>

\* dispatch posts the webhook, or does not: no URL, a filter, a network error.
Dispatch(c) ==
    /\ c.stage # "lookup"
    /\ checks' = checks \ {c}
    /\ webhooks' \in {webhooks, [webhooks EXCEPT ![c.hash] = @ + 1]}
    /\ UNCHANGED <<txStatus, onLedger, cycle, isShuttingDown, stopped, monitorFaults,
                   rejections, tracked, missed, abandoned>>

\* dispatch throws (the tenant lookup is outside its try).  In the try block of
\* checkTransaction the error is caught and logged; in the catch block it is
\* thrown on, and the batch is not waited for any longer.
DispatchThrows(c) ==
    /\ c.stage # "lookup" /\ MonitorFault
    /\ checks' = checks \ {c}
    /\ IF c.stage = "dispatch_in_catch" /\ c \in Batch
       THEN /\ rejections' = rejections + 1 /\ ClearCycle
            /\ abandoned' = abandoned \cup {d.hash : d \in Batch \ {c}}
       ELSE UNCHANGED <<rejections, cycle, abandoned>>
    /\ UNCHANGED <<txStatus, onLedger, isShuttingDown, stopped, tracked, webhooks, missed>>

\* BaseWorker.stop waits for the cycle's promise.
stop ==
    /\ ~isShuttingDown
    /\ isShuttingDown' = TRUE
    /\ UNCHANGED <<txStatus, onLedger, cycle, checks, stopped, monitorFaults, rejections,
                   tracked, webhooks, missed, abandoned>>

CycleAwaited == isShuttingDown /\ ~cycle.running

stopResolves ==
    /\ CycleAwaited /\ ~stopped
    /\ stopped' = TRUE
    /\ UNCHANGED <<txStatus, onLedger, cycle, checks, isShuttingDown, monitorFaults,
                   rejections, tracked, webhooks, missed, abandoned>>

MonitorWork ==
    runCycle \/ NextBatch \/ CycleEnds \/ \E c \in checks : Answered(c) \/ Dispatch(c)

MonitorNext ==
    \/ MonitorWork \/ stop \/ stopResolves
    \/ \E h \in Hashes : addTransaction(h) \/ LedgerCloses(h)
    \/ \E c \in checks : LookupFails(c) \/ DispatchThrows(c)

\* The poll timer fires, and every lookup and dispatch ends.
MonitorSpec == MonitorInit /\ [][MonitorNext]_monitorVars /\ WF_monitorVars(MonitorWork)
-----------------------------------------------------------------------------
MonitorTypeOK ==
    /\ txStatus \in [Hashes -> {"none", "submitted", "success", "failed"}]
    /\ checks \subseteq [hash : Hashes, epoch : 0 .. rejections,
                         stage : {"lookup", "dispatch", "dispatch_in_catch"}]
    /\ cycle.rest \subseteq Hashes
    /\ isShuttingDown \in BOOLEAN /\ stopped \in BOOLEAN

\* Every final webhook answers a transaction that was tracked: one per tracking,
\* however adding it again falls into a running cycle.  The exception are the
\* transactions whose own check was still in flight when another check threw out
\* of its batch: a later cycle may look them up a second time (runCycle,
\* checkTransaction, addTransaction).
OneWebhookPerTracking ==
    \A h \in Hashes : webhooks[h] <= tracked[h] \/ h \in abandoned

\* A transaction that succeeded is never reported as failed, unless some lookup
\* did not find it: there is no other way to a wrong status (line 151).
WrongOnlyAfter404 ==
    \A h \in Hashes :
      /\ txStatus[h] = "failed" /\ onLedger[h] # "unsuccessful" => h \in missed
      /\ txStatus[h] = "success" => onLedger[h] = "successful"

\* What the comment of BaseWorker.stop says: when it has resolved, the cycle is
\* complete and no check of it is left that could still send a webhook.  It does
\* not hold of the checks that Promise.all gave up on when another one of their
\* batch threw, and of no others.
StopWaitsUnlessRejected == stopped => \A c \in checks : c.hash \in abandoned

\* A tracked transaction gets its final status, unless the monitor is shut down.
EveryTrackedIsFinal ==
    \A h \in Hashes : txStatus[h] = "submitted" ~> (txStatus[h] # "submitted" \/ isShuttingDown)

\* The monitor reports a tracked transaction once and not at all after it has been
\* stopped, unless its check was abandoned in a rejected batch, and wrongly only
\* after a 404.
MonitorInv ==
    MonitorTypeOK /\ OneWebhookPerTracking /\ WrongOnlyAfter404 /\ StopWaitsUnlessRejected
=============================================================================

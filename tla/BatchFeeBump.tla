---------------------------- MODULE BatchFeeBump ---------------------------
(***************************************************************************)
(* POST /fee-bump/batch of the Node server (feeBumpBatchHandler in         *)
(* server/src/handlers/feeBump.ts) and the sponsor it calls for each       *)
(* transaction, buildSponsoredTx of sponsors/stellar.ts.  The quota is     *)
(* checked once, for the whole batch; the items then run one after the     *)
(* other, each with a Transaction row, a signature, a charge and, when     *)
(* asked, a submission, and the first that throws ends the batch.  Batches *)
(* of one tenant run concurrently; every await may throw and the server    *)
(* may stop (bounded faults).  Validation, KYC, sanctions and settlement   *)
(* checks of an item are one refusal before its row exists.                *)
(***************************************************************************)
EXTENDS Integers, Sequences, FiniteSets

CONSTANTS Batches, BatchTxs,
          ItemsOf,         \* ItemsOf[b]: the transactions of batch b
          SubmitOf,        \* SubmitOf[b]: whether the batch is to be submitted
          BatchTxLimit,    \* the tenant's txLimit
          MaxBatchFaults

ASSUME BatchAssumption ==
    /\ ItemsOf \in [Batches -> Seq(BatchTxs) \ {<<>>}] /\ SubmitOf \in [Batches -> BOOLEAN]
    /\ IsFiniteSet(Batches)
    /\ BatchTxLimit \in Nat /\ MaxBatchFaults \in Nat

VARIABLES batch,          \* batch[b]: [at, item]
          txRow,          \* txRow[b]: status of the row of each item begun
          charges,        \* sponsoredTransaction rows of the tenant today
          chargedItems,   \* history: items that were charged
          appliedTxs,     \* transactions the network has applied
          batchFaults,
          hasHorizon      \* config.horizonUrl is set; fixed

batchVars == <<batch, txRow, charges, chargedItems, appliedTxs, batchFaults, hasHorizon>>

BatchInit ==
    /\ batch = [b \in Batches |-> [at |-> "check", item |-> 1]]
    /\ txRow = [b \in Batches |-> <<>>]
    /\ charges = 0 /\ chargedItems = {} /\ appliedTxs = {} /\ batchFaults = 0
    /\ hasHorizon \in BOOLEAN

BatchTo(b, st) == batch' = [batch EXCEPT ![b].at = st]
BatchFault == batchFaults < MaxBatchFaults /\ batchFaults' = batchFaults + 1
Row(b, status) == txRow' = [txRow EXCEPT ![b][batch[b].item] = status]
TxOf(b) == ItemsOf[b][batch[b].item]

\* Without a Horizon URL a batch to be submitted is only signed.
Submits(b) == SubmitOf[b] /\ hasHorizon

ProjectedTxCount(b) == charges + Len(ItemsOf[b])

\* checkTenantDailyQuota with the sum of the batch.
checkTenantDailyQuota(b) ==
    /\ batch[b].at = "check"
    /\ BatchTo(b, IF ProjectedTxCount(b) <= BatchTxLimit THEN "create" ELSE "refused")
    /\ UNCHANGED <<txRow, charges, chargedItems, appliedTxs, batchFaults>>

\* The row of an item, unless one of the checks before it refuses the item.
CreatePending(b) ==
    /\ batch[b].at = "create"
    /\ \/ txRow' = [txRow EXCEPT ![b] = Append(@, "PENDING")] /\ BatchTo(b, "charge")
       \/ UNCHANGED txRow /\ BatchTo(b, "thrown")
    /\ UNCHANGED <<charges, chargedItems, appliedTxs, batchFaults>>

\* Mutant: the charge is left for after the submission.
SubmitUncharged(b) ==
    /\ batch[b].at = "charge" /\ BatchTo(b, IF Submits(b) THEN "submit" ELSE "succeed")
    /\ UNCHANGED <<txRow, charges, chargedItems, appliedTxs, batchFaults>>

\* The signature and recordSponsoredTransaction.
SignAndCharge(b) ==
    /\ batch[b].at = "charge"
    /\ charges' = charges + 1 /\ chargedItems' = chargedItems \cup {<<b, batch[b].item>>}
    /\ BatchTo(b, IF Submits(b) THEN "submit" ELSE "succeed")
    /\ UNCHANGED <<txRow, appliedTxs, batchFaults>>

\* submitTransaction: applied and answered, or an error, after which the
\* transaction may have been applied all the same.  The network applies a
\* transaction once.
SubmitTx(b) ==
    /\ batch[b].at = "submit"
    /\ \/ TxOf(b) \notin appliedTxs /\ appliedTxs' = appliedTxs \cup {TxOf(b)} /\ BatchTo(b, "succeed")
       \/ appliedTxs' \in {appliedTxs, appliedTxs \cup {TxOf(b)}} /\ BatchTo(b, "inner_catch")
    /\ UNCHANGED <<txRow, charges, chargedItems, batchFaults>>

\* The row becomes SUCCESS and the next item begins.
Succeed(b) ==
    /\ batch[b].at = "succeed"
    /\ Row(b, "SUCCESS")
    /\ batch' = [batch EXCEPT ![b] =
                   IF @.item < Len(ItemsOf[b]) THEN [at |-> "create", item |-> @.item + 1]
                   ELSE [@ EXCEPT !.at = "done"]]
    /\ UNCHANGED <<charges, chargedItems, appliedTxs, batchFaults>>

\* A submission has a catch block of its own, inside the one of the whole item:
\* both set the row to FAILED, and the error ends the batch.
Fail(b) ==
    /\ batch[b].at \in {"inner_catch", "catch"}
    /\ Row(b, "FAILED")
    /\ BatchTo(b, IF batch[b].at = "catch" THEN "thrown" ELSE "catch")
    /\ UNCHANGED <<charges, chargedItems, appliedTxs, batchFaults>>

\* A database call or the signer throws.  An error of the inner catch block goes
\* to the outer one; when that fails too the row stays as it is, and the batch is
\* answered with that error.
BatchThrows(b) ==
    /\ BatchFault
    /\ batch[b].at \in {"check", "charge", "succeed", "inner_catch", "catch"}
    /\ BatchTo(b, CASE batch[b].at = "check" -> "refused"
                    [] batch[b].at = "catch" -> "unmarked"
                    [] batch[b].at = "succeed" /\ Submits(b) -> "inner_catch"
                    [] OTHER -> "catch")
    /\ UNCHANGED <<txRow, charges, chargedItems, appliedTxs>>

\* Where the handler has sent its response.
BatchAnswered == {"done", "refused", "thrown", "unmarked"}

BatchCrash(b) ==
    /\ BatchFault
    /\ batch[b].at \notin {"check", "stopped"} \cup BatchAnswered
    /\ BatchTo(b, "stopped")
    /\ UNCHANGED <<txRow, charges, chargedItems, appliedTxs>>

BatchNext ==
    /\ \E b \in Batches :
         \/ checkTenantDailyQuota(b) \/ CreatePending(b) \/ SignAndCharge(b) \/ SubmitTx(b)
         \/ Succeed(b) \/ Fail(b) \/ BatchThrows(b) \/ BatchCrash(b)
    /\ UNCHANGED hasHorizon

BatchSpec == BatchInit /\ [][BatchNext]_batchVars
-----------------------------------------------------------------------------
BatchTypeOK ==
    /\ \A b \in Batches :
         /\ batch[b].item \in 1 .. Len(ItemsOf[b])
         /\ Len(txRow[b]) <= Len(ItemsOf[b])
         /\ \A i \in DOMAIN txRow[b] : txRow[b][i] \in {"PENDING", "SUCCESS", "FAILED"}
    /\ hasHorizon \in BOOLEAN /\ charges \in Nat /\ appliedTxs \subseteq BatchTxs /\ batchFaults \in 0 .. MaxBatchFaults

\* No transaction reaches the network uncharged, whatever stops the batch.
BatchAppliedWasCharged ==
    \A tx \in appliedTxs : \E c \in chargedItems : ItemsOf[c[1]][c[2]] = tx

\* A row SUCCESS of a batch that was submitted is true: its transaction is on the
\* ledger.  (Without a Horizon URL the items are answered "submitted" and their
\* rows say SUCCESS with nothing sent.)
BatchSuccessIsApplied ==
    \A b \in Batches : Submits(b) =>
      \A i \in DOMAIN txRow[b] : txRow[b][i] = "SUCCESS" => ItemsOf[b][i] \in appliedTxs

\* Concurrent batches see only the charges made before their check: the limit is
\* exceeded, but by no more than the items of the other batches let in.
BatchOvershoot ==
    LET letIn == {b \in Batches : batch[b].at \notin {"check", "refused"}} IN
    \A b \in letIn :
      charges <= BatchTxLimit
                 + Cardinality(UNION {{c} \X DOMAIN ItemsOf[c] : c \in letIn \ {b}})

\* Every item an answered batch began is recorded as SUCCESS or FAILED, except the
\* one whose update to FAILED threw in the outer catch block: that row stays
\* PENDING.  The items after one that did not succeed were not begun.
AnsweredLeavesNoPending ==
    \A b \in Batches : batch[b].at \in BatchAnswered =>
      \A i \in DOMAIN txRow[b] :
        /\ txRow[b][i] = "PENDING" => batch[b].at = "unmarked"
        /\ txRow[b][i] # "SUCCESS" => i = Len(txRow[b])

\* The books of the batch path are true: charges precede submissions, rows tell
\* what happened, and the quota is exceeded only by what ran concurrently.
BatchInv ==
    /\ BatchTypeOK /\ BatchAppliedWasCharged /\ BatchSuccessIsApplied
    /\ BatchOvershoot /\ AnsweredLeavesNoPending
=============================================================================

------------------------ MODULE CrossChainSettlement -----------------------
(***************************************************************************)
(* Sponsorships paid for on an EVM chain                                   *)
(* (server/src/services/crossChainSettlement.ts).  A settlement row waits  *)
(* for an ERC-20 transfer; a poller that finds it confirmed marks the row, *)
(* executes the Stellar transaction and, when that fails, refunds.  Every  *)
(* server process has a poller of its own over the one database, started   *)
(* by the first settlement the process takes, and every await of           *)
(* processSettlement is a step here.                                       *)
(*                                                                         *)
(* A claim stands for payer, token, receiver and amount, all that a        *)
(* transfer is matched by.  Chain, database and executor are external;     *)
(* their failures are bounded by MaxFaults.                                *)
(***************************************************************************)
EXTENDS Integers, FiniteSets, Sequences, Subsequences

CONSTANTS Settlements, Claims, Pollers,
          BatchSize,               \* rows a poll takes, 25 in the code
          confirmationsRequired,
          MaxBlock,                \* bound: blocks of the EVM chain
          MaxFaults                \* bound: calls that throw and crashes

ASSUME SettlementAssumption ==
    /\ BatchSize \in Nat \ {0} /\ confirmationsRequired \in Nat
    /\ MaxBlock \in Nat /\ MaxFaults \in Nat

VARIABLES rows,        \* rows[s]: status, claim and startBlock
          createdAt,   \* the settlements in the order they were created
          block, transfers,        \* the EVM chain: [claim, block]
          todo,        \* todo[p]: what is left of p's round
          step,        \* step[p]: where processSettlement is
          polling,     \* the processes whose poller runs
          faults,
          executed,    \* history: the settlements whose transaction went through
          refunds,     \* history: refunds[s], refund transfers sent
          ambiguous    \* history: settlements with an unclear or repeated execution

settleVars == <<rows, createdAt, block, transfers, todo, step, polling, faults,
                executed, refunds, ambiguous>>

NoRow == [status |-> "none"]

SettleInit ==
    /\ rows = [s \in Settlements |-> NoRow]
    /\ createdAt = <<>>
    /\ block = 1 /\ transfers = {}
    /\ todo = [p \in Pollers |-> <<>>] /\ step = [p \in Pollers |-> "idle"]
    /\ polling = {}
    /\ faults = 0
    /\ executed = {} /\ refunds = [s \in Settlements |-> 0] /\ ambiguous = {}

\* The EVM chain: a payer transfers, a block is mined.
EvmTransfer(c) ==
    /\ transfers' = transfers \cup {[claim |-> c, block |-> block]}
    /\ UNCHANGED <<rows, createdAt, block, todo, step, polling, faults, executed,
                   refunds, ambiguous>>

EvmMine ==
    /\ block < MaxBlock
    /\ block' = block + 1
    /\ UNCHANGED <<rows, createdAt, transfers, todo, step, polling, faults, executed,
                   refunds, ambiguous>>

enqueuePendingSettlement(p, s, c) ==
    /\ rows[s] = NoRow
    /\ rows' = [rows EXCEPT ![s] = [status |-> "AWAITING_EVM_PAYMENT", claim |-> c,
                                    startBlock |-> block]]
    /\ createdAt' = Append(createdAt, s)
    /\ polling' = polling \cup {p}
    /\ UNCHANGED <<block, transfers, todo, step, faults, executed, refunds, ambiguous>>

\* Mutant: the newest rows first.
NewestAwaiting ==
    LET all == Picked(createdAt,
                 {i \in DOMAIN createdAt : rows[createdAt[i]].status = "AWAITING_EVM_PAYMENT"})
    IN  [i \in DOMAIN all |-> all[Len(all) + 1 - i]]

\* The oldest rows first (take at line 240 orders by createdAt).
Awaiting ==
    Picked(createdAt, {i \in DOMAIN createdAt : rows[createdAt[i]].status = "AWAITING_EVM_PAYMENT"})

\* processPendingSettlements; pollInFlight keeps a process to one round.
processPendingSettlements(p) ==
    /\ p \in polling /\ step[p] = "idle" /\ Awaiting # <<>>
    /\ todo' = [todo EXCEPT ![p] = SubSeq(Awaiting, 1, IF Len(Awaiting) < BatchSize
                                                       THEN Len(Awaiting) ELSE BatchSize)]
    /\ step' = [step EXCEPT ![p] = "find"]
    /\ UNCHANGED <<rows, createdAt, block, transfers, polling, faults, executed,
                   refunds, ambiguous>>

\* findConfirmedPayment on the chain as it is.
findConfirmedPayment(s) ==
    \E t \in transfers : /\ t.claim = rows[s].claim
                         /\ t.block >= rows[s].startBlock
                         /\ block - t.block + 1 >= confirmationsRequired

\* p is done with the row at the head of its round, and with the round when it
\* was the last.
RowDone(p) ==
    /\ todo' = [todo EXCEPT ![p] = Tail(@)]
    /\ step' = [step EXCEPT ![p] = IF Len(todo[p]) = 1 THEN "idle" ELSE "find"]

StepTo(p, st) == step' = [step EXCEPT ![p] = st] /\ UNCHANGED todo
SetStatus(s, st) == rows' = [rows EXCEPT ![s].status = st]
chainVars == <<createdAt, block, transfers, polling>>

Find(p, s) ==
    /\ step[p] = "find"
    /\ IF findConfirmedPayment(s) THEN StepTo(p, "confirm") ELSE RowDone(p)
    /\ UNCHANGED <<chainVars, rows, faults, executed, refunds, ambiguous>>

Confirm(p, s) ==
    /\ step[p] = "confirm"
    /\ SetStatus(s, "EVM_CONFIRMED")
    /\ StepTo(p, "execute")
    /\ ambiguous' = IF rows[s].status = "AWAITING_EVM_PAYMENT" THEN ambiguous
                    ELSE ambiguous \cup {s}
    /\ UNCHANGED <<chainVars, faults, executed, refunds>>

\* The executor succeeds, or throws without having submitted anything.
Execute(p, s) ==
    /\ step[p] = "execute"
    /\ \/ StepTo(p, "settle") /\ executed' = executed \cup {s}
       \/ StepTo(p, "refund") /\ UNCHANGED executed
    /\ UNCHANGED <<chainVars, rows, faults, refunds, ambiguous>>

Settle(p, s) ==
    /\ step[p] = "settle"
    /\ SetStatus(s, "STELLAR_SETTLED")
    /\ RowDone(p)
    /\ UNCHANGED <<chainVars, faults, executed, refunds, ambiguous>>

\* Mutant: the refund is sent while the outcome is still open.
RefundBeforeExecute(p, s) ==
    /\ step[p] \in {"execute", "refund"}
    /\ refunds' = [refunds EXCEPT ![s] = @ + 1]
    /\ IF step[p] = "refund" THEN StepTo(p, "refunded") ELSE UNCHANGED <<step, todo>>
    /\ refunds[s] = 0
    /\ UNCHANGED <<chainVars, rows, faults, executed, ambiguous>>

RefundToken(p, s) ==
    /\ step[p] = "refund"
    /\ refunds' = [refunds EXCEPT ![s] = @ + 1]
    /\ StepTo(p, "refunded")
    /\ UNCHANGED <<chainVars, rows, faults, executed, ambiguous>>

Refunded(p, s) ==
    /\ step[p] = "refunded"
    /\ SetStatus(s, "REFUNDED")
    /\ RowDone(p)
    /\ UNCHANGED <<chainVars, faults, executed, refunds, ambiguous>>

RefundFailed(p, s) ==
    /\ step[p] = "refundFailed"
    /\ SetStatus(s, "REFUND_FAILED")
    /\ RowDone(p)
    /\ UNCHANGED <<chainVars, faults, executed, refunds, ambiguous>>

\* The process ends.  Its successor polls only after the next settlement it takes.
Exits(p) ==
    /\ polling' = polling \ {p}
    /\ step' = [step EXCEPT ![p] = "idle"] /\ todo' = [todo EXCEPT ![p] = <<>>]

\* A call that throws: where the error goes depends on the step.  Outside the
\* two try blocks it rejects the round's promise, which the timer's callback
\* leaves unhandled and which therefore ends the process; the executor, or the
\* row update after it, leads to a refund; a refund that throws, sent or not, is
\* a failed refund.
SettleThrows(p, s) ==
    /\ faults < MaxFaults
    /\ faults' = faults + 1
    /\ \/ /\ step[p] \in {"find", "confirm", "refundFailed"}
          /\ Exits(p)
          /\ UNCHANGED <<executed, refunds, ambiguous>>
       \/ /\ step[p] \in {"execute", "settle"}
          /\ StepTo(p, "refund")
          /\ executed' = executed \cup {s} /\ ambiguous' = ambiguous \cup {s}
          /\ UNCHANGED <<refunds, polling>>
       \/ /\ step[p] \in {"refund", "refunded"}
          /\ StepTo(p, "refundFailed")
          /\ \/ UNCHANGED refunds
             \/ step[p] = "refund" /\ refunds' = [refunds EXCEPT ![s] = @ + 1]
          /\ UNCHANGED <<executed, ambiguous, polling>>
    /\ UNCHANGED <<rows, createdAt, block, transfers>>

\* The process dies of something else, or of a poll whose query fails.
SettleCrash(p) ==
    /\ faults < MaxFaults /\ p \in polling
    /\ faults' = faults + 1
    /\ Exits(p)
    /\ UNCHANGED <<rows, createdAt, block, transfers, executed, refunds, ambiguous>>

processSettlement(p) ==
    /\ todo[p] # <<>>
    /\ LET s == Head(todo[p]) IN
       \/ Find(p, s) \/ Confirm(p, s) \/ Execute(p, s) \/ Settle(p, s)
       \/ RefundToken(p, s) \/ Refunded(p, s) \/ RefundFailed(p, s)

SettleNext ==
    \/ EvmMine \/ \E c \in Claims : EvmTransfer(c)
    \/ \E p \in Pollers :
         \/ \E s \in Settlements, c \in Claims : enqueuePendingSettlement(p, s, c)
         \/ processPendingSettlements(p) \/ processSettlement(p) \/ SettleCrash(p)
         \/ todo[p] # <<>> /\ SettleThrows(p, Head(todo[p]))

\* The poller's timer fires and its calls return.
SettleFairness ==
    \A p \in Pollers : /\ WF_settleVars(processPendingSettlements(p))
                       /\ WF_settleVars(processSettlement(p))

SettleSpec == SettleInit /\ [][SettleNext]_settleVars /\ SettleFairness
-----------------------------------------------------------------------------
SettleTypeOK ==
    /\ \A s \in Settlements : rows[s].status \in
         {"none", "AWAITING_EVM_PAYMENT", "EVM_CONFIRMED", "STELLAR_SETTLED", "REFUNDED",
          "REFUND_FAILED"}
    /\ todo \in [Pollers -> Seq(Settlements)] /\ polling \subseteq Pollers
    /\ faults \in 0 .. MaxFaults /\ executed \subseteq Settlements

\* Nobody gets both the Stellar transaction and the money back, unless the
\* executor threw after it had submitted, the update to STELLAR_SETTLED threw, or
\* two pollers worked on the row (the catch at line 302 takes every one of these
\* for a settlement that failed).
SettledOrRefunded ==
    \A s \in Settlements : s \in executed /\ refunds[s] > 0 => s \in ambiguous

\* A settlement is executed only against a transfer of its payer, token, receiver
\* and amount, of its start block or a later one, with the confirmations asked for.
\* Nothing ties the transfer to the settlement: it may have been made before it, in
\* the same block, and one transfer confirms every settlement of the same claim
\* (findConfirmedPayment).
ExecutedWasPaid ==
    \A s \in executed : \E t \in transfers :
      /\ t.claim = rows[s].claim /\ t.block >= rows[s].startBlock
      /\ block - t.block + 1 >= confirmationsRequired

\* The books are true: a row that says settled was executed, a row that says
\* refunded was refunded, and money goes back at most once per poller that took
\* the row (processSettlement, refundSettlement).
StatusIsTrue ==
    \A s \in Settlements :
      /\ rows[s].status = "STELLAR_SETTLED" => s \in executed
      /\ rows[s].status = "REFUNDED" => refunds[s] > 0
      /\ refunds[s] > 1 => s \in ambiguous

Older(s) == {i \in DOMAIN createdAt :
               /\ rows[createdAt[i]].status = "AWAITING_EVM_PAYMENT"
               /\ \E j \in DOMAIN createdAt : createdAt[j] = s /\ i < j}

\* A paid settlement with fewer than BatchSize unpaid ones before it leaves
\* AWAITING_EVM_PAYMENT as long as some process polls.  Both conditions are
\* needed: rows that are never paid fill the batch for good, and no process polls
\* after a restart until it takes a new settlement (take at line 240, ensureStarted).
PaidLeavesAwaiting ==
    \A s \in Settlements :
      (/\ rows[s].status = "AWAITING_EVM_PAYMENT" /\ findConfirmedPayment(s)
       /\ Cardinality(Older(s)) < BatchSize)
        ~> (rows[s].status # "AWAITING_EVM_PAYMENT" \/ polling = {})

\* The settlement service executes nothing without a confirmed transfer that matches,
\* executes and refunds only where an outcome was unclear, and its rows tell what
\* happened.
SettleInv == SettleTypeOK /\ SettledOrRefunded /\ ExecutedWasPaid /\ StatusIsTrue
=============================================================================

--------------------------- MODULE BalanceAlerts ---------------------------
(***************************************************************************)
(* The balance monitor (server/src/workers/balanceMonitor.ts), the         *)
(* low-balance alerts with their cooldown (services/alertService.ts, some  *)
(* transport enabled) and the transfer an alert sets off                   *)
(* (services/treasuryRebalancer.ts, services/wormholeBridgeService.ts).    *)
(* One cycle runs at a time and looks at the fee payers in their order;    *)
(* the transfers run beside it.  The bridge itself is a placeholder in the *)
(* code: a transfer is a row that goes from PENDING to COMPLETED.          *)
(***************************************************************************)
EXTENDS Integers, Sequences, FiniteSets

CONSTANTS NPayers,          \* the fee payers are 1 .. NPayers
          Cooldown,         \* cooldownMs, in ticks
          Transfers,        \* bound: transfers under way at once
          MaxRows,          \* bound: transfers the EVM surplus is enough for
          MaxMoves,         \* bound: changes of a balance
          MaxBalanceFaults  \* bound: calls that fail, and restarts

ASSUME BalanceAssumption ==
    /\ NPayers \in Nat \ {0} /\ Cooldown \in Nat \ {0} /\ IsFiniteSet(Transfers)
    /\ MaxRows \in Nat /\ MaxMoves \in Nat /\ MaxBalanceFaults \in Nat

Payers == 1 .. NPayers

VARIABLES level,         \* level[p]: "ok", "low" (to be alerted) or "empty" (to be topped up)
          alertState,    \* alertState[p]: currentlyLow, and ticks since lastAlertAt
          round,         \* the cycle: the fee payer it is at, and the level it read
          transfer,      \* transfer[t]: the next call of checkAndRebalance, and its row
          bridgeRow,     \* status of each row made so far
          unheard,       \* history: fee payers that are low since the last alert
          failures,      \* history: rows a failure alert was made for
          cutOff,        \* history: rows whose transfer a restart ended
          moves, balanceFaults

balVars == <<level, alertState, round, transfer, bridgeRow, unheard, failures, cutOff,
             moves, balanceFaults>>
balRows == <<transfer, bridgeRow, failures, cutOff>>

NeverAlerted == -1
NoTransfer == [at |-> "none", row |-> 0]
Rested == [at |-> "rest", payer |-> 0, seen |-> "ok"]

BalInit ==
    /\ level = [p \in Payers |-> "ok"]
    /\ alertState = [p \in Payers |-> [low |-> FALSE, last |-> NeverAlerted]]
    /\ round = Rested /\ transfer = [t \in Transfers |-> NoTransfer] /\ bridgeRow = <<>>
    /\ unheard = {} /\ failures = {} /\ cutOff = {}
    /\ moves = 0 /\ balanceFaults = 0

\* n more calls fail, within the bound.
Fails(n) == balanceFaults + n <= MaxBalanceFaults /\ balanceFaults' = balanceFaults + n

\* The loop goes on to the next fee payer, or the cycle is over.
GoOn == round' = IF round.payer = NPayers THEN Rested
                 ELSE [at |-> "load", payer |-> round.payer + 1, seen |-> "ok"]

checkBalances ==
    /\ round = Rested
    /\ round' = [at |-> "load", payer |-> 1, seen |-> "ok"]
    /\ UNCHANGED <<level, alertState, balRows, unheard, moves, balanceFaults>>

\* Mutant: an account that stays low is alerted once.
shouldSendOnce(s) == ~s.low \/ s.last = NeverAlerted

\* The account is newly low, or its last alert is a cooldown ago.
shouldSend(s) == ~s.low \/ s.last = NeverAlerted \/ s.last >= Cooldown

\* loadAccount answers.  A low account counts as alerted before anything is sent.
LoadAccount ==
    LET p == round.payer
        s == alertState[p]
    IN
    /\ round.at = "load"
    /\ \/ /\ level[p] = "ok"          \* markBalanceRecovered
          /\ alertState' = [alertState EXCEPT ![p].low = FALSE]
          /\ GoOn
       \/ /\ level[p] # "ok" /\ ~shouldSend(s)
          /\ alertState' = [alertState EXCEPT ![p].low = TRUE]
          /\ GoOn
       \/ /\ level[p] # "ok" /\ shouldSend(s)
          /\ alertState' = [alertState EXCEPT ![p] = [low |-> TRUE, last |-> 0]]
          /\ round' = [round EXCEPT !.at = "notify", !.seen = level[p]]
    /\ UNCHANGED <<level, balRows, unheard, moves, balanceFaults>>

\* Some transport takes the alert, and a transfer begins when the balance that
\* was read is below the second threshold too.
notifyAdmins ==
    /\ round.at = "notify"
    /\ unheard' = unheard \ {round.payer}
    /\ IF round.seen = "empty"
       THEN \E t \in Transfers :
              /\ transfer[t] = NoTransfer
              /\ transfer' = [transfer EXCEPT ![t].at = "check"]
       ELSE UNCHANGED transfer
    /\ GoOn
    /\ UNCHANGED <<level, alertState, bridgeRow, failures, cutOff, moves, balanceFaults>>

\* A load that throws, or an alert that every transport refused: the cycle ends,
\* and the fee payers behind are not looked at.
CycleFails ==
    /\ round # Rested /\ Fails(1)
    /\ round' = Rested
    /\ UNCHANGED <<level, alertState, balRows, unheard, moves>>

Reserved == Len(bridgeRow) + Cardinality({t \in Transfers : transfer[t].at = "bridge"})

\* getEvmUsdcBalance: with no surplus there is a failure alert and nothing else.
CheckSurplus(t) ==
    /\ transfer[t].at = "check"
    /\ \/ transfer' = [transfer EXCEPT ![t] = NoTransfer]
       \/ Reserved < MaxRows /\ transfer' = [transfer EXCEPT ![t].at = "bridge"]
    /\ UNCHANGED bridgeRow

initiateBridge(t) ==
    /\ transfer[t].at = "bridge"
    /\ bridgeRow' = Append(bridgeRow, "PENDING")
    /\ transfer' = [transfer EXCEPT ![t] = [at |-> "inform", row |-> Len(bridgeRow')]]

\* createNotification, then trackAndRedeem in the background.
trackAndRedeem(t) ==
    LET row == transfer[t].row IN
    \/ /\ transfer[t].at = "inform"
       /\ transfer' = [transfer EXCEPT ![t].at = "track"] /\ UNCHANGED bridgeRow
    \/ /\ transfer[t].at = "track"
       /\ bridgeRow' = [bridgeRow EXCEPT ![row] = "VAA_READY"]
       /\ transfer' = [transfer EXCEPT ![t].at = "redeem"]
    \/ /\ transfer[t].at = "redeem"
       /\ bridgeRow' = [bridgeRow EXCEPT ![row] = "COMPLETED"]
       /\ transfer' = [transfer EXCEPT ![t] = NoTransfer]

TransferStep(t) ==
    /\ CheckSurplus(t) \/ initiateBridge(t) \/ trackAndRedeem(t)
    /\ UNCHANGED <<level, alertState, round, failures, unheard, cutOff, moves, balanceFaults>>

\* What a failure alert of the transfer is about: the row it has, or may have, made.
FailedRow(t) ==
    IF transfer[t].at = "bridge" THEN {Len(bridgeRow) + 1} ELSE {transfer[t].row} \ {0}

\* A call throws, and a write of the database may have been made all the same.  An
\* alert reports the failure, and the row is not looked at again.
TransferFails(t) ==
    /\ transfer[t] # NoTransfer /\ Fails(1)
    /\ \/ UNCHANGED bridgeRow
       \/ transfer[t].at = "bridge" /\ bridgeRow' = Append(bridgeRow, "PENDING")
       \/ /\ transfer[t].at \in {"track", "redeem"}
          /\ bridgeRow' = [bridgeRow EXCEPT ![transfer[t].row] =
               IF transfer[t].at = "track" THEN "VAA_READY" ELSE "COMPLETED"]
    /\ transfer' = [transfer EXCEPT ![t] = NoTransfer]
    /\ failures' = failures \cup FailedRow(t)
    /\ UNCHANGED <<level, alertState, round, unheard, cutOff, moves>>

\* A new process remembers no alert and no transfer.  The server also ends when
\* the notification of a failed transfer throws, which nothing catches.
BalRestart ==
    /\ Fails(1)
    /\ alertState' = [p \in Payers |-> [low |-> FALSE, last |-> NeverAlerted]]
    /\ round' = Rested /\ transfer' = [t \in Transfers |-> NoTransfer]
    /\ cutOff' = cutOff \cup ({transfer[t].row : t \in Transfers} \ {0})
    /\ UNCHANGED <<level, bridgeRow, unheard, failures, moves>>

\* A balance falls, is spent further, or is topped up.
BalanceMoves(p) ==
    /\ moves < MaxMoves /\ moves' = moves + 1
    /\ level' \in {[level EXCEPT ![p] = l] : l \in {"ok", "low", "empty"} \ {level[p]}}
    /\ unheard' = CASE level'[p] = "ok" -> unheard \ {p}
                    [] level[p] = "ok" -> unheard \cup {p}
                    [] OTHER -> unheard
    /\ UNCHANGED <<alertState, round, balRows, balanceFaults>>

BalTick ==
    /\ alertState' = [p \in Payers |->
         [alertState[p] EXCEPT !.last = IF @ \in 0 .. Cooldown - 1 THEN @ + 1 ELSE @]]
    /\ UNCHANGED <<level, round, balRows, unheard, moves, balanceFaults>>

MonitorCycle == checkBalances \/ LoadAccount \/ notifyAdmins

BalNext ==
    \/ MonitorCycle \/ CycleFails \/ BalRestart \/ BalTick
    \/ \E t \in Transfers : TransferStep(t) \/ TransferFails(t)
    \/ \E p \in Payers : BalanceMoves(p)

BalSpec == BalInit /\ [][BalNext]_balVars
BalFairSpec == /\ BalSpec /\ WF_balVars(MonitorCycle) /\ WF_balVars(BalTick)
               /\ \A t \in Transfers : WF_balVars(TransferStep(t))
-----------------------------------------------------------------------------
BalTypeOK ==
    /\ level \in [Payers -> {"ok", "low", "empty"}]
    /\ alertState \in [Payers -> [low : BOOLEAN, last : NeverAlerted .. Cooldown]]
    /\ bridgeRow \in Seq({"PENDING", "VAA_READY", "COMPLETED"}) /\ Len(bridgeRow) <= MaxRows
    /\ unheard \subseteq Payers /\ balanceFaults \in 0 .. MaxBalanceFaults

\* A transfer whose row is not COMPLETED is still being made, was the subject of a
\* failure alert, or was cut off by a restart, after which nothing takes it up.
TransfersAccounted ==
    \A r \in 1 .. Len(bridgeRow) :
       \/ bridgeRow[r] = "COMPLETED" \/ r \in failures \cup cutOff
       \/ \E t \in Transfers : transfer[t].row = r

\* The balance alerts are sound: types, and TransfersAccounted.
BalInv == BalTypeOK /\ TransfersAccounted

\* A fee payer that stays low is alerted in the end, although it counts as alerted
\* before the alert is sent, the cooldown holds alerts back, and a failing call
\* leaves out the fee payers behind it.
LowIsAlerted == unheard # {} ~> unheard = {}
=============================================================================

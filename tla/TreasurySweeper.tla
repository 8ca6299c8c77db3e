--------------------------- MODULE TreasurySweeper --------------------------
(***************************************************************************)
(* The nightly sweep of a fee payer's excess balance to the cold wallet    *)
(* (server/src/tasks/sweeper.ts): the balance is loaded, the account is    *)
(* loaded again for its sequence number, and a payment of the excess is    *)
(* submitted.  Every process runs the same schedule and nothing keeps two  *)
(* sweeps apart; a payment has no time bound, so one whose submission      *)
(* failed may be applied at any later time.  The network is external: it   *)
(* takes the fee of a transaction with the next sequence number, which the *)
(* account pays on top of the excess, and makes the payment if the rest    *)
(* covers it.                                                              *)
(***************************************************************************)
EXTENDS Integers, FiniteSets

CONSTANTS Sweeps,            \* sweeps of the account, by one or several processes
          retentionLimit, InitialFunds,
          BASE_FEE,          \* what a sweep's own transaction costs
          MaxFees, MaxDeposits       \* bounds: fee-bumps paid, deposits received

ASSUME SweeperAssumption ==
    /\ IsFiniteSet(Sweeps)
    /\ {retentionLimit, InitialFunds, BASE_FEE, MaxFees, MaxDeposits} \subseteq Nat

VARIABLES funds, seqNum,     \* the account on the ledger
          sweep,             \* sweep[s]: [at, excess, seq]
          adrift,            \* payments whose submission failed: [excess, seq]
          feesPaid, deposits,
          overlapped         \* history: a sweep began before an earlier one was settled

sweepVars == <<funds, seqNum, sweep, adrift, feesPaid, deposits, overlapped>>

SweepInit ==
    /\ funds = InitialFunds /\ seqNum = 0 /\ feesPaid = 0 /\ deposits = 0
    /\ sweep = [s \in Sweeps |-> [at |-> "due", excess |-> 0, seq |-> 0]]
    /\ adrift = {} /\ overlapped = FALSE

\* Mutant: the retention limit is only the trigger.
WholeBalance(amount) == IF amount > retentionLimit THEN amount ELSE 0

\* What lies above the retention limit, if anything.
Excess(amount) == IF amount > retentionLimit THEN amount - retentionLimit ELSE 0

Busy(s) == sweep[s].at \in {"sequence", "submit"}
Live == {p \in adrift : p.seq = seqNum + 1}

sweepAccount(s) ==
    /\ sweep[s].at = "due"
    /\ sweep' = [sweep EXCEPT ![s].at = IF Excess(funds) > 0 THEN "sequence" ELSE "done",
                              ![s].excess = Excess(funds)]
    /\ overlapped' = (overlapped \/ Live # {} \/ \E r \in Sweeps : Busy(r))
    /\ UNCHANGED <<funds, seqNum, adrift, feesPaid, deposits>>

\* submitSweep loads the account once more, for the sequence number alone.
loadSequence(s) ==
    /\ sweep[s].at = "sequence"
    /\ sweep' = [sweep EXCEPT ![s].at = "submit", ![s].seq = seqNum + 1]
    /\ UNCHANGED <<funds, seqNum, adrift, feesPaid, deposits, overlapped>>

Applies(p) == p.seq = seqNum + 1 /\ BASE_FEE <= funds

\* What is left after the fee, and after the payment unless it fails.
Applied(p) ==
    /\ seqNum' = p.seq
    /\ funds' = IF p.excess <= funds - BASE_FEE THEN funds - BASE_FEE - p.excess
                ELSE funds - BASE_FEE

\* Applied and answered, or an error: refused, or answered too late.
submitSweep(s) ==
    /\ sweep[s].at = "submit"
    /\ sweep' = [sweep EXCEPT ![s].at = "done"]
    /\ \/ Applies(sweep[s]) /\ Applied(sweep[s]) /\ UNCHANGED adrift
       \/ /\ adrift' = adrift \cup {[excess |-> sweep[s].excess, seq |-> sweep[s].seq]}
          /\ UNCHANGED <<funds, seqNum>>
    /\ UNCHANGED <<feesPaid, deposits, overlapped>>

\* External: a payment adrift is applied, a fee-bump costs its fee, a deposit.
AppliesLate(p) ==
    /\ Applies(p) /\ Applied(p)
    /\ UNCHANGED <<sweep, adrift, feesPaid, deposits, overlapped>>

PaysFee ==
    /\ feesPaid < MaxFees /\ funds > 0
    /\ feesPaid' = feesPaid + 1 /\ funds' = funds - 1
    /\ UNCHANGED <<seqNum, sweep, adrift, deposits, overlapped>>

Deposit ==
    /\ deposits < MaxDeposits
    /\ deposits' = deposits + 1 /\ funds' = funds + 1
    /\ UNCHANGED <<seqNum, sweep, adrift, feesPaid, overlapped>>

SweepNext ==
    \/ \E s \in Sweeps : sweepAccount(s) \/ loadSequence(s) \/ submitSweep(s)
    \/ \E p \in adrift : AppliesLate(p)
    \/ PaysFee \/ Deposit

SweepSpec == SweepInit /\ [][SweepNext]_sweepVars
-----------------------------------------------------------------------------
SweepTypeOK ==
    /\ funds \in Nat /\ seqNum \in 0 .. Cardinality(Sweeps) /\ overlapped \in BOOLEAN
    /\ feesPaid \in 0 .. MaxFees /\ deposits \in 0 .. MaxDeposits

\* Sweeps that do not overlap, and of which none is adrift, leave the account its
\* retention limit, less the fee of one sweep, which nothing sets aside (lines 179
\* to 182), and less what fee-bumps have cost: however many sweeps there are, and
\* whatever is paid and received between their two loads.
RetentionKept ==
    ~overlapped /\ InitialFunds >= retentionLimit =>
      funds + feesPaid + BASE_FEE >= retentionLimit

\* The account's state has its type and a sweep leaves what must stay.
SweepInv == SweepTypeOK /\ RetentionKept
=============================================================================

------------------------- MODULE FlashLoanProvider -------------------------
(***************************************************************************)
(* The flash loan pool (flash-loan-provider/src/lib.rs).  A loan is paid   *)
(* out, pulled back with its fee from an allowance of the borrower, and    *)
(* the fee passed on to the admin, in one call; the borrower's callback    *)
(* that the comment lists as step 3 is not invoked by the code, so a loan  *)
(* state of Active is never seen by another call.                          *)
(***************************************************************************)
EXTENDS SorobanLedger

CONSTANTS FlashPool,
          FeeBps,        \* the fees that are tried
          Allowances     \* the allowances that are approved

ASSUME FlashAssumption ==
    /\ FlashPool \in Funded
    /\ FeeBps \subseteq Nat /\ Allowances \subseteq Nat

VARIABLES flashConfig,   \* NoConfig, or the token, the admin and the fee
          allowance      \* allowance[a]: what the pool may pull from a of that token

flashVars == <<ledgerVars, flashConfig, allowance>>

NoConfig == [admin |-> "none"]

FlashInit ==
    /\ LedgerInit
    /\ flashConfig = NoConfig
    /\ allowance = [a \in Accounts |-> 0]

flash_initialize(admin, token, bps) ==
    /\ flashConfig = NoConfig
    /\ bps <= 10000
    /\ flashConfig' = [admin |-> admin, token |-> token, fee_bps |-> bps]
    /\ UNCHANGED <<ledgerVars, allowance>>

set_fee(bps) ==
    /\ flashConfig # NoConfig
    /\ bps <= 10000
    /\ flashConfig' = [flashConfig EXCEPT !.fee_bps = bps]
    /\ UNCHANGED <<ledgerVars, allowance>>

\* The token contract's approve, called by a borrower beforehand.
approve(a, amount) ==
    /\ allowance[a] # amount
    /\ allowance' = [allowance EXCEPT ![a] = amount]
    /\ UNCHANGED <<ledgerVars, flashConfig>>

LoanFee(amount) == (amount * flashConfig.fee_bps) \div 10000

compute_due(amount) == amount + LoanFee(amount)

flash_loan(borrower, amount) ==
    LET token == flashConfig.token
        lent == Paid(balance, token, FlashPool, borrower, amount)
        repaid == Paid(lent, token, borrower, FlashPool, compute_due(amount))
    IN
    /\ flashConfig # NoConfig
    /\ amount > 0
    /\ CanPay(balance, token, FlashPool, amount)
    /\ allowance[borrower] >= compute_due(amount)
    /\ CanPay(lent, token, borrower, compute_due(amount))
    /\ balance' = Paid(repaid, token, FlashPool, flashConfig.admin, LoanFee(amount))
    /\ allowance' = [allowance EXCEPT ![borrower] = @ - compute_due(amount)]
    /\ UNCHANGED <<now, flashConfig>>

FlashNext ==
    \/ \E a \in Accounts, t \in Tokens, bps \in FeeBps : flash_initialize(a, t, bps)
    \/ \E bps \in FeeBps : set_fee(bps)
    \/ \E a \in Accounts, x \in Allowances : approve(a, x)
    \/ \E a \in Accounts, x \in Amounts : flash_loan(a, x)

FlashSpec == FlashInit /\ [][FlashNext]_flashVars
-----------------------------------------------------------------------------
FlashTypeOK ==
    /\ flashConfig \in [admin : Accounts, token : Tokens, fee_bps : 0 .. 10000] \cup {NoConfig}
    /\ allowance \in [Accounts -> Nat]

\* No sequence of loans, fee changes and stale allowances moves the pool's
\* liquidity: what a loan takes out it brings back, and the fee passes through
\* (flash_loan, lines 121 to 143).
PoolKeepsLiquidity == \A t \in Tokens : balance[t][FlashPool] = Supply
=============================================================================

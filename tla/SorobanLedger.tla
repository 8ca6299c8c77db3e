--------------------------- MODULE SorobanLedger ---------------------------
(***************************************************************************)
(* What the Soroban contracts of server/src/contracts/soroban see of the   *)
(* network: the ledger's timestamp and the balances that the token         *)
(* contracts keep.  Both belong to the host and are external to the        *)
(* repository.  A contract call is atomic: a panic anywhere in it, a token *)
(* transfer that cannot be paid included, leaves no trace, so every call   *)
(* is one action whose guard is that nothing in it panics.                 *)
(*                                                                         *)
(* Amounts are those of Stellar assets, which fit in 63 bits.  Every       *)
(* product the contracts form of them then fits in their i128, so i128 is  *)
(* modelled by the integers.                                               *)
(***************************************************************************)
EXTENDS Integers, FiniteSets, FiniteSetsExt

CONSTANTS Accounts,      \* the users' addresses
          Contracts,     \* the addresses of contracts and of liquidity pools
          Tokens,
          Amounts,       \* the amounts that calls are tried with
          Supply,        \* what every funded address holds of every token
          Funded,        \* the contracts that are funded by a plain transfer
          MaxTime        \* bound: ledgers close up to this time

ASSUME LedgerAssumption ==
    /\ Amounts \subseteq Int /\ Supply \in Nat /\ MaxTime \in Nat
    /\ Accounts \cap Contracts = {} /\ Funded \subseteq Contracts
    /\ IsFiniteSet(Accounts) /\ IsFiniteSet(Tokens)

VARIABLES now, balance   \* balance[t][a]

ledgerVars == <<now, balance>>

LedgerInit ==
    /\ now = 0
    /\ balance = [t \in Tokens |-> [a \in Accounts \cup Contracts |->
                      IF a \in Accounts \cup Funded THEN Supply ELSE 0]]

CloseLedger == now < MaxTime /\ now' = now + 1 /\ UNCHANGED balance

\* The token contract's transfer: it panics on a negative amount and on an
\* amount the payer does not have.
CanPay(b, t, from, amount) == amount >= 0 /\ b[t][from] >= amount
Paid(b, t, from, to, amount) ==
    LET debited == [b[t] EXCEPT ![from] = @ - amount]
    IN  [b EXCEPT ![t] = [debited EXCEPT ![to] = @ + amount]]

\* The sum of what f says of the elements of S, in natural numbers: counted, so that
\* it needs no order of S.
Total(f, S) == Cardinality(UNION {{x} \X (1 .. f[x]) : x \in S})

Abs(i) == IF i < 0 THEN -i ELSE i

\* Rust's integer division, which rounds towards zero (and panics on zero).
Quot(a, b) == LET q == Abs(a) \div Abs(b)
              IN  IF (a < 0) = (b < 0) THEN q ELSE -q
=============================================================================

--------------------------- MODULE EscrowFactory ---------------------------
(***************************************************************************)
(* Two-party token swaps: the factory (escrow-factory/src/lib.rs) and the  *)
(* escrow contracts it deploys (escrow/src/lib.rs), one per salt, each     *)
(* with an address and so a balance of its own.  deploy_escrow deploys,    *)
(* funds and initializes an escrow in one call; an escrow's own initialize *)
(* refuses every later call, so it is part of that action.                 *)
(***************************************************************************)
EXTENDS SorobanLedger

CONSTANT Escrows          \* the addresses the salts give

ASSUME EscrowAssumption == Escrows \subseteq Contracts \ Funded

VARIABLES wasmHashSet,    \* the factory is initialized
          escrow          \* escrow[e]: config and state

escrowVars == <<ledgerVars, wasmHashSet, escrow>>

NotDeployed == [state |-> "none"]
EscrowConfig == [state : {"Active", "Completed", "Refunded"},
                 initiator : Accounts, counterparty : Accounts,
                 tokenA : Tokens, amountA : Int, tokenB : Tokens, amountB : Int]

EscrowInit ==
    /\ LedgerInit
    /\ wasmHashSet = FALSE
    /\ escrow = [e \in Escrows |-> NotDeployed]

factory_initialize ==
    /\ ~wasmHashSet
    /\ wasmHashSet' = TRUE
    /\ UNCHANGED <<ledgerVars, escrow>>

deploy_escrow(e, config) ==
    /\ wasmHashSet
    /\ escrow[e] = NotDeployed
    /\ CanPay(balance, config.tokenA, config.initiator, config.amountA)
    /\ balance' = Paid(balance, config.tokenA, config.initiator, e, config.amountA)
    /\ escrow' = [escrow EXCEPT ![e] = config]
    /\ UNCHANGED <<now, wasmHashSet>>

complete(e) ==
    LET c == escrow[e]
        afterB == Paid(balance, c.tokenB, c.counterparty, c.initiator, c.amountB)
    IN
    /\ c.state = "Active"
    /\ CanPay(balance, c.tokenB, c.counterparty, c.amountB)
    /\ CanPay(afterB, c.tokenA, e, c.amountA)
    /\ balance' = Paid(afterB, c.tokenA, e, c.counterparty, c.amountA)
    /\ escrow' = [escrow EXCEPT ![e].state = "Completed"]
    /\ UNCHANGED <<now, wasmHashSet>>

refund(e) ==
    LET c == escrow[e] IN
    /\ c.state = "Active"
    /\ CanPay(balance, c.tokenA, e, c.amountA)
    /\ balance' = Paid(balance, c.tokenA, e, c.initiator, c.amountA)
    /\ escrow' = [escrow EXCEPT ![e].state = "Refunded"]
    /\ UNCHANGED <<now, wasmHashSet>>

EscrowNext ==
    \/ factory_initialize
    \/ \E e \in Escrows, i, c \in Accounts, ta, tb \in Tokens, a, b \in Amounts :
         deploy_escrow(e, [state |-> "Active", initiator |-> i, counterparty |-> c,
                           tokenA |-> ta, amountA |-> a, tokenB |-> tb, amountB |-> b])
    \/ \E e \in Escrows : complete(e) \/ refund(e)

EscrowSpec == EscrowInit /\ [][EscrowNext]_escrowVars
-----------------------------------------------------------------------------
EscrowTypeOK ==
    /\ now \in Nat
    /\ balance \in [Tokens -> [Accounts \cup Contracts -> Int]]
    /\ wasmHashSet \in BOOLEAN
    /\ escrow \in [Escrows -> EscrowConfig \cup {NotDeployed}]

\* An active escrow holds exactly the amount its initiator put up, and every
\* other escrow holds nothing: a deployed escrow is always funded, pays out
\* exactly once, and is never paid from another one's deposit, whoever calls
\* complete and refund and in which order (deploy_escrow, complete, refund).
EscrowHoldsDeposit ==
    \A e \in Escrows, t \in Tokens :
      balance[t][e] = IF escrow[e].state = "Active" /\ t = escrow[e].tokenA
                      THEN escrow[e].amountA ELSE 0
=============================================================================

------------------------- MODULE MultiAssetStaking -------------------------
(***************************************************************************)
(* The staking contract (multi-asset-staking/src/lib.rs).  A stake earns   *)
(* credits by the time it is held; they are settled, rounded down, at      *)
(* every call on the stake.  get_credits is a placeholder and changes      *)
(* nothing.                                                                *)
(***************************************************************************)
EXTENDS SorobanLedger

CONSTANTS StakingContract,
          SecondsPerCredit,   \* 3600 in the code
          MaxStake,           \* bound: the stake of one user in one token
          MaxPositions        \* bound: users and tokens with a stake

ASSUME StakingAssumption ==
    /\ StakingContract \in Contracts \ Funded
    /\ SecondsPerCredit \in Nat \ {0}
    /\ MaxStake \in Nat /\ MaxPositions \in Nat

VARIABLES stake,    \* stake[u][t], NoStake when the record does not exist
          held      \* history: held[u][t], token-seconds the stake was held

stakingVars == <<ledgerVars, stake, held>>

NoStake == [amount |-> -1, last |-> 0, credits |-> 0]

StakingInit ==
    /\ LedgerInit
    /\ stake = [u \in Accounts |-> [t \in Tokens |-> NoStake]]
    /\ held = [u \in Accounts |-> [t \in Tokens |-> 0]]

calculate_credits(info) ==
    info.credits + (info.amount * (now - info.last)) \div SecondsPerCredit

StakeInfo(u, t) ==
    IF stake[u][t] = NoStake THEN [amount |-> 0, last |-> now, credits |-> 0]
    ELSE stake[u][t]

stake_tokens(u, t, amount) ==
    LET info == StakeInfo(u, t)
        staked == {p \in Accounts \X Tokens : stake[p[1]][p[2]] # NoStake}
    IN
    /\ Cardinality(staked \cup {<<u, t>>}) <= MaxPositions
    /\ info.amount + amount <= MaxStake
    /\ CanPay(balance, t, u, amount)
    /\ balance' = Paid(balance, t, u, StakingContract, amount)
    /\ stake' = [stake EXCEPT ![u][t] =
         [amount |-> info.amount + amount, last |-> now,
          credits |-> calculate_credits(info)]]
    /\ UNCHANGED <<now, held>>

unstake(u, t, amount) ==
    LET info == [amount |-> stake[u][t].amount - amount, last |-> now,
                 credits |-> calculate_credits(stake[u][t])]
    IN
    /\ stake[u][t] # NoStake
    /\ stake[u][t].amount >= amount
    /\ CanPay(balance, t, StakingContract, amount)
    /\ balance' = Paid(balance, t, StakingContract, u, amount)
    /\ stake' = [stake EXCEPT ![u][t] =
         IF info.amount = 0 /\ info.credits = 0 THEN NoStake ELSE info]
    /\ UNCHANGED <<now, held>>

\* Time passes, and every stake is held one second longer.
StakingTick ==
    /\ CloseLedger
    /\ held' = [u \in Accounts |-> [t \in Tokens |->
                  held[u][t] + Max({0, stake[u][t].amount})]]
    /\ UNCHANGED stake

StakingNext ==
    \/ StakingTick
    \/ \E u \in Accounts, t \in Tokens, a \in Amounts :
         stake_tokens(u, t, a) \/ unstake(u, t, a)

StakingSpec == StakingInit /\ [][StakingNext]_stakingVars
-----------------------------------------------------------------------------
StakingTypeOK ==
    /\ stake \in [Accounts -> [Tokens -> [amount : -1 .. MaxStake, last : 0 .. MaxTime,
                                          credits : Nat]]]
    /\ held \in [Accounts -> [Tokens -> Nat]]

\* The contract holds of every token exactly the stakes in it, so every stake
\* can be paid back (stake, unstake).
StakesBacked ==
    \A t \in Tokens :
      balance[t][StakingContract] =
        Total([u \in Accounts |-> Max({0, stake[u][t].amount})], Accounts)

\* No second of a stake earns twice: however the settlements fall, the credits
\* never exceed those of the token-seconds held (calculate_credits and the
\* last_update_ts that stake and unstake store).
CreditsWithinAccrual ==
    \A u \in Accounts, t \in Tokens :
      stake[u][t].credits * SecondsPerCredit <= held[u][t]

\* Credits, once settled, are never taken away, not by unstaking everything
\* and staking again either (the two conditions of remove in unstake).
CreditsNeverLost ==
    [][ \A u \in Accounts, t \in Tokens : stake'[u][t].credits >= stake[u][t].credits ]_stakingVars
=============================================================================

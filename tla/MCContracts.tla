---------------------------- MODULE MCContracts ----------------------------
(***************************************************************************)
(* The Soroban contracts for TLC, on one ledger.  The contracts do not     *)
(* call each other and have addresses of their own, so a behaviour picks   *)
(* one of them and the state space is the sum of theirs.                   *)
(***************************************************************************)
EXTENDS StreamingPayments, YieldAggregatorVault, MultiAssetStaking, EscrowFactory,
        FlashLoanProvider, RoyaltySplitter, GovernanceVoting, CrossChainBridgeRelay,
        IdentityRegistryDID, TLC

\* The addresses whose balances the calls of a contract move, besides the users'.
ContractNames == {"stream", "vault", "staking", "escrow", "flash", "royalty", "gov", "bridge",
                  "did"}
OwnAddresses(c) ==
    CASE c = "stream"  -> {StreamContract}
      [] c = "vault"   -> {VaultContract, YieldPool}
      [] c = "staking" -> {StakingContract}
      [] c = "escrow"  -> Escrows
      [] c = "flash"   -> {FlashPool}
      [] c = "royalty" -> {SplitterContract}
      [] c = "bridge"  -> {BridgeContract}
      [] OTHER         -> {}

ASSUME AddressAssumption ==
    \A c, d \in ContractNames : c # d => OwnAddresses(c) \cap OwnAddresses(d) = {}

VARIABLE deployed

contractsVars == <<streamVars, vaultVars, stakingVars, escrowVars, flashVars, royaltyVars,
             govVars, bridgeVars, didVars, deployed>>

ContractsInit ==
    /\ StreamInit /\ VaultInit /\ StakingInit /\ EscrowInit /\ FlashInit
    /\ RoyaltyInit /\ GovInit /\ BridgeInit /\ DIDInit
    /\ deployed \in ContractNames

\* Everything that is not the state of contract c.
Rest(c) ==
    /\ c # "stream"  => UNCHANGED streams
    /\ c # "vault"   => UNCHANGED <<vaultAdmin, totalShares, totalAssets, userShares, orphaned,
                                    movedOut>>
    /\ c # "staking" => UNCHANGED <<stake, held>>
    /\ c # "escrow"  => UNCHANGED <<wasmHashSet, escrow>>
    /\ c # "flash"   => UNCHANGED <<flashConfig, allowance>>
    /\ c # "royalty" => UNCHANGED recipients
    /\ c # "gov"     => UNCHANGED <<proposals, voted>>
    /\ c # "bridge"  => UNCHANGED <<validator, processed, signatures, relayed>>
    /\ c # "did"     => UNCHANGED <<identityToDID, didToIdentity>>
    /\ UNCHANGED deployed

ContractsNext ==
    \/ deployed = "stream"  /\ StreamNext  /\ Rest("stream")
    \/ deployed = "vault"   /\ VaultNext   /\ Rest("vault")
    \/ deployed = "staking" /\ StakingNext /\ Rest("staking")
    \/ deployed = "escrow"  /\ EscrowNext  /\ Rest("escrow")
    \/ deployed = "flash"   /\ FlashNext   /\ Rest("flash")
    \/ deployed = "royalty" /\ RoyaltyNext /\ Rest("royalty")
    \/ deployed = "gov"     /\ GovNext     /\ Rest("gov")
    \/ deployed = "bridge"  /\ BridgeNext  /\ Rest("bridge")
    \/ deployed = "did"     /\ DIDNext     /\ Rest("did")

ContractsSpec == ContractsInit /\ [][ContractsNext]_contractsVars

\* Every contract's storage has its type.
ContractsTypeOK ==
    /\ StreamTypeOK /\ VaultTypeOK /\ StakingTypeOK /\ EscrowTypeOK /\ FlashTypeOK
    /\ GovTypeOK /\ BridgeTypeOK /\ DIDTypeOK

\* The contracts' books balance: open streams, stakes and escrow deposits are
\* covered by the contract's balance after any order of calls, the vault's assets
\* are in the vault or were moved out of it by its admin (AssetsBacked), a flash
\* loan never costs the pool anything, and the splitter passes on all it gets.
ContractsSolvent ==
    /\ ContractsTypeOK
    /\ StreamsSolvent /\ AssetsBacked /\ StakesBacked /\ EscrowHoldsDeposit
    /\ PoolKeepsLiquidity /\ SplitterKeepsNothing

\* Integer division favours nobody: withdrawals stay within the schedule of the
\* stream, the vault's shares add up and its divisions never round, credits stay
\* within what accrued, and the dust of a split is less than a unit per recipient.
EntitlementsExact ==
    /\ WithdrawnWithinSchedule /\ SharesAddUp /\ ShareWorthOneAsset
    /\ CreditsWithinAccrual /\ DustBelowRecipients

\* What may be done once is recorded once: a tally counts each voter once, a
\* transfer id pays once, and an identity and its DID name each other.
RecordedOnce == TallyMatchesVoters /\ PaidOncePerTransferId /\ MapsInverse

\* What is final stays: earned credits, the outcome of a closed vote, and the
\* revocation of a DID.
RecordsFinal == CreditsNeverLost /\ OutcomeFinal /\ RevocationFinal

\* A refused amount, the amount that moves nothing, and two that do not divide
\* each other evenly.
MCAmounts == {-1, 0, 1, 3}

\* Shares that do not divide evenly, a recipient with nothing, and lists that
\* initialize refuses because they do not add up.
MCRecipientLists ==
    LET R(bps) == [address : Accounts, bps : bps] IN
    {<<x>> : x \in R({10000})} \cup (R({3333, 6667, 0}) \X R({3333, 6667, 10000})) \cup
    (R({3333}) \X R({3333}) \X R({3334, 3333}))

Symmetry == Permutations(Accounts) \cup Permutations(Tokens)
=============================================================================

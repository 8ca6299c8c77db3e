----------------------- MODULE CrossChainBridgeRelay -----------------------
(***************************************************************************)
(* The bridge relay contract (cross-chain-bridge-relay/src/lib.rs): pays   *)
(* out a transfer that the validator signed, once per transfer id.  A      *)
(* signature is modelled by the message and the key it was made with; the  *)
(* message does not contain the source chain.  Signing happens outside the *)
(* repository: any validator key may sign any message.                     *)
(***************************************************************************)
EXTENDS SorobanLedger

CONSTANTS BridgeContract, ValidatorKeys, TransferIds,
          MaxSignatures   \* bound: signatures made

ASSUME BridgeAssumption == BridgeContract \in Funded /\ MaxSignatures \in Nat

NoValidator == "none"
Message == [recipient : Accounts, token : Tokens, amount : Amounts, id : TransferIds]

VARIABLES validator,   \* the key in the contract, NoValidator before initialize
          processed,   \* the ids with a Processed key
          signatures,  \* the signatures that exist: [message, key]
          relayed      \* history: the messages that were paid out

bridgeVars == <<ledgerVars, validator, processed, signatures, relayed>>

BridgeInit ==
    /\ LedgerInit
    /\ validator = NoValidator
    /\ processed = {} /\ signatures = {} /\ relayed = {}

bridge_initialize(key) ==
    /\ validator = NoValidator
    /\ validator' = key
    /\ UNCHANGED <<ledgerVars, processed, signatures, relayed>>

update_validator(key) ==
    /\ validator \notin {NoValidator, key}
    /\ validator' = key
    /\ UNCHANGED <<ledgerVars, processed, signatures, relayed>>

\* A validator observes a lock on another chain and signs its transfer.  The
\* chains number their transfers each on its own, so two messages may have
\* the same id.
Sign(m, key) ==
    /\ [message |-> m, key |-> key] \notin signatures
    /\ Cardinality(signatures) < MaxSignatures
    /\ signatures' = signatures \cup {[message |-> m, key |-> key]}
    /\ UNCHANGED <<ledgerVars, validator, processed, relayed>>

\* Mutant: a transfer is not marked as processed.
ProcessedForgets(id) == processed

ProcessedWith(id) == processed \cup {id}

relay_transfer(m) ==
    /\ m.id \notin processed
    /\ [message |-> m, key |-> validator] \in signatures
    /\ CanPay(balance, m.token, BridgeContract, m.amount)
    /\ processed' = ProcessedWith(m.id)
    /\ balance' = Paid(balance, m.token, BridgeContract, m.recipient, m.amount)
    /\ relayed' = relayed \cup {m}
    /\ UNCHANGED <<now, validator, signatures>>

BridgeNext ==
    \/ \E k \in ValidatorKeys : bridge_initialize(k) \/ update_validator(k)
    \/ \E m \in Message, k \in ValidatorKeys : Sign(m, k)
    \/ \E s \in signatures : relay_transfer(s.message)

BridgeSpec == BridgeInit /\ [][BridgeNext]_bridgeVars
-----------------------------------------------------------------------------
BridgeTypeOK ==
    /\ validator \in ValidatorKeys \cup {NoValidator}
    /\ processed \subseteq TransferIds /\ relayed \subseteq Message
    /\ signatures \subseteq [message : Message, key : ValidatorKeys]

\* What left the bridge is exactly one signed message per processed id: a
\* message relayed twice, under an old and a new validator's signature too, or
\* a second message with the id, is never paid (relay_transfer).
PaidOncePerTransferId ==
    /\ \A t \in Tokens :
         balance[t][BridgeContract] =
           Supply - Total([m \in relayed |-> m.amount], {m \in relayed : m.token = t})
    /\ \A m, n \in relayed : m.id = n.id => m = n
=============================================================================

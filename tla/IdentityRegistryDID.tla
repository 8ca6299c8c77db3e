------------------------ MODULE IdentityRegistryDID ------------------------
(***************************************************************************)
(* The DID registry contract (identity-registry-did/src/lib.rs), with its  *)
(* two maps, identity to DID document and DID to identity.  A sponsored    *)
(* registration differs from a direct one in who signs what; the signature *)
(* is checked against the key it brings along, so it never fails for a     *)
(* caller that holds some key, and the two register alike.                 *)
(***************************************************************************)
EXTENDS SorobanLedger

CONSTANTS DIDs, Pubkeys

ASSUME DIDAssumption == "none" \notin DIDs \cup Accounts

VARIABLES identityToDID,   \* per account, the document or NoDocument
          didToIdentity    \* per DID, the account or NoIdentity

didVars == <<ledgerVars, identityToDID, didToIdentity>>

NoDocument == [did |-> "none", active |-> FALSE]
NoIdentity == "none"
DIDInfo == [did : DIDs, identity_pubkey : Pubkeys, active : BOOLEAN, updated_at : Nat]

DIDInit ==
    /\ LedgerInit
    /\ identityToDID = [a \in Accounts |-> NoDocument]
    /\ didToIdentity = [d \in DIDs |-> NoIdentity]

Available(identity, did) ==
    identityToDID[identity] = NoDocument /\ didToIdentity[did] = NoIdentity

Register(identity, did, pubkey) ==
    /\ Available(identity, did)
    /\ identityToDID' = [identityToDID EXCEPT ![identity] =
         [did |-> did, identity_pubkey |-> pubkey, active |-> TRUE, updated_at |-> now]]
    /\ didToIdentity' = [didToIdentity EXCEPT ![did] = identity]
    /\ UNCHANGED ledgerVars

register_did(identity, did, pubkey) == Register(identity, did, pubkey)
register_did_sponsored(identity, did, pubkey) == Register(identity, did, pubkey)

revoke_did(identity) ==
    /\ identityToDID[identity].active
    /\ identityToDID' = [identityToDID EXCEPT ![identity].active = FALSE,
                                              ![identity].updated_at = now]
    /\ UNCHANGED <<ledgerVars, didToIdentity>>

DIDNext ==
    \/ CloseLedger /\ UNCHANGED <<identityToDID, didToIdentity>>
    \/ \E a \in Accounts, d \in DIDs, k \in Pubkeys :
         register_did(a, d, k) \/ register_did_sponsored(a, d, k)
    \/ \E a \in Accounts : revoke_did(a)

DIDSpec == DIDInit /\ [][DIDNext]_didVars
-----------------------------------------------------------------------------
DIDTypeOK ==
    /\ now \in Nat
    /\ identityToDID \in [Accounts -> DIDInfo \cup {NoDocument}]
    /\ didToIdentity \in [DIDs -> Accounts \cup {NoIdentity}]

\* The two maps are inverse to each other: resolve_by_did and resolve_did agree
\* for every DID, revoked ones included, so no two identities ever hold one DID
\* (register_did, register_did_sponsored, revoke_did).
MapsInverse ==
    \A a \in Accounts, d \in DIDs :
      (identityToDID[a].did = d) <=> (didToIdentity[d] = a)

\* A revocation is final: a revoked identity never becomes active again and its
\* DID stays its own (revoke_did and the first check of both registrations).
RevocationFinal ==
    [][ \A a \in Accounts :
          identityToDID[a] # NoDocument /\ ~identityToDID[a].active =>
            identityToDID'[a] = identityToDID[a] ]_didVars
=============================================================================

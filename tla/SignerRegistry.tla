--------------------------- MODULE SignerRegistry --------------------------
(***************************************************************************)
(* Signers managed from the admin UI (server/src/services/                 *)
(* signerRegistry.ts): a signer is a SignerSecret row, an entry of the     *)
(* signer pool and an entry of config.feePayerAccounts, written one after  *)
(* the other with awaits between.  Admin requests interleave; a database   *)
(* call may throw, and the process may restart, which leaves the rows and  *)
(* puts the pool and the accounts back to what the environment configures  *)
(* (nothing calls hydratePersistedSigners).                                *)
(***************************************************************************)
EXTENDS Integers, Sequences, FiniteSets, SequencesExt, Subsequences

CONSTANTS EnvSigners, DbSigners, RegAdmins,
          MaxRegFaults         \* bound: restarts and calls that throw

ASSUME RegistryAssumption ==
    /\ IsFiniteSet(EnvSigners) /\ EnvSigners \cap DbSigners = {} /\ MaxRegFaults \in Nat

VARIABLES secretRows,       \* public keys with a SignerSecret row
          poolKeys,         \* the accounts of the signer pool, in order
          payerKeys,        \* config.feePayerAccounts, in order
          regOp,            \* regOp[a]: the request of admin a
          regFaults,
          torn,             \* history: keys of requests that failed half way
          leftOut              \* history: keys whose rows outlived the last restart

regVars == <<secretRows, poolKeys, payerKeys, regOp, regFaults, torn, leftOut>>

NoOp == [at |-> "idle"]
Env == SetToSeq(EnvSigners)
In(k, s) == k \in Range(s)

RegInit ==
    /\ secretRows = {} /\ poolKeys = Env /\ payerKeys = Env
    /\ regOp = [a \in RegAdmins |-> NoOp] /\ regFaults = 0 /\ torn = {} /\ leftOut = {}

RegTo(a, st) == regOp' = [regOp EXCEPT ![a].at = st]
Ends(a) == regOp' = [regOp EXCEPT ![a] = NoOp]
RegFault == regFaults < MaxRegFaults /\ regFaults' = regFaults + 1

\* addSignerToRegistry: refused when the key is in use, before any await.
addSigner(a, k) ==
    /\ regOp[a] = NoOp /\ ~In(k, payerKeys)
    /\ regOp' = [regOp EXCEPT ![a] = [at |-> "find", key |-> k]]
    /\ UNCHANGED <<secretRows, poolKeys, payerKeys, regFaults, torn, leftOut>>

findUnique(a) ==
    /\ regOp[a].at = "find"
    /\ IF regOp[a].key \in secretRows THEN Ends(a) ELSE RegTo(a, "create")
    /\ UNCHANGED <<secretRows, poolKeys, payerKeys, regFaults, torn, leftOut>>

\* Mutant: create replaces an existing row.
CreateUpserts(a) == TRUE

\* The public key is unique in SignerSecret.
CreateUnique(a) == regOp[a].key \notin secretRows

createRow(a) ==
    /\ regOp[a].at = "create"
    /\ IF CreateUnique(a)
       THEN secretRows' = secretRows \cup {regOp[a].key} /\ RegTo(a, "pool_add")
       ELSE UNCHANGED secretRows /\ Ends(a)
    /\ UNCHANGED <<poolKeys, payerKeys, regFaults, torn, leftOut>>

PoolLacks(k) == ~In(k, poolKeys)

\* addAccount under the pool's mutex, then the push: no I/O is awaited between
\* the two, so no other request's database answer is handled between them.
poolAdd(a) ==
    LET k == regOp[a].key IN
    /\ regOp[a].at = "pool_add"
    /\ IF PoolLacks(k) THEN /\ poolKeys' = Append(poolKeys, k)
                            /\ payerKeys' = Append(payerKeys, k) /\ UNCHANGED torn
                       ELSE torn' = torn \cup {k} /\ UNCHANGED <<poolKeys, payerKeys>>
    /\ Ends(a) /\ UNCHANGED <<secretRows, regFaults, leftOut>>

\* removeSignerFromRegistry: only signers of the database.
removeSigner(a, k) ==
    /\ regOp[a] = NoOp /\ In(k, payerKeys) /\ k \in DbSigners
    /\ regOp' = [regOp EXCEPT ![a] = [at |-> "delete", key |-> k]]
    /\ UNCHANGED <<secretRows, poolKeys, payerKeys, regFaults, torn, leftOut>>

deleteRow(a) ==
    /\ regOp[a].at = "delete"
    /\ IF regOp[a].key \in secretRows
       THEN secretRows' = secretRows \ {regOp[a].key} /\ RegTo(a, "pool_remove")
       ELSE UNCHANGED secretRows /\ Ends(a)
    /\ UNCHANGED <<poolKeys, payerKeys, regFaults, torn, leftOut>>

Without(s, k) == Picked(s, {i \in DOMAIN s : s[i] # k})

PayersWithout(k) == Without(payerKeys, k)

\* removeAccount under the mutex, then the account list, as in poolAdd.
poolRemove(a) ==
    LET k == regOp[a].key IN
    /\ regOp[a].at = "pool_remove"
    /\ IF PoolLacks(k) THEN torn' = torn \cup {k} /\ UNCHANGED <<poolKeys, payerKeys>>
                       ELSE /\ poolKeys' = Without(poolKeys, k)
                            /\ payerKeys' = PayersWithout(k) /\ UNCHANGED torn
    /\ Ends(a) /\ UNCHANGED <<secretRows, regFaults, leftOut>>

\* A database call throws: nothing was written by it, and the request ends.
dbThrows(a) ==
    /\ regOp[a].at \in {"find", "create", "delete"} /\ RegFault /\ Ends(a)
    /\ UNCHANGED <<secretRows, poolKeys, payerKeys, torn, leftOut>>

Restart ==
    /\ RegFault
    /\ poolKeys' = Env /\ payerKeys' = Env
    /\ regOp' = [a \in RegAdmins |-> NoOp]
    /\ torn' = {} /\ leftOut' = secretRows
    /\ UNCHANGED secretRows

RegNext ==
    \/ Restart
    \/ \E a \in RegAdmins :
         \/ \E k \in DbSigners \cup EnvSigners : addSigner(a, k) \/ removeSigner(a, k)
         \/ findUnique(a) \/ createRow(a) \/ poolAdd(a)
         \/ deleteRow(a) \/ poolRemove(a) \/ dbThrows(a)

RegSpec == RegInit /\ [][RegNext]_regVars
-----------------------------------------------------------------------------
RegTypeOK ==
    /\ secretRows \subseteq DbSigners
    /\ Range(poolKeys) \cup Range(payerKeys) \subseteq EnvSigners \cup DbSigners
    /\ regFaults \in 0 .. MaxRegFaults /\ torn \cup leftOut \subseteq DbSigners

\* Pool and account list hold the same signers, none twice, however adds and
\* removes of the same key interleave.  (Leases pick from the one, secrets are
\* looked up in the other.)
PoolMatchesPayers ==
    /\ Range(poolKeys) = Range(payerKeys)
    /\ IsInjective(poolKeys) /\ IsInjective(payerKeys)

\* While no request is under way, a database signer has a row exactly when it is
\* in use or was left behind by the last restart.  Excused is only a key of which
\* a request failed, since that restart, between its row and its pool entry.
RowsMatchPool ==
    (\A a \in RegAdmins : regOp[a] = NoOp) =>
      \A k \in DbSigners \ torn : k \in secretRows <=> In(k, poolKeys) \/ k \in leftOut

\* A signer left behind by a restart keeps its row and is not used: adding it
\* again stops at its row, removing it is refused.
LeftBehind == leftOut \subseteq secretRows /\ leftOut \cap Range(poolKeys) = {}

\* Rows, pool and account list agree, key by key.
RegInv == RegTypeOK /\ PoolMatchesPayers /\ RowsMatchPool /\ LeftBehind
=============================================================================

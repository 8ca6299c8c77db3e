--------------------------- MODULE NodeSignerPool ---------------------------
(***************************************************************************)
(* The signer pool of the Node server, with or without its nonce guard     *)
(* (server/src/signing/signerPool.ts and nonceGuard.ts).  loadConfig       *)
(* builds the server's pool without one; the tests build it with one.      *)
(* Every operation runs inside the pool's AsyncMutex without awaiting      *)
(* anything, so each is one action.  A lease holds a reference to the      *)
(* account OBJECT it was given: after the key is removed and added again   *)
(* the old leases still point to the old object, which is why every        *)
(* listing of a key has a generation.  Balances are abstracted to their    *)
(* place with respect to lowBalanceThreshold.                              *)
(***************************************************************************)
EXTENDS Integers, FiniteSets, Sequences

CONSTANTS Keys, Holders,
          Strategy,    \* "least_used" or "round_robin"
          MaxNonce,    \* bound: sequence numbers stop here
          MaxUses,     \* bound: leases an account object gives out
          MaxGen       \* bound: times a key is removed

ASSUME NodePoolAssumption ==
    /\ Strategy \in {"least_used", "round_robin"}
    /\ MaxNonce \in Nat /\ MaxUses \in Nat /\ MaxGen \in Nat
    /\ IsFiniteSet(Holders) /\ IsFiniteSet(Keys)
    /\ -1 \notin Keys

Null == -1
Nonces == 0 .. MaxNonce
NoLease == [key |-> Null, gen |-> 0]

VARIABLES guarded,        \* nonceGuard is not null; fixed by the constructor
          accounts,       \* the keys in the pool, in index order
          gen,            \* gen[k]: which object of k is, or will be, listed
          active, status, balance, sequenceNumber, inFlight, totalUses,
          roundRobinCursor,
          lastNonce,      \* the guard's high-water marks, Null if none
          lease,          \* lease[h]
          signed          \* history: the nonces reserved since a reset, in order

accountVars == <<active, status, balance, sequenceNumber, inFlight, totalUses>>
vars == <<guarded, accounts, gen, accountVars, roundRobinCursor, lastNonce, lease, signed>>

Listed == {accounts[i] : i \in 1 .. Len(accounts)}

TypeOK ==
    /\ guarded \in BOOLEAN
    /\ accounts \in Seq(Keys)
    /\ gen \in [Keys -> 0 .. MaxGen]
    /\ active \in [Keys -> BOOLEAN]
    /\ status \in [Keys -> {"active", "low_balance", "sequence_error"}]
    /\ balance \in [Keys -> {"unknown", "low", "enough"}]
    /\ sequenceNumber \in [Keys -> Nonces \cup {Null, MaxNonce + 1}]
    /\ inFlight \in [Keys -> 0 .. Cardinality(Holders)]
    /\ totalUses \in [Keys -> 0 .. MaxUses]
    /\ roundRobinCursor \in 0 .. Cardinality(Keys)
    /\ Len(accounts) > 0 => roundRobinCursor < Len(accounts)
    /\ lastNonce \in [Keys -> Nonces \cup {Null}]
    /\ lease \in [Holders -> {NoLease} \cup [key : Keys, gen : 0 .. MaxGen]]
    /\ signed \in [Keys -> Seq(Nonces)]

Init ==
    /\ guarded \in BOOLEAN
    /\ \E n \in 1 .. Cardinality(Keys) :
         accounts \in {s \in [1 .. n -> Keys] :
                         \A i, j \in 1 .. n : s[i] = s[j] => i = j}
    /\ gen = [k \in Keys |-> 0]
    /\ active = [k \in Keys |-> TRUE]
    /\ status = [k \in Keys |-> "active"]
    /\ balance = [k \in Keys |-> "unknown"]
    /\ sequenceNumber \in {f \in [Keys -> {Null, 0}] :
                            \A k \in Keys \ Listed : f[k] = Null}
    /\ inFlight = [k \in Keys |-> 0]
    /\ totalUses = [k \in Keys |-> 0]
    /\ roundRobinCursor = 0
    /\ lastNonce = [k \in Keys |-> Null]
    /\ lease = [h \in Holders |-> NoLease]
    /\ signed = [k \in Keys |-> <<>>]

-----------------------------------------------------------------------------
(* Membership *)

AddAccount(k, s) ==
    /\ k \notin Listed
    /\ accounts' = Append(accounts, k)
    /\ sequenceNumber' = [sequenceNumber EXCEPT ![k] = s]
    /\ UNCHANGED <<gen, active, status, balance, inFlight, totalUses,
                   roundRobinCursor, lastNonce, lease, signed>>

\* The key's object leaves the pool: open leases keep the old generation, and
\* the fields describe the fresh object that addAccount would list.
Discard(k) ==
    /\ \E p \in 1 .. Len(accounts) :
        /\ accounts[p] = k
        /\ accounts' = SubSeq(accounts, 1, p - 1)
                        \o SubSeq(accounts, p + 1, Len(accounts))
    /\ gen' = [gen EXCEPT ![k] = @ + 1]
    /\ active' = [active EXCEPT ![k] = TRUE]
    /\ status' = [status EXCEPT ![k] = "active"]
    /\ balance' = [balance EXCEPT ![k] = "unknown"]
    /\ sequenceNumber' = [sequenceNumber EXCEPT ![k] = Null]
    /\ inFlight' = [inFlight EXCEPT ![k] = 0]
    /\ totalUses' = [totalUses EXCEPT ![k] = 0]

\* A removal that leaves the cursor where it was.
RemoveKeepsCursor(k) ==
    /\ k \in Listed /\ gen[k] < MaxGen
    /\ Discard(k)
    /\ UNCHANGED <<roundRobinCursor, lastNonce, lease, signed>>

\* splice, renumber, and bring the cursor back into range
RemoveAccount(k) ==
    /\ k \in Listed /\ gen[k] < MaxGen
    /\ Discard(k)
    /\ roundRobinCursor' = IF Len(accounts) = 1 THEN 0
                           ELSE roundRobinCursor % (Len(accounts) - 1)
    /\ UNCHANGED <<lastNonce, lease, signed>>

-----------------------------------------------------------------------------
(* selectAccount; indexes count from 0 as in the code *)

At(i) == accounts[i + 1]
Indexes == 0 .. Len(accounts) - 1
Active == {i \in Indexes : active[At(i)]}
LeastBusy == {i \in Active : \A j \in Active : inFlight[At(i)] <= inFlight[At(j)]}

LeastUsed(i) ==
    /\ i \in LeastBusy
    /\ \A j \in LeastBusy \ {i} :
        \/ totalUses[At(i)] < totalUses[At(j)]
        \/ totalUses[At(i)] = totalUses[At(j)] /\ i < j

\* The loop looks as many places ahead of the cursor as there are least busy
\* accounts; if it finds none there it takes the first and leaves the cursor.
Ahead(o) == (roundRobinCursor + o) % Len(accounts)
Found == {o \in 0 .. Cardinality(LeastBusy) - 1 : Ahead(o) \in LeastBusy}

RoundRobin(i, cursor) ==
    \/ \E o \in Found :
        /\ \A p \in Found : o <= p
        /\ i = Ahead(o)
        /\ cursor = (i + 1) % Len(accounts)
    \/ /\ Found = {}
       /\ i \in LeastBusy /\ \A j \in LeastBusy : i <= j
       /\ cursor = roundRobinCursor

SelectAccount(i, cursor) ==
    \/ Strategy = "least_used" /\ LeastUsed(i) /\ cursor = roundRobinCursor
    \/ Strategy = "round_robin" /\ RoundRobin(i, cursor)

-----------------------------------------------------------------------------
(* acquire and release *)

\* A guard that refuses only nonces below the mark.
ReplayBelowOnly(k) == guarded /\ sequenceNumber[k] # Null /\ sequenceNumber[k] < lastNonce[k]

\* assertAndRecord, when there is a guard, refuses a nonce at or below the mark.
Replay(k) == guarded /\ sequenceNumber[k] # Null /\ sequenceNumber[k] <= lastNonce[k]

\* The reserved nonce is recorded by the guard, if there is one; an account whose
\* sequence is unknown is leased without one.
Acquire(h) ==
    /\ lease[h] = NoLease
    /\ \E i \in Indexes, cursor \in 0 .. Cardinality(Keys) :
        LET k == At(i)
            n == sequenceNumber[k]
        IN /\ SelectAccount(i, cursor)
           /\ ~Replay(k)
           /\ n <= MaxNonce /\ totalUses[k] < MaxUses
           /\ roundRobinCursor' = cursor
           /\ lastNonce' = IF n = Null \/ ~guarded THEN lastNonce
                           ELSE [lastNonce EXCEPT ![k] = n]
           /\ signed' = IF n = Null THEN signed
                        ELSE [signed EXCEPT ![k] = Append(@, n)]
           /\ sequenceNumber' = IF n = Null THEN sequenceNumber
                                ELSE [sequenceNumber EXCEPT ![k] = n + 1]
           /\ inFlight' = [inFlight EXCEPT ![k] = @ + 1]
           /\ totalUses' = [totalUses EXCEPT ![k] = @ + 1]
           /\ lease' = [lease EXCEPT ![h] = [key |-> k, gen |-> gen[k]]]
    /\ UNCHANGED <<accounts, gen, active, status, balance>>

\* NonceReplayError: thrown before the account changes, but after
\* selectAccount has moved the cursor.
AcquireRefused(h) ==
    /\ lease[h] = NoLease
    /\ \E i \in Indexes, cursor \in 0 .. Cardinality(Keys) :
        /\ SelectAccount(i, cursor)
        /\ Replay(At(i))
        /\ roundRobinCursor' = cursor
    /\ UNCHANGED <<accounts, gen, accountVars, lastNonce, lease, signed>>

\* A release that looks the account up by its key.
ReleaseByKey(h) ==
    /\ lease[h] # NoLease
    /\ inFlight' = [inFlight EXCEPT ![lease[h].key] = IF @ = 0 THEN 0 ELSE @ - 1]
    /\ lease' = [lease EXCEPT ![h] = NoLease]
    /\ UNCHANGED <<accounts, gen, active, status, balance, sequenceNumber,
                   totalUses, roundRobinCursor, lastNonce, signed>>

\* release decrements the leased object, which is the listed one only if the
\* key was not removed meanwhile.
Release(h) ==
    /\ lease[h] # NoLease
    /\ inFlight' = IF lease[h].gen = gen[lease[h].key]
                     THEN [inFlight EXCEPT ![lease[h].key] =
                             IF @ = 0 THEN 0 ELSE @ - 1]
                     ELSE inFlight
    /\ lease' = [lease EXCEPT ![h] = NoLease]
    /\ UNCHANGED <<accounts, gen, active, status, balance, sequenceNumber,
                   totalUses, roundRobinCursor, lastNonce, signed>>

-----------------------------------------------------------------------------
(* Updates from the health refresh *)

UpdateBalance(k, b) ==
    /\ k \in Listed
    /\ balance' = [balance EXCEPT ![k] = b]
    /\ status' = [status EXCEPT ![k] = IF b = "low" THEN "low_balance" ELSE "active"]
    /\ active' = [active EXCEPT ![k] = b # "low"]
    /\ UNCHANGED <<accounts, gen, sequenceNumber, inFlight, totalUses,
                   roundRobinCursor, lastNonce, lease, signed>>

\* A sequence update that re-enables whatever the balance.
UpdateSequenceForgetsBalance(k, s) ==
    /\ k \in Listed
    /\ s = Null \/ ~guarded \/ s > lastNonce[k]
    /\ sequenceNumber' = [sequenceNumber EXCEPT ![k] = s]
    /\ status' = [status EXCEPT ![k] = "active"]
    /\ active' = [active EXCEPT ![k] = TRUE]
    /\ UNCHANGED <<accounts, gen, balance, inFlight, totalUses,
                   roundRobinCursor, lastNonce, lease, signed>>

\* Refused by a guard at or below the mark; clears a sequence error, but an
\* account whose balance is low stays out of service.
UpdateSequenceNumber(k, s) ==
    /\ k \in Listed
    /\ s = Null \/ ~guarded \/ s > lastNonce[k]
    /\ sequenceNumber' = [sequenceNumber EXCEPT ![k] = s]
    /\ IF status[k] = "sequence_error"
         THEN /\ status' = [status EXCEPT ![k] =
                              IF balance[k] = "low" THEN "low_balance" ELSE "active"]
              /\ active' = [active EXCEPT ![k] = balance[k] # "low"]
         ELSE UNCHANGED <<status, active>>
    /\ UNCHANGED <<accounts, gen, balance, inFlight, totalUses,
                   roundRobinCursor, lastNonce, lease, signed>>

MarkSequenceError(k) ==
    /\ k \in Listed
    /\ status' = [status EXCEPT ![k] = "sequence_error"]
    /\ active' = [active EXCEPT ![k] = FALSE]
    /\ UNCHANGED <<accounts, gen, balance, sequenceNumber, inFlight, totalUses,
                   roundRobinCursor, lastNonce, lease, signed>>

-----------------------------------------------------------------------------
(* The guard's own operations *)

\* initialize seeds the mark from a persisted value and never lowers it.
InitializeGuard(k, n) ==
    /\ guarded /\ n >= lastNonce[k]
    /\ lastNonce' = [lastNonce EXCEPT ![k] = n]
    /\ UNCHANGED <<accounts, gen, accountVars, roundRobinCursor, lease, signed>>

\* reset(publicKey), for key rotation.
ResetGuard(k) ==
    /\ guarded
    /\ lastNonce' = [lastNonce EXCEPT ![k] = Null]
    /\ signed' = [signed EXCEPT ![k] = <<>>]
    /\ UNCHANGED <<accounts, gen, accountVars, roundRobinCursor, lease>>

Operation ==
    \/ \E h \in Holders : Acquire(h) \/ AcquireRefused(h) \/ Release(h)
    \/ \E k \in Keys :
        \/ \E s \in Nonces \cup {Null} : AddAccount(k, s) \/ UpdateSequenceNumber(k, s)
        \/ RemoveAccount(k)
        \/ \E b \in {"low", "enough"} : UpdateBalance(k, b)
        \/ MarkSequenceError(k)
        \/ \E n \in Nonces : InitializeGuard(k, n)
        \/ ResetGuard(k)

Next == Operation /\ UNCHANGED guarded

Spec == Init /\ [][Next]_vars

-----------------------------------------------------------------------------
(* Properties *)

\* The nonces a guarded pool handed out; a pool without a guard promises nothing.
Guarded == IF guarded THEN signed ELSE [k \in Keys |-> <<>>]

Monotone == INSTANCE MonotoneNonces WITH signed <- Guarded

\* "Strict monotonic nonce guard", of a pool built with one: whatever mix of
\* removals, re-additions with an old sequence, sequence refreshes and unknown
\* sequences comes between, the nonces reserved for a key strictly increase until
\* it is reset.  The pool loadConfig builds has no guard: there a sequence number
\* that is added again or set back is handed out again.
ImplementsMonotoneNonces == Monotone!NoncesSpec

\* The open leases of the object that is listed for k.
LeasesOf(k) == {h \in Holders : lease[h] = [key |-> k, gen |-> gen[k]]}

\* inFlight of a listed account counts the open leases of that very object;
\* leases of an earlier listing of the same key never lower it.
InFlightMatchesLeases ==
    \A k \in Listed : inFlight[k] = Cardinality(LeasesOf(k))

\* An account known to be below lowBalanceThreshold is never selectable, in
\* whatever order balance refreshes, sequence errors and sequence refreshes
\* arrive.
LowBalanceNeverActive ==
    \A k \in Listed :
        /\ active[k] <=> status[k] = "active"
        /\ balance[k] = "low" => ~active[k]
=============================================================================

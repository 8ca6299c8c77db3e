------------------------ MODULE NodeSignerPoolProofs ------------------------
(***************************************************************************)
(* What the Node server's signer pool guarantees for every set of keys and *)
(* holders and every bound: nonces increase, a low account stays out of    *)
(* service, and in-flight counts belong to the right account object.  And  *)
(* that the signer registry, its cache and the pool agree, whatever the    *)
(* order of the requests of the administrators.                            *)
(***************************************************************************)
EXTENDS NodeSignerPool, SignerRegistry, FiniteSetTheorems, TLAPS

\* The types the three arguments share.
PartTypes ==
    /\ guarded \in BOOLEAN
    /\ accounts \in Seq(Keys)
    /\ gen \in [Keys -> 0 .. MaxGen]
    /\ active \in [Keys -> BOOLEAN]
    /\ status \in [Keys -> {"active", "low_balance", "sequence_error"}]
    /\ balance \in [Keys -> {"unknown", "low", "enough"}]
    /\ sequenceNumber \in [Keys -> Nonces \cup {Null, MaxNonce + 1}]
    /\ inFlight \in [Keys -> Nat]
    /\ lastNonce \in [Keys -> Nonces \cup {Null}]
    /\ lease \in [Holders -> {NoLease} \cup [key : Keys, gen : 0 .. MaxGen]]
    /\ signed \in [Keys -> Seq(Nonces)]

\* The account at an index of the pool is one of the keys.
LEMMA AtIsKey ==
    ASSUME accounts \in Seq(Keys), NEW i \in Indexes
    PROVE  At(i) \in Keys
BY DEF Indexes, At

\* Splicing one place out of a list of keys leaves a list of keys.
LEMMA SpliceKeepsKeys ==
    ASSUME NEW q \in Seq(Keys), NEW p \in 1 .. Len(q)
    PROVE  SubSeq(q, 1, p - 1) \o SubSeq(q, p + 1, Len(q)) \in Seq(Keys)
<1>1. Len(q) \in Nat
    OBVIOUS
<1>2. SubSeq(q, 1, p - 1) \in Seq(Keys) /\ SubSeq(q, p + 1, Len(q)) \in Seq(Keys)
    BY <1>1
<1> QED BY <1>2

\* Every operation keeps the types.
LEMMA TypesStep == PartTypes /\ [Next]_vars => PartTypes'
<1> SUFFICES ASSUME PartTypes, [Next]_vars PROVE PartTypes'
    OBVIOUS
<1>0. guarded' \in BOOLEAN
    BY DEF Next, vars, PartTypes
<1> USE <1>0, NodePoolAssumption DEF PartTypes, Nonces, Null, accountVars
<1>1. ASSUME NEW h \in Holders, Acquire(h) PROVE PartTypes'
  <2>1. PICK i \in Indexes, cursor \in 0 .. Cardinality(Keys) :
          LET k == At(i)
              n == sequenceNumber[k]
          IN /\ n <= MaxNonce
             /\ lastNonce' = IF n = Null \/ ~guarded THEN lastNonce
                             ELSE [lastNonce EXCEPT ![k] = n]
             /\ signed' = IF n = Null THEN signed
                          ELSE [signed EXCEPT ![k] = Append(@, n)]
             /\ sequenceNumber' = IF n = Null THEN sequenceNumber
                                  ELSE [sequenceNumber EXCEPT ![k] = n + 1]
             /\ inFlight' = [inFlight EXCEPT ![k] = @ + 1]
             /\ lease' = [lease EXCEPT ![h] = [key |-> k, gen |-> gen[k]]]
      BY <1>1 DEF Acquire
  <2>2. At(i) \in Keys
      BY AtIsKey
  <2>3. UNCHANGED <<accounts, gen, active, status, balance>>
      BY <1>1 DEF Acquire
  <2> HIDE DEF At
  <2>4. (sequenceNumber[At(i)] = Null \/ sequenceNumber[At(i)] \in Nonces)
      BY <2>1, <2>2
  <2>5. /\ lastNonce' \in [Keys -> Nonces \cup {Null}]
        /\ signed' \in [Keys -> Seq(Nonces)]
        /\ sequenceNumber' \in [Keys -> Nonces \cup {Null, MaxNonce + 1}]
    <3>1. lastNonce' \in [Keys -> Nonces \cup {Null}]
        BY <2>1, <2>2, <2>4
    <3>2. signed' \in [Keys -> Seq(Nonces)]
      <4>1. CASE sequenceNumber[At(i)] = Null
          BY <2>1, <4>1
      <4>2. CASE sequenceNumber[At(i)] \in Nonces
        <5>1. Append(signed[At(i)], sequenceNumber[At(i)]) \in Seq(Nonces)
            BY <2>2, <4>2
        <5>2. signed' = [signed EXCEPT ![At(i)] =
                           Append(signed[At(i)], sequenceNumber[At(i)])]
            BY <2>1, <2>2, <4>2
        <5> HIDE DEF Nonces
        <5> QED BY <2>2, <5>1, <5>2
      <4> QED BY <2>4, <4>1, <4>2
    <3>3. sequenceNumber' \in [Keys -> Nonces \cup {Null, MaxNonce + 1}]
      <4>1. CASE sequenceNumber[At(i)] = Null
          BY <2>1, <4>1
      <4>2. CASE sequenceNumber[At(i)] \in Nonces
        <5>1. sequenceNumber[At(i)] + 1 \in Nonces \cup {Null, MaxNonce + 1}
          <6>1. \A m \in 0 .. MaxNonce :
                  m + 1 \in 0 .. MaxNonce \/ m + 1 = MaxNonce + 1
              BY NodePoolAssumption
          <6> QED BY <4>2, <6>1
        <5>2. sequenceNumber' = [sequenceNumber EXCEPT ![At(i)] =
                                   sequenceNumber[At(i)] + 1]
            BY <2>1, <4>2
        <5> HIDE DEF Nonces
        <5> QED BY <2>2, <5>1, <5>2
      <4> QED BY <2>4, <4>1, <4>2
    <3> QED BY <3>1, <3>2, <3>3
  <2>6. inFlight' \in [Keys -> Nat]
      BY <2>1, <2>2
  <2>7. lease' \in [Holders -> {NoLease} \cup [key : Keys, gen : 0 .. MaxGen]]
      BY <2>1, <2>2
  <2> QED BY <2>3, <2>5, <2>6, <2>7
<1>2. ASSUME NEW h \in Holders, AcquireRefused(h) PROVE PartTypes'
    BY <1>2 DEF AcquireRefused
<1>3. ASSUME NEW h \in Holders, Release(h) PROVE PartTypes'
  <2>1. lease[h] \in [key : Keys, gen : 0 .. MaxGen]
      BY <1>3 DEF Release
  <2> QED BY <1>3, <2>1 DEF Release
<1>4. ASSUME NEW k \in Keys, NEW s \in Nonces \cup {Null}, AddAccount(k, s)
      PROVE PartTypes'
    BY <1>4 DEF AddAccount
<1>5. ASSUME NEW k \in Keys, NEW s \in Nonces \cup {Null},
             UpdateSequenceNumber(k, s)
      PROVE PartTypes'
    BY <1>5 DEF UpdateSequenceNumber
<1>6. ASSUME NEW k \in Keys, RemoveAccount(k) PROVE PartTypes'
  <2>1. accounts' \in Seq(Keys)
    <3>1. PICK p \in 1 .. Len(accounts) :
            accounts' = SubSeq(accounts, 1, p - 1)
                         \o SubSeq(accounts, p + 1, Len(accounts))
        BY <1>6 DEF RemoveAccount, Discard
    <3>2. accounts \in Seq(Keys)
        OBVIOUS
    <3> HIDE DEF PartTypes
    <3> QED BY <3>1, <3>2, SpliceKeepsKeys
  <2>2. gen' \in [Keys -> 0 .. MaxGen]
    <3>1. gen[k] < MaxGen /\ gen' = [gen EXCEPT ![k] = @ + 1]
        BY <1>6 DEF RemoveAccount, Discard
    <3>2. gen \in [Keys -> 0 .. MaxGen]
        OBVIOUS
    <3> HIDE DEF PartTypes
    <3> QED BY <3>1, <3>2, NodePoolAssumption
  <2> QED BY <1>6, <2>1, <2>2 DEF RemoveAccount, Discard
<1>7. ASSUME NEW k \in Keys, NEW b \in {"low", "enough"}, UpdateBalance(k, b)
      PROVE PartTypes'
    BY <1>7 DEF UpdateBalance
<1>8. ASSUME NEW k \in Keys, MarkSequenceError(k) PROVE PartTypes'
    BY <1>8 DEF MarkSequenceError
<1>9. ASSUME NEW k \in Keys, NEW n \in Nonces, InitializeGuard(k, n)
      PROVE PartTypes'
    BY <1>9 DEF InitializeGuard
<1>10. ASSUME NEW k \in Keys, ResetGuard(k) PROVE PartTypes'
    BY <1>10 DEF ResetGuard
<1>11. CASE UNCHANGED vars
    BY <1>11 DEF vars
<1> QED BY <1>1, <1>2, <1>3, <1>4, <1>5, <1>6, <1>7, <1>8, <1>9, <1>10, <1>11
        DEF Next, Operation

\* The types hold in every reachable state.
LEMMA TypesHold == Spec => []PartTypes
<1>1. Init => PartTypes
  <2> SUFFICES ASSUME Init PROVE PartTypes
      OBVIOUS
  <2> USE NodePoolAssumption DEF Init, PartTypes, Nonces, Null
  <2>1. accounts \in Seq(Keys)
    <3>1. PICK n \in 1 .. Cardinality(Keys) : accounts \in [1 .. n -> Keys]
        OBVIOUS
    <3>2. CASE n \in Nat
        BY <3>1, <3>2
    <3>3. n \in Nat
        BY <3>1
    <3> QED BY <3>2, <3>3
  <2> QED BY <2>1
<1> QED BY <1>1, TypesStep, PTL DEF Spec

-----------------------------------------------------------------------------
\* The guard's mark, of a pool that has one, is at or above every nonce handed out
\* since the reset.
MarkCoversSigned ==
    guarded => \A k \in Keys : \A j \in 1 .. Len(signed[k]) : signed[k][j] <= lastNonce[k]

\* Every operation of the pool and of the guard is a step of the monotone
\* nonces or leaves them alone, and keeps the mark above what was signed.
LEMMA NonceStep ==
    PartTypes /\ MarkCoversSigned /\ [Next]_vars
      => MarkCoversSigned' /\ [Monotone!NoncesNext]_Guarded
<1> SUFFICES ASSUME PartTypes, MarkCoversSigned, [Next]_vars
             PROVE  MarkCoversSigned' /\ [Monotone!NoncesNext]_Guarded
    OBVIOUS
<1>10. CASE ~guarded
  <2>1. guarded' = guarded
      BY DEF Next, vars
  <2> QED BY <1>10, <2>1 DEF MarkCoversSigned, Guarded
<1>11. SUFFICES ASSUME guarded PROVE MarkCoversSigned' /\ [Monotone!NoncesNext]_Guarded
    BY <1>10
<1>12. guarded' = guarded /\ Guarded = signed /\ Guarded' = signed'
    BY <1>11 DEF Next, vars, Guarded
<1> USE NodePoolAssumption DEF MarkCoversSigned
<1>0. \A k \in Keys : lastNonce[k] \in Int /\ \A j \in 1 .. Len(signed[k]) : signed[k][j] \in Int
    BY DEF PartTypes, Nonces, Null
<1>1. ASSUME NEW h \in Holders, Acquire(h)
      PROVE  MarkCoversSigned' /\ [Monotone!NoncesNext]_Guarded
  <2>1. PICK i \in Indexes, cursor \in 0 .. Cardinality(Keys) :
          LET k == At(i)
              n == sequenceNumber[k]
          IN /\ ~Replay(k)
             /\ n <= MaxNonce
             /\ lastNonce' = IF n = Null \/ ~guarded THEN lastNonce
                             ELSE [lastNonce EXCEPT ![k] = n]
             /\ signed' = IF n = Null THEN signed
                          ELSE [signed EXCEPT ![k] = Append(@, n)]
      BY <1>1 DEF Acquire
  <2> DEFINE k == At(i)
             n == sequenceNumber[k]
  <2>2. k \in Keys
      BY AtIsKey DEF PartTypes
  <2>3. CASE n = Null
      BY <1>12, <2>1, <2>3
  <2>4. CASE n # Null
    <3>1. /\ n \in Nonces
          /\ n > lastNonce[k]
          /\ lastNonce' = [lastNonce EXCEPT ![k] = n]
          /\ signed' = [signed EXCEPT ![k] = Append(@, n)]
      <4>1. n \in Nonces
          BY <2>1, <2>2, <2>4 DEF PartTypes, Nonces, Null
      <4>2. lastNonce[k] \in Int
          BY <2>2 DEF PartTypes, Nonces, Null
      <4>3. n > lastNonce[k]
          BY <1>11, <2>1, <2>4, <4>1, <4>2 DEF Replay, Nonces
      <4> QED BY <1>11, <2>1, <2>4, <4>1, <4>3
    <3> HIDE DEF k, n
    <3>2. \A j \in 1 .. Len(signed[k]) : n > signed[k][j]
      <4>1. lastNonce[k] \in Int /\ n \in Int /\ \A j \in 1 .. Len(signed[k]) : signed[k][j] \in Int
          BY <1>0, <2>2, <3>1 DEF Nonces
      <4>2. \A j \in 1 .. Len(signed[k]) : signed[k][j] <= lastNonce[k]
          BY <1>11, <2>2
      <4> QED BY <3>1, <4>1, <4>2
    <3>3. Monotone!Sign(k, n)
        BY <1>12, <3>1, <3>2 DEF Monotone!Sign
    <3>4. MarkCoversSigned'
      <4>1. \A j \in 1 .. Len(Append(signed[k], n)) : Append(signed[k], n)[j] <= n
        <5>1. signed[k] \in Seq(Nonces) /\ n \in Int
            BY <2>2, <3>1 DEF PartTypes, Nonces
        <5>2. \A j \in 1 .. Len(signed[k]) : signed[k][j] \in Int
            BY <1>0, <2>2
        <5> QED BY <3>2, <5>1, <5>2
      <4> QED BY <1>11, <2>2, <3>1, <4>1 DEF PartTypes
    <3> QED BY <2>2, <3>1, <3>3, <3>4 DEF Monotone!NoncesNext
  <2> QED BY <2>3, <2>4
<1>2. ASSUME NEW h \in Holders, AcquireRefused(h) \/ Release(h)
      PROVE  UNCHANGED <<lastNonce, signed>>
    BY <1>2 DEF AcquireRefused, Release
<1>3. ASSUME NEW k \in Keys, NEW s \in Nonces \cup {Null},
             AddAccount(k, s) \/ UpdateSequenceNumber(k, s)
      PROVE  UNCHANGED <<lastNonce, signed>>
    BY <1>3 DEF AddAccount, UpdateSequenceNumber
<1>4. ASSUME NEW k \in Keys, RemoveAccount(k) \/ MarkSequenceError(k)
      PROVE  UNCHANGED <<lastNonce, signed>>
    BY <1>4 DEF RemoveAccount, MarkSequenceError
<1>5. ASSUME NEW k \in Keys, NEW b \in {"low", "enough"}, UpdateBalance(k, b)
      PROVE  UNCHANGED <<lastNonce, signed>>
    BY <1>5 DEF UpdateBalance
<1>6. ASSUME NEW k \in Keys, NEW n \in Nonces, InitializeGuard(k, n)
      PROVE  MarkCoversSigned' /\ [Monotone!NoncesNext]_Guarded
  <2>1. \A j \in 1 .. Len(signed[k]) : signed[k][j] <= n
    <3>1. n \in Int /\ n >= lastNonce[k]
        BY <1>6 DEF InitializeGuard, Nonces
    <3>2. \A j \in 1 .. Len(signed[k]) : signed[k][j] <= lastNonce[k]
        BY <1>11
    <3> QED BY <1>0, <3>1, <3>2
  <2> QED BY <1>6, <1>11, <1>12, <2>1 DEF InitializeGuard, PartTypes
<1>7. ASSUME NEW k \in Keys, ResetGuard(k)
      PROVE  MarkCoversSigned' /\ [Monotone!NoncesNext]_Guarded
  <2>1. Monotone!Forget(k)
      BY <1>7, <1>12 DEF ResetGuard, Monotone!Forget
  <2>2. MarkCoversSigned'
    <3>1. /\ lastNonce' = [lastNonce EXCEPT ![k] = Null]
          /\ signed' = [signed EXCEPT ![k] = <<>>]
        BY <1>7 DEF ResetGuard
    <3>2. signed'[k] = <<>> /\ Len(<<>>) = 0
        BY <3>1 DEF PartTypes
    <3>3. \A l \in Keys \ {k} : signed'[l] = signed[l] /\ lastNonce'[l] = lastNonce[l]
        BY <3>1 DEF PartTypes
    <3> QED BY <1>11, <3>2, <3>3
  <2> QED BY <2>1, <2>2 DEF Monotone!NoncesNext
<1>8. CASE UNCHANGED vars
    BY <1>8, <1>12 DEF vars
<1>9. ASSUME UNCHANGED <<lastNonce, signed>>
      PROVE  MarkCoversSigned' /\ [Monotone!NoncesNext]_Guarded
    BY <1>9, <1>12
<1>13. CASE Operation
    BY <1>1, <1>2, <1>3, <1>4, <1>5, <1>6, <1>7, <1>9, <1>13, Zenon DEF Operation
<1> QED BY <1>8, <1>9, <1>13 DEF Next

\* A pool built with a guard implements the abstract monotone nonces: no removal,
\* re-addition or refresh of an account makes it reserve a nonce it has already
\* reserved (nonceGuard.ts).  The pool that loadConfig builds has no guard: of it
\* the theorem says nothing.
THEOREM NoncesIncrease == Spec => ImplementsMonotoneNonces
<1>1. Init => MarkCoversSigned /\ Monotone!NoncesInit
    BY DEF Init, MarkCoversSigned, Guarded, Monotone!NoncesInit
<1> QED BY <1>1, NonceStep, TypesHold, PTL
        DEF Spec, ImplementsMonotoneNonces, Monotone!NoncesSpec

-----------------------------------------------------------------------------
\* The two parts of LowBalanceNeverActive, of unlisted keys too.
StatusAgrees ==
    \A k \in Keys : /\ active[k] <=> status[k] = "active"
                    /\ balance[k] = "low" => ~active[k]

\* Every operation keeps active, status and balance in agreement.
LEMMA StatusStep == PartTypes /\ StatusAgrees /\ [Next]_vars => StatusAgrees'
<1> SUFFICES ASSUME PartTypes, StatusAgrees, [Next]_vars PROVE StatusAgrees'
    OBVIOUS
<1> USE DEF PartTypes, StatusAgrees, accountVars
<1>1. ASSUME NEW h \in Holders, Acquire(h) \/ AcquireRefused(h) \/ Release(h)
      PROVE  StatusAgrees'
    BY <1>1 DEF Acquire, AcquireRefused, Release
<1>2. ASSUME NEW k \in Keys, NEW s \in Nonces \cup {Null}, AddAccount(k, s)
      PROVE  StatusAgrees'
    BY <1>2 DEF AddAccount
<1>3. ASSUME NEW k \in Keys, NEW s \in Nonces \cup {Null},
             UpdateSequenceNumber(k, s)
      PROVE  StatusAgrees'
    BY <1>3 DEF UpdateSequenceNumber
<1>4. ASSUME NEW k \in Keys, RemoveAccount(k) PROVE StatusAgrees'
    BY <1>4 DEF RemoveAccount, Discard
<1>5. ASSUME NEW k \in Keys, MarkSequenceError(k) PROVE StatusAgrees'
    BY <1>5 DEF MarkSequenceError
<1>6. ASSUME NEW k \in Keys, NEW b \in {"low", "enough"}, UpdateBalance(k, b)
      PROVE  StatusAgrees'
    BY <1>6 DEF UpdateBalance
<1>7. ASSUME NEW k \in Keys, NEW n \in Nonces,
             InitializeGuard(k, n)
      PROVE  StatusAgrees'
    BY <1>7 DEF InitializeGuard
<1>8. ASSUME NEW k \in Keys, ResetGuard(k) PROVE StatusAgrees'
    BY <1>8 DEF ResetGuard
<1>9. CASE UNCHANGED vars
    BY <1>9 DEF vars
<1> QED BY <1>1, <1>2, <1>3, <1>4, <1>5, <1>6, <1>7, <1>8, <1>9 DEF Next, Operation

\* A listed account known to be low is never selectable.
THEOREM LowAccountsOutOfService == Spec => []LowBalanceNeverActive
<1>1. Init => StatusAgrees
    BY DEF Init, StatusAgrees
<1>2. PartTypes /\ StatusAgrees => LowBalanceNeverActive
    BY DEF PartTypes, StatusAgrees, LowBalanceNeverActive, Listed
<1> QED BY <1>1, <1>2, StatusStep, TypesHold, PTL DEF Spec

-----------------------------------------------------------------------------
\* The in-flight count of every key is that of its present object, and no
\* lease is of an object that does not exist yet.
CountsAgree == \A k \in Keys : inFlight[k] = Cardinality(LeasesOf(k))
LeasesInPast ==
    \A h \in Holders : lease[h] # NoLease => lease[h].gen <= gen[lease[h].key]

\* Sets of leases are finite, so that they can be counted.
LEMMA LeaseSetsFinite ==
    ASSUME NEW k
    PROVE  IsFiniteSet(LeasesOf(k)) /\ Cardinality(LeasesOf(k)) \in Nat
<1>1. LeasesOf(k) \in SUBSET Holders
    BY DEF LeasesOf
<1> QED BY <1>1, NodePoolAssumption, FS_Subset, FS_CardinalityType

\* A lease taken is a lease of the chosen object and of no other.
LEMMA AcquireCounts ==
    ASSUME PartTypes, CountsAgree, LeasesInPast, NEW h \in Holders, Acquire(h)
    PROVE  CountsAgree' /\ LeasesInPast'
<1>1. PICK i \in Indexes :
        /\ inFlight' = [inFlight EXCEPT ![At(i)] = @ + 1]
        /\ lease' = [lease EXCEPT ![h] = [key |-> At(i), gen |-> gen[At(i)]]]
    BY DEF Acquire
<1>2. gen' = gen /\ lease[h] = NoLease
    BY DEF Acquire
<1>3. At(i) \in Keys
    BY AtIsKey DEF PartTypes
<1>4. LeasesInPast'
  <2> SUFFICES ASSUME NEW g \in Holders, lease'[g] # NoLease
               PROVE  lease'[g].gen <= gen'[lease'[g].key]
      BY DEF LeasesInPast
  <2>1. CASE g = h
    <3>1. lease'[g] = [key |-> At(i), gen |-> gen[At(i)]]
        BY <1>1, <2>1 DEF PartTypes
    <3>2. gen[At(i)] \in Int
        BY <1>3 DEF PartTypes
    <3> QED BY <1>2, <3>1, <3>2
  <2>2. CASE g # h
      BY <1>1, <1>2, <2>2 DEF PartTypes, LeasesInPast
  <2> QED BY <2>1, <2>2
<1>5. ASSUME NEW k \in Keys PROVE inFlight'[k] = Cardinality(LeasesOf(k)')
  <2>0. inFlight[k] = Cardinality(LeasesOf(k)) /\ inFlight[k] \in Nat
      BY DEF CountsAgree, PartTypes
  <2>1. CASE At(i) = k
    <3>1. lease'[h] = [key |-> k, gen |-> gen[k]]
        BY <1>1, <2>1 DEF PartTypes
    <3>2. NoLease # [key |-> k, gen |-> gen[k]]
        BY NodePoolAssumption DEF NoLease, Null
    <3>3. LeasesOf(k)' = LeasesOf(k) \cup {h} /\ h \notin LeasesOf(k)
        BY <1>1, <1>2, <3>1, <3>2 DEF LeasesOf, PartTypes
    <3>4. Cardinality(LeasesOf(k)') = inFlight[k] + 1
      <4>1. IsFiniteSet(LeasesOf(k))
          BY LeaseSetsFinite
      <4>2. Cardinality(LeasesOf(k) \cup {h}) = Cardinality(LeasesOf(k)) + 1
          BY <3>3, <4>1, FS_AddElement
      <4> QED BY <2>0, <3>3, <4>2
    <3>5. inFlight'[k] = inFlight[k] + 1
        BY <1>1, <2>1 DEF PartTypes
    <3> QED BY <3>4, <3>5
  <2>2. CASE At(i) # k
    <3>1. lease'[h] = [key |-> At(i), gen |-> gen[At(i)]]
        BY <1>1 DEF PartTypes
    <3>2. lease'[h] # [key |-> k, gen |-> gen[k]]
        BY <2>2, <3>1
    <3>3. NoLease # [key |-> k, gen |-> gen[k]]
        BY NodePoolAssumption DEF NoLease, Null
    <3>4. LeasesOf(k)' = LeasesOf(k)
        BY <1>1, <1>2, <3>2, <3>3 DEF LeasesOf, PartTypes
    <3>5. inFlight'[k] = inFlight[k]
        BY <1>1, <1>3, <2>2 DEF PartTypes
    <3> QED BY <2>0, <3>4, <3>5
  <2> QED BY <2>1, <2>2
<1> QED BY <1>4, <1>5 DEF CountsAgree

\* Giving back a lease lowers the count of its own object only.
LEMMA ReleaseCounts ==
    ASSUME PartTypes, CountsAgree, LeasesInPast, NEW h \in Holders, Release(h)
    PROVE  CountsAgree' /\ LeasesInPast'
<1>1. /\ lease[h] # NoLease
      /\ lease' = [lease EXCEPT ![h] = NoLease]
      /\ gen' = gen
    BY DEF Release
<1>2. lease[h] \in [key : Keys, gen : 0 .. MaxGen]
    BY <1>1 DEF PartTypes
<1>3. LeasesInPast'
    BY <1>1 DEF PartTypes, LeasesInPast
<1>4. ASSUME NEW k \in Keys PROVE inFlight'[k] = Cardinality(LeasesOf(k)')
  <2>0. inFlight[k] = Cardinality(LeasesOf(k)) /\ inFlight[k] \in Nat
      BY DEF CountsAgree, PartTypes
  <2>1. NoLease # [key |-> k, gen |-> gen[k]]
      BY NodePoolAssumption DEF NoLease, Null
  <2>2. lease'[h] = NoLease
      BY <1>1 DEF PartTypes
  <2>3. CASE lease[h] = [key |-> k, gen |-> gen[k]]
    <3>1. LeasesOf(k)' = LeasesOf(k) \ {h} /\ h \in LeasesOf(k)
        BY <1>1, <2>1, <2>2, <2>3 DEF LeasesOf, PartTypes
    <3>2. Cardinality(LeasesOf(k)') = inFlight[k] - 1
        BY <2>0, <3>1, LeaseSetsFinite, FS_RemoveElement
    <3>3. inFlight[k] # 0
        BY <2>0, <3>1, LeaseSetsFinite, FS_EmptySet
    <3>4. inFlight'[k] = inFlight[k] - 1
      <4>1. lease[h].key = k /\ lease[h].gen = gen[k]
          BY <2>3
      <4> QED BY <2>0, <3>3, <4>1 DEF Release, PartTypes
    <3> QED BY <3>2, <3>4
  <2>4. CASE lease[h] # [key |-> k, gen |-> gen[k]]
    <3>1. LeasesOf(k)' = LeasesOf(k)
        BY <1>1, <2>1, <2>2, <2>4 DEF LeasesOf, PartTypes
    <3>2. lease[h].key # k \/ lease[h].gen # gen[k]
      <4>1. lease[h] = [key |-> lease[h].key, gen |-> lease[h].gen]
          BY <1>2
      <4> QED BY <2>4, <4>1
    <3>3. inFlight'[k] = inFlight[k]
        BY <1>2, <3>2 DEF Release, PartTypes
    <3> QED BY <2>0, <3>1, <3>3
  <2> QED BY <2>3, <2>4
<1> QED BY <1>3, <1>4 DEF CountsAgree

\* The object that replaces a removed one has no leases.
LEMMA RemoveCounts ==
    ASSUME PartTypes, CountsAgree, LeasesInPast, NEW r \in Keys, RemoveAccount(r)
    PROVE  CountsAgree' /\ LeasesInPast'
<1>1. /\ lease' = lease
      /\ gen' = [gen EXCEPT ![r] = @ + 1]
      /\ inFlight' = [inFlight EXCEPT ![r] = 0]
    BY DEF RemoveAccount, Discard
<1>2. \A k \in Keys : gen[k] \in Int /\ gen[k] <= gen'[k] /\ gen'[k] \in Int
    BY <1>1 DEF PartTypes
<1>3. ASSUME NEW h \in Holders, lease[h] # NoLease
      PROVE  /\ lease[h].key \in Keys /\ lease[h].gen \in Int
             /\ lease[h].gen <= gen[lease[h].key]
    BY <1>3 DEF PartTypes, LeasesInPast
<1>4. LeasesInPast'
    BY <1>1, <1>2, <1>3 DEF LeasesInPast
<1>5. ASSUME NEW k \in Keys PROVE inFlight'[k] = Cardinality(LeasesOf(k)')
  <2>1. CASE k = r
    <3>1. gen'[k] = gen[k] + 1
        BY <1>1, <2>1 DEF PartTypes
    <3>2. ASSUME NEW h \in Holders PROVE lease[h] # [key |-> k, gen |-> gen'[k]]
      <4>1. CASE lease[h] = NoLease
          BY <4>1, NodePoolAssumption DEF NoLease, Null
      <4>2. CASE lease[h] # NoLease
          BY <1>2, <1>3, <3>1, <4>2
      <4> QED BY <4>1, <4>2
    <3>3. LeasesOf(k)' = {}
        BY <1>1, <3>2 DEF LeasesOf
    <3> QED BY <1>1, <2>1, <3>3, FS_EmptySet DEF PartTypes
  <2>2. CASE k # r
    <3>1. gen'[k] = gen[k] /\ inFlight'[k] = inFlight[k]
        BY <1>1, <2>2 DEF PartTypes
    <3>2. LeasesOf(k)' = LeasesOf(k)
        BY <1>1, <3>1 DEF LeasesOf
    <3> QED BY <3>1, <3>2 DEF CountsAgree
  <2> QED BY <2>1, <2>2
<1> QED BY <1>4, <1>5 DEF CountsAgree

LEMMA CountsHold == Spec => [](CountsAgree /\ LeasesInPast)
<1>1. Init => CountsAgree /\ LeasesInPast
  <2> SUFFICES ASSUME Init PROVE CountsAgree /\ LeasesInPast
      OBVIOUS
  <2>1. LeasesInPast
      BY DEF Init, LeasesInPast
  <2>2. ASSUME NEW k \in Keys PROVE LeasesOf(k) = {}
      BY NodePoolAssumption DEF Init, LeasesOf, NoLease, Null
  <2>3. CountsAgree
      BY <2>2, FS_EmptySet DEF Init, CountsAgree
  <2> QED BY <2>1, <2>3
<1>2. PartTypes /\ CountsAgree /\ LeasesInPast /\ [Next]_vars
        => CountsAgree' /\ LeasesInPast'
  <2> SUFFICES ASSUME PartTypes, CountsAgree, LeasesInPast, [Next]_vars
               PROVE  CountsAgree' /\ LeasesInPast'
      OBVIOUS
  <2>1. ASSUME UNCHANGED <<gen, inFlight, lease>>
        PROVE  CountsAgree' /\ LeasesInPast'
      BY <2>1 DEF CountsAgree, LeasesInPast, LeasesOf
  <2>2. ASSUME NEW h \in Holders, AcquireRefused(h)
        PROVE  UNCHANGED <<gen, inFlight, lease>>
      BY <2>2 DEF AcquireRefused, accountVars
  <2>3. ASSUME NEW k \in Keys, NEW s \in Nonces \cup {Null},
               AddAccount(k, s) \/ UpdateSequenceNumber(k, s)
        PROVE  UNCHANGED <<gen, inFlight, lease>>
      BY <2>3 DEF AddAccount, UpdateSequenceNumber
  <2>4. ASSUME NEW k \in Keys, MarkSequenceError(k) \/ ResetGuard(k)
        PROVE  UNCHANGED <<gen, inFlight, lease>>
      BY <2>4 DEF MarkSequenceError, ResetGuard, accountVars
  <2>5. ASSUME NEW k \in Keys, NEW b \in {"low", "enough"}, UpdateBalance(k, b)
        PROVE  UNCHANGED <<gen, inFlight, lease>>
      BY <2>5 DEF UpdateBalance
  <2>6. ASSUME NEW k \in Keys, NEW n \in Nonces, InitializeGuard(k, n)
        PROVE  UNCHANGED <<gen, inFlight, lease>>
      BY <2>6 DEF InitializeGuard, accountVars
  <2>7. CASE UNCHANGED vars
      BY <2>1, <2>7 DEF vars, accountVars
  <2> QED BY <2>1, <2>2, <2>3, <2>4, <2>5, <2>6, <2>7, AcquireCounts,
             ReleaseCounts, RemoveCounts DEF Next, Operation
<1> QED BY <1>1, <1>2, TypesHold, PTL DEF Spec

\* inFlight of a listed account is the number of open leases of its object,
\* whatever was removed and added again while leases were open.
THEOREM LeasesOfTheRightObject == Spec => []InFlightMatchesLeases
<1>1. PartTypes /\ CountsAgree => InFlightMatchesLeases
    BY DEF PartTypes, CountsAgree, InFlightMatchesLeases, Listed
<1> QED BY <1>1, CountsHold, TypesHold, PTL

-----------------------------------------------------------------------------
\* The bounds of the counters: the cursor is a place of the pool while it has
\* any, and no account object is used more than MaxUses times.
CursorInRange ==
    /\ roundRobinCursor \in 0 .. Cardinality(Keys)
    /\ Len(accounts) > 0 => roundRobinCursor < Len(accounts)
    /\ Len(accounts) = 0 => roundRobinCursor = 0
BoundsHold == CursorInRange /\ totalUses \in [Keys -> 0 .. MaxUses]

\* A selection leaves the cursor in the pool.
LEMMA SelectedCursor ==
    ASSUME PartTypes, CursorInRange, NEW i \in Indexes, NEW cursor \in 0 .. Cardinality(Keys),
           SelectAccount(i, cursor)
    PROVE  Len(accounts) > 0 /\ cursor < Len(accounts)
<1>1. Len(accounts) \in Nat /\ i \in Nat /\ Len(accounts) > 0 /\ Cardinality(Keys) \in Nat
    BY NodePoolAssumption, FS_CardinalityType DEF PartTypes, Indexes
<1>2. (i + 1) % Len(accounts) < Len(accounts)
    BY <1>1
<1>3. cursor = roundRobinCursor \/ cursor = (i + 1) % Len(accounts)
    BY DEF SelectAccount, RoundRobin
<1> QED BY <1>1, <1>2, <1>3 DEF CursorInRange

LEMMA BoundsStep == PartTypes /\ BoundsHold /\ [Next]_vars => BoundsHold'
<1> SUFFICES ASSUME PartTypes, BoundsHold, [Next]_vars PROVE BoundsHold'
    OBVIOUS
<1>0. Cardinality(Keys) \in Nat /\ Len(accounts) \in Nat /\ MaxUses \in Nat
    BY NodePoolAssumption, FS_CardinalityType DEF PartTypes
<1>1. ASSUME NEW h \in Holders, Acquire(h) PROVE BoundsHold'
  <2>1. PICK i \in Indexes, cursor \in 0 .. Cardinality(Keys) :
          /\ SelectAccount(i, cursor) /\ roundRobinCursor' = cursor /\ totalUses[At(i)] < MaxUses
          /\ totalUses' = [totalUses EXCEPT ![At(i)] = @ + 1]
      BY <1>1 DEF Acquire
  <2>2. accounts' = accounts
      BY <1>1 DEF Acquire
  <2>3. CursorInRange'
      BY <1>0, <2>1, <2>2, SelectedCursor DEF BoundsHold, CursorInRange
  <2>4. At(i) \in Keys
      BY AtIsKey DEF PartTypes
  <2>5. totalUses' \in [Keys -> 0 .. MaxUses]
      BY <1>0, <2>1, <2>4 DEF BoundsHold
  <2> QED BY <2>3, <2>5 DEF BoundsHold
<1>2. ASSUME NEW h \in Holders, AcquireRefused(h) PROVE BoundsHold'
  <2>1. PICK i \in Indexes, cursor \in 0 .. Cardinality(Keys) :
          SelectAccount(i, cursor) /\ roundRobinCursor' = cursor
      BY <1>2 DEF AcquireRefused
  <2>2. accounts' = accounts /\ totalUses' = totalUses
      BY <1>2 DEF AcquireRefused, accountVars
  <2> QED BY <1>0, <2>1, <2>2, SelectedCursor DEF BoundsHold, CursorInRange
<1>3. ASSUME NEW k \in Keys, NEW s \in Nonces \cup {Null}, AddAccount(k, s) PROVE BoundsHold'
  <2>1. Len(accounts') = Len(accounts) + 1 /\ UNCHANGED <<totalUses, roundRobinCursor>>
      BY <1>3 DEF AddAccount, PartTypes
  <2> QED BY <1>0, <2>1 DEF BoundsHold, CursorInRange
<1>4. ASSUME NEW k \in Keys, RemoveAccount(k) PROVE BoundsHold'
  <2> DEFINE n == Len(accounts)
  <2>1. Len(accounts') = n - 1 /\ n >= 1
    <3>1. PICK p \in 1 .. n : accounts' = SubSeq(accounts, 1, p - 1) \o SubSeq(accounts, p + 1, n)
        BY <1>4 DEF RemoveAccount, Discard
    <3>2. accounts \in Seq(Keys) /\ n \in Nat /\ p \in Nat /\ 1 <= p /\ p <= n
        BY <3>1 DEF PartTypes
    <3> DEFINE left == SubSeq(accounts, 1, p - 1)
               right == SubSeq(accounts, p + 1, n)
    <3>3. /\ left \in Seq(Keys) /\ Len(left) = p - 1
          /\ right \in Seq(Keys) /\ Len(right) = n - p
        BY <3>2
    <3> HIDE DEF left, right
    <3>4. Len(left \o right) = (p - 1) + (n - p)
        BY <3>3
    <3>5. accounts' = left \o right
        BY <3>1 DEF left, right
    <3>6. Len(accounts') = (p - 1) + (n - p)
        BY <3>4, <3>5
    <3> HIDE DEF n
    <3> QED BY <3>2, <3>6
  <2>2. roundRobinCursor' = IF n = 1 THEN 0 ELSE roundRobinCursor % (n - 1)
      BY <1>4 DEF RemoveAccount
  <2>3. roundRobinCursor \in 0 .. Cardinality(Keys)
      BY DEF BoundsHold, CursorInRange
  <2>4. totalUses' \in [Keys -> 0 .. MaxUses]
      BY <1>0, <1>4 DEF RemoveAccount, Discard, BoundsHold
  <2>5. CASE n = 1
      BY <1>0, <2>1, <2>2, <2>4, <2>5 DEF BoundsHold, CursorInRange
  <2>6. CASE n # 1
    <3>1. n - 1 \in Nat /\ n - 1 >= 1 /\ roundRobinCursor \in Nat
        BY <1>0, <2>1, <2>3, <2>6
    <3>2. /\ roundRobinCursor % (n - 1) \in Nat /\ roundRobinCursor % (n - 1) < n - 1
          /\ roundRobinCursor % (n - 1) <= roundRobinCursor
      <4> DEFINE m == n - 1
                 c == roundRobinCursor
      <4>1. m \in Nat /\ m >= 1 /\ c \in Nat
          BY <3>1
      <4> HIDE DEF m, c
      <4>2. c = m * (c \div m) + (c % m) /\ c % m \in Nat /\ c % m < m /\ c \div m \in Int
          BY <4>1
      <4>3. c \div m >= 0
          BY <4>1, <4>2
      <4>4. m * (c \div m) >= 0
          BY <4>1, <4>2, <4>3
      <4>5. c % m <= c
        <5> DEFINE a == m * (c \div m)
                   r == c % m
        <5>1. a \in Int /\ a >= 0 /\ r \in Nat /\ c = a + r
            BY <4>1, <4>2, <4>4
        <5> HIDE DEF a, r
        <5>2. r <= c
            BY <4>1, <5>1
        <5> QED BY <5>2 DEF r
      <4> QED BY <4>2, <4>5 DEF m, c
    <3>3. roundRobinCursor' \in 0 .. Cardinality(Keys) /\ roundRobinCursor' < n - 1
        BY <1>0, <2>2, <2>3, <2>6, <3>2
    <3> QED BY <2>1, <2>4, <3>1, <3>3 DEF BoundsHold, CursorInRange
  <2> QED BY <2>5, <2>6
<1>5. ASSUME UNCHANGED <<accounts, roundRobinCursor, totalUses>> PROVE BoundsHold'
    BY <1>5 DEF BoundsHold, CursorInRange
<1>6. ASSUME NEW h \in Holders, Release(h) PROVE BoundsHold'
    BY <1>5, <1>6 DEF Release
<1>7. ASSUME NEW k \in Keys, NEW s \in Nonces \cup {Null}, UpdateSequenceNumber(k, s) PROVE BoundsHold'
    BY <1>5, <1>7 DEF UpdateSequenceNumber
<1>8. ASSUME NEW k \in Keys, NEW b \in {"low", "enough"}, UpdateBalance(k, b) PROVE BoundsHold'
    BY <1>5, <1>8 DEF UpdateBalance
<1>9. ASSUME NEW k \in Keys, MarkSequenceError(k) \/ ResetGuard(k) PROVE BoundsHold'
    BY <1>5, <1>9 DEF MarkSequenceError, ResetGuard, accountVars
<1>10. ASSUME NEW k \in Keys, NEW n \in Nonces, InitializeGuard(k, n) PROVE BoundsHold'
    BY <1>5, <1>10 DEF InitializeGuard, accountVars
<1>11. CASE UNCHANGED vars
    BY <1>5, <1>11 DEF vars, accountVars
<1> QED BY <1>1, <1>2, <1>3, <1>4, <1>6, <1>7, <1>8, <1>9, <1>10, <1>11 DEF Next, Operation

\* The pool and its guard have their types, the cursor stays in the pool through any
\* additions and removals, and no account has more leases than there are holders
\* (TypeOK: signerPool.ts and nonceGuard.ts).
THEOREM NodePoolTypeCorrect == Spec => []TypeOK
<1>1. Init => BoundsHold
  <2> SUFFICES ASSUME Init PROVE BoundsHold
      OBVIOUS
  <2>1. Cardinality(Keys) \in Nat /\ MaxUses \in Nat
      BY NodePoolAssumption, FS_CardinalityType
  <2>2. PICK n \in 1 .. Cardinality(Keys) : accounts \in [1 .. n -> Keys]
      BY DEF Init
  <2>3. Len(accounts) = n /\ n \in Nat /\ n > 0
      BY <2>1, <2>2
  <2> QED BY <2>1, <2>3 DEF Init, BoundsHold, CursorInRange
<1>2. PartTypes /\ BoundsHold /\ CountsAgree => TypeOK
  <2> SUFFICES ASSUME PartTypes, BoundsHold, CountsAgree PROVE TypeOK
      OBVIOUS
  <2>1. ASSUME NEW k \in Keys PROVE inFlight[k] \in 0 .. Cardinality(Holders)
    <3>1. LeasesOf(k) \subseteq Holders
        BY DEF LeasesOf
    <3>2. Cardinality(LeasesOf(k)) <= Cardinality(Holders) /\ Cardinality(Holders) \in Nat
        BY <3>1, NodePoolAssumption, FS_Subset, FS_CardinalityType
    <3>3. inFlight[k] = Cardinality(LeasesOf(k)) /\ inFlight[k] \in Nat
        BY DEF CountsAgree, PartTypes
    <3> QED BY <3>2, <3>3
  <2>2. inFlight \in [Keys -> 0 .. Cardinality(Holders)]
      BY <2>1 DEF PartTypes
  <2> QED BY <2>2 DEF PartTypes, BoundsHold, CursorInRange, TypeOK
<1> QED BY <1>1, <1>2, BoundsStep, TypesHold, CountsHold, PTL DEF Spec
-----------------------------------------------------------------------------
(* The signer registry *)

Signers == EnvSigners \cup DbSigners
OpStates == {"find", "create", "pool_add", "delete", "pool_remove"}
RegOp == [at : OpStates, key : DbSigners]

\* A list of accounts holds every environment signer, and none twice.
ListSound(s) == s \in Seq(Signers) /\ IsInjective(s) /\ EnvSigners \subseteq Range(s)

\* Both lists are written by the same steps; requests are about database signers.
RegTypes ==
    /\ secretRows \in SUBSET DbSigners /\ ListSound(poolKeys) /\ payerKeys = poolKeys
    /\ DOMAIN regOp = RegAdmins /\ \A a \in RegAdmins : regOp[a] = NoOp \/ regOp[a] \in RegOp
    /\ regFaults \in 0 .. MaxRegFaults /\ torn \in SUBSET DbSigners /\ leftOut \in SUBSET DbSigners

\* The requests that are to change the pool for the signer k.
Pending(st, k) == {a \in RegAdmins : regOp[a].at = st /\ regOp[a].key = k}
Waiting(st, k) == Cardinality(Pending(st, k))
One(b) == IF b THEN 1 ELSE 0

PendingFinite == \A st \in OpStates, k \in DbSigners : IsFiniteSet(Pending(st, k))

\* The signers of which a restart left nothing, and of which no request failed half way.
Whole == DbSigners \ (torn \cup leftOut)

\* Their rows and pool entries differ by the requests between the two writes.
RowsBalance ==
    \A k \in Whole :
      One(k \in secretRows) + Waiting("pool_remove", k)
        = One(In(k, poolKeys)) + Waiting("pool_add", k)

\* A signer left behind has its row and no entry, and a request about it is
\* still before its look at the row.
LeftAlone ==
    \A k \in leftOut : /\ k \in secretRows /\ ~In(k, poolKeys)
                       /\ \A a \in RegAdmins : regOp[a] = NoOp \/ regOp[a].key # k \/ regOp[a].at = "find"

RegIndInv == RegTypes /\ PendingFinite /\ RowsBalance /\ LeftAlone

\* The environment's signers, each once.
LEMMA EnvSound == ListSound(Env) /\ Range(Env) = EnvSigners
<1> DEFINE S == EnvSigners
           n == Cardinality(S)
<1>1. IsFiniteSet(S) /\ n \in Nat /\ ExistsBijection(1 .. n, S)
    BY RegistryAssumption, FS_CardinalityType
<1>2. \E f \in [1 .. n -> S] : IsInjective(f)
    BY <1>1 DEF ExistsBijection, Bijection, Injection
<1>3. Env \in [1 .. n -> S] /\ IsInjective(Env)
    BY <1>2 DEF Env, SetToSeq
<1>4. Env \in Seq(S) /\ Env \in Seq(Signers) /\ DOMAIN Env = 1 .. n
    BY <1>1, <1>3 DEF Signers
<1>5. Env \in Injection(1 .. n, S)
    BY <1>3 DEF Injection
<1>6. IsFiniteSet(1 .. n) /\ Cardinality(1 .. n) = n /\ Cardinality(S) = n
    BY <1>1, FS_Interval
<1> HIDE DEF n, S
<1>7. Env \in Surjection(1 .. n, S)
    BY <1>1, <1>5, <1>6, FS_Injection
<1>8. Range(Env) = S
    BY <1>3, <1>4, <1>7 DEF Surjection, Range
<1> QED BY <1>3, <1>4, <1>8 DEF ListSound, S

\* A signer is added at the end.
LEMMA AddedSigner ==
    ASSUME NEW s, ListSound(s), NEW k \in Signers, ~In(k, s)
    PROVE  /\ ListSound(Append(s, k))
           /\ \A x : In(x, Append(s, k)) <=> In(x, s) \/ x = k
<1> DEFINE t == Append(s, k)
<1>1. /\ s \in Seq(Signers) /\ t \in Seq(Signers) /\ Len(s) \in Nat /\ DOMAIN t = 1 .. Len(s) + 1
      /\ DOMAIN s = 1 .. Len(s) /\ t[Len(s) + 1] = k /\ \A i \in DOMAIN s : t[i] = s[i]
    BY DEF ListSound
<1>2. \A i \in DOMAIN s : s[i] # k
    BY DEF In, Range
<1> HIDE DEF t
<1>3. IsInjective(t)
  <2>1. ASSUME NEW i \in DOMAIN t, NEW j \in DOMAIN t, t[i] = t[j] PROVE i = j
    <3>1. /\ i \in DOMAIN s \/ i = Len(s) + 1
          /\ j \in DOMAIN s \/ j = Len(s) + 1
        BY <1>1
    <3> QED BY <1>1, <1>2, <2>1, <3>1 DEF ListSound, IsInjective
  <2> QED BY <2>1 DEF IsInjective
<1>4. ASSUME NEW x PROVE In(x, t) <=> In(x, s) \/ x = k
  <2>1. In(x, t) <=> \E i \in DOMAIN t : t[i] = x
      BY DEF In, Range
  <2>2. In(x, s) <=> \E i \in DOMAIN s : s[i] = x
      BY DEF In, Range
  <2>3. \A i \in DOMAIN t : i \in DOMAIN s \/ i = Len(s) + 1
      BY <1>1
  <2>4. Len(s) + 1 \in DOMAIN t /\ \A i \in DOMAIN s : i \in DOMAIN t
      BY <1>1
  <2> QED BY <1>1, <2>1, <2>2, <2>3, <2>4
<1>5. EnvSigners \subseteq Range(t)
    BY <1>4 DEF ListSound, In
<1> QED BY <1>1, <1>3, <1>4, <1>5 DEF ListSound, t

\* A database signer is taken out, wherever it stands.
LEMMA RemovedSigner ==
    ASSUME NEW s, ListSound(s), NEW k \in DbSigners
    PROVE  /\ ListSound(Without(s, k))
           /\ \A x : In(x, Without(s, k)) <=> In(x, s) /\ x # k
<1> DEFINE I == {i \in DOMAIN s : s[i] # k}
           t == Picked(s, I)
           c == Cardinality(I)
<1>1. s \in Seq(Signers) /\ DOMAIN s = 1 .. Len(s) /\ I \in SUBSET (1 .. Len(s))
    BY DEF ListSound
<1>2. \A i \in DOMAIN s : i \in I <=> s[i] # k
    OBVIOUS
<1> HIDE DEF I
<1>3. c \in Nat /\ t \in Seq(Signers) /\ Len(t) = c
    BY <1>1, PickedPositions
<1>4. \E f \in [1 .. c -> I] :
        /\ \A m \in 1 .. c : t[m] = s[f[m]]
        /\ \A m, l \in 1 .. c : m < l => f[m] < f[l]
        /\ \A i \in I : \E m \in 1 .. c : f[m] = i
    BY <1>1, PickedPositions
<1> HIDE DEF t, c
<1>5. PICK f \in [1 .. c -> I] :
        /\ \A m \in 1 .. c : t[m] = s[f[m]]
        /\ \A m, l \in 1 .. c : m < l => f[m] < f[l]
        /\ \A i \in I : \E m \in 1 .. c : f[m] = i
    BY <1>4
<1>6. DOMAIN t = 1 .. c /\ \A m \in 1 .. c : f[m] \in I /\ f[m] \in DOMAIN s /\ f[m] \in Int /\ m \in Int
  <2>1. DOMAIN t = 1 .. c /\ \A m \in 1 .. c : m \in Int
      BY <1>3
  <2>2. \A m \in 1 .. c : f[m] \in I
      BY <1>5
  <2>3. \A i \in I : i \in DOMAIN s /\ i \in Int
      BY <1>1
  <2> QED BY <2>1, <2>2, <2>3
<1>7. ASSUME NEW m \in DOMAIN t, NEW l \in DOMAIN t, t[m] = t[l] PROVE m = l
  <2>1. f[m] = f[l]
      BY <1>5, <1>6, <1>7 DEF ListSound, IsInjective
  <2>2. ~(f[m] < f[l]) /\ ~(f[l] < f[m])
      BY <1>6, <2>1
  <2>3. ~(m < l) /\ ~(l < m)
      BY <1>5, <1>6, <2>2
  <2> QED BY <1>6, <2>3
<1>8. ASSUME NEW x PROVE In(x, t) <=> In(x, s) /\ x # k
  <2>1. In(x, t) <=> \E m \in DOMAIN t : t[m] = x
      BY DEF In, Range
  <2>2. In(x, s) <=> \E i \in DOMAIN s : s[i] = x
      BY DEF In, Range
  <2> QED BY <1>1, <1>2, <1>5, <1>6, <2>1, <2>2
<1>9. EnvSigners \subseteq Range(t)
    BY <1>8, RegistryAssumption DEF ListSound, In
<1>10. Without(s, k) = t
    BY DEF Without, t, I
<1> QED BY <1>3, <1>7, <1>8, <1>9, <1>10 DEF ListSound, IsInjective

\* The request of admin a goes on as op.
OpTo(a, op) ==
    DOMAIN regOp' = RegAdmins /\ regOp'[a] = op /\ \A b \in RegAdmins \ {a} : regOp'[b] = regOp[b]

LEMMA OpMoves ==
    ASSUME RegTypes, NEW a \in RegAdmins
    PROVE  /\ Ends(a) => OpTo(a, NoOp)
           /\ \A st \in OpStates : regOp[a] \in RegOp /\ RegTo(a, st)
                => OpTo(a, [at |-> st, key |-> regOp[a].key])
<1>1. Ends(a) => OpTo(a, NoOp)
    BY DEF RegTypes, Ends, OpTo
<1>2. ASSUME NEW st \in OpStates, regOp[a] \in RegOp, RegTo(a, st)
      PROVE  OpTo(a, [at |-> st, key |-> regOp[a].key])
  <2>1. [regOp[a] EXCEPT !.at = st] = [at |-> st, key |-> regOp[a].key]
      BY <1>2 DEF RegOp
  <2>2. regOp' = [regOp EXCEPT ![a] = [regOp[a] EXCEPT !.at = st]]
      BY <1>2 DEF RegTo
  <2> QED BY <2>1, <2>2 DEF RegTypes, OpTo
<1> QED BY <1>1, <1>2

\* How the counts follow: by one for the request that moved.
LEMMA WaitingMoves ==
    ASSUME RegTypes, PendingFinite, NEW a \in RegAdmins, NEW op, OpTo(a, op),
           NEW st \in OpStates, NEW k \in DbSigners
    PROVE  /\ IsFiniteSet(Pending(st, k)') /\ Waiting(st, k) \in Nat /\ Waiting(st, k)' \in Nat
           /\ Waiting(st, k)' + One(a \in Pending(st, k))
                = Waiting(st, k) + One(op.at = st /\ op.key = k)
<1> DEFINE P == Pending(st, k)
           Q == Pending(st, k)'
           R == P \ {a}
<1>1. IsFiniteSet(P)
    BY DEF PendingFinite
<1>2. /\ a \in Q <=> op.at = st /\ op.key = k
      /\ \A b \in RegAdmins \ {a} : b \in Q <=> b \in P
      /\ P \subseteq RegAdmins /\ Q \subseteq RegAdmins
    BY DEF OpTo, Pending
<1>3. Waiting(st, k) = Cardinality(P) /\ Waiting(st, k)' = Cardinality(Q)
    BY DEF Waiting
<1> HIDE DEF P, Q
<1>4. /\ IsFiniteSet(R) /\ Cardinality(R) = IF a \in P THEN Cardinality(P) - 1 ELSE Cardinality(P)
      /\ Cardinality(P) \in Nat
    BY <1>1, FS_RemoveElement, FS_CardinalityType
<1>5. Q = IF op.at = st /\ op.key = k THEN R \cup {a} ELSE R
    BY <1>2
<1>6. /\ IsFiniteSet(R \cup {a}) /\ Cardinality(R \cup {a}) = Cardinality(R) + 1
      /\ Cardinality(R) \in Nat
  <2>1. a \notin R
      OBVIOUS
  <2> HIDE DEF R
  <2> QED BY <1>4, <2>1, FS_AddElement, FS_CardinalityType
<1> HIDE DEF R
<1>7. IsFiniteSet(Q) /\ Cardinality(Q) \in Nat
    BY <1>4, <1>5, <1>6
<1>8. Cardinality(Q) = Cardinality(R) + One(op.at = st /\ op.key = k)
    BY <1>5, <1>6 DEF One
<1>9. Cardinality(P) = Cardinality(R) + One(a \in P)
    BY <1>4, <1>6 DEF One
<1>10. One(a \in P) \in Nat /\ One(op.at = st /\ op.key = k) \in Nat
    BY DEF One
<1> QED BY <1>3, <1>4, <1>6, <1>7, <1>8, <1>9, <1>10 DEF P, Q
\* The balance is kept by a step that moves row, pool and requests together.
LEMMA StepKeepsRegistry ==
    ASSUME RegIndInv, NEW a \in RegAdmins, NEW op, OpTo(a, op), op = NoOp \/ op \in RegOp,
           RegTypes', torn \subseteq torn', leftOut' = leftOut, LeftAlone',
           \A k \in Whole' :
             One(k \in secretRows') + One(op.at = "pool_remove" /\ op.key = k)
               + One(In(k, poolKeys)) + One(a \in Pending("pool_add", k))
             = One(k \in secretRows) + One(a \in Pending("pool_remove", k))
               + One(In(k, poolKeys')) + One(op.at = "pool_add" /\ op.key = k)
    PROVE  RegIndInv'
<1>1. PendingFinite'
    BY WaitingMoves DEF RegIndInv, PendingFinite
<1>2. ASSUME NEW k \in Whole'
      PROVE  One(k \in secretRows') + Waiting("pool_remove", k)' = One(In(k, poolKeys')) + Waiting("pool_add", k)'
  <2> DEFINE r == Waiting("pool_remove", k)
             s == Waiting("pool_add", k)
             r1 == Waiting("pool_remove", k)'
             s1 == Waiting("pool_add", k)'
             inR == One(a \in Pending("pool_remove", k))
             inS == One(a \in Pending("pool_add", k))
             opR == One(op.at = "pool_remove" /\ op.key = k)
             opS == One(op.at = "pool_add" /\ op.key = k)
             rowOf == One(k \in secretRows)
             rowOf1 == One(k \in secretRows')
             pool == One(In(k, poolKeys))
             pool1 == One(In(k, poolKeys'))
  <2>0. k \in Whole /\ k \in DbSigners
      BY <1>2 DEF Whole
  <2>1. r \in Nat /\ r1 \in Nat /\ r1 + inR = r + opR
      BY <2>0, WaitingMoves DEF RegIndInv, OpStates
  <2>2. s \in Nat /\ s1 \in Nat /\ s1 + inS = s + opS
      BY <2>0, WaitingMoves DEF RegIndInv, OpStates
  <2>3. rowOf + r = pool + s
      BY <2>0 DEF RegIndInv, RowsBalance
  <2>4. rowOf1 + opR + pool + inS = rowOf + inR + pool1 + opS
      BY <1>2
  <2>5. /\ inR \in Nat /\ inS \in Nat /\ opR \in Nat /\ opS \in Nat
        /\ rowOf \in Nat /\ rowOf1 \in Nat /\ pool \in Nat /\ pool1 \in Nat
      BY DEF One
  <2> HIDE DEF r, s, r1, s1, inR, inS, opR, opS, rowOf, rowOf1, pool, pool1
  <2>6. rowOf1 + r1 = pool1 + s1
      BY <2>1, <2>2, <2>3, <2>4, <2>5
  <2> QED BY <2>6 DEF rowOf1, r1, pool1, s1
<1>3. RowsBalance'
    BY <1>2 DEF RowsBalance
<1> QED BY <1>1, <1>3 DEF RegIndInv

\* A step that touches neither row nor entry of a signer left behind leaves it alone.
LEMMA LeftStays ==
    ASSUME RegIndInv, NEW a \in RegAdmins, NEW op, OpTo(a, op), leftOut' = leftOut,
           \A k \in leftOut : /\ k \in secretRows' <=> k \in secretRows
                              /\ In(k, poolKeys') <=> In(k, poolKeys)
                              /\ op = NoOp \/ op.key # k \/ op.at = "find"
    PROVE  LeftAlone'
<1> SUFFICES ASSUME NEW k \in leftOut, NEW b \in RegAdmins
             PROVE  /\ k \in secretRows' /\ ~In(k, poolKeys')
                    /\ regOp'[b] = NoOp \/ regOp'[b].key # k \/ regOp'[b].at = "find"
    BY DEF LeftAlone, RegIndInv
<1>1. CASE b = a
    BY <1>1 DEF LeftAlone, RegIndInv, OpTo
<1>2. CASE b # a
    BY <1>2 DEF LeftAlone, RegIndInv, OpTo
<1> QED BY <1>1, <1>2

LEMMA RequestKeepsRegistry ==
    ASSUME RegIndInv, NEW a \in RegAdmins,
           \/ \E k \in DbSigners \cup EnvSigners : addSigner(a, k) \/ removeSigner(a, k)
           \/ findUnique(a) \/ dbThrows(a)
    PROVE  RegIndInv'
<1>1. RegTypes
    BY DEF RegIndInv
<1>2. /\ UNCHANGED <<secretRows, poolKeys, payerKeys, torn, leftOut>> /\ regFaults' \in 0 .. MaxRegFaults
      /\ regOp[a].at \in {"idle", "find", "create", "delete"}
    BY <1>1, RegistryAssumption DEF addSigner, removeSigner, findUnique, dbThrows, RegFault, NoOp, RegTypes
<1> DEFINE Asked(op) == /\ op \in RegOp /\ op.at \in {"find", "create", "delete"}
                        /\ op.at = "find" \/ op.key \notin leftOut
<1>3. PICK op : OpTo(a, op) /\ (op = NoOp \/ Asked(op))
  <2>1. ASSUME NEW k \in DbSigners, NEW st \in {"find", "create", "delete"}
        PROVE  st = "find" \/ k \notin leftOut => Asked([at |-> st, key |-> k])
      BY DEF RegOp, OpStates
  <2> HIDE DEF Asked
  <2>2. ASSUME NEW k \in DbSigners \cup EnvSigners, addSigner(a, k) \/ removeSigner(a, k)
        PROVE  \E op : OpTo(a, op) /\ Asked(op)
    <3>1. k \in DbSigners
        BY <1>1, <2>2 DEF addSigner, removeSigner, RegTypes, ListSound, In
    <3>2. PICK st \in {"find", "delete"} :
            /\ regOp' = [regOp EXCEPT ![a] = [at |-> st, key |-> k]]
            /\ st = "delete" => In(k, payerKeys)
        BY <2>2 DEF addSigner, removeSigner
    <3>5. st = "find" \/ k \notin leftOut
        BY <1>1, <3>2 DEF RegIndInv, LeftAlone, RegTypes
    <3> DEFINE op == [at |-> st, key |-> k]
    <3>3. Asked(op)
        BY <2>1, <3>1, <3>5
    <3> HIDE DEF op
    <3>4. OpTo(a, op)
        BY <1>1, <3>2 DEF RegTypes, OpTo, op
    <3> QED BY <3>3, <3>4
  <2>3. CASE findUnique(a)
    <3>1. regOp[a] \in RegOp /\ regOp[a].key \in DbSigners
        BY <1>1, <2>3 DEF findUnique, RegTypes, NoOp, RegOp
    <3> DEFINE op == [at |-> "create", key |-> regOp[a].key]
    <3>2. CASE regOp[a].key \in secretRows
      <4>1. OpTo(a, NoOp)
          BY <1>1, <2>3, <3>2, OpMoves DEF findUnique
      <4> QED BY <4>1
    <3>3. CASE regOp[a].key \notin secretRows
      <4>1. regOp[a].key \notin leftOut
          BY <3>3 DEF RegIndInv, LeftAlone
      <4>2. Asked(op)
          BY <2>1, <3>1, <4>1
      <4>3. OpTo(a, op)
          BY <1>1, <2>3, <3>1, <3>3, OpMoves DEF findUnique, OpStates
      <4> HIDE DEF op
      <4> QED BY <4>2, <4>3
    <3> QED BY <3>2, <3>3
  <2>4. CASE dbThrows(a)
      BY <1>1, <2>4, OpMoves DEF dbThrows
  <2> QED BY <2>2, <2>3, <2>4
<1>4. RegTypes'
    BY <1>1, <1>2, <1>3 DEF RegTypes, OpTo, ListSound
<1>5. \A k \in DbSigners :
        /\ ~(op.at = "pool_remove" /\ op.key = k) /\ ~(op.at = "pool_add" /\ op.key = k)
        /\ a \notin Pending("pool_remove", k) /\ a \notin Pending("pool_add", k)
    BY <1>2, <1>3 DEF Pending, NoOp
<1>6. LeftAlone'
    BY <1>2, <1>3, LeftStays
<1> HIDE DEF Asked
<1> QED BY <1>2, <1>3, <1>4, <1>5, <1>6, StepKeepsRegistry DEF One, Whole, Asked

LEMMA RowStepKeepsRegistry ==
    ASSUME RegIndInv, NEW a \in RegAdmins, createRow(a) \/ deleteRow(a)
    PROVE  RegIndInv'
<1>1. RegTypes
    BY DEF RegIndInv
<1>2. /\ UNCHANGED <<poolKeys, payerKeys, torn, leftOut, regFaults>> /\ regOp[a].at \in {"create", "delete"}
      /\ regOp[a] \in RegOp
    BY <1>1 DEF createRow, deleteRow, RegTypes, NoOp
<1> DEFINE key == regOp[a].key
<1>3. key \in DbSigners /\ \A k : a \notin Pending("pool_remove", k) /\ a \notin Pending("pool_add", k)
    BY <1>2 DEF RegOp, Pending
<1>7. key \notin leftOut
    BY <1>2 DEF RegIndInv, LeftAlone, NoOp, RegOp
<1>4. CASE secretRows' = secretRows /\ Ends(a)
  <2>1. OpTo(a, NoOp)
      BY <1>1, <1>4, OpMoves
  <2>2. RegTypes'
      BY <1>1, <1>2, <1>4, <2>1 DEF RegTypes, OpTo, ListSound
  <2>3. LeftAlone'
      BY <1>2, <1>4, <2>1, LeftStays
  <2> QED BY <1>2, <1>3, <1>4, <2>1, <2>2, <2>3, StepKeepsRegistry DEF One, NoOp, Whole
<1>5. CASE createRow(a) /\ CreateUnique(a)
  <2> DEFINE op == [at |-> "pool_add", key |-> key]
  <2>1. OpTo(a, op) /\ op \in RegOp /\ secretRows' = secretRows \cup {key} /\ key \notin secretRows
      BY <1>1, <1>2, <1>3, <1>5, OpMoves DEF createRow, CreateUnique, OpStates, RegOp
  <2> HIDE DEF key
  <2>2. RegTypes'
      BY <1>1, <1>2, <1>3, <2>1 DEF RegTypes, OpTo, ListSound
  <2>3. \A k \in DbSigners : /\ op.at = "pool_add" /\ op.at # "pool_remove" /\ (op.key = k <=> k = key)
                             /\ k \in secretRows' <=> k \in secretRows \/ k = key
      BY <2>1
  <2>5. LeftAlone'
      BY <1>2, <1>7, <2>1, <2>3, LeftStays
  <2> HIDE DEF op
  <2>4. \A k \in DbSigners :
          One(k \in secretRows') + One(op.at = "pool_remove" /\ op.key = k)
            + One(In(k, poolKeys)) + One(a \in Pending("pool_add", k))
          = One(k \in secretRows) + One(a \in Pending("pool_remove", k))
            + One(In(k, poolKeys')) + One(op.at = "pool_add" /\ op.key = k)
      BY <1>2, <1>3, <2>1, <2>3 DEF One
  <2> QED BY <1>2, <2>1, <2>2, <2>4, <2>5, StepKeepsRegistry DEF Whole
<1>6. CASE deleteRow(a) /\ key \in secretRows
  <2> DEFINE op == [at |-> "pool_remove", key |-> key]
  <2>1. OpTo(a, op) /\ op \in RegOp /\ secretRows' = secretRows \ {key} /\ key \in secretRows
      BY <1>1, <1>2, <1>3, <1>6, OpMoves DEF deleteRow, OpStates, RegOp
  <2> HIDE DEF key
  <2>2. RegTypes'
      BY <1>1, <1>2, <1>3, <2>1 DEF RegTypes, OpTo, ListSound
  <2>3. \A k \in DbSigners : /\ op.at = "pool_remove" /\ op.at # "pool_add" /\ (op.key = k <=> k = key)
                             /\ k \in secretRows' <=> k \in secretRows /\ k # key
      BY <2>1
  <2>5. LeftAlone'
      BY <1>2, <1>7, <2>1, <2>3, LeftStays
  <2> HIDE DEF op
  <2>4. \A k \in DbSigners :
          One(k \in secretRows') + One(op.at = "pool_remove" /\ op.key = k)
            + One(In(k, poolKeys)) + One(a \in Pending("pool_add", k))
          = One(k \in secretRows) + One(a \in Pending("pool_remove", k))
            + One(In(k, poolKeys')) + One(op.at = "pool_add" /\ op.key = k)
      BY <1>2, <1>3, <2>1, <2>3 DEF One
  <2> QED BY <1>2, <2>1, <2>2, <2>4, <2>5, StepKeepsRegistry DEF Whole
<1> QED BY <1>4, <1>5, <1>6 DEF createRow, deleteRow

LEMMA PoolStepKeepsRegistry ==
    ASSUME RegIndInv, NEW a \in RegAdmins, poolAdd(a) \/ poolRemove(a)
    PROVE  RegIndInv'
<1> DEFINE key == regOp[a].key
<1>1. RegTypes
    BY DEF RegIndInv
<1>2. /\ UNCHANGED <<secretRows, regFaults, leftOut>> /\ OpTo(a, NoOp)
      /\ regOp[a] \in RegOp /\ key \in DbSigners
    BY <1>1, OpMoves DEF poolAdd, poolRemove, RegTypes, NoOp, RegOp
<1>6. key \notin leftOut
    BY <1>2 DEF RegIndInv, LeftAlone, NoOp, RegOp, poolAdd, poolRemove
<1>3. CASE UNCHANGED <<poolKeys, payerKeys>> /\ torn' = torn \cup {key}
  <2>1. RegTypes'
      BY <1>1, <1>2, <1>3 DEF RegTypes, OpTo, ListSound
  <2>2. LeftAlone'
      BY <1>2, <1>3, LeftStays
  <2>3. \A k \in Whole' : a \notin Pending("pool_add", k) /\ a \notin Pending("pool_remove", k)
      BY <1>3 DEF Whole, Pending
  <2> QED BY <1>2, <1>3, <2>1, <2>2, <2>3, StepKeepsRegistry DEF One, NoOp
<1>4. CASE poolAdd(a) /\ PoolLacks(key)
  <2>1. /\ poolKeys' = Append(poolKeys, key) /\ payerKeys' = Append(payerKeys, key) /\ torn' = torn
        /\ regOp[a].at = "pool_add" /\ ~In(key, poolKeys) /\ key \in Signers
      BY <1>2, <1>4 DEF poolAdd, PoolLacks, Signers
  <2>2. \A k \in DbSigners : /\ a \in Pending("pool_add", k) <=> k = key
                             /\ a \notin Pending("pool_remove", k)
      BY <2>1 DEF Pending
  <2> HIDE DEF key
  <2>3. ListSound(poolKeys') /\ \A k : In(k, poolKeys') <=> In(k, poolKeys) \/ k = key
      BY <1>1, <2>1, AddedSigner DEF RegTypes
  <2>4. RegTypes'
      BY <1>1, <1>2, <2>1, <2>3 DEF RegTypes, OpTo
  <2>6. LeftAlone'
      BY <1>2, <1>6, <2>1, <2>3, LeftStays DEF key
  <2>5. \A k \in DbSigners :
          One(k \in secretRows') + One(NoOp.at = "pool_remove" /\ NoOp.key = k)
            + One(In(k, poolKeys)) + One(a \in Pending("pool_add", k))
          = One(k \in secretRows) + One(a \in Pending("pool_remove", k))
            + One(In(k, poolKeys')) + One(NoOp.at = "pool_add" /\ NoOp.key = k)
      BY <1>2, <2>1, <2>2, <2>3 DEF One, NoOp
  <2> QED BY <1>2, <2>1, <2>4, <2>5, <2>6, StepKeepsRegistry DEF Whole
<1>5. CASE poolRemove(a) /\ ~PoolLacks(key)
  <2>1. /\ poolKeys' = Without(poolKeys, key) /\ payerKeys' = Without(payerKeys, key) /\ torn' = torn
        /\ regOp[a].at = "pool_remove" /\ In(key, poolKeys)
      BY <1>2, <1>5 DEF poolRemove, PoolLacks, PayersWithout
  <2>2. \A k \in DbSigners : /\ a \in Pending("pool_remove", k) <=> k = key
                             /\ a \notin Pending("pool_add", k)
      BY <2>1 DEF Pending
  <2> HIDE DEF key
  <2>3. ListSound(poolKeys') /\ \A k : In(k, poolKeys') <=> In(k, poolKeys) /\ k # key
      BY <1>1, <1>2, <2>1, RemovedSigner DEF RegTypes
  <2>4. RegTypes'
      BY <1>1, <1>2, <2>1, <2>3 DEF RegTypes, OpTo
  <2>6. LeftAlone'
      BY <1>2, <1>6, <2>1, <2>3, LeftStays DEF key
  <2>5. \A k \in DbSigners :
          One(k \in secretRows') + One(NoOp.at = "pool_remove" /\ NoOp.key = k)
            + One(In(k, poolKeys)) + One(a \in Pending("pool_add", k))
          = One(k \in secretRows) + One(a \in Pending("pool_remove", k))
            + One(In(k, poolKeys')) + One(NoOp.at = "pool_add" /\ NoOp.key = k)
      BY <1>2, <2>1, <2>2, <2>3 DEF One, NoOp
  <2> QED BY <1>2, <2>1, <2>4, <2>5, <2>6, StepKeepsRegistry DEF Whole
<1> QED BY <1>3, <1>4, <1>5 DEF poolAdd, poolRemove

\* Nothing is pending and nothing is in the rows or in the pool.
LEMMA FreshRegistry ==
    ASSUME \A a \in RegAdmins : regOp[a] = NoOp, poolKeys = Env, secretRows \subseteq DbSigners
    PROVE  /\ PendingFinite
           /\ leftOut = secretRows => RowsBalance /\ LeftAlone
<1>1. \A st \in OpStates : \A k : Pending(st, k) = {}
    BY DEF Pending, NoOp, OpStates
<1>2. IsFiniteSet({}) /\ Cardinality({}) = 0
    BY FS_EmptySet
<1>3. \A k \in DbSigners : ~In(k, poolKeys)
    BY EnvSound, RegistryAssumption DEF In
<1> QED BY <1>1, <1>2, <1>3 DEF PendingFinite, RowsBalance, LeftAlone, Whole, Waiting, One, OpStates

\* However adds and removes of a signer interleave, fail and are cut off by a
\* restart: rows, pool and account list agree, but for a signer of which a request
\* failed half way; one that a restart left behind keeps its row and stays out of
\* the pool (signerRegistry.ts).
THEOREM RegistryAgrees == RegSpec => []RegInv
<1>1. RegInit => RegIndInv
  <2> SUFFICES ASSUME RegInit PROVE RegIndInv
      OBVIOUS
  <2>1. RegTypes
    <3>1. ListSound(poolKeys) /\ payerKeys = poolKeys
        BY EnvSound DEF RegInit
    <3>2. 0 \in 0 .. MaxRegFaults
        BY RegistryAssumption
    <3>3. DOMAIN regOp = RegAdmins /\ \A a \in RegAdmins : regOp[a] = NoOp
        BY DEF RegInit
    <3> QED BY <3>1, <3>2, <3>3 DEF RegInit, RegTypes
  <2>2. PendingFinite /\ RowsBalance /\ LeftAlone
      BY FreshRegistry DEF RegInit
  <2> QED BY <2>1, <2>2 DEF RegIndInv
<1>2. RegIndInv /\ [RegNext]_regVars => RegIndInv'
  <2> SUFFICES ASSUME RegIndInv, [RegNext]_regVars PROVE RegIndInv'
      OBVIOUS
  <2>1. CASE UNCHANGED regVars
      BY <2>1 DEF regVars, RegIndInv, RegTypes, ListSound, PendingFinite, RowsBalance, LeftAlone, Whole, Pending, Waiting
  <2>2. CASE Restart
    <3>1. RegTypes'
        BY <2>2, EnvSound, RegistryAssumption DEF Restart, RegFault, RegIndInv, RegTypes, ListSound
    <3>2. (\A a \in RegAdmins : regOp[a] = NoOp)' /\ (poolKeys = Env)' /\ (secretRows \subseteq DbSigners)'
        BY <2>2 DEF Restart, Env, SetToSeq, RegIndInv, RegTypes
    <3>3. PendingFinite' /\ (leftOut = secretRows => RowsBalance /\ LeftAlone)'
        BY <3>2, FreshRegistry, PTL
    <3> QED BY <2>2, <3>1, <3>3 DEF Restart, RegIndInv
  <2>3. CASE RegNext
      BY <2>2, <2>3, RequestKeepsRegistry, RowStepKeepsRegistry, PoolStepKeepsRegistry DEF RegNext
  <2> QED BY <2>1, <2>3
<1>3. RegIndInv => RegInv
  <2> SUFFICES ASSUME RegIndInv PROVE RegInv
      OBVIOUS
  <2>1. RegTypeOK
      BY DEF RegIndInv, RegTypes, ListSound, RegTypeOK, Range, Signers
  <2>2. PoolMatchesPayers
      BY DEF RegIndInv, RegTypes, ListSound, PoolMatchesPayers
  <2>3. ASSUME \A a \in RegAdmins : regOp[a] = NoOp, NEW k \in DbSigners \ torn
        PROVE  k \in secretRows <=> In(k, poolKeys) \/ k \in leftOut
    <3>1. \A st \in OpStates : Pending(st, k) = {}
        BY <2>3 DEF Pending, NoOp, OpStates
    <3>2. CASE k \in leftOut
        BY <3>2 DEF RegIndInv, LeftAlone
    <3>3. CASE k \notin leftOut
        BY <3>1, <3>3, FS_EmptySet DEF RegIndInv, RowsBalance, Whole, Waiting, One, OpStates
    <3> QED BY <3>2, <3>3
  <2>4. LeftBehind
      BY DEF RegIndInv, RegTypes, LeftAlone, LeftBehind, In
  <2> QED BY <2>1, <2>2, <2>3, <2>4 DEF RowsMatchPool, RegInv
<1> QED BY <1>1, <1>2, <1>3, PTL DEF RegSpec
=============================================================================

----------------------- MODULE NodePartsProofs -----------------------------
(***************************************************************************)
(* Theorems about the parts of the Node server that keep books of their    *)
(* own, each for any value of its constants: the idempotency store,        *)
(* webhook delivery, the treasury, cross-chain settlement, the rate limit, *)
(* the ledger and incident monitors, and what is kept for a tenant.        *)
(***************************************************************************)
EXTENDS MCParts, FiniteSetTheorems, FunctionTheorems, SequenceTheorems,
        WellFoundedInduction, TLAPS

\* A finite set that is not empty has an element with the smallest value.
LEMMA SmallestElement ==
    ASSUME NEW S, IsFiniteSet(S), S # {}, NEW f \in [S -> Int]
    PROVE  \E j \in S : \A i \in S : f[j] <= f[i]
<1> DEFINE Below(j) == {i \in S : f[i] <= f[j]}
           Family == {Below(j) : j \in S}
<1>1. Family \subseteq FiniteSubsetsOf(S)
  <2>1. \A j \in S : Below(j) \in SUBSET S /\ IsFiniteSet(Below(j))
      BY FS_Subset
  <2> QED BY <2>1 DEF FiniteSubsetsOf
<1>2. Family # {}
  <2>1. PICK j \in S : TRUE
      OBVIOUS
  <2>2. Below(j) \in Family
      BY <2>1
  <2> QED BY <2>2
<1>3. IsWellFoundedOn(StrictSubsetOrdering(S), FiniteSubsetsOf(S))
    BY FS_StrictSubsetOrderingWellFounded
<1> HIDE DEF Family
<1>4. PICK B \in Family : \A C \in Family : ~(<<C, B>> \in StrictSubsetOrdering(S))
    BY <1>1, <1>2, <1>3, WFMin
<1>5. PICK j \in S : B = Below(j)
    BY <1>4 DEF Family
<1>6. ASSUME NEW i \in S, f[i] < f[j] PROVE FALSE
  <2>1. Below(i) \in Family /\ Below(i) \subseteq B /\ j \in B /\ j \notin Below(i)
      BY <1>5, <1>6 DEF Family
  <2>2. Below(i) \in SUBSET S /\ B \in SUBSET S
      BY <1>5
  <2>3. <<Below(i), B>> \in StrictSubsetOrdering(S)
      BY <2>1, <2>2 DEF StrictSubsetOrdering
  <2> QED BY <1>4, <2>1, <2>3
<1> QED BY <1>6
-----------------------------------------------------------------------------
LEMMA IdemTypeStep == IdemTypeOK /\ [IdemNext]_idemVars => IdemTypeOK'
<1> SUFFICES ASSUME IdemTypeOK, [IdemNext]_idemVars PROVE IdemTypeOK'
    OBVIOUS
<1> DEFINE Entry == [status : {"none", "IN_PROGRESS", "COMPLETED"}, expiresAt : Nat, born : Nat]
<1>0. NoEntry \in Entry
    BY DEF NoEntry
<1>1. CASE IdemTick
    BY <1>1 DEF IdemTick, IdemTypeOK
<1>2. ASSUME NEW r \in IdemRequests, NEW k \in IdemKeys, AnswerFromCache(r, k)
      PROVE  IdemTypeOK'
    BY <1>2 DEF AnswerFromCache, IdemTypeOK
<1>3. ASSUME NEW r \in IdemRequests, NEW k \in IdemKeys, StartHandler(r, k)
      PROVE  IdemTypeOK'
  <2>1. Cardinality(served) \in Nat
    <3>1. IsFiniteSet(served)
        BY FS_Subset, IdempotencyAssumption DEF IdemTypeOK
    <3> QED BY <3>1, FS_CardinalityType
  <2>2. [status |-> "IN_PROGRESS", expiresAt |-> clock + ttl, born |-> Cardinality(served)]
          \in Entry
      BY <2>1, IdempotencyAssumption DEF IdemTypeOK
  <2>3. cache' \in [IdemKeys -> Entry]
      BY <1>0, <1>3, <2>2 DEF StartHandler, IdemTypeOK
  <2>4. dropped' \in [IdemKeys -> Nat]
      BY <1>3 DEF StartHandler, IdemTypeOK
  <2> QED BY <1>3, <2>3, <2>4 DEF StartHandler, IdemTypeOK
<1>4. ASSUME NEW r \in IdemRequests, finishRequest(r) PROVE IdemTypeOK'
  <2> DEFINE k == handling[r]
  <2>1. k \in IdemKeys
      BY <1>4 DEF finishRequest, IdemTypeOK
  <2>2. FinishedEntry(k) \in Entry
    <3>1. cache[k] \in Entry /\ clock + ttl \in Nat
        BY <2>1, IdempotencyAssumption DEF IdemTypeOK
    <3>2. [cache[k] EXCEPT !.status = "COMPLETED", !.expiresAt = clock + ttl] \in Entry
        BY <3>1
    <3> QED BY <1>0, <3>2 DEF FinishedEntry
  <2>3. cache' \in [IdemKeys -> Entry]
      BY <1>4, <2>1, <2>2 DEF finishRequest, IdemTypeOK
  <2>4. completed' \in [IdemKeys -> Nat]
      BY <1>4, <2>1 DEF finishRequest, IdemTypeOK
  <2>5. handling' \in [IdemRequests -> IdemKeys \cup {NoKey}]
      BY <1>4 DEF finishRequest, IdemTypeOK
  <2> QED BY <1>4, <2>3, <2>4, <2>5 DEF finishRequest, IdemTypeOK
<1>5. ASSUME NEW r \in IdemRequests, failRequest(r) PROVE IdemTypeOK'
  <2>1. cache' \in [IdemKeys -> Entry]
      BY <1>0, <1>5 DEF failRequest, IdemTypeOK
  <2>2. handling' \in [IdemRequests -> IdemKeys \cup {NoKey}]
      BY <1>5 DEF failRequest, IdemTypeOK
  <2> QED BY <1>5, <2>1, <2>2 DEF failRequest, IdemTypeOK
<1>6. CASE UNCHANGED idemVars
    BY <1>6 DEF idemVars, IdemTypeOK
<1> QED BY <1>1, <1>2, <1>3, <1>4, <1>5, <1>6 DEF IdemNext
-----------------------------------------------------------------------------
\* The entry of a key, if there is one, accounts for one handler; all others
\* that ran or run are accounted for by entries that were dropped.
Accounted(k) ==
    completed[k] + Cardinality(Handlers(k)) <= (IF k \in Cached THEN 1 ELSE 0) + dropped[k]

EntriesAccountForHandlers == \A k \in IdemKeys : Accounted(k)

CachedFinite == IsFiniteSet(Cached)

LEMMA HandlersFinite ==
    ASSUME NEW k
    PROVE  IsFiniteSet(Handlers(k)) /\ Cardinality(Handlers(k)) \in Nat
<1>1. Handlers(k) \in SUBSET IdemRequests
    BY DEF Handlers
<1> QED BY <1>1, IdempotencyAssumption, FS_Subset, FS_CardinalityType

\* beginRequest for k: the entries that are there afterwards.
LEMMA StartCached ==
    ASSUME IdemTypeOK, NEW r \in IdemRequests, NEW k \in IdemKeys, StartHandler(r, k)
    PROVE  Cached' = (Cached \ Evicted(k)) \cup {k}
<1> DEFINE new == [status |-> "IN_PROGRESS", expiresAt |-> clock + ttl,
                   born |-> Cardinality(served)]
<1>1. new # NoEntry
    BY DEF NoEntry
<1> HIDE DEF new
<1>2. \A j \in IdemKeys : cache'[j] = IF j = k THEN new
                                      ELSE IF j \in Evicted(k) THEN NoEntry ELSE cache[j]
    BY DEF StartHandler, new
<1> QED BY <1>1, <1>2 DEF Cached

\* finishRequest keeps the entries that are there.
LEMMA FinishCached ==
    ASSUME IdemTypeOK, NEW r \in IdemRequests, finishRequest(r)
    PROVE  Cached' = Cached
<1> DEFINE k == handling[r]
<1>1. k \in IdemKeys
    BY DEF finishRequest, IdemTypeOK
<1>2. \A j \in IdemKeys : cache'[j] = IF j = k THEN FinishedEntry(k) ELSE cache[j]
    BY <1>1 DEF finishRequest, IdemTypeOK
<1>3. k \in Cached => FinishedEntry(k) # NoEntry
  <2> SUFFICES ASSUME k \in Cached PROVE FinishedEntry(k).status # NoEntry.status
      OBVIOUS
  <2>1. cache[k] \in [status : {"none", "IN_PROGRESS", "COMPLETED"}, expiresAt : Nat, born : Nat]
      BY <1>1 DEF IdemTypeOK
  <2>2. FinishedEntry(k) = [cache[k] EXCEPT !.status = "COMPLETED", !.expiresAt = clock + ttl]
      BY DEF FinishedEntry
  <2>3. FinishedEntry(k).status = "COMPLETED"
      BY <2>1, <2>2
  <2> QED BY <2>3 DEF NoEntry
<1>4. k \notin Cached => FinishedEntry(k) = NoEntry
    BY DEF FinishedEntry
<1> QED BY <1>1, <1>2, <1>3, <1>4 DEF Cached

LEMMA FailCached ==
    ASSUME IdemTypeOK, NEW r \in IdemRequests, failRequest(r)
    PROVE  Cached' = Cached \ {handling[r]} /\ handling[r] \in IdemKeys
BY DEF failRequest, IdemTypeOK, Cached

\* beginRequest, finishRequest and failRequest keep the account of each key.
LEMMA StartKeepsAccount ==
    ASSUME IdemTypeOK, EntriesAccountForHandlers,
           NEW r \in IdemRequests, NEW k \in IdemKeys, StartHandler(r, k)
    PROVE  EntriesAccountForHandlers'
<1> SUFFICES ASSUME NEW j \in IdemKeys PROVE Accounted(j)'
    BY DEF EntriesAccountForHandlers
<1>1. /\ completed[j] \in Nat /\ dropped[j] \in Nat /\ completed' = completed
      /\ dropped'[j] = IF j \in Evicted(k) THEN dropped[j] + 1 ELSE dropped[j]
    BY DEF IdemTypeOK, StartHandler
<1>2. Evicted(k) \subseteq Cached
    BY DEF Evicted, Expired
<1>3. k \in Cached => k \in Evicted(k)
    BY DEF StartHandler, Hit, Evicted
<1>4. completed[j] + Cardinality(Handlers(j)) <= (IF j \in Cached THEN 1 ELSE 0) + dropped[j]
    BY DEF EntriesAccountForHandlers, Accounted
<1>5. /\ IsFiniteSet(Handlers(j)) /\ Cardinality(Handlers(j)) \in Nat
      /\ Cardinality(Handlers(j)') \in Nat
  <2>1. IsFiniteSet(Handlers(j)')
    <3>1. Handlers(j)' \in SUBSET IdemRequests
        BY DEF Handlers
    <3> QED BY <3>1, IdempotencyAssumption, FS_Subset
  <2> QED BY <2>1, HandlersFinite, FS_CardinalityType
<1>6. CASE j = k
  <2>1. Handlers(j)' \subseteq Handlers(j) \cup {r}
      BY DEF Handlers, StartHandler, IdemTypeOK
  <2>2. Cardinality(Handlers(j)') <= Cardinality(Handlers(j)) + 1
    <3>1. /\ IsFiniteSet(Handlers(j) \cup {r})
          /\ Cardinality(Handlers(j) \cup {r}) <= Cardinality(Handlers(j)) + 1
      <4>1. /\ IsFiniteSet(Handlers(j) \cup {r})
            /\ Cardinality(Handlers(j) \cup {r}) =
                 IF r \in Handlers(j) THEN Cardinality(Handlers(j))
                 ELSE Cardinality(Handlers(j)) + 1
          BY <1>5, FS_AddElement
      <4> QED BY <1>5, <4>1
    <3>2. Cardinality(Handlers(j)') <= Cardinality(Handlers(j) \cup {r})
        BY <2>1, <3>1, FS_Subset
    <3>3. Cardinality(Handlers(j) \cup {r}) \in Nat
        BY <3>1, FS_CardinalityType
    <3> QED BY <1>5, <3>1, <3>2, <3>3
  <2>3. j \in Cached'
      BY <1>6, StartCached
  <2> QED BY <1>1, <1>3, <1>4, <1>5, <1>6, <2>2, <2>3 DEF Accounted
<1>7. CASE j # k
  <2>1. Handlers(j)' \subseteq Handlers(j)
      BY <1>7 DEF Handlers, StartHandler, IdemTypeOK
  <2>2. Cardinality(Handlers(j)') <= Cardinality(Handlers(j))
      BY <1>5, <2>1, FS_Subset
  <2>3. j \in Cached' <=> j \in Cached /\ j \notin Evicted(k)
      BY <1>7, StartCached
  <2> QED BY <1>1, <1>2, <1>4, <1>5, <2>2, <2>3 DEF Accounted
<1> QED BY <1>6, <1>7

\* A handler that ends leaves the handlers of its key and of no other.
LEMMA EndedHandlers ==
    ASSUME IdemTypeOK, NEW r \in IdemRequests, handling[r] # NoKey,
           handling' = [handling EXCEPT ![r] = NoKey], NEW j \in IdemKeys
    PROVE  /\ Cardinality(Handlers(j)') =
                IF j = handling[r] THEN Cardinality(Handlers(j)) - 1
                ELSE Cardinality(Handlers(j))
           /\ Cardinality(Handlers(j)) \in Nat
<1>1. j # NoKey
    BY IdempotencyAssumption DEF NoKey
<1>2. CASE j = handling[r]
  <2>1. Handlers(j)' = Handlers(j) \ {r} /\ r \in Handlers(j)
      BY <1>1, <1>2 DEF Handlers, IdemTypeOK
  <2> QED BY <1>2, <2>1, HandlersFinite, FS_RemoveElement
<1>3. CASE j # handling[r]
  <2>1. Handlers(j)' = Handlers(j)
      BY <1>1, <1>3 DEF Handlers, IdemTypeOK
  <2> QED BY <1>3, <2>1, HandlersFinite
<1> QED BY <1>2, <1>3

LEMMA FinishKeepsAccount ==
    ASSUME IdemTypeOK, EntriesAccountForHandlers, NEW r \in IdemRequests, finishRequest(r)
    PROVE  EntriesAccountForHandlers'
<1> SUFFICES ASSUME NEW j \in IdemKeys PROVE Accounted(j)'
    BY DEF EntriesAccountForHandlers
<1>1. /\ completed[j] \in Nat /\ dropped[j] \in Nat /\ dropped' = dropped
      /\ completed'[j] = IF j = handling[r] THEN completed[j] + 1 ELSE completed[j]
      /\ handling[r] # NoKey /\ handling' = [handling EXCEPT ![r] = NoKey]
    BY DEF IdemTypeOK, finishRequest
<1>2. completed[j] + Cardinality(Handlers(j)) <= (IF j \in Cached THEN 1 ELSE 0) + dropped[j]
    BY DEF EntriesAccountForHandlers, Accounted
<1>3. /\ Cardinality(Handlers(j)') =
           IF j = handling[r] THEN Cardinality(Handlers(j)) - 1 ELSE Cardinality(Handlers(j))
      /\ Cardinality(Handlers(j)) \in Nat
    BY <1>1, EndedHandlers
<1> QED BY <1>1, <1>2, <1>3, FinishCached DEF Accounted

LEMMA FailKeepsAccount ==
    ASSUME IdemTypeOK, EntriesAccountForHandlers, NEW r \in IdemRequests, failRequest(r)
    PROVE  EntriesAccountForHandlers'
<1> SUFFICES ASSUME NEW j \in IdemKeys PROVE Accounted(j)'
    BY DEF EntriesAccountForHandlers
<1>1. /\ completed[j] \in Nat /\ dropped[j] \in Nat /\ dropped' = dropped
      /\ completed' = completed
      /\ handling[r] # NoKey /\ handling' = [handling EXCEPT ![r] = NoKey]
    BY DEF IdemTypeOK, failRequest
<1>2. completed[j] + Cardinality(Handlers(j)) <= (IF j \in Cached THEN 1 ELSE 0) + dropped[j]
    BY DEF EntriesAccountForHandlers, Accounted
<1>3. /\ Cardinality(Handlers(j)') =
           IF j = handling[r] THEN Cardinality(Handlers(j)) - 1 ELSE Cardinality(Handlers(j))
      /\ Cardinality(Handlers(j)) \in Nat
    BY <1>1, EndedHandlers
<1> QED BY <1>1, <1>2, <1>3, FailCached DEF Accounted
-----------------------------------------------------------------------------
\* Room for one more entry: a set of fewer than maxSize keys, and k.
LEMMA RoomForOne ==
    ASSUME NEW S, IsFiniteSet(S), Cardinality(S) < maxSize, NEW k, NEW T, T \subseteq S \cup {k}
    PROVE  IsFiniteSet(T) /\ Cardinality(T) <= maxSize
<1>1. Cardinality(S) \in Nat /\ maxSize \in Nat
    BY FS_CardinalityType, IdempotencyAssumption
<1>2. /\ IsFiniteSet(S \cup {k})
      /\ Cardinality(S \cup {k}) = IF k \in S THEN Cardinality(S) ELSE Cardinality(S) + 1
    BY FS_AddElement
<1>3. IsFiniteSet(T) /\ Cardinality(T) <= Cardinality(S \cup {k})
    BY <1>2, FS_Subset
<1>4. Cardinality(T) \in Nat
    BY <1>3, FS_CardinalityType
<1> QED BY <1>1, <1>2, <1>3, <1>4

LEMMA StartKeepsBound ==
    ASSUME IdemTypeOK, CachedFinite, StoreBounded,
           NEW r \in IdemRequests, NEW k \in IdemKeys, StartHandler(r, k)
    PROVE  CachedFinite' /\ StoreBounded'
<1> DEFINE own == {j \in {k} : Expired(j)}
           rest == Cached \ own
           old == {j \in rest : Expired(j)}
           oldest == {j \in rest : \A i \in rest : cache[j].born <= cache[i].born}
<1>1. Cached' = (Cached \ Evicted(k)) \cup {k}
    BY StartCached
<1>2. Evicted(k) = own \cup (IF Cardinality(rest) < maxSize THEN {}
                             ELSE IF Cardinality(rest \ old) < maxSize THEN old
                             ELSE old \cup oldest)
    BY DEF Evicted
<1>3. /\ IsFiniteSet(Cached) /\ Cardinality(Cached) <= maxSize
      /\ Cardinality(Cached) \in Nat /\ maxSize \in Nat \ {0}
    BY FS_CardinalityType, IdempotencyAssumption DEF CachedFinite, StoreBounded
<1>4. /\ IsFiniteSet(rest) /\ Cardinality(rest) <= Cardinality(Cached)
      /\ Cardinality(rest) \in Nat
  <2>1. rest \in SUBSET Cached
      OBVIOUS
  <2> QED BY <1>3, <2>1, FS_Subset, FS_CardinalityType
<1>5. IsFiniteSet(Cached') /\ Cardinality(Cached') <= maxSize
  <2>1. CASE Cardinality(rest) < maxSize
    <3>1. Cached' \subseteq rest \cup {k}
        BY <1>1, <1>2
    <3> QED BY <1>4, <2>1, <3>1, RoomForOne
  <2>2. CASE ~(Cardinality(rest) < maxSize) /\ Cardinality(rest \ old) < maxSize
    <3>1. Cached' \subseteq (rest \ old) \cup {k}
        BY <1>1, <1>2, <2>2
    <3>2. IsFiniteSet(rest \ old)
        BY <1>4, FS_Subset
    <3> QED BY <2>2, <3>1, <3>2, RoomForOne
  <2>3. CASE ~(Cardinality(rest) < maxSize) /\ ~(Cardinality(rest \ old) < maxSize)
    <3>1. rest # {}
        BY <1>3, <1>4, <2>3, FS_EmptySet
    <3>2. PICK j \in rest : \A i \in rest : cache[j].born <= cache[i].born
      <4> DEFINE f == [i \in rest |-> cache[i].born]
      <4>1. f \in [rest -> Int]
          BY DEF Cached, IdemTypeOK
      <4>2. \E j \in rest : \A i \in rest : f[j] <= f[i]
        <5> HIDE DEF rest, f
        <5> QED BY <1>4, <3>1, <4>1, SmallestElement
      <4> QED BY <4>2
    <3>3. Cached' \subseteq (rest \ {j}) \cup {k}
      <4>1. j \in oldest
          BY <3>2
      <4> QED BY <1>1, <1>2, <2>3, <4>1
    <3>4. IsFiniteSet(rest \ {j}) /\ Cardinality(rest \ {j}) = Cardinality(rest) - 1
        BY <1>4, <3>2, FS_RemoveElement
    <3>5. Cardinality(rest \ {j}) < maxSize
        BY <1>3, <1>4, <3>4
    <3> QED BY <3>3, <3>4, <3>5, RoomForOne
  <2> QED BY <2>1, <2>2, <2>3
<1> QED BY <1>5 DEF CachedFinite, StoreBounded

\* The store never grows past maxSize and a key is processed again only when an
\* entry of it was dropped, for any number of keys and requests (beginRequest,
\* evictOldest, finishRequest, failRequest).
THEOREM StoreIsSound == IdemSpec => []IdemInv
<1> DEFINE IInv == IdemTypeOK /\ EntriesAccountForHandlers /\ CachedFinite /\ StoreBounded
<1>1. IdemInit => IInv
  <2> SUFFICES ASSUME IdemInit PROVE IInv
      OBVIOUS
  <2>1. IdemTypeOK
      BY DEF IdemInit, IdemTypeOK, NoEntry, NoKey
  <2>2. Cached = {}
      BY DEF IdemInit, Cached
  <2>3. ASSUME NEW k \in IdemKeys PROVE Accounted(k)
    <3>1. Handlers(k) = {}
        BY IdempotencyAssumption DEF Handlers, IdemInit, NoKey
    <3>2. completed[k] = 0 /\ dropped[k] = 0
        BY DEF IdemInit
    <3> QED BY <2>2, <3>1, <3>2, FS_EmptySet DEF Accounted
  <2>4. CachedFinite /\ StoreBounded
      BY <2>2, FS_EmptySet, IdempotencyAssumption DEF CachedFinite, StoreBounded
  <2> QED BY <2>1, <2>3, <2>4 DEF EntriesAccountForHandlers
<1>2. IInv /\ [IdemNext]_idemVars => IInv'
  <2> SUFFICES ASSUME IInv, [IdemNext]_idemVars PROVE IInv'
      OBVIOUS
  <2>0. IdemTypeOK'
      BY IdemTypeStep
  <2>1. ASSUME UNCHANGED <<cache, handling, completed, dropped>>
        PROVE  EntriesAccountForHandlers' /\ CachedFinite' /\ StoreBounded'
      BY <2>1 DEF EntriesAccountForHandlers, Accounted, Handlers, Cached, CachedFinite,
                  StoreBounded
  <2>2. CASE IdemTick
      BY <2>0, <2>1, <2>2 DEF IdemTick
  <2>3. ASSUME NEW r \in IdemRequests, NEW k \in IdemKeys, AnswerFromCache(r, k) PROVE IInv'
      BY <2>0, <2>1, <2>3 DEF AnswerFromCache
  <2>4. ASSUME NEW r \in IdemRequests, NEW k \in IdemKeys, StartHandler(r, k) PROVE IInv'
      BY <2>0, <2>4, StartKeepsAccount, StartKeepsBound
  <2>5. ASSUME NEW r \in IdemRequests, finishRequest(r) PROVE IInv'
    <3>1. CachedFinite' /\ StoreBounded'
        BY <2>5, FinishCached DEF CachedFinite, StoreBounded
    <3> QED BY <2>0, <2>5, <3>1, FinishKeepsAccount
  <2>6. ASSUME NEW r \in IdemRequests, failRequest(r) PROVE IInv'
    <3>1. Cached' \in SUBSET Cached
        BY <2>6, FailCached
    <3>2. IsFiniteSet(Cached') /\ Cardinality(Cached') <= Cardinality(Cached)
        BY <3>1, FS_Subset DEF CachedFinite
    <3>3. Cardinality(Cached') \in Nat /\ Cardinality(Cached) \in Nat
        BY <3>2, FS_CardinalityType DEF CachedFinite
    <3>4. CachedFinite' /\ StoreBounded'
        BY <3>2, <3>3, IdempotencyAssumption DEF CachedFinite, StoreBounded
    <3> QED BY <2>0, <2>6, <3>4, FailKeepsAccount
  <2>7. CASE UNCHANGED idemVars
      BY <2>0, <2>1, <2>7 DEF idemVars
  <2> QED BY <2>2, <2>3, <2>4, <2>5, <2>6, <2>7 DEF IdemNext
<1>3. IInv => IdemInv
  <2> SUFFICES ASSUME IInv, NEW k \in IdemKeys
               PROVE  completed[k] + Cardinality(Handlers(k)) <= 1 + dropped[k]
      BY DEF IdemInv, ProcessedOncePerDrop
  <2>1. Cardinality(Handlers(k)) \in Nat /\ completed[k] \in Nat /\ dropped[k] \in Nat
      BY HandlersFinite DEF IdemTypeOK
  <2> QED BY <2>1 DEF EntriesAccountForHandlers, Accounted
<1> QED BY <1>1, <1>2, <1>3, PTL DEF IdemSpec
-----------------------------------------------------------------------------

GivenUp == {"no", "not_queued", "no_secret", "dlq_write", "stalled", "crash", "deleted"}

HookTypes ==
    /\ delivery \in [Deliveries -> {"none", "pending", "success", "failed"}]
    /\ job \in [Deliveries -> {"none", "waiting", "active", "completed", "dead"}]
    /\ phase \in [Deliveries -> {"load", "post", "update", "fail", "throw"}]
    /\ postAttempts \in [Deliveries -> Nat] /\ workerStalls \in [Deliveries -> Nat]
    /\ received \in [Deliveries -> Nat] /\ givenUp \in [Deliveries -> GivenUp]
    /\ adding \in SUBSET Deliveries /\ moving \in SUBSET Deliveries
    /\ dlq \in SUBSET Deliveries /\ copies \in SUBSET Deliveries
    /\ hookFaults \in 0 .. MaxHookFaults

\* A job is added after its row, once; a worker takes an attempt to be answered
\* only after the receiver had it.
JobFollowsRow(d) ==
    /\ delivery[d] = "none" => job[d] = "none" /\ d \notin adding
    /\ d \in adding => job[d] = "none"
    /\ job[d] = "active" /\ phase[d] = "update" => received[d] > 0

\* The posts of a delivery: before the post of an attempt, one per attempt and
\* stalled worker at most, and a job that may still run has stalled once at most.
PostsCounted(d) ==
    /\ job[d] \in {"none", "waiting", "active"} => postAttempts[d] < MaxAttempts /\ workerStalls[d] <= 1
    /\ received[d] <= MaxAttempts + 1 /\ received[d] <= postAttempts[d] + workerStalls[d] + 1
    /\ job[d] \in {"none", "waiting"} \/ (job[d] = "active" /\ phase[d] \notin {"update", "fail"})
         => received[d] <= postAttempts[d] + workerStalls[d]

NotLost(d) ==
    delivery[d] # "none" /\ received[d] = 0 =>
      \/ d \in adding \cup moving \cup dlq \cup copies
      \/ job[d] \in {"waiting", "active"}
      \/ givenUp[d] # "no"

\* A replay deletes the dead-letter row of a delivery it has queued again.
ReplayOK(a) ==
    \/ replay[a] = NoReplay
    \/ \E d \in Deliveries : replay[a] = [pc |-> "queue", item |-> d]
    \/ \E d \in copies, c \in Deliveries : replay[a] = [pc |-> "delete", item |-> <<d, c>>]

HookRows == \A d \in Deliveries : JobFollowsRow(d) /\ PostsCounted(d) /\ NotLost(d)
ReplaysOK == DOMAIN replay = Admins /\ \A a \in Admins : ReplayOK(a)

HookIndInv == HookTypes /\ HookRows /\ ReplaysOK

LEMMA WorkerKeepsRows ==
    ASSUME HookIndInv, NEW d \in Deliveries, 
          \/ queueWebhook(d) \/ AddJob(d) \/ TakeJob(d) \/ StallJob(d) \/ Load(d) \/ Post(d)
          \/ UpdateSuccess(d) \/ FailAttempt(d) \/ MoveToDlq(d) \/ deleteDlq(d)
    PROVE HookTypes' /\ HookRows'
<1> USE WebhookAssumption DEF HookIndInv, HookTypes, HookRows, JobFollowsRow, PostsCounted, NotLost, Fault, GivenUp
<1>1. CASE queueWebhook(d)
    BY <1>1 DEF queueWebhook, CreateRow
<1>2. CASE AddJob(d)
    BY <1>2 DEF AddJob
<1>3. CASE TakeJob(d)
    BY <1>3 DEF TakeJob
<1>4. CASE StallJob(d)
  <2>1. HookTypes'
    <3>1. HookTypes /\ d \in Deliveries /\ MaxHookFaults \in Nat
        BY WebhookAssumption
    <3> QED BY ONLY <3>1, <1>4 DEF StallJob, HookTypes, Fault, GivenUp
  <2>2. ASSUME NEW e \in Deliveries PROVE JobFollowsRow(e)' /\ NotLost(e)'
      BY <1>4 DEF StallJob
  <2>3. ASSUME NEW e \in Deliveries PROVE PostsCounted(e)'
      BY <1>4 DEF StallJob
  <2> HIDE DEF HookTypes, JobFollowsRow, PostsCounted, NotLost
  <2> QED BY <2>1, <2>2, <2>3
<1>5. CASE Load(d)
    BY <1>5 DEF Load
<1>6. CASE Post(d)
    BY <1>6 DEF Post
<1>7. CASE UpdateSuccess(d)
    BY <1>7 DEF UpdateSuccess
<1>8. CASE FailAttempt(d)
    BY <1>8 DEF FailAttempt, AttemptsLeft
<1>9. CASE MoveToDlq(d)
    BY <1>9 DEF MoveToDlq, jobVars
<1>10. CASE deleteDlq(d)
    BY <1>10 DEF deleteDlq, jobVars
<1> QED BY <1>1, <1>2, <1>3, <1>4, <1>5, <1>6, <1>7, <1>8, <1>9, <1>10

\* None of these touches a replay.
LEMMA WorkerKeepsReplays ==
    ASSUME HookIndInv, NEW d \in Deliveries,
          \/ queueWebhook(d) \/ AddJob(d) \/ TakeJob(d) \/ StallJob(d) \/ Load(d) \/ Post(d)
          \/ UpdateSuccess(d) \/ FailAttempt(d) \/ MoveToDlq(d) \/ deleteDlq(d)
    PROVE HookIndInv'
<1>1. UNCHANGED <<replay, copies>>
    BY DEF queueWebhook, AddJob, TakeJob, StallJob, Load, Post, UpdateSuccess,
           FailAttempt, MoveToDlq, deleteDlq
<1>2. ReplaysOK'
    BY <1>1 DEF HookIndInv, ReplaysOK, ReplayOK
<1> QED BY <1>2, WorkerKeepsRows DEF HookIndInv

\* A crash and a job that could not be added end replays and give deliveries up.
LEMMA FailuresKeepRows ==
    ASSUME HookIndInv, ServerCrash \/ \E d \in Deliveries : AddFails(d)
    PROVE  HookIndInv'
<1> USE WebhookAssumption DEF HookIndInv, HookTypes, HookRows, JobFollowsRow, PostsCounted,
                              NotLost, Fault, GivenUp, jobVars
<1>1. CASE ServerCrash
  <2>1. HookTypes' /\ HookRows'
      BY <1>1 DEF ServerCrash
  <2>2. ReplaysOK'
      BY <1>1 DEF ServerCrash, ReplaysOK, ReplayOK
  <2> QED BY <2>1, <2>2
<1>2. ASSUME NEW d \in Deliveries, AddFails(d) PROVE HookIndInv'
  <2>1. HookTypes' /\ HookRows'
      BY <1>2 DEF AddFails
  <2>2. /\ copies' = copies /\ DOMAIN replay' = Admins
        /\ \A a \in Admins : replay'[a] \in {NoReplay, replay[a]}
      BY <1>2 DEF AddFails
  <2>3. ReplaysOK'
      BY <2>2 DEF ReplaysOK, ReplayOK
  <2> QED BY <2>1, <2>3
<1> QED BY <1>1, <1>2

\* The three steps of a replay.
LEMMA ReplayKeepsRows ==
    ASSUME HookIndInv, NEW a \in Admins, 
           ReplayDelete(a) \/ \E d \in Deliveries : ReplayRead(a, d) \/ ReplayQueue(a, d)
    PROVE  HookIndInv'
<1> USE DEF HookIndInv
<1>1. ASSUME NEW d \in Deliveries, ReplayRead(a, d) PROVE HookIndInv'
  <2>1. UNCHANGED <<jobVars, adding, moving, dlq, hookFaults, copies, givenUp>>
      BY <1>1 DEF ReplayRead
  <2>2. HookTypes' /\ HookRows'
      BY <2>1 DEF HookTypes, HookRows, JobFollowsRow, PostsCounted, NotLost, jobVars
  <2>3. /\ DOMAIN replay' = Admins
        /\ \A b \in Admins : replay'[b] = IF b = a THEN [pc |-> "queue", item |-> d]
                                         ELSE replay[b]
      BY <1>1 DEF ReplayRead, ReplaysOK
  <2>4. ReplaysOK'
      BY <2>1, <2>3 DEF ReplaysOK, ReplayOK
  <2> QED BY <2>2, <2>4
<1>2. ASSUME NEW d \in Deliveries, ReplayQueue(a, d) PROVE HookIndInv'
  <2>1. PICK e \in Deliveries : replay[a] = [pc |-> "queue", item |-> e]
    <3>1. replay[a].pc = "queue"
        BY <1>2 DEF ReplayQueue
    <3>2. replay[a] # NoReplay
        BY <3>1 DEF NoReplay
    <3>3. ASSUME NEW e \in copies, NEW c \in Deliveries
          PROVE  replay[a] # [pc |-> "delete", item |-> <<e, c>>]
        BY <3>1
    <3> QED BY <3>2, <3>3, Zenon DEF ReplaysOK, ReplayOK
  <2>2. /\ CreateRow(d) /\ copies' = copies \cup {e}
        /\ UNCHANGED <<job, postAttempts, workerStalls, phase, moving, dlq, hookFaults,
                       received, givenUp>>
      BY <1>2, <2>1 DEF ReplayQueue
  <2>3. HookTypes' /\ HookRows'
      BY <2>2 DEF CreateRow, HookTypes, HookRows, JobFollowsRow, PostsCounted, NotLost
  <2>4. /\ DOMAIN replay' = Admins
        /\ \A b \in Admins : replay'[b] = IF b = a THEN [pc |-> "delete", item |-> <<e, d>>]
                                         ELSE replay[b]
      BY <1>2, <2>1 DEF ReplayQueue, ReplaysOK
  <2>5. ASSUME NEW b \in Admins PROVE ReplayOK(b)'
    <3>1. CASE b = a
        BY <2>2, <2>4, <3>1 DEF ReplayOK
    <3>2. CASE b # a
        BY <2>2, <2>4, <3>2 DEF ReplaysOK, ReplayOK
    <3> QED BY <3>1, <3>2
  <2> QED BY <2>3, <2>4, <2>5 DEF ReplaysOK
<1>3. CASE ReplayDelete(a)
  <2>1. PICK e \in copies, c \in Deliveries : replay[a] = [pc |-> "delete", item |-> <<e, c>>]
    <3>1. replay[a].pc = "delete"
        BY <1>3 DEF ReplayDelete
    <3>2. replay[a] # NoReplay
        BY <3>1 DEF NoReplay
    <3>3. ASSUME NEW e \in Deliveries PROVE replay[a] # [pc |-> "queue", item |-> e]
        BY <3>1
    <3> QED BY <3>2, <3>3, Zenon DEF ReplaysOK, ReplayOK
  <2>2. /\ dlq' = dlq \ {e} /\ replay' = [replay EXCEPT ![a] = NoReplay]
        /\ UNCHANGED <<jobVars, adding, moving, hookFaults, copies, givenUp>>
      BY <1>3, <2>1 DEF ReplayDelete
  <2>3. HookTypes' /\ HookRows'
      BY <2>1, <2>2 DEF HookTypes, HookRows, JobFollowsRow, PostsCounted, NotLost, jobVars
  <2>4. ReplaysOK'
      BY <2>2 DEF ReplaysOK, ReplayOK
  <2> QED BY <2>3, <2>4
<1> QED BY <1>1, <1>2, <1>3

\* Whatever crashes, stalls, throws or is replayed, deliveries are not lost
\* without a trace and not repeated beyond the attempts (webhook.ts, adminDlq.ts).
THEOREM DeliveriesAreAccounted == HookSpec => []HookInv
<1>1. HookInit => HookIndInv
  <2> SUFFICES ASSUME HookInit PROVE HookIndInv
      OBVIOUS
  <2>1. HookTypes
      BY WebhookAssumption DEF HookInit, HookTypes, GivenUp
  <2>2. HookRows
      BY WebhookAssumption DEF HookInit, HookRows, JobFollowsRow, PostsCounted, NotLost
  <2>3. ReplaysOK
      BY DEF HookInit, ReplaysOK, ReplayOK
  <2> QED BY <2>1, <2>2, <2>3 DEF HookIndInv
<1>2. HookIndInv /\ [HookNext]_hookVars => HookIndInv'
  <2> SUFFICES ASSUME HookIndInv, [HookNext]_hookVars PROVE HookIndInv'
      OBVIOUS
  <2>1. CASE UNCHANGED hookVars
      BY <2>1 DEF hookVars, HookIndInv, HookTypes, HookRows, JobFollowsRow, PostsCounted,
                  NotLost, ReplaysOK, ReplayOK
  <2>2. CASE HookNext
      BY <2>2, WorkerKeepsReplays, FailuresKeepRows, ReplayKeepsRows DEF HookNext, HookWorker
  <2> QED BY <2>1, <2>2
<1>3. HookIndInv => HookInv
  <2> SUFFICES ASSUME HookIndInv PROVE HookInv
      OBVIOUS
  <2>1. HookTypeOK
      BY DEF HookIndInv, HookTypes, HookTypeOK
  <2>2. NoSilentLoss /\ ReceivedBounded
      BY DEF HookIndInv, HookRows, NotLost, PostsCounted, NoSilentLoss, ReceivedBounded
  <2> QED BY <2>1, <2>2 DEF HookInv
<1> QED BY <1>1, <1>2, <1>3, PTL DEF HookSpec


-----------------------------------------------------------------------------

Payment == [excess : Nat, seq : Nat]

SweepRecord == [at : {"due", "sequence", "submit", "done"}, excess : Nat, seq : Nat]

SweepTypes ==
    /\ funds \in Nat /\ seqNum \in Nat /\ overlapped \in BOOLEAN
    /\ feesPaid \in 0 .. MaxFees /\ deposits \in 0 .. MaxDeposits
    /\ sweep \in [Sweeps -> SweepRecord]
    /\ adrift \in SUBSET Payment

\* A payment that could still be applied, of sweep s or adrift, takes no more
\* than what lies above the limit, and is the only one.
OneAtATime ==
    ~overlapped =>
      /\ \A s \in Sweeps : Busy(s) =>
           /\ \A r \in Sweeps : Busy(r) => r = s
           /\ \A p \in adrift : p.seq # seqNum + 1
           /\ funds + feesPaid >= retentionLimit + sweep[s].excess
      /\ \A p \in adrift : p.seq = seqNum + 1 =>
           /\ \A q \in adrift : q.seq = seqNum + 1 => q = p
           /\ funds + feesPaid >= retentionLimit + p.excess

\* No payment is ahead of the account, and each sequence number was given to
\* some sweep.
SequencesGiven ==
    /\ \A s \in Sweeps : sweep[s].at = "submit" => sweep[s].seq \in 1 .. seqNum + 1
    /\ \A p \in adrift : /\ p.seq \in 1 .. seqNum + 1
                         /\ \E s \in Sweeps : sweep[s].at = "done" /\ sweep[s].seq = p.seq
    /\ \A k \in 1 .. seqNum : \E s \in Sweeps : sweep[s].at = "done" /\ sweep[s].seq = k

SweepIndInv == SweepTypes /\ OneAtATime /\ SequencesGiven /\ RetentionKept


\* A step of sweep s gives it the position at, the amount x and the number n, and
\* leaves the others.
SweepTo(s, at, x, n) ==
    /\ sweep' \in [Sweeps -> SweepRecord]
    /\ sweep'[s].at = at /\ sweep'[s].excess = x /\ sweep'[s].seq = n
    /\ \A r \in Sweeps : r # s => sweep'[r] = sweep[r]

LEMMA SweepSteps ==
    ASSUME SweepTypes, NEW s \in Sweeps
    PROVE  /\ Excess(funds) \in Nat
           /\ sweepAccount(s) =>
                SweepTo(s, IF Excess(funds) > 0 THEN "sequence" ELSE "done", Excess(funds),
                        sweep[s].seq)
           /\ loadSequence(s) => SweepTo(s, "submit", sweep[s].excess, seqNum + 1)
           /\ submitSweep(s) => SweepTo(s, "done", sweep[s].excess, sweep[s].seq)
<1> USE DEF SweepTypes, SweepTo, SweepRecord
<1>0. Excess(funds) \in Nat
    BY SweeperAssumption DEF Excess
<1>1. ASSUME sweepAccount(s) 
      PROVE  SweepTo(s, IF Excess(funds) > 0 THEN "sequence" ELSE "done", Excess(funds),
                     sweep[s].seq)
  <2>1. CASE Excess(funds) > 0
    <3>1. SweepTo(s, "sequence", Excess(funds), sweep[s].seq)
        BY <1>0, <1>1, <2>1 DEF sweepAccount
    <3> QED BY <2>1, <3>1
  <2>2. CASE ~(Excess(funds) > 0)
    <3>1. SweepTo(s, "done", Excess(funds), sweep[s].seq)
        BY <1>0, <1>1, <2>2 DEF sweepAccount
    <3> QED BY <2>2, <3>1
  <2> QED BY <2>1, <2>2
<1>2. ASSUME loadSequence(s) PROVE SweepTo(s, "submit", sweep[s].excess, seqNum + 1)
  <2> DEFINE n == seqNum + 1
  <2>1. n \in Nat
      OBVIOUS
  <2>2. sweep' = [sweep EXCEPT ![s].at = "submit", ![s].seq = n]
      BY <1>2 DEF loadSequence
  <2> HIDE DEF n
  <2>3. SweepTo(s, "submit", sweep[s].excess, n)
      BY <2>1, <2>2
  <2> QED BY <2>3 DEF n
<1>3. ASSUME submitSweep(s) PROVE SweepTo(s, "done", sweep[s].excess, sweep[s].seq)
    BY <1>3 DEF submitSweep
<1> QED BY <1>0, <1>1, <1>2, <1>3

\* A sweep reads the balance: from now on, if alone, it is the one payment.
LEMMA ReadKeepsLimit ==
    ASSUME SweepIndInv, NEW s \in Sweeps, sweepAccount(s) PROVE SweepIndInv'
<1> DEFINE x == Excess(funds)
           at == IF x > 0 THEN "sequence" ELSE "done"
<1>1. SweepTo(s, at, x, sweep[s].seq)
    BY SweepSteps DEF SweepIndInv
<1>2. /\ sweep[s].at = "due" /\ UNCHANGED <<funds, seqNum, adrift, feesPaid, deposits>>
      /\ overlapped' = (overlapped \/ Live # {} \/ \E r \in Sweeps : Busy(r))
    BY DEF sweepAccount
<1>3. x \in Nat /\ (x > 0 => funds = retentionLimit + x) /\ retentionLimit \in Nat
    BY SweeperAssumption DEF Excess, SweepIndInv, SweepTypes
<1>4. at \in {"sequence", "done"} /\ (at = "sequence" => x > 0)
    OBVIOUS
<1> HIDE DEF x, at
<1>5. SweepTypes'
  <2>1. overlapped' \in BOOLEAN
      BY <1>2
  <2> QED BY <1>1, <1>2, <2>1 DEF SweepIndInv, SweepTypes, SweepTo
<1>6. SequencesGiven'
    BY <1>1, <1>2, <1>4 DEF SweepIndInv, SequencesGiven, SweepTo, SweepTypes
<1>7. ASSUME ~overlapped' PROVE OneAtATime'
  <2>1. ~overlapped /\ (\A p \in adrift : p.seq # seqNum + 1) /\ \A r \in Sweeps : ~Busy(r)
      BY <1>2, <1>7 DEF Live
  <2>2. \A r \in Sweeps : Busy(r)' => r = s /\ x > 0
      BY <1>1, <1>4, <2>1 DEF SweepTo, Busy
  <2>3. x > 0 => funds + feesPaid >= retentionLimit + x
      BY <1>3, SweeperAssumption DEF SweepIndInv, SweepTypes
  <2>4. sweep'[s].excess = x
      BY <1>1 DEF SweepTo
  <2> QED BY <1>2, <2>1, <2>2, <2>3, <2>4 DEF OneAtATime
<1>8. RetentionKept'
    BY <1>2 DEF SweepIndInv, RetentionKept
<1> QED BY <1>5, <1>6, <1>7, <1>8 DEF SweepIndInv, OneAtATime

\* The sequence number is loaded; nothing that matters to the limit changes.
LEMMA LoadKeepsLimit ==
    ASSUME SweepIndInv, NEW s \in Sweeps, loadSequence(s) PROVE SweepIndInv'
<1>1. SweepTo(s, "submit", sweep[s].excess, seqNum + 1)
    BY SweepSteps DEF SweepIndInv
<1>2. /\ sweep[s].at = "sequence"
      /\ UNCHANGED <<funds, seqNum, adrift, feesPaid, deposits, overlapped>>
    BY DEF loadSequence
<1>5. SweepTypes'
    BY <1>1, <1>2 DEF SweepIndInv, SweepTypes, SweepTo
<1>6. SequencesGiven'
    BY <1>1, <1>2 DEF SweepIndInv, SequencesGiven, SweepTo, SweepTypes
<1>7. OneAtATime'
  <2>1. \A r \in Sweeps : Busy(r)' <=> Busy(r)
      BY <1>1, <1>2 DEF SweepTo, Busy
  <2>2. \A r \in Sweeps : sweep'[r].excess = sweep[r].excess
      BY <1>1 DEF SweepTo
  <2> QED BY <1>2, <2>1, <2>2 DEF SweepIndInv, OneAtATime
<1>8. RetentionKept'
    BY <1>2 DEF SweepIndInv, RetentionKept
<1> QED BY <1>5, <1>6, <1>7, <1>8 DEF SweepIndInv

\* A payment with the next sequence number is applied: no other can be.
LEMMA AppliedKeepsLimit ==
    ASSUME SweepIndInv, NEW x \in Nat, NEW n \in Nat, n = seqNum + 1, BASE_FEE <= funds,
           funds' = IF x <= funds - BASE_FEE THEN funds - BASE_FEE - x ELSE funds - BASE_FEE,
           seqNum' = n, UNCHANGED <<feesPaid, deposits, overlapped, adrift>>,
           ~overlapped => funds + feesPaid >= retentionLimit + x,
           ~overlapped => \A r \in Sweeps : ~Busy(r)',
           sweep' \in [Sweeps -> SweepRecord],
           \A r \in Sweeps : sweep[r].at = "done" => sweep'[r].at = "done" /\ sweep'[r].seq = sweep[r].seq,
           \A r \in Sweeps : sweep'[r].at = "submit" => sweep[r].at = "submit" /\ sweep'[r].seq = sweep[r].seq,
           \E r \in Sweeps : sweep'[r].at = "done" /\ sweep'[r].seq = n
    PROVE  SweepIndInv'
<1> USE DEF SweepIndInv
<1>0. BASE_FEE \in Nat /\ retentionLimit \in Nat /\ InitialFunds \in Nat
    BY SweeperAssumption
<1>1. SweepTypes'
  <2>1. funds \in Nat /\ funds' \in Nat
      BY <1>0 DEF SweepTypes
  <2> QED BY <2>1 DEF SweepTypes
<1>2. SequencesGiven'
  <2>1. SequencesGiven /\ seqNum \in Nat /\ seqNum' = seqNum + 1 /\ n = seqNum + 1 /\ adrift' = adrift
      BY DEF SweepTypes
  <2>2. /\ \A s \in Sweeps : sweep'[s].at = "submit" => sweep'[s].seq \in 1 .. seqNum' + 1
        /\ \A p \in adrift' : /\ p.seq \in 1 .. seqNum' + 1
                              /\ \E s \in Sweeps : sweep'[s].at = "done" /\ sweep'[s].seq = p.seq
      BY <2>1 DEF SequencesGiven
  <2>3. ASSUME NEW k \in 1 .. seqNum' PROVE \E s \in Sweeps : sweep'[s].at = "done" /\ sweep'[s].seq = k
    <3>1. k \in 1 .. seqNum \/ k = n
        BY <2>1
    <3> QED BY <2>1, <3>1 DEF SequencesGiven
  <2> QED BY <2>2, <2>3 DEF SequencesGiven
<1>3. OneAtATime'
  <2>1. \A p \in adrift : p.seq \in 1 .. seqNum + 1
      BY DEF SequencesGiven
  <2>2. \A p \in adrift : p.seq # seqNum' + 1
      BY <2>1 DEF SweepTypes
  <2> QED BY <2>2 DEF OneAtATime
<1>4. RetentionKept'
  <2>1. funds' >= funds - BASE_FEE - x /\ funds \in Nat /\ funds' \in Nat /\ feesPaid \in Nat
      BY <1>0 DEF SweepTypes
  <2> QED BY <1>0, <2>1 DEF RetentionKept
<1> QED BY <1>1, <1>2, <1>3, <1>4

\* submitSweep: applied, or adrift; AppliesLate: applied after all.
LEMMA PaymentKeepsLimit ==
    ASSUME SweepIndInv,
           (\E s \in Sweeps : submitSweep(s)) \/ (\E p \in adrift : AppliesLate(p))
    PROVE  SweepIndInv'
<1>1. ASSUME NEW p \in adrift, AppliesLate(p) PROVE SweepIndInv'
  <2>1. /\ p.seq = seqNum + 1 /\ BASE_FEE <= funds /\ seqNum' = p.seq
        /\ funds' = IF p.excess <= funds - BASE_FEE THEN funds - BASE_FEE - p.excess
                    ELSE funds - BASE_FEE
        /\ UNCHANGED <<sweep, adrift, feesPaid, deposits, overlapped>>
      BY <1>1 DEF AppliesLate, Applies, Applied
  <2>2. p.excess \in Nat /\ p.seq \in Nat
      BY DEF SweepIndInv, SweepTypes, Payment
  <2>3. ~overlapped => funds + feesPaid >= retentionLimit + p.excess
      BY <2>1 DEF SweepIndInv, OneAtATime
  <2>4. ~overlapped => \A r \in Sweeps : ~Busy(r)'
      BY <2>1 DEF SweepIndInv, OneAtATime, Busy
  <2>5. \E r \in Sweeps : sweep'[r].at = "done" /\ sweep'[r].seq = p.seq
      BY <2>1 DEF SweepIndInv, SequencesGiven
  <2>6. sweep' \in [Sweeps -> SweepRecord]
      BY <2>1 DEF SweepIndInv, SweepTypes
  <2> QED BY <2>1, <2>2, <2>3, <2>4, <2>5, <2>6, AppliedKeepsLimit
<1>2. ASSUME NEW s \in Sweeps, submitSweep(s) PROVE SweepIndInv'
  <2> DEFINE x == sweep[s].excess
             n == sweep[s].seq
  <2>1. SweepTo(s, "done", x, n)
      BY <1>2, SweepSteps DEF SweepIndInv
  <2>2. /\ sweep[s].at = "submit" /\ x \in Nat /\ n \in Nat
        /\ UNCHANGED <<feesPaid, deposits, overlapped>>
      BY <1>2 DEF submitSweep, SweepIndInv, SweepTypes, SweepRecord
  <2>3. ~overlapped => /\ \A r \in Sweeps : Busy(r) => r = s
                       /\ \A p \in adrift : p.seq # seqNum + 1
                       /\ funds + feesPaid >= retentionLimit + x
      BY <2>2 DEF SweepIndInv, OneAtATime, Busy
  <2>4. ~overlapped => \A r \in Sweeps : ~Busy(r)'
      BY <2>1, <2>3 DEF SweepTo, Busy
  <2>5. n \in 1 .. seqNum + 1
      BY <2>2 DEF SweepIndInv, SequencesGiven
  <2>6. /\ sweep' \in [Sweeps -> SweepRecord]
        /\ \A r \in Sweeps : sweep[r].at = "done" => sweep'[r].at = "done" /\ sweep'[r].seq = sweep[r].seq
        /\ \A r \in Sweeps : sweep'[r].at = "submit" => sweep[r].at = "submit" /\ sweep'[r].seq = sweep[r].seq
        /\ \E r \in Sweeps : sweep'[r].at = "done" /\ sweep'[r].seq = n
      BY <2>1, <2>2 DEF SweepTo
  <2>7. CASE Applies(sweep[s]) /\ Applied(sweep[s]) /\ UNCHANGED adrift
    <3>1. /\ n = seqNum + 1 /\ BASE_FEE <= funds /\ seqNum' = n /\ adrift' = adrift
          /\ funds' = IF x <= funds - BASE_FEE THEN funds - BASE_FEE - x ELSE funds - BASE_FEE
        BY <2>7 DEF Applies, Applied
    <3> HIDE DEF x, n
    <3> QED BY <2>2, <2>3, <2>4, <2>6, <3>1, AppliedKeepsLimit
  <2>8. CASE /\ adrift' = adrift \cup {[excess |-> sweep[s].excess, seq |-> sweep[s].seq]}
             /\ UNCHANGED <<funds, seqNum>>
    <3> DEFINE p == [excess |-> x, seq |-> n]
    <3>1. adrift' = adrift \cup {p} /\ UNCHANGED <<funds, seqNum>>
        BY <2>8
    <3>2. p \in Payment /\ p.excess = x /\ p.seq = n
        BY <2>2 DEF Payment
    <3> HIDE DEF x, n, p
    <3>3. SweepTypes'
        BY <2>2, <2>6, <3>1, <3>2 DEF SweepIndInv, SweepTypes
    <3>4. SequencesGiven'
        BY <2>5, <2>6, <3>1, <3>2 DEF SweepIndInv, SequencesGiven
    <3>5. OneAtATime'
        BY <2>2, <2>3, <2>4, <3>1, <3>2 DEF SweepIndInv, OneAtATime
    <3>6. RetentionKept'
        BY <2>2, <3>1 DEF SweepIndInv, RetentionKept
    <3> QED BY <3>3, <3>4, <3>5, <3>6 DEF SweepIndInv
  <2> QED BY <1>2, <2>7, <2>8 DEF submitSweep
<1> QED BY <1>1, <1>2

\* Fees and deposits leave funds and fees together no lower.
LEMMA MoneyKeepsLimit ==
    ASSUME SweepIndInv, PaysFee \/ Deposit PROVE SweepIndInv'
<1>1. /\ UNCHANGED <<seqNum, sweep, adrift, overlapped>>
      /\ funds' + feesPaid' >= funds + feesPaid
      /\ funds' \in Nat /\ feesPaid' \in 0 .. MaxFees /\ deposits' \in 0 .. MaxDeposits
  <2>1. CASE PaysFee
      BY <2>1, SweeperAssumption DEF PaysFee, SweepIndInv, SweepTypes
  <2>2. CASE Deposit
      BY <2>2, SweeperAssumption DEF Deposit, SweepIndInv, SweepTypes
  <2> QED BY <2>1, <2>2
<1>2. SweepTypes' /\ SequencesGiven'
    BY <1>1 DEF SweepIndInv, SweepTypes, SequencesGiven
<1>0. retentionLimit \in Nat /\ BASE_FEE \in Nat /\ MaxFees \in Nat
    BY SweeperAssumption
<1>3. ASSUME NEW k \in Nat, funds + feesPaid >= k PROVE funds' + feesPaid' >= k
  <2>1. \A a, b, c, d \in Nat : c + d >= a + b /\ a + b >= k => c + d >= k
      OBVIOUS
  <2>2. funds \in Nat /\ feesPaid \in Nat /\ funds' \in Nat /\ feesPaid' \in Nat
      BY <1>0, <1>1 DEF SweepIndInv, SweepTypes
  <2>3. funds' + feesPaid' >= funds + feesPaid
      BY <1>0, <1>1
  <2> QED BY <1>3, <2>1, <2>2, <2>3, Zenon
<1>4. OneAtATime'
  <2>1. \A s \in Sweeps : sweep[s].excess \in Nat
      BY DEF SweepIndInv, SweepTypes, SweepRecord
  <2>2. \A p \in adrift : p.excess \in Nat
      BY DEF SweepIndInv, SweepTypes, Payment
  <2>3. \A x \in Nat : retentionLimit + x \in Nat
      BY <1>0
  <2> QED BY <1>1, <1>3, <2>1, <2>2, <2>3 DEF SweepIndInv, OneAtATime, Busy
<1>5. RetentionKept'
  <2>1. \A a, b, c, d \in Nat : c + d >= a + b /\ a + b + BASE_FEE >= retentionLimit
                                => c + d + BASE_FEE >= retentionLimit
      BY <1>0
  <2>2. funds \in Nat /\ feesPaid \in Nat /\ funds' \in Nat /\ feesPaid' \in Nat
      BY <1>0, <1>1 DEF SweepIndInv, SweepTypes
  <2>3. funds + feesPaid + BASE_FEE >= retentionLimit
        => funds' + feesPaid' + BASE_FEE >= retentionLimit
      BY <1>1, <2>1, <2>2, Zenon
  <2> QED BY <1>1, <2>3 DEF SweepIndInv, RetentionKept
<1> QED BY <1>2, <1>4, <1>5 DEF SweepIndInv

\* The sequence numbers used so far were given to as many sweeps.
LEMMA NumbersBounded == SweepIndInv => SweepTypeOK
<1> SUFFICES ASSUME SweepIndInv PROVE SweepTypeOK
    OBVIOUS
<1> DEFINE f == [k \in 1 .. seqNum |-> CHOOSE s \in Sweeps : sweep[s].seq = k]
<1>1. ASSUME NEW k \in 1 .. seqNum PROVE f[k] \in Sweeps /\ sweep[f[k]].seq = k
  <2>1. \E s \in Sweeps : sweep[s].seq = k
      BY DEF SweepIndInv, SequencesGiven
  <2>2. f[k] = CHOOSE s \in Sweeps : sweep[s].seq = k
      OBVIOUS
  <2> HIDE DEF f
  <2> QED BY <2>1, <2>2, Zenon
<1>2. f \in [1 .. seqNum -> Sweeps]
    BY <1>1
<1>3. \A j, k \in 1 .. seqNum : f[j] = f[k] => j = k
    BY <1>1
<1> HIDE DEF f
<1>4. f \in Injection(1 .. seqNum, Sweeps)
  <2>1. DOMAIN f = 1 .. seqNum
      BY <1>2
  <2>2. IsInjective(f)
      BY <1>3, <2>1, Zenon DEF IsInjective
  <2> QED BY <1>2, <2>2, Zenon DEF Injection
<1>5. Cardinality(1 .. seqNum) <= Cardinality(Sweeps)
    BY <1>4, FS_Injection, SweeperAssumption
<1>6. Cardinality(1 .. seqNum) = seqNum /\ seqNum \in Nat
    BY FS_Interval DEF SweepIndInv, SweepTypes
<1>7. Cardinality(Sweeps) \in Nat
    BY FS_CardinalityType, SweeperAssumption
<1> QED BY <1>5, <1>6, <1>7 DEF SweepIndInv, SweepTypes, SweepTypeOK

LEMMA SweepsAreSound == SweepSpec => []SweepInv
<1>1. SweepInit => SweepIndInv
  <2> SUFFICES ASSUME SweepInit PROVE SweepIndInv
      OBVIOUS
  <2>1. SweepTypes
    <3>1. [at |-> "due", excess |-> 0, seq |-> 0] \in SweepRecord
        BY DEF SweepRecord
    <3>2. 0 \in 0 .. MaxFees /\ 0 \in 0 .. MaxDeposits /\ InitialFunds \in Nat
        BY SweeperAssumption
    <3>3. overlapped \in BOOLEAN
        BY DEF SweepInit
    <3> QED BY <3>1, <3>2, <3>3 DEF SweepInit, SweepTypes
  <2>2. OneAtATime /\ SequencesGiven
      BY DEF SweepInit, OneAtATime, SequencesGiven, Busy
  <2>3. RetentionKept
      BY SweeperAssumption DEF SweepInit, RetentionKept
  <2> QED BY <2>1, <2>2, <2>3 DEF SweepIndInv
<1>2. SweepIndInv /\ [SweepNext]_sweepVars => SweepIndInv'
  <2> SUFFICES ASSUME SweepIndInv, [SweepNext]_sweepVars PROVE SweepIndInv'
      OBVIOUS
  <2>1. CASE UNCHANGED sweepVars
      BY <2>1 DEF sweepVars, SweepIndInv, SweepTypes, OneAtATime, SequencesGiven,
                  RetentionKept, Busy
  <2>2. CASE SweepNext
      BY <2>2, ReadKeepsLimit, LoadKeepsLimit, PaymentKeepsLimit, MoneyKeepsLimit DEF SweepNext
  <2> QED BY <2>1, <2>2
<1>3. SweepIndInv => SweepInv
    BY NumbersBounded DEF SweepIndInv, SweepInv
<1> QED BY <1>1, <1>2, <1>3, PTL DEF SweepSpec


-----------------------------------------------------------------------------

Levels == {"ok", "low", "empty"}
AlertRecord == [low : BOOLEAN, last : NeverAlerted .. Cooldown]
Statuses == {"PENDING", "VAA_READY", "COMPLETED"}

\* The monitor's half of the state.
CycleTypes ==
    /\ level \in [Payers -> Levels]
    /\ alertState \in [Payers -> AlertRecord]
    /\ round \in [at : {"rest", "load", "notify"}, payer : 0 .. NPayers, seen : Levels]
    /\ round.at # "rest" => round.payer \in Payers
    /\ unheard \in SUBSET Payers /\ balanceFaults \in 0 .. MaxBalanceFaults

\* The position x of a transfer and the row n it works on, of k rows.
PlaceOK(x, n, k) ==
    \/ x \in {"none", "check", "bridge"} /\ n = 0
    \/ x \in {"inform", "track", "redeem"} /\ n \in 1 .. k

TransferRecord ==
    [at : {"none", "check", "bridge", "inform", "track", "redeem"}, row : Nat]

Bridging == {t \in Transfers : transfer[t].at = "bridge"}

\* The transfers' half: a transfer works on a row from the moment it is made, and
\* every row made or about to be made is within the surplus.
TransferInv ==
    /\ transfer \in [Transfers -> TransferRecord]
    /\ bridgeRow \in Seq(Statuses)
    /\ \A t \in Transfers : PlaceOK(transfer[t].at, transfer[t].row, Len(bridgeRow))
    /\ Len(bridgeRow) + Cardinality(Bridging) <= MaxRows

BalIndInv == CycleTypes /\ TransferInv /\ TransfersAccounted

\* The loop stays within the fee payers.
LEMMA GoOnTypes ==
    ASSUME CycleTypes, round.at # "rest", GoOn
    PROVE  /\ round' \in [at : {"rest", "load", "notify"}, payer : 0 .. NPayers, seen : Levels]
           /\ round'.at # "rest" => round'.payer \in Payers
<1>1. round.payer \in 1 .. NPayers /\ NPayers \in Nat
    BY BalanceAssumption DEF CycleTypes, Payers
<1>2. CASE round.payer = NPayers
    BY <1>1, <1>2 DEF GoOn, Rested, Levels
<1>3. CASE round.payer # NPayers
  <2> DEFINE n == round.payer + 1
  <2>1. n \in 1 .. NPayers /\ n \in 0 .. NPayers
      BY <1>1, <1>3
  <2>2. round' = [at |-> "load", payer |-> n, seen |-> "ok"]
      BY <1>3 DEF GoOn
  <2> HIDE DEF n
  <2> QED BY <2>1, <2>2 DEF Levels, Payers
<1> QED BY <1>2, <1>3

\* The monitor's steps keep its half.
LEMMA CycleKeepsTypes ==
    ASSUME CycleTypes,
           \/ checkBalances \/ LoadAccount \/ notifyAdmins \/ CycleFails \/ BalRestart \/ BalTick
           \/ \E p \in Payers : BalanceMoves(p)
    PROVE  CycleTypes'
<1>0. NPayers \in Nat \ {0} /\ Cooldown \in Nat \ {0} /\ 1 \in Payers /\ MaxBalanceFaults \in Nat
      /\ 0 \in 0 .. NPayers /\ 1 \in 0 .. NPayers
    BY BalanceAssumption DEF Payers
<1>a. Rested \in [at : {"rest", "load", "notify"}, payer : 0 .. NPayers, seen : Levels]
      /\ Rested.at = "rest"
    BY <1>0 DEF Rested, Levels
<1>b. \A n : Fails(n) /\ n = 1 => balanceFaults' \in 0 .. MaxBalanceFaults
    BY <1>0 DEF Fails, CycleTypes
<1>1. CASE checkBalances
  <2>1. round' = [at |-> "load", payer |-> 1, seen |-> "ok"]
      BY <1>1 DEF checkBalances
  <2>2. /\ round' \in [at : {"rest", "load", "notify"}, payer : 0 .. NPayers, seen : Levels]
        /\ round'.payer \in Payers
      BY <1>0, <2>1 DEF Levels
  <2> QED BY <1>1, <2>2 DEF checkBalances, CycleTypes
<1>2. CASE LoadAccount
  <2> DEFINE p == round.payer
  <2>1. p \in Payers /\ level[p] \in Levels /\ alertState[p] \in AlertRecord /\ round.at = "load"
      BY <1>2 DEF LoadAccount, CycleTypes
  <2>2. UNCHANGED <<level, unheard, balanceFaults>>
      BY <1>2 DEF LoadAccount
  <2>3. CASE /\ GoOn
             /\ \E b \in BOOLEAN : alertState' = [alertState EXCEPT ![p].low = b]
    <3>1. alertState' \in [Payers -> AlertRecord]
        BY <2>1, <2>3 DEF CycleTypes, AlertRecord
    <3> QED BY <2>1, <2>2, <2>3, <3>1, GoOnTypes DEF CycleTypes
  <2>4. CASE /\ alertState' = [alertState EXCEPT ![p] = [low |-> TRUE, last |-> 0]]
             /\ round' = [round EXCEPT !.at = "notify", !.seen = level[p]]
    <3>1. [low |-> TRUE, last |-> 0] \in AlertRecord
        BY <1>0 DEF AlertRecord, NeverAlerted
    <3>2. alertState' \in [Payers -> AlertRecord]
        BY <2>4, <3>1 DEF CycleTypes
    <3>3. /\ round' \in [at : {"rest", "load", "notify"}, payer : 0 .. NPayers, seen : Levels]
          /\ round'.payer \in Payers
        BY <2>1, <2>4 DEF CycleTypes
    <3> QED BY <2>2, <3>2, <3>3 DEF CycleTypes
  <2> QED BY <1>2, <2>3, <2>4 DEF LoadAccount
<1>3. CASE notifyAdmins
  <2>1. round.at # "rest" /\ GoOn /\ unheard' = unheard \ {round.payer}
        /\ UNCHANGED <<level, alertState, balanceFaults>>
      BY <1>3 DEF notifyAdmins
  <2> QED BY <2>1, GoOnTypes DEF CycleTypes
<1>4. CASE CycleFails
    BY <1>4, <1>a, <1>b DEF CycleFails, CycleTypes
<1>5. CASE BalRestart
  <2>1. [low |-> FALSE, last |-> NeverAlerted] \in AlertRecord
      BY <1>0 DEF AlertRecord, NeverAlerted
  <2>2. alertState' \in [Payers -> AlertRecord]
      BY <1>5, <2>1 DEF BalRestart
  <2> QED BY <1>5, <2>2, <1>a, <1>b DEF BalRestart, CycleTypes
<1>6. CASE BalTick
  <2>1. ASSUME NEW s \in AlertRecord
        PROVE  [s EXCEPT !.last = IF @ \in 0 .. Cooldown - 1 THEN @ + 1 ELSE @] \in AlertRecord
    <3> DEFINE n == IF s.last \in 0 .. Cooldown - 1 THEN s.last + 1 ELSE s.last
    <3>1. n \in NeverAlerted .. Cooldown
        BY <1>0 DEF AlertRecord, NeverAlerted
    <3>2. [s EXCEPT !.last = n] \in AlertRecord
      <4> HIDE DEF n
      <4> QED BY <3>1 DEF AlertRecord
    <3> QED BY <3>2
  <2>2. alertState' \in [Payers -> AlertRecord]
      BY <1>6, <2>1 DEF BalTick, CycleTypes
  <2> QED BY <1>6, <2>2 DEF BalTick, CycleTypes
<1>7. ASSUME NEW p \in Payers, BalanceMoves(p) PROVE CycleTypes'
  <2>1. level' \in [Payers -> Levels]
      BY <1>7 DEF BalanceMoves, CycleTypes, Levels
  <2>2. unheard' \in SUBSET Payers
      BY <1>7 DEF BalanceMoves, CycleTypes
  <2> QED BY <1>7, <2>1, <2>2 DEF BalanceMoves, CycleTypes
<1> QED BY <1>1, <1>2, <1>3, <1>4, <1>5, <1>6, <1>7

\* Transfer t goes to position x and row n.
TransferTo(t, x, n) ==
    /\ transfer' \in [Transfers -> TransferRecord]
    /\ transfer'[t].at = x /\ transfer'[t].row = n
    /\ \A u \in Transfers : u # t => transfer'[u] = transfer[u]

\* How many transfers are about to make a row after one of them moved.
LEMMA BridgingCount ==
    ASSUME TransferInv, NEW t \in Transfers, NEW x, NEW n, TransferTo(t, x, n)
    PROVE  /\ Cardinality(Bridging) \in Nat /\ Cardinality(Bridging)' \in Nat
           /\ Cardinality(Bridging)' <= Cardinality(Bridging) + 1
           /\ x # "bridge" => Cardinality(Bridging)' <= Cardinality(Bridging)
           /\ x # "bridge" /\ transfer[t].at = "bridge"
                => Cardinality(Bridging)' + 1 = Cardinality(Bridging)
<1>1. IsFiniteSet(Bridging) /\ IsFiniteSet(Bridging')
  <2>1. Bridging \in SUBSET Transfers /\ Bridging' \in SUBSET Transfers
      BY DEF Bridging
  <2> QED BY <2>1, FS_Subset, BalanceAssumption
<1>2. Cardinality(Bridging) \in Nat /\ Cardinality(Bridging') \in Nat
    BY <1>1, FS_CardinalityType
<1>3. CASE x = "bridge"
  <2>1. Bridging' = Bridging \cup {t}
      BY <1>3 DEF TransferTo, Bridging
  <2>2. Cardinality(Bridging') <= Cardinality(Bridging) + 1
      BY <1>1, <1>2, <2>1, FS_AddElement
  <2> QED BY <1>2, <1>3, <2>2
<1>4. CASE x # "bridge" /\ transfer[t].at = "bridge"
  <2>1. Bridging' = Bridging \ {t} /\ t \in Bridging
      BY <1>4 DEF TransferTo, Bridging
  <2>2. Cardinality(Bridging') = Cardinality(Bridging) - 1
      BY <1>1, <2>1, FS_RemoveElement
  <2> QED BY <1>2, <1>4, <2>2
<1>5. CASE x # "bridge" /\ transfer[t].at # "bridge"
  <2>1. Bridging' = Bridging
      BY <1>5 DEF TransferTo, Bridging
  <2> QED BY <1>2, <1>5, <2>1
<1> QED BY <1>3, <1>4, <1>5

\* A step of one transfer that makes k more rows.
LEMMA TransferMoves ==
    ASSUME BalIndInv, NEW t \in Transfers, NEW x, NEW n, TransferTo(t, x, n),
           bridgeRow' \in Seq(Statuses), Len(bridgeRow') >= Len(bridgeRow),
           PlaceOK(x, n, Len(bridgeRow')),
           Len(bridgeRow') + Cardinality(Bridging') <= MaxRows,
           failures \subseteq failures', cutOff \subseteq cutOff',
           \A r \in 1 .. Len(bridgeRow) :
             r # transfer[t].row => bridgeRow'[r] = bridgeRow[r],
           \A r \in 1 .. Len(bridgeRow') :
             r = transfer[t].row \/ r > Len(bridgeRow) =>
               bridgeRow'[r] = "COMPLETED" \/ r \in failures' \/ r = n
    PROVE  TransferInv' /\ TransfersAccounted'
<1>0. Len(bridgeRow) \in Nat /\ Len(bridgeRow') \in Nat
    BY DEF BalIndInv, TransferInv
<1>1. \A u \in Transfers : PlaceOK(transfer'[u].at, transfer'[u].row, Len(bridgeRow'))
  <2> SUFFICES ASSUME NEW u \in Transfers
               PROVE  PlaceOK(transfer'[u].at, transfer'[u].row, Len(bridgeRow'))
      OBVIOUS
  <2>1. CASE u = t
      BY <2>1 DEF TransferTo
  <2>2. CASE u # t
    <3>1. transfer'[u] = transfer[u] /\ PlaceOK(transfer[u].at, transfer[u].row, Len(bridgeRow))
        BY <2>2 DEF TransferTo, BalIndInv, TransferInv
    <3>2. 1 .. Len(bridgeRow) \subseteq 1 .. Len(bridgeRow')
        BY <1>0
    <3> QED BY <3>1, <3>2 DEF PlaceOK
  <2> QED BY <2>1, <2>2
<1>2. TransferInv'
    BY <1>1 DEF TransferInv, TransferTo
<1>3. ASSUME NEW r \in 1 .. Len(bridgeRow')
      PROVE  \/ bridgeRow'[r] = "COMPLETED" \/ r \in failures' \cup cutOff'
             \/ \E u \in Transfers : transfer'[u].row = r
  <2>1. CASE r = transfer[t].row \/ r > Len(bridgeRow)
      BY <2>1 DEF TransferTo
  <2>2. CASE r # transfer[t].row /\ ~(r > Len(bridgeRow))
    <3>1. r \in 1 .. Len(bridgeRow)
        BY <1>0, <2>2
    <3>2. \/ bridgeRow[r] = "COMPLETED" \/ r \in failures \cup cutOff
          \/ \E u \in Transfers : transfer[u].row = r
        BY <3>1 DEF BalIndInv, TransfersAccounted
    <3>3. \A u \in Transfers : transfer[u].row = r => transfer'[u].row = r
        BY <2>2 DEF TransferTo
    <3>4. bridgeRow'[r] = bridgeRow[r]
        BY <2>2, <3>1
    <3> QED BY <3>2, <3>3, <3>4
  <2> QED BY <2>1, <2>2
<1>4. TransfersAccounted'
    BY <1>3 DEF TransfersAccounted
<1> QED BY <1>2, <1>4

\* What a transfer's place says, and the length of the rows, for the steps below.
LEMMA PlaceOf ==
    ASSUME TransferInv, NEW t \in Transfers
    PROVE  /\ Len(bridgeRow) \in Nat /\ MaxRows \in Nat /\ NoTransfer \in TransferRecord
           /\ transfer[t] \in TransferRecord
           /\ transfer[t].at \in {"none", "check", "bridge"} => transfer[t].row = 0
           /\ transfer[t].at \in {"inform", "track", "redeem"} => transfer[t].row \in 1 .. Len(bridgeRow)
<1>1. Len(bridgeRow) \in Nat
    BY DEF TransferInv
<1>2. NoTransfer \in TransferRecord
    BY DEF NoTransfer, TransferRecord
<1>3. transfer[t] \in TransferRecord /\ PlaceOK(transfer[t].at, transfer[t].row, Len(bridgeRow))
    BY DEF TransferInv
<1>4. /\ transfer[t].at \in {"none", "check", "bridge"} => transfer[t].row = 0
      /\ transfer[t].at \in {"inform", "track", "redeem"} => transfer[t].row \in 1 .. Len(bridgeRow)
    BY <1>3 DEF PlaceOK
<1> QED BY <1>1, <1>2, <1>3, <1>4, BalanceAssumption

MayMoveTo(x) == x = "bridge" => Reserved < MaxRows

\* The steps that leave the rows as they are.
LEMMA StillRows ==
    ASSUME BalIndInv, NEW t \in Transfers, NEW x, NEW n, TransferTo(t, x, n),
           n = transfer[t].row, PlaceOK(x, n, Len(bridgeRow)), MayMoveTo(x),
           UNCHANGED <<bridgeRow, failures, cutOff>>
    PROVE  TransferInv' /\ TransfersAccounted'
<1>1. TransferInv /\ bridgeRow' = bridgeRow /\ Len(bridgeRow) \in Nat /\ MaxRows \in Nat
    BY PlaceOf DEF BalIndInv
<1>2. Len(bridgeRow) + Cardinality(Bridging') <= MaxRows
  <2> DEFINE c == Cardinality(Bridging)
             d == Cardinality(Bridging')
             k == Len(bridgeRow)
  <2>1. c \in Nat /\ d \in Nat /\ d <= c + 1 /\ (x # "bridge" => d <= c)
      BY <1>1, BridgingCount
  <2>2. k + c <= MaxRows /\ (x = "bridge" => k + c < MaxRows)
      BY <1>1 DEF TransferInv, Reserved, Bridging, MayMoveTo
  <2> HIDE DEF c, d, k
  <2>3. k + d <= MaxRows
      BY <1>1, <2>1, <2>2 DEF k
  <2> QED BY <2>3 DEF d, k
<1>3. /\ bridgeRow' \in Seq(Statuses) /\ Len(bridgeRow') >= Len(bridgeRow)
      /\ PlaceOK(x, n, Len(bridgeRow'))
      /\ Len(bridgeRow') + Cardinality(Bridging') <= MaxRows
    BY <1>1, <1>2 DEF TransferInv
<1>4. \A r \in 1 .. Len(bridgeRow') :
             r = transfer[t].row \/ r > Len(bridgeRow) => r = n
    BY <1>1
<1> QED BY <1>1, <1>3, <1>4, TransferMoves

\* A transfer makes its row, and goes on to inform about it or fails.
LEMMA RowIsMade ==
    ASSUME BalIndInv, NEW t \in Transfers, NEW x, NEW n, TransferTo(t, x, n), transfer[t].at = "bridge",
           x \in {"inform", "none"}, n = (IF x = "inform" THEN Len(bridgeRow) + 1 ELSE 0),
           bridgeRow' = Append(bridgeRow, "PENDING"), cutOff' = cutOff,
           failures \subseteq failures', x = "none" => Len(bridgeRow) + 1 \in failures'
    PROVE  TransferInv' /\ TransfersAccounted'
<1>1. TransferInv /\ Len(bridgeRow) \in Nat /\ MaxRows \in Nat /\ transfer[t].row = 0
    BY PlaceOf DEF BalIndInv
<1>2. /\ bridgeRow' \in Seq(Statuses) /\ Len(bridgeRow') = Len(bridgeRow) + 1
      /\ \A r \in 1 .. Len(bridgeRow) : bridgeRow'[r] = bridgeRow[r]
    BY <1>1 DEF TransferInv, Statuses
<1>3. Len(bridgeRow') + Cardinality(Bridging') <= MaxRows
  <2> DEFINE c == Cardinality(Bridging)
             d == Cardinality(Bridging')
             k == Len(bridgeRow)
  <2>1. c \in Nat /\ d \in Nat /\ d + 1 = c
      BY <1>1, BridgingCount
  <2>2. k + c <= MaxRows /\ k \in Nat
      BY <1>1 DEF TransferInv
  <2> HIDE DEF c, d, k
  <2>3. k + 1 + d <= MaxRows
      BY <1>1, <2>1, <2>2
  <2> QED BY <1>2, <2>3 DEF d, k
<1>4. PlaceOK(x, n, Len(bridgeRow'))
    BY <1>1, <1>2 DEF PlaceOK
<1>5. ASSUME NEW r \in 1 .. Len(bridgeRow'), r = transfer[t].row \/ r > Len(bridgeRow)
      PROVE  r \in failures' \/ r = n
  <2>1. r = Len(bridgeRow) + 1
      BY <1>1, <1>2, <1>5
  <2> QED BY <2>1
<1>6. Len(bridgeRow') >= Len(bridgeRow)
    BY <1>1, <1>2
<1> QED BY <1>2, <1>3, <1>4, <1>5, <1>6, TransferMoves

\* A transfer changes its row, and goes on, ends or fails.
LEMMA RowIsChanged ==
    ASSUME BalIndInv, NEW t \in Transfers, NEW x, NEW n, TransferTo(t, x, n),
           transfer[t].at \in {"inform", "track", "redeem"},
           x \in {"track", "redeem", "none"},
           n = (IF x = "none" THEN 0 ELSE transfer[t].row),
           NEW st \in Statuses,
           bridgeRow' = bridgeRow \/ bridgeRow' = [bridgeRow EXCEPT ![transfer[t].row] = st],
           cutOff' = cutOff, failures \subseteq failures',
           x = "none" => \/ transfer[t].row \in failures'
                         \/ bridgeRow'[transfer[t].row] = "COMPLETED"
    PROVE  TransferInv' /\ TransfersAccounted'
<1> DEFINE w == transfer[t].row
           k == Len(bridgeRow)
<1>1. TransferInv /\ k \in Nat /\ MaxRows \in Nat /\ w \in 1 .. k
    BY PlaceOf DEF BalIndInv
<1>2. /\ bridgeRow' \in Seq(Statuses) /\ Len(bridgeRow') = k
      /\ \A r \in 1 .. k : r # w => bridgeRow'[r] = bridgeRow[r]
  <2>1. bridgeRow \in Seq(Statuses)
      BY <1>1 DEF TransferInv
  <2> HIDE DEF w
  <2> QED BY <1>1, <2>1 DEF w
<1>3. k + Cardinality(Bridging') <= MaxRows
  <2> DEFINE c == Cardinality(Bridging)
             d == Cardinality(Bridging')
  <2>1. c \in Nat /\ d \in Nat /\ d <= c
    <3>1. x # "bridge"
        OBVIOUS
    <3> QED BY <1>1, <3>1, BridgingCount
  <2>2. k + c <= MaxRows
      BY <1>1 DEF TransferInv
  <2> HIDE DEF c, d, k
  <2>3. k + d <= MaxRows
      BY <1>1, <2>1, <2>2
  <2> QED BY <2>3 DEF d, k
<1>4. PlaceOK(x, n, Len(bridgeRow'))
    BY <1>1, <1>2 DEF PlaceOK
<1>5. ASSUME NEW r \in 1 .. Len(bridgeRow'), r = w \/ r > k
      PROVE  bridgeRow'[r] = "COMPLETED" \/ r \in failures' \/ r = n
  <2>1. r = w
      BY <1>1, <1>2, <1>5
  <2> QED BY <2>1
<1>6. Len(bridgeRow') >= Len(bridgeRow)
    BY <1>1, <1>2
<1> QED BY <1>2, <1>3, <1>4, <1>5, <1>6, TransferMoves

\* One step of a transfer, or its failure.
LEMMA TransferKeepsRows ==
    ASSUME BalIndInv, NEW t \in Transfers, TransferStep(t) \/ TransferFails(t)
    PROVE  BalIndInv'
<1> DEFINE w == transfer[t].row
           k == Len(bridgeRow)
<1>0. /\ TransferInv /\ k \in Nat /\ MaxRows \in Nat /\ NoTransfer \in TransferRecord
      /\ transfer \in [Transfers -> TransferRecord] /\ transfer[t] \in TransferRecord
      /\ transfer[t].at \in {"none", "check", "bridge"} => w = 0
      /\ transfer[t].at \in {"inform", "track", "redeem"} => w \in 1 .. k
    BY PlaceOf DEF BalIndInv, TransferInv
<1>1. CycleTypes'
  <2>1. CASE TransferStep(t)
      BY <2>1 DEF TransferStep, BalIndInv, CycleTypes
  <2>2. CASE TransferFails(t)
    <3>1. balanceFaults' \in 0 .. MaxBalanceFaults
        BY <2>2, BalanceAssumption DEF TransferFails, Fails, BalIndInv, CycleTypes
    <3> QED BY <2>2, <3>1 DEF TransferFails, BalIndInv, CycleTypes
  <2> QED BY <2>1, <2>2
<1>2. transfer' = [transfer EXCEPT ![t] = NoTransfer] => TransferTo(t, "none", 0)
    BY <1>0 DEF TransferTo, NoTransfer
<1>3. ASSUME NEW x \in {"bridge", "track", "redeem"}, transfer' = [transfer EXCEPT ![t].at = x]
      PROVE  TransferTo(t, x, w)
    BY <1>0, <1>3 DEF TransferTo, TransferRecord
<1>4. CASE TransferStep(t)
  <2>0. UNCHANGED <<failures, cutOff>>
      BY <1>4 DEF TransferStep
  <2>1. CASE CheckSurplus(t)
    <3>1. transfer[t].at = "check" /\ bridgeRow' = bridgeRow /\ w = 0
        BY <1>0, <2>1 DEF CheckSurplus
    <3>2. CASE transfer' = [transfer EXCEPT ![t] = NoTransfer]
      <4>1. TransferTo(t, "none", w) /\ PlaceOK("none", w, k)
          BY <1>2, <3>1, <3>2 DEF PlaceOK
      <4>2. TransferInv' /\ TransfersAccounted'
        <5>1. MayMoveTo("none")
            BY DEF MayMoveTo
        <5> QED BY <2>0, <3>1, <4>1, <5>1, StillRows
      <4> QED BY <1>1, <4>2 DEF BalIndInv
    <3>3. CASE Reserved < MaxRows /\ transfer' = [transfer EXCEPT ![t].at = "bridge"]
      <4>1. TransferTo(t, "bridge", w) /\ PlaceOK("bridge", w, k)
          BY <1>3, <3>1, <3>3 DEF PlaceOK
      <4>2. MayMoveTo("bridge")
          BY <3>3 DEF MayMoveTo
      <4>3. TransferInv' /\ TransfersAccounted'
          BY <2>0, <3>1, <4>1, <4>2, StillRows
      <4> QED BY <1>1, <4>3 DEF BalIndInv
    <3> QED BY <2>1, <3>2, <3>3 DEF CheckSurplus
  <2>2. CASE initiateBridge(t)
    <3>1. /\ transfer[t].at = "bridge" /\ bridgeRow' = Append(bridgeRow, "PENDING")
          /\ transfer' = [transfer EXCEPT ![t] = [at |-> "inform", row |-> Len(bridgeRow')]]
        BY <2>2 DEF initiateBridge
    <3>2. Len(bridgeRow') = k + 1 /\ k + 1 \in Nat
        BY <1>0, <3>1 DEF TransferInv, Statuses
    <3> DEFINE n == k + 1
    <3>3. transfer' = [transfer EXCEPT ![t] = [at |-> "inform", row |-> n]] /\ n \in Nat
        BY <3>1, <3>2
    <3>4. TransferTo(t, "inform", n)
      <4> HIDE DEF n
      <4> QED BY <1>0, <3>3 DEF TransferTo, TransferRecord
    <3> QED BY <1>1, <2>0, <3>1, <3>4, RowIsMade DEF BalIndInv
  <2>3. CASE trackAndRedeem(t)
    <3>1. CASE /\ transfer[t].at = "inform"
               /\ transfer' = [transfer EXCEPT ![t].at = "track"] /\ UNCHANGED bridgeRow
      <4>1. TransferTo(t, "track", w) /\ "PENDING" \in Statuses
          BY <1>3, <3>1 DEF Statuses
      <4> QED BY <1>1, <2>0, <3>1, <4>1, RowIsChanged DEF BalIndInv
    <3>2. CASE /\ transfer[t].at = "track"
               /\ bridgeRow' = [bridgeRow EXCEPT ![w] = "VAA_READY"]
               /\ transfer' = [transfer EXCEPT ![t].at = "redeem"]
      <4>1. TransferTo(t, "redeem", w) /\ "VAA_READY" \in Statuses
          BY <1>3, <3>2 DEF Statuses
      <4>2. TransferInv' /\ TransfersAccounted'
        <5>1. "redeem" # "none" /\ failures \subseteq failures' /\ cutOff' = cutOff /\ BalIndInv
            BY <2>0
        <5>2. "redeem" \in {"track", "redeem", "none"} /\ w = (IF "redeem" = "none" THEN 0 ELSE w)
            OBVIOUS
        <5>3. bridgeRow' = bridgeRow \/ bridgeRow' = [bridgeRow EXCEPT ![w] = "VAA_READY"]
            BY <3>2
        <5>4. transfer[t].at \in {"inform", "track", "redeem"}
            BY <3>2
        <5> QED BY <4>1, <5>1, <5>2, <5>3, <5>4, RowIsChanged
      <4> QED BY <1>1, <4>2 DEF BalIndInv
    <3>3. CASE /\ transfer[t].at = "redeem"
               /\ bridgeRow' = [bridgeRow EXCEPT ![w] = "COMPLETED"]
               /\ transfer' = [transfer EXCEPT ![t] = NoTransfer]
      <4>1. TransferTo(t, "none", 0) /\ "COMPLETED" \in Statuses
          BY <1>2, <3>3 DEF Statuses
      <4>2. bridgeRow'[w] = "COMPLETED"
          BY <1>0, <3>3 DEF TransferInv
      <4> QED BY <1>1, <2>0, <3>3, <4>1, <4>2, RowIsChanged DEF BalIndInv
    <3> QED BY <2>3, <3>1, <3>2, <3>3 DEF trackAndRedeem
  <2> QED BY <1>4, <2>1, <2>2, <2>3 DEF TransferStep
<1>5. CASE TransferFails(t)
  <2>1. /\ TransferTo(t, "none", 0) /\ cutOff' = cutOff /\ failures \subseteq failures'
        /\ transfer[t] # NoTransfer /\ failures' = failures \cup FailedRow(t)
      BY <1>2, <1>5 DEF TransferFails
  <2>2. CASE transfer[t].at = "bridge" /\ bridgeRow' = Append(bridgeRow, "PENDING")
    <3>1. k + 1 \in failures'
        BY <2>1, <2>2 DEF FailedRow
    <3> QED BY <1>1, <2>1, <2>2, <3>1, RowIsMade DEF BalIndInv
  <2>3. CASE transfer[t].at \in {"none", "check", "bridge"} /\ bridgeRow' = bridgeRow
    <3>1. w = 0 /\ PlaceOK("none", w, k)
        BY <1>0, <2>3 DEF PlaceOK
    <3>2. \A r \in 1 .. Len(bridgeRow') :
            r = w \/ r > Len(bridgeRow) => bridgeRow'[r] = "COMPLETED" \/ r \in failures' \/ r = 0
        BY <1>0, <2>3, <3>1
    <3>3. Len(bridgeRow) + Cardinality(Bridging') <= MaxRows
      <4> DEFINE c == Cardinality(Bridging)
                 d == Cardinality(Bridging')
      <4>1. c \in Nat /\ d \in Nat /\ d <= c
          BY <1>0, <2>1, BridgingCount
      <4>2. k + c <= MaxRows
          BY <1>0 DEF TransferInv
      <4> HIDE DEF c, d, k
      <4>3. k + d <= MaxRows
          BY <1>0, <4>1, <4>2
      <4> QED BY <4>3 DEF d, k
    <3>4. /\ bridgeRow' \in Seq(Statuses) /\ Len(bridgeRow') >= Len(bridgeRow)
          /\ PlaceOK("none", 0, Len(bridgeRow')) /\ Len(bridgeRow') + Cardinality(Bridging') <= MaxRows
        BY <1>0, <2>3, <3>1, <3>3 DEF TransferInv
    <3>5. TransferInv' /\ TransfersAccounted'
        BY <2>1, <2>3, <3>2, <3>4, TransferMoves
    <3> QED BY <1>1, <3>5 DEF BalIndInv
  <2>4. CASE /\ transfer[t].at \in {"inform", "track", "redeem"}
             /\ \E st \in Statuses :
                  bridgeRow' = bridgeRow \/ bridgeRow' = [bridgeRow EXCEPT ![w] = st]
    <3>1. w \in failures'
        BY <1>0, <2>1, <2>4 DEF FailedRow
    <3> QED BY <1>1, <2>1, <2>4, <3>1, RowIsChanged DEF BalIndInv
  <2>5. \/ bridgeRow' = bridgeRow
        \/ transfer[t].at = "bridge" /\ bridgeRow' = Append(bridgeRow, "PENDING")
        \/ /\ transfer[t].at \in {"track", "redeem"}
           /\ \E st \in Statuses : bridgeRow' = [bridgeRow EXCEPT ![w] = st]
      BY <1>5 DEF TransferFails, Statuses
  <2>6. "PENDING" \in Statuses
      BY DEF Statuses
  <2>7. transfer[t].at \in {"none", "check", "bridge", "inform", "track", "redeem"}
      BY <1>0 DEF TransferRecord
  <2> QED BY <2>2, <2>3, <2>4, <2>5, <2>6, <2>7
<1> QED BY <1>4, <1>5

\* What a balance alert begins, and a restart cuts off.
LEMMA CycleKeepsRows ==
    ASSUME BalIndInv, notifyAdmins \/ BalRestart PROVE BalIndInv'
<1>0. TransferInv
    BY DEF BalIndInv
<1>1. CASE notifyAdmins
  <2>1. CycleTypes'
      BY <1>1, CycleKeepsTypes DEF BalIndInv
  <2>2. UNCHANGED <<bridgeRow, failures, cutOff>>
      BY <1>1 DEF notifyAdmins
  <2>3. CASE transfer' = transfer
      BY <2>1, <2>2, <2>3 DEF BalIndInv, TransferInv, TransfersAccounted, Bridging
  <2>4. ASSUME NEW t \in Transfers, transfer[t] = NoTransfer,
               transfer' = [transfer EXCEPT ![t].at = "check"]
        PROVE  BalIndInv'
    <3> DEFINE x == "check"
    <3>1. TransferTo(t, x, transfer[t].row)
        BY <1>0, <2>4 DEF TransferInv, TransferTo, TransferRecord
    <3>2. PlaceOK(x, transfer[t].row, Len(bridgeRow))
        BY <2>4 DEF PlaceOK, NoTransfer
    <3>3. TransferInv' /\ TransfersAccounted'
      <4>1. MayMoveTo(x)
          BY DEF MayMoveTo
      <4> HIDE DEF x
      <4> QED BY <2>2, <3>1, <3>2, <4>1, StillRows
    <3> QED BY <2>1, <3>3 DEF BalIndInv
  <2> QED BY <1>1, <2>3, <2>4 DEF notifyAdmins
<1>2. CASE BalRestart
  <2>1. CycleTypes'
      BY <1>2, CycleKeepsTypes DEF BalIndInv
  <2>2. /\ transfer' = [t \in Transfers |-> NoTransfer] /\ UNCHANGED <<bridgeRow, failures>>
        /\ cutOff' = cutOff \cup ({transfer[t].row : t \in Transfers} \ {0})
      BY <1>2 DEF BalRestart
  <2>3. NoTransfer \in TransferRecord /\ NoTransfer.at = "none" /\ NoTransfer.row = 0
      BY DEF NoTransfer, TransferRecord
  <2>4. Bridging' = {}
      BY <2>2, <2>3 DEF Bridging
  <2>5. Cardinality(Bridging') = 0 /\ Cardinality(Bridging) \in Nat
    <3>1. IsFiniteSet(Bridging)
        BY FS_Subset, BalanceAssumption DEF Bridging
    <3> QED BY <2>4, <3>1, FS_EmptySet, FS_CardinalityType
  <2>6. Len(bridgeRow) \in Nat /\ Len(bridgeRow) + 0 <= MaxRows
    <3>1. Len(bridgeRow) \in Nat /\ Len(bridgeRow) + Cardinality(Bridging) <= MaxRows /\ MaxRows \in Nat
        BY <1>0, BalanceAssumption DEF TransferInv
    <3> QED BY <2>5, <3>1
  <2>7. TransferInv'
    <3>1. transfer' \in [Transfers -> TransferRecord]
        BY <2>2, <2>3
    <3>2. \A t \in Transfers : PlaceOK(transfer'[t].at, transfer'[t].row, Len(bridgeRow'))
        BY <2>2, <2>3 DEF PlaceOK
    <3> QED BY <1>0, <2>2, <2>5, <2>6, <3>1, <3>2 DEF TransferInv
  <2>8. TransfersAccounted'
    <3> SUFFICES ASSUME NEW r \in 1 .. Len(bridgeRow)
                 PROVE  bridgeRow[r] = "COMPLETED" \/ r \in failures \cup cutOff'
        BY <2>2 DEF TransfersAccounted
    <3>1. r # 0
        BY <2>6
    <3> QED BY <2>2, <3>1 DEF BalIndInv, TransfersAccounted
  <2> QED BY <2>1, <2>7, <2>8 DEF BalIndInv
<1> QED BY <1>1, <1>2

LEMMA BalancesAreSound == BalSpec => []BalInv
<1>1. BalInit => BalIndInv
  <2> SUFFICES ASSUME BalInit PROVE BalIndInv
      OBVIOUS
  <2>1. [low |-> FALSE, last |-> NeverAlerted] \in AlertRecord
      BY BalanceAssumption DEF AlertRecord, NeverAlerted
  <2>2. /\ Rested \in [at : {"rest", "load", "notify"}, payer : 0 .. NPayers, seen : Levels]
        /\ Rested.at = "rest"
      BY BalanceAssumption DEF Rested, Levels
  <2>3. 0 \in 0 .. MaxBalanceFaults
      BY BalanceAssumption
  <2>4. CycleTypes
      BY <2>1, <2>2, <2>3 DEF BalInit, CycleTypes, Levels
  <2>5. NoTransfer \in TransferRecord /\ NoTransfer.at = "none" /\ NoTransfer.row = 0
      BY DEF NoTransfer, TransferRecord
  <2>6. Cardinality(Bridging) = 0
    <3>1. Bridging = {}
        BY <2>5 DEF BalInit, Bridging
    <3> QED BY <3>1, FS_EmptySet
  <2>7. bridgeRow \in Seq(Statuses) /\ Len(bridgeRow) = 0
      BY DEF BalInit
  <2>8. /\ transfer \in [Transfers -> TransferRecord]
        /\ \A t \in Transfers : transfer[t].at = "none" /\ transfer[t].row = 0
      BY <2>5 DEF BalInit
  <2>9. TransferInv
      BY <2>6, <2>7, <2>8, BalanceAssumption DEF TransferInv, PlaceOK
  <2>10. TransfersAccounted
      BY <2>7 DEF TransfersAccounted
  <2> QED BY <2>4, <2>9, <2>10 DEF BalIndInv
<1>2. BalIndInv /\ [BalNext]_balVars => BalIndInv'
  <2> SUFFICES ASSUME BalIndInv, [BalNext]_balVars PROVE BalIndInv'
      OBVIOUS
  <2>1. CASE UNCHANGED balVars
      BY <2>1 DEF balVars, BalIndInv, CycleTypes, TransferInv, TransfersAccounted, Bridging
  <2>2. CASE \/ checkBalances \/ LoadAccount \/ CycleFails \/ BalTick
             \/ \E p \in Payers : BalanceMoves(p)
    <3>1. CycleTypes'
        BY <2>2, CycleKeepsTypes DEF BalIndInv
    <3>2. UNCHANGED balRows
        BY <2>2 DEF checkBalances, LoadAccount, CycleFails, BalTick, BalanceMoves
    <3> QED BY <3>1, <3>2 DEF balRows, BalIndInv, TransferInv, TransfersAccounted, Bridging
  <2> QED BY <2>1, <2>2, TransferKeepsRows, CycleKeepsRows DEF BalNext, MonitorCycle
<1>3. BalIndInv => BalInv
  <2> SUFFICES ASSUME BalIndInv PROVE BalInv
      OBVIOUS
  <2>1. Len(bridgeRow) <= MaxRows
    <3>1. IsFiniteSet(Bridging)
        BY FS_Subset, BalanceAssumption DEF Bridging
    <3>2. Cardinality(Bridging) \in Nat
        BY <3>1, FS_CardinalityType
    <3>3. Len(bridgeRow) \in Nat /\ Len(bridgeRow) + Cardinality(Bridging) <= MaxRows /\ MaxRows \in Nat
        BY BalanceAssumption DEF BalIndInv, TransferInv
    <3> QED BY <3>2, <3>3
  <2>2. BalTypeOK
      BY <2>1 DEF BalIndInv, CycleTypes, TransferInv, BalTypeOK, Levels, AlertRecord, Statuses
  <2> QED BY <2>2 DEF BalIndInv, BalInv
<1> QED BY <1>1, <1>2, <1>3, PTL DEF BalSpec

\* The treasury is sound, for any schedule of sweeps and of transfers: a sweep
\* leaves what is to be retained, and a transfer that was begun is accounted for.
THEOREM TreasuryIsSound == SweepSpec /\ BalSpec => []TreasuryInv
BY SweepsAreSound, BalancesAreSound, PTL DEF TreasuryInv
-----------------------------------------------------------------------------
(* Cross-chain settlement *)

OpenStatuses == {"none", "AWAITING_EVM_PAYMENT"}
RowStatuses == {"AWAITING_EVM_PAYMENT", "EVM_CONFIRMED", "STELLAR_SETTLED", "REFUNDED",
                "REFUND_FAILED"}
PastConfirm == {"execute", "settle", "refund", "refunded", "refundFailed"}
BusySteps == {"confirm"} \cup PastConfirm

\* The row s was created.
Exists(s) == rows[s] \in [status : RowStatuses, claim : Claims, startBlock : Nat]

SettleTypes ==
    /\ DOMAIN rows = Settlements /\ \A s \in Settlements : rows[s] = NoRow \/ Exists(s)
    /\ block \in Nat /\ transfers \in SUBSET [claim : Claims, block : Nat]
    /\ createdAt \in Seq(Settlements)
    /\ todo \in [Pollers -> Seq(Settlements)]
    /\ step \in [Pollers -> {"idle", "find"} \cup BusySteps]
    /\ polling \in SUBSET Pollers /\ faults \in 0 .. MaxFaults
    /\ executed \in SUBSET Settlements /\ refunds \in [Settlements -> Nat]

\* Rows that are listed or in a round exist.
Listed(s) == \/ \E i \in DOMAIN createdAt : createdAt[i] = s
             \/ \E p \in Pollers : \E i \in DOMAIN todo[p] : todo[p][i] = s
ListedExist == \A s \in Settlements : Listed(s) => Exists(s)

\* Poller p is at step x of the row s.
Works(p, s, x) == todo[p] # <<>> /\ Head(todo[p]) = s /\ step[p] = x

Paid(s) == \E t \in transfers : /\ t.claim = rows[s].claim /\ t.block >= rows[s].startBlock
                                /\ block - t.block + 1 >= confirmationsRequired

\* What the books say of the row s.
RowTrue(s) ==
    /\ s \in executed => Exists(s) /\ Paid(s)
    /\ rows[s].status = "STELLAR_SETTLED" => s \in executed
    /\ rows[s].status = "REFUNDED" => refunds[s] > 0
    /\ s \notin ambiguous =>
         /\ refunds[s] <= 1
         /\ s \in executed => refunds[s] = 0
         /\ rows[s].status \in OpenStatuses => s \notin executed /\ refunds[s] = 0

\* What a poller at a step of the row s may rely on: the row was paid and, unless an
\* outcome was unclear, it is the only one past the confirmation.
WorkTrue(p, s) ==
    /\ \A x \in BusySteps : Works(p, s, x) => Exists(s) /\ Paid(s)
    /\ Works(p, s, "settle") => s \in executed
    /\ Works(p, s, "refunded") => refunds[s] > 0
    /\ s \notin ambiguous =>
         /\ \A x \in PastConfirm : Works(p, s, x) => rows[s].status \notin OpenStatuses
         /\ Works(p, s, "execute") \/ Works(p, s, "refund") => s \notin executed /\ refunds[s] = 0
         /\ Works(p, s, "refunded") \/ Works(p, s, "refundFailed") => s \notin executed
         /\ \A q \in Pollers, x, y \in PastConfirm : Works(p, s, x) /\ Works(q, s, y) => p = q

BooksTrue == \A s \in Settlements : RowTrue(s) /\ \A p \in Pollers : WorkTrue(p, s)

SettleIndInv == SettleTypes /\ ListedExist /\ BooksTrue

\* The pollers after p worked on the row s and went on to step x: the others are
\* where they were.
NextWork(p, s, x) ==
    \A q \in Pollers, u \in Settlements, y \in BusySteps :
      Works(q, u, y)' => IF q = p THEN u = s /\ y = x ELSE Works(q, u, y)

\* The state after p worked on the row s, as far as types go.
Kept(p, s) ==
    /\ todo' \in [Pollers -> Seq(Settlements)]
    /\ step' \in [Pollers -> {"idle", "find"} \cup BusySteps]
    /\ \A q \in Pollers : \A i \in DOMAIN todo'[q] : \E j \in DOMAIN todo[q] : todo'[q][i] = todo[q][j]

LEMMA GoesOn ==
    ASSUME SettleTypes, NEW p \in Pollers, NEW s \in Settlements, todo[p] # <<>>, s = Head(todo[p]),
           NEW x \in BusySteps, StepTo(p, x)
    PROVE  NextWork(p, s, x) /\ Kept(p, s)
BY DEF StepTo, SettleTypes, NextWork, Kept, Works

LEMMA LeavesRow ==
    ASSUME SettleTypes, NEW p \in Pollers, NEW s \in Settlements, todo[p] # <<>>, s = Head(todo[p]),
           RowDone(p) \/ Exits(p)
    PROVE  NextWork(p, s, "find") /\ Kept(p, s)
<1>1. todo[p] \in Seq(Settlements) /\ Tail(todo[p]) \in Seq(Settlements)
      /\ Len(Tail(todo[p])) = Len(todo[p]) - 1
      /\ \A i \in 1 .. Len(Tail(todo[p])) : Tail(todo[p])[i] = todo[p][i + 1] /\ i + 1 \in 1 .. Len(todo[p])
    BY DEF SettleTypes
<1> DEFINE rest == Tail(todo[p])
<1>2. /\ \A q \in Pollers : q # p => todo'[q] = todo[q] /\ step'[q] = step[q]
      /\ step'[p] \in {"idle", "find"} /\ todo'[p] \in {rest, <<>>}
      /\ todo' \in [Pollers -> Seq(Settlements)]
      /\ step' \in [Pollers -> {"idle", "find"} \cup BusySteps]
  <2> HIDE DEF rest
  <2>1. CASE RowDone(p)
    <3>1. PICK x \in {"idle", "find"} : todo' = [todo EXCEPT ![p] = rest] /\ step' = [step EXCEPT ![p] = x]
        BY <2>1 DEF RowDone, rest
    <3>2. rest \in Seq(Settlements)
        BY <1>1 DEF rest
    <3> QED BY <3>1, <3>2 DEF SettleTypes
  <2>2. CASE Exits(p)
    <3>1. <<>> \in Seq(Settlements)
        OBVIOUS
    <3> QED BY <2>2, <3>1 DEF Exits, SettleTypes
  <2> QED BY <2>1, <2>2
<1>3. NextWork(p, s, "find")
    BY <1>2 DEF NextWork, Works, BusySteps, PastConfirm
<1>4. ASSUME NEW q \in Pollers, NEW i \in DOMAIN todo'[q]
      PROVE  \E j \in DOMAIN todo[q] : todo'[q][i] = todo[q][j]
  <2>1. CASE q # p
      BY <1>2, <2>1
  <2>2. CASE q = p /\ todo'[p] = <<>>
      BY <2>2
  <2>3. CASE q = p /\ todo'[p] = rest
      BY <1>1, <2>3
  <2> QED BY <1>2, <2>1, <2>2, <2>3
<1> QED BY <1>2, <1>3, <1>4 DEF Kept
\* A step about the row s leaves what is known of the other rows.
RowStep(s) ==
    /\ transfers' = transfers /\ block' = block /\ createdAt' = createdAt
    /\ polling' \in SUBSET Pollers /\ faults' \in 0 .. MaxFaults
    /\ executed' \in SUBSET Settlements /\ refunds' \in [Settlements -> Nat]
    /\ DOMAIN rows' = Settlements
    /\ \A u \in Settlements \ {s} :
         /\ rows'[u] = rows[u] /\ refunds'[u] = refunds[u]
         /\ u \in executed' <=> u \in executed
         /\ u \in ambiguous' <=> u \in ambiguous
    /\ Exists(s)' /\ rows'[s].claim = rows[s].claim /\ rows'[s].startBlock = rows[s].startBlock

LEMMA OtherRows ==
    ASSUME SettleIndInv, NEW p \in Pollers, NEW s \in Settlements,
           NEW x \in BusySteps \cup {"find"}, NextWork(p, s, x), Kept(p, s),
           RowStep(s), RowTrue(s)', \A q \in Pollers : WorkTrue(q, s)'
    PROVE  SettleIndInv'
<1>1. \A u \in Settlements : Exists(u) => Exists(u)'
    BY DEF RowStep, Exists
<1>2. SettleTypes'
    BY <1>1 DEF SettleIndInv, SettleTypes, RowStep, Kept, Exists
<1>3. ListedExist'
  <2>1. ASSUME NEW u \in Settlements, Listed(u)' PROVE Listed(u)
    <3>1. CASE \E i \in DOMAIN createdAt' : createdAt'[i] = u
        BY <3>1 DEF Listed, RowStep
    <3>2. CASE \E q \in Pollers : \E i \in DOMAIN todo'[q] : todo'[q][i] = u
        BY <3>2 DEF Listed, Kept
    <3> QED BY <2>1, <3>1, <3>2 DEF Listed
  <2> QED BY <1>1, <2>1 DEF ListedExist, SettleIndInv
<1>4. ASSUME NEW u \in Settlements, u # s PROVE RowTrue(u)' /\ \A q \in Pollers : WorkTrue(q, u)'
  <2>1. /\ rows'[u] = rows[u] /\ refunds'[u] = refunds[u] /\ (u \in executed' <=> u \in executed)
        /\ (u \in ambiguous' <=> u \in ambiguous) /\ (Paid(u)' <=> Paid(u)) /\ (Exists(u)' <=> Exists(u))
      BY <1>4 DEF RowStep, Paid, Exists
  <2>2. \A q \in Pollers, y \in BusySteps : Works(q, u, y)' => Works(q, u, y)
      BY <1>4 DEF NextWork
  <2>3. RowTrue(u) /\ \A q \in Pollers : WorkTrue(q, u)
      BY DEF SettleIndInv, BooksTrue
  <2>4. RowTrue(u)'
      BY <2>1, <2>3 DEF RowTrue
  <2>5. ASSUME NEW q \in Pollers PROVE WorkTrue(q, u)'
      BY <2>1, <2>2, <2>3 DEF WorkTrue, BusySteps, PastConfirm
  <2> QED BY <2>4, <2>5
<1> QED BY <1>2, <1>3, <1>4 DEF SettleIndInv, BooksTrue

\* What is known of the row at the head of a poller's round.
LEMMA RowAtHead ==
    ASSUME SettleIndInv, NEW p \in Pollers, todo[p] # <<>>, NEW s, s = Head(todo[p])
    PROVE  /\ s \in Settlements /\ Exists(s) /\ RowTrue(s) /\ WorkTrue(p, s)
           /\ \A q \in Pollers : WorkTrue(q, s)
           /\ \A x \in BusySteps : step[p] = x => Works(p, s, x)
<1>1. todo[p] \in Seq(Settlements) /\ 1 \in DOMAIN todo[p] /\ s = todo[p][1]
    BY DEF SettleIndInv, SettleTypes
<1>2. s \in Settlements /\ Exists(s)
    BY <1>1 DEF SettleIndInv, ListedExist, Listed
<1> QED BY <1>2 DEF SettleIndInv, BooksTrue, Works

LEMMA StatusSet ==
    ASSUME SettleIndInv, NEW s \in Settlements, Exists(s), NEW st \in RowStatuses, SetStatus(s, st)
    PROVE  /\ DOMAIN rows' = Settlements /\ Exists(s)' /\ rows'[s].status = st
           /\ rows'[s].claim = rows[s].claim /\ rows'[s].startBlock = rows[s].startBlock
           /\ \A u \in Settlements \ {s} : rows'[u] = rows[u]
<1>1. rows' = [rows EXCEPT ![s] = [rows[s] EXCEPT !.status = st]] /\ DOMAIN rows = Settlements
    BY DEF SetStatus, SettleIndInv, SettleTypes
<1>2. rows'[s] = [rows[s] EXCEPT !.status = st]
    BY <1>1
<1> QED BY <1>1, <1>2 DEF Exists

LEMMA WorkKeepsBooks ==
    ASSUME SettleIndInv, NEW p \in Pollers, todo[p] # <<>>,
           NEW s, s = Head(todo[p]),
           \/ Find(p, s) \/ Confirm(p, s) \/ Execute(p, s) \/ Settle(p, s)
           \/ RefundToken(p, s) \/ Refunded(p, s) \/ RefundFailed(p, s)
    PROVE  SettleIndInv'
<1>1. /\ s \in Settlements /\ Exists(s) /\ RowTrue(s) /\ \A q \in Pollers : WorkTrue(q, s)
      /\ \A x \in BusySteps : step[p] = x => Works(p, s, x)
    BY RowAtHead
<1>2. SettleTypes
    BY DEF SettleIndInv
<1> USE DEF chainVars
<1>3. CASE Find(p, s)
  <2>1. PICK x \in {"find", "confirm"} : NextWork(p, s, x) /\ Kept(p, s) /\ (x = "confirm" => findConfirmedPayment(s))
      BY <1>1, <1>2, <1>3, GoesOn, LeavesRow DEF Find, BusySteps
  <2>2. RowStep(s) /\ UNCHANGED <<rows, executed, refunds, ambiguous>>
      BY <1>1, <1>2, <1>3 DEF Find, RowStep, SettleTypes, Exists
  <2>3. findConfirmedPayment(s) => Paid(s)
      BY DEF findConfirmedPayment, Paid
  <2>4. RowTrue(s)' /\ (Paid(s)' <=> Paid(s)) /\ Exists(s)'
      BY <1>1, <2>2 DEF RowTrue, RowStep, Paid, Exists
  <2>5. ASSUME NEW q \in Pollers PROVE WorkTrue(q, s)'
      BY <1>1, <2>1, <2>2, <2>3, <2>4 DEF WorkTrue, NextWork, BusySteps, PastConfirm
  <2> QED BY <1>1, <2>1, <2>2, <2>4, <2>5, OtherRows DEF BusySteps
<1>4. CASE Confirm(p, s)
  <2>1. NextWork(p, s, "execute") /\ Kept(p, s)
      BY <1>1, <1>2, <1>4, GoesOn DEF Confirm, BusySteps, PastConfirm
  <2>2. RowStep(s) /\ rows'[s].status = "EVM_CONFIRMED" /\ UNCHANGED <<executed, refunds>>
        /\ (s \notin ambiguous' => s \notin ambiguous /\ rows[s].status = "AWAITING_EVM_PAYMENT")
      BY <1>1, <1>2, <1>4, StatusSet DEF Confirm, RowStep, SettleTypes, RowStatuses
  <2>3. (Paid(s)' <=> Paid(s)) /\ Exists(s)' /\ Works(p, s, "confirm")
      BY <1>1, <1>4, <2>2 DEF RowStep, Paid, Confirm, BusySteps
  <2>4. RowTrue(s)'
      BY <1>1, <2>2, <2>3 DEF RowTrue, OpenStatuses
  <2>5. ASSUME NEW q \in Pollers PROVE WorkTrue(q, s)'
    <3>1. \A r \in Pollers, y \in BusySteps : Works(r, s, y)' => IF r = p THEN y = "execute" ELSE Works(r, s, y)
        BY <1>1, <2>1 DEF NextWork
    <3>2. s \notin ambiguous' => \A r \in Pollers, y \in PastConfirm : ~Works(r, s, y)
        BY <1>1, <2>2 DEF WorkTrue, OpenStatuses
    <3>3. Exists(s)' /\ Paid(s)'
        BY <1>1, <2>3 DEF WorkTrue, BusySteps
    <3>4. Works(q, s, "settle")' => s \in executed'
        BY <1>1, <2>2, <3>1 DEF WorkTrue, BusySteps, PastConfirm
    <3>5. Works(q, s, "refunded")' => refunds'[s] > 0
        BY <1>1, <2>2, <3>1 DEF WorkTrue, BusySteps, PastConfirm
    <3>6. s \notin ambiguous' => s \notin executed' /\ refunds'[s] = 0 /\ rows'[s].status \notin OpenStatuses
        BY <1>1, <2>2 DEF RowTrue, OpenStatuses
    <3>7. s \notin ambiguous' => \A r \in Pollers, y \in PastConfirm : Works(r, s, y)' => r = p
        BY <3>1, <3>2 DEF BusySteps
    <3> QED BY <3>1, <3>2, <3>3, <3>4, <3>5, <3>6, <3>7 DEF WorkTrue, PastConfirm, BusySteps
  <2> QED BY <1>1, <2>1, <2>2, <2>4, <2>5, OtherRows DEF BusySteps, PastConfirm
<1>5. CASE Execute(p, s)
  <2>1. PICK x \in {"settle", "refund"} :
          /\ NextWork(p, s, x) /\ Kept(p, s)
          /\ executed' = IF x = "settle" THEN executed \cup {s} ELSE executed
      BY <1>1, <1>2, <1>5, GoesOn DEF Execute, BusySteps, PastConfirm
  <2>2. RowStep(s) /\ UNCHANGED <<rows, refunds, ambiguous>>
      BY <1>1, <1>2, <1>5, <2>1 DEF Execute, RowStep, SettleTypes, Exists
  <2>3. (Paid(s)' <=> Paid(s)) /\ Exists(s)' /\ Works(p, s, "execute")
      BY <1>1, <1>5, <2>2 DEF RowStep, Paid, Execute, BusySteps, PastConfirm
  <2>4. /\ Paid(s) /\ \A q \in Pollers, y \in BusySteps : Works(q, s, y)' => IF q = p THEN y = x ELSE Works(q, s, y)
        /\ s \notin ambiguous => /\ rows[s].status \notin OpenStatuses /\ refunds[s] = 0 /\ s \notin executed
                                 /\ \A q \in Pollers \ {p}, y \in PastConfirm : ~Works(q, s, y)
      BY <1>1, <2>1, <2>3 DEF WorkTrue, NextWork, BusySteps, PastConfirm
  <2>5. RowTrue(s)'
      BY <1>1, <2>1, <2>2, <2>3, <2>4 DEF RowTrue
  <2>6. ASSUME NEW q \in Pollers PROVE WorkTrue(q, s)'
    <3>1. WorkTrue(q, s)
        BY <1>1
    <3> QED BY <2>1, <2>2, <2>3, <2>4, <3>1 DEF WorkTrue, BusySteps, PastConfirm
  <2> QED BY <1>1, <2>1, <2>2, <2>5, <2>6, OtherRows DEF BusySteps, PastConfirm
<1>6. CASE RefundToken(p, s)
  <2>1. NextWork(p, s, "refunded") /\ Kept(p, s)
      BY <1>1, <1>2, <1>6, GoesOn DEF RefundToken, BusySteps, PastConfirm
  <2>2. RowStep(s) /\ UNCHANGED <<rows, executed, ambiguous>> /\ refunds'[s] = refunds[s] + 1 /\ refunds[s] \in Nat
      BY <1>1, <1>2, <1>6 DEF RefundToken, RowStep, SettleTypes, Exists
  <2>3. (Paid(s)' <=> Paid(s)) /\ Exists(s)' /\ Works(p, s, "refund")
      BY <1>1, <1>6, <2>2 DEF RowStep, Paid, RefundToken, BusySteps, PastConfirm
  <2>4. /\ Paid(s) /\ \A q \in Pollers, y \in BusySteps : Works(q, s, y)' => IF q = p THEN y = "refunded" ELSE Works(q, s, y)
        /\ s \notin ambiguous => /\ rows[s].status \notin OpenStatuses /\ refunds[s] = 0 /\ s \notin executed
                                 /\ \A q \in Pollers \ {p}, y \in PastConfirm : ~Works(q, s, y)
      BY <1>1, <2>1, <2>3 DEF WorkTrue, NextWork, BusySteps, PastConfirm
  <2>5. RowTrue(s)'
      BY <1>1, <2>1, <2>2, <2>3, <2>4 DEF RowTrue
  <2>6. ASSUME NEW q \in Pollers PROVE WorkTrue(q, s)'
    <3>1. WorkTrue(q, s)
        BY <1>1
    <3> QED BY <2>1, <2>2, <2>3, <2>4, <3>1 DEF WorkTrue, BusySteps, PastConfirm
  <2> QED BY <1>1, <2>1, <2>2, <2>5, <2>6, OtherRows DEF BusySteps, PastConfirm
<1>7. CASE Settle(p, s) \/ Refunded(p, s) \/ RefundFailed(p, s)
  <2>1. NextWork(p, s, "find") /\ Kept(p, s)
      BY <1>1, <1>2, <1>7, LeavesRow DEF Settle, Refunded, RefundFailed
  <2>2. PICK st \in {"STELLAR_SETTLED", "REFUNDED", "REFUND_FAILED"} :
          /\ SetStatus(s, st) /\ UNCHANGED <<executed, refunds, ambiguous>>
          /\ st = "STELLAR_SETTLED" => Works(p, s, "settle")
          /\ st = "REFUNDED" => Works(p, s, "refunded")
          /\ st = "REFUND_FAILED" => Works(p, s, "refundFailed")
          /\ UNCHANGED <<chainVars, faults>>
      BY <1>1, <1>7 DEF Settle, Refunded, RefundFailed, BusySteps, PastConfirm
  <2>3. RowStep(s) /\ rows'[s].status = st
      BY <1>1, <1>2, <2>2, StatusSet DEF RowStep, SettleTypes, RowStatuses
  <2>4. (Paid(s)' <=> Paid(s)) /\ Exists(s)' /\ st \notin OpenStatuses
      BY <2>3 DEF RowStep, Paid, OpenStatuses
  <2>5. RowTrue(s)'
    <3>1. /\ st = "STELLAR_SETTLED" => s \in executed
          /\ st = "REFUNDED" => refunds[s] > 0
        BY <1>1, <2>2 DEF WorkTrue
    <3> QED BY <1>1, <2>2, <2>3, <2>4, <3>1 DEF RowTrue
  <2>6. ASSUME NEW q \in Pollers PROVE WorkTrue(q, s)'
    <3>1. WorkTrue(q, s) /\ \A r \in Pollers, y \in BusySteps : Works(r, s, y)' => Works(r, s, y)
        BY <1>1, <2>1 DEF NextWork, BusySteps, PastConfirm
    <3> QED BY <2>2, <2>3, <2>4, <3>1 DEF WorkTrue, BusySteps, PastConfirm
  <2> QED BY <1>1, <2>1, <2>3, <2>5, <2>6, OtherRows
<1> QED BY <1>3, <1>4, <1>5, <1>6, <1>7

\* A process that dies leaves its round.
LEMMA ExitKeepsBooks ==
    ASSUME SettleIndInv, NEW p \in Pollers, Exits(p), faults' \in 0 .. MaxFaults,
           UNCHANGED <<rows, executed, refunds, ambiguous, createdAt, block, transfers>>
    PROVE  SettleIndInv'
<1>0. SettleTypes
    BY DEF SettleIndInv
<1>1. /\ \A q \in Pollers, u \in Settlements, y \in BusySteps : Works(q, u, y)' => Works(q, u, y)
      /\ \A u \in Settlements : Listed(u)' => Listed(u)
      /\ todo' \in [Pollers -> Seq(Settlements)] /\ step' \in [Pollers -> {"idle", "find"} \cup BusySteps]
  <2>1. \A q \in Pollers : (todo'[q] = todo[q] /\ step'[q] = step[q]) \/ (todo'[q] = <<>>)
      BY <1>0 DEF Exits, SettleTypes
  <2>2. todo' \in [Pollers -> Seq(Settlements)] /\ step' \in [Pollers -> {"idle", "find"} \cup BusySteps]
      BY <1>0 DEF Exits, SettleTypes
  <2>3. \A q \in Pollers, u \in Settlements, y \in BusySteps : Works(q, u, y)' => Works(q, u, y)
      BY <2>1 DEF Works
  <2>4. \A u \in Settlements : Listed(u)' => Listed(u)
      BY <2>1 DEF Listed
  <2> QED BY <2>2, <2>3, <2>4
<1>2. SettleTypes'
    BY <1>0, <1>1 DEF SettleTypes, Exists, Exits
<1>3. ListedExist'
    BY <1>1 DEF ListedExist, SettleIndInv, Exists
<1>4. ASSUME NEW u \in Settlements PROVE RowTrue(u)' /\ \A q \in Pollers : WorkTrue(q, u)'
  <2>1. (Paid(u)' <=> Paid(u)) /\ (Exists(u)' <=> Exists(u)) /\ RowTrue(u) /\ \A q \in Pollers : WorkTrue(q, u)
      BY DEF Paid, Exists, SettleIndInv, BooksTrue
  <2>2. RowTrue(u)'
      BY <2>1 DEF RowTrue
  <2>3. ASSUME NEW q \in Pollers PROVE WorkTrue(q, u)'
      BY <1>1, <2>1 DEF WorkTrue, BusySteps, PastConfirm
  <2> QED BY <2>2, <2>3
<1> QED BY <1>2, <1>3, <1>4 DEF SettleIndInv, BooksTrue

\* A call that throws: where the error goes depends on the step.
LEMMA ThrowKeepsBooks ==
    ASSUME SettleIndInv, NEW p \in Pollers, todo[p] # <<>>, NEW s, s = Head(todo[p]),
           SettleThrows(p, s)
    PROVE  SettleIndInv'
<1>0. SettleTypes
    BY DEF SettleIndInv
<1>1. /\ s \in Settlements /\ Exists(s) /\ RowTrue(s) /\ \A q \in Pollers : WorkTrue(q, s)
      /\ \A x \in BusySteps : step[p] = x => Works(p, s, x)
    BY RowAtHead
<1>2. /\ faults < MaxFaults /\ faults' = faults + 1 /\ faults' \in 0 .. MaxFaults
      /\ UNCHANGED <<rows, createdAt, block, transfers>>
    BY <1>0, SettlementAssumption DEF SettleThrows, SettleTypes
<1>3. CASE step[p] \in {"find", "confirm", "refundFailed"} /\ Exits(p) /\ UNCHANGED <<executed, refunds, ambiguous>>
    BY <1>2, <1>3, ExitKeepsBooks
<1>4. CASE /\ step[p] \in {"execute", "settle"} /\ StepTo(p, "refund")
           /\ executed' = executed \cup {s} /\ ambiguous' = ambiguous \cup {s} /\ UNCHANGED <<refunds, polling>>
  <2>1. NextWork(p, s, "refund") /\ Kept(p, s)
      BY <1>0, <1>1, <1>4, GoesOn DEF BusySteps, PastConfirm
  <2>2. RowStep(s)
      BY <1>0, <1>1, <1>2, <1>4 DEF RowStep, SettleTypes, Exists
  <2>3. (Paid(s)' <=> Paid(s)) /\ Exists(s)' /\ (\E x \in PastConfirm : Works(p, s, x))
      BY <1>1, <1>2, <1>4 DEF Exists, Paid, BusySteps, PastConfirm
  <2>4. Paid(s) /\ s \in executed' /\ s \in ambiguous'
      BY <1>1, <1>4, <2>3 DEF WorkTrue, BusySteps
  <2>5. RowTrue(s)'
      BY <1>1, <1>2, <1>4, <2>3, <2>4 DEF RowTrue
  <2>6. ASSUME NEW q \in Pollers PROVE WorkTrue(q, s)'
    <3>1. WorkTrue(q, s) /\ \A y \in BusySteps : Works(q, s, y)' => IF q = p THEN y = "refund" ELSE Works(q, s, y)
        BY <1>1, <2>1 DEF NextWork
    <3> QED BY <1>2, <1>4, <2>3, <2>4, <3>1 DEF WorkTrue, BusySteps, PastConfirm
  <2> QED BY <1>1, <2>1, <2>2, <2>5, <2>6, OtherRows DEF BusySteps, PastConfirm
<1>5. CASE /\ step[p] \in {"refund", "refunded"} /\ StepTo(p, "refundFailed")
           /\ \/ UNCHANGED refunds
              \/ step[p] = "refund" /\ refunds' = [refunds EXCEPT ![s] = @ + 1]
           /\ UNCHANGED <<executed, ambiguous, polling>>
  <2>1. NextWork(p, s, "refundFailed") /\ Kept(p, s)
      BY <1>0, <1>1, <1>5, GoesOn DEF BusySteps, PastConfirm
  <2>2. RowStep(s) /\ refunds[s] \in Nat /\ (refunds'[s] = refunds[s] \/ (refunds'[s] = refunds[s] + 1 /\ step[p] = "refund"))
    <3>1. /\ refunds' \in [Settlements -> Nat] /\ refunds[s] \in Nat
          /\ \A u \in Settlements \ {s} : refunds'[u] = refunds[u]
          /\ (refunds'[s] = refunds[s] \/ (refunds'[s] = refunds[s] + 1 /\ step[p] = "refund"))
      <4>1. refunds \in [Settlements -> Nat]
          BY <1>0 DEF SettleTypes
      <4> QED BY <1>1, <1>5, <4>1
    <3> QED BY <1>0, <1>1, <1>2, <1>5, <3>1 DEF RowStep, SettleTypes, Exists
  <2>3. (Paid(s)' <=> Paid(s)) /\ Exists(s)' /\ (Works(p, s, "refund") \/ (Works(p, s, "refunded") /\ refunds'[s] = refunds[s]))
      BY <1>1, <1>2, <1>5, <2>2 DEF Exists, Paid, BusySteps, PastConfirm
  <2>4. /\ Paid(s) /\ \A q \in Pollers, y \in BusySteps : Works(q, s, y)' => IF q = p THEN y = "refundFailed" ELSE Works(q, s, y)
        /\ s \notin ambiguous => /\ rows[s].status \notin OpenStatuses /\ s \notin executed /\ refunds'[s] <= 1
                                 /\ \A q \in Pollers \ {p}, y \in PastConfirm : ~Works(q, s, y)
    <3>1. WorkTrue(p, s) /\ (s \notin ambiguous => refunds[s] <= 1)
        BY <1>1 DEF RowTrue
    <3>2. \A q \in Pollers, y \in BusySteps : Works(q, s, y)' => IF q = p THEN y = "refundFailed" ELSE Works(q, s, y)
        BY <1>1, <2>1 DEF NextWork
    <3>3. Works(p, s, "refund") => refunds'[s] <= refunds[s] + 1
        BY <2>2
    <3> QED BY <2>2, <2>3, <3>1, <3>2, <3>3 DEF WorkTrue, BusySteps, PastConfirm
  <2>5. RowTrue(s)'
      BY <1>1, <1>2, <1>5, <2>2, <2>3, <2>4 DEF RowTrue
  <2>6. ASSUME NEW q \in Pollers PROVE WorkTrue(q, s)'
    <3>1. WorkTrue(q, s)
        BY <1>1
    <3> QED BY <1>2, <1>5, <2>2, <2>3, <2>4, <3>1 DEF WorkTrue, BusySteps, PastConfirm
  <2> QED BY <1>1, <2>1, <2>2, <2>5, <2>6, OtherRows DEF BusySteps, PastConfirm
<1> QED BY <1>3, <1>4, <1>5 DEF SettleThrows
\* A settlement is asked for: no poller knows of it.
LEMMA EnqueueKeepsBooks ==
    ASSUME SettleIndInv, NEW p \in Pollers, NEW s \in Settlements, NEW c \in Claims,
           enqueuePendingSettlement(p, s, c)
    PROVE  SettleIndInv'
<1>1. SettleTypes /\ ~Exists(s)
    BY DEF enqueuePendingSettlement, SettleIndInv, Exists, NoRow, RowStatuses
<1>2. /\ Exists(s)' /\ rows'[s].status = "AWAITING_EVM_PAYMENT" /\ rows[s].status = "none"
      /\ DOMAIN rows' = Settlements /\ \A u \in Settlements \ {s} : rows'[u] = rows[u]
      /\ createdAt' = Append(createdAt, s) /\ polling' = polling \cup {p}
      /\ UNCHANGED <<block, transfers, todo, step, faults, executed, refunds, ambiguous>>
    BY <1>1 DEF enqueuePendingSettlement, SettleTypes, Exists, RowStatuses, NoRow
<1>3. \A u \in Settlements : Exists(u) => Exists(u)'
    BY <1>2 DEF Exists
<1>4. SettleTypes'
  <2>1. createdAt' \in Seq(Settlements) /\ polling' \in SUBSET Pollers
      BY <1>1, <1>2 DEF SettleTypes
  <2>2. \A u \in Settlements : rows'[u] = NoRow \/ Exists(u)'
      BY <1>1, <1>2, <1>3 DEF SettleTypes
  <2> QED BY <1>1, <1>2, <2>1, <2>2 DEF SettleTypes
<1>5. ListedExist'
  <2>1. \A u \in Settlements : Listed(u)' => Listed(u) \/ u = s
      BY <1>1, <1>2 DEF Listed, SettleTypes
  <2> QED BY <1>2, <1>3, <2>1 DEF ListedExist, SettleIndInv
<1>6. ASSUME NEW u \in Settlements PROVE RowTrue(u)' /\ \A q \in Pollers : WorkTrue(q, u)'
  <2>1. RowTrue(u) /\ \A q \in Pollers : WorkTrue(q, u)
      BY DEF SettleIndInv, BooksTrue
  <2>2. \A q \in Pollers, y \in BusySteps : Works(q, u, y)' <=> Works(q, u, y)
      BY <1>2 DEF Works
  <2>3. CASE u # s
    <3>1. rows'[u] = rows[u] /\ (Paid(u)' <=> Paid(u)) /\ (Exists(u)' <=> Exists(u))
        BY <1>2, <2>3 DEF Paid, Exists
    <3>2. RowTrue(u)'
        BY <1>2, <2>1, <3>1 DEF RowTrue
    <3>3. ASSUME NEW q \in Pollers PROVE WorkTrue(q, u)'
        BY <1>2, <2>1, <2>2, <3>1 DEF WorkTrue, BusySteps, PastConfirm
    <3> QED BY <3>2, <3>3
  <2>4. CASE u = s
    <3>1. s \notin executed /\ \A q \in Pollers, y \in BusySteps : ~Works(q, s, y)'
        BY <1>1, <2>1, <2>2, <2>4 DEF RowTrue, WorkTrue
    <3>2. s \notin ambiguous => refunds[s] = 0
        BY <1>2, <2>1, <2>4 DEF RowTrue, OpenStatuses
    <3>3. RowTrue(s)'
        BY <1>2, <3>1, <3>2 DEF RowTrue
    <3>4. ASSUME NEW q \in Pollers PROVE WorkTrue(q, s)'
        BY <3>1 DEF WorkTrue, BusySteps, PastConfirm
    <3> QED BY <2>4, <3>3, <3>4
  <2> QED BY <2>3, <2>4
<1> QED BY <1>4, <1>5, <1>6 DEF SettleIndInv, BooksTrue

\* A round begins with rows that are listed, at the step find.
LEMMA RoundKeepsBooks ==
    ASSUME SettleIndInv, NEW p \in Pollers, processPendingSettlements(p)
    PROVE  SettleIndInv'
<1> DEFINE I == {i \in DOMAIN createdAt : rows[createdAt[i]].status = "AWAITING_EVM_PAYMENT"}
           n == IF Len(Awaiting) < BatchSize THEN Len(Awaiting) ELSE BatchSize
           batchRound == SubSeq(Awaiting, 1, n)
<1>1. SettleTypes
    BY DEF SettleIndInv
<1>2. createdAt \in Seq(Settlements) /\ I \in SUBSET (1 .. Len(createdAt)) /\ Awaiting = Picked(createdAt, I)
    BY <1>1 DEF SettleTypes, Awaiting
<1> HIDE DEF I
<1>3. /\ Awaiting \in Seq(Settlements) /\ Len(Awaiting) = Cardinality(I) /\ Cardinality(I) \in Nat
      /\ \E f \in [1 .. Cardinality(I) -> I] : \A k \in 1 .. Cardinality(I) : Awaiting[k] = createdAt[f[k]]
  <2>1. /\ Picked(createdAt, I) \in Seq(Settlements) /\ Len(Picked(createdAt, I)) = Cardinality(I)
        /\ Cardinality(I) \in Nat
      BY <1>2, PickedPositions
  <2>2. \E f \in [1 .. Cardinality(I) -> I] :
          \A k \in 1 .. Cardinality(I) : Picked(createdAt, I)[k] = createdAt[f[k]]
      BY <1>2, PickedPositions
  <2> QED BY <1>2, <2>1, <2>2, Zenon
<1>4. n \in 0 .. Len(Awaiting)
    BY <1>3, SettlementAssumption
<1>5. /\ batchRound \in Seq(Settlements)
      /\ \A i \in DOMAIN batchRound : \E j \in DOMAIN createdAt : batchRound[i] = createdAt[j]
  <2> HIDE DEF n
  <2>1. batchRound \in Seq(Settlements) /\ \A i \in DOMAIN batchRound : i \in 1 .. Len(Awaiting) /\ batchRound[i] = Awaiting[i]
      BY <1>3, <1>4
  <2> HIDE DEF batchRound
  <2>2. PICK f \in [1 .. Cardinality(I) -> I] : \A k \in 1 .. Cardinality(I) : Awaiting[k] = createdAt[f[k]]
      BY <1>3
  <2>3. ASSUME NEW i \in DOMAIN batchRound PROVE \E j \in DOMAIN createdAt : batchRound[i] = createdAt[j]
    <3>1. i \in 1 .. Cardinality(I) /\ batchRound[i] = Awaiting[i]
        BY <1>3, <2>1
    <3>2. f[i] \in I
        BY <3>1
    <3>3. f[i] \in 1 .. Len(createdAt) /\ DOMAIN createdAt = 1 .. Len(createdAt)
      <4>1. I \in SUBSET (1 .. Len(createdAt)) /\ createdAt \in Seq(Settlements)
          BY <1>2
      <4>2. DOMAIN createdAt = 1 .. Len(createdAt)
          BY <4>1
      <4>3. f[i] \in 1 .. Len(createdAt)
          BY <3>2, <4>1, Zenon
      <4> QED BY <4>2, <4>3
    <3>4. batchRound[i] = createdAt[f[i]]
        BY <2>2, <3>1
    <3> QED BY <3>3, <3>4
  <2> QED BY <2>1, <2>3
<1>6. /\ todo' = [todo EXCEPT ![p] = batchRound] /\ step' = [step EXCEPT ![p] = "find"]
      /\ UNCHANGED <<rows, createdAt, block, transfers, polling, faults, executed, refunds, ambiguous>>
    BY DEF processPendingSettlements
<1> HIDE DEF batchRound, n
<1>7. \A q \in Pollers, u \in Settlements, y \in BusySteps : Works(q, u, y)' => Works(q, u, y)
    BY <1>1, <1>6 DEF Works, SettleTypes, BusySteps, PastConfirm
<1>8. SettleTypes'
    BY <1>1, <1>5, <1>6 DEF SettleTypes, Exists
<1>9. ListedExist'
  <2>1. \A u \in Settlements : Listed(u)' => Listed(u)
      BY <1>1, <1>5, <1>6 DEF Listed, SettleTypes
  <2> QED BY <1>6, <2>1 DEF ListedExist, SettleIndInv, Exists
<1>10. ASSUME NEW u \in Settlements PROVE RowTrue(u)' /\ \A q \in Pollers : WorkTrue(q, u)'
  <2>1. (Paid(u)' <=> Paid(u)) /\ (Exists(u)' <=> Exists(u)) /\ RowTrue(u) /\ \A q \in Pollers : WorkTrue(q, u)
      BY <1>6 DEF Paid, Exists, SettleIndInv, BooksTrue
  <2>2. RowTrue(u)'
      BY <1>6, <2>1 DEF RowTrue
  <2>3. ASSUME NEW q \in Pollers PROVE WorkTrue(q, u)'
      BY <1>6, <1>7, <2>1 DEF WorkTrue, BusySteps, PastConfirm
  <2> QED BY <2>2, <2>3
<1> QED BY <1>8, <1>9, <1>10 DEF SettleIndInv, BooksTrue

\* What is paid stays paid on a chain that only grows.
LEMMA ChainKeepsBooks ==
    ASSUME SettleIndInv, block' \in Nat, block' >= block, transfers \subseteq transfers',
           transfers' \in SUBSET [claim : Claims, block : Nat],
           UNCHANGED <<rows, createdAt, todo, step, polling, faults, executed, refunds, ambiguous>>
    PROVE  SettleIndInv'
<1>1. SettleTypes' /\ ListedExist'
    BY DEF SettleIndInv, SettleTypes, ListedExist, Listed, Exists
<1>2. ASSUME NEW u \in Settlements PROVE RowTrue(u)' /\ \A q \in Pollers : WorkTrue(q, u)'
  <2>1. (Exists(u)' <=> Exists(u)) /\ RowTrue(u) /\ \A q \in Pollers : WorkTrue(q, u)
      BY DEF Exists, SettleIndInv, BooksTrue
  <2>4. Paid(u) => Paid(u)'
    <3>1. \A t \in transfers : t.block \in Nat /\ block \in Nat
        BY DEF SettleIndInv, SettleTypes
    <3>2. \A t \in transfers : block - t.block + 1 >= confirmationsRequired
                                  => block' - t.block + 1 >= confirmationsRequired
        BY <3>1, SettlementAssumption
    <3> QED BY <3>2 DEF Paid
  <2>2. RowTrue(u)'
      BY <2>1, <2>4 DEF RowTrue
  <2>3. ASSUME NEW q \in Pollers PROVE WorkTrue(q, u)'
      BY <2>1, <2>4 DEF WorkTrue, Works, BusySteps, PastConfirm
  <2> QED BY <2>2, <2>3
<1> QED BY <1>1, <1>2 DEF SettleIndInv, BooksTrue

\* For any settlements, claims and pollers, whatever throws or crashes: nothing is
\* executed without a transfer of the settlement's claim that has its confirmations
\* (one transfer may serve several settlements), nobody is paid and refunded unless
\* an outcome was unclear or two pollers had the row, and the rows tell what happened
\* (crossChainSettlement.ts).
THEOREM SettlementsAreSound == SettleSpec => []SettleInv
<1>1. SettleInit => SettleIndInv
  <2> SUFFICES ASSUME SettleInit PROVE SettleIndInv
      OBVIOUS
  <2>1. SettleTypes
      BY SettlementAssumption DEF SettleInit, SettleTypes
  <2>2. ListedExist
      BY DEF SettleInit, ListedExist, Listed
  <2>3. BooksTrue
      BY DEF SettleInit, BooksTrue, RowTrue, WorkTrue, Works, NoRow, BusySteps, PastConfirm
  <2> QED BY <2>1, <2>2, <2>3 DEF SettleIndInv
<1>2. SettleIndInv /\ [SettleNext]_settleVars => SettleIndInv'
  <2> SUFFICES ASSUME SettleIndInv, [SettleNext]_settleVars PROVE SettleIndInv'
      OBVIOUS
  <2>1. SettleTypes
      BY DEF SettleIndInv
  <2>2. CASE UNCHANGED settleVars
      BY <2>1, <2>2, ChainKeepsBooks DEF settleVars, SettleTypes
  <2>3. CASE EvmMine \/ \E c \in Claims : EvmTransfer(c)
      BY <2>1, <2>3, ChainKeepsBooks DEF EvmMine, EvmTransfer, SettleTypes
  <2>4. ASSUME NEW p \in Pollers, NEW s \in Settlements, NEW c \in Claims, enqueuePendingSettlement(p, s, c)
        PROVE  SettleIndInv'
      BY <2>4, EnqueueKeepsBooks
  <2>5. ASSUME NEW p \in Pollers, processPendingSettlements(p) PROVE SettleIndInv'
      BY <2>5, RoundKeepsBooks
  <2>6. ASSUME NEW p \in Pollers, processSettlement(p) PROVE SettleIndInv'
    <3>1. PICK s : s = Head(todo[p])
        OBVIOUS
    <3> QED BY <2>6, <3>1, WorkKeepsBooks DEF processSettlement
  <2>7. ASSUME NEW p \in Pollers, SettleCrash(p) PROVE SettleIndInv'
    <3>1. faults' \in 0 .. MaxFaults
        BY <2>1, <2>7, SettlementAssumption DEF SettleCrash, SettleTypes
    <3> QED BY <2>7, <3>1, ExitKeepsBooks DEF SettleCrash
  <2>8. ASSUME NEW p \in Pollers, todo[p] # <<>>, SettleThrows(p, Head(todo[p])) PROVE SettleIndInv'
    <3>1. PICK s : s = Head(todo[p])
        OBVIOUS
    <3> QED BY <2>8, <3>1, ThrowKeepsBooks
  <2> QED BY <2>2, <2>3, <2>4, <2>5, <2>6, <2>7, <2>8 DEF SettleNext
<1>3. SettleIndInv => SettleInv
  <2> SUFFICES ASSUME SettleIndInv PROVE SettleInv
      OBVIOUS
  <2>1. SettleTypeOK
    <3>1. \A s \in Settlements : rows[s].status \in {"none"} \cup RowStatuses
        BY DEF SettleIndInv, SettleTypes, Exists, NoRow
    <3> QED BY <3>1 DEF SettleIndInv, SettleTypes, SettleTypeOK, RowStatuses
  <2>2. ExecutedWasPaid
      BY DEF SettleIndInv, SettleTypes, BooksTrue, RowTrue, Paid, ExecutedWasPaid
  <2>3. SettledOrRefunded /\ StatusIsTrue
      BY DEF SettleIndInv, SettleTypes, BooksTrue, RowTrue, SettledOrRefunded, StatusIsTrue
  <2> QED BY <2>1, <2>2, <2>3 DEF SettleInv
<1> QED BY <1>1, <1>2, <1>3, PTL DEF SettleSpec
-----------------------------------------------------------------------------
(* The rate limit *)

LEMMA DivStep ==
    ASSUME NEW e \in Nat, e >= 1, NEW x \in Int, NEW y \in Int
    PROVE  /\ x \div e \in Int
           /\ x <= y => x \div e <= y \div e
           /\ x + e <= y => x \div e + 1 <= y \div e
           /\ 0 <= x => 0 <= x \div e
<1> DEFINE a == x \div e
           b == y \div e
<1>1. /\ a \in Int /\ x = e * a + (x % e) /\ 0 <= x % e /\ x % e < e /\ x % e \in Int
      /\ b \in Int /\ y = e * b + (y % e) /\ 0 <= y % e /\ y % e < e /\ y % e \in Int
    OBVIOUS
<1> DEFINE p == x % e
           q == y % e
<1>2. /\ a \in Int /\ x = e * a + p /\ 0 <= p /\ p < e /\ p \in Int
      /\ b \in Int /\ y = e * b + q /\ 0 <= q /\ q < e /\ q \in Int
    BY <1>1
<1> HIDE DEF a, b, p, q
<1>3. x <= y => a <= b
    BY <1>2
<1>4. x + e <= y => a + 1 <= b
    BY <1>2
<1>5. 0 <= x => 0 <= a
    BY <1>2
<1> QED BY <1>2, <1>3, <1>4, <1>5 DEF a, b

Lowest == Min(Skews)
Spread == Max(Skews) - Min(Skews)

LEMMA SkewBounds ==
    /\ Lowest \in Nat /\ Spread \in Nat
    /\ \A skew \in Skews : Lowest <= skew /\ skew <= Lowest + Spread
<1>1. Skews \subseteq Nat /\ Skews # {} /\ IsFiniteSet(Skews)
    BY RateAssumption
<1>2. \E x \in Skews : \A y \in Skews : x <= y
  <2> DEFINE f == [x \in Skews |-> x]
  <2>1. f \in [Skews -> Int] /\ \A x \in Skews : f[x] = x
      BY <1>1
  <2> HIDE DEF f
  <2>2. \E x \in Skews : \A y \in Skews : f[x] <= f[y]
      BY <1>1, <2>1, SmallestElement
  <2> QED BY <2>1, <2>2
<1>3. \E x \in Skews : \A y \in Skews : x >= y
  <2> DEFINE f == [x \in Skews |-> 0 - x]
  <2>1. f \in [Skews -> Int] /\ \A x \in Skews : f[x] = 0 - x
      BY <1>1
  <2> HIDE DEF f
  <2>2. \E x \in Skews : \A y \in Skews : f[x] <= f[y]
      BY <1>1, <2>1, SmallestElement
  <2> QED BY <1>1, <2>1, <2>2
<1>4. Min(Skews) \in Skews /\ \A y \in Skews : Min(Skews) <= y
    BY <1>2 DEF Min
<1>5. Max(Skews) \in Skews /\ \A y \in Skews : Max(Skews) >= y
    BY <1>3 DEF Max
<1>6. \A lo, hi \in Skews : (\A y \in Skews : lo <= y /\ hi >= y) =>
        lo \in Nat /\ hi - lo \in Nat /\ \A y \in Skews : lo <= y /\ y <= lo + (hi - lo)
    BY <1>1
<1>7. Lowest = Min(Skews) /\ Spread = Max(Skews) - Min(Skews)
    BY DEF Lowest, Spread
<1> QED BY <1>4, <1>5, <1>6, <1>7

LEMMA Interval ==
    /\ emissionInterval \in Nat /\ emissionInterval >= 1 /\ windowMs \in Nat
<1>1. capacity \in Nat /\ capacity >= 1 /\ windowMs \in Nat /\ windowMs >= 1 /\ windowMs % capacity = 0
    BY RateAssumption
<1>2. windowMs = capacity * (windowMs \div capacity) + (windowMs % capacity) /\ windowMs \div capacity \in Int
    BY <1>1
<1>3. windowMs \div capacity >= 0
    BY <1>1, DivStep
<1>4. windowMs \div capacity # 0
    BY <1>1, <1>2
<1> QED BY <1>1, <1>2, <1>3, <1>4 DEF emissionInterval

\* A bucket at value v on a clock at least low ahead of Redis' has room, at time t, for no more
\* requests than its rate allows: each request it let by, at the times p, moved the value one
\* interval on, and each loss of the entry, of which there was at most one per interval, took the
\* value back by at most slack.
Owed(p, i) == (Len(p) - i + 1) * emissionInterval
Lost(p, i, t, slack) == slack * ((t - p[i]) \div emissionInterval)
Ahead(v, t, p, low, slack) ==
    \A i \in 1 .. Len(p) : v + Lost(p, i, t, slack) >= p[i] + low + Owed(p, i)

LEMMA LostFacts ==
    ASSUME NEW p \in Seq(Nat), NEW i \in 1 .. Len(p), NEW t \in Nat, NEW u \in Nat, NEW slack \in Nat
    PROVE  /\ p[i] \in Nat /\ Owed(p, i) \in Int /\ Lost(p, i, t, slack) \in Int
           /\ t <= u => Lost(p, i, t, slack) <= Lost(p, i, u, slack)
           /\ t + emissionInterval <= u => Lost(p, i, t, slack) + slack <= Lost(p, i, u, slack)
<1> DEFINE e == emissionInterval
           x == (t - p[i]) \div e
           y == (u - p[i]) \div e
<1>1. p[i] \in Nat /\ Len(p) \in Nat
    OBVIOUS
<1>2. e \in Nat /\ e >= 1
    BY Interval
<1>3. t - p[i] \in Int /\ u - p[i] \in Int
    BY <1>1
<1>4. /\ x \in Int /\ y \in Int
      /\ t <= u => x <= y
      /\ t + e <= u => x + 1 <= y
  <2> DEFINE X == t - p[i]
             Y == u - p[i]
  <2>1. (t <= u => X <= Y) /\ (t + e <= u => X + e <= Y) /\ X \in Int /\ Y \in Int
      BY <1>1, <1>2
  <2>2. X \div e \in Int /\ Y \div e \in Int /\ (X <= Y => X \div e <= Y \div e) /\ (X + e <= Y => X \div e + 1 <= Y \div e)
    <3> HIDE DEF e, X, Y
    <3> QED BY <1>2, <2>1, DivStep
  <2> QED BY <2>1, <2>2
<1>5. Owed(p, i) \in Int
    BY <1>1, <1>2 DEF Owed
<1>6. Lost(p, i, t, slack) = slack * x /\ Lost(p, i, u, slack) = slack * y
    BY DEF Lost
<1> HIDE DEF x, y, e
<1>7. slack * x \in Int /\ (x <= y => slack * x <= slack * y) /\ (x + 1 <= y => slack * x + slack <= slack * y)
    BY <1>4
<1> QED BY <1>1, <1>4, <1>5, <1>6, <1>7 DEF e

LEMMA AheadLater ==
    ASSUME NEW p \in Seq(Nat), NEW v \in Int, NEW w \in Int, NEW t \in Nat, NEW u \in Nat, NEW low \in Nat,
           NEW slack \in Nat, Ahead(v, t, p, low, slack),
           (t <= u /\ v <= w) \/ (t + emissionInterval <= u /\ v <= w + slack)
    PROVE  Ahead(w, u, p, low, slack)
<1> SUFFICES ASSUME NEW i \in 1 .. Len(p)
             PROVE  w + Lost(p, i, u, slack) >= p[i] + low + Owed(p, i)
    BY DEF Ahead
<1>1. v + Lost(p, i, t, slack) >= p[i] + low + Owed(p, i)
    BY DEF Ahead
<1> DEFINE a == Lost(p, i, t, slack)
           b == Lost(p, i, u, slack)
<1>2. /\ p[i] \in Nat /\ Owed(p, i) \in Int /\ a \in Int /\ b \in Int
      /\ (t <= u => a <= b) /\ (t + emissionInterval <= u => a + slack <= b)
    BY LostFacts
<1>3. t + emissionInterval <= u => t <= u
    BY Interval
<1> HIDE DEF a, b
<1>4. v + a >= p[i] + low + Owed(p, i)
    BY <1>1 DEF a
<1>5. w + b >= p[i] + low + Owed(p, i)
    BY <1>2, <1>3, <1>4, Interval
<1> QED BY <1>5 DEF b

LEMMA AheadAfterPass ==
    ASSUME NEW p \in Seq(Nat), NEW v \in Int, NEW w \in Int, NEW t \in Nat, NEW low \in Nat,
           NEW slack \in Nat, Ahead(v, t, p, low, slack),
           v + emissionInterval <= w, t + low + emissionInterval <= w
    PROVE  Ahead(w, t, Append(p, t), low, slack)
<1> DEFINE e == emissionInterval
           q == Append(p, t)
           n == Len(p)
<1>1. q \in Seq(Nat) /\ Len(q) = n + 1 /\ q[n + 1] = t /\ n \in Nat /\ \A i \in 1 .. n : q[i] = p[i]
    OBVIOUS
<1>2. e \in Nat /\ e >= 1
    BY Interval
<1> HIDE DEF q
<1> SUFFICES ASSUME NEW i \in 1 .. Len(q)
             PROVE  w + Lost(q, i, t, slack) >= q[i] + low + Owed(q, i)
    BY DEF Ahead, q
<1>3. CASE i = n + 1
  <2>1. t - q[i] = 0 /\ Len(q) - i + 1 = 1
      BY <1>1, <1>3
  <2>2. Lost(q, i, t, slack) \in Int /\ Lost(q, i, t, slack) >= 0
    <3>1. 0 \div e \in Int /\ 0 \div e >= 0
        BY <1>2, DivStep
    <3> QED BY <2>1, <3>1 DEF Lost
  <2>3. Owed(q, i) = e
    <3>1. Owed(q, i) = 1 * e
        BY <2>1 DEF Owed
    <3> QED BY <1>2, <3>1
  <2> HIDE DEF e
  <2> QED BY <1>1, <1>2, <1>3, <2>2, <2>3 DEF e
<1>4. CASE i # n + 1
  <2>1. i \in 1 .. n /\ q[i] = p[i]
      BY <1>1, <1>4
  <2>2. Lost(q, i, t, slack) = Lost(p, i, t, slack)
      BY <2>1 DEF Lost
  <2>3. Owed(q, i) = Owed(p, i) + e
    <3> DEFINE m == n - i + 1
    <3>1. m \in Int /\ Len(q) - i + 1 = m + 1
        BY <1>1, <2>1
    <3>2. Owed(q, i) = (m + 1) * e /\ Owed(p, i) = m * e
        BY <3>1 DEF Owed
    <3> HIDE DEF m, e
    <3> QED BY <1>2, <3>1, <3>2
  <2>4. v + Lost(p, i, t, slack) >= p[i] + low + Owed(p, i)
      BY <2>1 DEF Ahead
  <2>5. p[i] \in Nat /\ Owed(p, i) \in Int /\ Lost(p, i, t, slack) \in Int
      BY <2>1, LostFacts
  <2> DEFINE a == Lost(p, i, t, slack)
             d == Owed(p, i)
             x == p[i]
  <2>6. a \in Int /\ d \in Int /\ x \in Nat /\ v + a >= x + low + d /\ v + e <= w
      BY <2>4, <2>5
  <2> HIDE DEF e, n, a, d, x
  <2>7. w + a >= x + low + (d + e)
      BY ONLY v \in Int, w \in Int, low \in Nat, <1>2, <2>6
  <2> QED BY <2>1, <2>2, <2>3, <2>7 DEF a, d, x
<1> QED BY <1>3, <1>4

\* What Within says of the requests p up to the j-th.
WithinUpTo(p, j, slack) ==
    \A i \in 1 .. Len(p) :
      i <= j => (j - i + 1) * emissionInterval
                  <= windowMs + (p[j] - p[i]) + slack * (1 + (p[j] - p[i]) \div emissionInterval)

LEMMA AheadIsWithin ==
    ASSUME NEW p \in Seq(Nat), NEW w \in Int, NEW t \in Nat, NEW low \in Nat, NEW slack \in Nat,
           Len(p) >= 1, p[Len(p)] = t, Ahead(w, t, p, low, slack), w <= t + low + slack + windowMs
    PROVE  WithinUpTo(p, Len(p), slack)
<1> SUFFICES ASSUME NEW i \in 1 .. Len(p)
             PROVE  (Len(p) - i + 1) * emissionInterval
                      <= windowMs + (t - p[i]) + slack * (1 + (t - p[i]) \div emissionInterval)
    BY DEF WithinUpTo
<1>1. w + Lost(p, i, t, slack) >= p[i] + low + Owed(p, i)
    BY DEF Ahead
<1>2. p[i] \in Nat /\ Owed(p, i) \in Int /\ Lost(p, i, t, slack) \in Int
    BY LostFacts
<1>3. slack * (1 + (t - p[i]) \div emissionInterval) = slack + Lost(p, i, t, slack)
  <2> DEFINE x == (t - p[i]) \div emissionInterval
  <2>1. x \in Int
    <3>1. t - p[i] \in Int
        BY <1>2
    <3> QED BY <3>1, Interval, DivStep
  <2>2. Lost(p, i, t, slack) = slack * x
      BY DEF Lost
  <2> HIDE DEF x
  <2>3. slack * (1 + x) = slack + slack * x
      BY <2>1
  <2> QED BY <2>2, <2>3 DEF x
<1>4. Owed(p, i) <= windowMs + (t - p[i]) + (slack + Lost(p, i, t, slack))
  <2> DEFINE a == Lost(p, i, t, slack)
             d == Owed(p, i)
             x == p[i]
  <2>1. a \in Int /\ d \in Int /\ x \in Nat /\ w + a >= x + low + d
      BY <1>1, <1>2
  <2> HIDE DEF a, d, x
  <2>2. d <= windowMs + (t - x) + (slack + a)
      BY <2>1, Interval
  <2> QED BY <2>2 DEF a, d, x
<1> QED BY <1>3, <1>4 DEF Owed

RateTypes ==
    /\ rateTime \in 0 .. MaxRateTime /\ redisTat \in Nat /\ redisExpiry \in Nat
    /\ memTat \in [RateReplicas -> Nat] /\ passed \in [Buckets -> Seq(Nat)]

\* The value of a process's bucket, and of the bucket in Redis while its entry lives and after.
MemAhead(r) == Ahead(memTat[r], rateTime, passed[r], 0, 0)
EntryAhead ==
    \E t \in 0 .. rateTime :
      /\ Ahead(redisTat, t, passed["redis"], Lowest, Spread)
      /\ t + emissionInterval <= redisExpiry /\ redisTat <= redisExpiry + Lowest + Spread
NoEntryAhead ==
    redisTat = 0 /\ redisExpiry = 0 /\ Ahead(rateTime + Lowest, rateTime, passed["redis"], Lowest, Spread)

RateIndInv ==
    /\ RateTypes
    /\ \A r \in RateReplicas : MemAhead(r)
    /\ EntryAhead \/ NoEntryAhead
    /\ \A r \in RateReplicas : \A j \in DOMAIN passed[r] : WithinUpTo(passed[r], j, 0)
    /\ \A j \in DOMAIN passed["redis"] : WithinUpTo(passed["redis"], j, Spread)

\* A request let by keeps what was said of the earlier ones.
LEMMA WithinAppend ==
    ASSUME NEW p \in Seq(Nat), NEW t \in Nat, NEW slack \in Nat,
           \A j \in DOMAIN p : WithinUpTo(p, j, slack),
           WithinUpTo(Append(p, t), Len(Append(p, t)), slack)
    PROVE  \A j \in DOMAIN Append(p, t) : WithinUpTo(Append(p, t), j, slack)
<1> DEFINE q == Append(p, t)
<1>1. /\ Len(q) = Len(p) + 1 /\ Len(p) \in Nat /\ DOMAIN q = 1 .. Len(p) + 1 /\ DOMAIN p = 1 .. Len(p)
      /\ \A i \in 1 .. Len(p) : q[i] = p[i]
    OBVIOUS
<1> HIDE DEF q
<1> SUFFICES ASSUME NEW j \in DOMAIN q PROVE WithinUpTo(q, j, slack)
    BY DEF q
<1>2. CASE j = Len(q)
    BY <1>2 DEF q
<1>3. CASE j # Len(q)
  <2>1. j \in 1 .. Len(p) /\ j \in DOMAIN p /\ WithinUpTo(p, j, slack)
      BY <1>1, <1>3
  <2>2. \A i \in 1 .. Len(q) : i <= j => i \in 1 .. Len(p) /\ q[i] = p[i]
      BY <1>1, <2>1
  <2>3. q[j] = p[j]
      BY <1>1, <2>1
  <2> QED BY <2>1, <2>2, <2>3 DEF WithinUpTo
<1> QED BY <1>2, <1>3

\* A bucket that passes a request at rateTime on a clock that is low to low + slack ahead.
LEMMA PassKeepsRate ==
    ASSUME NEW p \in Seq(Nat), NEW v \in Int, NEW w \in Int, NEW t \in Nat, NEW low \in Nat, NEW slack \in Nat,
           Ahead(v, t, p, low, slack), v + emissionInterval <= w, t + low + emissionInterval <= w,
           w <= t + low + slack + windowMs,
           \A j \in DOMAIN p : WithinUpTo(p, j, slack)
    PROVE  /\ Append(p, t) \in Seq(Nat) /\ Ahead(w, t, Append(p, t), low, slack)
           /\ \A j \in DOMAIN Append(p, t) : WithinUpTo(Append(p, t), j, slack)
<1> DEFINE q == Append(p, t)
<1>1. q \in Seq(Nat) /\ Len(q) >= 1 /\ q[Len(q)] = t
    OBVIOUS
<1>2. Ahead(w, t, q, low, slack)
    BY AheadAfterPass
<1>3. WithinUpTo(q, Len(q), slack)
  <2> HIDE DEF q
  <2> QED BY <1>1, <1>2, AheadIsWithin
<1>4. \A j \in DOMAIN q : WithinUpTo(q, j, slack)
    BY <1>3, WithinAppend
<1> QED BY <1>1, <1>2, <1>4

LEMMA FallbackKeeps ==
    ASSUME RateIndInv, NEW r \in RateReplicas, consumeFallbackBucket(r)
    PROVE  RateIndInv'
<1> DEFINE w == newTatOf(memTat[r], rateTime)
<1>1. /\ memTat' = [memTat EXCEPT ![r] = w] /\ w - rateTime <= windowMs
      /\ passed' = [passed EXCEPT ![r] = Append(@, rateTime)]
      /\ UNCHANGED <<rateTime, redisTat, redisExpiry>>
    BY DEF consumeFallbackBucket, Passes, Allowed
<1>2. /\ rateTime \in Nat /\ memTat[r] \in Nat /\ passed[r] \in Seq(Nat) /\ r \in Buckets /\ r # "redis"
      /\ memTat \in [RateReplicas -> Nat] /\ passed \in [Buckets -> Seq(Nat)]
    BY RateAssumption DEF RateIndInv, RateTypes, Buckets
<1>3. w \in Nat /\ memTat[r] + emissionInterval <= w /\ rateTime + 0 + emissionInterval <= w
      /\ w <= rateTime + 0 + 0 + windowMs
    BY <1>1, <1>2, Interval DEF newTatOf, tatOf
<1> HIDE DEF w
<1>4. /\ Append(passed[r], rateTime) \in Seq(Nat) /\ Ahead(w, rateTime, Append(passed[r], rateTime), 0, 0)
      /\ \A j \in DOMAIN Append(passed[r], rateTime) : WithinUpTo(Append(passed[r], rateTime), j, 0)
  <2>1. Ahead(memTat[r], rateTime, passed[r], 0, 0) /\ \A j \in DOMAIN passed[r] : WithinUpTo(passed[r], j, 0)
      BY DEF RateIndInv, MemAhead
  <2>2. w \in Int /\ memTat[r] \in Int /\ 0 \in Nat
      BY <1>2, <1>3
  <2> QED BY <1>2, <1>3, <2>1, <2>2, PassKeepsRate
<1>5. /\ memTat'[r] = w /\ passed'[r] = Append(passed[r], rateTime)
      /\ \A b \in Buckets \ {r} : passed'[b] = passed[b]
      /\ \A b \in RateReplicas \ {r} : memTat'[b] = memTat[b]
      /\ passed'["redis"] = passed["redis"]
    BY <1>1, <1>2 DEF Buckets
<1>6. RateTypes'
    BY <1>1, <1>2, <1>3, <1>4 DEF RateIndInv, RateTypes
<1>7. \A b \in RateReplicas : MemAhead(b)'
    BY <1>1, <1>4, <1>5 DEF RateIndInv, MemAhead, Buckets
<1>8. EntryAhead' \/ NoEntryAhead'
    BY <1>1, <1>5 DEF RateIndInv, EntryAhead, NoEntryAhead
<1>9. \A b \in RateReplicas : \A j \in DOMAIN passed'[b] : WithinUpTo(passed'[b], j, 0)
    BY <1>4, <1>5 DEF RateIndInv, Buckets
<1>10. \A j \in DOMAIN passed'["redis"] : WithinUpTo(passed'["redis"], j, Spread)
    BY <1>5 DEF RateIndInv
<1> QED BY <1>6, <1>7, <1>8, <1>9, <1>10 DEF RateIndInv

LEMMA RedisKeeps ==
    ASSUME RateIndInv, NEW skew \in Skews, consumeLeakyBucket(skew)
    PROVE  RateIndInv'
<1> DEFINE now == rateTime + skew
           w == newTatOf(redisTat, now)
           p == passed["redis"]
<1>1. /\ redisTat' = w /\ redisExpiry' = rateTime + (w - now) /\ w - now <= windowMs
      /\ passed' = [passed EXCEPT !["redis"] = Append(@, rateTime)] /\ UNCHANGED <<rateTime, memTat>>
    BY DEF consumeLeakyBucket, Passes, Allowed, LifeOf
<1>2. /\ rateTime \in Nat /\ redisTat \in Nat /\ p \in Seq(Nat) /\ "redis" \in Buckets /\ redisExpiry \in Nat
      /\ passed \in [Buckets -> Seq(Nat)] /\ "redis" \notin RateReplicas
    BY RateAssumption DEF RateIndInv, RateTypes, Buckets
<1>3. Lowest \in Nat /\ Spread \in Nat /\ skew \in Nat /\ Lowest <= skew /\ skew <= Lowest + Spread
    BY SkewBounds, RateAssumption
<1>4. /\ w \in Nat /\ redisTat + emissionInterval <= w /\ now + emissionInterval <= w
      /\ redisTat <= now => w = now + emissionInterval
    BY <1>2, <1>3, Interval DEF newTatOf, tatOf
<1> HIDE DEF w
<1>5. rateTime + Lowest + emissionInterval <= w /\ w <= rateTime + Lowest + Spread + windowMs
    BY <1>1, <1>2, <1>3, <1>4, Interval
<1>6. \E v \in Int : Ahead(v, rateTime, p, Lowest, Spread) /\ v + emissionInterval <= w
  <2>1. CASE EntryAhead
    <3>1. PICK t \in 0 .. rateTime : Ahead(redisTat, t, p, Lowest, Spread)
        BY <2>1 DEF EntryAhead
    <3>2. t \in Nat /\ t <= rateTime /\ redisTat \in Int
        BY <1>2, <3>1
    <3>3. Ahead(redisTat, rateTime, p, Lowest, Spread)
      <4>1. redisTat <= redisTat
          BY <3>2
      <4> HIDE DEF p
      <4> QED BY <1>2, <1>3, <3>1, <3>2, <4>1, AheadLater
    <3> QED BY <1>4, <3>2, <3>3
  <2>2. CASE NoEntryAhead
    <3>1. Ahead(rateTime + Lowest, rateTime, p, Lowest, Spread)
        BY <2>2 DEF NoEntryAhead
    <3>2. rateTime + Lowest \in Int
        BY <1>2, <1>3
    <3> QED BY <1>5, <3>1, <3>2
  <2> QED BY <2>1, <2>2 DEF RateIndInv
<1>7. /\ Append(p, rateTime) \in Seq(Nat) /\ Ahead(w, rateTime, Append(p, rateTime), Lowest, Spread)
      /\ \A j \in DOMAIN Append(p, rateTime) : WithinUpTo(Append(p, rateTime), j, Spread)
  <2>1. PICK v \in Int : Ahead(v, rateTime, p, Lowest, Spread) /\ v + emissionInterval <= w
      BY <1>6
  <2>2. \A j \in DOMAIN p : WithinUpTo(p, j, Spread)
      BY DEF RateIndInv
  <2>3. w \in Int
      BY <1>4
  <2> HIDE DEF p
  <2> QED BY <1>2, <1>3, <1>5, <2>1, <2>2, <2>3, PassKeepsRate
<1>8. /\ passed'["redis"] = Append(p, rateTime) /\ \A b \in RateReplicas : passed'[b] = passed[b]
    BY <1>1, <1>2 DEF Buckets
<1>9. /\ redisExpiry' \in Nat /\ rateTime + emissionInterval <= redisExpiry'
      /\ redisTat' <= redisExpiry' + Lowest + Spread
    BY <1>1, <1>2, <1>3, <1>4, Interval
<1>10. RateTypes'
    BY <1>1, <1>2, <1>4, <1>7, <1>9 DEF RateIndInv, RateTypes
<1>11. EntryAhead'
  <2>1. Ahead(redisTat', rateTime', passed'["redis"], Lowest, Spread)
      BY <1>1, <1>7, <1>8
  <2>2. rateTime' \in 0 .. rateTime' /\ rateTime' + emissionInterval <= redisExpiry'
      BY <1>1, <1>2, <1>9
  <2> QED BY <1>9, <2>1, <2>2 DEF EntryAhead
<1>12. \A r \in RateReplicas : MemAhead(r)'
    BY <1>1, <1>8 DEF RateIndInv, MemAhead
<1>13. \A r \in RateReplicas : \A j \in DOMAIN passed'[r] : WithinUpTo(passed'[r], j, 0)
    BY <1>8 DEF RateIndInv
<1>14. \A j \in DOMAIN passed'["redis"] : WithinUpTo(passed'["redis"], j, Spread)
    BY <1>7, <1>8
<1> QED BY <1>2, <1>10, <1>11, <1>12, <1>13, <1>14 DEF RateIndInv

LEMMA TickKeeps ==
    ASSUME RateIndInv, RateTick
    PROVE  RateIndInv'
<1> DEFINE p == passed["redis"]
<1>1. rateTime' = rateTime + 1 /\ rateTime < MaxRateTime /\ UNCHANGED <<memTat, passed>>
    BY DEF RateTick
<1>2. /\ rateTime \in Nat /\ rateTime' \in Nat /\ rateTime <= rateTime' /\ redisTat \in Nat /\ redisExpiry \in Nat /\ p \in Seq(Nat)
      /\ \A r \in RateReplicas : passed[r] \in Seq(Nat) /\ memTat[r] \in Nat
    BY <1>1, RateAssumption DEF RateIndInv, RateTypes, Buckets
<1>3. Lowest \in Nat /\ Spread \in Nat
    BY SkewBounds
<1>4. RateTypes'
  <2>1. redisTat' \in Nat /\ redisExpiry' \in Nat
      BY <1>2 DEF RateTick
  <2>2. rateTime' \in 0 .. MaxRateTime
      BY <1>1, <1>2, RateAssumption
  <2> QED BY <1>1, <2>1, <2>2 DEF RateIndInv, RateTypes
<1>5. ASSUME NEW r \in RateReplicas PROVE MemAhead(r)'
  <2>1. Ahead(memTat[r], rateTime, passed[r], 0, 0)
      BY DEF RateIndInv, MemAhead
  <2>2. memTat[r] \in Int /\ memTat[r] <= memTat[r] /\ 0 \in Nat
      BY <1>2
  <2>3. Ahead(memTat[r], rateTime', passed[r], 0, 0)
      BY <1>2, <2>1, <2>2, AheadLater
  <2> QED BY <1>1, <2>3 DEF MemAhead
<1>6. EntryAhead' \/ NoEntryAhead'
  <2>1. CASE rateTime + 1 >= redisExpiry
    <3>1. redisTat' = 0 /\ redisExpiry' = 0
        BY <2>1 DEF RateTick
    <3>2. \E v \in Int, t \in Nat : /\ Ahead(v, t, p, Lowest, Spread)
                                    /\ (t <= rateTime' /\ v <= rateTime' + Lowest)
                                       \/ (t + emissionInterval <= rateTime' /\ v <= rateTime' + Lowest + Spread)
      <4>1. CASE EntryAhead
        <5>1. PICK t \in 0 .. rateTime :
                /\ Ahead(redisTat, t, p, Lowest, Spread)
                /\ t + emissionInterval <= redisExpiry /\ redisTat <= redisExpiry + Lowest + Spread
            BY <4>1 DEF EntryAhead
        <5>2. t \in Nat /\ redisTat \in Int
            BY <1>2, <5>1
        <5>3. t + emissionInterval <= rateTime' /\ redisTat <= rateTime' + Lowest + Spread
            BY <1>1, <1>2, <1>3, <2>1, <5>1, <5>2, Interval
        <5> QED BY <5>1, <5>2, <5>3
      <4>2. CASE NoEntryAhead
        <5>1. Ahead(rateTime + Lowest, rateTime, p, Lowest, Spread)
            BY <4>2 DEF NoEntryAhead
        <5>2. rateTime + Lowest \in Int /\ rateTime + Lowest <= rateTime' + Lowest
            BY <1>1, <1>2, <1>3
        <5> QED BY <1>2, <5>1, <5>2
      <4> QED BY <4>1, <4>2 DEF RateIndInv
    <3>3. Ahead(rateTime' + Lowest, rateTime', p, Lowest, Spread)
      <4>1. rateTime' + Lowest \in Int
          BY <1>2, <1>3
      <4> HIDE DEF p
      <4> QED BY <1>2, <1>3, <3>2, <4>1, AheadLater
    <3> QED BY <1>1, <3>1, <3>3 DEF NoEntryAhead
  <2>2. CASE ~(rateTime + 1 >= redisExpiry)
    <3>1. redisTat' = redisTat /\ redisExpiry' = redisExpiry
        BY <2>2 DEF RateTick
    <3>2. ~(redisExpiry = 0)
        BY <1>2, <2>2
    <3>3. EntryAhead
        BY <3>2 DEF RateIndInv, NoEntryAhead
    <3>4. \A t \in 0 .. rateTime : t \in 0 .. rateTime'
        BY <1>1, <1>2
    <3>5. EntryAhead'
        BY <1>1, <3>1, <3>3, <3>4 DEF EntryAhead
    <3> QED BY <3>5
  <2> QED BY <2>1, <2>2
<1>7. (\A r \in RateReplicas : \A j \in DOMAIN passed'[r] : WithinUpTo(passed'[r], j, 0))
      /\ (\A j \in DOMAIN passed'["redis"] : WithinUpTo(passed'["redis"], j, Spread))
    BY <1>1 DEF RateIndInv
<1> QED BY <1>4, <1>5, <1>6, <1>7 DEF RateIndInv

LEMMA RateInitHolds == RateInit => RateIndInv
<1> SUFFICES ASSUME RateInit PROVE RateIndInv
    OBVIOUS
<1>1. /\ rateTime = 0 /\ redisTat = 0 /\ redisExpiry = 0
      /\ memTat = [r \in RateReplicas |-> 0] /\ passed = [b \in Buckets |-> << >>]
    BY DEF RateInit
<1>2. RateTypes
    BY <1>1, RateAssumption DEF RateTypes
<1>3. \A b \in Buckets : passed[b] = << >> /\ Len(passed[b]) = 0 /\ DOMAIN passed[b] = {}
    BY <1>1
<1>4. \A b \in Buckets : 1 .. Len(passed[b]) = {}
    BY <1>3
<1> QED BY <1>1, <1>2, <1>3, <1>4 DEF RateIndInv, MemAhead, NoEntryAhead, Ahead, Buckets

\* No interval of time sees more requests of a bucket than its capacity, what drained in
\* between and, in Redis, the skew of the clocks once per lost entry; for any number of
\* processes, clocks, capacity and window (RateInv: rateLimit.ts, gcraLeakyBucket.ts).
THEOREM RatesAreHeld == RateSpec => []RateInv
<1>1. RateIndInv /\ [RateNext]_rateVars => RateIndInv'
  <2> SUFFICES ASSUME RateIndInv, [RateNext]_rateVars PROVE RateIndInv'
      OBVIOUS
  <2>1. CASE UNCHANGED rateVars
      BY <2>1 DEF rateVars, RateIndInv, RateTypes, MemAhead, EntryAhead, NoEntryAhead
  <2> QED BY <2>1, RedisKeeps, FallbackKeeps, TickKeeps DEF RateNext
<1>2. RateIndInv => RateInv
  <2> SUFFICES ASSUME RateIndInv PROVE RateInv
      OBVIOUS
  <2>1. ASSUME NEW b \in Buckets, NEW slack \in Nat,
               \A j \in DOMAIN passed[b] : WithinUpTo(passed[b], j, slack)
        PROVE  Within(b, slack)
    <3>1. passed[b] \in Seq(Nat)
        BY DEF RateIndInv, RateTypes
    <3>2. DOMAIN passed[b] = 1 .. Len(passed[b])
        BY <3>1
    <3> QED BY <2>1, <3>2 DEF Within, WithinUpTo
  <2>2. \A r \in RateReplicas : Within(r, 0)
      BY <2>1 DEF RateIndInv, Buckets
  <2>3. Within("redis", Spread)
      BY <2>1, SkewBounds DEF RateIndInv, Buckets
  <2>4. RateTypeOK
      BY DEF RateIndInv, RateTypes, RateTypeOK
  <2> QED BY <2>2, <2>3, <2>4 DEF RateInv, RateBound, Spread
<1> QED BY <1>1, <1>2, RateInitHolds, PTL DEF RateSpec
-----------------------------------------------------------------------------
(* The ledger monitor *)

Stages == {"lookup", "dispatch", "dispatch_in_catch"}
Check == [hash : Hashes, epoch : Nat, stage : Stages]

MonitorTypes ==
    /\ txStatus \in [Hashes -> {"none", "submitted", "success", "failed"}]
    /\ onLedger \in [Hashes -> {"unknown", "successful", "unsuccessful"}]
    /\ cycle \in [running : BOOLEAN, rest : SUBSET Hashes]
    /\ rejections \in Nat /\ checks \in SUBSET Check /\ \A c \in checks : c.epoch <= rejections
    /\ isShuttingDown \in BOOLEAN /\ stopped \in BOOLEAN
    /\ tracked \in [Hashes -> Nat] /\ webhooks \in [Hashes -> Nat]
    /\ abandoned \in SUBSET Hashes

Looked(h) == \E c \in checks : c.hash = h /\ c.stage = "lookup"
Dispatched(h) == \E c \in checks : c.hash = h /\ c.stage # "lookup"

\* What the trackings of h were spent on: webhooks, one about to be sent, and the
\* record that waits.
Spent(h) ==
    /\ webhooks[h] <= tracked[h]
    /\ Dispatched(h) \/ txStatus[h] = "submitted" => webhooks[h] + 1 <= tracked[h]
    /\ Dispatched(h) /\ txStatus[h] = "submitted" => webhooks[h] + 2 <= tracked[h]

\* A transaction that no rejected batch left behind is looked up by one check, which
\* the running cycle awaits, and its record waits for it.
Followed(h) ==
    /\ \A c, d \in checks : c.hash = h /\ d.hash = h => c = d
    /\ \A c \in checks : c.hash = h => cycle.running /\ c.epoch = rejections /\ h \notin cycle.rest
    /\ h \in cycle.rest \/ Looked(h) => txStatus[h] = "submitted"
    /\ Spent(h)

MonitorIndInv ==
    /\ MonitorTypes /\ WrongOnlyAfter404
    /\ stopped => isShuttingDown /\ ~cycle.running
    /\ ~cycle.running => cycle.rest = {}
    /\ \A h \in Hashes \ abandoned : Followed(h)

LEMMA BatchIsAll ==
    ASSUME NEW h \in Hashes, Followed(h), NEW c \in checks, c.hash = h
    PROVE  c \in Batch
BY DEF Followed, Batch

\* The cycle's own steps.
LEMMA CycleKeepsMonitor ==
    ASSUME MonitorIndInv, runCycle \/ NextBatch \/ CycleEnds \/ stop \/ stopResolves
    PROVE  MonitorIndInv'
<1> USE DEF MonitorIndInv
<1>1. CASE runCycle
  <2>1. /\ cycle' = [running |-> TRUE, rest |-> getPendingTransactions] /\ ~cycle.running
        /\ UNCHANGED <<txStatus, onLedger, checks, isShuttingDown, stopped, rejections, tracked,
                       webhooks, missed, abandoned>> /\ ~isShuttingDown
      BY <1>1 DEF runCycle
  <2>2. MonitorTypes' /\ WrongOnlyAfter404'
      BY <2>1 DEF MonitorTypes, WrongOnlyAfter404, getPendingTransactions
  <2>3. ASSUME NEW h \in Hashes \ abandoned PROVE Followed(h)'
    <3>1. Followed(h) /\ \A c \in checks : c.hash # h
        BY <2>1 DEF Followed
    <3> QED BY <2>1, <3>1 DEF Followed, Looked, Dispatched, Spent, getPendingTransactions
  <2> QED BY <2>1, <2>2, <2>3
<1>2. CASE NextBatch
  <2>1. PICK b \in SUBSET cycle.rest :
          /\ cycle' = [cycle EXCEPT !.rest = @ \ b]
          /\ checks' = checks \cup {[hash |-> h, epoch |-> rejections, stage |-> "lookup"] : h \in b}
      BY <1>2 DEF NextBatch
  <2>2. /\ UNCHANGED <<txStatus, onLedger, isShuttingDown, stopped, rejections, tracked, webhooks,
                       missed, abandoned>>
        /\ cycle.running /\ Batch = {} /\ ~isShuttingDown
      BY <1>2 DEF NextBatch
  <2>3. cycle' \in [running : BOOLEAN, rest : SUBSET Hashes] /\ cycle'.running /\ cycle'.rest = cycle.rest \ b
      BY <2>1, <2>2 DEF MonitorTypes
  <2>4. \A c \in checks' : c \in checks \/ \E h \in b : c = [hash |-> h, epoch |-> rejections, stage |-> "lookup"]
      BY <2>1
  <2>5. MonitorTypes' /\ WrongOnlyAfter404'
    <3>1. \A c \in checks' : c \in Check /\ c.epoch <= rejections
        BY <2>4 DEF MonitorTypes, Check, Stages
    <3> QED BY <2>2, <2>3, <3>1 DEF MonitorTypes, WrongOnlyAfter404
  <2>6. ASSUME NEW h \in Hashes \ abandoned PROVE Followed(h)'
    <3>1. Followed(h) /\ \A c \in checks : c.hash # h
        BY <2>2, BatchIsAll
    <3>2. \A c \in checks' : c.hash = h => h \in b /\ c = [hash |-> h, epoch |-> rejections, stage |-> "lookup"]
        BY <2>4, <3>1
    <3>3. \A c, d \in checks' : c.hash = h /\ d.hash = h => c = d
        BY <3>2
    <3>4. ~Dispatched(h)' /\ (Looked(h)' => h \in b) /\ ~Dispatched(h)
        BY <3>1, <3>2 DEF Dispatched, Looked
    <3>5. \A c \in checks' : c.hash = h => c.epoch = rejections /\ h \notin cycle'.rest
        BY <2>3, <3>2
    <3>6. txStatus'[h] = txStatus[h] /\ (h \in cycle'.rest \/ h \in b => txStatus[h] = "submitted")
        BY <2>2, <2>3, <3>1 DEF Followed
    <3>7. Spent(h)'
        BY <2>2, <3>1, <3>4 DEF Followed, Spent
    <3> QED BY <2>2, <2>3, <3>3, <3>4, <3>5, <3>6, <3>7 DEF Followed
  <2> QED BY <2>2, <2>3, <2>5, <2>6
<1>3. CASE CycleEnds
  <2>1. /\ cycle' = NoCycle /\ Batch = {}
        /\ UNCHANGED <<txStatus, onLedger, checks, isShuttingDown, stopped, rejections, tracked,
                       webhooks, missed, abandoned>>
      BY <1>3 DEF CycleEnds, ClearCycle
  <2>2. MonitorTypes' /\ WrongOnlyAfter404' /\ ~cycle'.running /\ cycle'.rest = {}
      BY <2>1 DEF MonitorTypes, WrongOnlyAfter404, NoCycle
  <2>3. ASSUME NEW h \in Hashes \ abandoned PROVE Followed(h)'
    <3>1. Followed(h) /\ \A c \in checks : c.hash # h
        BY <2>1, BatchIsAll
    <3> QED BY <2>1, <2>2, <3>1 DEF Followed, Spent, Looked, Dispatched
  <2> QED BY <2>1, <2>2, <2>3
<1>4. CASE stop \/ stopResolves
  <2>1. UNCHANGED <<txStatus, onLedger, cycle, checks, rejections, tracked, webhooks, missed, abandoned>>
        /\ isShuttingDown' \in BOOLEAN /\ stopped' \in BOOLEAN
        /\ (stopped' => isShuttingDown' /\ ~cycle'.running)
    <3>1. CASE stop
        BY <3>1 DEF stop, MonitorTypes
    <3>2. CASE stopResolves
        BY <3>2 DEF stopResolves, CycleAwaited, MonitorTypes
    <3> QED BY <1>4, <3>1, <3>2
  <2>2. MonitorTypes' /\ WrongOnlyAfter404'
      BY <2>1 DEF MonitorTypes, WrongOnlyAfter404
  <2>3. ASSUME NEW h \in Hashes \ abandoned PROVE Followed(h)'
    <3>1. Followed(h)
        OBVIOUS
    <3> QED BY <2>1, <3>1 DEF Followed, Looked, Dispatched, Spent
  <2> QED BY <2>1, <2>2, <2>3
<1> QED BY <1>1, <1>2, <1>3, <1>4

\* The network and what tracks transactions.
LEMMA WorldKeepsMonitor ==
    ASSUME MonitorIndInv, NEW h \in Hashes, addTransaction(h) \/ LedgerCloses(h)
    PROVE  MonitorIndInv'
<1> USE DEF MonitorIndInv
<1>1. CASE addTransaction(h)
  <2>1. /\ txStatus' = [txStatus EXCEPT ![h] = "submitted"] /\ tracked' = [tracked EXCEPT ![h] = @ + 1]
        /\ UNCHANGED <<onLedger, cycle, checks, isShuttingDown, stopped, rejections, webhooks, missed, abandoned>>
      BY <1>1 DEF addTransaction
  <2>2. MonitorTypes' /\ WrongOnlyAfter404'
      BY <2>1 DEF MonitorTypes, WrongOnlyAfter404
  <2>3. ASSUME NEW g \in Hashes \ abandoned PROVE Followed(g)'
    <3>1. /\ tracked[g] \in Nat /\ webhooks[g] \in Nat
          /\ tracked'[g] = IF g = h THEN tracked[g] + 1 ELSE tracked[g]
          /\ txStatus'[g] = IF g = h THEN "submitted" ELSE txStatus[g]
          /\ (Dispatched(g)' <=> Dispatched(g)) /\ (Looked(g)' <=> Looked(g))
        BY <2>1 DEF MonitorTypes, Dispatched, Looked
    <3>2. Followed(g)
        OBVIOUS
    <3>3. Spent(g)'
        BY <2>1, <3>1, <3>2 DEF Followed, Spent
    <3> QED BY <2>1, <3>1, <3>2, <3>3 DEF Followed
  <2> QED BY <2>1, <2>2, <2>3
<1>2. CASE LedgerCloses(h)
  <2>1. /\ onLedger[h] = "unknown"
        /\ \E o \in {"successful", "unsuccessful"} : onLedger' = [onLedger EXCEPT ![h] = o]
        /\ UNCHANGED <<txStatus, cycle, checks, isShuttingDown, stopped, rejections, tracked, webhooks,
                       missed, abandoned>>
      BY <1>2 DEF LedgerCloses
  <2>2. MonitorTypes' /\ WrongOnlyAfter404'
      BY <2>1 DEF MonitorTypes, WrongOnlyAfter404
  <2>3. ASSUME NEW g \in Hashes \ abandoned PROVE Followed(g)'
    <3>1. Followed(g)
        OBVIOUS
    <3> QED BY <2>1, <3>1 DEF Followed, Looked, Dispatched, Spent
  <2> QED BY <2>1, <2>2, <2>3
<1> QED BY <1>1, <1>2

\* A check goes on or ends.
LEMMA CheckKeepsMonitor ==
    ASSUME MonitorIndInv, NEW c \in checks,
           Answered(c) \/ LookupFails(c) \/ Dispatch(c) \/ DispatchThrows(c)
    PROVE  MonitorIndInv'
<1> USE DEF MonitorIndInv
<1> DEFINE h == c.hash
<1>1. c \in Check /\ h \in Hashes /\ c.epoch <= rejections
    BY DEF MonitorTypes, Check
<1>2. CASE Answered(c)
  <2>1. PICK st \in {"dispatch", "dispatch_in_catch"}, x \in {"success", "failed"} :
          /\ checks' = (checks \ {c}) \cup {[c EXCEPT !.stage = st]}
          /\ txStatus' = [txStatus EXCEPT ![h] = x]
      BY <1>2 DEF Answered, FinalStatus
  <2>2. /\ UNCHANGED <<onLedger, cycle, isShuttingDown, stopped, rejections, tracked, webhooks, abandoned>>
        /\ c.stage = "lookup"
      BY <1>2 DEF Answered
  <2> DEFINE d == [c EXCEPT !.stage = st]
  <2>3. d \in Check /\ d.hash = h /\ d.epoch = c.epoch /\ d.stage = st
      BY <1>1 DEF Check, Stages
  <2>4. checks' = (checks \ {c}) \cup {d}
      BY <2>1
  <2> HIDE DEF d
  <2>5. WrongOnlyAfter404'
      BY <1>1, <1>2 DEF Answered, FinalStatus, WrongOnlyAfter404, MonitorTypes
  <2>6. MonitorTypes'
      BY <1>1, <2>1, <2>2, <2>3, <2>4 DEF MonitorTypes
  <2>7. \A e \in checks' : e = d \/ (e \in checks /\ e # c)
      BY <2>4
  <2>8. ASSUME NEW g \in Hashes \ abandoned, g # h PROVE Followed(g)'
    <3>1. Followed(g) /\ g # d.hash
        BY <2>3, <2>8
    <3>2. /\ \A e \in checks' : e.hash = g => e \in checks
          /\ (Looked(g)' => Looked(g)) /\ (Dispatched(g)' => Dispatched(g))
          /\ txStatus'[g] = txStatus[g]
        BY <2>1, <2>7, <2>8, <3>1 DEF Looked, Dispatched, MonitorTypes
    <3>3. Spent(g)'
        BY <2>2, <3>1, <3>2 DEF Followed, Spent
    <3> QED BY <2>2, <3>1, <3>2, <3>3 DEF Followed
  <2>9. ASSUME h \notin abandoned PROVE Followed(h)'
    <3>1. Followed(h) /\ \A e \in checks : e.hash = h => e = c
        BY <1>1, <2>9 DEF Followed
    <3>2. \A e \in checks' : e.hash = h => e = d
        BY <2>7, <3>1
    <3>3. ~Looked(h)' /\ Dispatched(h)' /\ Looked(h) /\ ~Dispatched(h)
        BY <2>2, <2>3, <2>4, <3>1, <3>2 DEF Looked, Dispatched
    <3>4. txStatus[h] = "submitted" /\ txStatus'[h] = x /\ x # "submitted"
        BY <1>1, <2>1, <3>1, <3>3 DEF Followed, MonitorTypes
    <3>5. Spent(h)'
        BY <1>1, <2>2, <3>1, <3>3, <3>4 DEF Followed, Spent
    <3>6. cycle.running /\ c.epoch = rejections /\ h \notin cycle.rest
        BY <3>1 DEF Followed
    <3> QED BY <2>2, <2>3, <3>2, <3>3, <3>5, <3>6 DEF Followed
  <2> QED BY <2>2, <2>5, <2>6, <2>8, <2>9
<1>3. CASE DispatchThrows(c) /\ rejections' = rejections + 1
  <2>1. /\ cycle' = NoCycle /\ checks' = checks \ {c} /\ rejections \in Nat /\ rejections' \in Nat
        /\ abandoned' = abandoned \cup {e.hash : e \in Batch \ {c}}
        /\ UNCHANGED <<txStatus, onLedger, isShuttingDown, stopped, tracked, webhooks, missed>>
      BY <1>3 DEF DispatchThrows, ClearCycle, MonitorTypes
  <2>2. \A e \in checks' : e \in Check /\ e.epoch <= rejections'
      BY <1>3, <2>1 DEF MonitorTypes, Check
  <2>3. MonitorTypes' /\ WrongOnlyAfter404' /\ ~cycle'.running /\ cycle'.rest = {}
    <3>1. \A e \in checks : e.hash \in Hashes
        BY DEF MonitorTypes, Check
    <3>2. abandoned' \in SUBSET Hashes
        BY <2>1, <3>1 DEF MonitorTypes, Batch
    <3> QED BY <2>1, <2>2, <3>2 DEF MonitorTypes, WrongOnlyAfter404, NoCycle
  <2>4. ASSUME NEW g \in Hashes \ abandoned' PROVE Followed(g)'
    <3>1. g \notin abandoned /\ Followed(g) /\ \A e \in Batch : e.hash = g => e = c
        BY <2>1
    <3>2. \A e \in checks' : e.hash # g
        BY <2>1, <3>1, BatchIsAll
    <3> QED BY <2>1, <2>3, <3>1, <3>2 DEF Followed, Spent, Looked, Dispatched
  <2> QED BY <2>1, <2>3, <2>4
<1>4. CASE /\ checks' = checks \ {c}
           /\ webhooks' = webhooks \/ (c.stage # "lookup" /\ webhooks' = [webhooks EXCEPT ![h] = @ + 1])
           /\ UNCHANGED <<txStatus, onLedger, cycle, isShuttingDown, stopped, rejections, tracked, missed, abandoned>>
  <2>1. MonitorTypes' /\ WrongOnlyAfter404'
      BY <1>1, <1>4 DEF MonitorTypes, WrongOnlyAfter404
  <2>2. ASSUME NEW g \in Hashes \ abandoned PROVE Followed(g)'
    <3>1. (Looked(g)' => Looked(g)) /\ (Dispatched(g)' => Dispatched(g)) /\ Followed(g)
        BY <1>4 DEF Looked, Dispatched
    <3>2. c.stage # "lookup" /\ g = h => Dispatched(h) /\ ~Dispatched(h)'
        BY <1>4, <3>1 DEF Followed, Dispatched
    <3>3. /\ webhooks[g] \in Nat /\ tracked[g] \in Nat
          /\ webhooks'[g] = webhooks[g] \/ (g = h /\ c.stage # "lookup" /\ webhooks'[g] = webhooks[g] + 1)
        BY <1>1, <1>4 DEF MonitorTypes
    <3>4. Spent(g)'
        BY <1>4, <3>1, <3>2, <3>3 DEF Followed, Spent
    <3> QED BY <1>4, <3>1, <3>4 DEF Followed
  <2> QED BY <1>4, <2>1, <2>2
<1>5. CASE LookupFails(c)
    BY <1>4, <1>5 DEF LookupFails
<1>6. CASE Dispatch(c)
    BY <1>4, <1>6 DEF Dispatch
<1>7. CASE DispatchThrows(c)
    BY <1>3, <1>4, <1>7 DEF DispatchThrows
<1> QED BY <1>2, <1>5, <1>6, <1>7

\* For any transactions and batch size: each tracking is answered by one webhook at
\* most and none is sent after the stop, except for the transactions whose check was
\* in flight when another one threw out of its batch; and a verdict is wrong only
\* after a 404 (ledgerMonitor.ts, baseWorker.ts).
LEMMA MonitoringIsSound == MonitorSpec => []MonitorInv
<1>1. MonitorInit => MonitorIndInv
  <2> SUFFICES ASSUME MonitorInit PROVE MonitorIndInv
      OBVIOUS
  <2>1. MonitorTypes /\ WrongOnlyAfter404
      BY DEF MonitorInit, MonitorTypes, NoCycle, WrongOnlyAfter404
  <2>2. cycle.rest = {} /\ \A h \in Hashes : Followed(h)
      BY DEF MonitorInit, NoCycle, Followed, Looked, Dispatched, Spent
  <2> QED BY <2>1, <2>2 DEF MonitorIndInv, MonitorInit
<1>2. MonitorIndInv /\ [MonitorNext]_monitorVars => MonitorIndInv'
  <2> SUFFICES ASSUME MonitorIndInv, [MonitorNext]_monitorVars PROVE MonitorIndInv'
      OBVIOUS
  <2>1. CASE UNCHANGED monitorVars
      BY <2>1 DEF monitorVars, MonitorIndInv, MonitorTypes, WrongOnlyAfter404, Followed,
                  Looked, Dispatched, Spent
  <2>2. CASE MonitorNext
      BY <2>2, CycleKeepsMonitor, WorldKeepsMonitor, CheckKeepsMonitor DEF MonitorNext, MonitorWork
  <2> QED BY <2>1, <2>2
<1>3. MonitorIndInv => MonitorInv
  <2> SUFFICES ASSUME MonitorIndInv PROVE MonitorInv
      OBVIOUS
  <2>1. MonitorTypeOK
    <3>1. \A c \in checks : c \in [hash : Hashes, epoch : 0 .. rejections, stage : Stages]
        BY DEF MonitorIndInv, MonitorTypes, Check
    <3> QED BY <3>1 DEF MonitorIndInv, MonitorTypes, MonitorTypeOK, Stages
  <2>2. OneWebhookPerTracking
      BY DEF MonitorIndInv, MonitorTypes, Followed, Spent, OneWebhookPerTracking
  <2>3. StopWaitsUnlessRejected
    <3>1. \A c \in checks : c.hash \in Hashes
        BY DEF MonitorIndInv, MonitorTypes, Check
    <3> QED BY <3>1 DEF MonitorIndInv, Followed, StopWaitsUnlessRejected
  <2> QED BY <2>1, <2>2, <2>3 DEF MonitorInv, MonitorIndInv
<1> QED BY <1>1, <1>2, <1>3, PTL DEF MonitorSpec
-----------------------------------------------------------------------------
(* The incident monitor *)

JobKinds == {"cycle", "boot"}
JobTypes == {"none"} \cup IncidentTypes
JobActions == {"none", "trigger", "resolve"}
IncidentJob == [at : {"idle", "horizon", "restart", "read", "send", "write"},
                type : JobTypes, action : JobActions]

IncTypes ==
    /\ signersActive \in BOOLEAN /\ horizonUp \in BOOLEAN /\ restartPending \in BOOLEAN
    /\ staleSince \in BOOLEAN /\ restartLeft \in BOOLEAN
    /\ book \in SUBSET IncidentTypes /\ bookMem \in SUBSET IncidentTypes
    /\ paged \in SUBSET IncidentTypes /\ misbooked \in SUBSET IncidentTypes
    /\ since \in Times /\ sinceMem \in Times /\ failedFor \in Times
    /\ incFaults \in 0 .. MaxIncidentFaults /\ incChanges \in 0 .. MaxChanges
    /\ incJob \in [cycle : IncidentJob, boot : IncidentJob]

\* A job with a call to make is about an incident, to be opened or closed.
JobSound(j) ==
    IF j.at \in {"read", "send", "write"}
    THEN j.type \in IncidentTypes /\ j.action \in {"trigger", "resolve"}
    ELSE j.type = "none"
JobsSound == \A k \in JobKinds : JobSound(incJob[k])

\* Of an incident that is not misbooked one job at most is beyond its read; book and
\* PagerDuty differ only by the entry that job is to write.
Booked(t) ==
    /\ (\A k \in JobKinds : ~(incJob[k].type = t /\ incJob[k].at = "write"))
         => (t \in book <=> t \in paged)
    /\ \A k \in JobKinds : incJob[k].type = t /\ incJob[k].at = "write"
         => (t \in paged <=> incJob[k].action = "trigger")
    /\ \A k, o \in JobKinds : k # o /\ incJob[k].type = t /\ incJob[o].type = t
         => incJob[k].at = "read" \/ incJob[o].at = "read"
AllBooked == \A t \in IncidentTypes \ misbooked : Booked(t)

\* As long as Redis took every write, no outage is taken for longer than it is.
OutageCounted == ~staleSince => sinceMem = NoTime /\ since <= failedFor

IncIndInv == IncTypes /\ JobsSound /\ AllBooked /\ OutageCounted /\ PagedAfterOutage

LEMMA AgeKeepsTimes ==
    ASSUME NEW x \in Times, NEW y \in Times
    PROVE  /\ Age(x) \in Times /\ (x = NoTime => Age(x) = NoTime) /\ (x <= y => Age(x) <= Age(y))
           /\ x = OUTAGE_THRESHOLD => Age(x) = x
BY IncidentAssumption DEF Times, Age, NoTime

\* The jobs after job k became j.
JobTo(k, j) ==
    /\ j \in IncidentJob /\ JobSound(j)
    /\ incJob' \in [cycle : IncidentJob, boot : IncidentJob]
    /\ incJob'[k] = j /\ \A o \in JobKinds \ {k} : incJob'[o] = incJob[o]

LEMMA SettingAJob ==
    ASSUME IncTypes, NEW k \in JobKinds, NEW j \in IncidentJob, JobSound(j),
           incJob' = [incJob EXCEPT ![k] = j]
    PROVE  JobTo(k, j)
BY DEF IncTypes, JobTo, JobKinds

LEMMA BothJobs ==
    ASSUME IncTypes
    PROVE  /\ DOMAIN incJob = JobKinds /\ incJob.cycle = incJob["cycle"] /\ incJob.boot = incJob["boot"]
           /\ \A k \in JobKinds : incJob[k] \in IncidentJob
BY DEF IncTypes, JobKinds
RestStages == {"idle", "horizon", "restart"}

LEMMA ReturningJob ==
    ASSUME IncTypes, NEW k \in JobKinds, IncidentReturns(k)
    PROVE  /\ \E st \in RestStages : JobTo(k, At(st))
           /\ restartPending' \in BOOLEAN /\ restartLeft' \in BOOLEAN
<1> DEFINE nextStage == CASE k = "boot" -> "idle"
                     [] incJob[k].type = "signer_pool_empty" -> "horizon"
                     [] incJob[k].type = "horizon_unreachable" /\ incJob[k].action = "resolve" -> "restart"
                     [] OTHER -> "idle"
<1>0. incJob' = [incJob EXCEPT ![k] = At(nextStage)]
    BY Zenon DEF IncidentReturns
<1>a. nextStage \in RestStages
    BY DEF RestStages
<1> HIDE DEF nextStage
<1>1. PICK st \in RestStages : incJob' = [incJob EXCEPT ![k] = At(st)]
    BY Zenon, <1>0, <1>a
<1>2. At(st) \in IncidentJob /\ JobSound(At(st))
    BY DEF At, IncidentJob, JobTypes, JobActions, JobSound, RestStages
<1>3. JobTo(k, At(st))
    BY <1>1, <1>2, SettingAJob
<1>4. restartPending' \in BOOLEAN /\ restartLeft' \in BOOLEAN
    BY DEF IncidentReturns
<1> QED BY <1>3, <1>4

LEMMA MovingJob ==
    ASSUME IncTypes, NEW k \in JobKinds, JobSound(incJob[k]), incJob[k].at \in {"read", "send"},
           NEW st \in {"send", "write"}, incJob' = [incJob EXCEPT ![k].at = st]
    PROVE  JobTo(k, [at |-> st, type |-> incJob[k].type, action |-> incJob[k].action])
<1> DEFINE j == [at |-> st, type |-> incJob[k].type, action |-> incJob[k].action]
<1>1. incJob[k] \in IncidentJob
    BY BothJobs
<1>2. [incJob[k] EXCEPT !.at = st] = j
    BY <1>1 DEF IncidentJob
<1>3. j \in IncidentJob /\ JobSound(j)
    BY <1>1 DEF IncidentJob, JobSound
<1> HIDE DEF j
<1>4. incJob' = [incJob EXCEPT ![k] = j]
    BY <1>2
<1>5. JobTo(k, j)
    BY <1>3, <1>4, SettingAJob
<1> QED BY <1>5 DEF j

\* What a step of the report or of the cycle's calls leaves alone.
CallStep(k) ==
    /\ UNCHANGED <<incWatched, incOutage>>
    /\ incFaults' \in 0 .. MaxIncidentFaults
    /\ book' \in SUBSET IncidentTypes /\ bookMem' \in SUBSET IncidentTypes
    /\ paged' \in SUBSET IncidentTypes /\ misbooked' \in SUBSET IncidentTypes
    /\ restartPending' \in BOOLEAN /\ restartLeft' \in BOOLEAN
    /\ \E j : /\ JobTo(k, j)
              /\ \/ j.type = incJob[k].type /\ j.action = incJob[k].action
                 \/ j.type = "none"

LEMMA CallKeepsTheRest ==
    ASSUME IncIndInv, NEW k \in JobKinds, CallStep(k)
    PROVE  IncTypes' /\ JobsSound' /\ OutageCounted' /\ PagedAfterOutage'
<1>1. PICK j : JobTo(k, j) /\ ((j.type = incJob[k].type /\ j.action = incJob[k].action) \/ j.type = "none")
    BY DEF CallStep
<1>2. IncTypes'
    BY <1>1 DEF IncIndInv, IncTypes, CallStep, JobTo, incWatched, incOutage
<1>3. JobsSound'
    BY <1>1 DEF IncIndInv, JobsSound, JobTo
<1>4. OutageCounted'
    BY DEF IncIndInv, OutageCounted, CallStep, incOutage
<1>5. PagedAfterOutage'
  <2>1. /\ incJob.cycle = incJob["cycle"] /\ incJob'.cycle = incJob'["cycle"]
        /\ UNCHANGED <<failedFor, staleSince>> /\ "cycle" \in JobKinds
      BY DEF CallStep, incOutage, JobKinds
  <2>2. \/ incJob'["cycle"].type = incJob["cycle"].type /\ incJob'["cycle"].action = incJob["cycle"].action
        \/ incJob'["cycle"].type = "none"
      BY <1>1, <2>1 DEF JobTo
  <2> QED BY <2>1, <2>2 DEF IncIndInv, PagedAfterOutage
<1> QED BY <1>2, <1>3, <1>4, <1>5

LEMMA OutcomeBounded ==
    ASSUME IncTypes, NEW fault \in BOOLEAN, Outcome(fault)
    PROVE  incFaults' \in 0 .. MaxIncidentFaults
BY IncidentAssumption DEF IncTypes, Outcome

LEMMA IsOpenKeeps ==
    ASSUME IncIndInv, NEW k \in JobKinds, IsOpen(k)
    PROVE  IncIndInv'
<1> DEFINE type == incJob[k].type
<1>0. /\ IncTypes /\ JobSound(incJob[k]) /\ incJob[k].at = "read" /\ type \in IncidentTypes
      /\ incJob[k].action \in {"trigger", "resolve"} /\ DOMAIN incJob = JobKinds
    BY BothJobs DEF IncIndInv, JobsSound, IsOpen, JobSound
<1>1. PICK fault \in BOOLEAN :
        /\ Outcome(fault)
        /\ \/ /\ incJob' = [incJob EXCEPT ![k].at = "send"] /\ UNCHANGED <<restartPending, restartLeft>>
           \/ IncidentReturns(k)
        /\ misbooked' = IF /\ incJob'[k].at = "send"
                           /\ \E o \in DOMAIN incJob \ {k} : incJob[o].type = type /\ incJob[o].at # "read"
                        THEN misbooked \cup {type} ELSE misbooked
    BY Zenon DEF IsOpen
<1>2. UNCHANGED <<incWatched, incOutage, book, bookMem, paged>>
    BY DEF IsOpen
<1> DEFINE sent == [at |-> "send", type |-> type, action |-> incJob[k].action]
<1>3. PICK j : JobTo(k, j) /\ (j = sent \/ \E st \in RestStages : j = At(st))
    BY <1>0, <1>1, MovingJob, ReturningJob
<1>4. CallStep(k)
  <2>1. misbooked' \in SUBSET IncidentTypes
      BY <1>0, <1>1 DEF IncTypes
  <2>2. restartPending' \in BOOLEAN /\ restartLeft' \in BOOLEAN
      BY <1>0, <1>1, ReturningJob DEF IncTypes
  <2>3. (j.type = type /\ j.action = incJob[k].action) \/ j.type = "none"
      BY <1>3 DEF At
  <2>4. incFaults' \in 0 .. MaxIncidentFaults
      BY <1>0, <1>1, OutcomeBounded
  <2> QED BY <1>0, <1>2, <1>3, <2>1, <2>2, <2>3, <2>4 DEF CallStep, IncTypes
<1>5. AllBooked'
  <2> SUFFICES ASSUME NEW t \in IncidentTypes, t \notin misbooked' PROVE Booked(t)'
      BY DEF AllBooked
  <2>1. Booked(t)
      BY <1>1 DEF IncIndInv, AllBooked
  <2>2. /\ incJob'[k] = j /\ \A o \in JobKinds \ {k} : incJob'[o] = incJob[o]
        /\ j.at # "write" /\ (j.type = "none" \/ (j.at = "send" /\ j.type = type))
      BY <1>3 DEF JobTo, At, RestStages
  <2>3. t # "none"
      BY DEF IncidentTypes
  <2>4. j.at = "send" /\ type = t => \A o \in JobKinds \ {k} : ~(incJob[o].type = t /\ incJob[o].at # "read")
      BY <1>0, <1>1, <2>2
  <2> HIDE DEF type
  <2> QED BY <1>0, <1>2, <2>1, <2>2, <2>3, <2>4 DEF Booked
<1> QED BY <1>4, <1>5, CallKeepsTheRest DEF IncIndInv

LEMMA SendEventKeeps ==
    ASSUME IncIndInv, NEW k \in JobKinds, SendEvent(k)
    PROVE  IncIndInv'
<1> DEFINE type == incJob[k].type
           action == incJob[k].action
<1>0. /\ IncTypes /\ JobSound(incJob[k]) /\ incJob[k].at = "send" /\ type \in IncidentTypes
      /\ action \in {"trigger", "resolve"} /\ DOMAIN incJob = JobKinds
    BY BothJobs DEF IncIndInv, JobsSound, SendEvent, JobSound
<1>1. PICK fault \in BOOLEAN, arrives \in BOOLEAN :
        /\ Outcome(fault) /\ (fault \/ arrives)
        /\ paged' = IF arrives THEN After(paged, type, action) ELSE paged
        /\ misbooked' = IF fault /\ arrives THEN misbooked \cup {type} ELSE misbooked
        /\ IF fault THEN IncidentReturns(k)
           ELSE /\ incJob' = [incJob EXCEPT ![k].at = "write"]
                /\ UNCHANGED <<restartPending, restartLeft>>
    BY Zenon DEF SendEvent
<1>2. UNCHANGED <<incWatched, incOutage, book, bookMem>>
    BY DEF SendEvent
<1> DEFINE written == [at |-> "write", type |-> type, action |-> action]
<1>3. PICK j : /\ JobTo(k, j)
               /\ IF fault THEN \E st \in RestStages : j = At(st) ELSE j = written
    BY <1>0, <1>1, MovingJob, ReturningJob
<1>4. CallStep(k)
  <2>1. misbooked' \in SUBSET IncidentTypes /\ paged' \in SUBSET IncidentTypes
      BY <1>0, <1>1 DEF IncTypes, After
  <2>2. restartPending' \in BOOLEAN /\ restartLeft' \in BOOLEAN
      BY <1>0, <1>1, ReturningJob DEF IncTypes
  <2>3. (j.type = type /\ j.action = action) \/ j.type = "none"
      BY <1>3 DEF At
  <2>4. incFaults' \in 0 .. MaxIncidentFaults
      BY <1>0, <1>1, OutcomeBounded
  <2> QED BY <1>0, <1>2, <1>3, <2>1, <2>2, <2>3, <2>4 DEF CallStep, IncTypes
<1>5. AllBooked'
  <2> SUFFICES ASSUME NEW t \in IncidentTypes, t \notin misbooked' PROVE Booked(t)'
      BY DEF AllBooked
  <2>1. Booked(t)
      BY <1>1 DEF IncIndInv, AllBooked
  <2>2. /\ incJob'[k] = j /\ \A o \in JobKinds \ {k} : incJob'[o] = incJob[o]
        /\ IF fault THEN j.type = "none" ELSE j.at = "write" /\ j.type = type /\ j.action = action
      BY <1>3 DEF JobTo, At, RestStages
  <2>3. t # "none"
      BY DEF IncidentTypes
  <2>4. t # type => (t \in paged' <=> t \in paged)
      BY <1>1 DEF After
  <2>5. t = type /\ fault => paged' = paged
      BY <1>1
  <2>6. t = type /\ ~fault => (t \in paged' <=> action = "trigger")
      BY <1>0, <1>1 DEF After
  <2> HIDE DEF type, action
  <2>7. CASE t = type /\ ~fault
    <3>1. \A o \in JobKinds \ {k} : incJob[o].type = t => incJob[o].at = "read"
        BY <1>0, <2>1, <2>7 DEF Booked, type
    <3> QED BY <1>2, <2>2, <2>6, <2>7, <3>1 DEF Booked
  <2>8. CASE ~(t = type /\ ~fault)
    <3>1. (t \in paged' <=> t \in paged) /\ book' = book
        BY <1>2, <2>4, <2>5, <2>8
    <3>2. incJob'[k].type # t
        BY <2>2, <2>3, <2>8
    <3> QED BY <1>0, <2>1, <2>2, <3>1, <3>2 DEF Booked
  <2> QED BY <2>7, <2>8
<1> QED BY <1>4, <1>5, CallKeepsTheRest DEF IncIndInv

LEMMA SetOpenKeeps ==
    ASSUME IncIndInv, NEW k \in JobKinds, SetOpen(k)
    PROVE  IncIndInv'
<1> DEFINE type == incJob[k].type
           action == incJob[k].action
<1>0. /\ IncTypes /\ JobSound(incJob[k]) /\ incJob[k].at = "write" /\ type \in IncidentTypes
      /\ action \in {"trigger", "resolve"} /\ DOMAIN incJob = JobKinds
    BY BothJobs DEF IncIndInv, JobsSound, SetOpen, JobSound
<1>1. PICK fault \in BOOLEAN :
        /\ Outcome(fault)
        /\ book' = IF fault THEN book ELSE After(book, type, action)
        /\ bookMem' = IF fault THEN After(bookMem, type, action) ELSE bookMem
        /\ misbooked' = IF fault THEN misbooked \cup {type} ELSE misbooked
    BY Zenon DEF SetOpen
<1>2. UNCHANGED <<incWatched, incOutage, paged>> /\ IncidentReturns(k)
    BY DEF SetOpen
<1>3. PICK st \in RestStages : JobTo(k, At(st))
    BY <1>0, <1>2, ReturningJob
<1>4. CallStep(k)
  <2>1. misbooked' \in SUBSET IncidentTypes /\ book' \in SUBSET IncidentTypes /\ bookMem' \in SUBSET IncidentTypes
      BY <1>0, <1>1 DEF IncTypes, After
  <2>2. restartPending' \in BOOLEAN /\ restartLeft' \in BOOLEAN
      BY <1>0, <1>2, ReturningJob
  <2>3. At(st).type = "none"
      BY DEF At
  <2>4. incFaults' \in 0 .. MaxIncidentFaults
      BY <1>0, <1>1, OutcomeBounded
  <2> QED BY <1>0, <1>2, <1>3, <2>1, <2>2, <2>3, <2>4 DEF CallStep, IncTypes
<1>5. AllBooked'
  <2> SUFFICES ASSUME NEW t \in IncidentTypes, t \notin misbooked' PROVE Booked(t)'
      BY DEF AllBooked
  <2>1. Booked(t)
      BY <1>1 DEF IncIndInv, AllBooked
  <2>2. /\ incJob'[k].type = "none" /\ \A o \in JobKinds \ {k} : incJob'[o] = incJob[o]
      BY <1>3 DEF JobTo, At
  <2>3. t # "none" /\ (t = type => ~fault)
      BY <1>1 DEF IncidentTypes
  <2>4. t # type => (t \in book' <=> t \in book)
      BY <1>1 DEF After
  <2>5. t = type => (t \in book' <=> action = "trigger") /\ (t \in paged <=> action = "trigger")
      BY <1>0, <1>1, <2>1, <2>3 DEF After, Booked
  <2>6. t = type => \A o \in JobKinds \ {k} : incJob[o].type = t => incJob[o].at = "read"
      BY <1>0, <2>1 DEF Booked
  <2> HIDE DEF type, action
  <2>7. CASE t = type
      BY <1>2, <2>2, <2>3, <2>5, <2>6, <2>7 DEF Booked
  <2>8. CASE t # type
    <3>1. incJob[k].type # t
        BY <2>8 DEF type
    <3> QED BY <1>2, <2>1, <2>2, <2>3, <2>4, <2>8, <3>1 DEF Booked
  <2> QED BY <2>7, <2>8
<1> QED BY <1>4, <1>5, CallKeepsTheRest DEF IncIndInv

\* The cycle begins a call or rests: no job comes beyond its read.
LEMMA CycleGoesOn ==
    ASSUME IncIndInv, incJob["cycle"].at \in RestStages, NEW j, JobTo("cycle", j),
           j.at \notin {"send", "write"}, UNCHANGED <<book, paged, misbooked>>
    PROVE  AllBooked' /\ JobsSound'
<1>1. JobsSound'
    BY DEF IncIndInv, JobsSound, JobTo
<1>2. ASSUME NEW t \in IncidentTypes, t \notin misbooked PROVE Booked(t)'
  <2>1. Booked(t)
      BY <1>2 DEF IncIndInv, AllBooked
  <2>2. incJob'["cycle"] = j /\ incJob'["boot"] = incJob["boot"] /\ JobKinds = {"cycle", "boot"}
      BY DEF JobTo, JobKinds
  <2>3. j.at = "read" \/ j.type = "none"
      BY DEF JobTo, JobSound, IncidentJob
  <2> QED BY <2>1, <2>2, <2>3 DEF Booked, RestStages, IncidentTypes
<1> QED BY <1>1, <1>2 DEF AllBooked

LEMMA CheckPoolKeeps ==
    ASSUME IncIndInv, checkSignerPool
    PROVE  IncIndInv'
<1> DEFINE j == Call("signer_pool_empty", IF signersActive THEN "resolve" ELSE "trigger")
<1>1. j \in IncidentJob /\ JobSound(j) /\ j.at = "read" /\ j.type = "signer_pool_empty"
    BY DEF Call, IncidentJob, JobTypes, JobActions, JobSound, IncidentTypes
<1>2. incJob' = [incJob EXCEPT !["cycle"] = j] /\ incJob["cycle"].at = "idle"
    BY BothJobs DEF checkSignerPool, IncIndInv
<1>3. UNCHANGED <<incWatched, incOutage, book, bookMem, paged, restartPending, misbooked, restartLeft, incFaults>>
    BY DEF checkSignerPool
<1> HIDE DEF j
<1>4. JobTo("cycle", j)
    BY <1>1, <1>2, SettingAJob DEF IncIndInv, JobKinds
<1>5. AllBooked' /\ JobsSound'
    BY <1>1, <1>2, <1>3, <1>4, CycleGoesOn DEF RestStages
<1>6. IncTypes' /\ OutageCounted'
    BY <1>3, <1>4 DEF IncIndInv, IncTypes, OutageCounted, JobTo, incWatched, incOutage
<1>7. PagedAfterOutage'
    BY <1>1, <1>4 DEF JobTo, PagedAfterOutage
<1> QED BY <1>5, <1>6, <1>7 DEF IncIndInv

LEMMA HorizonAnswersKeeps ==
    ASSUME IncIndInv, HorizonAnswers
    PROVE  IncIndInv'
<1> DEFINE j == Call("horizon_unreachable", "resolve")
<1>1. j \in IncidentJob /\ JobSound(j) /\ j.at = "read" /\ j.action = "resolve"
    BY DEF Call, IncidentJob, JobTypes, JobActions, JobSound, IncidentTypes
<1>2. incJob' = [incJob EXCEPT !["cycle"] = j] /\ incJob["cycle"].at = "horizon"
    BY BothJobs DEF HorizonAnswers, IncIndInv
<1>3. UNCHANGED <<incWatched, book, bookMem, paged, restartPending, misbooked, restartLeft>>
    BY DEF HorizonAnswers
<1> HIDE DEF j
<1>4. JobTo("cycle", j)
    BY <1>1, <1>2, SettingAJob DEF IncIndInv, JobKinds
<1>5. AllBooked' /\ JobsSound'
    BY <1>1, <1>2, <1>3, <1>4, CycleGoesOn DEF RestStages
<1>6. PICK fault \in BOOLEAN :
        /\ Outcome(fault)
        /\ since' = IF fault THEN since ELSE NoTime
        /\ sinceMem' = IF fault THEN NoTime ELSE sinceMem
        /\ staleSince' = (staleSince \/ fault)
    BY DEF HorizonAnswers
<1>7. failedFor' = NoTime
    BY DEF HorizonAnswers
<1>8. incFaults' \in 0 .. MaxIncidentFaults
    BY <1>6, OutcomeBounded DEF IncIndInv
<1>9. IncTypes' /\ OutageCounted'
    BY <1>3, <1>4, <1>6, <1>7, <1>8 DEF IncIndInv, IncTypes, OutageCounted, JobTo, incWatched, Times, NoTime
<1>10. PagedAfterOutage'
    BY <1>1, <1>4 DEF JobTo, PagedAfterOutage
<1> QED BY <1>5, <1>9, <1>10 DEF IncIndInv

LEMMA HorizonFailsKeeps ==
    ASSUME IncIndInv, HorizonFails
    PROVE  IncIndInv'
<1>1. PICK fault \in {"none", "read", "write"}, first \in Times :
        /\ first = IF fault = "read" THEN sinceMem ELSE since
        /\ Outcome(fault # "none")
        /\ since' = IF first = NoTime /\ fault # "write" THEN 0 ELSE since
        /\ sinceMem' = IF fault = "write" THEN 0 ELSE sinceMem
        /\ staleSince' = (staleSince \/ fault = "write")
        /\ incJob' = [incJob EXCEPT !.cycle =
              IF (IF first = NoTime THEN 0 ELSE first) >= OUTAGE_THRESHOLD
              THEN Call("horizon_unreachable", "trigger") ELSE At("idle")]
    BY DEF HorizonFails, IncIndInv, IncTypes
<1> DEFINE over == (IF first = NoTime THEN 0 ELSE first) >= OUTAGE_THRESHOLD
           j == IF over THEN Call("horizon_unreachable", "trigger") ELSE At("idle")
<1>2. UNCHANGED <<incWatched, book, bookMem, paged, restartPending, misbooked, restartLeft>>
      /\ incJob["cycle"].at = "horizon"
    BY BothJobs DEF HorizonFails, IncIndInv
<1>3. /\ j \in IncidentJob /\ JobSound(j) /\ j.at \in {"read", "idle"}
      /\ (j.type = "horizon_unreachable" => over)
    BY DEF Call, At, IncidentJob, JobTypes, JobActions, JobSound, IncidentTypes
<1>4. incJob' = [incJob EXCEPT !["cycle"] = j]
    BY <1>1
<1>5. failedFor' = IF failedFor = NoTime THEN 0 ELSE failedFor
    BY DEF HorizonFails
<1>6. incFaults' \in 0 .. MaxIncidentFaults
    BY <1>1, OutcomeBounded DEF IncIndInv
<1> HIDE DEF j
<1>7. JobTo("cycle", j)
    BY <1>3, <1>4, SettingAJob DEF IncIndInv, JobKinds
<1>8. AllBooked' /\ JobsSound'
    BY <1>2, <1>3, <1>7, CycleGoesOn DEF RestStages
<1>9. IncTypes'
    BY <1>1, <1>2, <1>5, <1>6, <1>7, IncidentAssumption DEF IncIndInv, IncTypes, JobTo, incWatched, Times, NoTime
<1>10. OutageCounted'
  <2> SUFFICES ASSUME ~staleSince' PROVE sinceMem' = NoTime /\ since' <= failedFor'
      BY DEF OutageCounted
  <2>1. ~staleSince /\ fault # "write"
      BY <1>1
  <2>2. sinceMem = NoTime /\ since <= failedFor /\ since \in Times /\ failedFor \in Times
      BY <2>1 DEF IncIndInv, OutageCounted, IncTypes
  <2>3. sinceMem' = NoTime
      BY <1>1, <2>1, <2>2
  <2>4. since' = 0 \/ since' = since
      BY <1>1, <2>1
  <2>5. since' <= failedFor'
    <3>1. failedFor' \in Times /\ 0 <= failedFor' /\ failedFor <= failedFor'
        BY <1>5, <2>2, IncidentAssumption DEF Times, NoTime
    <3> QED BY <2>2, <2>4, <3>1, IncidentAssumption DEF Times, NoTime
  <2> QED BY <2>3, <2>5
<1>11. PagedAfterOutage'
  <2> SUFFICES ASSUME over, ~staleSince' PROVE failedFor' = OUTAGE_THRESHOLD
      BY <1>3, <1>7 DEF JobTo, PagedAfterOutage
  <2>1. ~staleSince /\ sinceMem = NoTime /\ since <= failedFor
      BY <1>1 DEF IncIndInv, OutageCounted, IncTypes
  <2> QED BY <1>1, <1>5, <2>1, IncidentAssumption DEF IncIndInv, IncTypes, Times, NoTime
<1> QED BY <1>8, <1>9, <1>10, <1>11 DEF IncIndInv

LEMMA CheckRestartKeeps ==
    ASSUME IncIndInv, CheckRestart
    PROVE  IncIndInv'
<1> DEFINE j == IF restartPending /\ signersActive THEN Call("server_restart", "resolve") ELSE At("idle")
<1>1. j \in IncidentJob /\ JobSound(j) /\ j.at \in {"read", "idle"} /\ j.type # "horizon_unreachable"
    BY DEF Call, At, IncidentJob, JobTypes, JobActions, JobSound, IncidentTypes
<1>2. incJob' = [incJob EXCEPT !["cycle"] = j] /\ incJob["cycle"].at = "restart"
    BY BothJobs DEF CheckRestart, IncIndInv
<1>3. UNCHANGED <<incWatched, incOutage, book, bookMem, paged, restartPending, misbooked, restartLeft, incFaults>>
    BY DEF CheckRestart
<1> HIDE DEF j
<1>4. JobTo("cycle", j)
    BY <1>1, <1>2, SettingAJob DEF IncIndInv, JobKinds
<1>5. AllBooked' /\ JobsSound'
    BY <1>1, <1>2, <1>3, <1>4, CycleGoesOn DEF RestStages
<1>6. IncTypes' /\ OutageCounted'
    BY <1>3, <1>4 DEF IncIndInv, IncTypes, OutageCounted, JobTo, incWatched, incOutage
<1>7. PagedAfterOutage'
    BY <1>1, <1>4 DEF JobTo, PagedAfterOutage
<1> QED BY <1>5, <1>6, <1>7 DEF IncIndInv

LEMMA StartedJobs ==
    /\ Started \in [cycle : IncidentJob, boot : IncidentJob]
    /\ \A k \in JobKinds : JobSound(Started[k]) /\ Started[k].at \in {"idle", "read"}
    /\ Started.cycle.type = "none" /\ Started["cycle"].type = "none"
BY DEF Started, At, Call, IncidentJob, JobTypes, JobActions, JobSound, IncidentTypes, JobKinds

\* A process that dies leaves the entry of a call it was to write unwritten.
LEMMA IncRestartKeeps ==
    ASSUME IncIndInv, IncRestart
    PROVE  IncIndInv'
<1>0. IncTypes /\ DOMAIN incJob = JobKinds
    BY BothJobs DEF IncIndInv
<1>1. /\ incJob' = Started /\ restartPending' = TRUE /\ restartLeft' = FALSE
      /\ bookMem' = {} /\ sinceMem' = NoTime
      /\ UNCHANGED <<incWatched, since, failedFor, staleSince, book, paged>>
    BY DEF IncRestart
<1>2. misbooked' = misbooked \cup {incJob[k].type : k \in {o \in JobKinds : incJob[o].at = "write"}}
    BY <1>0 DEF IncRestart
<1>3. \A k \in JobKinds : incJob[k].at = "write" => incJob[k].type \in IncidentTypes
    BY DEF IncIndInv, JobsSound, JobSound
<1>4. incFaults' \in 0 .. MaxIncidentFaults
    BY <1>0, OutcomeBounded DEF IncRestart
<1>5. misbooked' \in SUBSET IncidentTypes
    BY <1>0, <1>2, <1>3 DEF IncTypes
<1>6. IncTypes'
    BY <1>0, <1>1, <1>4, <1>5, StartedJobs DEF IncTypes, incWatched, Times
<1>7. JobsSound' /\ OutageCounted' /\ PagedAfterOutage'
    BY <1>1, StartedJobs DEF IncIndInv, JobsSound, OutageCounted, PagedAfterOutage
<1>8. ASSUME NEW t \in IncidentTypes, t \notin misbooked' PROVE Booked(t)'
  <2>1. Booked(t) /\ \A k \in JobKinds : ~(incJob[k].type = t /\ incJob[k].at = "write")
      BY <1>2, <1>8 DEF IncIndInv, AllBooked
  <2>2. t \in book <=> t \in paged
      BY <2>1 DEF Booked
  <2>3. \A k \in JobKinds : incJob'[k].at # "write" /\ (incJob'[k].at = "read" \/ incJob'[k].type = "none")
      BY <1>1, StartedJobs DEF JobSound
  <2>4. t # "none"
      BY DEF IncidentTypes
  <2> QED BY <1>1, <2>2, <2>3, <2>4 DEF Booked
<1>9. AllBooked'
    BY <1>8 DEF AllBooked
<1> QED BY <1>6, <1>7, <1>9 DEF IncIndInv

LEMMA IncTickKeeps ==
    ASSUME IncIndInv, IncTick
    PROVE  IncIndInv'
<1>1. UNCHANGED <<incWatched, staleSince, book, bookMem, paged, incJob, restartPending,
                   misbooked, restartLeft, incFaults>>
    BY DEF IncTick
<1>2. since' = Age(since) /\ sinceMem' = Age(sinceMem) /\ failedFor' = Age(failedFor)
    BY DEF IncTick
<1>3. since \in Times /\ sinceMem \in Times /\ failedFor \in Times
    BY DEF IncIndInv, IncTypes
<1>4. IncTypes'
    BY <1>1, <1>2, <1>3, AgeKeepsTimes DEF IncIndInv, IncTypes, incWatched
<1>5. JobsSound' /\ AllBooked'
    BY <1>1 DEF IncIndInv, JobsSound, JobSound, AllBooked, Booked
<1>6. OutageCounted'
    BY <1>1, <1>2, <1>3, AgeKeepsTimes DEF IncIndInv, OutageCounted
<1>7. PagedAfterOutage'
    BY <1>1, <1>2, <1>3, AgeKeepsTimes DEF IncIndInv, PagedAfterOutage
<1> QED BY <1>4, <1>5, <1>6, <1>7 DEF IncIndInv

\* The incident books never disagree but where an answer, an entry or a process was
\* lost, and nobody is paged before the whole threshold is over (IncidentInv:
\* triggerIncident, resolveIncident, and the cycle of the incident monitor).
LEMMA IncidentsAreBooked == IncSpec => []IncidentInv
<1>1. IncInit => IncIndInv
  <2> SUFFICES ASSUME IncInit PROVE IncIndInv
      OBVIOUS
  <2>1. IncTypes
    <3>1. 0 \in 0 .. MaxIncidentFaults /\ 0 \in 0 .. MaxChanges /\ NoTime \in Times
        BY IncidentAssumption DEF Times
    <3> QED BY <3>1, StartedJobs DEF IncInit, IncTypes
  <2>2. JobsSound /\ PagedAfterOutage
      BY StartedJobs DEF IncInit, JobsSound, PagedAfterOutage
  <2>6. OutageCounted
      BY DEF IncInit, OutageCounted, NoTime
  <2>3. \A k \in JobKinds : incJob[k].at = "read" \/ incJob[k].type = "none"
      BY StartedJobs DEF IncInit, JobSound
  <2>4. "none" \notin IncidentTypes
      BY DEF IncidentTypes
  <2>5. AllBooked
    <3> SUFFICES ASSUME NEW t \in IncidentTypes PROVE Booked(t)
        BY DEF AllBooked
    <3>1. book = paged
        BY DEF IncInit
    <3>2. \A k \in JobKinds : ~(incJob[k].type = t /\ incJob[k].at = "write")
        BY <2>3, <2>4
    <3> QED BY <2>3, <2>4, <3>1, <3>2 DEF Booked
  <2> QED BY <2>1, <2>2, <2>5, <2>6 DEF IncIndInv
<1>2. IncIndInv /\ [IncNext]_incVars => IncIndInv'
  <2> SUFFICES ASSUME IncIndInv, [IncNext]_incVars PROVE IncIndInv'
      OBVIOUS
  <2>1. ASSUME NEW k \in JobKinds, IncStep(k) PROVE IncIndInv'
      BY <2>1, IsOpenKeeps, SendEventKeeps, SetOpenKeeps DEF IncStep
  <2>2. CASE Watched
    <3>1. UNCHANGED <<incOutage, book, bookMem, paged, incJob, restartPending, misbooked, restartLeft, incFaults>>
        BY <2>2 DEF Watched
    <3>2. incChanges' \in 0 .. MaxChanges
        BY <2>2, IncidentAssumption DEF Watched, IncIndInv, IncTypes
    <3>3. signersActive' \in BOOLEAN /\ horizonUp' \in BOOLEAN
        BY <2>2, Zenon DEF Watched, IncIndInv, IncTypes
    <3> QED BY <3>1, <3>2, <3>3 DEF IncIndInv, IncTypes, JobsSound, JobSound, AllBooked, Booked, OutageCounted,
                        PagedAfterOutage, incOutage
  <2>3. CASE UNCHANGED incVars
      BY <2>3 DEF incVars, IncIndInv, IncTypes, JobsSound, JobSound, AllBooked, Booked, OutageCounted,
                  PagedAfterOutage
  <2> QED BY <2>1, <2>2, <2>3, CheckPoolKeeps, HorizonAnswersKeeps, HorizonFailsKeeps, CheckRestartKeeps,
             IncRestartKeeps, IncTickKeeps DEF IncNext, CycleStep, JobKinds
<1>3. IncIndInv => IncidentInv
  <2> SUFFICES ASSUME IncIndInv PROVE IncidentInv
      OBVIOUS
  <2>1. IncTypeOK
      BY DEF IncIndInv, IncTypes, IncTypeOK
  <2>2. BookAgrees
    <3> SUFFICES ASSUME NEW t \in IncidentTypes \ misbooked,
                        \A k \in JobKinds : incJob[k].type # t
                 PROVE  (t \in book) = (t \in paged)
        BY BothJobs DEF BookAgrees, IncIndInv
    <3>1. Booked(t)
        BY DEF IncIndInv, AllBooked
    <3> QED BY <3>1 DEF Booked
  <2> QED BY <2>1, <2>2 DEF IncIndInv, IncidentInv
<1> QED BY <1>1, <1>2, <1>3, PTL DEF IncSpec

\* Both monitors keep sound books (MonitorsInv: ledgerMonitor.ts, incidentMonitor.ts).
THEOREM MonitorsAreSound == MonitorSpec /\ IncSpec => []MonitorsInv
BY MonitoringIsSound, IncidentsAreBooked, PTL DEF MonitorsInv
-----------------------------------------------------------------------------
(* Tenant registration *)

Tokens == 0 .. lastToken
SignupTypes ==
    /\ lastToken \in 0 .. MaxToken /\ tosVersion \in 1 .. MaxTosVersion
    /\ signupFaults \in 0 .. MaxSignupFaults /\ keyMissing \in BOOLEAN
    /\ pendingRow \in [token : Tokens, status : {"none", "pending", "verified", "expired"}, tos : Nat]
    /\ signup \in [Signups -> [at : {"idle", "audit", "mail"}, token : Tokens]]
    /\ verifier \in [Verifiers -> [at : {"idle", "expire", "tenant", "key", "mark"}, token : Tokens,
                                   tos : Nat, tenant : Nat]]
    /\ tenants \in SUBSET [id : Nat, token : Tokens, hasKey : BOOLEAN, tos : Nat, under : Nat]
    /\ IsFiniteSet(tenants)
    /\ mailed \in SUBSET (1 .. lastToken) /\ tosAudit \in SUBSET (1 .. lastToken)
    /\ repeated \in SUBSET (1 .. lastToken)

\* The link is mailed once the acceptance is on record; a verification is under way
\* for a link that was mailed, and makes its tenant under the terms it checked.
ConsentFirst ==
    /\ mailed \subseteq tosAudit
    /\ \A s \in Signups : /\ signup[s].at # "idle" => signup[s].token # 0
                          /\ signup[s].at = "mail" => signup[s].token \in tosAudit
    /\ \A v \in Verifiers : /\ verifier[v].at # "idle" => verifier[v].token \in mailed
                            /\ verifier[v].at = "tenant" => verifier[v].tos = tosVersion

\* Of a link that was not clicked again too early there is one tenant, or one
\* verification that is going to make it.
Provisioned(t) ==
    /\ \A x, y \in tenants : x.token = t /\ y.token = t => x = y
    /\ \A v \in Verifiers : verifier[v].at = "tenant" /\ verifier[v].token = t =>
         /\ \A x \in tenants : x.token # t
         /\ \A w \in Verifiers \ {v} : ~(verifier[w].at = "tenant" /\ verifier[w].token = t)
OnePerLink == \A t \in 1 .. lastToken : t \notin repeated => Provisioned(t)

\* A verification behind the first call has its tenant, and behind the second the
\* tenant has its key.
KeyOnItsWay ==
    /\ \A v \in Verifiers : verifier[v].at \in {"key", "mark"} =>
         \E x \in tenants : /\ x.id = verifier[v].tenant /\ x.token = verifier[v].token
                            /\ verifier[v].at = "mark" => x.hasKey
    /\ signupFaults = 0 =>
         /\ ~keyMissing
         /\ \A x \in tenants : x.hasKey \/ \E w \in Verifiers : verifier[w].at = "key" /\ verifier[w].tenant = x.id

RowHasKey ==
    pendingRow.status = "verified" => \E x \in tenants : x.token = pendingRow.token /\ x.hasKey

SignupIndInv == SignupTypes /\ ConsentFirst /\ ConsentOnRecord /\ OnePerLink /\ KeyOnItsWay /\ RowHasKey

LEMMA SignupFaultCounted ==
    ASSUME SignupTypes, SignupFault
    PROVE  signupFaults' \in 0 .. MaxSignupFaults /\ signupFaults' # 0
BY RegistrationAssumption DEF SignupTypes, SignupFault

LEMMA CreateRegistrationKeeps ==
    ASSUME SignupIndInv, NEW s \in Signups, createRegistration(s)
    PROVE  SignupIndInv'
<1>1. /\ lastToken' = lastToken + 1 /\ lastToken' \in 1 .. MaxToken /\ lastToken \in Nat
      /\ pendingRow' = [token |-> lastToken', status |-> "pending", tos |-> tosVersion]
      /\ signup' = [signup EXCEPT ![s] = [at |-> "audit", token |-> lastToken']]
      /\ UNCHANGED <<tosVersion, tosAudit, mailed, lapsed, verifier, tenants, signupFaults, repeated, keyMissing>>
    BY RegistrationAssumption DEF createRegistration, SignupIndInv, SignupTypes
<1>2. /\ Tokens \subseteq Tokens' /\ (1 .. lastToken) \subseteq (1 .. lastToken)' /\ lastToken' \in Tokens' /\ tosVersion \in Nat
    BY <1>1, RegistrationAssumption DEF Tokens, SignupIndInv, SignupTypes
<1>3. SignupTypes'
  <2>1. pendingRow' \in [token : Tokens', status : {"none", "pending", "verified", "expired"}, tos : Nat]
      BY <1>1, <1>2
  <2>2. signup' \in [Signups -> [at : {"idle", "audit", "mail"}, token : Tokens']]
      BY <1>1, <1>2 DEF SignupIndInv, SignupTypes
  <2>3. verifier' \in [Verifiers -> [at : {"idle", "expire", "tenant", "key", "mark"}, token : Tokens', tos : Nat, tenant : Nat]]
      BY <1>1, <1>2 DEF SignupIndInv, SignupTypes
  <2>4. tenants' \in SUBSET [id : Nat, token : Tokens', hasKey : BOOLEAN, tos : Nat, under : Nat]
      BY <1>1, <1>2 DEF SignupIndInv, SignupTypes
  <2>5. lastToken' \in 0 .. MaxToken
      BY <1>1
  <2> QED BY <1>1, <1>2, <2>1, <2>2, <2>3, <2>4, <2>5 DEF SignupIndInv, SignupTypes
<1>4. ConsentFirst' /\ ConsentOnRecord' /\ KeyOnItsWay' /\ RowHasKey'
    BY <1>1 DEF SignupIndInv, SignupTypes, ConsentFirst, ConsentOnRecord, KeyOnItsWay, RowHasKey
<1>5. OnePerLink'
  <2> SUFFICES ASSUME NEW t \in 1 .. lastToken', t \notin repeated' PROVE Provisioned(t)'
      BY DEF OnePerLink
  <2>1. CASE t \in 1 .. lastToken
      BY <1>1, <2>1 DEF SignupIndInv, OnePerLink, Provisioned
  <2>2. CASE t \notin 1 .. lastToken
    <3>1. t \notin Tokens
        BY <1>1, <2>2 DEF Tokens
    <3>2. /\ \A x \in tenants : x.token # t
          /\ \A v \in Verifiers : verifier[v].token # t
        BY <3>1 DEF SignupIndInv, SignupTypes
    <3> QED BY <1>1, <3>2 DEF Provisioned
  <2> QED BY <2>1, <2>2
<1> QED BY <1>3, <1>4, <1>5 DEF SignupIndInv

\* Steps that touch neither the row's token nor the tenants nor a verification.
LEMMA FinishSignupKeeps ==
    ASSUME SignupIndInv, NEW s \in Signups, FinishSignup(s) \/ SignupThrows(s)
    PROVE  SignupIndInv'
<1>1. UNCHANGED <<pendingRow, tosVersion, lastToken, lapsed, verifier, tenants, repeated, keyMissing>>
    BY DEF FinishSignup, SignupThrows
<1>2. /\ signup' \in [Signups -> [at : {"idle", "audit", "mail"}, token : Tokens]]
      /\ mailed' \in SUBSET (1 .. lastToken) /\ tosAudit' \in SUBSET (1 .. lastToken)
      /\ signupFaults' \in 0 .. MaxSignupFaults /\ (signupFaults' = 0 => signupFaults = 0)
  <2>1. CASE SignupThrows(s)
    <3>1. signupFaults' \in 0 .. MaxSignupFaults /\ signupFaults' # 0
        BY <2>1, SignupFaultCounted DEF SignupThrows, SignupIndInv
    <3> QED BY <2>1, <3>1, RegistrationAssumption DEF SignupThrows, NoSignup, SignupIndInv, SignupTypes, Tokens
  <2>2. CASE FinishSignup(s)
    <3>1. signup[s].token \in 1 .. lastToken
        BY <2>2 DEF FinishSignup, AuditThenMail, SignupIndInv, SignupTypes, ConsentFirst, Tokens
    <3>2. 0 \in Tokens
        BY RegistrationAssumption DEF SignupIndInv, SignupTypes, Tokens
    <3> QED BY <2>2, <3>1, <3>2 DEF FinishSignup, AuditThenMail, NoSignup, SignupIndInv, SignupTypes
  <2> QED BY <2>1, <2>2
<1>3. SignupTypes'
    BY <1>1, <1>2 DEF SignupIndInv, SignupTypes, Tokens
<1>4. /\ mailed' \subseteq tosAudit' /\ mailed \subseteq mailed' /\ tosAudit \subseteq tosAudit'
      /\ \A q \in Signups : /\ signup'[q].at # "idle" => signup'[q].token # 0
                            /\ signup'[q].at = "mail" => signup'[q].token \in tosAudit'
    BY DEF FinishSignup, AuditThenMail, SignupThrows, NoSignup, SignupIndInv, SignupTypes, ConsentFirst
<1>5. ConsentFirst' /\ ConsentOnRecord'
    BY <1>1, <1>4 DEF SignupIndInv, ConsentFirst, ConsentOnRecord
<1>6. OnePerLink' /\ KeyOnItsWay' /\ RowHasKey'
    BY <1>1, <1>2 DEF SignupIndInv, OnePerLink, Provisioned, KeyOnItsWay, RowHasKey
<1> QED BY <1>3, <1>5, <1>6 DEF SignupIndInv

LEMMA RepeatedClickKeeps ==
    ASSUME SignupIndInv, NEW v \in Verifiers, NEW t \in mailed, RepeatedClick(v, t)
    PROVE  SignupIndInv'
<1>1. UNCHANGED <<pendingRow, tosVersion, lastToken, signup, tosAudit, mailed, lapsed,
                   verifier, tenants, signupFaults, repeated>>
    BY DEF RepeatedClick
<1>2. PICK x \in tenants : keyMissing' = (keyMissing \/ (~x.hasKey /\ \A w \in Verifiers : verifier[w].tenant # x.id))
    BY DEF RepeatedClick
<1>3. keyMissing' \in BOOLEAN
    BY <1>2 DEF SignupIndInv, SignupTypes
<1>4. signupFaults = 0 => ~keyMissing'
    BY <1>2 DEF SignupIndInv, SignupTypes, KeyOnItsWay
<1> QED BY <1>1, <1>3, <1>4 DEF SignupIndInv, SignupTypes, Tokens, ConsentFirst, ConsentOnRecord, OnePerLink,
                                Provisioned, KeyOnItsWay, RowHasKey

LEMMA VerifyKeeps ==
    ASSUME SignupIndInv, NEW v \in Verifiers, NEW t \in mailed, verifyRegistration(v, t)
    PROVE  SignupIndInv'
<1> DEFINE stage == IF t \in lapsed THEN "expire" ELSE "tenant"
           begun == {w \in Verifiers : verifier[w].token = t /\ verifier[w].at # "expire"} # {}
                    \/ {x \in tenants : x.token = t} # {}
<1>1. /\ UNCHANGED <<pendingRow, tosVersion, lastToken, signup, tosAudit, mailed, lapsed, tenants,
                     signupFaults, keyMissing>>
      /\ verifier[v] = NoVerify
      /\ verifier' = [verifier EXCEPT ![v] = [at |-> stage, token |-> t, tos |-> pendingRow.tos, tenant |-> 0]]
      /\ repeated' = IF t \notin lapsed /\ begun THEN repeated \cup {t} ELSE repeated
      /\ (t \in lapsed \/ pendingRow.tos = tosVersion)
    BY DEF verifyRegistration
<1>2. stage \in {"expire", "tenant"} /\ (stage = "tenant" => t \notin lapsed /\ pendingRow.tos = tosVersion)
    BY <1>1
<1>3. t \in 1 .. lastToken /\ t \in Tokens
    BY DEF SignupIndInv, SignupTypes, Tokens
<1>4. /\ verifier'[v] = [at |-> stage, token |-> t, tos |-> pendingRow.tos, tenant |-> 0]
      /\ \A w \in Verifiers \ {v} : verifier'[w] = verifier[w]
      /\ verifier' \in [Verifiers -> [at : {"idle", "expire", "tenant", "key", "mark"}, token : Tokens, tos : Nat, tenant : Nat]]
    BY <1>1, <1>2, <1>3 DEF SignupIndInv, SignupTypes
<1>5. repeated' \in SUBSET (1 .. lastToken) /\ repeated \subseteq repeated'
    BY <1>1, <1>3 DEF SignupIndInv, SignupTypes
<1>6. SignupTypes'
    BY <1>1, <1>4, <1>5 DEF SignupIndInv, SignupTypes, Tokens
<1>7. ConsentFirst' /\ ConsentOnRecord' /\ RowHasKey'
  <2> HIDE DEF stage, begun
  <2>1. \A w \in Verifiers : /\ verifier'[w].at # "idle" => verifier'[w].token \in mailed
                             /\ verifier'[w].at = "tenant" => verifier'[w].tos = tosVersion
      BY <1>2, <1>4 DEF SignupIndInv, ConsentFirst
  <2> QED BY <1>1, <2>1 DEF SignupIndInv, ConsentFirst, ConsentOnRecord, RowHasKey
<1>8. KeyOnItsWay'
  <2> HIDE DEF stage, begun
  <2>1. verifier[v].at = "idle" /\ verifier'[v].at \notin {"key", "mark"}
      BY <1>1, <1>2, <1>4 DEF NoVerify
  <2> QED BY <1>1, <1>4, <2>1 DEF SignupIndInv, KeyOnItsWay
<1>9. OnePerLink'
  <2> SUFFICES ASSUME NEW u \in 1 .. lastToken, u \notin repeated' PROVE Provisioned(u)'
      BY <1>1 DEF OnePerLink
  <2>1. Provisioned(u) /\ tenants' = tenants
      BY <1>1, <1>5 DEF SignupIndInv, OnePerLink
  <2>2. CASE u = t /\ stage = "tenant"
    <3>1. /\ \A w \in Verifiers : ~(verifier[w].token = t /\ verifier[w].at # "expire")
          /\ \A x \in tenants : x.token # t
        BY <1>1, <1>2, <2>2
    <3> QED BY <1>4, <2>1, <2>2, <3>1 DEF Provisioned
  <2>3. CASE ~(u = t /\ stage = "tenant")
    <3> HIDE DEF stage, begun
    <3>1. ~(verifier'[v].at = "tenant" /\ verifier'[v].token = u)
        BY <1>4, <2>3
    <3> QED BY <1>4, <2>1, <3>1 DEF Provisioned
  <2> QED BY <2>2, <2>3
<1> QED BY <1>6, <1>7, <1>8, <1>9 DEF SignupIndInv

LEMMA CreateTenantKeeps ==
    ASSUME SignupIndInv, NEW v \in Verifiers, CreateTenant(v)
    PROVE  SignupIndInv'
<1> DEFINE id == Cardinality(tenants) + 1
           token == verifier[v].token
           new == [id |-> id, token |-> token, hasKey |-> FALSE, tos |-> verifier[v].tos, under |-> tosVersion]
<1>1. /\ UNCHANGED <<pendingRow, tosVersion, lastToken, signup, tosAudit, mailed, lapsed,
                     signupFaults, repeated, keyMissing>>
      /\ verifier[v].at = "tenant" /\ tenants' = tenants \cup {new}
      /\ verifier' = [verifier EXCEPT ![v].at = "key", ![v].tenant = id]
    BY DEF CreateTenant
<1>2. id \in Nat /\ IsFiniteSet(tenants')
  <2>1. IsFiniteSet(tenants) /\ Cardinality(tenants) \in Nat
      BY FS_CardinalityType DEF SignupIndInv, SignupTypes
  <2> HIDE DEF new
  <2>2. IsFiniteSet(tenants \cup {new})
      BY <2>1, FS_AddElement
  <2> QED BY <1>1, <2>1, <2>2
<1>3. /\ new.token = token /\ new.id = id /\ new.hasKey = FALSE /\ new.tos = verifier[v].tos /\ new.under = tosVersion
      /\ new \in [id : Nat, token : Tokens, hasKey : BOOLEAN, tos : Nat, under : Nat]
    BY <1>2, RegistrationAssumption DEF SignupIndInv, SignupTypes
<1> HIDE DEF new, id
<1>4. /\ verifier'[v].at = "key" /\ verifier'[v].token = token /\ verifier'[v].tenant = id
      /\ \A w \in Verifiers \ {v} : verifier'[w] = verifier[w]
      /\ verifier' \in [Verifiers -> [at : {"idle", "expire", "tenant", "key", "mark"}, token : Tokens, tos : Nat, tenant : Nat]]
    BY <1>1, <1>2 DEF SignupIndInv, SignupTypes
<1>5. SignupTypes'
    BY <1>1, <1>2, <1>3, <1>4 DEF SignupIndInv, SignupTypes, Tokens
<1>6. token \in mailed /\ token \in tosAudit /\ new.tos = new.under
    BY <1>1, <1>3 DEF SignupIndInv, ConsentFirst
<1>7. ConsentFirst' /\ ConsentOnRecord' /\ RowHasKey'
    BY <1>1, <1>3, <1>4, <1>6 DEF SignupIndInv, ConsentFirst, ConsentOnRecord, RowHasKey
<1>8. KeyOnItsWay'
  <2>1. new \in tenants' /\ tenants \subseteq tenants'
      BY <1>1
  <2>2. ASSUME NEW w \in Verifiers, verifier'[w].at \in {"key", "mark"}
        PROVE  \E x \in tenants' : /\ x.id = verifier'[w].tenant /\ x.token = verifier'[w].token
                                   /\ verifier'[w].at = "mark" => x.hasKey
    <3>1. CASE w = v
        BY <1>3, <1>4, <2>1, <3>1
    <3>2. CASE w # v
        BY <1>4, <2>1, <2>2, <3>2 DEF SignupIndInv, KeyOnItsWay
    <3> QED BY <3>1, <3>2
  <2>3. ASSUME signupFaults = 0, NEW x \in tenants'
        PROVE  x.hasKey \/ \E w \in Verifiers : verifier'[w].at = "key" /\ verifier'[w].tenant = x.id
    <3>1. CASE x = new
        BY <1>3, <1>4, <3>1
    <3>2. CASE x \in tenants /\ ~x.hasKey
      <4>1. PICK w \in Verifiers : verifier[w].at = "key" /\ verifier[w].tenant = x.id
          BY <2>3, <3>2 DEF SignupIndInv, KeyOnItsWay
      <4>2. w # v
          BY <1>1, <4>1
      <4> QED BY <1>4, <4>1, <4>2
    <3> QED BY <1>1, <3>1, <3>2
  <2> QED BY <1>1, <2>2, <2>3 DEF KeyOnItsWay, SignupIndInv
<1>9. OnePerLink'
  <2> SUFFICES ASSUME NEW t \in 1 .. lastToken, t \notin repeated PROVE Provisioned(t)'
      BY <1>1 DEF OnePerLink
  <2>1. Provisioned(t)
      BY DEF SignupIndInv, OnePerLink
  <2>2. ~(verifier'[v].at = "tenant" /\ verifier'[v].token = t)
      BY <1>4
  <2>3. CASE t = token
    <3>1. /\ \A x \in tenants : x.token # t
          /\ \A w \in Verifiers \ {v} : ~(verifier[w].at = "tenant" /\ verifier[w].token = t)
        BY <1>1, <2>1, <2>3 DEF Provisioned
    <3> QED BY <1>1, <1>3, <1>4, <2>2, <3>1 DEF Provisioned
  <2>4. CASE t # token
    <3>1. new.token # t
        BY <1>3, <2>4
    <3> QED BY <1>1, <1>4, <2>1, <2>2, <3>1 DEF Provisioned
  <2> QED BY <2>3, <2>4
<1> QED BY <1>5, <1>7, <1>8, <1>9 DEF SignupIndInv

LEMMA CreateApiKeyKeeps ==
    ASSUME SignupIndInv, NEW v \in Verifiers, CreateApiKey(v)
    PROVE  SignupIndInv'
<1> DEFINE Keyed(x) == [x EXCEPT !.hasKey = @ \/ x.id = verifier[v].tenant]
           TenantRows == [id : Nat, token : Tokens, hasKey : BOOLEAN, tos : Nat, under : Nat]
<1>1. /\ UNCHANGED <<pendingRow, tosVersion, lastToken, signup, tosAudit, mailed, lapsed,
                     signupFaults, repeated, keyMissing>>
      /\ verifier[v].at = "key" /\ tenants' = {Keyed(x) : x \in tenants}
      /\ verifier' = [verifier EXCEPT ![v].at = "mark"]
    BY DEF CreateApiKey
<1>2. \A x \in TenantRows :
        /\ Keyed(x) \in TenantRows /\ Keyed(x).id = x.id /\ Keyed(x).token = x.token
        /\ Keyed(x).tos = x.tos /\ Keyed(x).under = x.under
        /\ Keyed(x).hasKey <=> (x.hasKey \/ x.id = verifier[v].tenant)
    OBVIOUS
<1> HIDE DEF Keyed
<1>3. tenants \in SUBSET TenantRows /\ tenants' \in SUBSET TenantRows /\ IsFiniteSet(tenants')
  <2>1. tenants \in SUBSET TenantRows /\ IsFiniteSet(tenants)
      BY DEF SignupIndInv, SignupTypes
  <2>2. [x \in tenants |-> Keyed(x)] \in Surjection(tenants, tenants')
      BY <1>1 DEF Surjection
  <2>3. IsFiniteSet(tenants')
      BY <2>1, <2>2, FS_Surjection
  <2> QED BY <1>1, <1>2, <2>1, <2>3
<1>4. /\ \A x \in tenants : \E y \in tenants' : /\ y.id = x.id /\ y.token = x.token
                                                /\ y.hasKey <=> (x.hasKey \/ x.id = verifier[v].tenant)
      /\ \A y \in tenants' : \E x \in tenants : y = Keyed(x) /\ y.id = x.id /\ y.token = x.token
                                                /\ y.tos = x.tos /\ y.under = x.under
                                                /\ (y.hasKey <=> (x.hasKey \/ x.id = verifier[v].tenant))
    BY <1>1, <1>2, <1>3
<1>5. /\ verifier'[v].at = "mark" /\ verifier'[v].token = verifier[v].token /\ verifier'[v].tenant = verifier[v].tenant
      /\ \A w \in Verifiers \ {v} : verifier'[w] = verifier[w]
      /\ verifier' \in [Verifiers -> [at : {"idle", "expire", "tenant", "key", "mark"}, token : Tokens, tos : Nat, tenant : Nat]]
    BY <1>1 DEF SignupIndInv, SignupTypes
<1> HIDE DEF TenantRows
<1>6. SignupTypes'
    BY <1>1, <1>3, <1>5 DEF SignupIndInv, SignupTypes, Tokens, TenantRows
<1>7. ConsentFirst' /\ ConsentOnRecord'
  <2>1. ConsentFirst'
    <3>1. \A w \in Verifiers : /\ verifier'[w].at # "idle" => verifier'[w].token \in mailed
                               /\ verifier'[w].at = "tenant" => verifier'[w].tos = tosVersion
        BY <1>1, <1>5 DEF SignupIndInv, ConsentFirst
    <3> QED BY <1>1, <3>1 DEF SignupIndInv, ConsentFirst
  <2>2. ConsentOnRecord'
    <3> SUFFICES ASSUME NEW y \in tenants' PROVE y.token \in tosAudit /\ y.tos = y.under
        BY <1>1 DEF ConsentOnRecord
    <3>1. PICK x \in tenants : y.token = x.token /\ y.tos = x.tos /\ y.under = x.under
        BY <1>4
    <3> QED BY <3>1 DEF SignupIndInv, ConsentOnRecord
  <2> QED BY <2>1, <2>2
<1>8. RowHasKey'
    BY <1>1, <1>4 DEF SignupIndInv, RowHasKey
<1>9. KeyOnItsWay'
  <2>1. ASSUME NEW w \in Verifiers, verifier'[w].at \in {"key", "mark"}
        PROVE  \E x \in tenants' : /\ x.id = verifier'[w].tenant /\ x.token = verifier'[w].token
                                   /\ verifier'[w].at = "mark" => x.hasKey
    <3>1. PICK x \in tenants : /\ x.id = verifier[w].tenant /\ x.token = verifier[w].token
                               /\ verifier[w].at = "mark" => x.hasKey
        BY <1>1, <1>5, <2>1 DEF SignupIndInv, KeyOnItsWay
    <3>2. PICK y \in tenants' : /\ y.id = x.id /\ y.token = x.token
                                /\ y.hasKey <=> (x.hasKey \/ x.id = verifier[v].tenant)
        BY <1>4
    <3> QED BY <1>5, <3>1, <3>2
  <2>2. ASSUME signupFaults = 0, NEW y \in tenants', ~y.hasKey
        PROVE  \E w \in Verifiers : verifier'[w].at = "key" /\ verifier'[w].tenant = y.id
    <3>1. PICK x \in tenants : y.id = x.id /\ ~x.hasKey /\ x.id # verifier[v].tenant
        BY <1>4, <2>2
    <3>2. PICK w \in Verifiers : verifier[w].at = "key" /\ verifier[w].tenant = x.id
        BY <2>2, <3>1 DEF SignupIndInv, KeyOnItsWay
    <3>3. w # v
        BY <3>1, <3>2
    <3> QED BY <1>5, <3>1, <3>2, <3>3
  <2> QED BY <1>1, <2>1, <2>2 DEF KeyOnItsWay, SignupIndInv
<1>10. OnePerLink'
  <2> SUFFICES ASSUME NEW t \in 1 .. lastToken, t \notin repeated PROVE Provisioned(t)'
      BY <1>1 DEF OnePerLink
  <2>1. Provisioned(t)
      BY DEF SignupIndInv, OnePerLink
  <2>2. \A w \in Verifiers : verifier'[w].at = "tenant" => verifier[w].at = "tenant" /\ verifier'[w].token = verifier[w].token
      BY <1>5
  <2>3. \A y, z \in tenants' : y.token = t /\ z.token = t => y = z
      BY <1>4, <2>1 DEF Provisioned
  <2>4. (\A x \in tenants : x.token # t) => \A y \in tenants' : y.token # t
      BY <1>4
  <2> QED BY <2>1, <2>2, <2>3, <2>4 DEF Provisioned
<1> QED BY <1>6, <1>7, <1>8, <1>9, <1>10 DEF SignupIndInv

\* A verification that is over, or was cut off by a fault, leaves the tenants.
LEMMA VerifierStops ==
    ASSUME SignupIndInv, NEW v \in Verifiers, verifier' = [verifier EXCEPT ![v] = NoVerify],
           UNCHANGED <<tosVersion, lastToken, signup, tosAudit, mailed, lapsed, tenants, repeated, keyMissing>>,
           signupFaults' \in 0 .. MaxSignupFaults,
           signupFaults' = 0 => signupFaults = 0 /\ verifier[v].at # "key",
           pendingRow' \in [token : Tokens, status : {"none", "pending", "verified", "expired"}, tos : Nat],
           RowHasKey'
    PROVE  SignupIndInv'
<1>1. /\ verifier'[v] = NoVerify /\ \A w \in Verifiers \ {v} : verifier'[w] = verifier[w]
      /\ verifier' \in [Verifiers -> [at : {"idle", "expire", "tenant", "key", "mark"}, token : Tokens, tos : Nat, tenant : Nat]]
    BY RegistrationAssumption DEF SignupIndInv, SignupTypes, NoVerify, Tokens
<1>2. SignupTypes'
    BY <1>1 DEF SignupIndInv, SignupTypes, Tokens
<1>3. NoVerify.at = "idle"
    BY DEF NoVerify
<1>4. ConsentFirst' /\ ConsentOnRecord'
    BY <1>1, <1>3 DEF SignupIndInv, ConsentFirst, ConsentOnRecord
<1>5. OnePerLink'
    BY <1>1, <1>3 DEF SignupIndInv, OnePerLink, Provisioned
<1>6. KeyOnItsWay'
  <2>1. \A w \in Verifiers : verifier'[w].at \in {"key", "mark"} => verifier'[w] = verifier[w]
      BY <1>1, <1>3
  <2>2. signupFaults' = 0 => \A w \in Verifiers : verifier[w].at = "key" => verifier'[w] = verifier[w]
      BY <1>1
  <2> QED BY <2>1, <2>2 DEF SignupIndInv, KeyOnItsWay
<1> QED BY <1>2, <1>4, <1>5, <1>6 DEF SignupIndInv

LEMMA MarkRowKeeps ==
    ASSUME SignupIndInv, NEW v \in Verifiers, MarkRow(v)
    PROVE  SignupIndInv'
<1>1. pendingRow' \in [token : Tokens, status : {"none", "pending", "verified", "expired"}, tos : Nat]
    BY DEF MarkRow, SignupIndInv, SignupTypes
<1>2. RowHasKey'
  <2>1. CASE pendingRow.token # verifier[v].token \/ verifier[v].at = "expire"
      BY <2>1 DEF MarkRow, SignupIndInv, SignupTypes, RowHasKey
  <2>2. CASE pendingRow.token = verifier[v].token /\ verifier[v].at = "mark"
    <3>1. \E x \in tenants : x.token = verifier[v].token /\ x.hasKey
        BY <2>2 DEF SignupIndInv, KeyOnItsWay
    <3>2. pendingRow'.token = verifier[v].token /\ tenants' = tenants
        BY <2>2 DEF MarkRow, SignupIndInv, SignupTypes
    <3> QED BY <3>1, <3>2 DEF RowHasKey
  <2> QED BY <2>1, <2>2 DEF MarkRow
<1>3. /\ verifier' = [verifier EXCEPT ![v] = NoVerify] /\ verifier[v].at # "key"
      /\ UNCHANGED <<tosVersion, lastToken, signup, tosAudit, mailed, lapsed, tenants, repeated, keyMissing, signupFaults>>
    BY DEF MarkRow
<1> QED BY <1>1, <1>2, <1>3, VerifierStops DEF SignupIndInv, SignupTypes

LEMMA VerifyThrowsKeeps ==
    ASSUME SignupIndInv, NEW v \in Verifiers, VerifyThrows(v)
    PROVE  SignupIndInv'
<1>1. /\ verifier' = [verifier EXCEPT ![v] = NoVerify]
      /\ UNCHANGED <<pendingRow, tosVersion, lastToken, signup, tosAudit, mailed, lapsed, tenants, repeated, keyMissing>>
    BY DEF VerifyThrows
<1>2. signupFaults' \in 0 .. MaxSignupFaults /\ signupFaults' # 0
    BY SignupFaultCounted DEF VerifyThrows, SignupIndInv
<1>3. RowHasKey'
    BY <1>1 DEF SignupIndInv, RowHasKey
<1>4. pendingRow' \in [token : Tokens, status : {"none", "pending", "verified", "expired"}, tos : Nat]
    BY <1>1 DEF SignupIndInv, SignupTypes
<1> QED BY <1>1, <1>2, <1>3, <1>4, VerifierStops

LEMMA DeployKeeps ==
    ASSUME SignupIndInv, Deploy
    PROVE  SignupIndInv'
<1>1. /\ tosVersion' \in 1 .. MaxTosVersion /\ signup' = [s \in Signups |-> NoSignup]
      /\ verifier' = [v \in Verifiers |-> NoVerify]
      /\ UNCHANGED <<pendingRow, lastToken, tosAudit, mailed, lapsed, tenants, repeated, keyMissing>>
    BY DEF Deploy
<1>2. signupFaults' \in 0 .. MaxSignupFaults /\ signupFaults' # 0
    BY SignupFaultCounted DEF Deploy, SignupIndInv
<1>3. 0 \in Tokens
    BY RegistrationAssumption DEF SignupIndInv, SignupTypes, Tokens
<1>4. SignupTypes'
    BY <1>1, <1>2, <1>3 DEF SignupIndInv, SignupTypes, Tokens, NoSignup, NoVerify
<1>5. ConsentFirst' /\ ConsentOnRecord' /\ KeyOnItsWay' /\ RowHasKey'
    BY <1>1, <1>2 DEF SignupIndInv, ConsentFirst, ConsentOnRecord, KeyOnItsWay, RowHasKey, NoSignup, NoVerify
<1>6. OnePerLink'
    BY <1>1 DEF SignupIndInv, OnePerLink, Provisioned, NoVerify
<1> QED BY <1>4, <1>5, <1>6 DEF SignupIndInv

\* Sign-up provisions on a recorded consent to the terms in force, one tenant per
\* link, and marks a registration verified with its key made (SignupInv:
\* createRegistration and verifyRegistration of registrationService.ts).
LEMMA SignupIsSound == SignupSpec => []SignupInv
<1>1. SignupInit => SignupIndInv
  <2> SUFFICES ASSUME SignupInit PROVE SignupIndInv
      OBVIOUS
  <2>1. SignupTypes
    <3>1. IsFiniteSet(tenants)
        BY FS_EmptySet DEF SignupInit
    <3>2. 0 \in 0 .. MaxToken /\ 1 \in 1 .. MaxTosVersion /\ 0 \in 0 .. MaxSignupFaults /\ 0 \in 0 .. 0
        BY RegistrationAssumption
    <3> QED BY <3>1, <3>2 DEF SignupInit, SignupTypes, Tokens, NoRegistration, NoSignup, NoVerify
  <2>2. ConsentFirst /\ ConsentOnRecord /\ KeyOnItsWay /\ RowHasKey
      BY DEF SignupInit, ConsentFirst, ConsentOnRecord, KeyOnItsWay, RowHasKey, NoRegistration, NoSignup, NoVerify
  <2>3. OnePerLink
      BY DEF SignupInit, OnePerLink
  <2> QED BY <2>1, <2>2, <2>3 DEF SignupIndInv
<1>2. SignupIndInv /\ [SignupNext]_signupVars => SignupIndInv'
  <2> SUFFICES ASSUME SignupIndInv, [SignupNext]_signupVars PROVE SignupIndInv'
      OBVIOUS
  <2>1. CASE TokenLapses \/ UNCHANGED signupVars
    <3>1. UNCHANGED <<pendingRow, tosVersion, lastToken, signup, tosAudit, mailed, verifier,
                      tenants, signupFaults, repeated, keyMissing>>
        BY <2>1 DEF TokenLapses, signupVars
    <3> QED BY <3>1 DEF SignupIndInv, SignupTypes, Tokens, ConsentFirst, ConsentOnRecord, OnePerLink,
                        Provisioned, KeyOnItsWay, RowHasKey
  <2> QED BY <2>1, CreateRegistrationKeeps, FinishSignupKeeps, RepeatedClickKeeps, VerifyKeeps, CreateTenantKeeps,
             CreateApiKeyKeeps, MarkRowKeeps, VerifyThrowsKeeps, DeployKeeps DEF SignupNext
<1>3. SignupIndInv => SignupInv
  <2> SUFFICES ASSUME SignupIndInv PROVE SignupInv
      OBVIOUS
  <2>1. SignupTypeOK
      BY DEF SignupIndInv, SignupTypes, SignupTypeOK, Tokens
  <2>2. OneTenantPerLink
    <3> SUFFICES ASSUME NEW t \in 1 .. lastToken, t \notin repeated
                 PROVE  ~(Cardinality({x \in tenants : x.token = t}) > 1)
        BY DEF OneTenantPerLink
    <3> DEFINE of == {x \in tenants : x.token = t}
    <3>1. \A x, y \in of : x = y
        BY DEF SignupIndInv, OnePerLink, Provisioned
    <3>2. of = {} \/ \E x \in of : of = {x}
        BY <3>1
    <3>3. Cardinality(of) = 0 \/ Cardinality(of) = 1
        BY <3>2, FS_EmptySet, FS_Singleton
    <3> QED BY <3>3
  <2>3. VerifiedHasKey
      BY RegistrationAssumption DEF SignupIndInv, SignupTypes, KeyOnItsWay, RowHasKey, VerifiedHasKey
  <2> QED BY <2>1, <2>2, <2>3 DEF SignupIndInv, SignupInv
<1> QED BY <1>1, <1>2, <1>3, PTL DEF SignupSpec
-----------------------------------------------------------------------------
(* API keys, the sandbox and paid top-ups *)

RedisCommands == {"set", "del"} \cup AuthRequests
AuthTypes ==
    /\ keyRow \in {"unborn", "active", "revoked", "erased"}
    /\ cacheLeft \in 0 .. CacheTtl /\ keyMemory \in SUBSET AuthReplicas
    /\ redisCmds \in [AuthReplicas -> Seq(RedisCommands)]
    /\ \A r \in AuthReplicas : Len(redisCmds[r]) <= MaxRedisCmds

\* How far the requests are; a process is recorded from apiKeyMiddleware on.
AuthStages == {"idle", "cache", "db", "found", "denied", "missing", "accepted", "rejected"}
AuthStates == [at : AuthStages] \cup [at : AuthStages, by : AuthReplicas]
AuthStateOK == auth \in [AuthRequests -> AuthStates]
NoRowHeld == \A q \in AuthRequests : auth[q].at # "found"

LEMMA RequestsMoveOn ==
    ASSUME AuthStateOK, [AuthNext]_authVars
    PROVE  AuthStateOK' /\ (keyRow \in {"revoked", "erased"} /\ NoRowHeld => NoRowHeld')
<1> USE DEF AuthStages
<1>1. ASSUME NEW q \in AuthRequests, NEW st \in AuthStages, auth' = [auth EXCEPT ![q].at = st]
      PROVE  AuthStateOK' /\ (st # "found" /\ NoRowHeld => NoRowHeld')
  <2>1. auth[q] \in AuthStates
      BY DEF AuthStateOK
  <2>2. [auth[q] EXCEPT !.at = st] \in AuthStates /\ [auth[q] EXCEPT !.at = st].at = st
    <3>1. CASE auth[q] \in [at : AuthStages]
        BY <3>1 DEF AuthStates
    <3>2. CASE auth[q] \in [at : AuthStages, by : AuthReplicas]
        BY <3>2 DEF AuthStates
    <3> QED BY <2>1, <3>1, <3>2 DEF AuthStates
  <2> DEFINE s == [auth[q] EXCEPT !.at = st]
  <2>3. auth' = [auth EXCEPT ![q] = s]
      BY <1>1
  <2>4. s \in AuthStates /\ s.at = st
      BY <2>2
  <2> HIDE DEF s
  <2> QED BY <2>3, <2>4 DEF AuthStateOK, NoRowHeld
<1>2. ASSUME NEW q \in AuthRequests, NEW s \in AuthStates, auth' = [auth EXCEPT ![q] = s]
      PROVE  AuthStateOK' /\ (s.at # "found" /\ NoRowHeld => NoRowHeld')
    BY <1>2 DEF AuthStateOK, NoRowHeld
<1>3. ASSUME NEW q \in AuthRequests, NEW v \in {"accepted", "rejected"}, auth' = [auth EXCEPT ![q] = [at |-> v]]
      PROVE  AuthStateOK' /\ (NoRowHeld => NoRowHeld')
  <2>1. [at |-> v] \in AuthStates /\ [at |-> v].at # "found"
      BY DEF AuthStates
  <2> QED BY <1>2, <1>3, <2>1
<1>4. ASSUME auth' = auth PROVE AuthStateOK' /\ (NoRowHeld => NoRowHeld')
    BY <1>4 DEF AuthStateOK, NoRowHeld
<1>5. CASE \E q \in AuthRequests : ReadDb(q)
    BY <1>5, <1>1 DEF ReadDb, RowSeen, RowActive
<1>6. CASE \E q \in AuthRequests : ActOnRow(q)
    BY <1>6, <1>3 DEF ActOnRow, Decided
<1>7. ASSUME NEW q \in AuthRequests, NEW r \in AuthReplicas, apiKeyMiddleware(q, r)
      PROVE AuthStateOK' /\ (NoRowHeld => NoRowHeld')
  <2>1. /\ [at |-> "cache", by |-> r] \in AuthStates
        /\ [at |-> "cache", by |-> r].at # "found"
      BY DEF AuthStates
  <2>2. auth' = [auth EXCEPT ![q] = [at |-> "cache", by |-> r]]
      BY <1>7 DEF apiKeyMiddleware
  <2> QED BY <1>2, <2>1, <2>2
<1>8. ASSUME NEW r \in AuthReplicas, Redis(r) PROVE AuthStateOK' /\ (NoRowHeld => NoRowHeld')
  <2> DEFINE c == Head(redisCmds[r])
  <2>1. \/ auth' = auth
        \/ c \in AuthRequests /\ auth' = [auth EXCEPT ![c] = [at |-> "accepted"]]
        \/ c \in AuthRequests /\ auth' = [auth EXCEPT ![c].at = "db"]
      BY <1>8 DEF Redis
  <2> HIDE DEF c
  <2> QED BY <2>1, <1>1, <1>3, <1>4
<1>9. CASE \/ CreateKey \/ CacheAges \/ UNCHANGED authVars
           \/ \E r \in AuthReplicas : upsertApiKey(r) \/ RevokeRow(r) \/ RevokeForget(r)
                                        \/ EraseRead(r) \/ EraseRows(r) \/ EraseForget(r)
  <2>1. auth' = auth
      BY <1>9 DEF CreateKey, CacheAges, authVars, upsertApiKey, RevokeRow, RevokeForget, EraseRead,
                  EraseRows, EraseForget
  <2> QED BY <2>1, <1>4
<1> QED BY <1>5, <1>6, <1>7, <1>8, <1>9 DEF AuthNext

NoSetUnderWay == \A r \in AuthReplicas : \A i \in DOMAIN redisCmds[r] : redisCmds[r][i] # "set"

LEMMA SendingKeepsTypes ==
    ASSUME AuthTypes, NEW r, NEW cmds \in Seq(RedisCommands), Sends(r, cmds)
    PROVE  /\ redisCmds' \in [AuthReplicas -> Seq(RedisCommands)]
           /\ \A p \in AuthReplicas : Len(redisCmds'[p]) <= MaxRedisCmds
           /\ NoSetUnderWay /\ (\A i \in DOMAIN cmds : cmds[i] # "set") => NoSetUnderWay'
<1>1. CASE r \notin AuthReplicas
  <2>1. redisCmds' = redisCmds
      BY <1>1 DEF Sends, AuthTypes
  <2> QED BY <2>1 DEF AuthTypes, NoSetUnderWay
<1>2. CASE r \in AuthReplicas
  <2> DEFINE s == redisCmds[r]
             t == s \o cmds
  <2>1. s \in Seq(RedisCommands) /\ Len(s) + Len(cmds) <= MaxRedisCmds
      BY <1>2 DEF Sends, AuthTypes
  <2>2. /\ t \in Seq(RedisCommands) /\ Len(t) = Len(s) + Len(cmds)
        /\ \A i \in DOMAIN t : (i \in DOMAIN s /\ t[i] = s[i]) \/ \E j \in DOMAIN cmds : t[i] = cmds[j]
    <3> HIDE DEF s
    <3> QED BY <2>1
  <2>3. redisCmds' = [redisCmds EXCEPT ![r] = t]
      BY DEF Sends
  <2> HIDE DEF t
  <2>4. redisCmds'[r] = t /\ \A p \in AuthReplicas \ {r} : redisCmds'[p] = redisCmds[p]
      BY <1>2, <2>3 DEF AuthTypes
  <2>5. redisCmds' \in [AuthReplicas -> Seq(RedisCommands)]
      BY <2>2, <2>3 DEF AuthTypes
  <2>6. \A p \in AuthReplicas : Len(redisCmds'[p]) <= MaxRedisCmds
      BY <2>1, <2>2, <2>4 DEF AuthTypes
  <2>7. NoSetUnderWay /\ (\A i \in DOMAIN cmds : cmds[i] # "set") => NoSetUnderWay'
      BY <1>2, <2>2, <2>4 DEF NoSetUnderWay
  <2> QED BY <2>5, <2>6, <2>7
<1> QED BY <1>1, <1>2

LEMMA AnsweringKeepsTypes ==
    ASSUME AuthTypes, NEW r \in AuthReplicas, redisCmds[r] # <<>>,
           redisCmds' = [redisCmds EXCEPT ![r] = Tail(@)]
    PROVE  /\ redisCmds' \in [AuthReplicas -> Seq(RedisCommands)]
           /\ \A p \in AuthReplicas : Len(redisCmds'[p]) <= MaxRedisCmds
           /\ NoSetUnderWay => NoSetUnderWay' /\ Head(redisCmds[r]) # "set"
<1> DEFINE s == redisCmds[r]
           t == Tail(s)
<1>1. s \in Seq(RedisCommands) /\ s # <<>> /\ Len(s) <= MaxRedisCmds
    BY DEF AuthTypes
<1>2. /\ t \in Seq(RedisCommands) /\ Len(t) = Len(s) - 1 /\ Len(s) \in Nat /\ Len(s) > 0
      /\ \A i \in DOMAIN t : i + 1 \in DOMAIN s /\ t[i] = s[i + 1]
      /\ 1 \in DOMAIN s /\ Head(s) = s[1]
  <2> HIDE DEF s
  <2> QED BY <1>1
<1>3. redisCmds' = [redisCmds EXCEPT ![r] = t]
    OBVIOUS
<1> HIDE DEF t
<1>4. redisCmds'[r] = t /\ \A p \in AuthReplicas \ {r} : redisCmds'[p] = redisCmds[p]
    BY <1>3 DEF AuthTypes
<1>5. redisCmds' \in [AuthReplicas -> Seq(RedisCommands)]
    BY <1>2, <1>3 DEF AuthTypes
<1>6. \A p \in AuthReplicas : Len(redisCmds'[p]) <= MaxRedisCmds
    BY <1>1, <1>2, <1>4, ApiKeyAssumption DEF AuthTypes
<1>7. NoSetUnderWay => NoSetUnderWay' /\ Head(redisCmds[r]) # "set"
    BY <1>2, <1>4 DEF NoSetUnderWay
<1> QED BY <1>5, <1>6, <1>7

LEMMA AuthTypesKept ==
    ASSUME AuthTypes, [AuthNext]_authVars
    PROVE  AuthTypes'
<1>0. /\ <<"set">> \in Seq(RedisCommands) /\ <<"del">> \in Seq(RedisCommands)
      /\ <<"del", "del">> \in Seq(RedisCommands)
      /\ \A q \in AuthRequests : <<q>> \in Seq(RedisCommands)
      /\ << >> \in Seq(RedisCommands)
    BY DEF RedisCommands
<1>1. CASE CreateKey
    BY <1>1 DEF CreateKey, AuthTypes
<1>2. CASE CacheAges
    BY <1>2, ApiKeyAssumption DEF CacheAges, AuthTypes
<1>3. ASSUME NEW q \in AuthRequests, ReadDb(q) PROVE AuthTypes'
    BY <1>3 DEF ReadDb, AuthTypes
<1>12. ASSUME NEW q \in AuthRequests, ActOnRow(q) PROVE AuthTypes'
  <2>1. Sends(auth[q].by, <<"set">>) \/ Sends(auth[q].by, << >>)
      BY <1>12 DEF ActOnRow, Decided
  <2> QED BY <1>0, <1>12, <2>1, SendingKeepsTypes DEF ActOnRow, AuthTypes
<1>4. ASSUME NEW q \in AuthRequests, NEW r \in AuthReplicas, apiKeyMiddleware(q, r) PROVE AuthTypes'
    BY <1>0, <1>4, SendingKeepsTypes DEF apiKeyMiddleware, AuthTypes
<1>5. ASSUME NEW r \in AuthReplicas, Redis(r) PROVE AuthTypes'
  <2>1. /\ redisCmds' \in [AuthReplicas -> Seq(RedisCommands)]
        /\ \A p \in AuthReplicas : Len(redisCmds'[p]) <= MaxRedisCmds
      BY <1>5, AnsweringKeepsTypes DEF Redis
  <2>2. cacheLeft' \in 0 .. CacheTtl
      BY <1>5, ApiKeyAssumption DEF Redis, LifeAfterGet, AuthTypes
  <2> QED BY <1>5, <2>1, <2>2 DEF Redis, AuthTypes
<1>6. ASSUME NEW r \in AuthReplicas, upsertApiKey(r) PROVE AuthTypes'
    BY <1>0, <1>6, SendingKeepsTypes DEF upsertApiKey, AuthTypes
<1>7. ASSUME NEW r \in AuthReplicas, RevokeRow(r) PROVE AuthTypes'
    BY <1>7 DEF RevokeRow, AuthTypes
<1>8. ASSUME NEW r \in AuthReplicas, RevokeForget(r) PROVE AuthTypes'
    BY <1>0, <1>8, SendingKeepsTypes DEF RevokeForget, AuthTypes
<1>9. ASSUME NEW r \in AuthReplicas, EraseRead(r) \/ EraseRows(r) PROVE AuthTypes'
    BY <1>9 DEF EraseRead, EraseRows, AuthTypes
<1>10. ASSUME NEW r \in AuthReplicas, EraseForget(r) PROVE AuthTypes'
    BY <1>0, <1>10, SendingKeepsTypes DEF EraseForget, AuthTypes
<1>11. CASE UNCHANGED authVars
    BY <1>11 DEF authVars, AuthTypes
<1> QED BY <1>1, <1>2, <1>3, <1>4, <1>5, <1>6, <1>7, <1>8, <1>9, <1>10, <1>11, <1>12 DEF AuthNext

LEMMA AuthTypesHold == AuthSpec => [](AuthTypes /\ AuthStateOK)
<1>1. AuthInit => AuthTypes
  <2>1. << >> \in Seq(RedisCommands) /\ Len(<< >>) = 0
      OBVIOUS
  <2> QED BY <2>1, ApiKeyAssumption DEF AuthInit, AuthTypes
<1>2. AuthInit => AuthStateOK
    BY DEF AuthInit, AuthStateOK, AuthStates, AuthStages, NoAuth
<1> QED BY <1>1, <1>2, AuthTypesKept, RequestsMoveOn, PTL DEF AuthSpec

\* A key that is forgotten everywhere stays out whatever fails afterwards, until an
\* administrator registers it anew; it is not forgotten while a request holds the
\* active row it read before (ForgottenStaysOut, the safety half of
\* RevocationSound: apiKeys.ts, revokeApiKeyHandler, requestTenantErasure).
THEOREM ForgottenKeysStayOut == AuthSpec => ForgottenStaysOut
<1>1. ASSUME AuthTypes, AuthStateOK, AuthNext, Forgotten
      PROVE  Forgotten' \/ \E r \in AuthReplicas : upsertApiKey(r)
  <2>0. /\ keyRow \in {"revoked", "erased"} /\ keyMemory = {} /\ cacheLeft = 0 /\ NoSetUnderWay
        /\ NoRowHeld
      BY <1>1 DEF Forgotten, NoSetUnderWay, NoRowHeld
  <2>1. /\ << >> \in Seq(RedisCommands) /\ (\A i \in DOMAIN << >> : << >>[i] # "set")
        /\ <<"del">> \in Seq(RedisCommands) /\ (\A i \in DOMAIN <<"del">> : <<"del">>[i] # "set")
        /\ <<"del", "del">> \in Seq(RedisCommands) /\ (\A i \in DOMAIN <<"del", "del">> : <<"del", "del">>[i] # "set")
        /\ \A q \in AuthRequests : <<q>> \in Seq(RedisCommands) /\ (\A i \in DOMAIN <<q>> : <<q>>[i] # "set")
      BY ApiKeyAssumption DEF RedisCommands
  <2>2. ASSUME keyRow' \in {"revoked", "erased"}, keyMemory' = {}, cacheLeft' = 0, NoSetUnderWay' PROVE Forgotten'
    <3>1. NoRowHeld'
        BY <1>1, <2>0, RequestsMoveOn
    <3> QED BY <2>2, <3>1 DEF Forgotten, NoSetUnderWay, NoRowHeld
  <2>9. ASSUME NEW q \in AuthRequests, ReadDb(q) PROVE Forgotten'
    <3>1. UNCHANGED <<keyRow, keyMemory, cacheLeft, redisCmds>>
        BY <2>9 DEF ReadDb
    <3>2. NoSetUnderWay'
        BY <2>0, <3>1 DEF NoSetUnderWay
    <3> QED BY <2>0, <2>2, <3>1, <3>2
  <2>3. ASSUME NEW q \in AuthRequests, ActOnRow(q) PROVE Forgotten'
    <3>1. Sends(auth[q].by, << >>) /\ UNCHANGED <<keyRow, keyMemory, cacheLeft>>
        BY <2>0, <2>3 DEF ActOnRow, Decided, NoRowHeld
    <3> QED BY <1>1, <2>0, <2>1, <2>2, <3>1, SendingKeepsTypes
  <2>4. ASSUME NEW q \in AuthRequests, NEW r \in AuthReplicas, apiKeyMiddleware(q, r) PROVE Forgotten'
    <3>1. Sends(r, <<q>>) /\ UNCHANGED <<keyRow, keyMemory, cacheLeft>>
        BY <2>4 DEF apiKeyMiddleware
    <3> QED BY <1>1, <2>0, <2>1, <2>2, <3>1, SendingKeepsTypes
  <2>5. ASSUME NEW r \in AuthReplicas, Redis(r) PROVE Forgotten'
    <3>1. NoSetUnderWay' /\ Head(redisCmds[r]) # "set"
        BY <1>1, <2>0, <2>5, AnsweringKeepsTypes DEF Redis
    <3>2. cacheLeft' = 0 /\ UNCHANGED <<keyRow, keyMemory>>
        BY <2>0, <2>5, <3>1 DEF Redis, LifeAfterGet
    <3> QED BY <2>0, <2>2, <3>1, <3>2
  <2>6. ASSUME NEW r \in AuthReplicas, RevokeRow(r) \/ EraseRead(r) \/ EraseRows(r) PROVE Forgotten'
    <3>1. keyRow' \in {"revoked", "erased"} /\ UNCHANGED <<cacheLeft, keyMemory, redisCmds>>
        BY <2>0, <2>6 DEF RevokeRow, EraseRead, EraseRows
    <3>2. NoSetUnderWay'
        BY <2>0, <3>1 DEF NoSetUnderWay
    <3> QED BY <2>0, <2>2, <3>1, <3>2
  <2>7. ASSUME NEW r \in AuthReplicas, RevokeForget(r) \/ EraseForget(r) PROVE Forgotten'
    <3>1. UNCHANGED <<keyRow, cacheLeft>> /\ keyMemory' = {}
        BY <2>0, <2>7 DEF RevokeForget, EraseForget
    <3>2. Sends(r, <<"del", "del">>) \/ Sends(r, <<"del">>) \/ redisCmds' = redisCmds
        BY <2>7 DEF RevokeForget, EraseForget
    <3>3. NoSetUnderWay'
        BY <1>1, <2>0, <2>1, <3>2, SendingKeepsTypes DEF NoSetUnderWay
    <3> QED BY <2>0, <2>2, <3>1, <3>3
  <2>8. ~CreateKey /\ ~CacheAges
      BY <2>0, ApiKeyAssumption DEF CreateKey, CacheAges
  <2> QED BY <1>1, <2>3, <2>4, <2>5, <2>6, <2>7, <2>8, <2>9 DEF AuthNext
<1>2. AuthSpec => [][AuthNext]_authVars
    BY PTL DEF AuthSpec
<1> QED BY <1>1, <1>2, AuthTypesHold, PTL DEF ForgottenStaysOut
-----------------------------------------------------------------------------
SbxTypes ==
    /\ sbxCount \in 0 .. MaxSbxCount /\ sbxTtl \in {Never} \cup 1 .. sbxWindow
    /\ sbxReq \in [SbxRequests -> {"idle", "expire", "ttl"}]
    /\ sbxUsage \in [count : 0 .. SANDBOX_RATE_LIMIT_MAX, left : 0 .. sbxWindow]

\* The fallback window never counts beyond the limit (SbxTypeOK: sandboxGuard.ts).
LEMMA SandboxTypeCorrect == SbxSpec => []SbxTypeOK
<1>1. SbxInit => SbxTypes
    BY SandboxAssumption DEF SbxInit, SbxTypes
<1>2. SbxTypes /\ [SbxNext]_sbxVars => SbxTypes'
  <2> SUFFICES ASSUME SbxTypes, [SbxNext]_sbxVars PROVE SbxTypes'
      OBVIOUS
  <2>1. ASSUME NEW q \in SbxRequests, Incr(q) \/ Expire(q) \/ Verdict(q) PROVE SbxTypes'
      BY <2>1, SandboxAssumption DEF Incr, Expire, Verdict, SbxTo, SbxTypes
  <2>2. ASSUME NEW q \in SbxRequests, Fallback(q) PROVE SbxTypes'
    <3>1. sbxUsage' \in [count : 0 .. SANDBOX_RATE_LIMIT_MAX, left : 0 .. sbxWindow]
      <4>1. CASE sbxUsage.left = 0
          BY <2>2, <4>1, SandboxAssumption DEF Fallback
      <4>2. CASE sbxUsage.left # 0 /\ sbxUsage.count >= SANDBOX_RATE_LIMIT_MAX
          BY <2>2, <4>2 DEF Fallback, SbxTypes
      <4>3. CASE sbxUsage.left # 0 /\ ~(sbxUsage.count >= SANDBOX_RATE_LIMIT_MAX)
        <5>1. sbxUsage.count + 1 \in 0 .. SANDBOX_RATE_LIMIT_MAX
            BY <4>3, SandboxAssumption DEF SbxTypes
        <5>2. sbxUsage' = [sbxUsage EXCEPT !.count = @ + 1]
            BY <2>2, <4>3 DEF Fallback
        <5> QED BY <5>1, <5>2 DEF SbxTypes
      <4> QED BY <4>1, <4>2, <4>3
    <3> QED BY <2>2, <3>1 DEF Fallback, SbxTo, SbxTypes
  <2>3. ASSUME NEW q \in SbxRequests, SbxCrash(q) PROVE SbxTypes'
      BY <2>3 DEF SbxCrash, SbxTo, SbxTypes
  <2>4. CASE SbxTick
    <3>1. (IF sbxUsage.left = 0 THEN 0 ELSE sbxUsage.left - 1) \in 0 .. sbxWindow
        BY SandboxAssumption DEF SbxTypes
    <3>2. sbxUsage' = [sbxUsage EXCEPT !.left = IF @ = 0 THEN 0 ELSE @ - 1]
        BY <2>4 DEF SbxTick
    <3>3. sbxUsage' \in [count : 0 .. SANDBOX_RATE_LIMIT_MAX, left : 0 .. sbxWindow]
        BY <3>1, <3>2 DEF SbxTypes
    <3>4. sbxCount' \in 0 .. MaxSbxCount /\ sbxTtl' \in {Never} \cup 1 .. sbxWindow
        BY <2>4, SandboxAssumption DEF SbxTick, SbxTypes, Never
    <3> QED BY <2>4, <3>3, <3>4 DEF SbxTick, SbxTypes
  <2>5. CASE UNCHANGED sbxVars
      BY <2>5 DEF sbxVars, SbxTypes
  <2> QED BY <2>1, <2>2, <2>3, <2>4, <2>5 DEF SbxNext, SbxStep
<1>3. SbxTypes => SbxTypeOK
    BY DEF SbxTypes, SbxTypeOK
<1> QED BY <1>1, <1>2, <1>3, PTL DEF SbxSpec
-----------------------------------------------------------------------------
\* The handler calls of session s that are under way.
HandlersOf(s) == {h \in Hooks : hook[h] # NoHook /\ hook[h].of = s}

TopUpTypes ==
    /\ session \in [Sessions -> {"none", "open", "paid"}] /\ topUpFaults \in 0 .. MaxTopUpFaults
    /\ topUpRow \in SUBSET Sessions /\ answered \in SUBSET Sessions
    /\ events \in [Sessions -> 0 .. MaxEvents + MaxTopUpFaults] /\ credits \in [Sessions -> Nat]
    /\ hook \in [Hooks -> {NoHook} \cup [at : {"row", "credit"}, of : Sessions]]

\* Every delivery is a credit, a call under way, or one that ended without a credit;
\* and a call that is to credit has written the row.
Delivered(s) == /\ credits[s] + Cardinality(HandlersOf(s)) <= events[s]
                /\ credits[s] > 0 => s \in topUpRow
                /\ \A h \in HandlersOf(s) : hook[h].at = "credit" => s \in topUpRow
TopUpIndInv == TopUpTypes /\ \A s \in Sessions : Delivered(s)

LEMMA HandlerCount ==
    ASSUME NEW s
    PROVE  IsFiniteSet(HandlersOf(s)) /\ Cardinality(HandlersOf(s)) \in Nat
BY TopUpAssumption, FS_Subset, FS_CardinalityType DEF HandlersOf

\* Call h goes from being about the sessions in From to those in To.
LEMMA HandlerMoves ==
    ASSUME TopUpTypes, NEW h \in Hooks, NEW s \in Sessions,
           NEW k \in {NoHook} \cup [at : {"row", "credit"}, of : Sessions],
           hook' = [hook EXCEPT ![h] = k]
    PROVE  /\ hook' \in [Hooks -> {NoHook} \cup [at : {"row", "credit"}, of : Sessions]]
           /\ hook'[h] = k /\ \A g \in Hooks \ {h} : hook'[g] = hook[g]
           /\ h \notin HandlersOf(s) /\ ~(k # NoHook /\ k.of = s) => HandlersOf(s)' = HandlersOf(s)
           /\ h \notin HandlersOf(s) /\ k # NoHook /\ k.of = s =>
                /\ HandlersOf(s)' = HandlersOf(s) \cup {h}
                /\ Cardinality(HandlersOf(s)') = Cardinality(HandlersOf(s)) + 1
           /\ h \in HandlersOf(s) /\ k = NoHook =>
                /\ HandlersOf(s)' = HandlersOf(s) \ {h}
                /\ Cardinality(HandlersOf(s)') = Cardinality(HandlersOf(s)) - 1
           /\ h \in HandlersOf(s) /\ k # NoHook /\ k.of = s => HandlersOf(s)' = HandlersOf(s)
<1>1. /\ hook' \in [Hooks -> {NoHook} \cup [at : {"row", "credit"}, of : Sessions]]
      /\ hook'[h] = k /\ \A g \in Hooks \ {h} : hook'[g] = hook[g]
    BY DEF TopUpTypes
<1>2. \A g : /\ g \in HandlersOf(s)' <=> g \in Hooks /\ hook'[g] # NoHook /\ hook'[g].of = s
             /\ g \in HandlersOf(s) <=> g \in Hooks /\ hook[g] # NoHook /\ hook[g].of = s
    BY DEF HandlersOf
<1>3. IsFiniteSet(HandlersOf(s)) /\ Cardinality(HandlersOf(s)) \in Nat
    BY HandlerCount
<1>4. ASSUME h \notin HandlersOf(s), k # NoHook, k.of = s
      PROVE  /\ HandlersOf(s)' = HandlersOf(s) \cup {h}
             /\ Cardinality(HandlersOf(s)') = Cardinality(HandlersOf(s)) + 1
    BY <1>1, <1>2, <1>3, <1>4, FS_AddElement
<1>5. ASSUME h \in HandlersOf(s), k = NoHook
      PROVE  /\ HandlersOf(s)' = HandlersOf(s) \ {h}
             /\ Cardinality(HandlersOf(s)') = Cardinality(HandlersOf(s)) - 1
    BY <1>1, <1>2, <1>3, <1>5, FS_RemoveElement
<1>6. (h \notin HandlersOf(s) /\ ~(k # NoHook /\ k.of = s)) \/ (h \in HandlersOf(s) /\ k # NoHook /\ k.of = s)
      => HandlersOf(s)' = HandlersOf(s)
    BY <1>1, <1>2
<1> QED BY <1>1, <1>4, <1>5, <1>6

\* A call that is about no session any more was about one of them, and it leaves
\* the books of every session right unless it credits one twice.
LEMMA CallEnds ==
    ASSUME TopUpIndInv, NEW h \in Hooks, hook[h] # NoHook, hook' = [hook EXCEPT ![h] = NoHook],
           \A s \in Sessions :
              \/ credits'[s] = credits[s]
              \/ s = hook[h].of /\ hook[h].at = "credit" /\ credits'[s] = credits[s] + 1,
           UNCHANGED <<events, topUpRow>>
    PROVE  \A s \in Sessions : Delivered(s)'
<1> SUFFICES ASSUME NEW s \in Sessions PROVE Delivered(s)'
    OBVIOUS
<1>1. TopUpTypes /\ Delivered(s) /\ Cardinality(HandlersOf(s)) \in Nat /\ credits[s] \in Nat /\ events[s] \in Nat
    BY HandlerCount, TopUpAssumption DEF TopUpIndInv, TopUpTypes
<1>2. CASE s = hook[h].of
  <2>1. h \in HandlersOf(s)
      BY <1>2 DEF HandlersOf
  <2>2. HandlersOf(s)' = HandlersOf(s) \ {h} /\ Cardinality(HandlersOf(s)') = Cardinality(HandlersOf(s)) - 1
        /\ \A g \in Hooks \ {h} : hook'[g] = hook[g]
      BY <1>1, <2>1, HandlerMoves
  <2>3. credits'[s] = credits[s] \/ (credits'[s] = credits[s] + 1 /\ s \in topUpRow)
      BY <1>1, <2>1 DEF Delivered
  <2>5. \A g \in HandlersOf(s) \ {h} : hook'[g] = hook[g]
      BY <2>2 DEF HandlersOf
  <2> QED BY <1>1, <2>2, <2>3, <2>5 DEF Delivered
<1>3. CASE s # hook[h].of
  <2>1. h \notin HandlersOf(s)
      BY <1>3 DEF HandlersOf
  <2>2. HandlersOf(s)' = HandlersOf(s) /\ \A g \in Hooks \ {h} : hook'[g] = hook[g]
      BY <1>1, <2>1, HandlerMoves
  <2>3. credits'[s] = credits[s]
      BY <1>3
  <2> QED BY <1>1, <2>1, <2>2, <2>3 DEF Delivered, HandlersOf
<1> QED BY <1>2, <1>3

LEMMA DeliverKeeps ==
    ASSUME TopUpIndInv, NEW h \in Hooks, NEW s \in Sessions, Deliver(h, s)
    PROVE  TopUpIndInv'
<1> DEFINE k == [at |-> "row", of |-> s]
<1>1. /\ hook[h] = NoHook /\ events[s] < MaxEvents + topUpFaults /\ events' = [events EXCEPT ![s] = @ + 1]
      /\ hook' = [hook EXCEPT ![h] = k]
      /\ UNCHANGED <<session, topUpRow, credits, answered, topUpFaults>>
    BY DEF Deliver
<1>2. k \in [at : {"row", "credit"}, of : Sessions] /\ k.at = "row" /\ k.of = s /\ k # NoHook
    BY DEF NoHook
<1> HIDE DEF k
<1>3. /\ hook' \in [Hooks -> {NoHook} \cup [at : {"row", "credit"}, of : Sessions]]
      /\ hook'[h] = k /\ \A g \in Hooks \ {h} : hook'[g] = hook[g]
    BY <1>1, <1>2, HandlerMoves DEF TopUpIndInv
<1>4. TopUpTypes'
  <2>1. events[s] + 1 \in 0 .. MaxEvents + MaxTopUpFaults
      BY <1>1, TopUpAssumption DEF TopUpIndInv, TopUpTypes
  <2> QED BY <1>1, <1>3, <2>1 DEF TopUpIndInv, TopUpTypes
<1>5. ASSUME NEW u \in Sessions PROVE Delivered(u)'
  <2>1. TopUpTypes /\ Delivered(u) /\ Cardinality(HandlersOf(u)) \in Nat /\ credits[u] \in Nat /\ events[u] \in Nat
      BY HandlerCount, TopUpAssumption DEF TopUpIndInv, TopUpTypes
  <2>2. h \notin HandlersOf(u)
      BY <1>1 DEF HandlersOf
  <2>3. CASE u = s
    <3>1. HandlersOf(u)' = HandlersOf(u) \cup {h} /\ Cardinality(HandlersOf(u)') = Cardinality(HandlersOf(u)) + 1
        BY <1>1, <1>2, <2>1, <2>2, <2>3, HandlerMoves
    <3>2. events'[u] = events[u] + 1
        BY <1>1, <2>1, <2>3 DEF TopUpTypes
    <3>3. \A g \in HandlersOf(u) : hook'[g] = hook[g]
        BY <1>3, <2>2 DEF HandlersOf
    <3> QED BY <1>1, <1>2, <1>3, <2>1, <3>1, <3>2, <3>3 DEF Delivered
  <2>4. CASE u # s
    <3>1. HandlersOf(u)' = HandlersOf(u)
        BY <1>1, <1>2, <2>1, <2>2, <2>4, HandlerMoves
    <3>2. events'[u] = events[u]
        BY <1>1, <2>1, <2>4 DEF TopUpTypes
    <3>3. \A g \in HandlersOf(u) : hook'[g] = hook[g]
        BY <1>3, <2>2 DEF HandlersOf
    <3> QED BY <1>1, <2>1, <3>1, <3>2, <3>3 DEF Delivered
  <2> QED BY <2>3, <2>4
<1> QED BY <1>4, <1>5 DEF TopUpIndInv

LEMMA AnswerKeepsTypes ==
    ASSUME TopUpTypes, NEW h \in Hooks, hook[h] # NoHook
    PROVE  /\ hook[h] \in [at : {"row", "credit"}, of : Sessions]
           /\ Answer(h) => /\ answered' \in SUBSET Sessions /\ hook' = [hook EXCEPT ![h] = NoHook]
                           /\ hook' \in [Hooks -> {NoHook} \cup [at : {"row", "credit"}, of : Sessions]]
BY DEF TopUpTypes, Answer

LEMMA UpsertKeeps ==
    ASSUME TopUpIndInv, NEW h \in Hooks, Upsert(h)
    PROVE  TopUpIndInv'
<1>0. TopUpTypes /\ hook[h] # NoHook /\ hook[h] \in [at : {"row", "credit"}, of : Sessions] /\ hook[h].at = "row"
      /\ UNCHANGED <<session, events, credits, topUpFaults>>
    BY AnswerKeepsTypes DEF TopUpIndInv, Upsert, NoHook
<1>1. CASE hook[h].of \in UntieredSessions
  <2>1. Answer(h) /\ UNCHANGED topUpRow
      BY <1>1 DEF Upsert
  <2>2. TopUpTypes'
      BY <1>0, <2>1, AnswerKeepsTypes DEF TopUpTypes
  <2>3. \A s \in Sessions : credits'[s] = credits[s]
      BY <1>0
  <2>4. \A s \in Sessions : Delivered(s)'
      BY <1>0, <2>1, <2>3, CallEnds, AnswerKeepsTypes
  <2> QED BY <2>2, <2>4 DEF TopUpIndInv
<1>2. CASE hook[h].of \notin UntieredSessions
  <2> DEFINE k == [at |-> "credit", of |-> hook[h].of]
  <2>1. topUpRow' = topUpRow \cup {hook[h].of} /\ answered' = answered /\ hook' = [hook EXCEPT ![h].at = "credit"]
      BY <1>2 DEF Upsert
  <2>2. hook' = [hook EXCEPT ![h] = k] /\ k \in [at : {"row", "credit"}, of : Sessions] /\ k # NoHook
        /\ k.of = hook[h].of
    <3>1. [hook[h] EXCEPT !.at = "credit"] = k
        BY <1>0
    <3>2. hook' = [hook EXCEPT ![h] = [hook[h] EXCEPT !.at = "credit"]]
        BY <2>1
    <3>3. k \in [at : {"row", "credit"}, of : Sessions] /\ k # NoHook /\ k.of = hook[h].of
        BY <1>0 DEF NoHook
    <3> HIDE DEF k
    <3> QED BY <3>1, <3>2, <3>3
  <2> HIDE DEF k
  <2>3. hook' \in [Hooks -> {NoHook} \cup [at : {"row", "credit"}, of : Sessions]]
        /\ \A g \in Hooks \ {h} : hook'[g] = hook[g]
      BY <1>0, <2>2 DEF TopUpTypes
  <2>4. TopUpTypes'
      BY <1>0, <2>1, <2>3 DEF TopUpTypes
  <2>5. ASSUME NEW s \in Sessions PROVE Delivered(s)'
    <3>1. Delivered(s)
        BY DEF TopUpIndInv
    <3>2. HandlersOf(s)' = HandlersOf(s)
        BY <1>0, <2>2, HandlerMoves DEF HandlersOf
    <3>3. h \in HandlersOf(s) => s = hook[h].of
        BY DEF HandlersOf
    <3>4. \A g \in HandlersOf(s) : g = h \/ hook'[g] = hook[g]
        BY <2>3 DEF HandlersOf
    <3> QED BY <1>0, <2>1, <3>1, <3>2, <3>3, <3>4 DEF Delivered
  <2> QED BY <2>4, <2>5 DEF TopUpIndInv
<1> QED BY <1>1, <1>2

LEMMA CreditKeeps ==
    ASSUME TopUpIndInv, NEW h \in Hooks, Credit(h)
    PROVE  TopUpIndInv'
<1>1. /\ hook[h].at = "credit" /\ hook[h] # NoHook /\ Answer(h) /\ TopUpTypes
      /\ credits' = [credits EXCEPT ![hook[h].of] = @ + 1]
      /\ UNCHANGED <<session, events, topUpRow, topUpFaults>>
    BY DEF Credit, NoHook, TopUpIndInv
<1>2. TopUpTypes'
    BY <1>1, AnswerKeepsTypes DEF TopUpTypes
<1>3. \A s \in Sessions : credits'[s] = IF s = hook[h].of THEN credits[s] + 1 ELSE credits[s]
    BY <1>1 DEF TopUpTypes
<1>4. hook' = [hook EXCEPT ![h] = NoHook]
    BY <1>1 DEF Answer
<1>5. \A s \in Sessions : \/ credits'[s] = credits[s]
                          \/ s = hook[h].of /\ hook[h].at = "credit" /\ credits'[s] = credits[s] + 1
    BY <1>1, <1>3
<1>6. \A s \in Sessions : Delivered(s)'
    BY <1>1, <1>4, <1>5, CallEnds
<1> QED BY <1>2, <1>6 DEF TopUpIndInv

LEMMA FaultKeeps ==
    ASSUME TopUpIndInv, NEW h \in Hooks, Swallow(h) \/ HookCrash(h) \/ Refuse(h)
    PROVE  TopUpIndInv'
<1>1. /\ hook[h] # NoHook /\ TopUpTypes /\ topUpFaults' \in 0 .. MaxTopUpFaults
      /\ UNCHANGED <<session, events, topUpRow, credits>>
    BY TopUpAssumption DEF Swallow, HookCrash, Refuse, NoHook, TopUpIndInv, TopUpTypes
<1>2. hook' = [hook EXCEPT ![h] = NoHook]
    BY DEF Swallow, HookCrash, Refuse, Answer
<1>3. hook[h] \in [at : {"row", "credit"}, of : Sessions]
    BY <1>1, AnswerKeepsTypes
<1>4. answered' \in SUBSET Sessions
    BY <1>1, <1>3 DEF Swallow, HookCrash, Refuse, Answer, TopUpTypes
<1>5. TopUpTypes'
    BY <1>1, <1>2, <1>4 DEF TopUpTypes
<1>6. \A s \in Sessions : credits'[s] = credits[s]
    BY <1>1
<1>7. \A s \in Sessions : Delivered(s)'
    BY <1>1, <1>2, <1>6, CallEnds
<1> QED BY <1>5, <1>7 DEF TopUpIndInv

\* Each increment of a quota is backed by a delivery of its own and by the row
\* (TopUpInv: stripeWebhookHandler of stripe.ts).
LEMMA CreditsAreBacked == TopUpSpec => []TopUpInv
<1>1. TopUpInit => TopUpIndInv
  <2> SUFFICES ASSUME TopUpInit PROVE TopUpIndInv
      OBVIOUS
  <2>1. TopUpTypes
      BY TopUpAssumption DEF TopUpInit, TopUpTypes
  <2>2. ASSUME NEW s \in Sessions PROVE Delivered(s)
    <3>1. HandlersOf(s) = {}
        BY DEF HandlersOf, TopUpInit
    <3>2. Cardinality(HandlersOf(s)) = 0
        BY <3>1, FS_EmptySet
    <3> QED BY <3>1, <3>2 DEF TopUpInit, Delivered
  <2> QED BY <2>1, <2>2 DEF TopUpIndInv
<1>2. TopUpIndInv /\ [TopUpNext]_topUpVars => TopUpIndInv'
  <2> SUFFICES ASSUME TopUpIndInv, [TopUpNext]_topUpVars PROVE TopUpIndInv'
      OBVIOUS
  <2>1. ASSUME NEW s \in Sessions, createCheckoutSession(s) \/ Pay(s) PROVE TopUpIndInv'
    <3>1. UNCHANGED <<events, topUpRow, credits, answered, hook, topUpFaults>>
          /\ session' \in [Sessions -> {"none", "open", "paid"}]
        BY <2>1 DEF createCheckoutSession, Pay, TopUpIndInv, TopUpTypes
    <3> QED BY <3>1 DEF TopUpIndInv, TopUpTypes, Delivered, HandlersOf
  <2>2. CASE UNCHANGED topUpVars
      BY <2>2 DEF topUpVars, TopUpIndInv, TopUpTypes, Delivered, HandlersOf
  <2> QED BY <2>1, <2>2, DeliverKeeps, UpsertKeeps, CreditKeeps, FaultKeeps DEF TopUpNext
<1>3. TopUpIndInv => TopUpInv
  <2> SUFFICES ASSUME TopUpIndInv PROVE TopUpInv
      OBVIOUS
  <2>1. TopUpTypeOK
      BY DEF TopUpIndInv, TopUpTypes, TopUpTypeOK
  <2>2. ASSUME NEW s \in Sessions PROVE credits[s] <= events[s] /\ (credits[s] > 0 => s \in topUpRow)
    <3>1. Delivered(s) /\ Cardinality(HandlersOf(s)) \in Nat /\ credits[s] \in Nat /\ events[s] \in Nat
        BY HandlerCount, TopUpAssumption DEF TopUpIndInv, TopUpTypes
    <3> QED BY <3>1 DEF Delivered
  <2> QED BY <2>1, <2>2 DEF TopUpInv, CreditPerDelivery
<1> QED BY <1>1, <1>2, <1>3, PTL DEF TopUpSpec

\* What is kept for a tenant is sound (TenantInv: registrationService.ts, apiKeys.ts,
\* sandboxGuard.ts and stripe.ts).
THEOREM TenantsAreSound == SignupSpec /\ AuthSpec /\ SbxSpec /\ TopUpSpec => []TenantInv
<1>1. AuthSpec => []AuthTypeOK
  <2>1. AuthTypes => AuthTypeOK
      BY DEF AuthTypes, AuthTypeOK
  <2> QED BY <2>1, AuthTypesHold, PTL
<1> QED BY <1>1, SignupIsSound, SandboxTypeCorrect, CreditsAreBacked, PTL DEF TenantInv
=============================================================================

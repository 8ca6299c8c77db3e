------------------------- MODULE IdempotencyService ------------------------
(***************************************************************************)
(* The idempotency store and the middleware in front of the mutating       *)
(* endpoints (server/src/services/idempotencyService.ts and                *)
(* middleware/idempotencyMiddleware.ts).  The store's methods are          *)
(* synchronous, so each is atomic, but a handler runs between beginRequest *)
(* and the response that calls finishRequest or failRequest, and both act  *)
(* on whatever entry the key has by then.                                  *)
(***************************************************************************)
EXTENDS Integers, FiniteSets

CONSTANTS IdemKeys, IdemRequests,
          maxSize,      \* entries the store holds
          ttl,          \* lifetime of an entry
          MaxIdemTime   \* bound: the clock stops here

ASSUME IdempotencyAssumption ==
    /\ maxSize \in Nat \ {0} /\ ttl \in Nat /\ MaxIdemTime \in Nat
    /\ IsFiniteSet(IdemRequests) /\ "none" \notin IdemKeys

VARIABLES cache,        \* cache[k]: the entry of k, or NoEntry
          clock,
          handling,     \* handling[r]: the key r's handler runs for, or NoKey
          served,       \* the requests that have arrived
          completed,    \* history: completed[k], handlers of k that succeeded
          dropped       \* history: dropped[k], entries of k evicted or expired

idemVars == <<cache, clock, handling, served, completed, dropped>>

NoKey == "none"
NoEntry == [status |-> "none", expiresAt |-> 0, born |-> 0]
Cached == {k \in IdemKeys : cache[k] # NoEntry}

IdemInit ==
    /\ cache = [k \in IdemKeys |-> NoEntry]
    /\ clock = 0
    /\ handling = [r \in IdemRequests |-> NoKey]
    /\ served = {}
    /\ completed = [k \in IdemKeys |-> 0]
    /\ dropped = [k \in IdemKeys |-> 0]

IdemTick == clock < MaxIdemTime /\ clock' = clock + 1
            /\ UNCHANGED <<cache, handling, served, completed, dropped>>

Expired(k) == k \in Cached /\ cache[k].expiresAt < clock

\* beginRequest returns the status of a live entry: 409 or the cached response.
Hit(k) == k \in Cached /\ ~Expired(k)

AnswerFromCache(r, k) ==
    /\ r \notin served
    /\ Hit(k)
    /\ served' = served \cup {r}
    /\ UNCHANGED <<cache, clock, handling, completed, dropped>>

\* The keys beginRequest deletes to make room for k: its own expired entry, and
\* in a store that is full then every expired entry or, failing that, the entry
\* that was inserted first, whatever its status.
Evicted(k) ==
    LET own == {j \in {k} : Expired(j)}
        rest == Cached \ own
        old == {j \in rest : Expired(j)}
        oldest == {j \in rest : \A i \in rest : cache[j].born <= cache[i].born}
    IN  own \cup (IF Cardinality(rest) < maxSize THEN {}
                  ELSE IF Cardinality(rest \ old) < maxSize THEN old
                  ELSE old \cup oldest)

StartHandler(r, k) ==
    /\ r \notin served
    /\ ~Hit(k)
    /\ served' = served \cup {r}
    /\ handling' = [handling EXCEPT ![r] = k]
    /\ cache' = [j \in IdemKeys |->
         IF j = k THEN [status |-> "IN_PROGRESS", expiresAt |-> clock + ttl,
                        born |-> Cardinality(served)]
         ELSE IF j \in Evicted(k) THEN NoEntry ELSE cache[j]]
    /\ dropped' = [j \in IdemKeys |-> IF j \in Evicted(k) THEN dropped[j] + 1 ELSE dropped[j]]
    /\ UNCHANGED <<clock, completed>>

\* Mutant: finishing removes the entry.
EntryForgotten(k) == NoEntry

\* finishRequest overwrites an entry in place, keeping its position.
FinishedEntry(k) ==
    IF k \in Cached THEN [cache[k] EXCEPT !.status = "COMPLETED", !.expiresAt = clock + ttl]
    ELSE NoEntry

finishRequest(r) ==
    LET k == handling[r] IN
    /\ k # NoKey
    /\ cache' = [cache EXCEPT ![k] = FinishedEntry(k)]
    /\ handling' = [handling EXCEPT ![r] = NoKey]
    /\ completed' = [completed EXCEPT ![k] = @ + 1]
    /\ UNCHANGED <<clock, served, dropped>>

failRequest(r) ==
    LET k == handling[r] IN
    /\ k # NoKey
    /\ cache' = [cache EXCEPT ![k] = NoEntry]
    /\ handling' = [handling EXCEPT ![r] = NoKey]
    /\ UNCHANGED <<clock, served, completed, dropped>>

IdemNext ==
    \/ IdemTick
    \/ \E r \in IdemRequests, k \in IdemKeys : AnswerFromCache(r, k) \/ StartHandler(r, k)
    \/ \E r \in IdemRequests : finishRequest(r) \/ failRequest(r)

IdemSpec == IdemInit /\ [][IdemNext]_idemVars
-----------------------------------------------------------------------------
IdemTypeOK ==
    /\ cache \in [IdemKeys -> [status : {"none", "IN_PROGRESS", "COMPLETED"},
                               expiresAt : Nat, born : Nat]]
    /\ clock \in Nat
    /\ handling \in [IdemRequests -> IdemKeys \cup {NoKey}]
    /\ served \subseteq IdemRequests
    /\ completed \in [IdemKeys -> Nat] /\ dropped \in [IdemKeys -> Nat]

Handlers(k) == {r \in IdemRequests : handling[r] = k}

\* A key is worked on more than once only if the store dropped an entry of it
\* each time, by expiry or by eviction at maxSize: late answers of old handlers,
\* which complete or delete a newer request's entry, add nothing to that.  So a
\* store that is large enough and a handler that is quick enough never process a
\* request twice (beginRequest, finishRequest, failRequest, evictOldest).
ProcessedOncePerDrop ==
    \A k \in IdemKeys : completed[k] + Cardinality(Handlers(k)) <= 1 + dropped[k]

\* The store never holds more than maxSize entries, whatever expires or finishes
\* between two requests (evictOldest).
StoreBounded == Cardinality(Cached) <= maxSize

\* beginRequest, finishRequest and failRequest keep the store bounded and a key
\* from being worked on twice while its entry is there.
IdemInv == IdemTypeOK /\ ProcessedOncePerDrop /\ StoreBounded
=============================================================================

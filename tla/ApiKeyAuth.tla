---------------------------- MODULE ApiKeyAuth -----------------------------
(***************************************************************************)
(* How the Node server decides whether an API key is good                  *)
(* (server/src/middleware/apiKeys.ts): a Redis entry with a time to live,  *)
(* else the database row, else the map API_KEYS of the process; and how a  *)
(* key is registered, revoked (handlers/adminApiKeys.ts) and erased with   *)
(* its tenant (services/tenantErasure.ts).  One key, several processes.    *)
(* A process sends its Redis commands in order on one connection and does  *)
(* not wait for a SET; Redis and the database may fail any call.           *)
(***************************************************************************)
EXTENDS Integers, Sequences, FiniteSets

CONSTANTS AuthReplicas,      \* processes of the server
          AuthRequests,      \* requests that carry the key
          CacheTtl,          \* life of a Redis entry (300 s)
          MaxRedisCmds       \* bound: commands in flight per process

ASSUME ApiKeyAssumption ==
    /\ CacheTtl \in Nat \ {0} /\ MaxRedisCmds \in Nat \ {0}
    /\ AuthRequests \cap {"set", "del"} = {}     \* reads are told from writes

VARIABLES keyRow,       \* the ApiKey row
          cacheLeft,    \* what is left of the life of the Redis entry; 0: none
          keyMemory,    \* processes whose API_KEYS holds the key
          redisCmds,    \* redisCmds[r]: "set", "del" or a request that reads
          auth,         \* auth[q]: progress of request q
          keyAdmin      \* keyAdmin[r]: admin operation under way in process r

authVars == <<keyRow, cacheLeft, keyMemory, redisCmds, auth, keyAdmin>>

NoAuth == [at |-> "idle"]

AuthInit ==
    /\ keyRow \in {"unborn", "active"} /\ cacheLeft = 0 /\ keyMemory = {}
    /\ redisCmds = [r \in AuthReplicas |-> <<>>]
    /\ auth = [q \in AuthRequests |-> NoAuth]
    /\ keyAdmin = [r \in AuthReplicas |-> "idle"]

Sends(r, cmds) ==
    /\ Len(redisCmds[r]) + Len(cmds) <= MaxRedisCmds
    /\ redisCmds' = [redisCmds EXCEPT ![r] = @ \o cmds]

\* Self-service registration writes the row.
CreateKey ==
    /\ keyRow = "unborn" /\ keyRow' = "active"
    /\ UNCHANGED <<cacheLeft, keyMemory, redisCmds, auth, keyAdmin>>

\* apiKeyMiddleware asks Redis first.
apiKeyMiddleware(q, r) ==
    /\ auth[q].at \in {"idle", "accepted", "rejected"}
    /\ auth' = [auth EXCEPT ![q] = [at |-> "cache", by |-> r]]
    /\ Sends(r, <<q>>)
    /\ UNCHANGED <<keyRow, cacheLeft, keyMemory, keyAdmin>>

\* Mutant: a hit gives the entry another full life.
HitExtends(left) == IF left > 0 THEN CacheTtl ELSE 0

LifeAfterGet(left) == left

\* Redis answers the oldest command of a process, or the call fails: a read is
\* then taken for a miss and the others for done.
Redis(r) ==
    /\ redisCmds[r] # <<>>
    /\ redisCmds' = [redisCmds EXCEPT ![r] = Tail(@)]
    /\ LET c == Head(redisCmds[r]) IN
       \/ c = "set" /\ cacheLeft' = CacheTtl /\ UNCHANGED auth
       \/ c = "del" /\ cacheLeft' = 0 /\ UNCHANGED auth
       \/ /\ c \in AuthRequests
          /\ cacheLeft' = LifeAfterGet(cacheLeft)
          /\ auth' = [auth EXCEPT ![c] = IF cacheLeft > 0 THEN [at |-> "accepted"]
                                         ELSE [@ EXCEPT !.at = "db"]]
       \/ /\ UNCHANGED cacheLeft      \* the call fails
          /\ auth' = IF c \in AuthRequests THEN [auth EXCEPT ![c].at = "db"] ELSE auth
    /\ UNCHANGED <<keyRow, keyMemory, keyAdmin>>

Decided(q, verdict, cmds) ==
    /\ auth' = [auth EXCEPT ![q] = [at |-> verdict]]
    /\ Sends(auth[q].by, cmds)

\* Mutant: the lookup does not look at the row's active flag.
RowExists == keyRow \in {"active", "revoked"}

RowActive == keyRow = "active"

\* What the lookup may find: the row as it is now; nothing, also when it fails.
RowSeen ==
    {"missing"} \cup (IF RowActive THEN {"found"} ELSE {})
                \cup (IF keyRow = "revoked" THEN {"denied"} ELSE {})

\* The database reads the row; its answer is on its way to the middleware.
ReadDb(q) ==
    /\ auth[q].at = "db"
    /\ \E seen \in RowSeen : auth' = [auth EXCEPT ![q].at = seen]
    /\ UNCHANGED <<keyRow, cacheLeft, keyMemory, redisCmds, keyAdmin>>

\* The answer arrives, whatever became of the row meanwhile: an active row is
\* written to Redis, a revoked one refused; without a row API_KEYS decides.
ActOnRow(q) ==
    /\ \/ auth[q].at = "found" /\ Decided(q, "accepted", <<"set">>)
       \/ auth[q].at = "denied" /\ Decided(q, "rejected", <<>>)
       \/ auth[q].at = "missing" /\ auth[q].by \in keyMemory /\ Decided(q, "accepted", <<"set">>)
       \/ auth[q].at = "missing" /\ auth[q].by \notin keyMemory /\ Decided(q, "rejected", <<>>)
    /\ UNCHANGED <<keyRow, cacheLeft, keyMemory, keyAdmin>>

\* upsertApiKey: memory of this process and the cache, never the database.
upsertApiKey(r) ==
    /\ keyMemory' = keyMemory \cup {r}
    /\ Sends(r, <<"set">>)
    /\ UNCHANGED <<keyRow, cacheLeft, auth, keyAdmin>>

AdminTo(r, st) == keyAdmin' = [keyAdmin EXCEPT ![r] = st]

\* revokeApiKeyHandler: the row (a key without one is answered 404), the row
\* read back, then the memory of this process and, twice, the cache.
RevokeRow(r) ==
    /\ keyAdmin[r] = "idle" /\ keyRow \in {"active", "revoked"}
    /\ keyRow' = "revoked" /\ AdminTo(r, "read_back")
    /\ UNCHANGED <<cacheLeft, keyMemory, redisCmds, auth>>

RevokeForget(r) ==
    /\ keyAdmin[r] = "read_back"
    /\ \/ /\ keyRow = "revoked" /\ keyMemory' = keyMemory \ {r}
          /\ Sends(r, <<"del", "del">>)
       \/ \* the row is gone (200) or the read fails (500): nothing is forgotten
          UNCHANGED <<keyMemory, redisCmds>>
    /\ AdminTo(r, "idle")
    /\ UNCHANGED <<keyRow, cacheLeft, auth>>

\* requestTenantErasure: the tenant's keys are read, their rows deleted in a
\* transaction, and the keys that were read are forgotten.
EraseRead(r) ==
    /\ keyAdmin[r] = "idle" /\ keyRow # "erased"
    /\ AdminTo(r, IF keyRow = "unborn" THEN "erase_none" ELSE "erase")
    /\ UNCHANGED <<keyRow, cacheLeft, keyMemory, redisCmds, auth>>

EraseRows(r) ==
    /\ keyAdmin[r] \in {"erase", "erase_none"}
    /\ keyRow' = IF keyRow = "unborn" THEN keyRow ELSE "erased"
    /\ AdminTo(r, IF keyAdmin[r] = "erase" THEN "forget" ELSE "idle")
    /\ UNCHANGED <<cacheLeft, keyMemory, redisCmds, auth>>

EraseForget(r) ==
    /\ keyAdmin[r] = "forget"
    /\ keyMemory' = keyMemory \ {r}
    /\ Sends(r, <<"del">>) /\ AdminTo(r, "idle")
    /\ UNCHANGED <<keyRow, cacheLeft, auth>>

CacheAges ==
    /\ cacheLeft > 0 /\ cacheLeft' = cacheLeft - 1
    /\ UNCHANGED <<keyRow, keyMemory, redisCmds, auth, keyAdmin>>

AuthNext ==
    \/ CreateKey \/ CacheAges
    \/ \E q \in AuthRequests :
         ReadDb(q) \/ ActOnRow(q) \/ \E r \in AuthReplicas : apiKeyMiddleware(q, r)
    \/ \E r \in AuthReplicas :
         Redis(r) \/ upsertApiKey(r) \/ RevokeRow(r) \/ RevokeForget(r)
           \/ EraseRead(r) \/ EraseRows(r) \/ EraseForget(r)

AuthFairness ==
    /\ WF_authVars(CacheAges)
    /\ \A r \in AuthReplicas : WF_authVars(Redis(r))

AuthSpec == AuthInit /\ [][AuthNext]_authVars /\ AuthFairness
-----------------------------------------------------------------------------
AuthTypeOK ==
    /\ keyRow \in {"unborn", "active", "revoked", "erased"}
    /\ cacheLeft \in 0 .. CacheTtl /\ keyMemory \subseteq AuthReplicas
    /\ \A r \in AuthReplicas : Len(redisCmds[r]) <= MaxRedisCmds

\* Neither Redis, nor a SET still on its way, nor a process's memory, nor a
\* request that read the row before knows the key, and its row is revoked or gone.
Forgotten ==
    /\ keyRow \in {"revoked", "erased"} /\ keyMemory = {} /\ cacheLeft = 0
    /\ \A r \in AuthReplicas : \A i \in DOMAIN redisCmds[r] : redisCmds[r][i] # "set"
    /\ \A q \in AuthRequests : auth[q].at # "found"

\* A key that is forgotten everywhere stays out, whatever fails afterwards,
\* until an administrator registers it anew (the fallback of the middleware
\* never invents a key).
ForgottenStaysOut ==
    [][Forgotten => Forgotten' \/ \E r \in AuthReplicas : upsertApiKey(r)]_authVars

\* Revocation takes effect: once the row is revoked or gone and no process has
\* the key in memory, Redis forgets it for good, no matter how many requests
\* arrive meanwhile, which invalidations failed and which late SET undid one, a
\* SET by a request that read the active row before included (the entry lives
\* 300 s and a hit does not extend it).
RevocationTakesEffect ==
    <>[](keyRow \in {"revoked", "erased"} /\ keyMemory = {}) => <>[](cacheLeft = 0)

\* A revoked or erased key goes out of use everywhere and stays out.
RevocationSound == ForgottenStaysOut /\ RevocationTakesEffect
=============================================================================

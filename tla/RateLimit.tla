----------------------------- MODULE RateLimit -----------------------------
(***************************************************************************)
(* The rate limit of an API key (server/src/middleware/rateLimit.ts): the  *)
(* GCRA leaky bucket of utils/gcraLeakyBucket.ts, kept in Redis by a Lua   *)
(* script (utils/redis.ts) and, when Redis fails, in the process.  The     *)
(* Redis key expires on Redis' clock while the value in it was computed on *)
(* the clock of the process that asked; Skews are the offsets of those     *)
(* clocks (a request delayed on its way to Redis is one with a clock that  *)
(* is behind).  Time passes in units that divide windowMs / capacity.      *)
(***************************************************************************)
EXTENDS Integers, Sequences, FiniteSetsExt

CONSTANTS RateReplicas, Skews, capacity, windowMs, MaxRateTime

ASSUME RateAssumption ==
    /\ capacity \in Nat \ {0} /\ windowMs \in Nat \ {0} /\ windowMs % capacity = 0
    /\ Skews \subseteq Nat /\ Skews # {} /\ IsFiniteSet(Skews) /\ MaxRateTime \in Nat
    /\ "redis" \notin RateReplicas

VARIABLES rateTime,
          redisTat, redisExpiry,   \* rl:<key> and when Redis drops it
          memTat,                  \* memTat[r]: tat of usageByApiKey in process r
          passed                   \* history: passed[b], when bucket b let a request by

rateVars == <<rateTime, redisTat, redisExpiry, memTat, passed>>

Buckets == {"redis"} \cup RateReplicas
emissionInterval == windowMs \div capacity

RateInit ==
    /\ rateTime = 0 /\ redisTat = 0 /\ redisExpiry = 0
    /\ memTat = [r \in RateReplicas |-> 0]
    /\ passed = [b \in Buckets |-> <<>>]

\* Math.max(state.tat, now); a bucket that does not exist starts at now.
tatOf(tat, now) == IF tat > now THEN tat ELSE now

Allowed(newTat, now) == newTat - now <= windowMs

\* consumeGcraBucket and the Lua script: the arrival time after one more request.
newTatOf(tat, now) == tatOf(tat, now) + emissionInterval

Passes(b) == passed' = [passed EXCEPT ![b] = Append(@, rateTime)]

\* Mutant: the key outlives only one emission interval.
ShortLife(newTat, now) == emissionInterval

\* SET key new_tat PX ceil(new_tat - now).
LifeOf(newTat, now) == newTat - now

\* consumeLeakyBucket; a refused request leaves the bucket as it is.
consumeLeakyBucket(skew) ==
    LET now == rateTime + skew
        newTat == newTatOf(redisTat, now) IN
    /\ Allowed(newTat, now)
    /\ redisTat' = newTat
    /\ redisExpiry' = rateTime + LifeOf(newTat, now)
    /\ Passes("redis")
    /\ UNCHANGED <<rateTime, memTat>>

\* Redis is unavailable: the bucket of the process, on its own clock.
consumeFallbackBucket(r) ==
    LET newTat == newTatOf(memTat[r], rateTime) IN
    /\ Allowed(newTat, rateTime)
    /\ memTat' = [memTat EXCEPT ![r] = newTat]
    /\ Passes(r)
    /\ UNCHANGED <<rateTime, redisTat, redisExpiry>>

RateTick ==
    /\ rateTime < MaxRateTime
    /\ rateTime' = rateTime + 1
    /\ IF rateTime + 1 >= redisExpiry THEN redisTat' = 0 /\ redisExpiry' = 0
                                      ELSE UNCHANGED <<redisTat, redisExpiry>>
    /\ UNCHANGED <<memTat, passed>>

RateNext ==
    \/ \E skew \in Skews : consumeLeakyBucket(skew)
    \/ \E r \in RateReplicas : consumeFallbackBucket(r)
    \/ RateTick

RateSpec == RateInit /\ [][RateNext]_rateVars
-----------------------------------------------------------------------------
RateTypeOK ==
    /\ rateTime \in 0 .. MaxRateTime
    /\ redisTat \in Nat /\ redisExpiry \in Nat /\ memTat \in [RateReplicas -> Nat]

\* Requests that bucket b let by between its i-th and its j-th one stay within
\* capacity plus what drains in the time between them.
Within(b, slack) ==
    \A i, j \in DOMAIN passed[b] :
      i <= j => LET t == passed[b][j] - passed[b][i] IN
                (j - i + 1) * emissionInterval <= windowMs + t + slack * (1 + t \div emissionInterval)

\* No interval of time, wherever it begins, sees more requests than capacity plus
\* one per emission interval: there is no window edge at which two windows' worth
\* fits.  For the bucket in Redis the skew of the clocks comes on top once per
\* life of the entry, which is at least one emission interval: the entry expires
\* on Redis' clock while the value in it still lies in the future of a process
\* whose clock is behind.
RateBound ==
    /\ \A r \in RateReplicas : Within(r, 0)
    /\ Within("redis", Max(Skews) - Min(Skews))

\* The buckets have their types and hold their rate.
RateInv == RateTypeOK /\ RateBound
=============================================================================

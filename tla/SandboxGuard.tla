---------------------------- MODULE SandboxGuard ---------------------------
(***************************************************************************)
(* The request limit of sandbox keys (server/src/middleware/               *)
(* sandboxGuard.ts): a fixed window counted by incrWithExpiry of           *)
(* utils/redis.ts, which sends INCR, then EXPIRE when the count is 1, then *)
(* TTL; when a call fails, a window in the process.  A process may stop    *)
(* between two calls.                                                      *)
(***************************************************************************)
EXTENDS Integers, FiniteSets

CONSTANTS SbxRequests,
          SANDBOX_RATE_LIMIT_MAX,
          sbxWindow,             \* the window, in ticks of the clock
          MaxSbxCount,           \* bound: the count saturates here, over the limit
          MaxSbxFaults           \* bound: failing calls and stopped processes

ASSUME SandboxAssumption ==
    /\ SANDBOX_RATE_LIMIT_MAX \in Nat \ {0} /\ sbxWindow \in Nat \ {0}
    /\ MaxSbxCount \in Nat /\ MaxSbxCount > SANDBOX_RATE_LIMIT_MAX /\ MaxSbxFaults \in Nat

Never == -1

VARIABLES sbxCount, sbxTtl,      \* the Redis counter and its time to live
          sbxReq,                \* sbxReq[q]: the call that request q makes next
          sbxUsage,              \* the fallback window of the process
          sbxFaults

sbxVars == <<sbxCount, sbxTtl, sbxReq, sbxUsage, sbxFaults>>

SbxInit ==
    /\ sbxCount = 0 /\ sbxTtl = Never
    /\ sbxReq = [q \in SbxRequests |-> "idle"]
    /\ sbxUsage = [count |-> 0, left |-> 0]
    /\ sbxFaults = 0

SbxTo(q, st) == sbxReq' = [sbxReq EXCEPT ![q] = st]
SbxFault == sbxFaults < MaxSbxFaults /\ sbxFaults' = sbxFaults + 1

\* Mutant: every request sets the expiry again.
AlwaysExpire(count) == TRUE

FirstOfWindow(count) == count = 1

Incr(q) ==
    /\ sbxReq[q] = "idle"
    /\ sbxCount' = IF sbxCount < MaxSbxCount THEN sbxCount + 1 ELSE sbxCount
    /\ SbxTo(q, IF FirstOfWindow(sbxCount + 1) THEN "expire" ELSE "ttl")
    /\ UNCHANGED <<sbxTtl, sbxUsage, sbxFaults>>

\* EXPIRE on a key that is gone does nothing.
Expire(q) ==
    /\ sbxReq[q] = "expire"
    /\ sbxTtl' = IF sbxCount > 0 THEN sbxWindow ELSE sbxTtl
    /\ SbxTo(q, "ttl")
    /\ UNCHANGED <<sbxCount, sbxUsage, sbxFaults>>

\* TTL, and the verdict on the count that INCR returned.
Verdict(q) ==
    /\ sbxReq[q] = "ttl" /\ SbxTo(q, "idle")
    /\ UNCHANGED <<sbxCount, sbxTtl, sbxUsage, sbxFaults>>

\* A call fails: the request is counted in the process.
Fallback(q) ==
    /\ sbxReq[q] # "idle" /\ SbxFault
    /\ sbxUsage' = IF sbxUsage.left = 0 THEN [count |-> 1, left |-> sbxWindow]
                   ELSE IF sbxUsage.count >= SANDBOX_RATE_LIMIT_MAX THEN sbxUsage
                   ELSE [sbxUsage EXCEPT !.count = @ + 1]
    /\ SbxTo(q, "idle")
    /\ UNCHANGED <<sbxCount, sbxTtl>>

\* The process stops between two calls.
SbxCrash(q) ==
    /\ sbxReq[q] # "idle" /\ SbxFault
    /\ SbxTo(q, "idle")
    /\ UNCHANGED <<sbxCount, sbxTtl, sbxUsage>>

SbxTick ==
    /\ sbxTtl > 0 \/ sbxUsage.left > 0
    /\ sbxUsage' = [sbxUsage EXCEPT !.left = IF @ = 0 THEN 0 ELSE @ - 1]
    /\ IF sbxTtl = 1 THEN sbxCount' = 0 /\ sbxTtl' = Never
       ELSE /\ sbxTtl' = IF sbxTtl = Never THEN Never ELSE sbxTtl - 1
            /\ UNCHANGED sbxCount
    /\ UNCHANGED <<sbxReq, sbxFaults>>

SbxStep(q) == Expire(q) \/ Verdict(q)

SbxNext ==
    \/ \E q \in SbxRequests : Incr(q) \/ SbxStep(q) \/ Fallback(q) \/ SbxCrash(q)
    \/ SbxTick

SbxSpec ==
    /\ SbxInit /\ [][SbxNext]_sbxVars
    /\ WF_sbxVars(SbxTick)
    /\ \A q \in SbxRequests : WF_sbxVars(SbxStep(q))
-----------------------------------------------------------------------------
SbxTypeOK ==
    /\ sbxCount \in 0 .. MaxSbxCount /\ sbxTtl \in {Never} \cup 1 .. sbxWindow
    /\ \A q \in SbxRequests : sbxReq[q] \in {"idle", "expire", "ttl"}
    /\ sbxUsage.count \in 0 .. SANDBOX_RATE_LIMIT_MAX

\* A sandbox over its limit is let in again when the window is over, provided
\* the request that opened the window got to set the expiry: no later one does.
WindowEnds ==
    (sbxCount > SANDBOX_RATE_LIMIT_MAX /\ sbxTtl # Never) ~> sbxCount = 0
=============================================================================

---------------------------- MODULE QuotaTopUp -----------------------------
(***************************************************************************)
(* Quota bought through Stripe: createCheckoutSession and                  *)
(* stripeWebhookHandler of server/src/handlers/stripe.ts.  Stripe is       *)
(* external: it delivers the event of a paid session at least once and     *)
(* again until an answer is 200.  A handler that verified the event writes *)
(* the QuotaTopUp row, then the quota of the tenant's keys, and answers    *)
(* 200 in every case; a database call may throw and the server may crash   *)
(* (bounded faults).                                                       *)
(*                                                                         *)
(* constructEvent needs the bytes that were signed.  index.ts mounts       *)
(* express.json for every route (line 227) before the express.raw of this  *)
(* one (433 to 437), so the served handler is given a parsed body, refuses *)
(* every event and credits nothing: verifies is FALSE there.  It is TRUE   *)
(* where the handler is mounted behind the raw body alone.                 *)
(***************************************************************************)
EXTENDS Integers, FiniteSets

CONSTANTS Sessions, Hooks,        \* checkout sessions; concurrent handler calls
          UntieredSessions,       \* sessions whose amount is no tier (any more)
          MaxEvents,              \* bound: deliveries per session, crashes apart
          MaxTopUpFaults          \* bound: crashes and database errors

ASSUME TopUpAssumption ==
    /\ UntieredSessions \subseteq Sessions /\ IsFiniteSet(Hooks)
    /\ MaxEvents \in Nat \ {0} /\ MaxTopUpFaults \in Nat

VARIABLES session,      \* session[s]: "none", "open", "paid"
          events,       \* events[s]: deliveries made by Stripe so far
          topUpRow,     \* sessions with a fulfilled QuotaTopUp row
          credits,      \* credits[s]: how often the quota was incremented for s
          answered,     \* sessions whose event was answered with 200
          verifies,     \* fixed: the secret is set and the body is what was signed
          hook,         \* hook[h]: the handler call
          topUpFaults

topUpVars == <<session, events, topUpRow, credits, answered, verifies, hook, topUpFaults>>

NoHook == [at |-> "idle"]

TopUpInit ==
    /\ session = [s \in Sessions |-> "none"] /\ events = [s \in Sessions |-> 0]
    /\ credits = [s \in Sessions |-> 0]
    /\ topUpRow = {} /\ answered = {} /\ topUpFaults = 0
    /\ hook = [h \in Hooks |-> NoHook] /\ verifies \in BOOLEAN

\* createCheckoutSessionHandler creates a session only for a tier.
createCheckoutSession(s) ==
    /\ session[s] = "none" /\ session' = [session EXCEPT ![s] = "open"]
    /\ UNCHANGED <<events, topUpRow, credits, answered, hook, topUpFaults>>

\* External: the customer pays; Stripe delivers, and may deliver twice.
Pay(s) ==
    /\ session[s] = "open" /\ session' = [session EXCEPT ![s] = "paid"]
    /\ UNCHANGED <<events, topUpRow, credits, answered, hook, topUpFaults>>

Deliver(h, s) ==
    /\ session[s] = "paid" /\ hook[h] = NoHook
    /\ events[s] < MaxEvents + topUpFaults
    /\ events' = [events EXCEPT ![s] = @ + 1]
    /\ hook' = [hook EXCEPT ![h] = [at |-> "row", of |-> s]]
    /\ UNCHANGED <<session, topUpRow, credits, answered, topUpFaults>>

Answer(h) ==
    /\ answered' = answered \cup {hook[h].of}
    /\ hook' = [hook EXCEPT ![h] = NoHook]

\* No secret is set, or constructEvent throws: 500 or 400, and nothing was done.
Refuse(h) ==
    /\ ~verifies /\ hook[h].at = "row"
    /\ hook' = [hook EXCEPT ![h] = NoHook]
    /\ UNCHANGED <<session, events, topUpRow, credits, answered, topUpFaults>>

\* The signature is verified, the tier looked up and the row upserted; a session
\* without a tier is answered at once.
Upsert(h) ==
    /\ verifies /\ hook[h].at = "row"
    /\ IF hook[h].of \in UntieredSessions
       THEN Answer(h) /\ UNCHANGED topUpRow
       ELSE /\ topUpRow' = topUpRow \cup {hook[h].of}
            /\ hook' = [hook EXCEPT ![h].at = "credit"]
            /\ UNCHANGED answered
    /\ UNCHANGED <<session, events, credits, topUpFaults>>

\* apiKey.updateMany increments the quota of the tenant's active keys.
Credit(h) ==
    /\ hook[h].at = "credit"
    /\ credits' = [credits EXCEPT ![hook[h].of] = @ + 1]
    /\ Answer(h)
    /\ UNCHANGED <<session, events, topUpRow, topUpFaults>>

\* Either database call throws: logged, and answered with 200 all the same.
Swallow(h) ==
    /\ topUpFaults < MaxTopUpFaults /\ topUpFaults' = topUpFaults + 1
    /\ verifies /\ hook[h].at \in {"row", "credit"} /\ hook[h].of \notin UntieredSessions
    /\ Answer(h)
    /\ UNCHANGED <<session, events, topUpRow, credits>>

HookCrash(h) ==
    /\ topUpFaults < MaxTopUpFaults /\ topUpFaults' = topUpFaults + 1
    /\ hook[h] # NoHook /\ hook' = [hook EXCEPT ![h] = NoHook]
    /\ UNCHANGED <<session, events, topUpRow, credits, answered>>

TopUpNext ==
    /\ \/ \E s \in Sessions : createCheckoutSession(s) \/ Pay(s) \/ \E h \in Hooks : Deliver(h, s)
       \/ \E h \in Hooks : Refuse(h) \/ Upsert(h) \/ Credit(h) \/ Swallow(h) \/ HookCrash(h)
    /\ UNCHANGED verifies

TopUpSpec == TopUpInit /\ [][TopUpNext]_topUpVars
-----------------------------------------------------------------------------
TopUpTypeOK ==
    /\ session \in [Sessions -> {"none", "open", "paid"}]
    /\ topUpRow \cup answered \subseteq Sessions
    /\ events \in [Sessions -> 0 .. MaxEvents + MaxTopUpFaults] /\ topUpFaults \in 0 .. MaxTopUpFaults

\* The quota of a session is incremented at most once per delivery and only when
\* its row is written; the row's unique session id does not make the increment
\* idempotent, so a second delivery increments again (stripe.ts:89).
CreditPerDelivery ==
    \A s \in Sessions : /\ credits[s] <= events[s]
                        /\ credits[s] > 0 => s \in topUpRow

\* stripe.ts:94: "Log but don't fail - Stripe will retry".  A session whose
\* fulfilment failed is delivered again, so one that Stripe regards as done was
\* credited.
FailureIsRetried == \A s \in answered \ UntieredSessions : credits[s] > 0

\* Credits are backed by deliveries and rows (webhook handler of stripe.ts).
TopUpInv == TopUpTypeOK /\ CreditPerDelivery
=============================================================================

--------------------------- MODULE FailoverClient ---------------------------
(***************************************************************************)
(* HorizonFailoverClient of the Node server                                *)
(* (server/src/horizon/failoverClient.ts).  submitTransaction,             *)
(* getTransaction and loadAccount run the same loop and differ only in     *)
(* what they ask of Horizon; a call is a member of Calls.  A step runs     *)
(* from one await to the next: the node order is computed once, the        *)
(* breakers are consulted one by one as the loop advances, and answers of  *)
(* other calls and of recovery probes come in between.                     *)
(*                                                                         *)
(* Each node has a circuit breaker (server/src/horizon/circuitBreaker.ts). *)
(* A breaker is a record; the operators give the breaker each method       *)
(* leaves behind, the time being a parameter because every method reads    *)
(* Date.now().                                                             *)
(***************************************************************************)
EXTENDS Integers, Sequences, FiniteSets, Subsequences

CONSTANTS FailureThreshold, Window, RecoveryTimeout

ASSUME BreakerAssumption ==
    /\ FailureThreshold \in Nat \ {0}
    /\ Window \in Nat \ {0}
    /\ RecoveryTimeout \in Nat \ {0}

NewBreaker == [state |-> "Closed", failures |-> <<>>, openedAt |-> 0,
               probe |-> FALSE]

\* maybeTransitionToHalfOpen
HalfOpened(b, now) ==
    IF b.state = "Open" /\ now >= b.openedAt + RecoveryTimeout
      THEN [b EXCEPT !.state = "Half-Open", !.probe = FALSE]
      ELSE b

\* allowRequest: its answer, and the breaker it leaves behind
Admits(b, now) ==
    LET h == HalfOpened(b, now)
    IN h.state = "Closed" \/ (h.state = "Half-Open" /\ ~h.probe)

Admitted(b, now) ==
    LET h == HalfOpened(b, now)
    IN [h EXCEPT !.probe = (h.state = "Half-Open") \/ @]

RecordSuccess(b) ==
    [state |-> "Closed", failures |-> <<>>, openedAt |-> 0,
     probe |-> b.probe /\ b.state # "Half-Open"]

\* pruneOldFailures: the filter keeps the recent timestamps in their order
Recent(failures, now) ==
    Picked(failures, {i \in DOMAIN failures : failures[i] > now - Window})

\* A failed probe that re-opens but forgets that the probe is over.
RecordFailureKeepsProbe(b, now) ==
    LET recent == Recent(Append(b.failures, now), now)
    IN IF b.state = "Half-Open"
         \/ (b.state = "Closed" /\ Len(recent) >= FailureThreshold)
         THEN [b EXCEPT !.state = "Open", !.failures = recent, !.openedAt = now]
         ELSE [b EXCEPT !.failures = recent]

\* A failure that trips on everything since the last success, however old.
RecordFailureNeverPrunes(b, now) ==
    LET all == Append(b.failures, now)
    IN IF b.state = "Half-Open" \/ (b.state = "Closed" /\ Len(all) >= FailureThreshold)
         THEN [b EXCEPT !.state = "Open", !.failures = all, !.openedAt = now,
                        !.probe = FALSE]
         ELSE [b EXCEPT !.failures = all]

RecordFailure(b, now) ==
    LET recent == Recent(Append(b.failures, now), now)
        noted == [b EXCEPT !.failures = recent]
    IN CASE b.state = "Half-Open" ->
              [noted EXCEPT !.state = "Open", !.openedAt = now, !.probe = FALSE]
         [] b.state = "Closed" /\ Len(recent) >= FailureThreshold ->
              [noted EXCEPT !.state = "Open", !.openedAt = now]
         [] OTHER -> noted
-----------------------------------------------------------------------------

CONSTANTS N,             \* number of Horizon nodes
          Calls,
          Strategy,      \* "priority" or "round_robin"
          CooldownBase, CooldownMax, InactiveThreshold,
          MaxTime,       \* bound: the clock stops here
          MaxFailures    \* bound: consecutive failures of a node

Nodes == 1 .. N

ASSUME ClientAssumption ==
    /\ N \in Nat \ {0}
    /\ Strategy \in {"priority", "round_robin"}
    /\ CooldownBase \in Nat \ {0} /\ CooldownMax \in Nat \ {0}
    /\ InactiveThreshold \in Nat \ {0, 1}
    /\ MaxTime \in Nat /\ MaxFailures \in Nat

VARIABLES now,
          cb,                   \* cb[n]: the breaker of node n
          state, consecutiveFailures, cooldownUntil,   \* node.status
          probeInFlight,        \* probeInFlight[n]: a recovery probe runs
          roundRobinIndex,
          call                  \* call[c]: where the loop of call c stands

nodeVars == <<cb, state, consecutiveFailures, cooldownUntil>>
vars == <<now, nodeVars, probeInFlight, roundRobinIndex, call>>

\* halfOpen records whether the running attempt was let through Half-Open.
Idle == [order |-> <<>>, pos |-> 0, halfOpen |-> FALSE]
Trying(c) == call[c].pos > 0
NodeOf(c) == call[c].order[call[c].pos]

TypeOK ==
    /\ now \in 0 .. MaxTime
    /\ cb \in [Nodes -> [state : {"Closed", "Open", "Half-Open"},
                         failures : Seq(0 .. MaxTime),
                         openedAt : 0 .. MaxTime, probe : BOOLEAN]]
    /\ state \in [Nodes -> {"Active", "Degraded", "Inactive"}]
    /\ consecutiveFailures \in [Nodes -> 0 .. MaxFailures]
    /\ cooldownUntil \in [Nodes -> 0 .. MaxTime + CooldownMax]
    /\ probeInFlight \in [Nodes -> BOOLEAN]
    /\ roundRobinIndex \in 0 .. N - 1
    /\ call \in [Calls -> {Idle} \cup [order : [Nodes -> Nodes], pos : Nodes,
                                      halfOpen : BOOLEAN]]

Init ==
    /\ now = 0
    /\ cb = [n \in Nodes |-> NewBreaker]
    /\ state = [n \in Nodes |-> "Active"]
    /\ consecutiveFailures = [n \in Nodes |-> 0]
    /\ cooldownUntil = [n \in Nodes |-> 0]
    /\ probeInFlight = [n \in Nodes |-> FALSE]
    /\ roundRobinIndex = 0
    /\ call = [c \in Calls |-> Idle]

-----------------------------------------------------------------------------
(* getOrderedNodes *)

Active == {n \in Nodes : state[n] = "Active"}

\* Active nodes by position, then the others by the end of their cooldown:
\* the recoverable ones come before the cooling ones by the same token.
Before(m, n) ==
    IF m \in Active \/ n \in Active
      THEN m \in Active /\ (n \notin Active \/ m < n)
      ELSE \/ cooldownUntil[m] < cooldownUntil[n]
           \/ cooldownUntil[m] = cooldownUntil[n] /\ m < n

Ranked == [i \in Nodes |-> CHOOSE n \in Nodes :
              i = 1 + Cardinality({m \in Nodes : Before(m, n)})]

\* The pool that round_robin rotates: the active nodes, or all if none is.
PrimaryPool == IF Active = {} THEN N ELSE Cardinality(Active)

OrderedNodes ==
    IF Strategy = "priority" THEN Ranked
    ELSE [i \in Nodes |->
            IF i > PrimaryPool THEN Ranked[i]
            ELSE Ranked[1 + ((roundRobinIndex + i - 1) % PrimaryPool)]]

Rotate ==
    roundRobinIndex' = IF Strategy = "priority" \/ PrimaryPool = 1
                         THEN roundRobinIndex
                         ELSE (roundRobinIndex + 1) % PrimaryPool

-----------------------------------------------------------------------------
(* Marks *)

\* cb.recordSuccess and markNodeActive
MarkNodeActive(n) ==
    /\ cb' = [cb EXCEPT ![n] = RecordSuccess(@)]
    /\ state' = [state EXCEPT ![n] = "Active"]
    /\ consecutiveFailures' = [consecutiveFailures EXCEPT ![n] = 0]
    /\ cooldownUntil' = [cooldownUntil EXCEPT ![n] = 0]

\* getCooldownMs
Cooldown(failures) ==
    LET doubled == CooldownBase * 2 ^ (failures - 1)
    IN IF doubled < CooldownMax THEN doubled ELSE CooldownMax

\* markNodeUnavailable; cb.recordFailure comes before it at every call
MarkNodeUnavailable(n) ==
    LET failures == consecutiveFailures[n] + 1
    IN /\ failures <= MaxFailures
       /\ state' = [state EXCEPT ![n] =
                      IF failures >= InactiveThreshold THEN "Inactive" ELSE "Degraded"]
       /\ consecutiveFailures' = [consecutiveFailures EXCEPT ![n] = failures]
       /\ cooldownUntil' = [cooldownUntil EXCEPT ![n] = now + Cooldown(failures)]

-----------------------------------------------------------------------------
(* The loop *)

\* From position i on, the loop takes the first node whose breaker admits the
\* request; breakers is cb as the step has left it so far.
Advance(c, order, i, breakers) ==
    LET admitting == {j \in i .. N : Admits(breakers[order[j]], now)}
        Try(j) ==
            /\ \A k \in admitting : j <= k
            /\ cb' = [breakers EXCEPT ![order[j]] = Admitted(@, now)]
            /\ call' = [call EXCEPT ![c] =
                 [order |-> order, pos |-> j,
                  halfOpen |-> HalfOpened(breakers[order[j]], now).state
                                 = "Half-Open"]]
    IN \/ \E j \in admitting : Try(j)
       \/ /\ admitting = {}
          /\ cb' = breakers
          /\ call' = [call EXCEPT ![c] = Idle]

\* scheduleRecoveryProbe: with an active node around, the first node that has
\* cooled down and has no probe running gets one.
CandidatesForProbe ==
    {n \in Nodes \ Active : ~probeInFlight[n] /\ now >= cooldownUntil[n]}

ScheduleRecoveryProbe ==
    probeInFlight' =
        [n \in Nodes |->
            \/ probeInFlight[n]
            \/ /\ Active # {} /\ n \in CandidatesForProbe
               /\ \A m \in CandidatesForProbe : n <= m]

Begin(c) ==
    /\ ~Trying(c)
    /\ ScheduleRecoveryProbe
    /\ Rotate
    /\ Advance(c, OrderedNodes, 1, cb)
    /\ UNCHANGED <<now, state, consecutiveFailures, cooldownUntil>>

Succeeds(c) ==
    /\ Trying(c)
    /\ MarkNodeActive(NodeOf(c))
    /\ call' = [call EXCEPT ![c] = Idle]
    /\ UNCHANGED <<now, probeInFlight, roundRobinIndex>>

\* A final error that counts against the node's breaker.
FinalErrorCounts(c) ==
    /\ Trying(c)
    /\ cb' = [cb EXCEPT ![NodeOf(c)] = RecordFailure(@, now)]
    /\ Len(cb'[NodeOf(c)].failures) <= MaxFailures
    /\ call' = [call EXCEPT ![c] = Idle]
    /\ UNCHANGED <<now, state, consecutiveFailures, cooldownUntil,
                   probeInFlight, roundRobinIndex>>

\* A final error is the client's, so the breaker counts it as a success, but
\* the node is not marked.
FinalError(c) ==
    /\ Trying(c)
    /\ cb' = [cb EXCEPT ![NodeOf(c)] = RecordSuccess(@)]
    /\ call' = [call EXCEPT ![c] = Idle]
    /\ UNCHANGED <<now, state, consecutiveFailures, cooldownUntil,
                   probeInFlight, roundRobinIndex>>

\* A retryable error: the loop goes on with the next node.
RetryableError(c) ==
    /\ Trying(c)
    /\ MarkNodeUnavailable(NodeOf(c))
    /\ Advance(c, call[c].order, call[c].pos + 1,
               [cb EXCEPT ![NodeOf(c)] = RecordFailure(@, now)])
    /\ UNCHANGED <<now, probeInFlight, roundRobinIndex>>

-----------------------------------------------------------------------------
(* Recovery probes, the health endpoint and time *)

ProbeSucceeds(n) ==
    /\ probeInFlight[n]
    /\ MarkNodeActive(n)
    /\ probeInFlight' = [probeInFlight EXCEPT ![n] = FALSE]
    /\ UNCHANGED <<now, roundRobinIndex, call>>

ProbeFails(n) ==
    /\ probeInFlight[n]
    /\ cb' = [cb EXCEPT ![n] = RecordFailure(@, now)]
    /\ MarkNodeUnavailable(n)
    /\ probeInFlight' = [probeInFlight EXCEPT ![n] = FALSE]
    /\ UNCHANGED <<now, roundRobinIndex, call>>

\* getNodeStatuses asks every breaker for its status, which half-opens the
\* ones that are due and prunes their old failures.
GetNodeStatuses ==
    /\ cb' = [n \in Nodes |->
                [HalfOpened(cb[n], now) EXCEPT !.failures = Recent(@, now)]]
    /\ UNCHANGED <<now, state, consecutiveFailures, cooldownUntil,
                   probeInFlight, roundRobinIndex, call>>

Tick ==
    /\ now < MaxTime
    /\ now' = now + 1
    /\ UNCHANGED <<nodeVars, probeInFlight, roundRobinIndex, call>>

Next ==
    \/ \E c \in Calls : Begin(c) \/ Succeeds(c) \/ FinalError(c) \/ RetryableError(c)
    \/ \E n \in Nodes : ProbeSucceeds(n) \/ ProbeFails(n)
    \/ GetNodeStatuses
    \/ Tick

Spec == Init /\ [][Next]_vars

-----------------------------------------------------------------------------
(* Properties *)

\* The node marks and the breakers are kept by different code, but an Active
\* node's breaker is Closed with no failures: a node the order puts first is
\* never skipped by its own breaker, whatever late answers arrive.
ActiveNodesAdmit ==
    \A n \in Nodes :
        state[n] = "Active" =>
            /\ cb[n].state = "Closed" /\ cb[n].failures = <<>>
            /\ consecutiveFailures[n] = 0 /\ cooldownUntil[n] = 0

\* The Half-Open probe flag is always held by a running attempt that was let
\* through Half-Open; a flag nobody will clear would shut the node out for
\* good.
ProbeFlagHeld ==
    \A n \in Nodes :
        cb[n].probe =>
            /\ cb[n].state = "Half-Open"
            /\ \E c \in Calls : Trying(c) /\ NodeOf(c) = n /\ call[c].halfOpen

\* A call that gives up without having asked any node found no Active node:
\* Open breakers alone never hide a healthy one.
GivesUp(c) == ~Trying(c) /\ call' = [call EXCEPT ![c] = Idle] /\ Begin(c)
UnattemptedOnlyIfNoneActive == [][\A c \in Calls : GivesUp(c) => Active = {}]_vars

\* A Closed breaker opens only on FailureThreshold failures younger than the
\* window.
Trips(n) == cb[n].state = "Closed" /\ cb'[n].state = "Open"
TripsOnRecentFailures ==
    [][\A n \in Nodes : Trips(n) =>
          Cardinality({i \in DOMAIN cb'[n].failures :
                          cb'[n].failures[i] > now - Window}) >= FailureThreshold]_vars

\* "allows exactly one probe in Half-Open state": of the running attempts on a
\* node at most one was let through Half-Open.
OneHalfOpenProbe ==
    \A c, d \in Calls :
        Trying(c) /\ Trying(d) /\ NodeOf(c) = NodeOf(d)
        /\ call[c].halfOpen /\ call[d].halfOpen => c = d

\* Marks and breakers, which calls update in any order, stay consistent: the
\* breaker of an Active node admits requests and a Half-Open probe flag is held
\* by a running request that will clear it.
BreakersSound == TypeOK /\ ActiveNodesAdmit /\ ProbeFlagHeld
=============================================================================

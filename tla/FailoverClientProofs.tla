------------------------ MODULE FailoverClientProofs ------------------------
(***************************************************************************)
(* What the Node server's Horizon failover client guarantees for every     *)
(* number of nodes and calls and every threshold: the order is one of all  *)
(* the nodes, marks and breakers agree, a Half-Open probe flag is held,    *)
(* no call gives up on an active node unasked, and a breaker trips on      *)
(* recent failures only.  And that the client's offline queue loses        *)
(* nothing that was put in it.                                             *)
(***************************************************************************)
EXTENDS FailoverClient, PaymasterQueue, SequenceTheorems, FiniteSetTheorems, TLAPS

-----------------------------------------------------------------------------
(* The order of the nodes *)

\* A power of two is a natural number: the number of subsets of 1 .. n.
LEMMA PowerIsNat ==
    ASSUME NEW n \in Nat
    PROVE  2 ^ n \in Nat
<1>1. IsFiniteSet(1 .. n) /\ Cardinality(1 .. n) = n
    BY FS_Interval
<1>2. IsFiniteSet(SUBSET (1 .. n)) /\ Cardinality(SUBSET (1 .. n)) = 2 ^ n
    BY <1>1, FS_SUBSET
<1> QED BY <1>2, FS_CardinalityType

\* A cooldown never exceeds the maximum.
LEMMA CooldownIsCapped ==
    ASSUME NEW failures \in Nat \ {0}
    PROVE  Cooldown(failures) \in 0 .. CooldownMax
<1>1. 2 ^ (failures - 1) \in Nat
  <2>1. failures - 1 \in Nat
      OBVIOUS
  <2> QED BY <2>1, PowerIsNat
<1>2. CooldownBase * 2 ^ (failures - 1) \in Nat
  <2>1. \A a, x \in Nat : a * x \in Nat
      OBVIOUS
  <2> QED BY <1>1, <2>1, ClientAssumption
<1> QED BY <1>2, ClientAssumption DEF Cooldown

LEMMA NodesFinite == IsFiniteSet(Nodes) /\ Cardinality(Nodes) = N
BY FS_Interval, ClientAssumption DEF Nodes

\* Every place of the ranking has a node, and the first places are those of the
\* active nodes.
LEMMA RankedNodes ==
    ASSUME cooldownUntil \in [Nodes -> Nat]
    PROVE  /\ Ranked \in [Nodes -> Nodes]
           /\ IsFiniteSet(Active) /\ Cardinality(Active) \in 0 .. N
           /\ \A i \in 1 .. Cardinality(Active) : Ranked[i] \in Active
<1> DEFINE R == {p \in Nodes \X Nodes : Before(p[1], p[2])}
           Place(n) == 1 + Cardinality({m \in Nodes : Before(m, n)})
<1>1. /\ \A x \in Nodes : ~Before(x, x)
      /\ \A x, y \in Nodes : x # y => Before(x, y) \/ Before(y, x)
      /\ \A x, y, z \in Nodes : Before(x, y) /\ Before(y, z) => Before(x, z)
  <2>1. \A n \in Nodes : n \in Int /\ cooldownUntil[n] \in Int
      BY DEF Nodes
  <2> HIDE DEF Nodes
  <2> QED BY <2>1 DEF Before
<1>2. \A x, y \in Nodes : <<x, y>> \in R <=> Before(x, y)
    OBVIOUS
<1>3. \A n \in Nodes : {m \in Nodes : <<m, n>> \in R} = {m \in Nodes : Before(m, n)}
    BY <1>2
<1>4. ASSUME NEW i \in Nodes PROVE \E n \in Nodes : i = Place(n)
  <2>1. i \in 1 .. Cardinality(Nodes)
      BY NodesFinite DEF Nodes
  <2> HIDE DEF R
  <2>3. /\ \A x \in Nodes : <<x, x>> \notin R
        /\ \A x, y \in Nodes : x # y => <<x, y>> \in R \/ <<y, x>> \in R
        /\ \A x, y, z \in Nodes : <<x, y>> \in R /\ <<y, z>> \in R => <<x, z>> \in R
      BY <1>1, <1>2
  <2>2. PICK n \in Nodes : i = 1 + Rank(n, Nodes, R)
      BY <2>1, <2>3, NodesFinite, EveryRankIsTaken
  <2> QED BY <1>3, <2>2 DEF Rank
<1>5. \A i \in Nodes : Ranked[i] \in Nodes /\ i = Place(Ranked[i])
  <2> SUFFICES ASSUME NEW i \in Nodes PROVE Ranked[i] \in Nodes /\ i = Place(Ranked[i])
      OBVIOUS
  <2>1. Ranked[i] = CHOOSE n \in Nodes : i = Place(n)
      BY DEF Ranked
  <2> HIDE DEF Place
  <2> QED BY <1>4, <2>1
<1>6. Ranked \in [Nodes -> Nodes]
    BY <1>5 DEF Ranked
<1>7. IsFiniteSet(Active) /\ Cardinality(Active) \in 0 .. N
  <2>1. Active \in SUBSET Nodes
      BY DEF Active
  <2>2. IsFiniteSet(Active) /\ Cardinality(Active) <= N
      BY <2>1, NodesFinite, FS_Subset
  <2> QED BY <2>2, FS_CardinalityType, ClientAssumption
<1>8. ASSUME NEW i \in 1 .. Cardinality(Active), Ranked[i] \notin Active PROVE FALSE
  <2>1. i \in Nodes
      BY <1>7, ClientAssumption DEF Nodes
  <2> DEFINE B == {m \in Nodes : Before(m, Ranked[i])}
  <2>2. Ranked[i] \in Nodes /\ i = 1 + Cardinality(B)
      BY <1>5, <2>1
  <2>3. Active \in SUBSET B
      BY <1>8, <2>2 DEF Before, Active
  <2>4. B \in SUBSET Nodes
      OBVIOUS
  <2> HIDE DEF B
  <2>5. IsFiniteSet(B) /\ Cardinality(B) \in Nat
      BY <2>4, NodesFinite, FS_Subset, FS_CardinalityType
  <2>6. Cardinality(Active) <= Cardinality(B)
      BY <2>3, <2>5, FS_Subset
  <2> QED BY <1>7, <2>2, <2>5, <2>6
<1> QED BY <1>6, <1>7, <1>8

\* Under either strategy every place of the order has a node, and with an active
\* node around the first place has one.
LEMMA OrderedNodesType ==
    ASSUME cooldownUntil \in [Nodes -> Nat], roundRobinIndex \in Nat
    PROVE  /\ OrderedNodes \in [Nodes -> Nodes]
           /\ Active # {} => OrderedNodes[1] \in Active
           /\ PrimaryPool \in 1 .. N
<1>1. /\ Ranked \in [Nodes -> Nodes] /\ IsFiniteSet(Active)
      /\ Cardinality(Active) \in 0 .. N
      /\ \A i \in 1 .. Cardinality(Active) : Ranked[i] \in Active
    BY RankedNodes
<1>2. Active # {} => Cardinality(Active) # 0
    BY <1>1, FS_EmptySet
<1>3. PrimaryPool \in 1 .. N /\ (Active # {} => PrimaryPool = Cardinality(Active))
    BY <1>1, <1>2, ClientAssumption DEF PrimaryPool
<1>4. \A i \in Nodes : 1 + ((roundRobinIndex + i - 1) % PrimaryPool) \in 1 .. PrimaryPool
  <2>1. \A a \in Nat : \A p \in Nat \ {0} : 1 + (a % p) \in 1 .. p
      OBVIOUS
  <2>2. \A i \in Nodes : roundRobinIndex + i - 1 \in Nat
      BY ClientAssumption DEF Nodes
  <2> HIDE DEF Nodes
  <2> QED BY <1>3, <2>1, <2>2, ClientAssumption
<1>5. 1 \in Nodes /\ \A i \in 1 .. PrimaryPool : i \in Nodes
    BY <1>3, ClientAssumption DEF Nodes
<1>6. OrderedNodes \in [Nodes -> Nodes]
  <2>1. CASE Strategy = "priority"
      BY <1>1, <2>1 DEF OrderedNodes
  <2>2. CASE Strategy # "priority"
    <3>1. \A i \in Nodes : Ranked[1 + ((roundRobinIndex + i - 1) % PrimaryPool)] \in Nodes
        BY <1>1, <1>4, <1>5
    <3> QED BY <1>1, <2>2, <3>1 DEF OrderedNodes
  <2> QED BY <2>1, <2>2
<1>7. ASSUME Active # {} PROVE OrderedNodes[1] \in Active
  <2>1. 1 \in 1 .. Cardinality(Active) /\ PrimaryPool = Cardinality(Active)
      BY <1>1, <1>3, <1>7
  <2>2. CASE Strategy = "priority"
      BY <1>1, <2>1, <2>2 DEF OrderedNodes
  <2>3. CASE Strategy # "priority"
    <3>1. OrderedNodes[1] = Ranked[1 + ((roundRobinIndex + 1 - 1) % PrimaryPool)]
        BY <1>3, <1>5, <2>1, <2>3, ClientAssumption DEF OrderedNodes
    <3> QED BY <1>1, <1>4, <1>5, <2>1, <3>1
  <2> QED BY <2>2, <2>3
<1> QED BY <1>3, <1>6, <1>7

-----------------------------------------------------------------------------
(* The breaker *)

Times == 0 .. MaxTime
Breakers == [state : {"Closed", "Open", "Half-Open"}, failures : Seq(Times),
             openedAt : Times, probe : BOOLEAN]

\* Pruning keeps timestamps, and only the recent ones.
LEMMA RecentFailures ==
    ASSUME NEW f \in Seq(Times), NEW t \in Times
    PROVE  /\ Recent(f, t) \in Seq(Times)
           /\ \A k \in 1 .. Len(Recent(f, t)) : Recent(f, t)[k] > t - Window
           /\ f = <<>> => Recent(f, t) = <<>>
<1> DEFINE kept == {i \in DOMAIN f : f[i] > t - Window}
<1>1. DOMAIN f = 1 .. Len(f) /\ Len(f) \in Nat
    OBVIOUS
<1>2. kept \in SUBSET (1 .. Len(f)) /\ \A i \in kept : f[i] > t - Window
    BY <1>1
<1>3. Recent(f, t) = Picked(f, kept)
    BY DEF Recent
<1>4. f = <<>> => kept = {}
    BY <1>1
<1> HIDE DEF kept
<1>5. /\ Recent(f, t) \in Seq(Times) /\ Len(Recent(f, t)) = Cardinality(kept)
      /\ Cardinality(kept) = 0 <=> kept = {}
    BY <1>2, <1>3, PickedPositions
<1>6. PICK g \in [1 .. Cardinality(kept) -> kept] :
         \A k \in 1 .. Cardinality(kept) : Recent(f, t)[k] = f[g[k]]
    BY <1>2, <1>3, PickedPositions
<1>7. \A k \in 1 .. Len(Recent(f, t)) : Recent(f, t)[k] > t - Window
    BY <1>2, <1>5, <1>6
<1>8. f = <<>> => Recent(f, t) = <<>>
    BY <1>4, <1>5
<1> QED BY <1>5, <1>7, <1>8

\* The flag is only up in Half-Open.
FlagSound(b) == b.probe => b.state = "Half-Open"

LEMMA HalfOpenedBreaker ==
    ASSUME NEW b \in Breakers, NEW t \in Times
    PROVE  /\ HalfOpened(b, t) \in Breakers
           /\ HalfOpened(b, t).failures = b.failures
           /\ b.state = "Closed" => HalfOpened(b, t) = b
           /\ HalfOpened(b, t).state = "Open" => HalfOpened(b, t) = b
           /\ HalfOpened(b, t).state = "Closed" => HalfOpened(b, t) = b
           /\ FlagSound(b) => (HalfOpened(b, t).probe <=> b.probe)
           /\ b.probe => HalfOpened(b, t).state = b.state \/ ~HalfOpened(b, t).probe
BY DEF HalfOpened, Breakers, FlagSound

LEMMA AdmittedBreaker ==
    ASSUME NEW b \in Breakers, NEW t \in Times, Admits(b, t)
    PROVE  /\ Admitted(b, t) \in Breakers
           /\ Admitted(b, t).failures = b.failures
           /\ Admitted(b, t).state # "Open"
           /\ b.state = "Closed" => Admitted(b, t).state = "Closed"
           /\ FlagSound(b) => FlagSound(Admitted(b, t))
           /\ FlagSound(b) => (Admitted(b, t).probe =>
                                 HalfOpened(b, t).state = "Half-Open")
<1> DEFINE h == HalfOpened(b, t)
<1>1. /\ h \in Breakers /\ h.failures = b.failures
      /\ b.state = "Closed" => h = b
      /\ FlagSound(b) => (h.probe <=> b.probe)
      /\ h.state = "Closed" => h = b
    BY HalfOpenedBreaker
<1>2. Admitted(b, t) = [h EXCEPT !.probe = (h.state = "Half-Open") \/ @]
    BY DEF Admitted
<1>3. h.state = "Closed" \/ (h.state = "Half-Open" /\ ~h.probe)
    BY DEF Admits
<1> HIDE DEF h
<1>4. CASE h.state = "Closed"
  <2>1. (FlagSound(b) => ~h.probe) /\ h.probe \in BOOLEAN
      BY <1>1, <1>4 DEF FlagSound, Breakers
  <2>2. Admitted(b, t) = [h EXCEPT !.probe = h.probe]
    <3>1. ((h.state = "Half-Open") \/ h.probe) = h.probe
        BY <1>4, <2>1
    <3> QED BY <1>2, <3>1
  <2>3. Admitted(b, t) = h
      BY <1>1, <2>2 DEF Breakers
  <2> QED BY <1>1, <1>4, <2>1, <2>3 DEF FlagSound
<1>5. CASE h.state = "Half-Open"
  <2>1. Admitted(b, t) = [h EXCEPT !.probe = TRUE]
      BY <1>2, <1>5
  <2> QED BY <1>1, <1>5, <2>1 DEF FlagSound, Breakers, h
<1> QED BY <1>3, <1>4, <1>5

LEMMA RecordSuccessBreaker ==
    ASSUME NEW b \in Breakers
    PROVE  /\ RecordSuccess(b) \in Breakers
           /\ RecordSuccess(b).state = "Closed" /\ RecordSuccess(b).failures = <<>>
           /\ FlagSound(b) => ~RecordSuccess(b).probe
<1> DEFINE probe == b.probe /\ b.state # "Half-Open"
<1>1. probe \in BOOLEAN
    OBVIOUS
<1>2. FlagSound(b) => probe = FALSE
    BY DEF FlagSound
<1>3. RecordSuccess(b) =
        [state |-> "Closed", failures |-> <<>>, openedAt |-> 0, probe |-> probe]
    BY DEF RecordSuccess
<1>4. 0 \in Times /\ <<>> \in Seq(Times)
    BY ClientAssumption DEF Times
<1> HIDE DEF probe
<1> QED BY <1>1, <1>2, <1>3, <1>4 DEF Breakers

LEMMA RecordFailureBreaker ==
    ASSUME NEW b \in Breakers, NEW t \in Times
    PROVE  /\ RecordFailure(b, t) \in Breakers
           /\ FlagSound(b) => ~RecordFailure(b, t).probe
           /\ b.state = "Closed" /\ RecordFailure(b, t).state = "Open" =>
                /\ Len(RecordFailure(b, t).failures) >= FailureThreshold
                /\ \A k \in 1 .. Len(RecordFailure(b, t).failures) :
                      RecordFailure(b, t).failures[k] > t - Window
<1> DEFINE recent == Recent(Append(b.failures, t), t)
           noted == [b EXCEPT !.failures = recent]
<1>1. Append(b.failures, t) \in Seq(Times)
    BY DEF Breakers
<1>2. recent \in Seq(Times) /\ \A k \in 1 .. Len(recent) : recent[k] > t - Window
    BY <1>1, RecentFailures
<1>3. RecordFailure(b, t) =
        CASE b.state = "Half-Open" ->
               [noted EXCEPT !.state = "Open", !.openedAt = t, !.probe = FALSE]
          [] b.state = "Closed" /\ Len(recent) >= FailureThreshold ->
               [noted EXCEPT !.state = "Open", !.openedAt = t]
          [] OTHER -> noted
    BY DEF RecordFailure
<1> HIDE DEF recent
<1>4. noted \in Breakers /\ noted.state = b.state /\ noted.failures = recent
      /\ noted.probe = b.probe
    BY <1>2 DEF Breakers
<1> HIDE DEF noted
<1>5. CASE b.state = "Half-Open"
    BY <1>2, <1>3, <1>4, <1>5 DEF Breakers
<1>6. CASE b.state = "Closed" /\ Len(recent) >= FailureThreshold
  <2>1. RecordFailure(b, t) = [noted EXCEPT !.state = "Open", !.openedAt = t]
      BY <1>3, <1>6
  <2> QED BY <1>2, <1>4, <1>6, <2>1 DEF Breakers, FlagSound
<1>7. CASE b.state # "Half-Open" /\ ~(b.state = "Closed" /\ Len(recent) >= FailureThreshold)
  <2>1. RecordFailure(b, t) = noted
      BY <1>3, <1>7
  <2> QED BY <1>4, <1>7, <2>1 DEF FlagSound
<1> QED BY <1>5, <1>6, <1>7

-----------------------------------------------------------------------------
(* Marks and breakers *)

Attempts == [order : [Nodes -> Nodes], pos : Nodes, halfOpen : BOOLEAN]

\* A call that is trying stands at a node.
LEMMA TryingAtNode ==
    ASSUME call \in [Calls -> {Idle} \cup Attempts], NEW c \in Calls, Trying(c)
    PROVE  call[c] \in Attempts /\ NodeOf(c) \in Nodes
<1>1. call[c] \in Attempts
    BY DEF Trying, Idle
<1> QED BY <1>1 DEF Attempts, NodeOf

\* The two ways the loop goes on: it takes a node whose breaker admits it, or it
\* has none left.
Takes(c, order, j, breakers) ==
    /\ Admits(breakers[order[j]], now)
    /\ cb' = [breakers EXCEPT ![order[j]] = Admitted(@, now)]
    /\ call' = [call EXCEPT ![c] =
         [order |-> order, pos |-> j,
          halfOpen |-> HalfOpened(breakers[order[j]], now).state = "Half-Open"]]

LEMMA AdvanceCases ==
    ASSUME NEW c \in Calls, NEW order, NEW i \in Nat \ {0}, NEW breakers,
           Advance(c, order, i, breakers)
    PROVE  \/ \E j \in Nodes : j >= i /\ Takes(c, order, j, breakers)
           \/ /\ \A j \in i .. N : ~Admits(breakers[order[j]], now)
              /\ cb' = breakers
              /\ call' = [call EXCEPT ![c] = Idle]
<1>1. \A j \in i .. N : j \in Nodes /\ j >= i
    BY ClientAssumption DEF Nodes
<1> QED BY <1>1 DEF Advance, Takes

\* Breakers of which those of S admit requests, flags are only up in Half-Open
\* and every flag is held by another call than c.
ClosedAt(S, breakers) ==
    \A n \in S : breakers[n].state = "Closed" /\ breakers[n].failures = <<>>
HeldByOthers(c, breakers) ==
    \A n \in Nodes : breakers[n].probe =>
        \E d \in Calls \ {c} : Trying(d) /\ NodeOf(d) = n /\ call[d].halfOpen
FlagsSound(breakers) == \A n \in Nodes : FlagSound(breakers[n])

\* What the loop leaves behind when it goes on.
LEMMA AdvanceKeeps ==
    ASSUME NEW c \in Calls, NEW order \in [Nodes -> Nodes], NEW i \in Nat \ {0},
           NEW breakers \in [Nodes -> Breakers], NEW S \in SUBSET Nodes,
           now \in Times, call \in [Calls -> {Idle} \cup Attempts],
           Advance(c, order, i, breakers),
           ClosedAt(S, breakers), FlagsSound(breakers), HeldByOthers(c, breakers)
    PROVE  /\ cb' \in [Nodes -> Breakers]
           /\ call' \in [Calls -> {Idle} \cup Attempts]
           /\ ClosedAt(S, cb')
           /\ ProbeFlagHeld'
<1>1. ASSUME NEW n \in Nodes, NEW d \in Calls \ {c},
             Trying(d), NodeOf(d) = n, call[d].halfOpen,
             \E a : call' = [call EXCEPT ![c] = a]
      PROVE  Trying(d)' /\ NodeOf(d)' = n /\ call'[d].halfOpen
  <2>1. call'[d] = call[d]
      BY <1>1
  <2> QED BY <1>1, <2>1 DEF Trying, NodeOf
<1>2. ASSUME NEW j \in Nodes, Takes(c, order, j, breakers)
      PROVE  /\ cb' \in [Nodes -> Breakers]
             /\ call' \in [Calls -> {Idle} \cup Attempts]
             /\ ClosedAt(S, cb')
             /\ ProbeFlagHeld'
  <2> DEFINE m == order[j]
             b == Admitted(breakers[m], now)
             half == HalfOpened(breakers[m], now).state = "Half-Open"
             a == [order |-> order, pos |-> j, halfOpen |-> half]
  <2>1. m \in Nodes /\ breakers[m] \in Breakers /\ Admits(breakers[m], now)
      BY <1>2 DEF Takes
  <2>2. /\ b \in Breakers /\ b.failures = breakers[m].failures
        /\ breakers[m].state = "Closed" => b.state = "Closed"
        /\ FlagSound(b) /\ (b.probe => half)
      BY <2>1, AdmittedBreaker DEF FlagsSound
  <2>3. cb' = [breakers EXCEPT ![m] = b] /\ call' = [call EXCEPT ![c] = a]
      BY <1>2 DEF Takes
  <2>4. a \in Attempts /\ a.pos = j /\ a.order[a.pos] = m /\ a.halfOpen = half
    <3>1. half \in BOOLEAN
        OBVIOUS
    <3> HIDE DEF half
    <3> QED BY <3>1 DEF Attempts
  <2> HIDE DEF m, b, half, a
  <2>5. cb' \in [Nodes -> Breakers] /\ call' \in [Calls -> {Idle} \cup Attempts]
      BY <2>1, <2>2, <2>3, <2>4
  <2>6. ClosedAt(S, cb')
      BY <2>2, <2>3 DEF ClosedAt
  <2>7. ASSUME NEW n \in Nodes, cb'[n].probe
        PROVE  /\ cb'[n].state = "Half-Open"
               /\ \E d \in Calls : Trying(d)' /\ NodeOf(d)' = n /\ call'[d].halfOpen
    <3>1. CASE n = m
      <4>1. cb'[n] = b
          BY <2>1, <2>3, <3>1
      <4>2. b.state = "Half-Open" /\ half
          BY <2>2, <2>7, <4>1 DEF FlagSound
      <4>3. call'[c] = a
          BY <2>3
      <4>4. Trying(c)' /\ NodeOf(c)' = n /\ call'[c].halfOpen
        <5>1. j > 0
            BY ClientAssumption DEF Nodes
        <5>2. Trying(c)' /\ NodeOf(c)' = n
            BY <2>4, <3>1, <4>3, <5>1 DEF Trying, NodeOf
        <5>3. call'[c].halfOpen
            BY <2>4, <4>2, <4>3, Zenon
        <5> QED BY <5>2, <5>3
      <4> QED BY <4>1, <4>2, <4>4
    <3>2. CASE n # m
      <4>1. cb'[n] = breakers[n]
          BY <2>3, <3>2
      <4>2. PICK d \in Calls \ {c} : Trying(d) /\ NodeOf(d) = n /\ call[d].halfOpen
          BY <2>7, <4>1 DEF HeldByOthers
      <4>3. Trying(d)' /\ NodeOf(d)' = n /\ call'[d].halfOpen
          BY <1>1, <2>3, <4>2
      <4>4. cb'[n].state = "Half-Open"
          BY <2>7, <4>1 DEF FlagSound, FlagsSound
      <4> QED BY <4>3, <4>4
    <3> QED BY <3>1, <3>2
  <2> QED BY <2>5, <2>6, <2>7 DEF ProbeFlagHeld
<1>3. ASSUME cb' = breakers, call' = [call EXCEPT ![c] = Idle]
      PROVE  /\ cb' \in [Nodes -> Breakers]
             /\ call' \in [Calls -> {Idle} \cup Attempts]
             /\ ClosedAt(S, cb')
             /\ ProbeFlagHeld'
  <2>1. ASSUME NEW n \in Nodes, cb'[n].probe
        PROVE  /\ cb'[n].state = "Half-Open"
               /\ \E d \in Calls : Trying(d)' /\ NodeOf(d)' = n /\ call'[d].halfOpen
    <3>1. PICK d \in Calls \ {c} : Trying(d) /\ NodeOf(d) = n /\ call[d].halfOpen
        BY <1>3, <2>1 DEF HeldByOthers
    <3>2. Trying(d)' /\ NodeOf(d)' = n /\ call'[d].halfOpen
        BY <1>1, <1>3, <3>1
    <3> QED BY <1>3, <2>1, <3>2 DEF FlagSound, FlagsSound
  <2> QED BY <1>3, <2>1 DEF ProbeFlagHeld
<1> QED BY <1>2, <1>3, AdvanceCases

LEMMA SoundInit == Init => BreakersSound
<1> SUFFICES ASSUME Init PROVE BreakersSound
    OBVIOUS
<1>1. 0 \in Times /\ <<>> \in Seq(Times) /\ 0 \in 0 .. MaxFailures
      /\ 0 \in 0 .. MaxTime + CooldownMax /\ 0 \in 0 .. N - 1
    BY ClientAssumption DEF Times
<1>2. NewBreaker \in Breakers /\ ~NewBreaker.probe
      /\ NewBreaker.state = "Closed" /\ NewBreaker.failures = <<>>
    BY <1>1 DEF NewBreaker, Breakers
<1>3. TypeOK
    BY <1>1, <1>2 DEF Init, TypeOK, Times, Breakers
<1>4. ActiveNodesAdmit /\ ProbeFlagHeld
    BY <1>2 DEF Init, ActiveNodesAdmit, ProbeFlagHeld
<1> QED BY <1>3, <1>4 DEF BreakersSound

\* What a successful answer of node n does to the marks and the breakers.
LEMMA MarkActiveKeeps ==
    ASSUME BreakersSound, NEW n \in Nodes, MarkNodeActive(n)
    PROVE  /\ cb' \in [Nodes -> Breakers]
           /\ state' \in [Nodes -> {"Active", "Degraded", "Inactive"}]
           /\ consecutiveFailures' \in [Nodes -> 0 .. MaxFailures]
           /\ cooldownUntil' \in [Nodes -> 0 .. MaxTime + CooldownMax]
           /\ ActiveNodesAdmit'
           /\ ~cb'[n].probe
           /\ \A m \in Nodes \ {n} : cb'[m] = cb[m]
<1>1. cb \in [Nodes -> Breakers] /\ FlagSound(cb[n])
    BY DEF BreakersSound, TypeOK, ProbeFlagHeld, FlagSound, Breakers, Times
<1>2. /\ RecordSuccess(cb[n]) \in Breakers /\ RecordSuccess(cb[n]).state = "Closed"
      /\ RecordSuccess(cb[n]).failures = <<>> /\ ~RecordSuccess(cb[n]).probe
    BY <1>1, RecordSuccessBreaker
<1>3. cb' = [cb EXCEPT ![n] = RecordSuccess(cb[n])]
    BY DEF MarkNodeActive
<1>4. cb' \in [Nodes -> Breakers] /\ cb'[n] = RecordSuccess(cb[n])
      /\ \A m \in Nodes \ {n} : cb'[m] = cb[m]
    BY <1>1, <1>2, <1>3
<1>5. 0 \in 0 .. MaxFailures /\ 0 \in 0 .. MaxTime + CooldownMax
    BY ClientAssumption
<1>6. /\ state' \in [Nodes -> {"Active", "Degraded", "Inactive"}]
      /\ consecutiveFailures' \in [Nodes -> 0 .. MaxFailures]
      /\ cooldownUntil' \in [Nodes -> 0 .. MaxTime + CooldownMax]
    BY <1>5 DEF MarkNodeActive, BreakersSound, TypeOK
<1>7. ActiveNodesAdmit'
    BY <1>2, <1>4 DEF MarkNodeActive, BreakersSound, TypeOK, ActiveNodesAdmit
<1> QED BY <1>2, <1>4, <1>6, <1>7

\* What a failure of node n does to its marks: the node is not active.
LEMMA MarkUnavailableKeeps ==
    ASSUME TypeOK, NEW n \in Nodes, MarkNodeUnavailable(n)
    PROVE  /\ state' \in [Nodes -> {"Active", "Degraded", "Inactive"}]
           /\ consecutiveFailures' \in [Nodes -> 0 .. MaxFailures]
           /\ cooldownUntil' \in [Nodes -> 0 .. MaxTime + CooldownMax]
           /\ state'[n] # "Active"
           /\ \A m \in Nodes \ {n} : /\ state'[m] = state[m]
                                     /\ consecutiveFailures'[m] = consecutiveFailures[m]
                                     /\ cooldownUntil'[m] = cooldownUntil[m]
<1> DEFINE f == consecutiveFailures[n] + 1
           s == IF f >= InactiveThreshold THEN "Inactive" ELSE "Degraded"
           u == now + Cooldown(f)
<1>1. f \in Nat \ {0} /\ f <= MaxFailures
    BY ClientAssumption DEF TypeOK, MarkNodeUnavailable
<1>2. Cooldown(f) \in 0 .. CooldownMax
  <2> HIDE DEF f
  <2> QED BY <1>1, CooldownIsCapped
<1>3. u \in 0 .. MaxTime + CooldownMax
  <2> HIDE DEF f
  <2> QED BY <1>2, ClientAssumption DEF TypeOK
<1>4. s \in {"Degraded", "Inactive"}
    OBVIOUS
<1>5. /\ state' = [state EXCEPT ![n] = s]
      /\ consecutiveFailures' = [consecutiveFailures EXCEPT ![n] = f]
      /\ cooldownUntil' = [cooldownUntil EXCEPT ![n] = u]
    BY DEF MarkNodeUnavailable
<1>6. f \in 0 .. MaxFailures
    BY <1>1, ClientAssumption
<1> HIDE DEF f, s, u
<1> QED BY <1>3, <1>4, <1>5, <1>6 DEF TypeOK

\* A call that ends leaves the flags of the other nodes held: they are held by
\* other calls.
LEMMA EndedCallHeldNoOther ==
    ASSUME BreakersSound, NEW c \in Calls, NEW n \in Nodes, Trying(c) => NodeOf(c) = n,
           call' = [call EXCEPT ![c] = Idle], ~cb'[n].probe,
           \A m \in Nodes \ {n} : cb'[m] = cb[m]
    PROVE  ProbeFlagHeld'
<1> SUFFICES ASSUME NEW m \in Nodes, cb'[m].probe
             PROVE  /\ cb'[m].state = "Half-Open"
                    /\ \E d \in Calls : Trying(d)' /\ NodeOf(d)' = m /\ call'[d].halfOpen
    BY DEF ProbeFlagHeld
<1>1. m # n /\ cb'[m] = cb[m]
    OBVIOUS
<1>2. cb[m].state = "Half-Open"
    BY <1>1 DEF BreakersSound, ProbeFlagHeld
<1>3. PICK d \in Calls : Trying(d) /\ NodeOf(d) = m /\ call[d].halfOpen
    BY <1>1 DEF BreakersSound, ProbeFlagHeld
<1>4. d # c
    BY <1>1, <1>3
<1>5. call'[d] = call[d]
    BY <1>4 DEF BreakersSound, TypeOK
<1>6. Trying(d)' /\ NodeOf(d)' = m /\ call'[d].halfOpen
    BY <1>3, <1>5 DEF Trying, NodeOf
<1> QED BY <1>1, <1>2, <1>6

\* A step that changes no breaker but by half-opening and pruning, no call and
\* no mark keeps flags held and active nodes admitting.
LEMMA FlagsOfSameCalls ==
    ASSUME BreakersSound, call' = call, NEW S \in SUBSET Nodes,
           \A m \in Nodes \ S : cb'[m].probe => cb[m].probe /\ cb'[m].state = cb[m].state,
           \A m \in S : ~cb'[m].probe
    PROVE  ProbeFlagHeld'
<1> SUFFICES ASSUME NEW m \in Nodes, cb'[m].probe
             PROVE  /\ cb'[m].state = "Half-Open"
                    /\ \E d \in Calls : Trying(d)' /\ NodeOf(d)' = m /\ call'[d].halfOpen
    BY DEF ProbeFlagHeld
<1>1. cb[m].probe /\ cb'[m].state = cb[m].state
    OBVIOUS
<1>2. cb[m].state = "Half-Open"
    BY <1>1 DEF BreakersSound, ProbeFlagHeld
<1>3. PICK d \in Calls : Trying(d) /\ NodeOf(d) = m /\ call[d].halfOpen
    BY <1>1 DEF BreakersSound, ProbeFlagHeld
<1>4. Trying(d)' /\ NodeOf(d)' = m /\ call'[d].halfOpen
    BY <1>3 DEF Trying, NodeOf
<1> QED BY <1>1, <1>2, <1>4

\* The types, the marks and the flags of a step are those of its variables.
LEMMA SoundFromParts ==
    ASSUME now' \in Times, cb' \in [Nodes -> Breakers],
           state' \in [Nodes -> {"Active", "Degraded", "Inactive"}],
           consecutiveFailures' \in [Nodes -> 0 .. MaxFailures],
           cooldownUntil' \in [Nodes -> 0 .. MaxTime + CooldownMax],
           probeInFlight' \in [Nodes -> BOOLEAN], roundRobinIndex' \in 0 .. N - 1,
           call' \in [Calls -> {Idle} \cup Attempts],
           ActiveNodesAdmit', ProbeFlagHeld'
    PROVE  BreakersSound'
BY DEF BreakersSound, TypeOK, Times, Breakers, Attempts

\* Every step keeps marks and breakers consistent.
LEMMA SoundStep == BreakersSound /\ [Next]_vars => BreakersSound'
<1> SUFFICES ASSUME BreakersSound, [Next]_vars PROVE BreakersSound'
    OBVIOUS
<1>0. /\ TypeOK /\ now \in Times /\ cb \in [Nodes -> Breakers]
      /\ call \in [Calls -> {Idle} \cup Attempts]
      /\ \A n \in Nodes : FlagSound(cb[n])
    BY DEF BreakersSound, TypeOK, ProbeFlagHeld, FlagSound, Times, Breakers, Attempts
<1>1. ASSUME NEW c \in Calls, Begin(c) PROVE BreakersSound'
  <2>1. cooldownUntil \in [Nodes -> Nat] /\ roundRobinIndex \in Nat
      BY <1>0, ClientAssumption DEF TypeOK
  <2>2. OrderedNodes \in [Nodes -> Nodes] /\ PrimaryPool \in 1 .. N
      BY <2>1, OrderedNodesType
  <2>3. HeldByOthers(c, cb) /\ FlagsSound(cb)
      BY <1>0, <1>1 DEF Begin, BreakersSound, ProbeFlagHeld, HeldByOthers, FlagsSound
  <2>4. ClosedAt(Active, cb)
      BY DEF BreakersSound, ActiveNodesAdmit, Active, ClosedAt
  <2>5. /\ cb' \in [Nodes -> Breakers] /\ call' \in [Calls -> {Idle} \cup Attempts]
        /\ ClosedAt(Active, cb')
        /\ ProbeFlagHeld'
    <3>1. Advance(c, OrderedNodes, 1, cb) /\ Active \in SUBSET Nodes /\ 1 \in Nat \ {0}
        BY <1>1 DEF Begin, Active
    <3> HIDE DEF OrderedNodes
    <3> QED BY <1>0, <2>2, <2>3, <2>4, <3>1, AdvanceKeeps
  <2>6. UNCHANGED <<now, state, consecutiveFailures, cooldownUntil>>
      BY <1>1 DEF Begin
  <2>7. ActiveNodesAdmit'
      BY <2>5, <2>6 DEF BreakersSound, ActiveNodesAdmit, Active, ClosedAt
  <2>8. probeInFlight' \in [Nodes -> BOOLEAN]
      BY <1>1 DEF Begin, ScheduleRecoveryProbe
  <2>9. roundRobinIndex' \in 0 .. N - 1
    <3>1. \A a \in Nat : \A p \in 1 .. N : a % p \in 0 .. N - 1
        BY ClientAssumption
    <3>3. roundRobinIndex + 1 \in Nat
        BY <2>1
    <3>2. (roundRobinIndex + 1) % PrimaryPool \in 0 .. N - 1
        BY <2>2, <3>1, <3>3
    <3> QED BY <1>0, <1>1, <3>2 DEF Begin, Rotate, TypeOK
  <2> QED BY <1>0, <2>5, <2>6, <2>7, <2>8, <2>9, SoundFromParts DEF TypeOK
<1>2. ASSUME NEW c \in Calls, Succeeds(c) PROVE BreakersSound'
  <2>1. NodeOf(c) \in Nodes
      BY <1>0, <1>2, TryingAtNode DEF Succeeds
  <2>2. MarkNodeActive(NodeOf(c))
      BY <1>2 DEF Succeeds
  <2>3. /\ cb' \in [Nodes -> Breakers]
        /\ state' \in [Nodes -> {"Active", "Degraded", "Inactive"}]
        /\ consecutiveFailures' \in [Nodes -> 0 .. MaxFailures]
        /\ cooldownUntil' \in [Nodes -> 0 .. MaxTime + CooldownMax]
        /\ ActiveNodesAdmit' /\ ~cb'[NodeOf(c)].probe
        /\ \A m \in Nodes \ {NodeOf(c)} : cb'[m] = cb[m]
      BY <2>1, <2>2, MarkActiveKeeps
  <2>4. call' = [call EXCEPT ![c] = Idle] /\ UNCHANGED <<now, probeInFlight, roundRobinIndex>>
      BY <1>2 DEF Succeeds
  <2>5. ProbeFlagHeld'
      BY <2>1, <2>3, <2>4, EndedCallHeldNoOther
  <2> QED BY <1>0, <2>3, <2>4, <2>5, SoundFromParts DEF TypeOK
<1>3. ASSUME NEW c \in Calls, FinalError(c) PROVE BreakersSound'
  <2>1. NodeOf(c) \in Nodes
      BY <1>0, <1>3, TryingAtNode DEF FinalError
  <2>2. /\ RecordSuccess(cb[NodeOf(c)]) \in Breakers
        /\ RecordSuccess(cb[NodeOf(c)]).state = "Closed"
        /\ RecordSuccess(cb[NodeOf(c)]).failures = <<>>
        /\ ~RecordSuccess(cb[NodeOf(c)]).probe
      BY <1>0, <2>1, RecordSuccessBreaker
  <2>3. cb' = [cb EXCEPT ![NodeOf(c)] = RecordSuccess(cb[NodeOf(c)])]
      BY <1>3 DEF FinalError
  <2>4. /\ call' = [call EXCEPT ![c] = Idle]
        /\ UNCHANGED <<now, state, consecutiveFailures, cooldownUntil, probeInFlight,
                       roundRobinIndex>>
      BY <1>3 DEF FinalError
  <2>5. /\ cb' \in [Nodes -> Breakers] /\ ~cb'[NodeOf(c)].probe
        /\ \A m \in Nodes \ {NodeOf(c)} : cb'[m] = cb[m]
      BY <1>0, <2>1, <2>2, <2>3
  <2>6. ProbeFlagHeld'
      BY <2>1, <2>4, <2>5, EndedCallHeldNoOther
  <2>7. ActiveNodesAdmit'
      BY <1>0, <2>1, <2>2, <2>3, <2>4, <2>5 DEF BreakersSound, ActiveNodesAdmit
  <2> QED BY <1>0, <2>4, <2>5, <2>6, <2>7, SoundFromParts DEF TypeOK
<1>4. ASSUME NEW c \in Calls, RetryableError(c) PROVE BreakersSound'
  <2> DEFINE m == NodeOf(c)
             b == RecordFailure(cb[m], now)
             breakers == [cb EXCEPT ![m] = b]
             S == {n \in Nodes : state'[n] = "Active"}
  <2>1. m \in Nodes /\ call[c] \in Attempts
      BY <1>0, <1>4, TryingAtNode DEF RetryableError
  <2>2. b \in Breakers /\ ~b.probe
      BY <1>0, <2>1, RecordFailureBreaker
  <2>3. /\ state' \in [Nodes -> {"Active", "Degraded", "Inactive"}]
        /\ consecutiveFailures' \in [Nodes -> 0 .. MaxFailures]
        /\ cooldownUntil' \in [Nodes -> 0 .. MaxTime + CooldownMax]
        /\ state'[m] # "Active"
        /\ \A n \in Nodes \ {m} : /\ state'[n] = state[n]
                                  /\ consecutiveFailures'[n] = consecutiveFailures[n]
                                  /\ cooldownUntil'[n] = cooldownUntil[n]
      BY <1>0, <1>4, <2>1, MarkUnavailableKeeps DEF RetryableError
  <2>4. /\ Advance(c, call[c].order, call[c].pos + 1, breakers)
        /\ UNCHANGED <<now, probeInFlight, roundRobinIndex>>
      BY <1>4 DEF RetryableError
  <2>5. call[c].order \in [Nodes -> Nodes] /\ call[c].pos + 1 \in Nat \ {0}
    <3>1. call[c].order \in [Nodes -> Nodes] /\ call[c].pos \in Nodes
        BY <2>1 DEF Attempts
    <3>2. \A i \in Nodes : i + 1 \in Nat \ {0}
        BY ClientAssumption DEF Nodes
    <3> QED BY <3>1, <3>2
  <2> HIDE DEF b
  <2>6. /\ breakers \in [Nodes -> Breakers] /\ breakers[m] = b
        /\ \A n \in Nodes \ {m} : breakers[n] = cb[n]
    <3> HIDE DEF m
    <3> QED BY <1>0, <2>1, <2>2
  <2>7. S \in SUBSET Nodes /\ m \notin S
      BY <2>3
  <2> HIDE DEF m, breakers
  <2>8. FlagsSound(breakers)
      BY <1>0, <2>2, <2>6 DEF FlagSound, FlagsSound
  <2>9. ClosedAt(S, breakers)
      BY <2>3, <2>6, <2>7 DEF BreakersSound, ActiveNodesAdmit, ClosedAt
  <2> HIDE DEF S
  <2>10. ASSUME NEW n \in Nodes, breakers[n].probe
         PROVE  \E d \in Calls \ {c} : Trying(d) /\ NodeOf(d) = n /\ call[d].halfOpen
    <3>1. n # m /\ cb[n].probe
        BY <2>2, <2>6, <2>10
    <3>2. PICK d \in Calls : Trying(d) /\ NodeOf(d) = n /\ call[d].halfOpen
        BY <3>1 DEF BreakersSound, ProbeFlagHeld
    <3>3. d # c
        BY <3>1, <3>2 DEF m
    <3> QED BY <3>2, <3>3
  <2>11. HeldByOthers(c, breakers)
      BY <2>10 DEF HeldByOthers
  <2>12. /\ cb' \in [Nodes -> Breakers] /\ call' \in [Calls -> {Idle} \cup Attempts]
         /\ ClosedAt(S, cb')
         /\ ProbeFlagHeld'
      BY <1>0, <2>4, <2>5, <2>6, <2>7, <2>8, <2>9, <2>11, AdvanceKeeps
  <2>13. ActiveNodesAdmit'
      BY <2>3, <2>12 DEF S, BreakersSound, ActiveNodesAdmit, ClosedAt
  <2> QED BY <1>0, <2>3, <2>4, <2>12, <2>13, SoundFromParts DEF TypeOK
<1>5. ASSUME NEW n \in Nodes, ProbeSucceeds(n) PROVE BreakersSound'
  <2>1. /\ cb' \in [Nodes -> Breakers]
        /\ state' \in [Nodes -> {"Active", "Degraded", "Inactive"}]
        /\ consecutiveFailures' \in [Nodes -> 0 .. MaxFailures]
        /\ cooldownUntil' \in [Nodes -> 0 .. MaxTime + CooldownMax]
        /\ ActiveNodesAdmit' /\ ~cb'[n].probe
        /\ \A m \in Nodes \ {n} : cb'[m] = cb[m]
      BY <1>5, MarkActiveKeeps DEF ProbeSucceeds
  <2>2. /\ UNCHANGED <<now, roundRobinIndex, call>>
        /\ probeInFlight' = [probeInFlight EXCEPT ![n] = FALSE]
      BY <1>5 DEF ProbeSucceeds
  <2>3. ProbeFlagHeld'
    <3>1. {n} \in SUBSET Nodes
        OBVIOUS
    <3> QED BY <2>1, <2>2, <3>1, FlagsOfSameCalls
  <2>4. probeInFlight' \in [Nodes -> BOOLEAN]
      BY <1>0, <2>2 DEF TypeOK
  <2> QED BY <1>0, <2>1, <2>2, <2>3, <2>4, SoundFromParts DEF TypeOK
<1>6. ASSUME NEW n \in Nodes, ProbeFails(n) PROVE BreakersSound'
  <2>1. RecordFailure(cb[n], now) \in Breakers /\ ~RecordFailure(cb[n], now).probe
      BY <1>0, RecordFailureBreaker
  <2>2. /\ cb' = [cb EXCEPT ![n] = RecordFailure(cb[n], now)]
        /\ UNCHANGED <<now, roundRobinIndex, call>>
        /\ probeInFlight' = [probeInFlight EXCEPT ![n] = FALSE]
      BY <1>6 DEF ProbeFails
  <2>3. /\ cb' \in [Nodes -> Breakers] /\ ~cb'[n].probe
        /\ \A m \in Nodes \ {n} : cb'[m] = cb[m]
      BY <1>0, <2>1, <2>2
  <2>4. /\ state' \in [Nodes -> {"Active", "Degraded", "Inactive"}]
        /\ consecutiveFailures' \in [Nodes -> 0 .. MaxFailures]
        /\ cooldownUntil' \in [Nodes -> 0 .. MaxTime + CooldownMax]
        /\ state'[n] # "Active"
        /\ \A m \in Nodes \ {n} : /\ state'[m] = state[m]
                                  /\ consecutiveFailures'[m] = consecutiveFailures[m]
                                  /\ cooldownUntil'[m] = cooldownUntil[m]
      BY <1>0, <1>6, MarkUnavailableKeeps DEF ProbeFails
  <2>5. ProbeFlagHeld'
    <3>1. {n} \in SUBSET Nodes
        OBVIOUS
    <3> QED BY <2>2, <2>3, <3>1, FlagsOfSameCalls
  <2>6. ActiveNodesAdmit'
      BY <2>3, <2>4 DEF BreakersSound, ActiveNodesAdmit
  <2>7. probeInFlight' \in [Nodes -> BOOLEAN]
      BY <1>0, <2>2 DEF TypeOK
  <2> QED BY <1>0, <2>2, <2>3, <2>4, <2>5, <2>6, <2>7, SoundFromParts DEF TypeOK
<1>7. CASE GetNodeStatuses
  <2> DEFINE H(n) == HalfOpened(cb[n], now)
  <2>1. ASSUME NEW n \in Nodes
        PROVE  /\ cb'[n] = [H(n) EXCEPT !.failures = Recent(H(n).failures, now)]
               /\ H(n) \in Breakers /\ H(n).failures = cb[n].failures
               /\ cb[n].state = "Closed" => H(n) = cb[n]
               /\ H(n).probe => cb[n].probe /\ H(n).state = cb[n].state
               /\ Recent(H(n).failures, now) \in Seq(Times)
               /\ cb[n].failures = <<>> => Recent(H(n).failures, now) = <<>>
    <3>1. cb'[n] = [H(n) EXCEPT !.failures = Recent(H(n).failures, now)]
        BY <1>7 DEF GetNodeStatuses
    <3>2. cb[n] \in Breakers /\ FlagSound(cb[n])
        BY <1>0
    <3>3. /\ H(n) \in Breakers /\ H(n).failures = cb[n].failures
          /\ cb[n].state = "Closed" => H(n) = cb[n]
          /\ (H(n).probe <=> cb[n].probe)
          /\ cb[n].probe => H(n).state = cb[n].state \/ ~H(n).probe
        BY <1>0, <3>2, HalfOpenedBreaker
    <3>4. H(n).failures \in Seq(Times)
        BY <3>3 DEF Breakers
    <3> HIDE DEF H
    <3>5. /\ Recent(H(n).failures, now) \in Seq(Times)
          /\ H(n).failures = <<>> => Recent(H(n).failures, now) = <<>>
        BY <1>0, <3>4, RecentFailures
    <3> QED BY <3>1, <3>3, <3>5
  <2> HIDE DEF H
  <2>2. /\ DOMAIN cb' = Nodes /\ cb' = [n \in Nodes |-> cb'[n]]
        /\ UNCHANGED <<now, state, consecutiveFailures, cooldownUntil, probeInFlight,
                       roundRobinIndex, call>>
      BY <1>7 DEF GetNodeStatuses
  <2>3. \A n \in Nodes : /\ cb'[n] \in Breakers
                         /\ cb'[n].probe => cb[n].probe /\ cb'[n].state = cb[n].state
                         /\ cb[n].state = "Closed" /\ cb[n].failures = <<>> =>
                              cb'[n].state = "Closed" /\ cb'[n].failures = <<>>
      BY <2>1 DEF Breakers
  <2>4. cb' \in [Nodes -> Breakers]
      BY <2>2, <2>3
  <2>5. ProbeFlagHeld'
    <3>1. {} \in SUBSET Nodes
        OBVIOUS
    <3> QED BY <2>2, <2>3, <3>1, FlagsOfSameCalls
  <2>6. ActiveNodesAdmit'
      BY <2>2, <2>3 DEF BreakersSound, ActiveNodesAdmit
  <2> QED BY <1>0, <2>2, <2>4, <2>5, <2>6, SoundFromParts DEF TypeOK
<1>8. CASE Tick \/ UNCHANGED vars
  <2>1. /\ now' \in Times
        /\ UNCHANGED <<cb, state, consecutiveFailures, cooldownUntil, probeInFlight,
                       roundRobinIndex, call>>
      BY <1>0, <1>8, ClientAssumption DEF Tick, vars, nodeVars, Times
  <2>2. ActiveNodesAdmit'
      BY <2>1 DEF BreakersSound, ActiveNodesAdmit
  <2>3. ProbeFlagHeld'
    <3>1. {} \in SUBSET Nodes
        OBVIOUS
    <3> QED BY <2>1, <3>1, FlagsOfSameCalls
  <2> QED BY <1>0, <2>1, <2>2, <2>3, SoundFromParts DEF TypeOK
<1> QED BY <1>1, <1>2, <1>3, <1>4, <1>5, <1>6, <1>7, <1>8 DEF Next

\* Whatever late answers, probes and status requests arrive in between, an active
\* node's breaker admits requests and a Half-Open flag is held by a running one.
THEOREM BreakersAreSound == Spec => []BreakersSound
BY SoundInit, SoundStep, PTL DEF Spec

-----------------------------------------------------------------------------
(* What a step never does *)

\* A call that gives up at once would have been let through by the first node of
\* its order, had there been an active one.
LEMMA GivesUpStep ==
    ASSUME BreakersSound, NEW c \in Calls, GivesUp(c)
    PROVE  Active = {}
<1>1. SUFFICES ASSUME Active # {} PROVE FALSE
    OBVIOUS
<1>2. TypeOK /\ cooldownUntil \in [Nodes -> Nat] /\ roundRobinIndex \in Nat
    BY ClientAssumption DEF BreakersSound, TypeOK
<1>3. OrderedNodes[1] \in Active
    BY <1>1, <1>2, OrderedNodesType
<1>4. cb[OrderedNodes[1]].state = "Closed"
    BY <1>3 DEF Active, BreakersSound, ActiveNodesAdmit
<1> HIDE DEF OrderedNodes
<1>5. Admits(cb[OrderedNodes[1]], now)
    BY <1>4 DEF Admits, HalfOpened
<1>6. Advance(c, OrderedNodes, 1, cb) /\ call' = [call EXCEPT ![c] = Idle]
    BY DEF GivesUp, Begin
<1>7. 1 \in 1 .. N
    BY ClientAssumption
<1>8. PICK j \in Nodes : Takes(c, OrderedNodes, j, cb)
    BY <1>5, <1>6, <1>7, AdvanceCases
<1>9. call'[c].pos = j /\ call'[c] = Idle
    BY <1>2, <1>6, <1>8 DEF Takes, TypeOK
<1> QED BY <1>9, ClientAssumption DEF Idle, Nodes

\* No call gives up unasked while a node is active, at any step.
THEOREM ActiveNodeIsAsked == Spec => UnattemptedOnlyIfNoneActive
<1>1. BreakersSound /\ [Next]_vars => [\A c \in Calls : GivesUp(c) => Active = {}]_vars
    BY GivesUpStep
<1> QED BY BreakersAreSound, <1>1, PTL DEF Spec, UnattemptedOnlyIfNoneActive

\* A breaker that opens keeps the failures that opened it.
LEMMA TripsStep ==
    ASSUME BreakersSound, [Next]_vars, NEW n \in Nodes, Trips(n)
    PROVE  Cardinality({i \in DOMAIN cb'[n].failures :
                           cb'[n].failures[i] > now - Window}) >= FailureThreshold
<1>0. /\ TypeOK /\ now \in Times /\ cb \in [Nodes -> Breakers]
      /\ call \in [Calls -> {Idle} \cup Attempts]
      /\ cb[n].state = "Closed" /\ cb'[n].state = "Open"
    BY DEF BreakersSound, TypeOK, Times, Breakers, Attempts, Trips
<1>1. SUFFICES cb'[n] = RecordFailure(cb[n], now)
  <2>1. /\ RecordFailure(cb[n], now) \in Breakers
        /\ Len(cb'[n].failures) >= FailureThreshold
        /\ \A k \in 1 .. Len(cb'[n].failures) : cb'[n].failures[k] > now - Window
      BY <1>0, <1>1, RecordFailureBreaker
  <2>2. cb'[n].failures \in Seq(Times)
      BY <1>1, <2>1 DEF Breakers
  <2>3. {i \in DOMAIN cb'[n].failures : cb'[n].failures[i] > now - Window}
           = 1 .. Len(cb'[n].failures) /\ Len(cb'[n].failures) \in Nat
      BY <2>1, <2>2
  <2>4. Cardinality(1 .. Len(cb'[n].failures)) = Len(cb'[n].failures)
      BY <2>3, FS_Interval
  <2> QED BY <2>1, <2>3, <2>4
<1>2. ASSUME NEW c \in Calls, NEW order \in [Nodes -> Nodes], NEW i \in Nat \ {0},
             NEW breakers \in [Nodes -> Breakers], Advance(c, order, i, breakers)
      PROVE  cb'[n] = breakers[n]
  <2>1. CASE cb' = breakers
      BY <2>1
  <2>2. ASSUME NEW j \in Nodes, Takes(c, order, j, breakers) PROVE cb'[n] = breakers[n]
    <3>1. order[j] \in Nodes /\ breakers[order[j]] \in Breakers
        BY <1>2
    <3>2. Admitted(breakers[order[j]], now).state # "Open"
        BY <1>0, <2>2, <3>1, AdmittedBreaker DEF Takes
    <3>3. cb' = [breakers EXCEPT ![order[j]] = Admitted(breakers[order[j]], now)]
        BY <2>2 DEF Takes
    <3> QED BY <1>0, <1>2, <3>1, <3>2, <3>3
  <2> QED BY <1>2, <2>1, <2>2, AdvanceCases
<1>3. ASSUME NEW c \in Calls, Begin(c) PROVE FALSE
  <2>1. cooldownUntil \in [Nodes -> Nat] /\ roundRobinIndex \in Nat
      BY <1>0, ClientAssumption DEF TypeOK
  <2>2. OrderedNodes \in [Nodes -> Nodes]
      BY <2>1, OrderedNodesType
  <2>3. Advance(c, OrderedNodes, 1, cb) /\ 1 \in Nat \ {0}
      BY <1>3 DEF Begin
  <2> HIDE DEF OrderedNodes
  <2>4. cb'[n] = cb[n]
      BY <1>0, <1>2, <2>2, <2>3
  <2> QED BY <1>0, <2>4
<1>4. ASSUME NEW m \in Nodes, cb' = [cb EXCEPT ![m] = RecordSuccess(cb[m])] PROVE FALSE
  <2>1. RecordSuccess(cb[m]).state = "Closed"
      BY <1>0, RecordSuccessBreaker
  <2> QED BY <1>0, <1>4, <2>1
<1>5. ASSUME NEW c \in Calls, Succeeds(c) \/ FinalError(c) PROVE FALSE
  <2>1. NodeOf(c) \in Nodes
      BY <1>0, <1>5, TryingAtNode DEF Succeeds, FinalError
  <2> QED BY <1>4, <1>5, <2>1 DEF Succeeds, FinalError, MarkNodeActive
<1>6. ASSUME NEW c \in Calls, RetryableError(c) PROVE cb'[n] = RecordFailure(cb[n], now)
  <2> DEFINE m == NodeOf(c)
             b == RecordFailure(cb[m], now)
             breakers == [cb EXCEPT ![m] = b]
  <2>1. m \in Nodes /\ call[c] \in Attempts
      BY <1>0, <1>6, TryingAtNode DEF RetryableError
  <2>2. b \in Breakers
      BY <1>0, <2>1, RecordFailureBreaker
  <2>3. Advance(c, call[c].order, call[c].pos + 1, breakers)
      BY <1>6 DEF RetryableError
  <2>4. call[c].order \in [Nodes -> Nodes] /\ call[c].pos + 1 \in Nat \ {0}
    <3>1. call[c].order \in [Nodes -> Nodes] /\ call[c].pos \in Nodes
        BY <2>1 DEF Attempts
    <3>2. \A i \in Nodes : i + 1 \in Nat \ {0}
        BY ClientAssumption DEF Nodes
    <3> QED BY <3>1, <3>2
  <2> HIDE DEF m, b
  <2>5. breakers \in [Nodes -> Breakers] /\ breakers[m] = b
        /\ (n # m => breakers[n] = cb[n])
      BY <1>0, <2>1, <2>2
  <2> HIDE DEF breakers
  <2>6. cb'[n] = breakers[n]
      BY <1>2, <2>3, <2>4, <2>5
  <2>7. n = m
      BY <1>0, <2>5, <2>6
  <2> QED BY <2>5, <2>6, <2>7 DEF b
<1>7. ASSUME NEW m \in Nodes, ProbeSucceeds(m) PROVE FALSE
    BY <1>4, <1>7 DEF ProbeSucceeds, MarkNodeActive
<1>8. ASSUME NEW m \in Nodes, ProbeFails(m) PROVE cb'[n] = RecordFailure(cb[n], now)
    BY <1>0, <1>8 DEF ProbeFails
<1>9. CASE GetNodeStatuses
  <2>1. cb'[n] = [HalfOpened(cb[n], now) EXCEPT !.failures = Recent(@, now)]
      BY <1>9 DEF GetNodeStatuses
  <2>2. HalfOpened(cb[n], now) = cb[n] /\ cb[n] \in Breakers
      BY <1>0, HalfOpenedBreaker
  <2> QED BY <1>0, <2>1, <2>2 DEF Breakers
<1>10. CASE Tick \/ UNCHANGED vars
    BY <1>0, <1>10 DEF Tick, vars, nodeVars
<1> QED BY <1>3, <1>5, <1>6, <1>7, <1>8, <1>9, <1>10 DEF Next

\* A breaker trips on FailureThreshold failures younger than the window, at any
\* step of any call or probe.
THEOREM TripsAreRecent == Spec => TripsOnRecentFailures
<1>1. BreakersSound /\ [Next]_vars =>
        [\A n \in Nodes : Trips(n) =>
           Cardinality({i \in DOMAIN cb'[n].failures :
                           cb'[n].failures[i] > now - Window}) >= FailureThreshold]_vars
    BY TripsStep
<1> QED BY BreakersAreSound, <1>1, PTL DEF Spec, TripsOnRecentFailures
-----------------------------------------------------------------------------
(* The offline queue of the client *)

ItemCopy == [id : Items, retryCount : Nat]
Removes == {"expire", "succeed", "giveUp"}
PageStages == Writes \cup {"idle", "flush", "item", "catch"}
PageState == [at : PageStages, isFlushing : BOOLEAN, todo : Seq(ItemCopy), sending : BOOLEAN,
              copy : Seq(ItemCopy)]

\* No copy in the array a counts more retries than were made of its item, nor all.
TrueCopies(a, sv, tr) ==
    \A k \in DOMAIN a : a[k].id \in sv /\ a[k].retryCount < maxRetries /\ a[k].retryCount <= tr[a[k].id]

Has(a, i) == \E k \in DOMAIN a : a[k].id = i

\* What the page in state r is about to write holds every item but the one it removes,
\* those that left and those it may overwrite.
CopyHolds(r, sv, ex, st) ==
    r.at \in Writes =>
      \A i \in sv : i \in st \/ i \in ex \/ Has(r.copy, i) \/ (r.at \in Removes /\ i = r.todo[1].id)

PageTrue(r, sv, ex, st, tr) ==
    /\ r \in PageState
    /\ TrueCopies(r.todo, sv, tr)
    /\ r.sending \/ r.at \in Removes \cup {"retry", "catch"} => r.todo # <<>>
    /\ r.at = "save" => /\ r.copy # <<>> /\ r.copy[Len(r.copy)].id \in Items
                        /\ TrueCopies(r.copy, sv \cup {r.copy[Len(r.copy)].id}, tr)
    /\ r.at \in Removes \cup {"retry"} => TrueCopies(r.copy, sv, tr)
    /\ CopyHolds(r, sv, ex, st)
    /\ r.at = "giveUp" => tr[r.todo[1].id] = maxRetries

StorageTrue ==
    /\ storage \in Seq(ItemCopy) /\ TrueCopies(storage, saved, tries)
    /\ \A i \in saved : Has(storage, i) \/ i \in settled \/ i \in exposed

QueueSets ==
    /\ onlineEvent \in SUBSET Tabs /\ saved \in SUBSET Items /\ settled \in SUBSET saved
    /\ tries \in [Items -> 0 .. maxRetries]

QueueIndInv ==
    /\ QueueSets /\ StorageTrue
    /\ tab = [t \in Tabs |-> tab[t]] /\ \A t \in Tabs : PageTrue(tab[t], saved, exposed, settled, tries)

\* Nothing is forgotten of what was saved, settled, exposed and tried.
Grows ==
    /\ saved \subseteq saved' /\ settled \subseteq settled' /\ exposed \subseteq exposed'
    /\ \A i \in Items : tries[i] <= tries'[i]

\* A step of page t to the state r.
PageMoves(t, r) ==
    /\ Page(t, r) /\ PageTrue(r, saved', exposed', settled', tries')
    /\ QueueSets' /\ StorageTrue' /\ Grows
    /\ \/ saved' = saved
       \/ (\E u \in Tabs \ {t} : Writing(u)) => saved' \ saved \subseteq exposed'

LEMMA TrueCopiesGrow ==
    ASSUME QueueSets, QueueSets', Grows, NEW a \in Seq(ItemCopy), NEW x, x \in SUBSET Items,
           TrueCopies(a, saved \cup x, tries)
    PROVE  TrueCopies(a, saved' \cup x, tries')
<1>1. ASSUME NEW k \in DOMAIN a
      PROVE  a[k].id \in saved' \cup x /\ a[k].retryCount < maxRetries /\ a[k].retryCount <= tries'[a[k].id]
  <2>1. a[k] \in ItemCopy
      OBVIOUS
  <2>2. a[k].id \in Items /\ a[k].retryCount \in Nat
      BY <2>1 DEF ItemCopy
  <2>3. tries[a[k].id] \in Nat /\ tries'[a[k].id] \in Nat /\ tries[a[k].id] <= tries'[a[k].id]
      BY <2>2, OfflineQueueAssumption DEF QueueSets, Grows
  <2> QED BY <2>2, <2>3 DEF TrueCopies, Grows
<1> QED BY <1>1 DEF TrueCopies

LEMMA PageMovesKeep ==
    ASSUME QueueIndInv, NEW t \in Tabs, NEW r, PageMoves(t, r)
    PROVE  QueueIndInv'
<1>1. /\ tab' = [u \in Tabs |-> tab'[u]] /\ tab'[t] = r /\ \A u \in Tabs \ {t} : tab'[u] = tab[u]
    BY DEF QueueIndInv, PageMoves, Page
<1>2. QueueSets /\ QueueSets' /\ Grows
    BY DEF QueueIndInv, PageMoves
<1>3. ASSUME NEW u \in Tabs \ {t} PROVE PageTrue(tab[u], saved', exposed', settled', tries')
  <2> DEFINE p == tab[u]
  <2>1. PageTrue(p, saved, exposed, settled, tries)
      BY DEF QueueIndInv
  <2>2. p \in PageState /\ p.todo \in Seq(ItemCopy) /\ p.copy \in Seq(ItemCopy)
      BY <2>1 DEF PageTrue, PageState
  <2>3. (p.at \in Writes) => saved' \ saved \subseteq exposed'
      BY DEF PageMoves, Writing
  <2> HIDE DEF p
  <2>4. TrueCopies(p.todo, saved', tries')
    <3>1. TrueCopies(p.todo, saved \cup {}, tries)
        BY <2>1 DEF PageTrue
    <3>2. TrueCopies(p.todo, saved' \cup {}, tries')
        BY <1>2, <2>2, <3>1, TrueCopiesGrow
    <3> QED BY <3>2
  <2>5. p.at \in Removes \cup {"retry"} => TrueCopies(p.copy, saved', tries')
    <3> SUFFICES ASSUME p.at \in Removes \cup {"retry"} PROVE TrueCopies(p.copy, saved', tries')
        OBVIOUS
    <3>1. TrueCopies(p.copy, saved \cup {}, tries)
        BY <2>1 DEF PageTrue
    <3>2. TrueCopies(p.copy, saved' \cup {}, tries')
        BY <1>2, <2>2, <3>1, TrueCopiesGrow
    <3> QED BY <3>2
  <2>6. p.at = "save" => TrueCopies(p.copy, saved' \cup {p.copy[Len(p.copy)].id}, tries')
    <3> SUFFICES ASSUME p.at = "save" PROVE TrueCopies(p.copy, saved' \cup {p.copy[Len(p.copy)].id}, tries')
        OBVIOUS
    <3>1. TrueCopies(p.copy, saved \cup {p.copy[Len(p.copy)].id}, tries) /\ {p.copy[Len(p.copy)].id} \in SUBSET Items
        BY <2>1 DEF PageTrue
    <3> QED BY <1>2, <2>2, <3>1, TrueCopiesGrow
  <2>7. CopyHolds(p, saved', exposed', settled')
      BY <1>2, <2>1, <2>3 DEF PageTrue, CopyHolds, Grows
  <2>8. p.at = "giveUp" => tries'[p.todo[1].id] = maxRetries
    <3> SUFFICES ASSUME p.at = "giveUp" PROVE tries'[p.todo[1].id] = maxRetries
        OBVIOUS
    <3>1. p.todo # <<>> /\ tries[p.todo[1].id] = maxRetries
        BY <2>1 DEF PageTrue, Removes
    <3>2. p.todo[1] \in ItemCopy
        BY <2>2, <3>1
    <3>3. p.todo[1].id \in Items
        BY <3>2 DEF ItemCopy
    <3> QED BY <1>2, <3>1, <3>3, OfflineQueueAssumption DEF QueueSets, Grows
  <2> QED BY <2>1, <2>4, <2>5, <2>6, <2>7, <2>8 DEF PageTrue, p
<1>4. ASSUME NEW u \in Tabs PROVE PageTrue(tab'[u], saved', exposed', settled', tries')
    BY <1>1, <1>3 DEF PageMoves
<1> QED BY <1>1, <1>4 DEF QueueIndInv, PageMoves

\* A step that leaves the array and its history as they are.
LEMMA QuietMove ==
    ASSUME QueueIndInv, UNCHANGED <<storage, saved, exposed, settled, tries>>, onlineEvent' \in SUBSET Tabs
    PROVE  /\ QueueSets' /\ StorageTrue' /\ Grows
           /\ \A t \in Tabs : \A r : Page(t, r) /\ PageTrue(r, saved', exposed', settled', tries') => PageMoves(t, r)
<1>1. QueueSets' /\ StorageTrue'
    BY DEF QueueIndInv, QueueSets, StorageTrue, TrueCopies, Has
<1>2. Grows
    BY OfflineQueueAssumption DEF QueueIndInv, QueueSets, Grows
<1> QED BY <1>1, <1>2 DEF PageMoves

\* What is taken off the array are the copies of one item.
LEMMA RemovedFrom ==
    ASSUME StorageTrue, NEW t, NEW i
    PROVE  /\ RemoveFrom(t, i) \in Seq(ItemCopy) /\ TrueCopies(RemoveFrom(t, i), saved, tries)
           /\ \A j : Has(storage, j) => j = i \/ Has(RemoveFrom(t, i), j)
<1> DEFINE I == {k \in DOMAIN storage : storage[k].id # i}
           restOf == RemoveFrom(t, i)
           c == Cardinality(I)
<1>1. storage \in Seq(ItemCopy) /\ I \in SUBSET (1 .. Len(storage)) /\ restOf = Picked(storage, I)
    BY DEF StorageTrue, RemoveFrom
<1>2. \A l \in DOMAIN storage : storage[l].id = i \/ l \in I
    OBVIOUS
<1> HIDE DEF I
<1>3. c \in Nat /\ Picked(storage, I) \in Seq(ItemCopy) /\ Len(Picked(storage, I)) = c
    BY <1>1, PickedPositions
<1>4. \E f \in [1 .. c -> I] : /\ \A k \in 1 .. c : Picked(storage, I)[k] = storage[f[k]]
                               /\ \A k \in I : \E l \in 1 .. c : f[l] = k
  <2>1. \E f \in [1 .. c -> I] :
          /\ \A k \in 1 .. c : Picked(storage, I)[k] = storage[f[k]]
          /\ \A k, l \in 1 .. c : k < l => f[k] < f[l]
          /\ \A l \in I : \E k \in 1 .. c : f[k] = l
      BY <1>1, PickedPositions
  <2> QED BY <2>1
<1> HIDE DEF c, restOf
<1>5. PICK f \in [1 .. c -> I] : /\ \A k \in 1 .. c : restOf[k] = storage[f[k]]
                                 /\ \A k \in I : \E l \in 1 .. c : f[l] = k
    BY <1>1, <1>4, Zenon
<1>6. restOf \in Seq(ItemCopy) /\ DOMAIN restOf = 1 .. c
    BY <1>1, <1>3
<1>7. ASSUME NEW k \in DOMAIN restOf PROVE \E l \in DOMAIN storage : restOf[k] = storage[l]
  <2>1. k \in 1 .. c
      BY <1>6
  <2>2. f[k] \in I /\ restOf[k] = storage[f[k]]
      BY <1>5, <2>1
  <2>3. DOMAIN storage = 1 .. Len(storage)
      BY <1>1
  <2> QED BY <1>1, <2>2, <2>3
<1>8. \A l \in DOMAIN storage : storage[l].id = i \/ \E k \in DOMAIN restOf : restOf[k] = storage[l]
    BY <1>2, <1>5, <1>6
<1>9. TrueCopies(restOf, saved, tries)
    BY <1>7 DEF StorageTrue, TrueCopies
<1>10. \A j : Has(storage, j) => j = i \/ Has(restOf, j)
    BY <1>8 DEF Has
<1> QED BY <1>6, <1>9, <1>10 DEF restOf

\* The states of a page in their fields.
PageIn(a, fl, td, sd, cp) == [at |-> a, isFlushing |-> fl, todo |-> td, sending |-> sd, copy |-> cp]

LEMMA PageForms ==
    ASSUME NEW t \in Tabs
    PROVE  /\ \A a, sd, c : PageAt(t, a, sd, c) = PageIn(a, tab[t].isFlushing, tab[t].todo, sd, c)
           /\ \A r \in PageState : [r EXCEPT !.at = "idle"] = PageIn("idle", r.isFlushing, r.todo, r.sending, r.copy)
           /\ NotFlushing = PageIn("idle", FALSE, <<>>, FALSE, <<>>)
           /\ Dead = PageIn("idle", TRUE, <<>>, FALSE, <<>>)
           /\ \A a, q, sd : Flushing(a, q, sd) = PageIn(a, TRUE, q, sd, <<>>)
<1>1. ASSUME NEW r \in PageState
      PROVE  [r EXCEPT !.at = "idle"] = PageIn("idle", r.isFlushing, r.todo, r.sending, r.copy)
  <2>1. r = PageIn(r.at, r.isFlushing, r.todo, r.sending, r.copy)
      BY DEF PageState, PageIn
  <2>2. [PageIn(r.at, r.isFlushing, r.todo, r.sending, r.copy) EXCEPT !.at = "idle"]
        = PageIn("idle", r.isFlushing, r.todo, r.sending, r.copy)
      BY DEF PageIn
  <2> QED BY <2>1, <2>2
<1> QED BY <1>1 DEF PageAt, PageIn, NotFlushing, Dead, Flushing

\* A page that is not about to write.
LEMMA RestingPage ==
    ASSUME NEW a \in {"idle", "flush", "item"}, NEW fl \in BOOLEAN, NEW td \in Seq(ItemCopy),
           NEW sd \in BOOLEAN, sd => td # <<>>, NEW cp \in Seq(ItemCopy), TrueCopies(td, saved', tries')
    PROVE  PageTrue(PageIn(a, fl, td, sd, cp), saved', exposed', settled', tries')
<1> DEFINE r == PageIn(a, fl, td, sd, cp)
<1>1. r.at = a /\ r.isFlushing = fl /\ r.todo = td /\ r.copy = cp /\ r \in PageState
    BY DEF PageIn, PageState, PageStages
<1>2. r.sending => r.todo # <<>>
    BY DEF PageIn
<1> HIDE DEF r
<1>3. r.at \notin Writes /\ r.at \notin Removes \cup {"retry", "catch", "save", "giveUp"}
    BY <1>1 DEF Writes, Removes
<1> QED BY <1>1, <1>2, <1>3 DEF PageTrue, CopyHolds, r

\* What is known of a page, and of the item it works on.
LEMMA PageKnown ==
    ASSUME QueueIndInv, NEW t \in Tabs
    PROVE  /\ PageTrue(tab[t], saved, exposed, settled, tries)
           /\ tab[t] \in PageState /\ tab[t].isFlushing \in BOOLEAN /\ tab[t].sending \in BOOLEAN
           /\ tab[t].todo \in Seq(ItemCopy) /\ tab[t].copy \in Seq(ItemCopy)
           /\ tab[t].todo # <<>> =>
                /\ Item(t) = tab[t].todo[1] /\ Item(t) \in ItemCopy /\ Item(t).id \in Items /\ Item(t).id \in saved
                /\ Item(t).retryCount \in Nat /\ Item(t).retryCount < maxRetries
                /\ Item(t).retryCount <= tries[Item(t).id]
                /\ Tail(tab[t].todo) \in Seq(ItemCopy) /\ TrueCopies(Tail(tab[t].todo), saved, tries)
<1>1. PageTrue(tab[t], saved, exposed, settled, tries)
    BY DEF QueueIndInv
<1>2. tab[t] \in PageState
    BY <1>1 DEF PageTrue
<1>3. /\ tab[t].isFlushing \in BOOLEAN /\ tab[t].sending \in BOOLEAN
      /\ tab[t].todo \in Seq(ItemCopy) /\ tab[t].copy \in Seq(ItemCopy)
    BY <1>2 DEF PageState
<1>4. ASSUME tab[t].todo # <<>>
      PROVE  /\ Item(t) = tab[t].todo[1] /\ Item(t) \in ItemCopy /\ Item(t).id \in Items /\ Item(t).id \in saved
             /\ Item(t).retryCount \in Nat /\ Item(t).retryCount < maxRetries
             /\ Item(t).retryCount <= tries[Item(t).id]
             /\ Tail(tab[t].todo) \in Seq(ItemCopy) /\ TrueCopies(Tail(tab[t].todo), saved, tries)
  <2> DEFINE q == tab[t].todo
  <2>1. q \in Seq(ItemCopy) /\ q # <<>> /\ TrueCopies(q, saved, tries) /\ Item(t) = Head(q)
      BY <1>1, <1>3, <1>4 DEF PageTrue, Item
  <2> HIDE DEF q
  <2>2. 1 \in DOMAIN q /\ Head(q) = q[1] /\ q[1] \in ItemCopy
      BY <2>1
  <2>3. Tail(q) \in Seq(ItemCopy) /\ \A k \in DOMAIN Tail(q) : k + 1 \in DOMAIN q /\ Tail(q)[k] = q[k + 1]
      BY <2>1
  <2>4. TrueCopies(Tail(q), saved, tries)
      BY <2>1, <2>3 DEF TrueCopies
  <2>5. q[1].id \in Items /\ q[1].retryCount \in Nat
      BY <2>2 DEF ItemCopy
  <2>6. q[1].id \in saved /\ q[1].retryCount < maxRetries /\ q[1].retryCount <= tries[q[1].id]
      BY <2>1, <2>2 DEF TrueCopies
  <2> QED BY <2>1, <2>2, <2>3, <2>4, <2>5, <2>6 DEF q
<1> QED BY <1>1, <1>2, <1>3, <1>4

\* A step after which page t is not about to write.
LEMMA RestKeeps ==
    ASSUME QueueIndInv, NEW t \in Tabs, QueueSets', StorageTrue', Grows, saved' = saved,
           NEW a \in {"idle", "flush", "item"}, NEW fl \in BOOLEAN, NEW td \in Seq(ItemCopy),
           NEW sd \in BOOLEAN, sd => td # <<>>, NEW cp \in Seq(ItemCopy), TrueCopies(td, saved, tries),
           Page(t, PageIn(a, fl, td, sd, cp))
    PROVE  QueueIndInv'
<1>1. TrueCopies(td, saved \cup {}, tries)
    OBVIOUS
<1>2. TrueCopies(td, saved' \cup {}, tries')
    BY <1>1, TrueCopiesGrow DEF QueueIndInv
<1>3. TrueCopies(td, saved', tries')
    BY <1>2
<1>4. PageTrue(PageIn(a, fl, td, sd, cp), saved', exposed', settled', tries')
    BY <1>3, RestingPage
<1>5. PageMoves(t, PageIn(a, fl, td, sd, cp))
    BY <1>4 DEF PageMoves
<1> QED BY <1>5, PageMovesKeep

\* A flush that goes on with the items q, or ends, or is cut short.
LEMMA GoOnKeeps ==
    ASSUME QueueIndInv, NEW t \in Tabs, QueueSets', StorageTrue', Grows, saved' = saved,
           NEW q \in Seq(ItemCopy), TrueCopies(q, saved, tries),
           FlushGoesOn(t, q) \/ Page(t, Dead) \/ Page(t, NotFlushing)
    PROVE  QueueIndInv'
<1>1. <<>> \in Seq(ItemCopy) /\ TrueCopies(<<>>, saved, tries) /\ FALSE \in BOOLEAN /\ TRUE \in BOOLEAN
    BY DEF TrueCopies
<1>2. CASE Page(t, Flushing("item", q, FALSE))
  <2>1. Page(t, PageIn("item", TRUE, q, FALSE, <<>>))
      BY <1>2, PageForms
  <2> QED BY <1>1, <2>1, RestKeeps
<1>3. CASE q # <<>> /\ Page(t, Flushing("idle", q, TRUE))
  <2>1. Page(t, PageIn("idle", TRUE, q, TRUE, <<>>))
      BY <1>3, PageForms
  <2> QED BY <1>1, <1>3, <2>1, RestKeeps
<1>4. CASE Page(t, Dead)
  <2>1. Page(t, PageIn("idle", TRUE, <<>>, FALSE, <<>>))
      BY <1>4, PageForms
  <2> QED BY <1>1, <2>1, RestKeeps
<1>5. CASE Page(t, NotFlushing)
  <2>1. Page(t, PageIn("idle", FALSE, <<>>, FALSE, <<>>))
      BY <1>5, PageForms
  <2> QED BY <1>1, <2>1, RestKeeps
<1> QED BY <1>2, <1>3, <1>4, <1>5 DEF FlushGoesOn

\* A page that begins to flush, or ends or goes on without touching the array.
LEMMA QuietKeeps ==
    ASSUME QueueIndInv, NEW t \in Tabs, UNCHANGED <<storage, saved, exposed, settled, tries>>,
           onlineEvent' \in SUBSET Tabs,
           \/ FlushTo(t, tab[t]) \/ FlushTo(t, NotFlushing) \/ Page(t, Dead) \/ Page(t, NotFlushing)
           \/ \E a \in {"idle", "flush"} : Page(t, PageAt(t, a, tab[t].sending, <<>>))
    PROVE  QueueIndInv'
<1>1. QueueSets' /\ StorageTrue' /\ Grows
    BY QuietMove
<1>2. <<>> \in Seq(ItemCopy) /\ TrueCopies(<<>>, saved, tries) /\ FALSE \in BOOLEAN /\ TRUE \in BOOLEAN
    BY DEF TrueCopies
<1>3. storage \in Seq(ItemCopy) /\ TrueCopies(storage, saved, tries)
    BY DEF QueueIndInv, StorageTrue
<1>4. CASE FlushGoesOn(t, storage) \/ Page(t, Dead) \/ Page(t, NotFlushing)
    BY <1>1, <1>3, <1>4, GoOnKeeps
<1>5. TrueCopies(tab[t].todo, saved, tries) /\ (tab[t].sending => tab[t].todo # <<>>)
    BY PageKnown DEF PageTrue
<1>6. ASSUME NEW a \in {"idle", "flush"}, NEW c \in Seq(ItemCopy),
             Page(t, PageIn(a, tab[t].isFlushing, tab[t].todo, tab[t].sending, c))
      PROVE  QueueIndInv'
    BY <1>1, <1>5, <1>6, PageKnown, RestKeeps
<1>7. CASE Page(t, [tab[t] EXCEPT !.at = "idle"])
  <2>1. Page(t, PageIn("idle", tab[t].isFlushing, tab[t].todo, tab[t].sending, tab[t].copy))
      BY <1>7, PageKnown, PageForms
  <2> QED BY <1>6, <2>1, PageKnown
<1>8. CASE Page(t, [NotFlushing EXCEPT !.at = "idle"])
  <2>1. [NotFlushing EXCEPT !.at = "idle"] = NotFlushing
      BY DEF NotFlushing
  <2> QED BY <1>4, <1>8, <2>1
<1>9. CASE \E a \in {"idle", "flush"} : Page(t, PageAt(t, a, tab[t].sending, <<>>))
  <2>1. PICK a \in {"idle", "flush"} : Page(t, PageAt(t, a, tab[t].sending, <<>>))
      BY <1>9
  <2>2. PageAt(t, a, tab[t].sending, <<>>) = PageIn(a, tab[t].isFlushing, tab[t].todo, tab[t].sending, <<>>)
      BY DEF PageAt, PageIn
  <2>3. Page(t, PageIn(a, tab[t].isFlushing, tab[t].todo, tab[t].sending, <<>>))
      BY <2>1, <2>2
  <2> QED BY <1>2, <1>6, <2>3
<1> QED BY <1>4, <1>7, <1>8, <1>9 DEF FlushTo

\* A page that has read the array and is about to write what it computed from it.
LEMMA AboutToWrite ==
    ASSUME QueueIndInv, NEW t \in Tabs, tab[t].todo # <<>>, QueueSets', StorageTrue', Grows, saved' = saved,
           NEW a \in Removes \cup {"retry"}, NEW c \in Seq(ItemCopy), TrueCopies(c, saved', tries'),
           \A i \in saved' : i \in settled' \/ i \in exposed' \/ Has(c, i) \/ (a \in Removes /\ i = Item(t).id),
           a = "giveUp" => tries'[Item(t).id] = maxRetries,
           Page(t, PageAt(t, a, FALSE, c))
    PROVE  QueueIndInv'
<1> DEFINE r == PageAt(t, a, FALSE, c)
<1>1. r.at = a /\ r.sending = FALSE /\ r.todo = tab[t].todo /\ r.copy = c /\ r.isFlushing = tab[t].isFlushing
    BY DEF PageAt
<1>2. r \in PageState
    BY PageKnown DEF PageAt, PageState, PageStages, Writes, Removes
<1> HIDE DEF r
<1>3. TrueCopies(r.todo, saved', tries')
  <2>1. TrueCopies(tab[t].todo, saved \cup {}, tries)
      BY PageKnown DEF PageTrue
  <2>2. TrueCopies(tab[t].todo, saved' \cup {}, tries')
      BY <2>1, PageKnown, TrueCopiesGrow DEF QueueIndInv
  <2> QED BY <1>1, <2>2
<1>4. CopyHolds(r, saved', exposed', settled')
    BY <1>1, PageKnown DEF CopyHolds
<1>5. r.at # "save" /\ r.at # "catch" /\ (r.at = "giveUp" => tries'[r.todo[1].id] = maxRetries)
    BY <1>1, PageKnown DEF Removes
<1>6. PageTrue(r, saved', exposed', settled', tries')
    BY <1>1, <1>2, <1>3, <1>4, <1>5 DEF PageTrue
<1>7. PageMoves(t, r)
    BY <1>6 DEF PageMoves, r
<1> QED BY <1>7, PageMovesKeep

\* The catch block: one more request is counted.
LEMMA CaughtKeeps ==
    ASSUME QueueIndInv, NEW t \in Tabs, tab[t].todo # <<>>, Caught(t),
           UNCHANGED <<storage, saved, exposed, settled, onlineEvent>>
    PROVE  QueueIndInv'
<1> DEFINE i == Item(t).id
           n == Item(t).retryCount + 1
           x == [Item(t) EXCEPT !.retryCount = @ + 1]
<1>1. /\ i \in Items /\ i \in saved /\ n \in Nat /\ n <= maxRetries /\ n <= tries[i] + 1
      /\ x = [id |-> i, retryCount |-> n] /\ tries[i] \in 0 .. maxRetries /\ Item(t).id = i
    BY PageKnown, OfflineQueueAssumption DEF ItemCopy, QueueIndInv, QueueSets
<1>2. /\ tries' = [tries EXCEPT ![i] = IF @ < maxRetries THEN @ + 1 ELSE @]
      /\ IF n >= maxRetries THEN Page(t, PageAt(t, "giveUp", FALSE, RemoveFrom(t, i)))
         ELSE Page(t, PageAt(t, "retry", FALSE, UpdateIn(x)))
    BY <1>1 DEF Caught, OutOfRetries
<1> HIDE DEF x, n, i
<1>3. QueueSets /\ StorageTrue
    BY DEF QueueIndInv
<1>4. /\ tries' \in [Items -> 0 .. maxRetries] /\ \A j \in Items : tries[j] <= tries'[j]
      /\ n <= tries'[i]
    BY <1>1, <1>2, <1>3, OfflineQueueAssumption DEF QueueSets
<1>5. QueueSets' /\ Grows
    BY <1>3, <1>4 DEF QueueSets, Grows
<1>6. ASSUME NEW a \in Seq(ItemCopy), TrueCopies(a, saved, tries) PROVE TrueCopies(a, saved', tries')
  <2>1. TrueCopies(a, saved \cup {}, tries)
      BY <1>6
  <2>2. TrueCopies(a, saved' \cup {}, tries')
      BY <1>3, <1>5, <2>1, TrueCopiesGrow
  <2> QED BY <2>2
<1>7. StorageTrue'
    BY <1>3, <1>6 DEF StorageTrue, Has
<1>8. CASE n >= maxRetries
  <2>1. RemoveFrom(t, i) \in Seq(ItemCopy) /\ TrueCopies(RemoveFrom(t, i), saved, tries)
        /\ \A j : Has(storage, j) => j = i \/ Has(RemoveFrom(t, i), j)
      BY <1>3, RemovedFrom
  <2>2. tries'[i] = maxRetries
      BY <1>1, <1>4, <1>8, OfflineQueueAssumption
  <2>3. \A j \in saved' : j \in settled' \/ j \in exposed' \/ Has(RemoveFrom(t, i), j) \/ j = i
      BY <1>3, <2>1 DEF StorageTrue
  <2>4. TrueCopies(RemoveFrom(t, i), saved', tries')
      BY <1>6, <2>1
  <2> HIDE DEF RemoveFrom
  <2>5. Page(t, PageAt(t, "giveUp", FALSE, RemoveFrom(t, i)))
      BY <1>2, <1>8
  <2> QED BY <1>1, <1>5, <1>7, <2>1, <2>2, <2>3, <2>4, <2>5, AboutToWrite DEF Removes
<1>9. CASE ~(n >= maxRetries)
  <2> DEFINE u == UpdateIn(x)
  <2>1. storage \in Seq(ItemCopy) /\ x \in ItemCopy /\ x.id = i /\ x.retryCount = n
      BY <1>1, <1>3 DEF StorageTrue, ItemCopy
  <2>2. u = [k \in DOMAIN storage |-> IF storage[k].id = x.id THEN x ELSE storage[k]]
      BY DEF UpdateIn
  <2> HIDE DEF u
  <2>3. u \in [1 .. Len(storage) -> ItemCopy] /\ Len(storage) \in Nat /\ DOMAIN u = DOMAIN storage
      BY <2>1, <2>2
  <2>4. u \in Seq(ItemCopy)
      BY <2>3
  <2>5. \A k \in DOMAIN storage : u[k].id = storage[k].id /\ (u[k] = x \/ u[k] = storage[k])
      BY <2>1, <2>2
  <2>6. n < maxRetries
      BY <1>1, <1>9, OfflineQueueAssumption
  <2>7. TrueCopies(storage, saved', tries')
      BY <1>3, <1>6, <2>1 DEF StorageTrue
  <2>8. TrueCopies(u, saved', tries')
      BY <1>1, <1>4, <2>1, <2>3, <2>5, <2>6, <2>7 DEF TrueCopies
  <2>9. \A j \in saved' : j \in settled' \/ j \in exposed' \/ Has(u, j)
      BY <1>3, <2>3, <2>5 DEF StorageTrue, Has
  <2>10. Page(t, PageAt(t, "retry", FALSE, u))
      BY <1>2, <1>9 DEF u
  <2> QED BY <1>5, <1>7, <2>4, <2>8, <2>9, <2>10, AboutToWrite
<1> QED BY <1>8, <1>9

\* The parts of a step that concern the network and the user.
LEMMA UserKeepsQueue ==
    ASSUME QueueIndInv, GoOffline \/ GoOnline \/ \E t \in Tabs : clear(t)
    PROVE  QueueIndInv'
<1>1. /\ tab' = tab /\ saved' = saved /\ exposed' = exposed /\ tries' = tries /\ settled \subseteq settled'
      /\ settled' \in SUBSET saved /\ onlineEvent' \in SUBSET Tabs
      /\ \/ storage' = storage
         \/ storage' = <<>> /\ \A k \in DOMAIN storage : storage[k].id \in settled'
    BY DEF GoOffline, GoOnline, clear, QueueIndInv, QueueSets, StorageTrue, TrueCopies
<1>2. QueueSets' /\ Grows
    BY <1>1, OfflineQueueAssumption DEF QueueIndInv, QueueSets, Grows
<1>3. StorageTrue'
  <2>1. CASE storage' = storage
      BY <1>1, <2>1 DEF QueueIndInv, StorageTrue, TrueCopies, Has
  <2>2. CASE storage' = <<>> /\ \A k \in DOMAIN storage : storage[k].id \in settled'
    <3>1. \A i \in saved : i \in settled' \/ i \in exposed
        BY <1>1, <2>2 DEF QueueIndInv, StorageTrue, Has
    <3>2. TrueCopies(storage', saved', tries') /\ storage' \in Seq(ItemCopy)
        BY <2>2 DEF TrueCopies
    <3> QED BY <1>1, <3>1, <3>2 DEF StorageTrue
  <2> QED BY <1>1, <2>1, <2>2
<1>4. ASSUME NEW t \in Tabs PROVE PageTrue(tab'[t], saved', exposed', settled', tries')
    BY <1>1, PageKnown DEF PageTrue, CopyHolds
<1> QED BY <1>1, <1>2, <1>3, <1>4 DEF QueueIndInv

LEMMA AddKeeps ==
    ASSUME QueueIndInv, NEW t \in Tabs, NEW i \in Items, add(t, i)
    PROVE  QueueIndInv'
<1> DEFINE c == Append(storage, [id |-> i, retryCount |-> 0])
           r == PageAt(t, "save", tab[t].sending, c)
<1>1. Page(t, r) /\ UNCHANGED <<storage, saved, exposed, settled, tries>> /\ onlineEvent' \in SUBSET Tabs
    BY DEF add, QueueIndInv, QueueSets
<1>2. storage \in Seq(ItemCopy) /\ TrueCopies(storage, saved, tries) /\ tries[i] \in Nat
    BY OfflineQueueAssumption DEF QueueIndInv, StorageTrue, QueueSets
<1>3. /\ c \in Seq(ItemCopy) /\ c # <<>> /\ Len(c) = Len(storage) + 1
      /\ \A k \in DOMAIN storage : c[k] = storage[k] /\ k \in DOMAIN c
      /\ c[Len(c)] = [id |-> i, retryCount |-> 0]
      /\ \A k \in DOMAIN c : k \in DOMAIN storage \/ k = Len(c)
    BY <1>2 DEF ItemCopy
<1> HIDE DEF c
<1>4. c[Len(c)].id = i /\ c[Len(c)].retryCount = 0
    BY <1>3
<1>5. TrueCopies(c, saved \cup {i}, tries)
    BY <1>2, <1>3, <1>4, OfflineQueueAssumption DEF TrueCopies
<1>6. \A j \in saved : j \in settled \/ j \in exposed \/ Has(c, j)
    BY <1>3 DEF QueueIndInv, StorageTrue, Has
<1>7. /\ r.at = "save" /\ r.sending = tab[t].sending /\ r.todo = tab[t].todo /\ r.copy = c /\ r \in PageState
    BY <1>3, PageKnown DEF PageAt, PageState, PageStages, Writes
<1> HIDE DEF r
<1>8. PageTrue(r, saved', exposed', settled', tries')
    BY <1>1, <1>3, <1>4, <1>5, <1>6, <1>7, PageKnown DEF PageTrue, CopyHolds, Removes
<1>9. PageMoves(t, r)
    BY <1>1, <1>8, QuietMove
<1> QED BY <1>9, PageMovesKeep

\* The write of add(): what other pages are about to write does not hold the item.
LEMMA SaveKeeps ==
    ASSUME QueueIndInv, NEW t \in Tabs, saveToStorage(t)
    PROVE  QueueIndInv'
<1> DEFINE i == Saving(t)
<1>1. tab[t].at = "save" /\ onlineEvent' = onlineEvent /\ tries' = tries /\ settled' = settled
    BY DEF saveToStorage
<1>2. CASE Page(t, PageAt(t, "idle", tab[t].sending, <<>>)) /\ UNCHANGED <<storage, saved, exposed>>
    BY <1>1, <1>2, QuietKeeps DEF QueueIndInv, QueueSets
<1>3. CASE /\ storage' = tab[t].copy /\ saved' = saved \cup {i}
           /\ exposed' = IF \E u \in Tabs \ {t} : Writing(u) THEN exposed \cup {i} ELSE exposed
           /\ \E a \in {"idle", "flush"} : Page(t, PageAt(t, a, tab[t].sending, <<>>))
  <2> DEFINE c == tab[t].copy
  <2>1. /\ c \in Seq(ItemCopy) /\ c # <<>> /\ i \in Items /\ i = c[Len(c)].id
        /\ TrueCopies(c, saved \cup {i}, tries) /\ CopyHolds(tab[t], saved, exposed, settled)
      BY <1>1, PageKnown DEF PageTrue, Saving
  <2>2. \A j \in saved : j \in settled \/ j \in exposed \/ Has(c, j)
      BY <1>1, <2>1 DEF CopyHolds, Writes, Removes
  <2> HIDE DEF i
  <2>3. Has(c, i)
    <3> HIDE DEF c
    <3>1. Len(c) \in DOMAIN c
        BY <2>1
    <3> QED BY <2>1, <3>1 DEF Has
  <2> HIDE DEF c
  <2>4. QueueSets' /\ Grows
      BY <1>1, <1>3, <2>1, OfflineQueueAssumption DEF QueueIndInv, QueueSets, Grows
  <2>5. storage' = c
      BY <1>3 DEF c
  <2>6. StorageTrue'
      BY <1>1, <1>3, <2>1, <2>2, <2>3, <2>5 DEF StorageTrue
  <2>7. PICK a \in {"idle", "flush"} : Page(t, PageAt(t, a, tab[t].sending, <<>>))
      BY <1>3
  <2> DEFINE r == PageIn(a, tab[t].isFlushing, tab[t].todo, tab[t].sending, <<>>)
  <2>8. PageAt(t, a, tab[t].sending, <<>>) = r
      BY DEF PageAt, PageIn
  <2>9. TrueCopies(tab[t].todo, saved', tries')
    <3>1. TrueCopies(tab[t].todo, saved \cup {}, tries)
        BY PageKnown DEF PageTrue
    <3>2. TrueCopies(tab[t].todo, saved' \cup {}, tries')
        BY <2>4, <3>1, PageKnown, TrueCopiesGrow DEF QueueIndInv
    <3> QED BY <3>2
  <2>10. PageTrue(r, saved', exposed', settled', tries')
    <3>1. <<>> \in Seq(ItemCopy)
        OBVIOUS
    <3>2. tab[t].sending => tab[t].todo # <<>>
        BY PageKnown DEF PageTrue
    <3> QED BY <2>9, <3>1, <3>2, PageKnown, RestingPage
  <2> HIDE DEF r
  <2>11. (\E u \in Tabs \ {t} : Writing(u)) => saved' \ saved \subseteq exposed'
      BY <1>3
  <2>12. PageMoves(t, r)
      BY <2>4, <2>6, <2>7, <2>8, <2>10, <2>11 DEF PageMoves
  <2> QED BY <2>12, PageMovesKeep
<1>4. (IF online /\ ~tab[t].isFlushing THEN "flush" ELSE "idle") \in {"idle", "flush"}
    OBVIOUS
<1> HIDE DEF i
<1> QED BY <1>2, <1>3, <1>4 DEF saveToStorage, i

\* A page that reads the array to remove an item that expired or succeeded.
LEMMA ReadKeeps ==
    ASSUME QueueIndInv, NEW t \in Tabs, processItem(t) \/ requestSucceeds(t)
    PROVE  QueueIndInv'
<1> DEFINE i == Item(t).id
           c == RemoveFrom(t, i)
<1>1. /\ tab[t].todo # <<>> /\ \E a \in {"expire", "succeed"} : Page(t, PageAt(t, a, FALSE, c))
      /\ UNCHANGED <<storage, saved, exposed, settled, tries>> /\ onlineEvent' \in SUBSET Tabs
    BY PageKnown DEF processItem, requestSucceeds, PageTrue, QueueIndInv, QueueSets
<1>2. QueueSets' /\ StorageTrue' /\ Grows
    BY <1>1, QuietMove
<1>3. /\ c \in Seq(ItemCopy) /\ TrueCopies(c, saved, tries)
      /\ \A j : Has(storage, j) => j = i \/ Has(c, j)
    BY RemovedFrom DEF QueueIndInv
<1>4. \A j \in saved : j \in settled \/ j \in exposed \/ Has(c, j) \/ j = i
    BY <1>3 DEF QueueIndInv, StorageTrue
<1> HIDE DEF c, i
<1>5. PICK a \in {"expire", "succeed"} : Page(t, PageAt(t, a, FALSE, c))
    BY <1>1
<1>6. a \in Removes \cup {"retry"} /\ a \in Removes /\ a # "giveUp"
    BY DEF Removes
<1> QED BY <1>1, <1>2, <1>3, <1>4, <1>5, <1>6, AboutToWrite DEF i

\* A page that writes the array back.
LEMMA WriteKeeps ==
    ASSUME QueueIndInv, NEW t \in Tabs, updateInStorage(t) \/ removeFromStorage(t) \/ RemoveThrows(t)
    PROVE  QueueIndInv'
<1> DEFINE c == tab[t].copy
           i == Item(t).id
           q == Tail(tab[t].todo)
<1>1. tab[t].at \in Removes \cup {"retry"}
    BY DEF updateInStorage, removeFromStorage, RemoveThrows, Removes
<1>2. /\ tab[t].todo # <<>> /\ TrueCopies(c, saved, tries) /\ c \in Seq(ItemCopy)
      /\ CopyHolds(tab[t], saved, exposed, settled)
    BY <1>1, PageKnown DEF PageTrue
<1>3. \A j \in saved : j \in settled \/ j \in exposed \/ Has(c, j) \/ (tab[t].at \in Removes /\ j = i)
    BY <1>1, <1>2, PageKnown DEF CopyHolds, Removes, Writes
<1>4. i \in saved /\ q \in Seq(ItemCopy) /\ TrueCopies(q, saved, tries)
    BY <1>2, PageKnown
<1>5. onlineEvent' = onlineEvent /\ saved' = saved /\ exposed' = exposed
    BY DEF updateInStorage, removeFromStorage, RemoveThrows
<1>6. CASE updateInStorage(t)
  <2>1. tries' = tries /\ settled' = settled /\ tab[t].at \notin Removes
      BY <1>6 DEF updateInStorage, Removes
  <2>2. CASE storage' = tab[t].copy /\ NextItem(t)
    <3>1. QueueSets' /\ Grows
        BY <1>5, <2>1, OfflineQueueAssumption DEF QueueIndInv, QueueSets, Grows
    <3>2. storage' = c
        BY <2>2
    <3> HIDE DEF c
    <3>3. StorageTrue'
        BY <1>2, <1>3, <1>5, <2>1, <3>2 DEF StorageTrue
    <3>4. FlushGoesOn(t, q)
        BY <2>2 DEF NextItem
    <3> HIDE DEF q
    <3> QED BY <1>4, <1>5, <3>1, <3>3, <3>4, GoOnKeeps
  <2>3. CASE Page(t, Dead) /\ UNCHANGED storage
      BY <1>5, <2>1, <2>3, QuietKeeps DEF QueueIndInv, QueueSets
  <2> QED BY <1>6, <2>2, <2>3 DEF updateInStorage
<1>7. CASE removeFromStorage(t)
  <2>1. /\ tries' = tries /\ storage' = c /\ settled' = settled \cup {i}
        /\ \/ FlushGoesOn(t, q)
           \/ Page(t, Dead)
           \/ tab[t].at = "succeed" /\ Page(t, PageAt(t, "catch", FALSE, <<>>))
      BY <1>7 DEF removeFromStorage, NextItem
  <2>2. QueueSets' /\ Grows
    <3> HIDE DEF i
    <3> QED BY <1>4, <1>5, <2>1, OfflineQueueAssumption DEF QueueIndInv, QueueSets, Grows
  <2> HIDE DEF c
  <2>3. StorageTrue'
      BY <1>2, <1>3, <1>5, <2>1 DEF StorageTrue
  <2>4. CASE FlushGoesOn(t, q) \/ Page(t, Dead)
    <3> HIDE DEF q
    <3> QED BY <1>4, <1>5, <2>2, <2>3, <2>4, GoOnKeeps
  <2>5. CASE Page(t, PageAt(t, "catch", FALSE, <<>>))
    <3> DEFINE r == PageAt(t, "catch", FALSE, <<>>)
    <3>1. /\ r.at = "catch" /\ r.sending = FALSE /\ r.todo = tab[t].todo /\ r.copy = <<>> /\ r \in PageState
        BY PageKnown DEF PageAt, PageState, PageStages
    <3> HIDE DEF r
    <3>2. TrueCopies(tab[t].todo, saved, tries)
        BY PageKnown DEF PageTrue
    <3>3. TrueCopies(r.todo, saved', tries')
        BY <1>5, <2>1, <3>1, <3>2
    <3>4. PageTrue(r, saved', exposed', settled', tries')
        BY <1>2, <3>1, <3>3 DEF PageTrue, CopyHolds, Removes, Writes
    <3>5. PageMoves(t, r)
        BY <1>5, <2>2, <2>3, <2>5, <3>4 DEF PageMoves, r
    <3> QED BY <3>5, PageMovesKeep
  <2> QED BY <2>1, <2>4, <2>5
<1>8. CASE RemoveThrows(t)
  <2>1. CASE Caught(t)
      BY <1>2, <1>8, <2>1, CaughtKeeps DEF RemoveThrows
  <2>2. CASE Page(t, Dead) /\ UNCHANGED tries
      BY <1>8, <2>2, QuietKeeps DEF RemoveThrows, QueueIndInv, QueueSets
  <2> QED BY <1>8, <2>1, <2>2 DEF RemoveThrows
<1> QED BY <1>6, <1>7, <1>8

\* The other steps of a page.
LEMMA PageKeepsQueue ==
    ASSUME QueueIndInv, NEW t \in Tabs,
           onOnline(t) \/ Reload(t) \/ flush(t) \/ FlushEnds(t) \/ requestFails(t) \/ OnSuccessThrew(t)
    PROVE  QueueIndInv'
<1>1. onlineEvent' \in SUBSET Tabs
    BY DEF onOnline, Reload, flush, FlushEnds, requestFails, OnSuccessThrew, QueueIndInv, QueueSets
<1>2. CASE onOnline(t) \/ Reload(t) \/ flush(t) \/ FlushEnds(t)
  <2>1. /\ UNCHANGED <<storage, saved, exposed, settled, tries>>
        /\ FlushTo(t, tab[t]) \/ FlushTo(t, NotFlushing) \/ Page(t, Dead) \/ Page(t, NotFlushing)
      BY <1>2 DEF onOnline, Reload, flush, FlushEnds
  <2> QED BY <1>1, <2>1, QuietKeeps
<1>3. CASE requestFails(t) \/ OnSuccessThrew(t)
  <2>1. tab[t].sending \/ tab[t].at = "catch"
      BY <1>3 DEF requestFails, OnSuccessThrew
  <2>2. tab[t].todo # <<>>
      BY <2>1, PageKnown DEF PageTrue
  <2> QED BY <1>3, <2>2, CaughtKeeps DEF requestFails, OnSuccessThrew
<1> QED BY <1>2, <1>3

\* Any pages on one array, whose accesses interleave and which throw and are closed at
\* any moment, lose an item only to a write that raced with its own, and give none up
\* too early (queue.ts).
THEOREM NothingQueuedIsLost == PQSpec => []PQInv
<1>1. PQInit => QueueIndInv
  <2> SUFFICES ASSUME PQInit PROVE QueueIndInv
      OBVIOUS
  <2>1. QueueSets /\ StorageTrue
      BY OfflineQueueAssumption DEF PQInit, QueueSets, StorageTrue, TrueCopies
  <2>2. ASSUME NEW t \in Tabs PROVE PageTrue(tab[t], saved, exposed, settled, tries)
    <3>1. tab[t] = NotFlushing /\ <<>> \in Seq(ItemCopy)
        BY DEF PQInit
    <3>2. NotFlushing \in PageState /\ NotFlushing.at = "idle" /\ NotFlushing.sending = FALSE /\ NotFlushing.todo = <<>>
        BY <3>1 DEF NotFlushing, PageState, PageStages
    <3> QED BY <3>1, <3>2 DEF PageTrue, TrueCopies, CopyHolds, Writes, Removes
  <2> QED BY <2>1, <2>2 DEF QueueIndInv, PQInit
<1>2. QueueIndInv /\ [PQNext]_pqVars => QueueIndInv'
  <2> SUFFICES ASSUME QueueIndInv, [PQNext]_pqVars PROVE QueueIndInv'
      OBVIOUS
  <2>1. CASE UNCHANGED pqVars
      BY <2>1 DEF pqVars, QueueIndInv, QueueSets, StorageTrue
  <2>2. CASE PQNext
      BY <2>2, UserKeepsQueue, AddKeeps, SaveKeeps, ReadKeeps, WriteKeeps, PageKeepsQueue DEF PQNext, ItemStep
  <2> QED BY <2>1, <2>2
<1>3. QueueIndInv => PQInv
  <2> SUFFICES ASSUME QueueIndInv PROVE PQInv
      OBVIOUS
  <2>1. ASSUME NEW k \in DOMAIN storage PROVE storage[k].id \in Items /\ storage[k].retryCount \in 0 .. maxRetries
    <3>1. storage[k] \in ItemCopy /\ storage[k].retryCount < maxRetries
        BY DEF QueueIndInv, StorageTrue, TrueCopies
    <3> QED BY <3>1, OfflineQueueAssumption DEF ItemCopy
  <2>2. ASSUME NEW t \in Tabs
        PROVE  /\ tab[t].sending => tab[t].todo # <<>>
               /\ tab[t].at \in Writes \cup {"idle", "flush", "item", "catch"}
               /\ tab[t].at = "giveUp" => tries[Item(t).id] = maxRetries
    <3>1. PageTrue(tab[t], saved, exposed, settled, tries) /\ (tab[t].at = "giveUp" => tab[t].todo # <<>>)
        BY PageKnown DEF PageTrue, Removes
    <3> QED BY <3>1, PageKnown DEF PageTrue, PageState, PageStages
  <2>3. NoItemVanishes
      BY DEF QueueIndInv, StorageTrue, Has, NoItemVanishes, Queued
  <2>4. PQTypeOK
      BY <2>1, <2>2 DEF QueueIndInv, QueueSets, PQTypeOK
  <2> QED BY <2>2, <2>3, <2>4 DEF PQInv, ErrorAfterAllRetries
<1> QED BY <1>1, <1>2, <1>3, PTL DEF PQSpec
=============================================================================

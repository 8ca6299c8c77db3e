-------------------------- MODULE ContractProofs --------------------------
(***************************************************************************)
(* Theorems about the Soroban contracts, for any users, tokens, amounts,   *)
(* schedules, shares and order of calls.  Every contract has an inductive  *)
(* invariant of its own: what its address holds is what its records come   *)
(* to, its records have their types, and every other contract's balance is *)
(* untouched.  The last part puts the contracts on the one ledger of       *)
(* MCContracts: the invariant there is that of the contract deployed, and  *)
(* that the storage and the balances of the others are as they began.      *)
(***************************************************************************)
EXTENDS MCContracts, FiniteSetTheorems, WellFoundedInduction, TLAPS

-----------------------------------------------------------------------------
\* The ledger

\* What Total counts: as many units of each x as f says.
Units(f, S) == UNION {{x} \X (1 .. f[x]) : x \in S}

\* n units of x are n.
LEMMA UnitsOfOne ==
    ASSUME NEW x, NEW n \in Nat
    PROVE  IsFiniteSet({x} \X (1 .. n)) /\ Cardinality({x} \X (1 .. n)) = n
<1>1. IsFiniteSet({x}) /\ Cardinality({x}) = 1
    BY FS_Singleton
<1>2. IsFiniteSet(1 .. n) /\ Cardinality(1 .. n) = n
    BY FS_Interval
<1> DEFINE I == 1 .. n
<1> HIDE DEF I
<1>3. IsFiniteSet({x} \X I) /\ Cardinality({x} \X I) = Cardinality({x}) * Cardinality(I)
    BY <1>1, <1>2, FS_Product DEF I
<1> QED BY <1>1, <1>2, <1>3 DEF I

\* The units of a finite set are finitely many, so Total is a natural number.
LEMMA UnitsFinite ==
    ASSUME NEW S, IsFiniteSet(S), NEW f, \A x \in S : f[x] \in Nat
    PROVE  IsFiniteSet(Units(f, S)) /\ Total(f, S) = Cardinality(Units(f, S)) /\ Total(f, S) \in Nat
<1> DEFINE U == {{x} \X (1 .. f[x]) : x \in S}
           g == [x \in S |-> {x} \X (1 .. f[x])]
<1>1. g \in Surjection(S, U)
    BY DEF Surjection
<1>2. IsFiniteSet(U)
    BY <1>1, FS_Surjection
<1>3. ASSUME NEW T \in U PROVE IsFiniteSet(T)
  <2>1. PICK x \in S : T = {x} \X (1 .. f[x])
      OBVIOUS
  <2> QED BY <2>1, UnitsOfOne
<1>4. IsFiniteSet(UNION U)
  <2> HIDE DEF U
  <2> QED BY <1>2, <1>3, FS_UNION
<1>5. Units(f, S) = UNION U /\ Total(f, S) = Cardinality(UNION U)
    BY DEF Units, Total
<1> QED BY <1>4, <1>5, FS_CardinalityType

\* A sum is one of its parts and the rest.
LEMMA TotalWithout ==
    ASSUME NEW S, IsFiniteSet(S), NEW f, \A x \in S : f[x] \in Nat, NEW y \in S
    PROVE  Total(f, S) = Total(f, S \ {y}) + f[y]
<1> DEFINE A == Units(f, S \ {y})
           B == {y} \X (1 .. f[y])
<1>1. IsFiniteSet(S \ {y}) /\ \A x \in S \ {y} : f[x] \in Nat
    BY FS_RemoveElement
<1>2. IsFiniteSet(A) /\ Total(f, S \ {y}) = Cardinality(A)
    BY <1>1, UnitsFinite
<1>3. IsFiniteSet(B) /\ Cardinality(B) = f[y]
    BY UnitsOfOne
<1>4. Units(f, S) = A \cup B
    BY DEF Units
<1>5. A \cap B = {}
    BY DEF Units
<1>6. Total(f, S) = Cardinality(A \cup B)
    BY <1>4 DEF Units, Total
<1>7. Cardinality(A) \in Nat /\ Cardinality(B) \in Nat
    BY <1>2, <1>3, FS_CardinalityType
<1> HIDE DEF A, B
<1>8. Cardinality(A \cup B) = Cardinality(A) + Cardinality(B) - Cardinality({})
    BY <1>2, <1>3, <1>5, FS_Union
<1> QED BY <1>2, <1>3, <1>6, <1>7, <1>8, FS_EmptySet

\* Only the values on S count.
LEMMA TotalSame ==
    ASSUME NEW S, NEW f, NEW g, \A x \in S : f[x] = g[x]
    PROVE  Total(f, S) = Total(g, S)
<1>1. {{x} \X (1 .. f[x]) : x \in S} = {{x} \X (1 .. g[x]) : x \in S}
    OBVIOUS
<1> QED BY <1>1 DEF Total

\* An empty sum is zero.
LEMMA TotalNone ==
    ASSUME NEW f
    PROVE  Total(f, {}) = 0
<1>1. UNION {{x} \X (1 .. f[x]) : x \in {}} = {}
    OBVIOUS
<1> QED BY <1>1, FS_EmptySet DEF Total

\* A sum in which one part changes.
LEMMA TotalChanged ==
    ASSUME NEW S, IsFiniteSet(S), NEW f, NEW g, NEW y \in S,
           \A x \in S : f[x] \in Nat, g[y] \in Nat, \A x \in S \ {y} : g[x] = f[x]
    PROVE  Total(g, S) = Total(f, S) - f[y] + g[y] /\ Total(f, S) \in Nat
<1>1. \A x \in S : g[x] \in Nat
    OBVIOUS
<1>2. Total(f, S) = Total(f, S \ {y}) + f[y] /\ Total(g, S) = Total(g, S \ {y}) + g[y]
    BY <1>1, TotalWithout
<1>3. Total(g, S \ {y}) = Total(f, S \ {y})
    BY TotalSame
<1>4. IsFiniteSet(S \ {y}) /\ \A x \in S \ {y} : f[x] \in Nat
    BY FS_RemoveElement
<1>5. Total(f, S \ {y}) \in Nat
    BY <1>4, UnitsFinite
<1> QED BY <1>2, <1>3, <1>5

\* A sum with one more part.
LEMMA TotalWith ==
    ASSUME NEW S, IsFiniteSet(S), NEW f, NEW g, NEW y, y \notin S,
           \A x \in S : f[x] \in Nat, g[y] \in Nat, \A x \in S : g[x] = f[x]
    PROVE  Total(g, S \cup {y}) = Total(f, S) + g[y] /\ Total(f, S) \in Nat
<1>1. IsFiniteSet(S \cup {y}) /\ (S \cup {y}) \ {y} = S
    BY FS_AddElement
<1>2. Total(g, S \cup {y}) = Total(g, S) + g[y]
    BY <1>1, TotalWithout
<1>3. Total(g, S) = Total(f, S)
    BY TotalSame
<1> QED BY <1>2, <1>3, UnitsFinite

\* A sum of nothing.
LEMMA TotalZero ==
    ASSUME NEW S, NEW f, \A x \in S : f[x] = 0
    PROVE  Total(f, S) = 0
<1>1. UNION {{x} \X (1 .. f[x]) : x \in S} = {}
    OBVIOUS
<1> QED BY <1>1, FS_EmptySet DEF Total

\* The balances have their type.  The lemmas on payments keep this folded.
IsLedger(b) == b \in [Tokens -> [Accounts \cup Contracts -> Int]]

\* A payment changes the two balances and nothing else.
LEMMA PaidBalances ==
    ASSUME NEW b, IsLedger(b), NEW t \in Tokens,
           NEW x \in Accounts \cup Contracts, NEW y \in Accounts \cup Contracts,
           NEW n \in Int, x # y
    PROVE  /\ IsLedger(Paid(b, t, x, y, n))
           /\ \A u \in Tokens, z \in Accounts \cup Contracts :
                Paid(b, t, x, y, n)[u][z] = IF u # t THEN b[u][z]
                                            ELSE IF z = x THEN b[u][z] - n
                                            ELSE IF z = y THEN b[u][z] + n
                                            ELSE b[u][z]
<1> DEFINE f == b[t]
           g == [f EXCEPT ![x] = f[x] - n]
           h == [g EXCEPT ![y] = g[y] + n]
<1>1. f \in [Accounts \cup Contracts -> Int]
    BY DEF IsLedger
<1>2. g \in [Accounts \cup Contracts -> Int]
    BY <1>1
<1>3. h \in [Accounts \cup Contracts -> Int]
    BY <1>2
<1>4. \A z \in Accounts \cup Contracts :
        h[z] = IF z = x THEN f[z] - n ELSE IF z = y THEN f[z] + n ELSE f[z]
    BY <1>1, <1>2
<1>5. Paid(b, t, x, y, n) = [b EXCEPT ![t] = h]
    BY DEF Paid
<1> HIDE DEF h
<1> QED BY <1>3, <1>4, <1>5 DEF IsLedger

\* A payment to oneself changes nothing.
LEMMA SelfPaid ==
    ASSUME NEW b, IsLedger(b), NEW t \in Tokens, NEW x \in Accounts \cup Contracts, NEW n \in Int
    PROVE  Paid(b, t, x, x, n) = b
<1> DEFINE f == b[t]
           g == [f EXCEPT ![x] = f[x] - n]
           h == [g EXCEPT ![x] = g[x] + n]
<1>1. f \in [Accounts \cup Contracts -> Int]
    BY DEF IsLedger
<1>2. g[x] + n = f[x]
    BY <1>1
<1>3. h = f
    BY <1>1, <1>2
<1>4. Paid(b, t, x, x, n) = [b EXCEPT ![t] = h]
    BY DEF Paid
<1> HIDE DEF h
<1> QED BY <1>3, <1>4 DEF IsLedger

\* Of the contracts' addresses only those of S have other balances than at first.
Endowment(z) == IF z \in Funded THEN Supply ELSE 0
Untouched(b, S) ==
    IsLedger(b) /\ \A t \in Tokens, z \in Contracts \ S : b[t][z] = Endowment(z)

\* The step of a call that is paid or pays.
LEMMA Payment ==
    ASSUME NEW S \in SUBSET Contracts, Untouched(balance, S), NEW t \in Tokens,
           NEW x \in Accounts \cup S, NEW y \in Accounts \cup S, x # y, NEW n \in Int,
           balance' = Paid(balance, t, x, y, n)
    PROVE  /\ Untouched(balance', S)
           /\ \A u \in Tokens, z \in Accounts \cup Contracts :
                /\ balance[u][z] \in Int
                /\ balance'[u][z] = IF u # t THEN balance[u][z]
                                    ELSE IF z = x THEN balance[u][z] - n
                                    ELSE IF z = y THEN balance[u][z] + n
                                    ELSE balance[u][z]
<1>1. IsLedger(balance) /\ x \in Accounts \cup Contracts /\ y \in Accounts \cup Contracts
    BY DEF Untouched
<1>2. /\ IsLedger(balance')
      /\ \A u \in Tokens, z \in Accounts \cup Contracts :
           balance'[u][z] = IF u # t THEN balance[u][z]
                            ELSE IF z = x THEN balance[u][z] - n
                            ELSE IF z = y THEN balance[u][z] + n
                            ELSE balance[u][z]
    BY <1>1, PaidBalances
<1>3. \A u \in Tokens, z \in Accounts \cup Contracts : balance[u][z] \in Int
    BY <1>1 DEF IsLedger
<1>4. \A u \in Tokens, z \in Contracts \ S : balance'[u][z] = balance[u][z]
    BY <1>2, LedgerAssumption
<1> QED BY <1>2, <1>3, <1>4 DEF Untouched

\* A contract of S pays an account, or is paid by one.
LEMMA PaysOut ==
    ASSUME NEW S \in SUBSET Contracts, Untouched(balance, S), NEW t \in Tokens,
           NEW C \in S, NEW a \in Accounts, NEW n \in Int, balance' = Paid(balance, t, C, a, n)
    PROVE  /\ Untouched(balance', S)
           /\ \A u \in Tokens, z \in S :
                /\ balance[u][z] \in Int
                /\ balance'[u][z] = IF u = t /\ z = C THEN balance[u][z] - n ELSE balance[u][z]
<1>1. C # a /\ C \in Accounts \cup S /\ a \in Accounts \cup S /\ S \cap Accounts = {}
    BY LedgerAssumption
<1>2. /\ Untouched(balance', S)
      /\ \A u \in Tokens, z \in Accounts \cup Contracts :
           /\ balance[u][z] \in Int
           /\ balance'[u][z] = IF u # t THEN balance[u][z]
                               ELSE IF z = C THEN balance[u][z] - n
                               ELSE IF z = a THEN balance[u][z] + n
                               ELSE balance[u][z]
    BY <1>1, Payment
<1> QED BY <1>1, <1>2

\* An account pays a contract.
LEMMA PaysIn ==
    ASSUME NEW S \in SUBSET Contracts, Untouched(balance, S), NEW t \in Tokens,
           NEW C \in S, NEW a \in Accounts, NEW n \in Int, balance' = Paid(balance, t, a, C, n)
    PROVE  /\ Untouched(balance', S)
           /\ \A u \in Tokens, z \in S :
                /\ balance[u][z] \in Int
                /\ balance'[u][z] = IF u = t /\ z = C THEN balance[u][z] + n ELSE balance[u][z]
<1>1. C # a /\ C \in Accounts \cup S /\ a \in Accounts \cup S /\ S \cap Accounts = {}
    BY LedgerAssumption
<1>2. /\ Untouched(balance', S)
      /\ \A u \in Tokens, z \in Accounts \cup Contracts :
           /\ balance[u][z] \in Int
           /\ balance'[u][z] = IF u # t THEN balance[u][z]
                               ELSE IF z = a THEN balance[u][z] - n
                               ELSE IF z = C THEN balance[u][z] + n
                               ELSE balance[u][z]
    BY <1>1, Payment
<1> QED BY <1>1, <1>2

\* A contract pays two accounts, which may be one.
LEMMA PaysTwice ==
    ASSUME NEW S \in SUBSET Contracts, Untouched(balance, S), NEW t \in Tokens,
           NEW C \in S, NEW a \in Accounts, NEW e \in Accounts, NEW n \in Int, NEW m \in Int,
           balance' = Paid(Paid(balance, t, C, a, n), t, C, e, m)
    PROVE  /\ Untouched(balance', S)
           /\ \A u \in Tokens, z \in S :
                /\ balance[u][z] \in Int
                /\ balance'[u][z] = IF u = t /\ z = C THEN balance[u][z] - n - m
                                    ELSE balance[u][z]
<1> DEFINE b == Paid(balance, t, C, a, n)
<1>1. /\ C # a /\ C # e /\ C \in Accounts \cup Contracts /\ a \in Accounts \cup Contracts
      /\ e \in Accounts \cup Contracts /\ IsLedger(balance)
    BY LedgerAssumption DEF Untouched
<1>2. /\ IsLedger(b)
      /\ \A u \in Tokens, z \in Accounts \cup Contracts :
           b[u][z] = IF u # t THEN balance[u][z]
                     ELSE IF z = C THEN balance[u][z] - n
                     ELSE IF z = a THEN balance[u][z] + n
                     ELSE balance[u][z]
    BY <1>1, PaidBalances
<1>3. balance' = Paid(b, t, C, e, m)
    OBVIOUS
<1> HIDE DEF b
<1>4. /\ IsLedger(balance')
      /\ \A u \in Tokens, z \in Accounts \cup Contracts :
           balance'[u][z] = IF u # t THEN b[u][z]
                            ELSE IF z = C THEN b[u][z] - m
                            ELSE IF z = e THEN b[u][z] + m
                            ELSE b[u][z]
    BY <1>1, <1>2, <1>3, PaidBalances
<1>5. \A u \in Tokens, z \in Accounts \cup Contracts : balance[u][z] \in Int
    BY <1>1 DEF IsLedger
<1>6. \A u \in Tokens, z \in Contracts :
        balance'[u][z] = IF u = t /\ z = C THEN balance[u][z] - n - m ELSE balance[u][z]
    BY <1>1, <1>2, <1>4, <1>5, LedgerAssumption
<1> QED BY <1>4, <1>5, <1>6 DEF Untouched

\* At first every contract holds its endowment.
LEMMA UntouchedAtFirst ==
    ASSUME LedgerInit, NEW S \in SUBSET Contracts
    PROVE  Untouched(balance, S) /\ \A t \in Tokens, z \in Contracts : balance[t][z] = Endowment(z)
BY LedgerAssumption DEF LedgerInit, Untouched, IsLedger, Endowment

-----------------------------------------------------------------------------
\* GovernanceVoting

\* A proposal with one more vote is a proposal.
LEMMA OneMoreVote ==
    ASSUME NEW p \in Proposal
    PROVE  /\ [p EXCEPT !.for_votes = @ + 1] \in Proposal
           /\ [p EXCEPT !.against_votes = @ + 1] \in Proposal
           /\ p.deadline \in Nat
BY DEF Proposal

\* A call of the voting contract keeps the types of what it stores.
LEMMA GovTypeStep == GovTypeOK /\ [GovNext]_govVars => GovTypeOK'
<1> SUFFICES ASSUME GovTypeOK, [GovNext]_govVars PROVE GovTypeOK'
    OBVIOUS
<1> USE DEF GovTypeOK
<1>1. CASE CloseLedger /\ UNCHANGED <<proposals, voted>>
    BY <1>1 DEF CloseLedger
<1>2. ASSUME NEW d \in Durations, create_proposal(d) PROVE GovTypeOK'
  <2>1. [deadline |-> now + d, for_votes |-> 0, against_votes |-> 0] \in Proposal
      BY GovernanceAssumption DEF Proposal
  <2>2. proposals' \in Seq(Proposal) /\ Len(proposals') = Len(proposals) + 1
      BY <1>2, <2>1 DEF create_proposal
  <2>3. voted' \in Seq(SUBSET Accounts) /\ Len(voted') = Len(voted) + 1
      BY <1>2 DEF create_proposal
  <2> QED BY <1>2, <2>2, <2>3 DEF create_proposal, ledgerVars
<1>3. ASSUME NEW v \in Accounts, NEW id \in DOMAIN proposals, NEW s \in BOOLEAN,
             vote(v, id, s)
      PROVE  GovTypeOK'
  <2>0. proposals[id] \in Proposal
      BY <1>3
  <2>1. proposals' \in Seq(Proposal) /\ Len(proposals') = Len(proposals)
    <3>1. CASE s
      <4>1. [proposals[id] EXCEPT !.for_votes = @ + 1] \in Proposal
          BY <2>0, OneMoreVote
      <4>2. proposals' = [proposals EXCEPT ![id] = [proposals[id] EXCEPT !.for_votes = @ + 1]]
          BY <1>3, <3>1 DEF vote
      <4> QED BY <1>3, <4>1, <4>2
    <3>2. CASE ~s
      <4>1. [proposals[id] EXCEPT !.against_votes = @ + 1] \in Proposal
          BY <2>0, OneMoreVote
      <4>2. proposals' = [proposals EXCEPT ![id] = [proposals[id] EXCEPT !.against_votes = @ + 1]]
          BY <1>3, <3>2 DEF vote
      <4> QED BY <1>3, <4>1, <4>2
    <3> QED BY <3>1, <3>2
  <2>2. voted' \in Seq(SUBSET Accounts) /\ Len(voted') = Len(voted)
      BY <1>3 DEF vote
  <2> QED BY <1>3, <2>1, <2>2 DEF vote, ledgerVars
<1>4. CASE UNCHANGED govVars
    BY <1>4 DEF govVars, ledgerVars
<1> QED BY <1>1, <1>2, <1>3, <1>4 DEF GovNext

\* The storage of the voting contract keeps its type (create_proposal, vote).
THEOREM GovTypeCorrect == GovSpec => []GovTypeOK
<1>1. GovInit => GovTypeOK
    BY DEF GovInit, GovTypeOK, LedgerInit
<1> QED BY <1>1, GovTypeStep, PTL DEF GovSpec

\* One step of the voting contract.
LEMMA TallyStep ==
    GovTypeOK /\ TallyMatchesVoters /\ [GovNext]_govVars => TallyMatchesVoters'
<1> SUFFICES ASSUME GovTypeOK, TallyMatchesVoters, [GovNext]_govVars,
                    NEW i \in DOMAIN proposals'
             PROVE  proposals'[i].for_votes + proposals'[i].against_votes
                      = Cardinality(voted'[i])
    BY DEF TallyMatchesVoters
<1>1. CASE CloseLedger /\ UNCHANGED <<proposals, voted>>
    BY <1>1 DEF TallyMatchesVoters
<1>2. ASSUME NEW d \in Durations, create_proposal(d)
      PROVE  proposals'[i].for_votes + proposals'[i].against_votes
               = Cardinality(voted'[i])
  <2>1. CASE i = Len(proposals) + 1
    <3>1. voted'[i] = {} /\ proposals'[i].for_votes = 0 /\ proposals'[i].against_votes = 0
        BY <1>2, <2>1 DEF create_proposal, GovTypeOK
    <3> QED BY <3>1, FS_EmptySet
  <2>2. CASE i # Len(proposals) + 1
    <3>1. i \in DOMAIN proposals /\ proposals'[i] = proposals[i] /\ voted'[i] = voted[i]
        BY <1>2, <2>2 DEF create_proposal, GovTypeOK
    <3> QED BY <3>1 DEF TallyMatchesVoters
  <2> QED BY <2>1, <2>2
<1>3. ASSUME NEW v \in Accounts, NEW id \in DOMAIN proposals, NEW s \in BOOLEAN,
             vote(v, id, s)
      PROVE  proposals'[i].for_votes + proposals'[i].against_votes
               = Cardinality(voted'[i])
  <2>0. DOMAIN proposals' = DOMAIN proposals /\ i \in DOMAIN voted
      BY <1>3 DEF vote, GovTypeOK
  <2>1. CASE i = id
    <3>1. voted'[i] = voted[i] \cup {v} /\ v \notin voted[i]
        BY <1>3, <2>0, <2>1 DEF vote, NotVoted
    <3>2. voted[i] \subseteq Accounts
        BY <2>0 DEF GovTypeOK
    <3>3. IsFiniteSet(voted[i])
        BY <3>2, LedgerAssumption, FS_Subset
    <3>4. Cardinality(voted'[i]) = Cardinality(voted[i]) + 1
        BY <3>1, <3>3, FS_AddElement
    <3>5. proposals[i] \in Proposal
        BY <1>3, <2>1 DEF GovTypeOK
    <3>6. proposals'[i].for_votes + proposals'[i].against_votes
            = proposals[i].for_votes + proposals[i].against_votes + 1
        BY <1>3, <2>0, <2>1, <3>5 DEF vote, Proposal
    <3> QED BY <1>3, <2>1, <3>4, <3>6 DEF TallyMatchesVoters
  <2>2. CASE i # id
      BY <1>3, <2>0, <2>2 DEF vote, TallyMatchesVoters
  <2> QED BY <2>1, <2>2
<1>4. CASE UNCHANGED govVars
    BY <1>4 DEF govVars, TallyMatchesVoters
<1> QED BY <1>1, <1>2, <1>3, <1>4 DEF GovNext

\* No address counts twice on a proposal and no vote is lost, for any number of
\* voters and proposals (vote of governance-voting).
THEOREM TallyIsExact == GovSpec => []TallyMatchesVoters
<1>1. GovInit => TallyMatchesVoters
    BY DEF GovInit, TallyMatchesVoters
<1>2. GovTypeOK /\ TallyMatchesVoters /\ [GovNext]_govVars => TallyMatchesVoters'
    BY TallyStep
<1> QED BY <1>1, <1>2, GovTypeCorrect, PTL DEF GovSpec

\* A proposal past its deadline never changes again (the deadline check of vote).
THEOREM OutcomeStays == GovSpec => OutcomeFinal
<1> DEFINE Final == \A id \in DOMAIN proposals :
                      now > proposals[id].deadline => proposals'[id] = proposals[id]
<1>1. GovTypeOK /\ GovNext => Final
  <2> SUFFICES ASSUME GovTypeOK, GovNext, NEW i \in DOMAIN proposals,
                      now > proposals[i].deadline
               PROVE  proposals'[i] = proposals[i]
      OBVIOUS
  <2>0. proposals[i].deadline \in Nat /\ now \in Nat
    <3>1. proposals[i] \in Proposal /\ now \in Nat
        BY DEF GovTypeOK
    <3> QED BY <3>1, OneMoreVote
  <2>1. CASE CloseLedger /\ UNCHANGED <<proposals, voted>>
      BY <2>1
  <2>2. ASSUME NEW d \in Durations, create_proposal(d) PROVE proposals'[i] = proposals[i]
      BY <2>2 DEF create_proposal, GovTypeOK
  <2>3. ASSUME NEW v \in Accounts, NEW id \in DOMAIN proposals, NEW s \in BOOLEAN,
               vote(v, id, s)
        PROVE  proposals'[i] = proposals[i]
    <3>1. i # id
        BY <2>0, <2>3 DEF vote, VotingOpen
    <3> QED BY <2>3, <3>1 DEF vote
  <2> QED BY <2>1, <2>2, <2>3 DEF GovNext
<1>2. GovTypeOK /\ [GovNext]_govVars => [Final]_govVars
    BY <1>1
<1> QED BY <1>2, GovTypeCorrect, PTL DEF GovSpec, OutcomeFinal

-----------------------------------------------------------------------------
\* EscrowFactory

\* A payment between accounts, to oneself included, moves no contract's balance.
LEMMA PaidAmongAccounts ==
    ASSUME NEW b, IsLedger(b), NEW t \in Tokens,
           NEW x \in Accounts, NEW y \in Accounts, NEW n \in Int
    PROVE  /\ IsLedger(Paid(b, t, x, y, n))
           /\ \A u \in Tokens, z \in Contracts : Paid(b, t, x, y, n)[u][z] = b[u][z]
<1> DEFINE f == b[t]
           g == [f EXCEPT ![x] = f[x] - n]
           h == [g EXCEPT ![y] = g[y] + n]
<1>1. f \in [Accounts \cup Contracts -> Int]
    BY DEF IsLedger
<1>2. g \in [Accounts \cup Contracts -> Int]
    BY <1>1
<1>3. h \in [Accounts \cup Contracts -> Int]
    BY <1>2
<1>4. \A z \in Contracts : h[z] = f[z]
    BY <1>1, <1>2, LedgerAssumption
<1>5. Paid(b, t, x, y, n) = [b EXCEPT ![t] = h]
    BY DEF Paid
<1> HIDE DEF h
<1> QED BY <1>3, <1>4, <1>5 DEF IsLedger

\* The escrows' balances in terms of their configurations, with the types.
EscrowsFunded == EscrowTypeOK /\ EscrowHoldsDeposit

\* A new escrow is funded with its deposit, and no other one is touched (deploy_escrow).
LEMMA DeployKeepsDeposits ==
    ASSUME EscrowsFunded, NEW e \in Escrows, NEW c \in EscrowConfig, c.state = "Active",
           deploy_escrow(e, c)
    PROVE  EscrowsFunded'
<1> USE DEF EscrowsFunded
<1>1. e \in Contracts /\ Escrows \subseteq Contracts
    BY EscrowAssumption
<1>2. /\ c.initiator \in Accounts /\ c.tokenA \in Tokens /\ c.amountA \in Int
    BY DEF EscrowConfig
<1>3. c.initiator # e
    BY <1>1, <1>2, LedgerAssumption
<1>4. balance' = Paid(balance, c.tokenA, c.initiator, e, c.amountA)
    BY DEF deploy_escrow
<1>5. balance \in [Tokens -> [Accounts \cup Contracts -> Int]]
    BY DEF EscrowTypeOK
<1>6. /\ balance' \in [Tokens -> [Accounts \cup Contracts -> Int]]
      /\ \A u \in Tokens, z \in Accounts \cup Contracts :
           balance'[u][z] = IF u # c.tokenA THEN balance[u][z]
                            ELSE IF z = c.initiator THEN balance[u][z] - c.amountA
                            ELSE IF z = e THEN balance[u][z] + c.amountA
                            ELSE balance[u][z]
  <2> DEFINE t == c.tokenA
             x == c.initiator
             n == c.amountA
  <2>1. t \in Tokens /\ n \in Int /\ x # e
      BY <1>2, <1>3
  <2>2. x \in Accounts \cup Contracts /\ e \in Accounts \cup Contracts
      BY <1>1, <1>2
  <2>3. balance' = Paid(balance, t, x, e, n)
      BY <1>4
  <2> HIDE DEF t, x, n
  <2>4. /\ IsLedger(balance')
        /\ \A u \in Tokens, z \in Accounts \cup Contracts :
             balance'[u][z] = IF u # t THEN balance[u][z]
                              ELSE IF z = x THEN balance[u][z] - n
                              ELSE IF z = e THEN balance[u][z] + n
                              ELSE balance[u][z]
    <3>1. IsLedger(balance)
        BY <1>5 DEF IsLedger
    <3> QED BY <2>1, <2>2, <2>3, <3>1, PaidBalances
  <2> QED BY <2>4 DEF t, x, n, IsLedger
<1>7. EscrowTypeOK'
    BY <1>6 DEF EscrowTypeOK, deploy_escrow
<1>8. ASSUME NEW x \in Escrows, NEW t \in Tokens
      PROVE  balance'[t][x] = IF escrow'[x].state = "Active" /\ t = escrow'[x].tokenA
                              THEN escrow'[x].amountA ELSE 0
  <2>1. x \in Contracts /\ x # c.initiator
      BY <1>1, <1>2, <1>8, LedgerAssumption
  <2>2. balance[t][x] = IF escrow[x].state = "Active" /\ t = escrow[x].tokenA
                        THEN escrow[x].amountA ELSE 0
      BY DEF EscrowHoldsDeposit
  <2>3. CASE x = e
    <3>1. escrow[x].state = "none" /\ escrow'[x] = c
        BY <2>3 DEF deploy_escrow, NotDeployed, EscrowTypeOK
    <3>2. balance[t][x] = 0
        BY <2>2, <3>1
    <3> QED BY <1>2, <1>6, <2>1, <2>3, <3>1, <3>2
  <2>4. CASE x # e
    <3>1. escrow'[x] = escrow[x]
        BY <2>4 DEF deploy_escrow, EscrowTypeOK
    <3>2. balance'[t][x] = balance[t][x]
        BY <1>6, <2>1, <2>4
    <3> QED BY <2>2, <3>1, <3>2
  <2> QED BY <2>3, <2>4
<1> QED BY <1>7, <1>8 DEF EscrowHoldsDeposit

\* Paying out: e gives its whole deposit to an account and closes.
LEMMA PayOutKeepsDeposits ==
    ASSUME EscrowsFunded, NEW e \in Escrows, escrow[e].state = "Active",
           NEW a \in Accounts, NEW st \in {"Completed", "Refunded"},
           NEW b \in [Tokens -> [Accounts \cup Contracts -> Int]],
           \A u \in Tokens, z \in Contracts : b[u][z] = balance[u][z],
           balance' = Paid(b, escrow[e].tokenA, e, a, escrow[e].amountA),
           escrow' = [escrow EXCEPT ![e].state = st],
           UNCHANGED <<now, wasmHashSet>>
    PROVE  EscrowsFunded'
<1> USE DEF EscrowsFunded
<1>1. e \in Contracts /\ Escrows \subseteq Contracts /\ a # e
    BY EscrowAssumption, LedgerAssumption
<1>2. escrow[e] \in EscrowConfig
    BY DEF EscrowTypeOK, NotDeployed
<1>3. escrow[e].tokenA \in Tokens /\ escrow[e].amountA \in Int
    BY <1>2 DEF EscrowConfig
<1>4. /\ balance' \in [Tokens -> [Accounts \cup Contracts -> Int]]
      /\ \A u \in Tokens, z \in Accounts \cup Contracts :
           balance'[u][z] = IF u # escrow[e].tokenA THEN b[u][z]
                            ELSE IF z = e THEN b[u][z] - escrow[e].amountA
                            ELSE IF z = a THEN b[u][z] + escrow[e].amountA
                            ELSE b[u][z]
  <2> DEFINE t == escrow[e].tokenA
             n == escrow[e].amountA
  <2>1. t \in Tokens /\ n \in Int
      BY <1>3
  <2>2. a \in Accounts \cup Contracts /\ e \in Accounts \cup Contracts /\ e # a
      BY <1>1
  <2>3. balance' = Paid(b, t, e, a, n)
      OBVIOUS
  <2> HIDE DEF t, n
  <2>4. /\ IsLedger(balance')
        /\ \A u \in Tokens, z \in Accounts \cup Contracts :
             balance'[u][z] = IF u # t THEN b[u][z]
                              ELSE IF z = e THEN b[u][z] - n
                              ELSE IF z = a THEN b[u][z] + n
                              ELSE b[u][z]
    <3>1. IsLedger(b)
        BY DEF IsLedger
    <3> QED BY <2>1, <2>2, <2>3, <3>1, PaidBalances
  <2> QED BY <2>4 DEF t, n, IsLedger
<1>5. [escrow[e] EXCEPT !.state = st] \in EscrowConfig
    BY <1>2 DEF EscrowConfig
<1>6. escrow' = [escrow EXCEPT ![e] = [escrow[e] EXCEPT !.state = st]]
    OBVIOUS
<1>7. EscrowTypeOK'
    BY <1>4, <1>5, <1>6 DEF EscrowTypeOK
<1>8. ASSUME NEW x \in Escrows, NEW t \in Tokens
      PROVE  balance'[t][x] = IF escrow'[x].state = "Active" /\ t = escrow'[x].tokenA
                              THEN escrow'[x].amountA ELSE 0
  <2>1. x \in Contracts /\ x # a
      BY <1>1, <1>8, LedgerAssumption
  <2>2. b[t][x] = IF escrow[x].state = "Active" /\ t = escrow[x].tokenA
                  THEN escrow[x].amountA ELSE 0
      BY <2>1 DEF EscrowHoldsDeposit
  <2>3. CASE x = e
    <3>1. escrow'[x].state = st
        BY <1>2, <2>3 DEF EscrowTypeOK, EscrowConfig
    <3>2. balance'[t][x] = 0
        BY <1>3, <1>4, <2>1, <2>2, <2>3
    <3> QED BY <3>1, <3>2
  <2>4. CASE x # e
    <3>1. escrow'[x] = escrow[x]
        BY <2>4 DEF EscrowTypeOK
    <3>2. balance'[t][x] = b[t][x]
        BY <1>4, <2>1, <2>4
    <3> QED BY <2>2, <3>1, <3>2
  <2> QED BY <2>3, <2>4
<1> QED BY <1>7, <1>8 DEF EscrowHoldsDeposit

\* One step of the escrows.
LEMMA DepositsStep ==
    EscrowsFunded /\ [EscrowNext]_escrowVars => EscrowsFunded'
<1> SUFFICES ASSUME EscrowsFunded, [EscrowNext]_escrowVars PROVE EscrowsFunded'
    OBVIOUS
<1>1. CASE factory_initialize
    BY <1>1 DEF factory_initialize, ledgerVars, EscrowsFunded, EscrowTypeOK, EscrowHoldsDeposit
<1>2. ASSUME NEW e \in Escrows, NEW i \in Accounts, NEW c \in Accounts,
             NEW ta \in Tokens, NEW tb \in Tokens, NEW a \in Amounts, NEW b \in Amounts,
             deploy_escrow(e, [state |-> "Active", initiator |-> i, counterparty |-> c,
                               tokenA |-> ta, amountA |-> a, tokenB |-> tb, amountB |-> b])
      PROVE  EscrowsFunded'
  <2> DEFINE cfg == [state |-> "Active", initiator |-> i, counterparty |-> c,
                     tokenA |-> ta, amountA |-> a, tokenB |-> tb, amountB |-> b]
  <2>1. cfg \in EscrowConfig /\ cfg.state = "Active"
      BY LedgerAssumption DEF EscrowConfig
  <2>2. deploy_escrow(e, cfg)
      BY <1>2
  <2> HIDE DEF cfg
  <2> QED BY <2>1, <2>2, DeployKeepsDeposits
<1>3. ASSUME NEW e \in Escrows, complete(e) PROVE EscrowsFunded'
  <2> DEFINE c == escrow[e]
             b == Paid(balance, c.tokenB, c.counterparty, c.initiator, c.amountB)
  <2>1. c.state = "Active" /\ c \in EscrowConfig
      BY <1>3 DEF complete, EscrowsFunded, EscrowTypeOK, NotDeployed
  <2>2. /\ c.counterparty \in Accounts /\ c.initiator \in Accounts
        /\ c.tokenB \in Tokens /\ c.amountB \in Int
      BY <2>1 DEF EscrowConfig
  <2>3. balance \in [Tokens -> [Accounts \cup Contracts -> Int]]
      BY DEF EscrowsFunded, EscrowTypeOK
  <2>4. /\ b \in [Tokens -> [Accounts \cup Contracts -> Int]]
        /\ \A u \in Tokens, z \in Contracts : b[u][z] = balance[u][z]
    <3> DEFINE t == c.tokenB
               x == c.counterparty
               y == c.initiator
               n == c.amountB
    <3>1. t \in Tokens /\ x \in Accounts /\ y \in Accounts /\ n \in Int
        BY <2>2
    <3> HIDE DEF t, x, y, n
    <3>2. /\ IsLedger(Paid(balance, t, x, y, n))
          /\ \A u \in Tokens, z \in Contracts :
               Paid(balance, t, x, y, n)[u][z] = balance[u][z]
      <4>1. IsLedger(balance)
          BY <2>3 DEF IsLedger
      <4> QED BY <3>1, <4>1, PaidAmongAccounts
    <3> QED BY <3>2 DEF t, x, y, n, IsLedger
  <2>5. /\ balance' = Paid(b, c.tokenA, e, c.counterparty, c.amountA)
        /\ escrow' = [escrow EXCEPT ![e].state = "Completed"]
        /\ UNCHANGED <<now, wasmHashSet>>
      BY <1>3 DEF complete
  <2> HIDE DEF b
  <2> QED BY <2>1, <2>2, <2>4, <2>5, PayOutKeepsDeposits
<1>4. ASSUME NEW e \in Escrows, refund(e) PROVE EscrowsFunded'
  <2> DEFINE c == escrow[e]
  <2>1. c.state = "Active" /\ c \in EscrowConfig
      BY <1>4 DEF refund, EscrowsFunded, EscrowTypeOK, NotDeployed
  <2>2. c.initiator \in Accounts
      BY <2>1 DEF EscrowConfig
  <2>3. /\ balance \in [Tokens -> [Accounts \cup Contracts -> Int]]
        /\ \A u \in Tokens, z \in Contracts : balance[u][z] = balance[u][z]
      BY DEF EscrowsFunded, EscrowTypeOK
  <2>4. /\ balance' = Paid(balance, c.tokenA, e, c.initiator, c.amountA)
        /\ escrow' = [escrow EXCEPT ![e].state = "Refunded"]
        /\ UNCHANGED <<now, wasmHashSet>>
      BY <1>4 DEF refund
  <2> QED BY <2>1, <2>2, <2>3, <2>4, PayOutKeepsDeposits
<1>5. CASE UNCHANGED escrowVars
    BY <1>5 DEF escrowVars, ledgerVars, EscrowsFunded, EscrowTypeOK, EscrowHoldsDeposit
<1> QED BY <1>1, <1>2, <1>3, <1>4, <1>5 DEF EscrowNext

\* The escrows at first.
LEMMA DepositsFirst == EscrowInit => EscrowsFunded
<1> SUFFICES ASSUME EscrowInit PROVE EscrowsFunded
    OBVIOUS
<1>1. EscrowTypeOK
  <2>1. balance \in [Tokens -> [Accounts \cup Contracts -> Int]] /\ now \in Nat
      BY LedgerAssumption DEF EscrowInit, LedgerInit
  <2>2. wasmHashSet \in BOOLEAN /\ escrow \in [Escrows -> EscrowConfig \cup {NotDeployed}]
      BY DEF EscrowInit
  <2> QED BY <2>1, <2>2 DEF EscrowTypeOK
<1>2. \A e \in Escrows, t \in Tokens : balance[t][e] = 0 /\ escrow[e].state = "none"
    BY EscrowAssumption, LedgerAssumption DEF EscrowInit, LedgerInit, NotDeployed
<1> QED BY <1>1, <1>2 DEF EscrowsFunded, EscrowHoldsDeposit

\* An active escrow holds exactly its deposit and any other nothing, for any
\* escrows, amounts and order of calls (deploy_escrow, complete, refund).
THEOREM DepositsAreHeld == EscrowSpec => [](EscrowTypeOK /\ EscrowHoldsDeposit)
<1>1. EscrowInit => EscrowsFunded
    BY DepositsFirst
<1>2. EscrowsFunded /\ [EscrowNext]_escrowVars => EscrowsFunded'
    BY DepositsStep
<1> QED BY <1>1, <1>2, PTL DEF EscrowSpec, EscrowsFunded

-----------------------------------------------------------------------------
\* IdentityRegistryDID

\* A document is that of a DID, or is none and then not active.
LEMMA Documents ==
    ASSUME NEW i \in DIDInfo \cup {NoDocument}
    PROVE  /\ i.did \in DIDs \cup {"none"} /\ i.active \in BOOLEAN
           /\ (i = NoDocument) <=> (i.did = "none")
           /\ i = NoDocument => ~i.active
           /\ i # NoDocument => i \in DIDInfo
<1>1. NoDocument.did = "none" /\ ~NoDocument.active /\ NoDocument.active \in BOOLEAN
    BY DEF NoDocument
<1>2. i \in DIDInfo => i.did \in DIDs /\ i.active \in BOOLEAN
    BY DEF DIDInfo
<1>3. "none" \notin DIDs
    BY DIDAssumption
<1> QED BY <1>1, <1>2, <1>3

\* A revoked document is a document still, of the same DID.
LEMMA RevokedDocument ==
    ASSUME NEW i \in DIDInfo, NEW n \in Nat
    PROVE  /\ [i EXCEPT !.active = FALSE, !.updated_at = n] \in DIDInfo
           /\ [i EXCEPT !.active = FALSE, !.updated_at = n].did = i.did
BY DEF DIDInfo

\* What a registration and a revocation do to the two maps.
LEMMA RegisterEffect ==
    ASSUME DIDTypeOK, NEW a \in Accounts, NEW d \in DIDs, NEW k \in Pubkeys, Register(a, d, k)
    PROVE  /\ identityToDID[a] = NoDocument /\ didToIdentity[d] = NoIdentity
           /\ identityToDID'[a].did = d
           /\ \A x \in Accounts : x # a => identityToDID'[x] = identityToDID[x]
           /\ didToIdentity'[d] = a
           /\ \A y \in DIDs : y # d => didToIdentity'[y] = didToIdentity[y]
           /\ DIDTypeOK'
<1> DEFINE info == [did |-> d, identity_pubkey |-> k, active |-> TRUE, updated_at |-> now]
<1>1. info \in DIDInfo /\ info.did = d
    BY DEF DIDTypeOK, DIDInfo
<1>2. identityToDID' = [identityToDID EXCEPT ![a] = info]
    BY DEF Register
<1> HIDE DEF info
<1>3. /\ identityToDID[a] = NoDocument /\ didToIdentity[d] = NoIdentity
      /\ didToIdentity' = [didToIdentity EXCEPT ![d] = a] /\ now' = now
    BY DEF Register, Available, ledgerVars
<1>4. DIDTypeOK'
    BY <1>1, <1>2, <1>3 DEF DIDTypeOK
<1> QED BY <1>1, <1>2, <1>3, <1>4 DEF DIDTypeOK

\* What revoke_did writes: one document, which is no longer active.
LEMMA RevokeEffect ==
    ASSUME DIDTypeOK, NEW a \in Accounts, revoke_did(a)
    PROVE  /\ identityToDID[a].active
           /\ identityToDID'[a].did = identityToDID[a].did
           /\ \A x \in Accounts : x # a => identityToDID'[x] = identityToDID[x]
           /\ didToIdentity' = didToIdentity
           /\ DIDTypeOK'
<1> DEFINE i == identityToDID[a]
           j == [i EXCEPT !.active = FALSE, !.updated_at = now]
<1>1. i.active /\ i \in DIDInfo \cup {NoDocument} /\ now \in Nat
    BY DEF revoke_did, DIDTypeOK
<1>2. i \in DIDInfo
    BY <1>1, Documents
<1>3. j \in DIDInfo /\ j.did = i.did
    BY <1>1, <1>2, RevokedDocument
<1>4. /\ identityToDID' = [identityToDID EXCEPT ![a] = j]
      /\ didToIdentity' = didToIdentity /\ now' = now
    BY DEF revoke_did, ledgerVars
<1> HIDE DEF j
<1> QED BY <1>1, <1>3, <1>4 DEF DIDTypeOK

\* One step of the registry.
LEMMA MapsStep ==
    DIDTypeOK /\ MapsInverse /\ [DIDNext]_didVars => (DIDTypeOK /\ MapsInverse)'
<1> SUFFICES ASSUME DIDTypeOK, MapsInverse, [DIDNext]_didVars
             PROVE  DIDTypeOK' /\ MapsInverse'
    OBVIOUS
<1>1. CASE CloseLedger /\ UNCHANGED <<identityToDID, didToIdentity>>
    BY <1>1 DEF CloseLedger, DIDTypeOK, MapsInverse
<1>2. ASSUME NEW a \in Accounts, NEW d \in DIDs, NEW k \in Pubkeys, Register(a, d, k)
      PROVE  DIDTypeOK' /\ MapsInverse'
  <2>1. ASSUME NEW x \in Accounts, NEW y \in DIDs
        PROVE  (identityToDID'[x].did = y) <=> (didToIdentity'[y] = x)
    <3>1. (identityToDID[x].did = y) <=> (didToIdentity[y] = x)
        BY DEF MapsInverse
    <3>2. (identityToDID[x].did = d) <=> (didToIdentity[d] = x)
        BY DEF MapsInverse
    <3>3. (identityToDID[a].did = y) <=> (didToIdentity[y] = a)
        BY DEF MapsInverse
    <3>4. NoDocument.did = "none" /\ "none" # y /\ NoIdentity # x
        BY DIDAssumption DEF NoDocument, NoIdentity
    <3> QED BY <1>2, <3>1, <3>2, <3>3, <3>4, RegisterEffect
  <2> QED BY <1>2, <2>1, RegisterEffect DEF MapsInverse
<1>3. ASSUME NEW a \in Accounts, revoke_did(a) PROVE DIDTypeOK' /\ MapsInverse'
  <2>1. \A x \in Accounts : identityToDID'[x].did = identityToDID[x].did
      BY <1>3, RevokeEffect
  <2> QED BY <1>3, <2>1, RevokeEffect DEF MapsInverse
<1>4. CASE UNCHANGED didVars
    BY <1>4 DEF didVars, ledgerVars, DIDTypeOK, MapsInverse
<1> QED BY <1>1, <1>2, <1>3, <1>4 DEF DIDNext, register_did, register_did_sponsored

\* The maps resolve_did and resolve_by_did read name each other, for any number
\* of identities and DIDs (register_did, register_did_sponsored, revoke_did).
THEOREM MapsStayInverse == DIDSpec => [](DIDTypeOK /\ MapsInverse)
<1>1. DIDInit => DIDTypeOK /\ MapsInverse
    BY DIDAssumption DEF DIDInit, DIDTypeOK, MapsInverse, LedgerInit, NoDocument, NoIdentity
<1>2. DIDTypeOK /\ MapsInverse /\ [DIDNext]_didVars => (DIDTypeOK /\ MapsInverse)'
    BY MapsStep
<1> QED BY <1>1, <1>2, PTL DEF DIDSpec

\* A revoked identity never becomes active again and keeps its document
\* (revoke_did and the first check of both registrations).
THEOREM RevocationStays == DIDSpec => RevocationFinal
<1> DEFINE Final == \A a \in Accounts :
                      identityToDID[a] # NoDocument /\ ~identityToDID[a].active =>
                        identityToDID'[a] = identityToDID[a]
<1>1. DIDTypeOK /\ DIDNext => Final
  <2> SUFFICES ASSUME DIDTypeOK, DIDNext, NEW x \in Accounts,
                      identityToDID[x] # NoDocument, ~identityToDID[x].active
               PROVE  identityToDID'[x] = identityToDID[x]
      OBVIOUS
  <2>1. CASE CloseLedger /\ UNCHANGED <<identityToDID, didToIdentity>>
      BY <2>1
  <2>2. ASSUME NEW a \in Accounts, NEW d \in DIDs, NEW k \in Pubkeys, Register(a, d, k)
        PROVE  identityToDID'[x] = identityToDID[x]
      BY <2>2, RegisterEffect
  <2>3. ASSUME NEW a \in Accounts, revoke_did(a) PROVE identityToDID'[x] = identityToDID[x]
      BY <2>3, RevokeEffect
  <2> QED BY <2>1, <2>2, <2>3 DEF DIDNext, register_did, register_did_sponsored
<1>2. DIDTypeOK /\ [DIDNext]_didVars => [Final]_didVars
    BY <1>1
<1> QED BY <1>2, MapsStayInverse, PTL DEF DIDSpec, RevocationFinal

\* Rounding down to whole credits gives nothing away and takes nothing back.
LEMMA SettledCredits ==
    ASSUME NEW c \in Nat, NEW a \in Nat, NEW d \in Nat, NEW s \in Nat \ {0}
    PROVE  /\ c + (a * d) \div s \in Nat
           /\ c + (a * d) \div s >= c
           /\ (c + (a * d) \div s) * s <= c * s + a * d
<1> DEFINE p == a * d
           q == p \div s
<1>1. p \in Nat
    OBVIOUS
<1> HIDE DEF p
<1>2. q \in Int /\ p = s * q + (p % s) /\ 0 <= p % s /\ p % s < s /\ p % s \in Int
    BY <1>1
<1> DEFINE r == p % s
<1>3. q \in Int /\ p = s * q + r /\ 0 <= r /\ r < s /\ r \in Int
    BY <1>2
<1> HIDE DEF q, r
<1>4. q >= 0 /\ s * q <= p
    BY <1>1, <1>3
<1>5. c + q \in Nat /\ c + q >= c
    BY <1>3, <1>4
<1>6. (c + q) * s = c * s + s * q
    BY <1>3
<1>7. (c + q) * s <= c * s + p
  <2>1. s * q \in Int /\ c * s \in Int
      BY <1>3
  <2> QED BY <1>1, <1>4, <1>6, <2>1
<1> QED BY <1>5, <1>7 DEF p, q

\* A stake and the time it was held: nothing, or an amount since a moment of the past
\* whose credits, with those it has earned since, were held for.
StakeTrue(s, h, time) ==
    \/ s = NoStake
    \/ /\ s \in [amount : 0 .. MaxStake, last : 0 .. time, credits : Nat]
       /\ s.credits * SecondsPerCredit + s.amount * (time - s.last) <= h

StakeInv ==
    /\ now \in 0 .. MaxTime
    /\ held \in [Accounts -> [Tokens -> Nat]]
    /\ DOMAIN stake = Accounts /\ \A u \in Accounts : DOMAIN stake[u] = Tokens
    /\ stake = [u \in Accounts |-> [t \in Tokens |-> stake[u][t]]]
    /\ \A u \in Accounts, t \in Tokens : StakeTrue(stake[u][t], held[u][t], now)

\* What stake_tokens and unstake start from: the record, or an empty one.
LEMMA StakeStart ==
    ASSUME StakeInv, NEW u \in Accounts, NEW t \in Tokens, NEW i,
           i = StakeInfo(u, t)
    PROVE  /\ i.amount \in 0 .. MaxStake /\ i.last \in 0 .. now /\ i.credits \in Nat
           /\ i.credits * SecondsPerCredit + i.amount * (now - i.last) <= held[u][t]
           /\ i.credits >= stake[u][t].credits
           /\ i.amount = (IF stake[u][t] = NoStake THEN 0 ELSE stake[u][t].amount)
<1>1. now \in 0 .. MaxTime /\ held[u][t] \in Nat /\ StakeTrue(stake[u][t], held[u][t], now)
    BY DEF StakeInv
<1>2. CASE stake[u][t] = NoStake
  <2>1. i = [amount |-> 0, last |-> now, credits |-> 0]
      BY <1>2 DEF StakeInfo
  <2>2. stake[u][t].credits = 0
      BY <1>2 DEF NoStake
  <2>3. 0 * SecondsPerCredit + 0 * (now - now) = 0
      BY <1>1, StakingAssumption
  <2> QED BY <1>1, <1>2, <2>1, <2>2, <2>3, LedgerAssumption, StakingAssumption
<1>3. CASE stake[u][t] # NoStake
    BY <1>1, <1>3 DEF StakeInfo, StakeTrue
<1> QED BY <1>2, <1>3

\* Settling: the record that is written is true, whatever amount it names.
LEMMA SettledIsTrue ==
    ASSUME StakeInv, NEW u \in Accounts, NEW t \in Tokens, NEW i,
           i = StakeInfo(u, t), NEW n \in 0 .. MaxStake
    PROVE  /\ StakeTrue([amount |-> n, last |-> now, credits |-> calculate_credits(i)], held[u][t], now)
           /\ calculate_credits(i) \in Nat /\ calculate_credits(i) >= stake[u][t].credits
<1> DEFINE c == i.credits
           a == i.amount
           d == now - i.last
           s == SecondsPerCredit
           q == c + (a * d) \div s
           h == held[u][t]
<1>1. /\ c \in Nat /\ a \in Nat /\ d \in Nat /\ s \in Nat \ {0} /\ h \in Nat
      /\ c * s + a * d <= h /\ now \in Nat /\ c >= stake[u][t].credits
    BY StakeStart, StakingAssumption DEF StakeInv
<1>2. calculate_credits(i) = q
    BY DEF calculate_credits
<1>5. stake[u][t].credits \in Nat
    BY DEF StakeInv, StakeTrue, NoStake
<1> HIDE DEF c, a, d, q
<1>3. q \in Nat /\ q >= c /\ q * s <= c * s + a * d
    BY <1>1, SettledCredits DEF q
<1>4. q * s <= h /\ q >= stake[u][t].credits
  <2>1. q * s \in Nat /\ c * s \in Nat /\ a * d \in Nat
      BY <1>1, <1>3
  <2> HIDE DEF s, h
  <2> QED BY <1>1, <1>3, <1>5, <2>1
<1>6. n * (now - now) = 0 /\ q * s + 0 = q * s
    BY <1>1, <1>3
<1>7. StakeTrue([amount |-> n, last |-> now, credits |-> q], h, now)
  <2> DEFINE w == [amount |-> n, last |-> now, credits |-> q]
  <2>1. w \in [amount : 0 .. MaxStake, last : 0 .. now, credits : Nat]
      BY <1>1, <1>3
  <2>2. w.credits = q /\ w.amount = n /\ w.last = now
      OBVIOUS
  <2> HIDE DEF w
  <2>3. w.credits * s + w.amount * (now - w.last) <= h
      BY <1>4, <1>6, <2>2
  <2> QED BY <2>1, <2>3 DEF w, StakeTrue
<1> QED BY <1>2, <1>3, <1>4, <1>7

\* One record is written, the others stay.
LEMMA StakeWritten ==
    ASSUME StakeInv, NEW u \in Accounts, NEW t \in Tokens, NEW w,
           stake' = [stake EXCEPT ![u][t] = w], UNCHANGED <<now, held>>,
           StakeTrue(w, held[u][t], now), w.credits \in Nat, w.credits >= stake[u][t].credits
    PROVE  /\ StakeInv'
           /\ \A v \in Accounts, r \in Tokens : stake'[v][r].credits >= stake[v][r].credits
<1>1. \A v \in Accounts, r \in Tokens :
        stake'[v][r] = IF v = u /\ r = t THEN w ELSE stake[v][r]
    BY DEF StakeInv
<1>2. /\ DOMAIN stake' = Accounts /\ \A v \in Accounts : DOMAIN stake'[v] = Tokens
      /\ stake' = [v \in Accounts |-> [r \in Tokens |-> stake'[v][r]]]
    BY DEF StakeInv
<1>3. \A v \in Accounts, r \in Tokens : stake[v][r].credits \in Nat
    BY DEF StakeInv, StakeTrue, NoStake
<1>4. \A v \in Accounts, r \in Tokens : StakeTrue(stake'[v][r], held'[v][r], now')
  <2> SUFFICES ASSUME NEW v \in Accounts, NEW r \in Tokens
               PROVE  StakeTrue(stake'[v][r], held'[v][r], now')
      OBVIOUS
  <2>1. StakeTrue(stake[v][r], held[v][r], now) /\ now' = now /\ held'[v][r] = held[v][r]
      BY DEF StakeInv
  <2> QED BY <1>1, <2>1 DEF StakeTrue
<1> QED BY <1>1, <1>2, <1>3, <1>4 DEF StakeInv

\* A call of the staking contract keeps StakeInv and lowers nobody's credits.
LEMMA StakingSteps ==
    ASSUME StakeInv, [StakingNext]_stakingVars
    PROVE  /\ StakeInv'
           /\ \A v \in Accounts, r \in Tokens : stake'[v][r].credits >= stake[v][r].credits
<1> DEFINE Goal == /\ StakeInv'
                   /\ \A v \in Accounts, r \in Tokens : stake'[v][r].credits >= stake[v][r].credits
<1>0. \A v \in Accounts, r \in Tokens : /\ StakeTrue(stake[v][r], held[v][r], now)
                                        /\ held[v][r] \in Nat /\ stake[v][r].credits \in Nat
    BY DEF StakeInv, StakeTrue, NoStake
<1>1. CASE StakingTick
  <2>1. now' = now + 1 /\ now' \in 0 .. MaxTime /\ now \in Nat /\ stake' = stake
      BY <1>1, LedgerAssumption DEF StakingTick, CloseLedger, StakeInv
  <2>2. \A v \in Accounts, r \in Tokens : held'[v][r] = held[v][r] + Max({0, stake[v][r].amount})
      BY <1>1 DEF StakingTick
  <2>3. ASSUME NEW v \in Accounts, NEW r \in Tokens
        PROVE  held'[v][r] \in Nat /\ StakeTrue(stake[v][r], held'[v][r], now')
    <3>1. CASE stake[v][r] = NoStake
      <4>1. Max({0, stake[v][r].amount}) = 0
          BY <3>1 DEF NoStake, Max
      <4> QED BY <1>0, <2>2, <3>1, <4>1 DEF StakeTrue
    <3>2. CASE stake[v][r] # NoStake
      <4> DEFINE a == stake[v][r].amount
                 l == stake[v][r].last
                 c == stake[v][r].credits * SecondsPerCredit
                 h == held[v][r]
      <4>1. /\ stake[v][r] \in [amount : 0 .. MaxStake, last : 0 .. now, credits : Nat]
            /\ c + a * (now - l) <= h /\ h \in Nat
          BY <1>0, <3>2 DEF StakeTrue
      <4>2. a \in 0 .. MaxStake /\ l \in 0 .. now /\ stake[v][r].credits \in Nat /\ a \in Nat
          BY <4>1, StakingAssumption
      <4>3. Max({0, a}) = a
          BY <4>2 DEF Max
      <4>4. c \in Nat
          BY <4>2, StakingAssumption
      <4>5. a * (now + 1 - l) = a * (now - l) + a /\ a * (now - l) \in Nat
          BY <2>1, <4>2
      <4> HIDE DEF a, l, c, h
      <4>6. c + a * (now + 1 - l) <= h + a /\ h + a \in Nat
          BY <4>1, <4>2, <4>4, <4>5
      <4>7. held'[v][r] = h + a
          BY <2>2, <4>3 DEF a, h
      <4>8. stake[v][r] \in [amount : 0 .. MaxStake, last : 0 .. now', credits : Nat]
          BY <2>1, <4>1
      <4> QED BY <2>1, <4>6, <4>7, <4>8 DEF StakeTrue, a, l, c
    <3> QED BY <3>1, <3>2
  <2>4. held' \in [Accounts -> [Tokens -> Nat]]
      BY <1>1, <2>2, <2>3 DEF StakingTick
  <2> QED BY <1>0, <2>1, <2>3, <2>4 DEF StakeInv
<1>2. ASSUME NEW u \in Accounts, NEW t \in Tokens, NEW n \in Amounts, stake_tokens(u, t, n)
      PROVE  Goal
  <2> DEFINE i == StakeInfo(u, t)
             w == [amount |-> i.amount + n, last |-> now, credits |-> calculate_credits(i)]
  <2>1. /\ stake' = [stake EXCEPT ![u][t] = w] /\ UNCHANGED <<now, held>>
        /\ i.amount + n <= MaxStake /\ n >= 0 /\ n \in Int
      BY <1>2, LedgerAssumption DEF stake_tokens, CanPay
  <2>2. i.amount + n \in 0 .. MaxStake
      BY <2>1, StakeStart, StakingAssumption
  <2>3. StakeTrue(w, held[u][t], now) /\ w.credits \in Nat /\ w.credits >= stake[u][t].credits
      BY <2>2, SettledIsTrue
  <2> HIDE DEF w
  <2> QED BY <2>1, <2>3, StakeWritten
<1>3. ASSUME NEW u \in Accounts, NEW t \in Tokens, NEW n \in Amounts, unstake(u, t, n)
      PROVE  Goal
  <2> DEFINE i == StakeInfo(u, t)
             v == [amount |-> i.amount - n, last |-> now, credits |-> calculate_credits(i)]
             w == IF v.amount = 0 /\ v.credits = 0 THEN NoStake ELSE v
  <2>1. i = stake[u][t]
      BY <1>3 DEF unstake, StakeInfo
  <2>2. /\ stake' = [stake EXCEPT ![u][t] = w] /\ UNCHANGED <<now, held>>
        /\ i.amount >= n /\ n >= 0 /\ n \in Int
      BY <1>3, <2>1, LedgerAssumption DEF unstake, CanPay
  <2>3. i.amount - n \in 0 .. MaxStake
      BY <2>2, StakeStart, StakingAssumption
  <2>4. StakeTrue(v, held[u][t], now) /\ v.credits \in Nat /\ v.credits >= stake[u][t].credits
      BY <2>3, SettledIsTrue
  <2>5. StakeTrue(w, held[u][t], now) /\ w.credits \in Nat /\ w.credits >= stake[u][t].credits
    <3>1. NoStake.credits = 0 /\ StakeTrue(NoStake, held[u][t], now) /\ stake[u][t].credits \in Nat
        BY <1>0 DEF NoStake, StakeTrue
    <3> HIDE DEF v
    <3> QED BY <2>4, <3>1
  <2> HIDE DEF w
  <2> QED BY <2>2, <2>5, StakeWritten
<1>4. CASE UNCHANGED stakingVars
    BY <1>0, <1>4 DEF stakingVars, ledgerVars, StakeInv
<1> QED BY <1>1, <1>2, <1>3, <1>4 DEF StakingNext

\* No second of a stake earned twice.
LEMMA CreditsMean == StakeInv => CreditsWithinAccrual
<1> SUFFICES ASSUME StakeInv, NEW u \in Accounts, NEW t \in Tokens
             PROVE  stake[u][t].credits * SecondsPerCredit <= held[u][t]
    BY DEF CreditsWithinAccrual
<1> DEFINE c == stake[u][t].credits * SecondsPerCredit
           h == held[u][t]
<1>1. h \in Nat /\ StakeTrue(stake[u][t], h, now) /\ now \in Nat
    BY DEF StakeInv
<1>2. CASE stake[u][t] = NoStake
    BY <1>1, <1>2, StakingAssumption DEF NoStake
<1>3. CASE stake[u][t] # NoStake
  <2> DEFINE b == stake[u][t].amount * (now - stake[u][t].last)
  <2>1. /\ stake[u][t] \in [amount : 0 .. MaxStake, last : 0 .. now, credits : Nat]
        /\ c + b <= h
      BY <1>1, <1>3 DEF StakeTrue
  <2>2. b \in Nat /\ c \in Nat
      BY <1>1, <2>1, StakingAssumption
  <2> HIDE DEF b, c, h
  <2> QED BY <1>1, <2>1, <2>2 DEF c, h
<1> QED BY <1>2, <1>3

\* Credits earned by a stake are never more than what it was held for earns, and
\* are never taken back (multi-asset-staking, stake and unstake).
THEOREM CreditsAreEarned ==
    StakingSpec => [](StakeInv /\ CreditsWithinAccrual) /\ CreditsNeverLost
<1> DEFINE Kept == \A u \in Accounts, t \in Tokens : stake'[u][t].credits >= stake[u][t].credits
<1>1. StakingInit => StakeInv
    BY LedgerAssumption DEF StakingInit, LedgerInit, StakeInv, StakeTrue
<1>2. StakeInv /\ [StakingNext]_stakingVars => StakeInv'
    BY StakingSteps
<1>4. StakeInv /\ [StakingNext]_stakingVars => [Kept]_stakingVars
    BY StakingSteps
<1>3. StakeInv => CreditsWithinAccrual
    BY CreditsMean
<1> QED BY <1>1, <1>2, <1>3, <1>4, PTL DEF StakingSpec, CreditsNeverLost

-----------------------------------------------------------------------------
\* CrossChainBridgeRelay

\* What a message relayed is to say.
MessageTrue(m) == m \in Message /\ m.amount \in Nat /\ m.id \in processed

BridgeInv ==
    /\ Untouched(balance, {BridgeContract})
    /\ BridgeTypeOK /\ IsFiniteSet(relayed)
    /\ \A m \in relayed : MessageTrue(m)
    /\ PaidOncePerTransferId

\* The messages paid in a token, and their sum.
PaidIn(t, S) == {m \in S : m.token = t}
SumOf(t, S) == Total([m \in S |-> m.amount], PaidIn(t, S))

\* One more message adds its amount to the sum of its own token only.
LEMMA OneMoreMessage ==
    ASSUME NEW S, IsFiniteSet(S), \A x \in S : x.amount \in Nat,
           NEW m, m \notin S, m.amount \in Nat, NEW t
    PROVE  /\ SumOf(t, S) \in Nat
           /\ SumOf(t, S \cup {m}) = IF m.token = t THEN SumOf(t, S) + m.amount ELSE SumOf(t, S)
<1> DEFINE f == [x \in S |-> x.amount]
           g == [x \in S \cup {m} |-> x.amount]
           P == PaidIn(t, S)
<1>1. P \subseteq S /\ IsFiniteSet(P) /\ m \notin P
    BY FS_Subset DEF PaidIn
<1>2. /\ \A x \in P : f[x] \in Nat /\ g[x] = f[x]
      /\ g[m] = m.amount
    BY <1>1
<1>3. SumOf(t, S) = Total(f, P) /\ SumOf(t, S \cup {m}) = Total(g, PaidIn(t, S \cup {m}))
    BY DEF SumOf
<1>4. PaidIn(t, S \cup {m}) = IF m.token = t THEN P \cup {m} ELSE P
    BY DEF PaidIn
<1> HIDE DEF f, g, P
<1>5. Total(f, P) \in Nat
    BY <1>1, <1>2, UnitsFinite
<1>6. CASE m.token = t
  <2>1. Total(g, P \cup {m}) = Total(f, P) + g[m]
    <3>1. g[m] \in Nat /\ (\A x \in P : f[x] \in Nat) /\ (\A x \in P : g[x] = f[x])
        BY <1>2
    <3>2. IsFiniteSet(P) /\ m \notin P
        BY <1>1
    <3> QED BY ONLY <3>1, <3>2, TotalWith
  <2> QED BY <1>2, <1>3, <1>4, <1>5, <1>6, <2>1
<1>7. CASE m.token # t
  <2>1. Total(g, P) = Total(f, P)
      BY <1>2, TotalSame
  <2> QED BY <1>3, <1>4, <1>5, <1>7, <2>1
<1> QED BY <1>6, <1>7

\* Relaying pays one message and marks its id (relay_transfer).
LEMMA RelayKeeps ==
    ASSUME BridgeInv, NEW s \in signatures, relay_transfer(s.message)
    PROVE  BridgeInv'
<1> DEFINE m == s.message
           B == BridgeContract
<1>1. /\ m \in Message /\ m.id \notin processed /\ m.amount >= 0
      /\ processed' = processed \cup {m.id} /\ relayed' = relayed \cup {m}
      /\ balance' = Paid(balance, m.token, B, m.recipient, m.amount)
      /\ UNCHANGED <<now, validator, signatures>>
    BY DEF BridgeInv, BridgeTypeOK, relay_transfer, CanPay, ProcessedWith
<1> HIDE DEF m
<1>2. /\ m.recipient \in Accounts /\ m.token \in Tokens /\ m.amount \in Nat /\ m.id \in TransferIds
  <2>1. /\ m.recipient \in Accounts /\ m.token \in Tokens /\ m.amount \in Amounts
        /\ m.id \in TransferIds
      BY <1>1 DEF Message
  <2>2. m.amount \in Int /\ m.amount >= 0
      BY <1>1, <2>1, LedgerAssumption
  <2>3. m.amount \in Nat
      BY ONLY <2>2
  <2> QED BY <2>1, <2>3
<1>3. B \in Contracts /\ B # m.recipient
    BY <1>2, BridgeAssumption, LedgerAssumption
<1>4. /\ Untouched(balance', {B})
      /\ \A u \in Tokens : /\ balance[u][B] \in Int
                           /\ balance'[u][B] = IF u # m.token THEN balance[u][B]
                                               ELSE balance[u][B] - m.amount
  <2>1. /\ Untouched(balance', {B})
        /\ \A u \in Tokens, z \in Accounts \cup Contracts :
                /\ balance[u][z] \in Int
                /\ balance'[u][z] = IF u # m.token THEN balance[u][z]
                                    ELSE IF z = B THEN balance[u][z] - m.amount
                                    ELSE IF z = m.recipient THEN balance[u][z] + m.amount
                                    ELSE balance[u][z]
    <3> DEFINE S == {B}
               t == m.token
               y == m.recipient
               n == m.amount
    <3>1. Untouched(balance, S) /\ S \in SUBSET Contracts
        BY <1>3 DEF BridgeInv
    <3>2. /\ t \in Tokens /\ B \in Accounts \cup S /\ y \in Accounts \cup S /\ B # y /\ n \in Int
          /\ balance' = Paid(balance, t, B, y, n)
        BY <1>1, <1>2, <1>3
    <3> HIDE DEF S, t, y, n, B
    <3>3. /\ Untouched(balance', S)
          /\ \A u \in Tokens, z \in Accounts \cup Contracts :
                  /\ balance[u][z] \in Int
                  /\ balance'[u][z] = IF u # t THEN balance[u][z]
                                      ELSE IF z = B THEN balance[u][z] - n
                                      ELSE IF z = y THEN balance[u][z] + n
                                      ELSE balance[u][z]
        BY <3>1, <3>2, Payment
    <3> QED BY <3>3 DEF S, t, y, n
  <2> QED BY <1>3, <2>1
<1>5. m \notin relayed /\ \A x \in relayed : x.id # m.id
    BY <1>1 DEF BridgeInv, MessageTrue
<1>6. IsFiniteSet(relayed') /\ \A x \in relayed' : MessageTrue(x)'
    BY <1>1, <1>2, FS_AddElement DEF BridgeInv, MessageTrue
<1>7. \A x, y \in relayed' : x.id = y.id => x = y
    BY <1>1, <1>5 DEF BridgeInv, PaidOncePerTransferId
<1>8. ASSUME NEW t \in Tokens PROVE balance'[t][B] = Supply - SumOf(t, relayed')
  <2>1. /\ SumOf(t, relayed) \in Nat
        /\ SumOf(t, relayed') = IF m.token = t THEN SumOf(t, relayed) + m.amount
                                ELSE SumOf(t, relayed)
      BY <1>1, <1>2, <1>5, OneMoreMessage DEF BridgeInv, MessageTrue
  <2>2. balance[t][B] = Supply - SumOf(t, relayed)
      BY DEF BridgeInv, PaidOncePerTransferId, SumOf, PaidIn
  <2> QED BY <1>2, <1>4, <2>1, <2>2, LedgerAssumption
<1>9. PaidOncePerTransferId'
    BY <1>7, <1>8 DEF PaidOncePerTransferId, SumOf, PaidIn
<1>10. BridgeTypeOK'
    BY <1>1, <1>2 DEF BridgeInv, BridgeTypeOK
<1> QED BY <1>4, <1>6, <1>9, <1>10 DEF BridgeInv

\* The bridge at deployment.
LEMMA BridgeFirst == BridgeInit => BridgeInv
<1> SUFFICES ASSUME BridgeInit PROVE BridgeInv
    OBVIOUS
<1>1. LedgerInit /\ relayed = {} /\ BridgeTypeOK
    BY DEF BridgeInit, BridgeTypeOK
<1>2. BridgeContract \in Contracts /\ Endowment(BridgeContract) = Supply
    BY BridgeAssumption, LedgerAssumption DEF Endowment
<1>3. Untouched(balance, {BridgeContract}) /\ \A t \in Tokens : balance[t][BridgeContract] = Supply
    BY <1>1, <1>2, UntouchedAtFirst
<1>4. ASSUME NEW t \in Tokens PROVE balance[t][BridgeContract] = Supply - SumOf(t, {})
  <2>1. PaidIn(t, {}) = {}
      BY DEF PaidIn
  <2>2. SumOf(t, {}) = 0
      BY <2>1, TotalNone DEF SumOf
  <2> QED BY <1>3, <2>2, LedgerAssumption
<1>5. PaidOncePerTransferId
    BY <1>1, <1>4 DEF PaidOncePerTransferId, SumOf, PaidIn
<1> QED BY <1>1, <1>3, <1>5, FS_EmptySet DEF BridgeInv

\* One call of the bridge, or of its validators.
LEMMA BridgeStep == BridgeInv /\ [BridgeNext]_bridgeVars => BridgeInv'
<1> SUFFICES ASSUME BridgeInv, [BridgeNext]_bridgeVars PROVE BridgeInv'
    OBVIOUS
<1>0. ASSUME UNCHANGED <<ledgerVars, processed, relayed>>, BridgeTypeOK' PROVE BridgeInv'
    BY <1>0 DEF BridgeInv, ledgerVars, MessageTrue, PaidOncePerTransferId
<1>1. ASSUME NEW k \in ValidatorKeys, bridge_initialize(k) \/ update_validator(k) PROVE BridgeInv'
    BY <1>0, <1>1 DEF bridge_initialize, update_validator, BridgeInv, BridgeTypeOK
<1>2. ASSUME NEW m \in Message, NEW k \in ValidatorKeys, Sign(m, k) PROVE BridgeInv'
    BY <1>0, <1>2 DEF Sign, BridgeInv, BridgeTypeOK
<1>3. ASSUME NEW s \in signatures, relay_transfer(s.message) PROVE BridgeInv'
    BY <1>3, RelayKeeps
<1>4. CASE UNCHANGED bridgeVars
    BY <1>0, <1>4 DEF bridgeVars, BridgeInv, BridgeTypeOK
<1> QED BY <1>1, <1>2, <1>3, <1>4 DEF BridgeNext

\* Every transfer is paid once (relay_transfer), and the bridge pays nobody else.
THEOREM TransfersPaidOnce == BridgeSpec => []BridgeInv
BY BridgeFirst, BridgeStep, PTL DEF BridgeSpec

-----------------------------------------------------------------------------
\* StreamingPayments

\* A product with a natural number keeps the order.
LEMMA Products ==
    ASSUME NEW x \in Int, NEW y \in Int, NEW d \in Nat, x <= y
    PROVE  x * d <= y * d /\ d * x <= d * y
<1>1. (y - x) \in Nat
    OBVIOUS
<1> DEFINE k == y - x
<1>2. k \in Nat /\ y = x + k
    BY <1>1
<1> HIDE DEF k
<1>3. k * d \in Nat /\ (x + k) * d = x * d + k * d /\ x * d \in Int
    BY <1>2
<1>4. x * d <= y * d
    BY <1>2, <1>3
<1> QED BY <1>4

\* Integer division by a positive number.
LEMMA Divided ==
    ASSUME NEW p \in Nat, NEW d \in Nat \ {0}
    PROVE  /\ p \div d \in Nat
           /\ (p \div d) * d <= p
           /\ p < (p \div d) * d + d
<1> DEFINE q == p \div d
           r == p % d
<1>1. q \in Int /\ p = d * q + r /\ 0 <= r /\ r < d /\ r \in Int
    OBVIOUS
<1> HIDE DEF q, r
<1>2. q >= 0
    BY <1>1
<1>3. q * d = d * q /\ d * q \in Int
    BY <1>1
<1> QED BY <1>1, <1>2, <1>3 DEF q

\* A quotient grows with its dividend.
LEMMA DividedMore ==
    ASSUME NEW p \in Nat, NEW r \in Nat, p <= r, NEW d \in Nat \ {0}
    PROVE  p \div d <= r \div d
<1> DEFINE a == p \div d
           b == r \div d
<1>1. a \in Nat /\ b \in Nat /\ a * d <= p /\ r < b * d + d
    BY Divided
<1> HIDE DEF a, b
<1>2. SUFFICES ASSUME b + 1 <= a PROVE FALSE
    BY <1>1 DEF a, b
<1>3. (b + 1) * d <= a * d
    BY <1>1, <1>2, Products
<1>4. (b + 1) * d = b * d + d /\ b * d \in Int /\ a * d \in Int
    BY <1>1
<1> QED BY <1>1, <1>3, <1>4

\* A fraction of a whole.
LEMMA Fraction ==
    ASSUME NEW a \in Nat, NEW d \in Nat \ {0}, NEW e \in Nat, e <= d
    PROVE  /\ (a * e) \div d \in 0 .. a
           /\ ((a * e) \div d) * d <= a * e
<1> DEFINE p == a * e
           q == p \div d
<1>1. p \in Nat /\ p <= a * d
    BY Products
<1> HIDE DEF p
<1>2. q \in Nat /\ q * d <= p
    BY <1>1, Divided
<1> HIDE DEF q
<1>3. ASSUME a + 1 <= q PROVE FALSE
  <2>1. (a + 1) * d <= q * d
      BY <1>2, <1>3, Products
  <2>2. (a + 1) * d = a * d + d /\ a * d \in Int /\ q * d \in Int
      BY <1>2
  <2> QED BY <1>1, <1>2, <2>1, <2>2
<1> QED BY <1>2, <1>3 DEF p, q

\* Streamed at any time.
StreamedAt(s, time) ==
    IF time <= s.start THEN 0
    ELSE IF time >= s.stop THEN s.amount
    ELSE (s.amount * (time - s.start)) \div (s.stop - s.start)

\* What has flowed of a stream is at most its amount, at most the straight line's, and
\* never less a second later (calculate_withdrawable).
LEMMA StreamedBounds ==
    ASSUME NEW s, s.amount \in Nat, s.start \in Nat, s.stop \in Nat, s.start < s.stop,
           NEW time \in Nat
    PROVE  /\ StreamedAt(s, time) \in 0 .. s.amount
           /\ StreamedAt(s, time) <= StreamedAt(s, time + 1)
           /\ StreamedAt(s, time) * (s.stop - s.start)
                <= s.amount * Max({0, Min({time, s.stop}) - s.start})
<1> DEFINE a == s.amount
           i == s.start
           j == s.stop
           d == j - i
           F(x) == (a * x) \div d
<1>1. a \in Nat /\ i \in Nat /\ j \in Nat /\ i < j /\ d \in Nat \ {0}
    OBVIOUS
<1>2. \A x \in Nat : x <= d => F(x) \in 0 .. a /\ F(x) * d <= a * x
    BY <1>1, Fraction
<1>3. ASSUME NEW x \in Nat PROVE F(x) <= F(x + 1)
  <2>1. a * x \in Nat /\ a * (x + 1) \in Nat /\ a * x <= a * (x + 1)
      BY <1>1, Products
  <2> QED BY <1>1, <2>1, DividedMore
<1>4. \A y : StreamedAt(s, y) = IF y <= i THEN 0 ELSE IF y >= j THEN a ELSE F(y - i)
    BY DEF StreamedAt
<1> HIDE DEF F
<1>5. StreamedAt(s, time) \in 0 .. a
  <2>1. CASE time > i /\ time < j
    <3>1. time - i \in Nat /\ time - i <= d /\ StreamedAt(s, time) = F(time - i)
        BY <1>1, <1>4, <2>1
    <3> QED BY <1>2, <3>1
  <2>2. CASE ~(time > i /\ time < j)
      BY <1>1, <1>4, <2>2
  <2> QED BY <2>1, <2>2
<1>6. StreamedAt(s, time) <= StreamedAt(s, time + 1)
  <2>1. CASE time <= i
      BY <1>1, <1>2, <1>4, <2>1
  <2>2. CASE time > i /\ time + 1 < j
    <3>1. time - i \in Nat /\ time + 1 - i = (time - i) + 1
        BY <1>1, <2>2
    <3>2. F(time - i) <= F((time - i) + 1)
        BY <1>3, <3>1
    <3>3. StreamedAt(s, time) = F(time - i) /\ StreamedAt(s, time + 1) = F(time + 1 - i)
        BY <1>1, <1>4, <2>2
    <3> QED BY <3>1, <3>2, <3>3
  <2>3. CASE time > i /\ ~(time + 1 < j)
      BY <1>1, <1>2, <1>4, <2>3
  <2> QED BY <1>1, <2>1, <2>2, <2>3
<1> HIDE DEF a, i, j, d
<1>7. StreamedAt(s, time) * d <= a * Max({0, Min({time, j}) - i})
  <2>1. CASE time <= i
    <3>1. Min({time, j}) = time
        BY <1>1, <2>1 DEF Min
    <3>2. Max({0, Min({time, j}) - i}) = 0
        BY <1>1, <2>1, <3>1 DEF Max
    <3>3. StreamedAt(s, time) = 0
        BY <1>4, <2>1
    <3>4. 0 * d = 0 /\ a * 0 = 0
        BY <1>1
    <3> QED BY <3>2, <3>3, <3>4
  <2>2. CASE time > i /\ time < j
    <3>1. Min({time, j}) = time
        BY <1>1, <2>2 DEF Min
    <3>2. Max({0, Min({time, j}) - i}) = time - i
        BY <1>1, <2>2, <3>1 DEF Max
    <3>3. StreamedAt(s, time) = F(time - i)
        BY <1>1, <1>4, <2>2
    <3>4. time - i \in Nat /\ time - i <= d
        BY <1>1, <2>2 DEF d
    <3>5. F(time - i) * d <= a * (time - i)
        BY <1>2, <3>4
    <3> QED BY <3>2, <3>3, <3>5
  <2>3. CASE time >= j
    <3>1. Min({time, j}) = j
        BY <1>1, <2>3 DEF Min
    <3>2. Max({0, Min({time, j}) - i}) = d
        BY <1>1, <2>3, <3>1 DEF Max, d
    <3>3. StreamedAt(s, time) = a
        BY <1>1, <1>4, <2>3
    <3> QED BY <1>1, <3>2, <3>3
  <2> QED BY <1>1, <2>1, <2>2, <2>3
<1> QED BY <1>5, <1>6, <1>7 DEF a, i, j, d

\* What a stream, and all the streams in a token, still have to pay out.
OutstandingOf(s) == IF s.cancelled THEN 0 ELSE s.amount - s.withdrawn
InToken(S, t) == {id \in DOMAIN S : S[id].token = t}
Owed(S, t) == Total([id \in DOMAIN S |-> OutstandingOf(S[id])], InToken(S, t))

StreamTrue(s, time) ==
    /\ s \in Stream /\ s.amount > 0 /\ s.start < s.stop
    /\ 0 <= s.withdrawn /\ s.withdrawn <= StreamedAt(s, time)

StreamInv ==
    /\ Untouched(balance, {StreamContract}) /\ now \in 0 .. MaxTime
    /\ streams \in Seq(Stream)
    /\ \A id \in DOMAIN streams : StreamTrue(streams[id], now)
    /\ \A t \in Tokens : balance[t][StreamContract] = Owed(streams, t)

\* What the invariant says of one stream.
LEMMA StreamFacts ==
    ASSUME NEW time \in 0 .. MaxTime, NEW s, StreamTrue(s, time)
    PROVE  /\ s.sender \in Accounts /\ s.recipient \in Accounts /\ s.token \in Tokens
           /\ s.cancelled \in BOOLEAN /\ s.amount \in Nat /\ s.start \in Nat /\ s.stop \in Nat
           /\ s.withdrawn \in 0 .. s.amount
           /\ StreamedAt(s, time) \in 0 .. s.amount /\ s.withdrawn <= StreamedAt(s, time)
           /\ StreamedAt(s, time) <= StreamedAt(s, time + 1) /\ StreamedAt(s, time + 1) \in 0 .. s.amount
           /\ OutstandingOf(s) \in Nat
<1>1. /\ s.sender \in Accounts /\ s.recipient \in Accounts /\ s.token \in Tokens
      /\ s.cancelled \in BOOLEAN /\ s.amount \in Int /\ s.start \in 0 .. MaxTime
      /\ s.stop \in 0 .. MaxTime /\ s.withdrawn \in Int
    BY DEF StreamTrue, Stream
<1>2. /\ s.amount \in Nat /\ s.start \in Nat /\ s.stop \in Nat /\ s.start < s.stop
      /\ time \in Nat /\ time + 1 \in Nat /\ 0 <= s.withdrawn /\ s.withdrawn <= StreamedAt(s, time)
    BY <1>1, LedgerAssumption DEF StreamTrue
<1>3. /\ StreamedAt(s, time) \in 0 .. s.amount
      /\ StreamedAt(s, time) <= StreamedAt(s, time + 1)
      /\ StreamedAt(s, time + 1) \in 0 .. s.amount
    BY <1>2, StreamedBounds
<1>4. s.withdrawn \in 0 .. s.amount
    BY <1>1, <1>2, <1>3
<1>5. OutstandingOf(s) \in Nat
    BY <1>2, <1>4 DEF OutstandingOf
<1> QED BY <1>1, <1>2, <1>3, <1>4, <1>5

\* When one stream changes, what is owed in its token changes by its difference.
LEMMA OwedChanged ==
    ASSUME NEW S \in Seq(Stream), \A i \in DOMAIN S : OutstandingOf(S[i]) \in Nat,
           NEW id \in DOMAIN S, NEW w, w.token = S[id].token, OutstandingOf(w) \in Nat,
           NEW t
    PROVE  /\ Owed(S, t) \in Nat
           /\ Owed([S EXCEPT ![id] = w], t) =
                IF t = w.token THEN Owed(S, t) - OutstandingOf(S[id]) + OutstandingOf(w)
                ELSE Owed(S, t)
<1> DEFINE R == [S EXCEPT ![id] = w]
           f == [i \in DOMAIN S |-> OutstandingOf(S[i])]
           g == [i \in DOMAIN R |-> OutstandingOf(R[i])]
           P == InToken(S, t)
<1>1. P \subseteq DOMAIN S /\ IsFiniteSet(P) /\ DOMAIN R = DOMAIN S
  <2>1. DOMAIN S = 1 .. Len(S) /\ Len(S) \in Nat
      OBVIOUS
  <2>2. IsFiniteSet(DOMAIN S)
      BY <2>1, FS_Interval
  <2> QED BY <2>2, FS_Subset DEF InToken
<1>2. \A i \in DOMAIN S : /\ f[i] = OutstandingOf(S[i])
                          /\ g[i] = IF i = id THEN OutstandingOf(w) ELSE f[i]
    OBVIOUS
<1>3. InToken(R, t) = P
    BY DEF InToken
<1>4. Owed(S, t) = Total(f, P) /\ Owed(R, t) = Total(g, P)
    BY <1>3 DEF Owed
<1>5. id \in P <=> t = w.token
    BY DEF InToken
<1> HIDE DEF f, g, P, R
<1>6. CASE t = w.token
  <2>1. /\ id \in P /\ (\A i \in P : f[i] \in Nat) /\ g[id] \in Nat
        /\ (\A i \in P \ {id} : g[i] = f[i])
      BY <1>1, <1>2, <1>5, <1>6
  <2>2. Total(g, P) = Total(f, P) - f[id] + g[id] /\ Total(f, P) \in Nat
      BY ONLY <1>1, <2>1, TotalChanged
  <2> QED BY <1>2, <1>4, <1>6, <2>2 DEF R
<1>7. CASE t # w.token
  <2>1. \A i \in P : g[i] = f[i] /\ f[i] \in Nat
      BY <1>1, <1>2, <1>5, <1>7
  <2>2. Total(g, P) = Total(f, P)
      BY <2>1, TotalSame
  <2>3. Total(f, P) \in Nat
      BY <1>1, <2>1, UnitsFinite
  <2> QED BY <1>4, <1>7, <2>2, <2>3 DEF R
<1> QED BY <1>6, <1>7

\* A new stream adds what it owes to its token's sum.
LEMMA OwedAppended ==
    ASSUME NEW S \in Seq(Stream), \A i \in DOMAIN S : OutstandingOf(S[i]) \in Nat,
           NEW w \in Stream, OutstandingOf(w) \in Nat, NEW t
    PROVE  /\ Owed(S, t) \in Nat
           /\ Owed(Append(S, w), t) =
                IF t = w.token THEN Owed(S, t) + OutstandingOf(w) ELSE Owed(S, t)
<1> DEFINE R == Append(S, w)
           y == Len(S) + 1
           f == [i \in DOMAIN S |-> OutstandingOf(S[i])]
           g == [i \in DOMAIN R |-> OutstandingOf(R[i])]
           P == InToken(S, t)
<1>0. DOMAIN S = 1 .. Len(S) /\ Len(S) \in Nat
    OBVIOUS
<1>1. P \subseteq DOMAIN S /\ IsFiniteSet(P)
  <2>2. IsFiniteSet(DOMAIN S)
      BY <1>0, FS_Interval
  <2> QED BY <2>2, FS_Subset DEF InToken
<1>2. /\ DOMAIN R = DOMAIN S \cup {y} /\ y \notin DOMAIN S
      /\ R[y] = w /\ \A i \in DOMAIN S : R[i] = S[i]
    BY <1>0
<1>3. /\ \A i \in DOMAIN S : f[i] = OutstandingOf(S[i]) /\ g[i] = f[i]
      /\ g[y] = OutstandingOf(w)
    BY <1>2
<1>4. InToken(R, t) = IF t = w.token THEN P \cup {y} ELSE P
    BY <1>2 DEF InToken
<1>5. Owed(S, t) = Total(f, P) /\ Owed(R, t) = Total(g, InToken(R, t))
    BY DEF Owed
<1> HIDE DEF f, g, P, R, y
<1>6. (\A i \in P : f[i] \in Nat) /\ g[y] \in Nat /\ (\A i \in P : g[i] = f[i]) /\ y \notin P
    BY <1>1, <1>2, <1>3
<1>7. Total(f, P) \in Nat
    BY <1>1, <1>6, UnitsFinite
<1>8. CASE t = w.token
  <2>1. Total(g, P \cup {y}) = Total(f, P) + g[y]
      BY ONLY <1>1, <1>6, TotalWith
  <2> QED BY <1>3, <1>4, <1>5, <1>7, <1>8, <2>1 DEF R
<1>9. CASE t # w.token
  <2>1. Total(g, P) = Total(f, P)
      BY <1>6, TotalSame
  <2> QED BY <1>4, <1>5, <1>7, <1>9, <2>1 DEF R
<1> QED BY <1>8, <1>9

\* The owed amounts after a call that pays one token's amount in or out.
LEMMA StreamPays ==
    ASSUME StreamInv, NEW n \in Int, NEW tk \in Tokens,
           Untouched(balance', {StreamContract}),
           \A u \in Tokens :
             /\ balance[u][StreamContract] \in Int
             /\ balance'[u][StreamContract] = IF u = tk THEN balance[u][StreamContract] + n
                                             ELSE balance[u][StreamContract],
           \A t \in Tokens : /\ Owed(streams, t) \in Nat
                             /\ Owed(streams', t) = IF t = tk THEN Owed(streams, t) + n
                                                    ELSE Owed(streams, t),
           streams' \in Seq(Stream), now' = now,
           \A id \in DOMAIN streams' : StreamTrue(streams'[id], now)
    PROVE  StreamInv'
<1>1. \A t \in Tokens : balance'[t][StreamContract] = Owed(streams', t)
    BY DEF StreamInv
<1> QED BY <1>1 DEF StreamInv

\* A new stream is funded with its whole amount (create_stream).
LEMMA StreamCreated ==
    ASSUME StreamInv, NEW s \in Accounts, NEW r \in Accounts, NEW tk \in Tokens, NEW n \in Amounts,
           NEW i \in 0 .. MaxTime, NEW j \in 0 .. MaxTime, create_stream(s, r, tk, n, i, j)
    PROVE  StreamInv'
<1> DEFINE w == [sender |-> s, recipient |-> r, token |-> tk, amount |-> n, start |-> i,
                 stop |-> j, withdrawn |-> 0, cancelled |-> FALSE]
           C == StreamContract
<1>1. /\ streams' = Append(streams, w) /\ now' = now /\ n > 0 /\ j > i /\ n \in Int
      /\ balance' = Paid(balance, tk, s, C, n)
    BY LedgerAssumption DEF create_stream
<1>2. /\ w \in Stream /\ OutstandingOf(w) = n /\ n \in Nat /\ w.token = tk
      /\ w.amount = n /\ w.start = i /\ w.stop = j /\ w.withdrawn = 0
  <2>1. w.cancelled = FALSE /\ w.amount = n /\ w.withdrawn = 0
      OBVIOUS
  <2>2. n - 0 = n
      BY <1>1
  <2>3. OutstandingOf(w) = n
      BY <2>1, <2>2 DEF OutstandingOf
  <2>4. w \in Stream
      BY <1>1, LedgerAssumption DEF Stream
  <2> QED BY <1>1, <2>3, <2>4
<1>3. now \in 0 .. MaxTime /\ now \in Nat /\ i \in Nat /\ j \in Nat
    BY LedgerAssumption DEF StreamInv
<1> HIDE DEF w
<1>4. StreamTrue(w, now)
  <2>1. w.amount \in Nat /\ w.start \in Nat /\ w.stop \in Nat /\ w.start < w.stop
      BY <1>1, <1>2, <1>3
  <2>2. StreamedAt(w, now) \in 0 .. w.amount
      BY ONLY <1>3, <2>1, StreamedBounds
  <2> QED BY <1>1, <1>2, <2>1, <2>2 DEF StreamTrue
<1>5. \A id \in DOMAIN streams : /\ OutstandingOf(streams[id]) \in Nat
                                 /\ StreamTrue(streams[id], now)
    BY <1>3, StreamFacts DEF StreamInv
<1>6. C \in Contracts
    BY StreamAssumption
<1>7. /\ Untouched(balance', {C})
      /\ \A u \in Tokens, z \in {C} :
            /\ balance[u][z] \in Int
            /\ balance'[u][z] = IF u = tk /\ z = C THEN balance[u][z] + n ELSE balance[u][z]
  <2> DEFINE S == {C}
  <2>1. S \in SUBSET Contracts /\ Untouched(balance, S) /\ C \in S
      BY <1>6 DEF StreamInv
  <2> HIDE DEF C, S
  <2>2. /\ Untouched(balance', S)
        /\ \A u \in Tokens, z \in S :
             /\ balance[u][z] \in Int
             /\ balance'[u][z] = IF u = tk /\ z = C THEN balance[u][z] + n ELSE balance[u][z]
      BY <1>1, <2>1, PaysIn
  <2> QED BY <2>2 DEF S
<1>8. \A u \in Tokens : /\ balance[u][C] \in Int
                        /\ balance'[u][C] = IF u = tk THEN balance[u][C] + n ELSE balance[u][C]
    BY <1>7
<1>9. \A t \in Tokens : /\ Owed(streams, t) \in Nat
                        /\ Owed(streams', t) = IF t = tk THEN Owed(streams, t) + n
                                               ELSE Owed(streams, t)
  <2>1. streams \in Seq(Stream)
      BY DEF StreamInv
  <2> QED BY <1>1, <1>2, <1>5, <2>1, OwedAppended
<1>10. /\ streams' \in Seq(Stream)
       /\ \A id \in DOMAIN streams' : StreamTrue(streams'[id], now)
    BY <1>1, <1>2, <1>4, <1>5 DEF StreamInv
<1> HIDE DEF C
<1> QED BY <1>1, <1>7, <1>8, <1>9, <1>10, StreamPays DEF C

\* A withdrawal takes from the balance what it books on the stream (withdraw).
LEMMA StreamWithdrawn ==
    ASSUME StreamInv, NEW id \in DOMAIN streams, NEW n \in Amounts, stream_withdraw(id, n)
    PROVE  StreamInv'
<1> DEFINE s == streams[id]
           w == [s EXCEPT !.withdrawn = s.withdrawn + n]
           C == StreamContract
           tk == s.token
           r == s.recipient
<1>1. /\ streams' = [streams EXCEPT ![id] = w] /\ now' = now /\ n > 0 /\ ~s.cancelled
      /\ n <= StreamedAt(s, now) - s.withdrawn /\ n \in Int
      /\ balance' = Paid(balance, tk, C, r, n)
  <2>1. Streamed(s) = StreamedAt(s, now)
      BY DEF Streamed, StreamedAt
  <2> QED BY <2>1, LedgerAssumption DEF stream_withdraw
<1>2. now \in 0 .. MaxTime /\ StreamTrue(s, now) /\ s \in Stream
    BY DEF StreamInv, StreamTrue
<1>3. /\ s.recipient \in Accounts /\ s.token \in Tokens /\ s.amount \in Nat
      /\ s.withdrawn \in 0 .. s.amount
      /\ StreamedAt(s, now) \in 0 .. s.amount /\ s.cancelled \in BOOLEAN
    BY <1>2, StreamFacts
<1>4. /\ w \in Stream /\ w.token = tk /\ w.amount = s.amount /\ w.start = s.start
      /\ w.stop = s.stop /\ w.withdrawn = s.withdrawn + n /\ w.cancelled = s.cancelled
    BY <1>1, <1>2, <1>3 DEF Stream
<1> HIDE DEF w
<1>5. StreamedAt(w, now) = StreamedAt(s, now)
    BY <1>4 DEF StreamedAt
<1> HIDE DEF s
<1>6. StreamTrue(w, now)
    BY <1>1, <1>2, <1>3, <1>4, <1>5 DEF StreamTrue
<1>7. /\ OutstandingOf(s) = s.amount - s.withdrawn /\ OutstandingOf(s) \in Nat
      /\ OutstandingOf(w) = OutstandingOf(s) - n /\ OutstandingOf(w) \in Nat
    BY <1>1, <1>3, <1>4 DEF OutstandingOf
<1>8. \A x \in DOMAIN streams : /\ OutstandingOf(streams[x]) \in Nat
                                /\ StreamTrue(streams[x], now)
    BY <1>2, StreamFacts DEF StreamInv
<1>9. C \in Contracts /\ r \in Accounts /\ tk \in Tokens
    BY <1>3, StreamAssumption
<1>10. /\ Untouched(balance', {C})
       /\ \A u \in Tokens, z \in {C} :
            /\ balance[u][z] \in Int
            /\ balance'[u][z] = IF u = tk /\ z = C THEN balance[u][z] - n ELSE balance[u][z]
  <2>1. {C} \in SUBSET Contracts /\ Untouched(balance, {C}) /\ C \in {C}
      BY <1>9 DEF StreamInv
  <2> HIDE DEF C, tk, r
  <2> QED BY <1>1, <1>9, <2>1, PaysOut
<1>11. \A u \in Tokens : /\ balance[u][C] \in Int
                         /\ balance'[u][C] = IF u = tk THEN balance[u][C] + (-n) ELSE balance[u][C]
    BY <1>1, <1>10
<1>12. \A t \in Tokens : /\ Owed(streams, t) \in Nat
                         /\ Owed(streams', t) = IF t = tk THEN Owed(streams, t) + (-n)
                                                ELSE Owed(streams, t)
  <2>1. streams \in Seq(Stream) /\ w.token = streams[id].token
      BY <1>4 DEF StreamInv, s
  <2>2. \A t : /\ Owed(streams, t) \in Nat
               /\ Owed([streams EXCEPT ![id] = w], t) =
                    IF t = w.token THEN Owed(streams, t) - OutstandingOf(streams[id]) + OutstandingOf(w)
                    ELSE Owed(streams, t)
      BY <1>7, <1>8, <2>1, OwedChanged
  <2>3. OutstandingOf(streams[id]) = OutstandingOf(s) /\ streams' = [streams EXCEPT ![id] = w]
      BY <1>1 DEF s
  <2> HIDE DEF tk
  <2>4. \A t : Owed([streams EXCEPT ![id] = w], t) =
                 IF t = tk THEN Owed(streams, t) - OutstandingOf(s) + (OutstandingOf(s) - n)
                 ELSE Owed(streams, t)
      BY <1>4, <1>7, <2>2, <2>3 DEF tk
  <2>5. \A t : Owed(streams, t) - OutstandingOf(s) + (OutstandingOf(s) - n) = Owed(streams, t) + (-n)
      BY <1>1, <1>7, <2>2
  <2> QED BY <2>2, <2>3, <2>4, <2>5
<1>13. /\ streams' \in Seq(Stream)
       /\ \A x \in DOMAIN streams' : StreamTrue(streams'[x], now)
    BY <1>1, <1>4, <1>6, <1>8 DEF StreamInv
<1> HIDE DEF C, tk
<1>14. -n \in Int /\ tk \in Tokens
    BY <1>1, <1>3 DEF tk
<1> QED BY <1>1, <1>10, <1>11, <1>12, <1>13, <1>14, StreamPays DEF C

\* A cancellation pays both parties exactly what the stream still owed (cancel_stream).
LEMMA StreamCancelled ==
    ASSUME StreamInv, NEW id \in DOMAIN streams, cancel_stream(id)
    PROVE  StreamInv'
<1> DEFINE s == streams[id]
           f == StreamedAt(s, now)
           w == [s EXCEPT !.cancelled = TRUE, !.withdrawn = f]
           C == StreamContract
           tk == s.token
           r == s.recipient
           q == s.sender
           n == f - s.withdrawn
           m == s.amount - f
           k == s.withdrawn - s.amount
<1>1. now \in 0 .. MaxTime /\ StreamTrue(s, now) /\ s \in Stream /\ Streamed(s) = f
    BY DEF StreamInv, StreamTrue, Streamed, StreamedAt
<1> HIDE DEF s, f
<1>2. /\ r \in Accounts /\ q \in Accounts /\ tk \in Tokens /\ s.amount \in Nat
      /\ s.withdrawn \in 0 .. s.amount /\ f \in 0 .. s.amount /\ s.withdrawn <= f
      /\ s.cancelled \in BOOLEAN /\ OutstandingOf(s) \in Nat
    BY <1>1, StreamFacts DEF f
<1>3. RecipientShare(s) = n /\ Max({0, s.amount - f}) = m
    BY <1>1, <1>2 DEF RecipientShare, Max
<1>4. /\ streams' = [streams EXCEPT ![id] = w] /\ now' = now /\ ~s.cancelled
      /\ balance' = Paid(Paid(balance, tk, C, r, n), tk, C, q, m)
    BY <1>1, <1>3 DEF cancel_stream, s
<1>5. /\ w \in Stream /\ w.token = tk /\ w.amount = s.amount /\ w.start = s.start
      /\ w.stop = s.stop /\ w.withdrawn = f /\ w.cancelled = TRUE
  <2>1. f \in Int
      BY <1>2
  <2> DEFINE v == [s EXCEPT !.cancelled = TRUE]
  <2>2. /\ v \in Stream /\ v.token = tk /\ v.amount = s.amount /\ v.start = s.start
        /\ v.stop = s.stop /\ v.cancelled = TRUE
      BY <1>1 DEF Stream
  <2>3. w = [v EXCEPT !.withdrawn = f]
      OBVIOUS
  <2> HIDE DEF v, w, tk
  <2>4. /\ w \in Stream /\ w.token = v.token /\ w.amount = v.amount /\ w.start = v.start
        /\ w.stop = v.stop /\ w.withdrawn = f /\ w.cancelled = v.cancelled
      BY <2>1, <2>2, <2>3 DEF Stream
  <2> QED BY <2>2, <2>4
<1> HIDE DEF w
<1>6. StreamedAt(w, now) = f
    BY <1>5 DEF StreamedAt, f
<1>7. StreamTrue(w, now)
    BY <1>1, <1>2, <1>5, <1>6 DEF StreamTrue
<1>8. OutstandingOf(s) = s.amount - s.withdrawn /\ OutstandingOf(w) = 0
    BY <1>4, <1>5 DEF OutstandingOf
<1>9. \A x \in DOMAIN streams : /\ OutstandingOf(streams[x]) \in Nat
                                /\ StreamTrue(streams[x], now)
    BY <1>1, StreamFacts DEF StreamInv
<1>10. n \in Int /\ m \in Int /\ k \in Int /\ C \in Contracts
    BY <1>2, StreamAssumption
<1>11. /\ Untouched(balance', {C})
       /\ \A u \in Tokens, z \in {C} :
            /\ balance[u][z] \in Int
            /\ balance'[u][z] = IF u = tk /\ z = C THEN balance[u][z] - n - m ELSE balance[u][z]
  <2> DEFINE S == {C}
  <2>1. S \in SUBSET Contracts /\ Untouched(balance, S) /\ C \in S
      BY <1>10 DEF StreamInv
  <2> HIDE DEF C, S, tk, r, q, n, m
  <2>2. /\ Untouched(balance', S)
        /\ \A u \in Tokens, z \in S :
             /\ balance[u][z] \in Int
             /\ balance'[u][z] = IF u = tk /\ z = C THEN balance[u][z] - n - m ELSE balance[u][z]
      BY <1>2, <1>4, <1>10, <2>1, PaysTwice
  <2> QED BY <2>2 DEF S
<1>12. \A u \in Tokens : /\ balance[u][C] \in Int
                         /\ balance'[u][C] = IF u = tk THEN balance[u][C] + k ELSE balance[u][C]
  <2>1. \A x \in Int : x - n - m = x + k
      BY <1>2
  <2> HIDE DEF n, m, k
  <2> QED BY <1>11, <2>1
<1>13. \A t \in Tokens : /\ Owed(streams, t) \in Nat
                         /\ Owed(streams', t) = IF t = tk THEN Owed(streams, t) + k
                                                ELSE Owed(streams, t)
  <2>1. streams \in Seq(Stream) /\ w.token = streams[id].token /\ OutstandingOf(w) \in Nat
      BY <1>5, <1>8 DEF StreamInv, s
  <2>2. \A t : /\ Owed(streams, t) \in Nat
               /\ Owed([streams EXCEPT ![id] = w], t) =
                    IF t = w.token THEN Owed(streams, t) - OutstandingOf(streams[id]) + OutstandingOf(w)
                    ELSE Owed(streams, t)
      BY <1>9, <2>1, OwedChanged
  <2>3. OutstandingOf(streams[id]) = OutstandingOf(s) /\ streams' = [streams EXCEPT ![id] = w]
      BY <1>4 DEF s
  <2> HIDE DEF tk, k
  <2>4. \A t : Owed([streams EXCEPT ![id] = w], t) =
                 IF t = tk THEN Owed(streams, t) - OutstandingOf(s) + 0
                 ELSE Owed(streams, t)
      BY <1>5, <1>8, <2>2, <2>3 DEF tk
  <2>5. \A t : Owed(streams, t) - OutstandingOf(s) + 0 = Owed(streams, t) + k
      BY <1>2, <1>8, <2>2 DEF k
  <2> QED BY <2>2, <2>3, <2>4, <2>5
<1>14. /\ streams' \in Seq(Stream)
       /\ \A x \in DOMAIN streams' : StreamTrue(streams'[x], now)
    BY <1>4, <1>5, <1>7, <1>9 DEF StreamInv
<1> HIDE DEF C, tk, k
<1> QED BY <1>2, <1>4, <1>10, <1>11, <1>12, <1>13, <1>14, StreamPays DEF C, tk

\* One call of the streaming contract, or a ledger closing.
LEMMA StreamStep == StreamInv /\ [StreamNext]_streamVars => StreamInv'
<1> SUFFICES ASSUME StreamInv, [StreamNext]_streamVars PROVE StreamInv'
    OBVIOUS
<1>1. CASE CloseLedger /\ UNCHANGED streams
  <2>1. now' = now + 1 /\ now' \in 0 .. MaxTime /\ now \in 0 .. MaxTime /\ balance' = balance
        /\ streams' = streams
      BY <1>1, LedgerAssumption DEF CloseLedger, StreamInv
  <2>2. ASSUME NEW id \in DOMAIN streams PROVE StreamTrue(streams[id], now + 1)
    <3> DEFINE s == streams[id]
    <3>1. StreamTrue(s, now)
        BY DEF StreamInv
    <3>2. /\ s.withdrawn \in 0 .. s.amount /\ StreamedAt(s, now) \in 0 .. s.amount
          /\ s.withdrawn <= StreamedAt(s, now) /\ s.amount \in Nat
          /\ StreamedAt(s, now) <= StreamedAt(s, now + 1) /\ StreamedAt(s, now + 1) \in 0 .. s.amount
        BY <2>1, <3>1, StreamFacts
    <3> HIDE DEF s
    <3>3. s.withdrawn <= StreamedAt(s, now + 1)
        BY <3>2
    <3>4. StreamTrue(s, now + 1)
        BY <3>1, <3>3 DEF StreamTrue
    <3> QED BY <3>4 DEF s
  <2> QED BY <2>1, <2>2 DEF StreamInv
<1>2. ASSUME NEW s \in Accounts, NEW r \in Accounts, NEW t \in Tokens, NEW a \in Amounts,
             NEW i \in 0 .. MaxTime, NEW j \in 0 .. MaxTime, create_stream(s, r, t, a, i, j)
      PROVE  StreamInv'
    BY <1>2, StreamCreated
<1>3. ASSUME NEW id \in DOMAIN streams, cancel_stream(id) PROVE StreamInv'
    BY <1>3, StreamCancelled
<1>4. ASSUME NEW id \in DOMAIN streams, NEW a \in Amounts, stream_withdraw(id, a) PROVE StreamInv'
    BY <1>4, StreamWithdrawn
<1>5. CASE UNCHANGED streamVars
    BY <1>5 DEF streamVars, ledgerVars, StreamInv
<1> QED BY <1>1, <1>2, <1>3, <1>4, <1>5 DEF StreamNext

\* The streaming contract at deployment.
LEMMA StreamFirst == StreamInit => StreamInv
<1> SUFFICES ASSUME StreamInit PROVE StreamInv
    OBVIOUS
<1>1. LedgerInit /\ streams = <<>> /\ now = 0
    BY DEF StreamInit, LedgerInit
<1>2. /\ Untouched(balance, {StreamContract})
      /\ \A t \in Tokens : balance[t][StreamContract] = 0
    BY <1>1, UntouchedAtFirst, StreamAssumption DEF Endowment
<1>3. ASSUME NEW t \in Tokens PROVE Owed(streams, t) = 0
  <2>1. InToken(streams, t) = {}
      BY <1>1 DEF InToken
  <2> QED BY <2>1, TotalNone DEF Owed
<1> QED BY <1>1, <1>2, <1>3, LedgerAssumption DEF StreamInv

\* What the invariant of the streams says of the checked properties.
LEMMA StreamMeans ==
    StreamInv => StreamTypeOK /\ StreamsSolvent /\ WithdrawnWithinSchedule
<1> SUFFICES ASSUME StreamInv PROVE StreamTypeOK /\ StreamsSolvent /\ WithdrawnWithinSchedule
    OBVIOUS
<1>1. StreamsSolvent
    BY DEF StreamInv, StreamsSolvent, Owed, InToken, OutstandingOf, Outstanding
<1>2. ASSUME NEW id \in DOMAIN streams
      PROVE  LET s == streams[id]
                 elapsed == Max({0, Min({now, s.stop}) - s.start})
             IN  0 <= s.withdrawn /\ s.withdrawn * (s.stop - s.start) <= s.amount * elapsed
  <2> DEFINE s == streams[id]
             e == s.amount * Max({0, Min({now, s.stop}) - s.start})
             f == StreamedAt(s, now)
             d == s.stop - s.start
  <2>1. now \in 0 .. MaxTime /\ StreamTrue(s, now) /\ now \in Nat
      BY LedgerAssumption DEF StreamInv
  <2>2. /\ s.withdrawn \in Nat /\ f \in Nat /\ s.withdrawn <= f /\ s.amount \in Nat
        /\ s.start \in Nat /\ s.stop \in Nat /\ s.start < s.stop /\ d \in Nat
    <3>1. s.withdrawn \in 0 .. s.amount /\ f \in 0 .. s.amount /\ s.withdrawn <= f
          /\ s.amount \in Nat /\ s.start \in Nat /\ s.stop \in Nat
        BY <2>1, StreamFacts
    <3>2. s.start < s.stop
        BY <2>1 DEF StreamTrue
    <3> QED BY <3>1, <3>2
  <2>3. f * d <= e
      BY <2>1, <2>2, StreamedBounds
  <2>4. e \in Int
    <3>1. Max({0, Min({now, s.stop}) - s.start}) \in Int
      <4>1. Min({now, s.stop}) \in Int
          BY <2>1, <2>2 DEF Min
      <4> HIDE DEF s
      <4> QED BY <2>2, <4>1 DEF Max
    <3> QED BY <2>2, <3>1
  <2> HIDE DEF f, d, e, s
  <2>5. s.withdrawn * d <= f * d
      BY <2>2, Products
  <2>6. s.withdrawn * d \in Int /\ f * d \in Int
      BY <2>2
  <2>7. s.withdrawn * d <= e /\ 0 <= s.withdrawn
      BY <2>2, <2>3, <2>4, <2>5, <2>6
  <2> QED BY <2>7 DEF s, d, e
<1> QED BY <1>1, <1>2 DEF StreamInv, StreamTypeOK, WithdrawnWithinSchedule

-----------------------------------------------------------------------------
\* YieldAggregatorVault

\* The contract's division is exact when the dividend is a multiple of the divisor.
LEMMA Multiple ==
    ASSUME NEW a \in Nat, NEW d \in Nat \ {0}
    PROVE  (a * d) \div d = a
<1> DEFINE p == a * d
           q == p \div d
<1>1. p \in Nat
    OBVIOUS
<1> HIDE DEF p
<1>2. q \in Nat /\ q * d <= p /\ p < q * d + d
    BY <1>1, Divided
<1> HIDE DEF q
<1>3. ASSUME a + 1 <= q PROVE FALSE
  <2>1. (a + 1) * d <= q * d
      BY <1>2, <1>3, Products
  <2>2. (a + 1) * d = p + d /\ q * d \in Int
      BY <1>2 DEF p
  <2> QED BY <1>1, <1>2, <2>1, <2>2
<1>4. ASSUME q + 1 <= a PROVE FALSE
  <2>1. (q + 1) * d <= a * d
      BY <1>2, <1>4, Products
  <2>2. (q + 1) * d = q * d + d /\ q * d \in Int
      BY <1>2
  <2> QED BY <1>1, <1>2, <2>1, <2>2 DEF p
<1>5. q = a
    BY <1>2, <1>3, <1>4
<1> QED BY <1>5 DEF p, q

\* Rust's division of a product by one of its factors is exact.
LEMMA QuotExact ==
    ASSUME NEW a \in Nat, NEW t \in Int, t # 0
    PROVE  Quot(a * t, t) = a
<1>1. CASE t > 0
  <2> DEFINE p == a * t
  <2>1. p \in Nat /\ p \div t = a
      BY <1>1, Multiple
  <2> HIDE DEF p
  <2>2. Abs(p) = p /\ Abs(t) = t /\ ~(p < 0) /\ ~(t < 0)
      BY <1>1, <2>1 DEF Abs
  <2>3. Quot(p, t) = a
      BY <2>1, <2>2 DEF Quot
  <2> QED BY <2>3 DEF p
<1>2. CASE t < 0
  <2> DEFINE u == -t
             p == a * u
             n == a * t
  <2>1. u \in Nat \ {0} /\ t = -u
      BY <1>2
  <2>2. p \in Nat /\ p \div u = a
      BY <2>1, Multiple
  <2>3. n = -p
      BY <1>2
  <2>4. a > 0 => p > 0
      BY <2>1
  <2>5. a = 0 => p = 0
      BY <2>1
  <2> HIDE DEF p, u, n
  <2>6. Abs(n) = p /\ Abs(t) = u /\ t < 0
      BY <1>2, <2>1, <2>2, <2>3 DEF Abs
  <2>7. CASE a > 0
    <3>1. n < 0
        BY <2>2, <2>3, <2>4, <2>7
    <3>2. Quot(n, t) = p \div u
        BY <2>6, <3>1 DEF Quot
    <3> QED BY <2>2, <3>2 DEF n
  <2>8. CASE a = 0
    <3>1. ~(n < 0) /\ -(p \div u) = 0
        BY <2>2, <2>3, <2>5, <2>8
    <3>2. Quot(n, t) = -(p \div u)
        BY <2>6, <3>1 DEF Quot
    <3> QED BY <2>8, <3>1, <3>2 DEF n
  <2> QED BY <2>7, <2>8
<1> QED BY <1>1, <1>2

\* What the vault holds of every token.
Pot(b) == [t \in Tokens |-> b[t][VaultContract]]

VaultInv ==
    /\ Untouched(balance, {VaultContract, YieldPool}) /\ VaultTypeOK
    /\ \A t \in Tokens : balance[t][VaultContract] \in Nat
    /\ vaultAdmin = NoAdmin => orphaned = 0
    /\ totalAssets = totalShares
    /\ totalShares + orphaned = Total(userShares, Accounts)
    /\ totalAssets + orphaned = Total(Pot(balance), Tokens) + movedOut

\* What the vault holds of one token changes by n.
LEMMA PotChanged ==
    ASSUME VaultInv, NEW tk \in Tokens, NEW n \in Int, balance[tk][VaultContract] + n >= 0, NEW b,
           \A t \in Tokens : b[t][VaultContract] = IF t = tk THEN balance[t][VaultContract] + n
                                                   ELSE balance[t][VaultContract]
    PROVE  /\ \A t \in Tokens : b[t][VaultContract] \in Nat
           /\ Total(Pot(b), Tokens) = Total(Pot(balance), Tokens) + n
           /\ Total(Pot(balance), Tokens) \in Nat
<1> DEFINE f == Pot(balance)
           g == Pot(b)
<1>0. \A t \in Tokens : b[t][VaultContract] \in Nat
    BY DEF VaultInv
<1>1. /\ \A t \in Tokens : f[t] \in Nat
      /\ g[tk] \in Nat /\ g[tk] = f[tk] + n
      /\ \A t \in Tokens \ {tk} : g[t] = f[t]
    BY <1>0 DEF Pot, VaultInv
<1> HIDE DEF f, g
<1>2. Total(g, Tokens) = Total(f, Tokens) - f[tk] + g[tk] /\ Total(f, Tokens) \in Nat
  <2>1. IsFiniteSet(Tokens) /\ (\A t \in Tokens : f[t] \in Nat) /\ g[tk] \in Nat
        /\ (\A t \in Tokens \ {tk} : g[t] = f[t])
      BY <1>1, LedgerAssumption
  <2> QED BY ONLY <2>1, TotalChanged
<1>3. Total(g, Tokens) = Total(f, Tokens) + n
    BY <1>1, <1>2
<1> QED BY <1>0, <1>2, <1>3 DEF f, g

\* A user's shares change by n.
LEMMA SharesChanged ==
    ASSUME VaultInv, NEW u \in Accounts, NEW n \in Int, userShares[u] + n >= 0,
           NEW g, g = [userShares EXCEPT ![u] = userShares[u] + n]
    PROVE  g \in [Accounts -> Nat] /\ Total(g, Accounts) = Total(userShares, Accounts) + n
<1>1. userShares \in [Accounts -> Nat]
    BY DEF VaultInv, VaultTypeOK
<1>2. /\ g \in [Accounts -> Nat] /\ g[u] = userShares[u] + n
      /\ \A v \in Accounts : userShares[v] \in Nat
      /\ \A v \in Accounts \ {u} : g[v] = userShares[v]
    BY <1>1
<1>3. g[u] \in Nat
    BY <1>2
<1>4. /\ Total(g, Accounts) = Total(userShares, Accounts) - userShares[u] + g[u]
      /\ Total(userShares, Accounts) \in Nat
  <2>1. IsFiniteSet(Accounts) /\ (\A v \in Accounts : userShares[v] \in Nat) /\ g[u] \in Nat
        /\ (\A v \in Accounts \ {u} : g[v] = userShares[v])
      BY <1>2, <1>3, LedgerAssumption
  <2> QED BY ONLY <2>1, TotalChanged
<1> QED BY <1>2, <1>4

\* initialize zeroes the totals and leaves the shares.
LEMMA VaultInitialized ==
    ASSUME VaultInv, NEW u \in Accounts, vault_initialize(u)
    PROVE  VaultInv'
<1>1. /\ vaultAdmin = NoAdmin /\ vaultAdmin' = u /\ totalShares' = 0 /\ totalAssets' = 0
      /\ orphaned' = totalShares /\ UNCHANGED <<balance, userShares, movedOut>>
    BY DEF vault_initialize, ledgerVars
<1>2. orphaned = 0 /\ u # NoAdmin /\ totalShares \in Int /\ totalAssets = totalShares
    BY <1>1, VaultAssumption DEF VaultInv, NoAdmin, VaultTypeOK
<1>3. Total(userShares, Accounts) \in Nat
  <2>1. \A v \in Accounts : userShares[v] \in Nat
      BY DEF VaultInv, VaultTypeOK
  <2> QED BY <2>1, LedgerAssumption, UnitsFinite
<1>4. totalShares \in Nat /\ totalShares = Total(userShares, Accounts)
      /\ totalShares = Total(Pot(balance), Tokens) + movedOut
    BY <1>2, <1>3 DEF VaultInv
<1>5. VaultTypeOK'
    BY <1>1, <1>4 DEF VaultInv, VaultTypeOK
<1> QED BY <1>1, <1>2, <1>4, <1>5 DEF VaultInv

\* What every call that moves a user's assets does to the vault.
LEMMA VaultMoves ==
    ASSUME VaultInv, NEW u \in Accounts, NEW tk \in Tokens, NEW n \in Int, userShares[u] + n >= 0,
           Untouched(balance', {VaultContract, YieldPool}),
           \A t \in Tokens, z \in {VaultContract, YieldPool} :
             /\ balance[t][z] \in Int
             /\ balance'[t][z] = IF t = tk /\ z = VaultContract THEN balance[t][z] + n
                                ELSE balance[t][z],
           balance[tk][VaultContract] + n >= 0,
           userShares' = [userShares EXCEPT ![u] = userShares[u] + n],
           totalShares' = totalShares + n, totalAssets' = totalAssets + n,
           UNCHANGED <<vaultAdmin, orphaned, movedOut>>
    PROVE  VaultInv'
<1>1. \A t \in Tokens : balance'[t][VaultContract] = IF t = tk THEN balance[t][VaultContract] + n
                                                     ELSE balance[t][VaultContract]
    OBVIOUS
<1>2. /\ \A t \in Tokens : balance'[t][VaultContract] \in Nat
      /\ Total(Pot(balance'), Tokens) = Total(Pot(balance), Tokens) + n
      /\ Total(Pot(balance), Tokens) \in Nat
    BY <1>1, PotChanged
<1>3. userShares' \in [Accounts -> Nat] /\ Total(userShares', Accounts) = Total(userShares, Accounts) + n
    BY SharesChanged
<1>4. VaultTypeOK'
    BY <1>3 DEF VaultInv, VaultTypeOK
<1>5. /\ totalAssets \in Int /\ totalShares \in Int /\ orphaned \in Int /\ movedOut \in Int
      /\ totalAssets = totalShares /\ totalShares + orphaned = Total(userShares, Accounts)
      /\ totalAssets + orphaned = Total(Pot(balance), Tokens) + movedOut
    BY DEF VaultInv, VaultTypeOK
<1>6. /\ totalAssets' = totalShares' /\ totalShares' + orphaned' = Total(userShares', Accounts)
      /\ totalAssets' + orphaned' = Total(Pot(balance'), Tokens) + movedOut'
  <2> DEFINE P == Total(Pot(balance), Tokens)
             Q == Total(userShares, Accounts)
             P1 == Total(Pot(balance'), Tokens)
             Q1 == Total(userShares', Accounts)
  <2>1. /\ P1 = P + n /\ Q1 = Q + n /\ P \in Nat /\ totalShares + orphaned = Q
        /\ totalAssets + orphaned = P + movedOut
      BY <1>2, <1>3, <1>5
  <2> HIDE DEF P, Q, P1, Q1
  <2>2. /\ totalAssets' = totalShares' /\ totalShares' + orphaned' = Q1
        /\ totalAssets' + orphaned' = P1 + movedOut'
      BY <1>5, <2>1
  <2> QED BY <2>2 DEF P1, Q1
<1> QED BY <1>2, <1>4, <1>6 DEF VaultInv

\* A deposit mints as many shares as it brings assets (deposit).
LEMMA VaultDeposited ==
    ASSUME VaultInv, NEW u \in Accounts, NEW tk \in Tokens, NEW n \in Amounts, vault_deposit(u, tk, n)
    PROVE  VaultInv'
<1> DEFINE V == VaultContract
           S == {VaultContract, YieldPool}
<1>1. /\ n > 0 /\ n \in Nat /\ (totalShares # 0 => totalAssets # 0)
      /\ balance' = Paid(balance, tk, u, V, n)
      /\ userShares' = [userShares EXCEPT ![u] = userShares[u] + SharesFor(n)]
      /\ totalShares' = totalShares + SharesFor(n) /\ totalAssets' = totalAssets + n
      /\ UNCHANGED <<vaultAdmin, orphaned, movedOut>>
    BY LedgerAssumption DEF vault_deposit
<1>2. SharesFor(n) = n
  <2>1. totalShares \in Int /\ totalAssets = totalShares
      BY DEF VaultInv, VaultTypeOK
  <2> QED BY <1>1, <2>1, QuotExact DEF SharesFor
<1>3. S \in SUBSET Contracts /\ V \in S /\ Untouched(balance, S)
    BY VaultAssumption DEF VaultInv
<1> HIDE DEF V, S
<1>4. /\ Untouched(balance', S)
      /\ \A t \in Tokens, z \in S :
           /\ balance[t][z] \in Int
           /\ balance'[t][z] = IF t = tk /\ z = V THEN balance[t][z] + n ELSE balance[t][z]
    BY <1>1, <1>3, PaysIn
<1>5. n \in Int /\ userShares[u] + n >= 0 /\ balance[tk][V] + n >= 0
    BY <1>1 DEF VaultInv, VaultTypeOK, V
<1> QED BY <1>1, <1>2, <1>4, <1>5, VaultMoves DEF V, S

\* A withdrawal burns as many shares as it takes assets (withdraw).
LEMMA VaultWithdrawn ==
    ASSUME VaultInv, NEW u \in Accounts, NEW tk \in Tokens, NEW n \in Amounts, vault_withdraw(u, tk, n)
    PROVE  VaultInv'
<1> DEFINE V == VaultContract
           S == {VaultContract, YieldPool}
           m == -n
<1>1. Quot(n * totalAssets, totalShares) = n /\ n \in Nat
  <2>1. totalShares \in Int /\ totalAssets = totalShares /\ totalShares # 0 /\ n \in Nat
      BY LedgerAssumption DEF VaultInv, VaultTypeOK, vault_withdraw
  <2> QED BY <2>1, QuotExact
<1>2. /\ userShares[u] >= n /\ balance[tk][V] >= n
      /\ balance' = Paid(balance, tk, V, u, n)
      /\ userShares' = [userShares EXCEPT ![u] = userShares[u] - n]
      /\ totalShares' = totalShares - n /\ totalAssets' = totalAssets - n
      /\ UNCHANGED <<vaultAdmin, orphaned, movedOut>>
    BY <1>1 DEF vault_withdraw, CanPay
<1>3. S \in SUBSET Contracts /\ V \in S /\ Untouched(balance, S)
    BY VaultAssumption DEF VaultInv
<1> HIDE DEF V, S
<1>4. /\ Untouched(balance', S)
      /\ \A t \in Tokens, z \in S :
           /\ balance[t][z] \in Int
           /\ balance'[t][z] = IF t = tk /\ z = V THEN balance[t][z] - n ELSE balance[t][z]
    BY <1>1, <1>2, <1>3, PaysOut
<1>5. \A x \in Int : x - n = x + m
    BY <1>1
<1>6. /\ userShares[u] \in Int /\ balance[tk][V] \in Int /\ totalShares \in Int /\ totalAssets \in Int
    BY <1>3, <1>4 DEF VaultInv, VaultTypeOK
<1>7. m \in Int /\ userShares[u] + m >= 0 /\ balance[tk][V] + m >= 0
    BY <1>1, <1>2, <1>6
<1> HIDE DEF m
<1>8. /\ \A t \in Tokens, z \in S :
           /\ balance[t][z] \in Int
           /\ balance'[t][z] = IF t = tk /\ z = V THEN balance[t][z] + m ELSE balance[t][z]
      /\ userShares' = [userShares EXCEPT ![u] = userShares[u] + m]
      /\ totalShares' = totalShares + m /\ totalAssets' = totalAssets + m
    BY <1>2, <1>4, <1>5, <1>6
<1> QED BY <1>2, <1>4, <1>7, <1>8, VaultMoves DEF V, S

\* What the vault holds of a token changes by n beside its books: a rebalance or a
\* plain transfer.
LEMMA VaultMovesOut ==
    ASSUME VaultInv, NEW tk \in Tokens, NEW n \in Int, balance[tk][VaultContract] + n >= 0,
           Untouched(balance', {VaultContract, YieldPool}),
           \A t \in Tokens :
             balance'[t][VaultContract] = IF t = tk THEN balance[t][VaultContract] + n
                                          ELSE balance[t][VaultContract],
           movedOut' = movedOut - n,
           UNCHANGED <<vaultAdmin, totalShares, totalAssets, userShares, orphaned>>
    PROVE  VaultInv'
<1>1. /\ \A t \in Tokens : balance'[t][VaultContract] \in Nat
      /\ Total(Pot(balance'), Tokens) = Total(Pot(balance), Tokens) + n
      /\ Total(Pot(balance), Tokens) \in Nat
    BY PotChanged
<1>2. movedOut \in Int
    BY DEF VaultInv, VaultTypeOK
<1>3. VaultTypeOK'
    BY <1>2 DEF VaultInv, VaultTypeOK
<1>4. Total(Pot(balance'), Tokens) + movedOut' = Total(Pot(balance), Tokens) + movedOut
  <2> DEFINE P == Total(Pot(balance), Tokens)
             P1 == Total(Pot(balance'), Tokens)
  <2>1. P1 = P + n /\ P \in Nat
      BY <1>1
  <2> HIDE DEF P, P1
  <2>2. P1 + movedOut' = P + movedOut
      BY <1>2, <2>1
  <2> QED BY <2>2 DEF P, P1
<1>5. userShares' = userShares /\ UNCHANGED <<totalShares, totalAssets, orphaned, vaultAdmin>>
    OBVIOUS
<1> QED BY <1>1, <1>3, <1>4, <1>5 DEF VaultInv

\* What a rebalance takes out of the vault leaves its books as they are (rebalance).
LEMMA VaultRebalanced ==
    ASSUME VaultInv, NEW p \in Parties, NEW tk \in Tokens, NEW n \in Amounts, rebalance(p, tk, n)
    PROVE  VaultInv'
<1> DEFINE V == VaultContract
           S == {VaultContract, YieldPool}
           m == -n
<1>1. /\ n > 0 /\ n \in Int /\ balance[tk][V] >= n
      /\ balance' = Paid(balance, tk, V, p, n)
      /\ movedOut' = IF p = V THEN movedOut ELSE movedOut + n
      /\ UNCHANGED <<vaultAdmin, totalShares, totalAssets, userShares, orphaned>>
    BY LedgerAssumption DEF rebalance, CanPay
<1>2. S \in SUBSET Contracts /\ V \in Accounts \cup S /\ p \in Accounts \cup S
      /\ Untouched(balance, S) /\ V \in Contracts
    BY VaultAssumption DEF VaultInv, Parties
<1>3. CASE p # V
  <2> HIDE DEF V, S
  <2>1. /\ Untouched(balance', S)
        /\ \A u \in Tokens, z \in Accounts \cup Contracts :
             /\ balance[u][z] \in Int
             /\ balance'[u][z] = IF u # tk THEN balance[u][z]
                                 ELSE IF z = V THEN balance[u][z] - n
                                 ELSE IF z = p THEN balance[u][z] + n
                                 ELSE balance[u][z]
      BY <1>1, <1>2, <1>3, Payment
  <2>2. \A x \in Int : x - n = x + m /\ x + n = x - m
      BY <1>1
  <2>3. m \in Int /\ balance[tk][V] + m >= 0 /\ movedOut \in Int
      BY <1>1, <1>2, <2>1 DEF VaultInv, VaultTypeOK
  <2> HIDE DEF m
  <2>4. /\ \A t \in Tokens : balance'[t][V] = IF t = tk THEN balance[t][V] + m ELSE balance[t][V]
        /\ movedOut' = movedOut - m
      BY <1>1, <1>2, <1>3, <2>1, <2>2, <2>3
  <2> QED BY <1>1, <2>1, <2>3, <2>4, VaultMovesOut DEF V, S
<1>4. CASE p = V
  <2>1. IsLedger(balance)
      BY <1>2 DEF Untouched
  <2>2. balance' = balance
    <3> HIDE DEF V
    <3>1. balance' = Paid(balance, tk, V, V, n)
        BY <1>1, <1>4
    <3> QED BY <1>1, <1>2, <2>1, <3>1, SelfPaid
  <2> QED BY <1>1, <1>4, <2>2 DEF VaultInv, VaultTypeOK
<1> QED BY <1>3, <1>4

\* A plain transfer to the vault leaves its books as they are.
LEMMA VaultGiven ==
    ASSUME VaultInv, NEW p \in Parties, p # VaultContract, NEW tk \in Tokens, NEW n \in Amounts,
           PlainTransfer(p, tk, n)
    PROVE  VaultInv'
<1> DEFINE V == VaultContract
           S == {VaultContract, YieldPool}
<1>1. /\ n >= 0 /\ n \in Int /\ balance' = Paid(balance, tk, p, V, n) /\ movedOut' = movedOut - n
      /\ UNCHANGED <<vaultAdmin, totalShares, totalAssets, userShares, orphaned>>
    BY LedgerAssumption DEF PlainTransfer, CanPay
<1>2. S \in SUBSET Contracts /\ V \in Accounts \cup S /\ p \in Accounts \cup S /\ p # V
      /\ Untouched(balance, S) /\ V \in Contracts
    BY VaultAssumption DEF VaultInv, Parties
<1>3. \A t \in Tokens : balance[t][V] \in Nat
    BY DEF VaultInv
<1> HIDE DEF V, S
<1>4. /\ Untouched(balance', S)
      /\ \A u \in Tokens, z \in Accounts \cup Contracts :
           /\ balance[u][z] \in Int
           /\ balance'[u][z] = IF u # tk THEN balance[u][z]
                               ELSE IF z = p THEN balance[u][z] - n
                               ELSE IF z = V THEN balance[u][z] + n
                               ELSE balance[u][z]
    BY <1>1, <1>2, Payment
<1>5. /\ balance[tk][V] + n >= 0
      /\ \A t \in Tokens : balance'[t][V] = IF t = tk THEN balance[t][V] + n ELSE balance[t][V]
    BY <1>1, <1>2, <1>3, <1>4
<1> QED BY <1>1, <1>4, <1>5, VaultMovesOut DEF V, S

\* One call of the vault.
LEMMA VaultStep == VaultInv /\ [VaultNext]_vaultVars => VaultInv'
<1> SUFFICES ASSUME VaultInv, [VaultNext]_vaultVars PROVE VaultInv'
    OBVIOUS
<1>1. CASE UNCHANGED vaultVars
    BY <1>1 DEF vaultVars, ledgerVars, VaultInv, VaultTypeOK
<1> QED BY <1>1, VaultInitialized, VaultDeposited, VaultWithdrawn, VaultRebalanced, VaultGiven
      DEF VaultNext

\* The vault at deployment.
LEMMA VaultFirst == VaultInit => VaultInv
<1> SUFFICES ASSUME VaultInit PROVE VaultInv
    OBVIOUS
<1>1. /\ LedgerInit /\ vaultAdmin = NoAdmin /\ totalShares = 0 /\ totalAssets = 0
      /\ userShares = [u \in Accounts |-> 0] /\ orphaned = 0 /\ movedOut = 0
    BY DEF VaultInit
<1>2. /\ Untouched(balance, {VaultContract, YieldPool})
      /\ \A t \in Tokens : balance[t][VaultContract] = 0
    BY <1>1, UntouchedAtFirst, VaultAssumption DEF Endowment
<1>3. Total(userShares, Accounts) = 0 /\ Total(Pot(balance), Tokens) = 0
    BY <1>1, <1>2, TotalZero DEF Pot
<1>4. VaultTypeOK
  <2>1. userShares \in [Accounts -> Nat] /\ vaultAdmin \in Accounts \cup {NoAdmin}
      BY <1>1
  <2>2. totalShares \in Int /\ totalAssets \in Int
      BY <1>1
  <2>3. orphaned \in Nat /\ movedOut \in Int
      BY <1>1
  <2> QED BY <2>1, <2>2, <2>3 DEF VaultTypeOK
<1> QED BY <1>1, <1>2, <1>3, <1>4 DEF VaultInv

\* What the invariant of the vault says of the checked properties.
LEMMA VaultMeans ==
    VaultInv => VaultTypeOK /\ AssetsBacked /\ SharesAddUp /\ ShareWorthOneAsset
BY DEF VaultInv, AssetsBacked, SharesAddUp, ShareWorthOneAsset, Pot

-----------------------------------------------------------------------------
\* MultiAssetStaking: the balance

StakesInv ==
    StakeInv /\ Untouched(balance, {StakingContract}) /\ StakesBacked

\* What is staked of a token, by user.
Staked(S, t) == [u \in Accounts |-> Max({0, S[u][t].amount})]

\* The bound below which a stake does not count.
LEMMA NotBelowZero ==
    ASSUME NEW x \in Int
    PROVE  Max({0, x}) = IF x >= 0 THEN x ELSE 0
BY DEF Max

\* One record is written, so the stakes in its token change by the difference.
LEMMA StakedChanged ==
    ASSUME StakeInv, NEW u \in Accounts, NEW t \in Tokens, NEW w, w.amount \in Int, NEW n \in Int,
           stake' = [stake EXCEPT ![u][t] = w],
           Max({0, w.amount}) = Max({0, stake[u][t].amount}) + n
    PROVE  \A r \in Tokens :
             /\ Total(Staked(stake, r), Accounts) \in Nat
             /\ Total(Staked(stake', r), Accounts) =
                  IF r = t THEN Total(Staked(stake, r), Accounts) + n
                  ELSE Total(Staked(stake, r), Accounts)
<1> SUFFICES ASSUME NEW r \in Tokens
             PROVE  /\ Total(Staked(stake, r), Accounts) \in Nat
                    /\ Total(Staked(stake', r), Accounts) =
                         IF r = t THEN Total(Staked(stake, r), Accounts) + n
                         ELSE Total(Staked(stake, r), Accounts)
    OBVIOUS
<1> DEFINE f == Staked(stake, r)
           g == Staked(stake', r)
<1>1. \A v \in Accounts : stake'[v][r] = IF v = u /\ r = t THEN w ELSE stake[v][r]
    BY DEF StakeInv
<1>2. \A v \in Accounts : stake[v][r].amount \in Int
    BY StakingAssumption DEF StakeInv, StakeTrue, NoStake
<1>3. /\ \A v \in Accounts : f[v] = Max({0, stake[v][r].amount}) /\ f[v] \in Nat
      /\ \A v \in Accounts : g[v] = Max({0, stake'[v][r].amount})
      /\ IsFiniteSet(Accounts)
    BY <1>2, NotBelowZero, LedgerAssumption DEF Staked
<1>4. Max({0, w.amount}) \in Nat
    BY NotBelowZero
<1> HIDE DEF f, g
<1>7. ASSUME NEW v \in Accounts, stake'[v][r] = stake[v][r] PROVE g[v] = f[v]
  <2>1. g[v] = Max({0, stake'[v][r].amount}) /\ f[v] = Max({0, stake[v][r].amount})
      BY <1>3
  <2> QED BY <1>7, <2>1
<1>5. CASE r = t
  <2>1. g[u] \in Nat /\ g[u] = f[u] + n /\ (\A v \in Accounts \ {u} : g[v] = f[v])
    <3>1. stake'[u][r] = w
        BY <1>1, <1>5
    <3>2. g[u] = Max({0, stake'[u][r].amount}) /\ f[u] = Max({0, stake[u][r].amount})
        BY <1>3
    <3>3. g[u] = Max({0, w.amount}) /\ f[u] = Max({0, stake[u][t].amount})
        BY <1>5, <3>1, <3>2
    <3>4. \A v \in Accounts \ {u} : g[v] = f[v]
        BY <1>1, <1>7
    <3> QED BY <1>4, <3>3, <3>4
  <2>2. Total(g, Accounts) = Total(f, Accounts) - f[u] + g[u] /\ Total(f, Accounts) \in Nat
    <3>1. IsFiniteSet(Accounts) /\ (\A v \in Accounts : f[v] \in Nat) /\ g[u] \in Nat
          /\ (\A v \in Accounts \ {u} : g[v] = f[v]) /\ u \in Accounts
        BY <1>3, <2>1
    <3> QED BY ONLY <3>1, TotalChanged
  <2>3. Total(g, Accounts) = Total(f, Accounts) + n
    <3>1. f[u] \in Nat
        BY <1>3
    <3> QED BY <2>1, <2>2, <3>1
  <2> QED BY <1>5, <2>2, <2>3 DEF f, g
<1>6. CASE r # t
  <2>1. \A v \in Accounts : f[v] = g[v]
      BY <1>1, <1>6, <1>7
  <2>2. Total(g, Accounts) = Total(f, Accounts)
      BY <2>1, TotalSame
  <2>3. Total(f, Accounts) \in Nat
      BY <1>3, UnitsFinite
  <2> QED BY <1>6, <2>2, <2>3 DEF f, g
<1> QED BY <1>5, <1>6

\* A call that writes one stake and moves the same amount keeps the stakes backed.
LEMMA StakesMoved ==
    ASSUME StakesInv, StakeInv', NEW t \in Tokens, NEW n \in Int,
           Untouched(balance', {StakingContract}),
           \A r \in Tokens, z \in {StakingContract} :
             /\ balance[r][z] \in Int
             /\ balance'[r][z] = IF r = t /\ z = StakingContract THEN balance[r][z] + n
                                ELSE balance[r][z],
           \A r \in Tokens :
             /\ Total(Staked(stake, r), Accounts) \in Nat
             /\ Total(Staked(stake', r), Accounts) =
                  IF r = t THEN Total(Staked(stake, r), Accounts) + n
                  ELSE Total(Staked(stake, r), Accounts)
    PROVE  StakesInv'
<1>1. \A r \in Tokens : balance[r][StakingContract] = Total(Staked(stake, r), Accounts)
    BY DEF StakesInv, StakesBacked, Staked
<1>2. \A r \in Tokens : balance'[r][StakingContract] = Total(Staked(stake', r), Accounts)
    BY <1>1
<1>3. StakesBacked'
    BY <1>2 DEF StakesBacked, Staked
<1> QED BY <1>3 DEF StakesInv

\* stake books what it pulls in.
LEMMA StakedMore ==
    ASSUME StakesInv, StakeInv', NEW u \in Accounts, NEW t \in Tokens, NEW n \in Amounts,
           stake_tokens(u, t, n)
    PROVE  StakesInv'
<1> DEFINE i == StakeInfo(u, t)
           w == [amount |-> i.amount + n, last |-> now, credits |-> calculate_credits(i)]
           C == StakingContract
           S == {StakingContract}
<1>1. /\ stake' = [stake EXCEPT ![u][t] = w] /\ n \in Nat /\ w.amount = i.amount + n
      /\ balance' = Paid(balance, t, u, C, n)
    BY LedgerAssumption DEF stake_tokens, CanPay
<1>2. StakeInv
    BY DEF StakesInv
<1>3. /\ i.amount \in 0 .. MaxStake
      /\ i.amount = (IF stake[u][t] = NoStake THEN 0 ELSE stake[u][t].amount)
    BY <1>2, StakeStart
<1>4. S \in SUBSET Contracts /\ C \in S /\ Untouched(balance, S)
    BY StakingAssumption DEF StakesInv
<1> HIDE DEF i, w, C, S
<1>5. i.amount \in Nat /\ w.amount \in Nat /\ n \in Int
    BY <1>1, <1>3, StakingAssumption
<1>6. Max({0, w.amount}) = i.amount + n
    BY <1>1, <1>5, NotBelowZero
<1>7. Max({0, stake[u][t].amount}) = i.amount
  <2>1. CASE stake[u][t] = NoStake
      BY <1>3, <2>1, NotBelowZero DEF NoStake
  <2>2. CASE stake[u][t] # NoStake
      BY <1>3, <1>5, <2>2, NotBelowZero
  <2> QED BY <2>1, <2>2
<1>8. \A r \in Tokens :
        /\ Total(Staked(stake, r), Accounts) \in Nat
        /\ Total(Staked(stake', r), Accounts) =
             IF r = t THEN Total(Staked(stake, r), Accounts) + n
             ELSE Total(Staked(stake, r), Accounts)
  <2>1. Max({0, w.amount}) = Max({0, stake[u][t].amount}) + n
      BY <1>6, <1>7
  <2>2. u \in Accounts /\ t \in Tokens /\ stake' = [stake EXCEPT ![u][t] = w]
        /\ w.amount \in Int /\ n \in Int
      BY <1>1, <1>5
  <2> QED BY ONLY <1>2, <2>1, <2>2, StakedChanged
<1>9. /\ Untouched(balance', S)
      /\ \A r \in Tokens, z \in S :
           /\ balance[r][z] \in Int
           /\ balance'[r][z] = IF r = t /\ z = C THEN balance[r][z] + n ELSE balance[r][z]
    BY <1>1, <1>4, <1>5, PaysIn
<1> QED BY <1>5, <1>8, <1>9, StakesMoved DEF S, C

\* unstake pays out what it takes off the record.
LEMMA StakedLess ==
    ASSUME StakesInv, StakeInv', NEW u \in Accounts, NEW t \in Tokens, NEW n \in Amounts,
           unstake(u, t, n)
    PROVE  StakesInv'
<1> DEFINE i == StakeInfo(u, t)
           v == [amount |-> i.amount - n, last |-> now, credits |-> calculate_credits(i)]
           w == IF v.amount = 0 /\ v.credits = 0 THEN NoStake ELSE v
           C == StakingContract
           S == {StakingContract}
           m == -n
<1>0. i = stake[u][t] /\ stake[u][t] # NoStake
    BY DEF unstake, StakeInfo
<1>1. /\ stake' = [stake EXCEPT ![u][t] = w] /\ n \in Nat
      /\ w.amount = (IF v.amount = 0 /\ v.credits = 0 THEN -1 ELSE i.amount - n)
      /\ balance' = Paid(balance, t, C, u, n) /\ i.amount >= n
    BY <1>0, LedgerAssumption DEF unstake, CanPay, NoStake
<1>2. StakeInv
    BY DEF StakesInv
<1>3. i.amount \in 0 .. MaxStake
    BY <1>2, StakeStart
<1>4. S \in SUBSET Contracts /\ C \in S /\ Untouched(balance, S)
    BY StakingAssumption DEF StakesInv
<1>5. v.amount = i.amount - n
    OBVIOUS
<1> HIDE DEF i, v, w, C, S
<1>6. i.amount \in Nat /\ w.amount \in Int /\ i.amount - n \in Nat /\ n \in Int
    BY <1>1, <1>3, StakingAssumption
<1>7. Max({0, w.amount}) = i.amount - n
    BY <1>1, <1>5, <1>6, NotBelowZero
<1>8. Max({0, stake[u][t].amount}) = i.amount
    BY <1>0, <1>6, NotBelowZero
<1>9. m \in Int /\ i.amount - n = i.amount + m /\ \A x \in Int : x - n = x + m
    BY <1>6
<1> HIDE DEF m
<1>10. \A r \in Tokens :
         /\ Total(Staked(stake, r), Accounts) \in Nat
         /\ Total(Staked(stake', r), Accounts) =
              IF r = t THEN Total(Staked(stake, r), Accounts) + m
              ELSE Total(Staked(stake, r), Accounts)
  <2>1. Max({0, w.amount}) = Max({0, stake[u][t].amount}) + m
      BY <1>7, <1>8, <1>9
  <2>2. u \in Accounts /\ t \in Tokens /\ stake' = [stake EXCEPT ![u][t] = w]
        /\ w.amount \in Int /\ m \in Int
      BY <1>1, <1>6, <1>9
  <2> QED BY ONLY <1>2, <2>1, <2>2, StakedChanged
<1>11. /\ Untouched(balance', S)
       /\ \A r \in Tokens, z \in S :
            /\ balance[r][z] \in Int
            /\ balance'[r][z] = IF r = t /\ z = C THEN balance[r][z] - n ELSE balance[r][z]
    BY <1>1, <1>4, <1>6, PaysOut
<1>12. \A r \in Tokens, z \in S :
         /\ balance[r][z] \in Int
         /\ balance'[r][z] = IF r = t /\ z = C THEN balance[r][z] + m ELSE balance[r][z]
    BY <1>9, <1>11
<1> QED BY <1>9, <1>10, <1>11, <1>12, StakesMoved DEF S, C

\* One call of the staking contract, or a ledger closing.
LEMMA StakesStep == StakesInv /\ [StakingNext]_stakingVars => StakesInv'
<1> SUFFICES ASSUME StakesInv, [StakingNext]_stakingVars PROVE StakesInv'
    OBVIOUS
<1>1. StakeInv'
    BY StakingSteps DEF StakesInv
<1>2. CASE StakingTick
    BY <1>1, <1>2 DEF StakingTick, CloseLedger, StakesInv, StakesBacked
<1>3. CASE UNCHANGED stakingVars
    BY <1>1, <1>3 DEF stakingVars, ledgerVars, StakesInv, StakesBacked
<1> QED BY <1>1, <1>2, <1>3, StakedMore, StakedLess DEF StakingNext

\* The staking contract at deployment.
LEMMA StakesFirst == StakingInit => StakesInv
<1> SUFFICES ASSUME StakingInit PROVE StakesInv
    OBVIOUS
<1>1. LedgerInit /\ stake = [u \in Accounts |-> [t \in Tokens |-> NoStake]]
    BY DEF StakingInit
<1>2. StakeInv
    BY LedgerAssumption DEF StakingInit, LedgerInit, StakeInv, StakeTrue
<1>3. /\ Untouched(balance, {StakingContract})
      /\ \A t \in Tokens : balance[t][StakingContract] = 0
    BY <1>1, UntouchedAtFirst, StakingAssumption DEF Endowment
<1>4. ASSUME NEW t \in Tokens PROVE Total(Staked(stake, t), Accounts) = 0
  <2>1. Max({0, -1}) = 0
      BY NotBelowZero
  <2>2. \A u \in Accounts : Staked(stake, t)[u] = 0
      BY <1>1, <2>1 DEF Staked, NoStake
  <2> QED BY <2>2, TotalZero
<1>5. StakesBacked
    BY <1>3, <1>4 DEF StakesBacked, Staked
<1> QED BY <1>2, <1>3, <1>5 DEF StakesInv

\* What the invariant of the stakes says of the checked properties.
LEMMA StakesMean == StakesInv => StakingTypeOK /\ StakesBacked
<1> SUFFICES ASSUME StakesInv PROVE StakingTypeOK
    BY DEF StakesInv
<1>1. StakeInv
    BY DEF StakesInv
<1>2. ASSUME NEW u \in Accounts, NEW t \in Tokens
      PROVE  stake[u][t] \in [amount : -1 .. MaxStake, last : 0 .. MaxTime, credits : Nat]
  <2>1. StakeTrue(stake[u][t], held[u][t], now) /\ now \in 0 .. MaxTime
      BY <1>1 DEF StakeInv
  <2>2. CASE stake[u][t] = NoStake
      BY <2>2, LedgerAssumption, StakingAssumption DEF NoStake
  <2>3. CASE stake[u][t] # NoStake
    <3>1. stake[u][t] \in [amount : 0 .. MaxStake, last : 0 .. now, credits : Nat]
        BY <2>1, <2>3 DEF StakeTrue
    <3>2. 0 .. MaxStake \subseteq -1 .. MaxStake /\ 0 .. now \subseteq 0 .. MaxTime
        BY <2>1, LedgerAssumption, StakingAssumption
    <3> QED BY <3>1, <3>2
  <2> QED BY <2>2, <2>3
<1>3. stake \in [Accounts -> [Tokens -> [amount : -1 .. MaxStake, last : 0 .. MaxTime, credits : Nat]]]
    BY <1>1, <1>2 DEF StakeInv
<1> QED BY <1>1, <1>3 DEF StakingTypeOK, StakeInv

-----------------------------------------------------------------------------
\* FlashLoanProvider

FlashInv == Untouched(balance, {FlashPool}) /\ FlashTypeOK /\ PoolKeepsLiquidity

\* A loan moves out and back what it lends, and the fee passes through (flash_loan).
LEMMA Lent ==
    ASSUME FlashInv, NEW u \in Accounts, NEW n \in Amounts, flash_loan(u, n)
    PROVE  FlashInv'
<1> DEFINE tk == flashConfig.token
           q == flashConfig.admin
           P == FlashPool
           fee == LoanFee(n)
           due == compute_due(n)
           b == Paid(balance, tk, P, u, n)
           c == Paid(b, tk, u, P, due)
<1>1. /\ flashConfig # NoConfig /\ n \in Nat /\ allowance[u] >= due
      /\ balance' = Paid(c, tk, P, q, fee)
      /\ allowance' = [allowance EXCEPT ![u] = allowance[u] - due]
      /\ flashConfig' = flashConfig
    BY LedgerAssumption DEF flash_loan
<1>2. tk \in Tokens /\ q \in Accounts /\ flashConfig.fee_bps \in Nat
  <2>1. flashConfig \in [admin : Accounts, token : Tokens, fee_bps : 0 .. 10000]
      BY <1>1 DEF FlashInv, FlashTypeOK
  <2>2. flashConfig.fee_bps \in 0 .. 10000 /\ flashConfig.token \in Tokens
        /\ flashConfig.admin \in Accounts
      BY <2>1
  <2>3. flashConfig.fee_bps \in Nat
    <3> DEFINE x == flashConfig.fee_bps
    <3>1. x \in 0 .. 10000
        BY <2>2
    <3> HIDE DEF x
    <3>2. x \in Nat
        BY ONLY <3>1
    <3> QED BY <3>2 DEF x
  <2> QED BY <2>2, <2>3
<1>3. fee \in Nat /\ due = n + fee
  <2>1. n * flashConfig.fee_bps \in Nat
      BY <1>1, <1>2
  <2> QED BY <2>1, Divided DEF LoanFee, compute_due
<1>4. /\ IsLedger(balance) /\ P \in Accounts \cup Contracts /\ u \in Accounts \cup Contracts
      /\ q \in Accounts \cup Contracts /\ P # u /\ P # q /\ P \in Contracts /\ {P} \subseteq Contracts
    BY <1>2, FlashAssumption, LedgerAssumption DEF FlashInv, Untouched
<1>5. n \in Int /\ fee \in Int /\ due \in Int
    BY <1>1, <1>3
<1> HIDE DEF tk, q, P, fee, due, b, c
<1>6. /\ IsLedger(b)
      /\ \A t \in Tokens, z \in Accounts \cup Contracts :
           b[t][z] = IF t # tk THEN balance[t][z]
                     ELSE IF z = P THEN balance[t][z] - n
                     ELSE IF z = u THEN balance[t][z] + n
                     ELSE balance[t][z]
    BY <1>2, <1>4, <1>5, PaidBalances DEF b
<1>7. /\ IsLedger(c)
      /\ \A t \in Tokens, z \in Accounts \cup Contracts :
           c[t][z] = IF t # tk THEN b[t][z]
                     ELSE IF z = u THEN b[t][z] - due
                     ELSE IF z = P THEN b[t][z] + due
                     ELSE b[t][z]
    BY <1>2, <1>4, <1>5, <1>6, PaidBalances DEF c
<1>8. /\ IsLedger(balance')
      /\ \A t \in Tokens, z \in Accounts \cup Contracts :
           balance'[t][z] = IF t # tk THEN c[t][z]
                            ELSE IF z = P THEN c[t][z] - fee
                            ELSE IF z = q THEN c[t][z] + fee
                            ELSE c[t][z]
    BY <1>1, <1>2, <1>4, <1>5, <1>7, PaidBalances
<1>9. \A t \in Tokens, z \in Contracts : balance[t][z] \in Int
    BY <1>4 DEF IsLedger
<1>10. \A t \in Tokens, z \in Contracts : balance'[t][z] = balance[t][z]
  <2> SUFFICES ASSUME NEW t \in Tokens, NEW z \in Contracts PROVE balance'[t][z] = balance[t][z]
      OBVIOUS
  <2>1. z # u /\ z # q /\ z \in Accounts \cup Contracts /\ balance[t][z] \in Int
      BY <1>2, <1>9, LedgerAssumption
  <2>2. CASE t = tk /\ z = P
      BY <1>3, <1>4, <1>5, <1>6, <1>7, <1>8, <2>1, <2>2
  <2>3. CASE ~(t = tk /\ z = P)
      BY <1>6, <1>7, <1>8, <2>1, <2>3
  <2> QED BY <2>2, <2>3
<1>11. Untouched(balance', {P}) /\ PoolKeepsLiquidity'
    BY <1>4, <1>8, <1>10 DEF FlashInv, Untouched, PoolKeepsLiquidity, P
<1>12. FlashTypeOK'
    BY <1>1, <1>3 DEF FlashInv, FlashTypeOK
<1> QED BY <1>11, <1>12 DEF FlashInv, P

\* One call of the pool, or of its borrowers.
LEMMA FlashStep == FlashInv /\ [FlashNext]_flashVars => FlashInv'
<1> SUFFICES ASSUME FlashInv, [FlashNext]_flashVars PROVE FlashInv'
    OBVIOUS
<1>0. ASSUME balance' = balance, FlashTypeOK' PROVE FlashInv'
    BY <1>0 DEF FlashInv, PoolKeepsLiquidity
<1>1. ASSUME NEW a \in Accounts, NEW t \in Tokens, NEW bps \in FeeBps, flash_initialize(a, t, bps)
      PROVE  FlashInv'
  <2>1. bps \in 0 .. 10000
      BY <1>1, FlashAssumption DEF flash_initialize
  <2>2. FlashTypeOK'
    <3> DEFINE B == 0 .. 10000
               R == [admin : Accounts, token : Tokens, fee_bps : B]
    <3>1. /\ allowance \in [Accounts -> Nat] /\ allowance' = allowance
          /\ flashConfig' = [admin |-> a, token |-> t, fee_bps |-> bps]
        BY <1>1 DEF flash_initialize, FlashInv, FlashTypeOK
    <3>2. bps \in B
        BY <2>1
    <3> HIDE DEF B
    <3>3. flashConfig' \in R
        BY <3>1, <3>2
    <3>4. flashConfig' \in R \cup {NoConfig} /\ allowance' \in [Accounts -> Nat]
        BY ONLY <3>1, <3>3
    <3> QED BY ONLY <3>4, Zenon DEF FlashTypeOK, B
  <2> QED BY <1>0, <1>1, <2>2 DEF flash_initialize, ledgerVars
<1>2. ASSUME NEW bps \in FeeBps, set_fee(bps) PROVE FlashInv'
  <2>3. bps <= 10000
      BY <1>2 DEF set_fee
  <2>1. bps \in 0 .. 10000
      BY <2>3, FlashAssumption
  <2>2. FlashTypeOK'
    <3> DEFINE B == 0 .. 10000
               R == [admin : Accounts, token : Tokens, fee_bps : B]
    <3>1. /\ flashConfig \in R /\ allowance \in [Accounts -> Nat] /\ allowance' = allowance
          /\ flashConfig' = [flashConfig EXCEPT !.fee_bps = bps]
        BY <1>2 DEF set_fee, FlashInv, FlashTypeOK
    <3>2. bps \in B
        BY <2>1
    <3> HIDE DEF B
    <3>3. flashConfig' \in R
        BY <3>1, <3>2
    <3>4. flashConfig' \in R \cup {NoConfig} /\ allowance' \in [Accounts -> Nat]
        BY ONLY <3>1, <3>3
    <3> QED BY ONLY <3>4, Zenon DEF FlashTypeOK, B
  <2> QED BY <1>0, <1>2, <2>2 DEF set_fee, ledgerVars
<1>3. ASSUME NEW a \in Accounts, NEW x \in Allowances, approve(a, x) PROVE FlashInv'
  <2>1. FlashTypeOK'
      BY <1>3, FlashAssumption DEF approve, FlashInv, FlashTypeOK
  <2> QED BY <1>0, <1>3, <2>1 DEF approve, ledgerVars
<1>4. CASE UNCHANGED flashVars
  <2>1. balance' = balance /\ flashConfig' = flashConfig /\ allowance' = allowance
      BY <1>4 DEF flashVars, ledgerVars
  <2>2. FlashTypeOK'
      BY <2>1 DEF FlashInv, FlashTypeOK
  <2> QED BY <1>0, <2>1, <2>2
<1> QED BY <1>1, <1>2, <1>3, <1>4, Lent DEF FlashNext

\* The pool at deployment.
LEMMA FlashFirst == FlashInit => FlashInv
<1> SUFFICES ASSUME FlashInit PROVE FlashInv
    OBVIOUS
<1>1. Untouched(balance, {FlashPool}) /\ PoolKeepsLiquidity
    BY UntouchedAtFirst, FlashAssumption, LedgerAssumption DEF FlashInit, Endowment, PoolKeepsLiquidity
<1>2. FlashTypeOK
    BY DEF FlashInit, FlashTypeOK
<1> QED BY <1>1, <1>2 DEF FlashInv

-----------------------------------------------------------------------------
\* EscrowFactory: the other contracts' addresses

EscrowInv == Untouched(balance, Escrows) /\ EscrowsFunded

\* One call of the factory or of an escrow.
LEMMA EscrowStep == EscrowInv /\ [EscrowNext]_escrowVars => EscrowInv'
<1> SUFFICES ASSUME EscrowInv, [EscrowNext]_escrowVars PROVE EscrowInv'
    OBVIOUS
<1>1. EscrowsFunded'
    BY DepositsStep DEF EscrowInv
<1>2. Escrows \in SUBSET Contracts /\ Untouched(balance, Escrows)
    BY EscrowAssumption DEF EscrowInv
<1>3. CASE balance' = balance
    BY <1>1, <1>3 DEF EscrowInv
<1>4. ASSUME NEW e \in Escrows, NEW i \in Accounts, NEW c \in Accounts,
             NEW ta \in Tokens, NEW tb \in Tokens, NEW a \in Amounts, NEW b \in Amounts,
             deploy_escrow(e, [state |-> "Active", initiator |-> i, counterparty |-> c,
                               tokenA |-> ta, amountA |-> a, tokenB |-> tb, amountB |-> b])
      PROVE  EscrowInv'
  <2>1. balance' = Paid(balance, ta, i, e, a) /\ a \in Int
      BY <1>4, LedgerAssumption DEF deploy_escrow
  <2>2. Untouched(balance', Escrows)
      BY <1>2, <2>1, PaysIn
  <2> QED BY <1>1, <2>2 DEF EscrowInv
<1>5. ASSUME NEW e \in Escrows, escrow[e].state = "Active" PROVE escrow[e] \in EscrowConfig
    BY <1>5 DEF EscrowInv, EscrowsFunded, EscrowTypeOK, NotDeployed
<1>6. ASSUME NEW e \in Escrows, refund(e) PROVE EscrowInv'
  <2> DEFINE t == escrow[e].tokenA
             i == escrow[e].initiator
             a == escrow[e].amountA
  <2>1. t \in Tokens /\ i \in Accounts /\ a \in Int /\ balance' = Paid(balance, t, e, i, a)
      BY <1>5, <1>6 DEF refund, EscrowConfig
  <2> HIDE DEF t, i, a
  <2>2. Untouched(balance', Escrows)
      BY <1>2, <2>1, PaysOut
  <2> QED BY <1>1, <2>2 DEF EscrowInv
<1>7. ASSUME NEW e \in Escrows, complete(e) PROVE EscrowInv'
  <2> DEFINE t == escrow[e].tokenA
             i == escrow[e].initiator
             a == escrow[e].amountA
             u == escrow[e].tokenB
             k == escrow[e].counterparty
             m == escrow[e].amountB
             b == Paid(balance, u, k, i, m)
  <2>1. /\ t \in Tokens /\ i \in Accounts /\ a \in Int /\ u \in Tokens /\ k \in Accounts /\ m \in Int
        /\ balance' = Paid(b, t, e, k, a)
      BY <1>5, <1>7 DEF complete, EscrowConfig
  <2>2. IsLedger(balance) /\ e # k /\ e \in Accounts \cup Contracts /\ k \in Accounts \cup Contracts
      BY <1>2, <2>1, LedgerAssumption DEF Untouched
  <2> HIDE DEF t, i, a, u, k, m
  <2>3. IsLedger(b) /\ \A y \in Tokens, z \in Contracts : b[y][z] = balance[y][z]
      BY <2>1, <2>2, PaidAmongAccounts
  <2> HIDE DEF b
  <2>4. /\ IsLedger(balance')
        /\ \A y \in Tokens, z \in Accounts \cup Contracts :
             balance'[y][z] = IF y # t THEN b[y][z]
                              ELSE IF z = e THEN b[y][z] - a
                              ELSE IF z = k THEN b[y][z] + a
                              ELSE b[y][z]
      BY <2>1, <2>2, <2>3, PaidBalances
  <2>5. \A y \in Tokens, z \in Contracts \ Escrows : balance'[y][z] = balance[y][z]
      BY <2>1, <2>3, <2>4, LedgerAssumption
  <2>6. Untouched(balance', Escrows)
      BY <1>2, <2>4, <2>5 DEF Untouched
  <2> QED BY <1>1, <2>6 DEF EscrowInv
<1>8. CASE factory_initialize \/ UNCHANGED escrowVars
    BY <1>3, <1>8 DEF factory_initialize, escrowVars, ledgerVars
<1> QED BY <1>4, <1>6, <1>7, <1>8 DEF EscrowNext

\* The factory at deployment.
LEMMA EscrowFirst == EscrowInit => EscrowInv
<1> SUFFICES ASSUME EscrowInit PROVE EscrowInv
    OBVIOUS
<1>1. EscrowsFunded
    BY DepositsFirst
<1>2. LedgerInit /\ Escrows \in SUBSET Contracts
    BY EscrowAssumption DEF EscrowInit
<1> QED BY <1>1, <1>2, UntouchedAtFirst DEF EscrowInv

-----------------------------------------------------------------------------
\* GovernanceVoting and IdentityRegistryDID pay nobody

GovInv == Untouched(balance, {}) /\ GovTypeOK /\ TallyMatchesVoters
DIDInv == Untouched(balance, {}) /\ DIDTypeOK /\ MapsInverse

\* One call of the voting contract, or a ledger closing.
LEMMA GovStep == GovInv /\ [GovNext]_govVars => GovInv'
<1>1. [GovNext]_govVars => balance' = balance
    BY DEF GovNext, govVars, ledgerVars, CloseLedger, create_proposal, vote
<1> QED BY <1>1, GovTypeStep, TallyStep DEF GovInv

\* One call of the DID registry, or a ledger closing.
LEMMA DIDStep == DIDInv /\ [DIDNext]_didVars => DIDInv'
<1>1. [DIDNext]_didVars => balance' = balance
    BY DEF DIDNext, didVars, ledgerVars, CloseLedger, register_did, register_did_sponsored, Register,
           revoke_did
<1> QED BY <1>1, MapsStep DEF DIDInv
\* The voting contract at deployment.
LEMMA GovFirst == GovInit => GovInv
<1> SUFFICES ASSUME GovInit PROVE GovInv
    OBVIOUS
<1>1. GovTypeOK /\ TallyMatchesVoters /\ LedgerInit
    BY DEF GovInit, GovTypeOK, TallyMatchesVoters, LedgerInit
<1>2. {} \in SUBSET Contracts
    OBVIOUS
<1> QED BY <1>1, <1>2, UntouchedAtFirst DEF GovInv

\* The DID registry at deployment.
LEMMA DIDFirst == DIDInit => DIDInv
<1> SUFFICES ASSUME DIDInit PROVE DIDInv
    OBVIOUS
<1>1. DIDTypeOK /\ MapsInverse /\ LedgerInit
    BY DIDAssumption DEF DIDInit, DIDTypeOK, MapsInverse, LedgerInit, NoDocument, NoIdentity
<1>2. {} \in SUBSET Contracts
    OBVIOUS
<1> QED BY <1>1, <1>2, UntouchedAtFirst DEF DIDInv

-----------------------------------------------------------------------------
\* RoyaltySplitter

\* q is n times b, in units of 10000, every part rounded down.
RoundedDown(q, n, b, S) ==
    \A x \in S : /\ q[x] \in Nat /\ b[x] \in Nat
                 /\ 10000 * q[x] <= n * b[x] /\ n * b[x] <= 10000 * q[x] + 9999

\* Rounding every part down loses less than one unit per part.
LEMMA SumOfShares ==
    ASSUME NEW S, IsFiniteSet(S), NEW n \in Nat, NEW q, NEW b, RoundedDown(q, n, b, S)
    PROVE  /\ 10000 * Total(q, S) <= n * Total(b, S)
           /\ n * Total(b, S) <= 10000 * Total(q, S) + 9999 * Cardinality(S)
<1> DEFINE Within(T) == /\ 10000 * Total(q, T) <= n * Total(b, T)
                        /\ n * Total(b, T) <= 10000 * Total(q, T) + 9999 * Cardinality(T)
           Bad == {T \in SUBSET S : ~Within(T)}
<1> SUFFICES ASSUME ~Within(S) PROVE FALSE
    OBVIOUS
<1>1. Bad \subseteq FiniteSubsetsOf(S) /\ Bad # {}
  <2>1. \A T \in SUBSET S : IsFiniteSet(T)
      BY FS_Subset
  <2> HIDE DEF Within
  <2> QED BY <2>1 DEF FiniteSubsetsOf
<1>2. IsWellFoundedOn(StrictSubsetOrdering(S), FiniteSubsetsOf(S))
    BY FS_StrictSubsetOrderingWellFounded
<1> HIDE DEF Bad
<1>3. PICK T \in Bad : \A R \in Bad : ~(<<R, T>> \in StrictSubsetOrdering(S))
    BY <1>1, <1>2, WFMin
<1>4. T \in SUBSET S /\ ~Within(T) /\ IsFiniteSet(T)
    BY <1>3, FS_Subset DEF Bad
<1>5. Within({})
  <2>1. Total(q, {}) = 0 /\ Total(b, {}) = 0 /\ Cardinality({}) = 0
      BY TotalNone, FS_EmptySet
  <2> QED BY <2>1
<1>6. T # {}
    BY <1>4, <1>5
<1>7. PICK y \in T : TRUE
    BY <1>6
<1> DEFINE R == T \ {y}
<1>8. Within(R)
  <2>1. <<R, T>> \in StrictSubsetOrdering(S)
      BY <1>4, <1>7 DEF StrictSubsetOrdering
  <2>2. R \notin Bad
      BY <1>3, <2>1
  <2> HIDE DEF Within
  <2> QED BY <1>4, <2>2 DEF Bad
<1>9. IsFiniteSet(R) /\ y \in S /\ Cardinality(R) \in Nat /\ Cardinality(T) = Cardinality(R) + 1
  <2>3. IsFiniteSet(T) /\ y \in T
      BY <1>4, <1>7
  <2>1. IsFiniteSet(R) /\ Cardinality(R) = Cardinality(T) - 1
      BY ONLY <2>3, FS_RemoveElement
  <2>2. Cardinality(R) \in Nat /\ Cardinality(T) \in Nat
      BY <1>4, <2>1, FS_CardinalityType
  <2> QED BY <1>4, <2>1, <2>2
<1>10. /\ \A x \in T : q[x] \in Nat /\ b[x] \in Nat
       /\ \A x \in R : q[x] \in Nat /\ b[x] \in Nat
    BY <1>4 DEF RoundedDown
<1>11. Total(q, T) = Total(q, R) + q[y] /\ Total(b, T) = Total(b, R) + b[y]
    BY <1>4, <1>10, TotalWithout
<1>12. Total(q, R) \in Nat /\ Total(b, R) \in Nat
    BY <1>9, <1>10, UnitsFinite
<1> DEFINE Q == Total(q, R)
           B == Total(b, R)
           c == Cardinality(R)
           u == q[y]
           v == b[y]
<1>13. /\ Q \in Nat /\ B \in Nat /\ c \in Nat /\ u \in Nat /\ v \in Nat
       /\ 10000 * Q <= n * B /\ n * B <= 10000 * Q + 9999 * c
       /\ 10000 * u <= n * v /\ n * v <= 10000 * u + 9999
    BY <1>8, <1>9, <1>10, <1>12 DEF RoundedDown
<1>14. Total(q, T) = Q + u /\ Total(b, T) = B + v /\ Cardinality(T) = c + 1
    BY <1>9, <1>11
<1> HIDE DEF Q, B, c, u, v
<1>15. n * (B + v) = n * B + n * v /\ n * B \in Nat /\ n * v \in Nat
    BY <1>13
<1>16. 10000 * (Q + u) <= n * (B + v) /\ n * (B + v) <= 10000 * (Q + u) + 9999 * (c + 1)
    BY <1>13, <1>15
<1> QED BY <1>4, <1>14, <1>16

\* A list that adds up to the whole.
Whole(L) == L \in Seq(Recipient) /\ L # <<>> /\ TotalBps(L) = 10000

\* The recipients of a whole list are accounts with natural shares.
LEMMA WholeParts ==
    ASSUME NEW L, Whole(L)
    PROVE  /\ DOMAIN L = 1 .. Len(L) /\ Len(L) \in Nat \ {0} /\ IsFiniteSet(DOMAIN L)
           /\ Cardinality(DOMAIN L) = Len(L)
           /\ \A i \in DOMAIN L : L[i].address \in Accounts /\ L[i].bps \in Nat
           /\ Last(L).address \in Accounts
<1>1. DOMAIN L = 1 .. Len(L) /\ Len(L) \in Nat \ {0}
    BY DEF Whole
<1>2. IsFiniteSet(DOMAIN L) /\ Cardinality(DOMAIN L) = Len(L)
    BY <1>1, FS_Interval
<1> DEFINE B == 0 .. 10000
           R == [address : Accounts, bps : B]
<1>3. \A i \in DOMAIN L : L[i] \in R
  <2>1. L \in Seq(R)
      BY DEF Whole, Recipient
  <2> HIDE DEF R
  <2> QED BY <1>1, <2>1
<1>4. \A i \in DOMAIN L : L[i].address \in Accounts /\ L[i].bps \in Nat
  <2>1. \A x \in B : x \in Nat
      OBVIOUS
  <2> HIDE DEF B
  <2>2. \A r \in R : r.address \in Accounts /\ r.bps \in B
      OBVIOUS
  <2> QED BY <1>3, <2>1, <2>2
<1>5. Len(L) \in DOMAIN L
    BY <1>1
<1> QED BY <1>1, <1>2, <1>4, <1>5 DEF Last

\* The shares of an amount leave less than one unit per recipient (split).
LEMMA SharesOfWhole ==
    ASSUME NEW L, Whole(L), NEW n \in Nat
    PROVE  /\ \A i \in DOMAIN L : Shares(n, L)[i] \in Nat
           /\ Distributed(n, L) \in Nat
           /\ Dust(n, L) \in 0 .. Len(L) - 1
<1> DEFINE D == DOMAIN L
           q == Shares(n, L)
           b == [i \in D |-> L[i].bps]
<1>1. \A i \in D : b[i] \in Nat /\ q[i] = (n * b[i]) \div 10000
    BY WholeParts DEF Shares, Share
<1>2. ASSUME NEW i \in D
      PROVE  q[i] \in Nat /\ 10000 * q[i] <= n * b[i] /\ n * b[i] <= 10000 * q[i] + 9999
  <2> DEFINE p == n * b[i]
             k == p \div 10000
  <2>1. p \in Nat
      BY <1>1
  <2> HIDE DEF p
  <2>2. k \in Nat /\ k * 10000 <= p /\ p < k * 10000 + 10000
      BY <2>1, Divided
  <2>3. q[i] = k
      BY <1>1 DEF p
  <2> HIDE DEF k, q
  <2>4. 10000 * k <= p /\ p <= 10000 * k + 9999
      BY <2>1, <2>2
  <2> QED BY <2>2, <2>3, <2>4 DEF p
<1>3. Total(b, D) = 10000 /\ Distributed(n, L) = Total(q, D)
    BY DEF Whole, TotalBps, Distributed
<1>4. IsFiniteSet(D) /\ Cardinality(D) = Len(L) /\ Len(L) \in Nat \ {0}
    BY WholeParts
<1> HIDE DEF b, q, D
<1>5. Total(q, D) \in Nat
    BY <1>2, <1>4, UnitsFinite
<1>6. /\ 10000 * Total(q, D) <= n * Total(b, D)
      /\ n * Total(b, D) <= 10000 * Total(q, D) + 9999 * Cardinality(D)
  <2>1. RoundedDown(q, n, b, D)
      BY <1>1, <1>2 DEF RoundedDown
  <2>2. n \in Nat
      OBVIOUS
  <2> QED BY ONLY <1>4, <2>1, <2>2, SumOfShares
<1> DEFINE d == Total(q, D)
           m == Len(L)
<1>7. d \in Nat /\ m \in Nat \ {0} /\ 10000 * d <= n * 10000 /\ n * 10000 <= 10000 * d + 9999 * m
    BY <1>3, <1>4, <1>5, <1>6
<1> HIDE DEF d, m
<1>8. n - d \in 0 .. m - 1
    BY <1>7
<1>9. Dust(n, L) = n - d
    BY <1>3 DEF Dust, d
<1> QED BY <1>2, <1>3, <1>5, <1>8, <1>9 DEF D, q, m

RoyaltyInv ==
    /\ Untouched(balance, {SplitterContract}) /\ SplitterKeepsNothing
    /\ recipients = <<>> \/ Whole(recipients)

\* A split pays on all it pulled in (split).
LEMMA SplitKeeps ==
    ASSUME RoyaltyInv, NEW s \in Accounts, NEW tk \in Tokens, NEW n \in Amounts, split(s, tk, n)
    PROVE  RoyaltyInv'
<1> DEFINE C == SplitterContract
           L == recipients
           D == Distributed(n, L)
           due(a) == Total(Shares(n, L), {i \in DOMAIN L : L[i].address = a})
           b == Paid(balance, tk, s, C, n)
           c == SharesPaid(b, tk, n)
           q == Last(L).address
           r == Dust(n, L)
<1>1. /\ L # <<>> /\ n \in Nat /\ L' = L /\ balance' = Paid(c, tk, C, q, r)
    BY LedgerAssumption DEF split, CanPay
<1>2. Whole(L)
    BY <1>1 DEF RoyaltyInv
<1>3. /\ D \in Nat /\ r = n - D /\ q \in Accounts /\ n \in Int /\ r \in Int
      /\ IsFiniteSet(DOMAIN L)
      /\ \A i \in DOMAIN L : Shares(n, L)[i] \in Nat /\ L[i].address \in Accounts
  <2>1. D \in Nat /\ \A i \in DOMAIN L : Shares(n, L)[i] \in Nat
      BY <1>1, <1>2, SharesOfWhole
  <2>2. q \in Accounts /\ IsFiniteSet(DOMAIN L) /\ \A i \in DOMAIN L : L[i].address \in Accounts
      BY <1>2, WholeParts
  <2>3. r = n - D
      BY DEF Dust
  <2> HIDE DEF D, r, q
  <2> QED BY <1>1, <2>1, <2>2, <2>3
<1>4. \A a : due(a) \in Nat
  <2> SUFFICES ASSUME NEW a PROVE due(a) \in Nat
      OBVIOUS
  <2> DEFINE P == {i \in DOMAIN L : L[i].address = a}
             f == Shares(n, L)
  <2>1. IsFiniteSet(P) /\ \A i \in P : f[i] \in Nat
      BY <1>3, FS_Subset
  <2>2. due(a) = Total(f, P)
      OBVIOUS
  <2> HIDE DEF P, f, due
  <2> QED BY <2>1, <2>2, UnitsFinite
<1>5. \A a \in Contracts : due(a) = 0
  <2> SUFFICES ASSUME NEW a \in Contracts PROVE due(a) = 0
      OBVIOUS
  <2>1. {i \in DOMAIN L : L[i].address = a} = {}
      BY <1>3, LedgerAssumption
  <2> QED BY <2>1, TotalNone
<1>6. /\ IsLedger(balance) /\ C \in Contracts /\ C \in Accounts \cup Contracts
      /\ s \in Accounts \cup Contracts /\ q \in Accounts \cup Contracts /\ C # s /\ C # q
      /\ \A t \in Tokens : balance[t][C] = 0
    BY <1>3, RoyaltyAssumption, LedgerAssumption DEF RoyaltyInv, Untouched, SplitterKeepsNothing
<1>7. c = [b EXCEPT ![tk] = [a \in Accounts \cup Contracts |->
                               IF a = C THEN b[tk][a] - D ELSE b[tk][a] + due(a)]]
    BY DEF SharesPaid
<1> HIDE DEF C, L, D, due, b, c, q, r
<1>8. /\ IsLedger(b)
      /\ \A t \in Tokens, z \in Accounts \cup Contracts :
           b[t][z] = IF t # tk THEN balance[t][z]
                     ELSE IF z = s THEN balance[t][z] - n
                     ELSE IF z = C THEN balance[t][z] + n
                     ELSE balance[t][z]
    BY <1>3, <1>6, PaidBalances DEF b
<1>9. /\ IsLedger(c)
      /\ \A t \in Tokens, z \in Accounts \cup Contracts :
           c[t][z] = IF t # tk THEN b[t][z]
                     ELSE IF z = C THEN b[t][z] - D
                     ELSE b[t][z] + due(z)
  <2> DEFINE g == [a \in Accounts \cup Contracts |->
                     IF a = C THEN b[tk][a] - D ELSE b[tk][a] + due(a)]
  <2>1. \A a \in Accounts \cup Contracts : b[tk][a] \in Int
      BY <1>8 DEF IsLedger
  <2>2. g \in [Accounts \cup Contracts -> Int]
      BY <1>3, <1>4, <2>1
  <2>3. c = [b EXCEPT ![tk] = g]
      BY <1>7
  <2>4. \A a \in Accounts \cup Contracts : g[a] = IF a = C THEN b[tk][a] - D ELSE b[tk][a] + due(a)
      OBVIOUS
  <2> HIDE DEF g
  <2> QED BY <1>8, <2>2, <2>3, <2>4 DEF IsLedger
<1>10. /\ IsLedger(balance')
       /\ \A t \in Tokens, z \in Accounts \cup Contracts :
            balance'[t][z] = IF t # tk THEN c[t][z]
                             ELSE IF z = C THEN c[t][z] - r
                             ELSE IF z = q THEN c[t][z] + r
                             ELSE c[t][z]
    BY <1>1, <1>3, <1>6, <1>9, PaidBalances
<1>11. \A t \in Tokens, z \in Contracts : balance'[t][z] = balance[t][z]
  <2> SUFFICES ASSUME NEW t \in Tokens, NEW z \in Contracts PROVE balance'[t][z] = balance[t][z]
      OBVIOUS
  <2>1. /\ z # s /\ z # q /\ z \in Accounts \cup Contracts /\ balance[t][z] \in Int
        /\ due(z) = 0
      BY <1>3, <1>5, <1>6, LedgerAssumption DEF IsLedger
  <2>2. CASE t = tk /\ z = C
      BY <1>3, <1>6, <1>8, <1>9, <1>10, <2>1, <2>2
  <2>3. CASE ~(t = tk /\ z = C)
      BY <1>8, <1>9, <1>10, <2>1, <2>3
  <2> QED BY <2>2, <2>3
<1>12. Untouched(balance', {C}) /\ SplitterKeepsNothing'
    BY <1>6, <1>10, <1>11 DEF RoyaltyInv, Untouched, SplitterKeepsNothing, C
<1> QED BY <1>1, <1>2, <1>12 DEF RoyaltyInv, C, L, Whole

\* One call of the splitter.
LEMMA RoyaltyStep == RoyaltyInv /\ [RoyaltyNext]_royaltyVars => RoyaltyInv'
<1> SUFFICES ASSUME RoyaltyInv, [RoyaltyNext]_royaltyVars PROVE RoyaltyInv'
    OBVIOUS
<1>1. ASSUME NEW list \in RecipientLists, royalty_initialize(list) PROVE RoyaltyInv'
  <2>1. balance' = balance /\ recipients' = list /\ TotalBps(list) = 10000
      BY <1>1 DEF royalty_initialize, ledgerVars
  <2>2. list \in Seq(Recipient)
      BY RoyaltyAssumption
  <2>3. list # <<>>
    <3>1. TotalBps(<<>>) = 0
      <4>1. DOMAIN <<>> = {}
          OBVIOUS
      <4> QED BY <4>1, TotalNone DEF TotalBps
    <3> QED BY <2>1, <3>1
  <2>4. Whole(list)
      BY <2>1, <2>2, <2>3 DEF Whole
  <2> QED BY <2>1, <2>4 DEF RoyaltyInv, SplitterKeepsNothing
<1>2. CASE UNCHANGED royaltyVars
    BY <1>2 DEF royaltyVars, ledgerVars, RoyaltyInv, SplitterKeepsNothing
<1> QED BY <1>1, <1>2, SplitKeeps DEF RoyaltyNext

\* The splitter at deployment.
LEMMA RoyaltyFirst == RoyaltyInit => RoyaltyInv
BY UntouchedAtFirst, RoyaltyAssumption DEF RoyaltyInit, RoyaltyInv, SplitterKeepsNothing, Endowment

\* What the invariant of the splitter says of the checked properties.
LEMMA RoyaltyMeans == RoyaltyInv => SplitterKeepsNothing /\ DustBelowRecipients
<1> SUFFICES ASSUME RoyaltyInv, recipients # <<>>, NEW n \in Amounts, n >= 0
             PROVE  Dust(n, recipients) \in 0 .. Len(recipients) - 1
    BY DEF RoyaltyInv, DustBelowRecipients
<1>1. Whole(recipients) /\ n \in Nat
    BY LedgerAssumption DEF RoyaltyInv
<1> QED BY <1>1, SharesOfWhole

-----------------------------------------------------------------------------
\* A behaviour of MCContracts is one of the deployed contract, and the records of
\* the others stay what they were initialized to.

NoStakes == [u \in Accounts |-> [t \in Tokens |-> NoStake]]
NoDocuments == [a \in Accounts |-> NoDocument]
NoIdentities == [d \in DIDs |-> NoIdentity]

\* Either the voting contract is deployed, and the behaviour is one of its own, or there
\* is never a proposal.
LEMMA GovRuns ==
    ContractsSpec => \/ GovSpec
                     \/ /\ [](~(deployed = "gov") /\ proposals = <<>>)
                        /\ [][ContractsNext]_contractsVars
<1> DEFINE On == deployed = "gov"
           Off == ~(deployed = "gov") /\ proposals = <<>>
<1>1. ContractsInit /\ On => GovInit
    BY DEF ContractsInit
<1>2. ContractsInit => On \/ Off
    BY DEF ContractsInit, GovInit
<1>3. On /\ [ContractsNext]_contractsVars => On'
    BY DEF ContractsNext, Rest, contractsVars
<1>4. On /\ [ContractsNext]_contractsVars => [GovNext]_govVars
    BY DEF ContractsNext, contractsVars
<1>5. Off /\ [ContractsNext]_contractsVars => Off'
    BY DEF ContractsNext, Rest, contractsVars, govVars
<1> QED BY <1>1, <1>2, <1>3, <1>4, <1>5, PTL DEF ContractsSpec, GovSpec

\* Either the staking contract is deployed, and the behaviour is one of its own, or there
\* is never a stake.
LEMMA StakingRuns ==
    ContractsSpec => \/ StakingSpec
                     \/ /\ [](~(deployed = "staking") /\ stake = NoStakes)
                        /\ [][ContractsNext]_contractsVars
<1> DEFINE On == deployed = "staking"
           Off == ~(deployed = "staking") /\ stake = NoStakes
<1>1. ContractsInit /\ On => StakingInit
    BY DEF ContractsInit
<1>2. ContractsInit => On \/ Off
    BY DEF ContractsInit, StakingInit, NoStakes
<1>3. On /\ [ContractsNext]_contractsVars => On'
    BY DEF ContractsNext, Rest, contractsVars
<1>4. On /\ [ContractsNext]_contractsVars => [StakingNext]_stakingVars
    BY DEF ContractsNext, contractsVars
<1>5. Off /\ [ContractsNext]_contractsVars => Off'
    BY DEF ContractsNext, Rest, contractsVars, stakingVars, NoStakes
<1> QED BY <1>1, <1>2, <1>3, <1>4, <1>5, PTL DEF ContractsSpec, StakingSpec

\* Either the DID registry is deployed, and the behaviour is one of its own, or there is
\* never a DID.
LEMMA DIDRuns ==
    ContractsSpec => \/ DIDSpec
                     \/ /\ [](~(deployed = "did") /\ (identityToDID = NoDocuments /\ didToIdentity = NoIdentities))
                        /\ [][ContractsNext]_contractsVars
<1> DEFINE On == deployed = "did"
           Off == ~(deployed = "did") /\ (identityToDID = NoDocuments /\ didToIdentity = NoIdentities)
<1>1. ContractsInit /\ On => DIDInit
    BY DEF ContractsInit
<1>2. ContractsInit => On \/ Off
    BY DEF ContractsInit, DIDInit, NoDocuments, NoIdentities
<1>3. On /\ [ContractsNext]_contractsVars => On'
    BY DEF ContractsNext, Rest, contractsVars
<1>4. On /\ [ContractsNext]_contractsVars => [DIDNext]_didVars
    BY DEF ContractsNext, contractsVars
<1>5. Off /\ [ContractsNext]_contractsVars => Off'
    BY DEF ContractsNext, Rest, contractsVars, didVars, NoDocuments, NoIdentities
<1> QED BY <1>1, <1>2, <1>3, <1>4, <1>5, PTL DEF ContractsSpec, DIDSpec

\* The records of every contract of the ledger are final (RecordsFinal).
THEOREM RecordsAreFinal == ContractsSpec => RecordsFinal
<1> DEFINE Credits == \A u \in Accounts, t \in Tokens : stake'[u][t].credits >= stake[u][t].credits
           Votes == \A id \in DOMAIN proposals :
                      now > proposals[id].deadline => proposals'[id] = proposals[id]
           Revoked == \A a \in Accounts :
                        identityToDID[a] # NoDocument /\ ~identityToDID[a].active =>
                          identityToDID'[a] = identityToDID[a]
<1>1. ~(deployed = "gov") /\ [ContractsNext]_contractsVars => [Votes]_govVars
    BY DEF ContractsNext, Rest, contractsVars, govVars
<1>2. (~(deployed = "staking") /\ stake = NoStakes) /\ [ContractsNext]_contractsVars
        => [Credits]_stakingVars
  <2>1. \A u \in Accounts, t \in Tokens : NoStakes[u][t].credits = 0
      BY DEF NoStakes, NoStake
  <2>2. ~(deployed = "staking") /\ [ContractsNext]_contractsVars => stake' = stake
      BY DEF ContractsNext, Rest, contractsVars, stakingVars
  <2> QED BY <2>1, <2>2
<1>3. ~(deployed = "did") /\ [ContractsNext]_contractsVars => [Revoked]_didVars
    BY DEF ContractsNext, Rest, contractsVars, didVars
<1>4. ContractsSpec => [][Votes]_govVars
    BY <1>1, GovRuns, OutcomeStays, PTL DEF OutcomeFinal
<1>5. ContractsSpec => [][Credits]_stakingVars
    BY <1>2, StakingRuns, CreditsAreEarned, PTL DEF CreditsNeverLost
<1>6. ContractsSpec => [][Revoked]_didVars
    BY <1>3, DIDRuns, RevocationStays, PTL DEF RevocationFinal
<1> QED BY <1>4, <1>5, <1>6 DEF RecordsFinal, CreditsNeverLost, OutcomeFinal, RevocationFinal

-----------------------------------------------------------------------------
\* MCContracts: the contracts on one ledger

\* Every contract but c has the storage it is deployed with.
Idle(c) ==
    /\ ~(c = "stream")  => streams = <<>>
    /\ ~(c = "vault")   => /\ vaultAdmin = NoAdmin /\ totalShares = 0 /\ totalAssets = 0
                           /\ userShares = [u \in Accounts |-> 0]
                           /\ orphaned = 0 /\ movedOut = 0
    /\ ~(c = "staking") => /\ stake = NoStakes
                           /\ held = [u \in Accounts |-> [t \in Tokens |-> 0]]
    /\ ~(c = "escrow")  => wasmHashSet = FALSE /\ escrow = [e \in Escrows |-> NotDeployed]
    /\ ~(c = "flash")   => flashConfig = NoConfig /\ allowance = [a \in Accounts |-> 0]
    /\ ~(c = "royalty") => recipients = <<>>
    /\ ~(c = "gov")     => proposals = <<>> /\ voted = <<>>
    /\ ~(c = "bridge")  => /\ validator = NoValidator
                           /\ processed = {} /\ signatures = {} /\ relayed = {}
    /\ ~(c = "did")     => identityToDID = NoDocuments /\ didToIdentity = NoIdentities

\* Contract c keeps its invariant.
Sound(c) ==
    /\ c = "stream"  => StreamInv
    /\ c = "vault"   => VaultInv
    /\ c = "staking" => StakesInv
    /\ c = "escrow"  => EscrowInv
    /\ c = "flash"   => FlashInv
    /\ c = "royalty" => RoyaltyInv
    /\ c = "gov"     => GovInv
    /\ c = "bridge"  => BridgeInv
    /\ c = "did"     => DIDInv

\* The ledger runs one contract, which keeps its invariant, and none of the others'
\* storage or balances move.
LedgerInv ==
    /\ deployed \in ContractNames /\ now \in 0 .. MaxTime
    /\ Idle(deployed) /\ Sound(deployed)

\* Time never passes the bound.
LEMMA TimeBounded ==
    ASSUME now \in 0 .. MaxTime, [ContractsNext]_contractsVars
    PROVE  now' \in 0 .. MaxTime
<1>1. CloseLedger => now' \in 0 .. MaxTime
    BY LedgerAssumption DEF CloseLedger
<1>2. CloseLedger \/ now' = now
  <2>1. StreamNext => CloseLedger \/ now' = now
      BY DEF StreamNext, create_stream, stream_withdraw, cancel_stream
  <2>2. VaultNext => now' = now
      BY DEF VaultNext, vault_initialize, vault_deposit, vault_withdraw, rebalance, PlainTransfer,
             ledgerVars
  <2>3. StakingNext => CloseLedger \/ now' = now
      BY DEF StakingNext, StakingTick, stake_tokens, unstake
  <2>4. EscrowNext => now' = now
      BY DEF EscrowNext, factory_initialize, deploy_escrow, complete, refund, ledgerVars
  <2>5. FlashNext => now' = now
      BY DEF FlashNext, flash_initialize, set_fee, approve, flash_loan, ledgerVars
  <2>6. RoyaltyNext => now' = now
      BY DEF RoyaltyNext, royalty_initialize, split, ledgerVars
  <2>7. GovNext => CloseLedger \/ now' = now
      BY DEF GovNext, create_proposal, vote, ledgerVars
  <2>8. BridgeNext => now' = now
      BY DEF BridgeNext, bridge_initialize, update_validator, Sign, relay_transfer, ledgerVars
  <2>9. DIDNext => CloseLedger \/ now' = now
      BY DEF DIDNext, register_did, register_did_sponsored, Register, revoke_did, ledgerVars
  <2>10. UNCHANGED contractsVars => now' = now
      BY DEF contractsVars, streamVars, ledgerVars
  <2> QED BY <2>1, <2>2, <2>3, <2>4, <2>5, <2>6, <2>7, <2>8, <2>9, <2>10 DEF ContractsNext
<1> QED BY <1>1, <1>2

\* A step of the ledger is one of the deployed contract, and leaves the others idle.
LEMMA IdleStays ==
    ASSUME Idle(deployed), [ContractsNext]_contractsVars
    PROVE  Idle(deployed)' /\ deployed' = deployed
<1>1. ASSUME NEW c, deployed = c, Rest(c) PROVE Idle(deployed)' /\ deployed' = deployed
    BY <1>1 DEF Rest, Idle
<1>2. CASE UNCHANGED contractsVars
    BY <1>2 DEF contractsVars, streamVars, vaultVars, stakingVars, escrowVars, flashVars,
       royaltyVars, govVars, bridgeVars, didVars, Idle
<1> QED BY <1>1, <1>2 DEF ContractsNext

\* The invariant of the deployed contract is preserved.
LEMMA SoundStays ==
    ASSUME Sound(deployed), deployed' = deployed, [ContractsNext]_contractsVars
    PROVE  Sound(deployed)'
<1>1. deployed = "stream" => [StreamNext]_streamVars
    BY DEF ContractsNext, contractsVars
<1>2. deployed = "vault" => [VaultNext]_vaultVars
    BY DEF ContractsNext, contractsVars
<1>3. deployed = "staking" => [StakingNext]_stakingVars
    BY DEF ContractsNext, contractsVars
<1>4. deployed = "escrow" => [EscrowNext]_escrowVars
    BY DEF ContractsNext, contractsVars
<1>5. deployed = "flash" => [FlashNext]_flashVars
    BY DEF ContractsNext, contractsVars
<1>6. deployed = "royalty" => [RoyaltyNext]_royaltyVars
    BY DEF ContractsNext, contractsVars
<1>7. deployed = "gov" => [GovNext]_govVars
    BY DEF ContractsNext, contractsVars
<1>8. deployed = "bridge" => [BridgeNext]_bridgeVars
    BY DEF ContractsNext, contractsVars
<1>9. deployed = "did" => [DIDNext]_didVars
    BY DEF ContractsNext, contractsVars
<1> QED BY <1>1, <1>2, <1>3, <1>4, <1>5, <1>6, <1>7, <1>8, <1>9, StreamStep, VaultStep, StakesStep,
           EscrowStep, FlashStep, RoyaltyStep, GovStep, BridgeStep, DIDStep DEF Sound

\* The ledger at first.
LEMMA LedgerFirst == ContractsInit => LedgerInv
<1> SUFFICES ASSUME ContractsInit PROVE LedgerInv
    OBVIOUS
<1>1. deployed \in ContractNames /\ now \in 0 .. MaxTime
    BY LedgerAssumption DEF ContractsInit, StreamInit, LedgerInit
<1>2. Sound(deployed)
    BY StreamFirst, VaultFirst, StakesFirst, EscrowFirst, FlashFirst, RoyaltyFirst, GovFirst,
       BridgeFirst, DIDFirst DEF ContractsInit, Sound
<1>3. Idle(deployed)
    BY DEF ContractsInit, StreamInit, VaultInit, StakingInit, EscrowInit, FlashInit, RoyaltyInit,
       GovInit, BridgeInit, DIDInit, Idle, NoStakes, NoDocuments, NoIdentities
<1> QED BY <1>1, <1>2, <1>3 DEF LedgerInv

\* One step of the ledger.
LEMMA LedgerStep == LedgerInv /\ [ContractsNext]_contractsVars => LedgerInv'
<1> SUFFICES ASSUME LedgerInv, [ContractsNext]_contractsVars PROVE LedgerInv'
    OBVIOUS
<1>1. deployed' = deployed /\ Idle(deployed)'
    BY IdleStays DEF LedgerInv
<1>2. now' \in 0 .. MaxTime
    BY TimeBounded DEF LedgerInv
<1>3. Sound(deployed)'
    BY <1>1, SoundStays DEF LedgerInv
<1> QED BY <1>1, <1>2, <1>3 DEF LedgerInv

\* Only the deployed contract's addresses have other balances than at first.
LEMMA OthersUntouched ==
    ASSUME LedgerInv
    PROVE  /\ IsLedger(balance)
           /\ \A c \in ContractNames, t \in Tokens :
                c # deployed =>
                  \A z \in OwnAddresses(c) : z \in Contracts => balance[t][z] = Endowment(z)
<1>1. Untouched(balance, OwnAddresses(deployed))
    BY DEF LedgerInv, Sound, ContractNames, OwnAddresses, StreamInv, VaultInv, StakesInv,
       EscrowInv, FlashInv, RoyaltyInv, GovInv, BridgeInv, DIDInv
<1>2. \A c \in ContractNames : c # deployed => OwnAddresses(c) \cap OwnAddresses(deployed) = {}
    BY AddressAssumption DEF LedgerInv
<1> QED BY <1>1, <1>2 DEF Untouched

\* What another contract's address holds.
LEMMA HoldsItsEndowment ==
    ASSUME LedgerInv, NEW c \in ContractNames, ~(deployed = c),
           NEW z \in OwnAddresses(c), z \in Contracts
    PROVE  \A t \in Tokens : balance[t][z] = Endowment(z)
BY OthersUntouched

\* The parts of the properties follow contract by contract: from the contract's
\* invariant when it is the deployed one, and from what it starts with when it is not.

\* The streams.
LEMMA StreamPart ==
    LedgerInv => StreamTypeOK /\ StreamsSolvent /\ WithdrawnWithinSchedule
<1> SUFFICES ASSUME LedgerInv PROVE StreamTypeOK /\ StreamsSolvent /\ WithdrawnWithinSchedule
    OBVIOUS
<1>1. CASE deployed = "stream"
    BY <1>1, StreamMeans DEF LedgerInv, Sound
<1>2. CASE ~(deployed = "stream")
  <2>1. streams = <<>>
      BY <1>2 DEF LedgerInv, Idle
  <2>2. "stream" \in ContractNames /\ StreamContract \in OwnAddresses("stream")
      BY DEF ContractNames, OwnAddresses
  <2>3. \A t \in Tokens : balance[t][StreamContract] = 0
      BY <1>2, <2>2, HoldsItsEndowment, StreamAssumption DEF Endowment
  <2>4. ASSUME NEW t \in Tokens
        PROVE  Total([id \in DOMAIN streams |-> Outstanding(id)],
                     {id \in DOMAIN streams : streams[id].token = t}) = 0
    <3>1. {id \in DOMAIN streams : streams[id].token = t} = {}
        BY <2>1
    <3> QED BY <3>1, TotalNone
  <2>5. StreamsSolvent
      BY <2>3, <2>4 DEF StreamsSolvent
  <2>6. StreamTypeOK /\ WithdrawnWithinSchedule
      BY <2>1 DEF StreamTypeOK, WithdrawnWithinSchedule
  <2> QED BY <2>5, <2>6
<1> QED BY <1>1, <1>2

\* The vault.
LEMMA VaultPart ==
    LedgerInv => VaultTypeOK /\ AssetsBacked /\ SharesAddUp /\ ShareWorthOneAsset
<1> SUFFICES ASSUME LedgerInv PROVE VaultTypeOK /\ AssetsBacked /\ SharesAddUp /\ ShareWorthOneAsset
    OBVIOUS
<1>1. CASE deployed = "vault"
    BY <1>1, VaultMeans DEF LedgerInv, Sound
<1>2. CASE ~(deployed = "vault")
  <2>1. /\ vaultAdmin = NoAdmin /\ totalShares = 0 /\ totalAssets = 0
        /\ userShares = [u \in Accounts |-> 0] /\ orphaned = 0 /\ movedOut = 0
      BY <1>2 DEF LedgerInv, Idle
  <2>2. "vault" \in ContractNames /\ VaultContract \in OwnAddresses("vault")
      BY DEF ContractNames, OwnAddresses
  <2>3. \A t \in Tokens : balance[t][VaultContract] = 0
      BY <1>2, <2>2, HoldsItsEndowment, VaultAssumption DEF Endowment
  <2>4. Total(userShares, Accounts) = 0 /\ Total(Pot(balance), Tokens) = 0
      BY <2>1, <2>3, TotalZero DEF Pot
  <2>5. orphaned \in Nat /\ movedOut \in Int
      BY <2>1
  <2>6. VaultTypeOK
    <3>1. userShares \in [Accounts -> Nat] /\ vaultAdmin \in Accounts \cup {NoAdmin}
        BY <2>1
    <3>2. totalShares \in Int /\ totalAssets \in Int
        BY <2>1
    <3> QED BY <2>5, <3>1, <3>2 DEF VaultTypeOK
  <2> QED BY <2>1, <2>4, <2>6 DEF AssetsBacked, SharesAddUp, ShareWorthOneAsset, Pot
<1> QED BY <1>1, <1>2

\* The staking contract.
LEMMA StakingPart ==
    LedgerInv => StakingTypeOK /\ StakesBacked /\ CreditsWithinAccrual
<1> SUFFICES ASSUME LedgerInv PROVE StakingTypeOK /\ StakesBacked /\ CreditsWithinAccrual
    OBVIOUS
<1>1. CASE deployed = "staking"
  <2>1. StakesInv
      BY <1>1 DEF LedgerInv, Sound
  <2>2. StakeInv
      BY <2>1 DEF StakesInv
  <2> QED BY <2>1, <2>2, StakesMean, CreditsMean
<1>2. CASE ~(deployed = "staking")
  <2>1. stake = NoStakes /\ held = [u \in Accounts |-> [t \in Tokens |-> 0]] /\ now \in 0 .. MaxTime
      BY <1>2 DEF LedgerInv, Idle
  <2>2. "staking" \in ContractNames /\ StakingContract \in OwnAddresses("staking")
      BY DEF ContractNames, OwnAddresses
  <2>3. \A t \in Tokens : balance[t][StakingContract] = 0
      BY <1>2, <2>2, HoldsItsEndowment, StakingAssumption DEF Endowment
  <2>4. ASSUME NEW t \in Tokens PROVE Total(Staked(stake, t), Accounts) = 0
    <3>1. Max({0, -1}) = 0
        BY NotBelowZero
    <3>2. \A u \in Accounts : Staked(stake, t)[u] = 0
        BY <2>1, <3>1 DEF NoStakes, Staked, NoStake
    <3> QED BY <3>2, TotalZero
  <2>5. StakesBacked
      BY <2>3, <2>4 DEF StakesBacked, Staked
  <2>6. StakingTypeOK
    <3>1. NoStake \in [amount : -1 .. MaxStake, last : 0 .. MaxTime, credits : Nat]
        BY StakingAssumption, LedgerAssumption DEF NoStake
    <3>2. stake \in [Accounts -> [Tokens -> [amount : -1 .. MaxStake, last : 0 .. MaxTime,
                                             credits : Nat]]]
        BY <2>1, <3>1 DEF NoStakes
    <3>3. held \in [Accounts -> [Tokens -> Nat]]
        BY <2>1
    <3> QED BY <3>2, <3>3 DEF StakingTypeOK
  <2>7. CreditsWithinAccrual
    <3>1. \A u \in Accounts, t \in Tokens : stake[u][t].credits = 0 /\ held[u][t] = 0
        BY <2>1 DEF NoStakes, NoStake
    <3>2. 0 * SecondsPerCredit <= 0
        BY StakingAssumption
    <3> QED BY <3>1, <3>2 DEF CreditsWithinAccrual
  <2> QED BY <2>5, <2>6, <2>7
<1> QED BY <1>1, <1>2

\* The escrows.
LEMMA EscrowPart == LedgerInv => EscrowTypeOK /\ EscrowHoldsDeposit
<1> SUFFICES ASSUME LedgerInv PROVE EscrowTypeOK /\ EscrowHoldsDeposit
    OBVIOUS
<1>1. CASE deployed = "escrow"
    BY <1>1 DEF LedgerInv, Sound, EscrowInv, EscrowsFunded
<1>2. CASE ~(deployed = "escrow")
  <2>1. escrow = [e \in Escrows |-> NotDeployed]
      BY <1>2 DEF LedgerInv, Idle
  <2>2. "escrow" \in ContractNames /\ Escrows = OwnAddresses("escrow")
      BY DEF ContractNames, OwnAddresses
  <2>3. \A e \in Escrows, t \in Tokens : balance[t][e] = 0 /\ escrow[e].state = "none"
    <3> SUFFICES ASSUME NEW e \in Escrows
                 PROVE  escrow[e].state = "none" /\ \A t \in Tokens : balance[t][e] = 0
        OBVIOUS
    <3>1. \A t \in Tokens : balance[t][e] = 0
        BY <1>2, <2>2, HoldsItsEndowment, EscrowAssumption DEF Endowment
    <3> QED BY <2>1, <3>1 DEF NotDeployed
  <2>4. EscrowHoldsDeposit
      BY <2>3 DEF EscrowHoldsDeposit
  <2>5. EscrowTypeOK
    <3>1. balance \in [Tokens -> [Accounts \cup Contracts -> Int]]
        BY OthersUntouched DEF IsLedger
    <3>4. now \in Nat
        BY LedgerAssumption DEF LedgerInv
    <3>2. wasmHashSet \in BOOLEAN
        BY <1>2 DEF LedgerInv, Idle
    <3>3. escrow \in [Escrows -> EscrowConfig \cup {NotDeployed}]
        BY <2>1
    <3> QED BY <3>1, <3>2, <3>3, <3>4 DEF EscrowTypeOK
  <2> QED BY <2>4, <2>5
<1> QED BY <1>1, <1>2

\* The flash loan pool.
LEMMA FlashPart == LedgerInv => FlashTypeOK /\ PoolKeepsLiquidity
<1> SUFFICES ASSUME LedgerInv PROVE FlashTypeOK /\ PoolKeepsLiquidity
    OBVIOUS
<1>1. CASE deployed = "flash"
    BY <1>1 DEF LedgerInv, Sound, FlashInv
<1>2. CASE ~(deployed = "flash")
  <2>1. "flash" \in ContractNames /\ FlashPool \in OwnAddresses("flash")
      BY DEF ContractNames, OwnAddresses
  <2>2. \A t \in Tokens : balance[t][FlashPool] = Supply
      BY <1>2, <2>1, HoldsItsEndowment, FlashAssumption, LedgerAssumption DEF Endowment
  <2>3. FlashTypeOK
      BY <1>2 DEF LedgerInv, Idle, FlashTypeOK
  <2> QED BY <2>2, <2>3 DEF PoolKeepsLiquidity
<1> QED BY <1>1, <1>2

\* The royalty splitter.
LEMMA RoyaltyPart == LedgerInv => SplitterKeepsNothing /\ DustBelowRecipients
<1> SUFFICES ASSUME LedgerInv PROVE SplitterKeepsNothing /\ DustBelowRecipients
    OBVIOUS
<1>1. CASE deployed = "royalty"
    BY <1>1, RoyaltyMeans DEF LedgerInv, Sound
<1>2. CASE ~(deployed = "royalty")
  <2>1. "royalty" \in ContractNames /\ SplitterContract \in OwnAddresses("royalty")
      BY DEF ContractNames, OwnAddresses
  <2>2. \A t \in Tokens : balance[t][SplitterContract] = 0
      BY <1>2, <2>1, HoldsItsEndowment, RoyaltyAssumption DEF Endowment
  <2>3. recipients = <<>>
      BY <1>2 DEF LedgerInv, Idle
  <2> QED BY <2>2, <2>3 DEF SplitterKeepsNothing, DustBelowRecipients
<1> QED BY <1>1, <1>2

\* The voting contract.
LEMMA GovPart == LedgerInv => GovTypeOK /\ TallyMatchesVoters
<1> SUFFICES ASSUME LedgerInv PROVE GovTypeOK /\ TallyMatchesVoters
    OBVIOUS
<1>1. CASE deployed = "gov"
    BY <1>1 DEF LedgerInv, Sound, GovInv
<1>2. CASE ~(deployed = "gov")
  <2>1. proposals = <<>> /\ voted = <<>> /\ now \in Nat
      BY <1>2, LedgerAssumption DEF LedgerInv, Idle
  <2> QED BY <2>1 DEF GovTypeOK, TallyMatchesVoters
<1> QED BY <1>1, <1>2

\* The bridge.
LEMMA BridgePart == LedgerInv => BridgeTypeOK /\ PaidOncePerTransferId
<1> SUFFICES ASSUME LedgerInv PROVE BridgeTypeOK /\ PaidOncePerTransferId
    OBVIOUS
<1>1. CASE deployed = "bridge"
    BY <1>1 DEF LedgerInv, Sound, BridgeInv
<1>2. CASE ~(deployed = "bridge")
  <2>1. validator = NoValidator /\ processed = {} /\ signatures = {} /\ relayed = {}
      BY <1>2 DEF LedgerInv, Idle
  <2>2. "bridge" \in ContractNames /\ BridgeContract \in OwnAddresses("bridge")
      BY DEF ContractNames, OwnAddresses
  <2>3. \A t \in Tokens : balance[t][BridgeContract] = Supply
      BY <1>2, <2>2, HoldsItsEndowment, BridgeAssumption, LedgerAssumption DEF Endowment
  <2>4. ASSUME NEW t \in Tokens PROVE balance[t][BridgeContract] = Supply - SumOf(t, {})
    <3>1. PaidIn(t, {}) = {}
        BY DEF PaidIn
    <3>2. SumOf(t, {}) = 0
        BY <3>1, TotalNone DEF SumOf
    <3> QED BY <2>3, <3>2, LedgerAssumption
  <2>5. PaidOncePerTransferId
      BY <2>1, <2>4 DEF PaidOncePerTransferId, SumOf, PaidIn
  <2> QED BY <2>1, <2>5 DEF BridgeTypeOK
<1> QED BY <1>1, <1>2

\* The DID registry.
LEMMA DIDPart == LedgerInv => DIDTypeOK /\ MapsInverse
<1> SUFFICES ASSUME LedgerInv PROVE DIDTypeOK /\ MapsInverse
    OBVIOUS
<1>1. CASE deployed = "did"
    BY <1>1 DEF LedgerInv, Sound, DIDInv
<1>2. CASE ~(deployed = "did")
  <2>1. identityToDID = NoDocuments /\ didToIdentity = NoIdentities /\ now \in Nat
      BY <1>2, LedgerAssumption DEF LedgerInv, Idle
  <2> QED BY <2>1, DIDAssumption DEF DIDTypeOK, MapsInverse, NoDocuments, NoDocument,
             NoIdentities, NoIdentity
<1> QED BY <1>1, <1>2

-----------------------------------------------------------------------------
\* The one inductive invariant of the ledger with any of its contracts deployed.
THEOREM LedgerStaysSound == ContractsSpec => []LedgerInv
BY LedgerFirst, LedgerStep, PTL DEF ContractsSpec

\* The contracts' books balance, for any accounts, tokens, amounts and order of
\* calls: a contract's balance is what its open streams, its stakes or its escrow
\* deposits come to, and the vault's books account for all it holds and for all
\* that rebalances took away (ContractsSolvent).
THEOREM ContractsStaySolvent == ContractsSpec => []ContractsSolvent
<1>1. LedgerInv => ContractsSolvent
    BY StreamPart, VaultPart, StakingPart, EscrowPart, FlashPart, RoyaltyPart, GovPart, BridgePart,
       DIDPart DEF ContractsSolvent, ContractsTypeOK
<1> QED BY <1>1, LedgerStaysSound, PTL

\* Rounding favours nobody, for any amounts, schedules and shares (withdraw of
\* streaming-payments, calculate_credits, split; the vault's divisions never round,
\* and its shares add up to the total that prices them and those initialize ran over).
THEOREM EntitlementsStayExact == ContractsSpec => []EntitlementsExact
<1>1. LedgerInv => EntitlementsExact
    BY StreamPart, VaultPart, StakingPart, RoyaltyPart DEF EntitlementsExact
<1> QED BY <1>1, LedgerStaysSound, PTL

\* What may be done once is recorded once, whatever is voted on, relayed and
\* registered (vote, relay_transfer, register_did).
THEOREM RecordsStaySingle == ContractsSpec => []RecordedOnce
<1>1. LedgerInv => RecordedOnce
    BY GovPart, BridgePart, DIDPart DEF RecordedOnce
<1> QED BY <1>1, LedgerStaysSound, PTL
=============================================================================

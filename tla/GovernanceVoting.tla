-------------------------- MODULE GovernanceVoting -------------------------
(***************************************************************************)
(* The voting contract (governance-voting/src/lib.rs): one address, one    *)
(* vote per proposal, until the deadline.  The tally is kept in the        *)
(* proposal and the fact of having voted under a key of its own.           *)
(***************************************************************************)
EXTENDS SorobanLedger, Sequences

CONSTANTS Durations,       \* the durations proposals are made with
          MaxProposals     \* bound: proposals created

ASSUME GovernanceAssumption == Durations \subseteq Nat /\ MaxProposals \in Nat

VARIABLES proposals,       \* the proposal with id i is proposals[i]
          voted            \* voted[i]: the addresses with a Voted(i, _) key

govVars == <<ledgerVars, proposals, voted>>

Proposal == [deadline : Nat, for_votes : Nat, against_votes : Nat]

GovInit == LedgerInit /\ proposals = <<>> /\ voted = <<>>

create_proposal(duration) ==
    /\ Len(proposals) < MaxProposals
    /\ proposals' = Append(proposals,
         [deadline |-> now + duration, for_votes |-> 0, against_votes |-> 0])
    /\ voted' = Append(voted, {})
    /\ UNCHANGED ledgerVars

\* Mutant: the deadline is not looked at.
VotingOpenAlways(id) == TRUE

VotingOpen(id) == now <= proposals[id].deadline

NotVoted(voter, id) == voter \notin voted[id]

vote(voter, id, support) ==
    /\ VotingOpen(id)
    /\ NotVoted(voter, id)
    /\ proposals' = IF support THEN [proposals EXCEPT ![id].for_votes = @ + 1]
                    ELSE [proposals EXCEPT ![id].against_votes = @ + 1]
    /\ voted' = [voted EXCEPT ![id] = @ \cup {voter}]
    /\ UNCHANGED ledgerVars

GovNext ==
    \/ CloseLedger /\ UNCHANGED <<proposals, voted>>
    \/ \E d \in Durations : create_proposal(d)
    \/ \E v \in Accounts, id \in DOMAIN proposals, s \in BOOLEAN : vote(v, id, s)

GovSpec == GovInit /\ [][GovNext]_govVars
-----------------------------------------------------------------------------
GovTypeOK ==
    /\ now \in Nat
    /\ proposals \in Seq(Proposal)
    /\ voted \in Seq(SUBSET Accounts)
    /\ Len(voted) = Len(proposals)

\* The tally of a proposal is the number of addresses that voted on it, so no
\* address counts twice and no vote is lost or booked on another proposal
\* (vote, lines 67 to 79).
TallyMatchesVoters ==
    \A id \in DOMAIN proposals :
      proposals[id].for_votes + proposals[id].against_votes = Cardinality(voted[id])

\* Once its deadline has passed a proposal never changes, so its outcome can
\* be acted on (vote, line 63).
OutcomeFinal ==
    [][ \A id \in DOMAIN proposals :
          now > proposals[id].deadline => proposals'[id] = proposals[id] ]_govVars
=============================================================================

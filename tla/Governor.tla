------------------------------ MODULE Governor ------------------------------
(***************************************************************************)
(* Proposals of a subnet (governance/governor.rs): voting until a height,  *)
(* then a tally, then the execution of what passed.                        *)
(*                                                                         *)
(* A proposal's id is a hash of its proposer, subnet, title and height,    *)
(* here these with the first three as one name, and the same proposal      *)
(* again replaces the first with its votes.  Weights and the subnet's      *)
(* stake are what the caller says.  Left out: titles and actions, which    *)
(* decide nothing, and the index by subnet.                                *)
(***************************************************************************)
EXTENDS Common

CONSTANTS
  ProposalId,                       \* [name, at]
  NoProposal,                       \* a missing map entry
  GovernanceVoter, VoteWeights,     \* who votes, with what
  ProposerStakes, SubnetStakes,     \* what callers say
  VotingPeriod, MinProposalStake,   \* parameters of the governor
  QuorumShare, ThresholdShare,      \* quorum_bps, threshold_bps out of Whole
  Whole,
  MaxTallies                        \* bound of the exploration

ProposalStatus == {"Active", "Passed", "Rejected", "Executed", "Expired"}

Proposal ==
  [votesFor : Nat, votesAgainst : Nat, voters : SUBSET GovernanceVoter,
   status : ProposalStatus, votingEndsAt : Nat]

ASSUME GovernorTyped ==
  /\ IsFiniteSet(GovernanceVoter)
  /\ \A p \in ProposalId : p.at \in Nat
  /\ NoProposal \notin Proposal
  /\ VoteWeights \cup ProposerStakes \cup SubnetStakes \subseteq Nat
  /\ {VotingPeriod, MinProposalStake, QuorumShare, ThresholdShare, Whole} \subseteq Nat

VARIABLE proposals    \* Proposal by id

\* History, by id: the weight each voter cast, the stake of the last tally, and how often a
\* tally was passed and the proposal executed.
VARIABLES castVotes, talliedStake, timesPassed, timesExecuted

governorVars == <<proposals, castVotes, talliedStake, timesPassed, timesExecuted>>

NoVotes == [v \in GovernanceVoter |-> 0]

GovernorInit ==
  /\ proposals = [p \in ProposalId |-> NoProposal]
  /\ castVotes = [p \in ProposalId |-> NoVotes]
  /\ talliedStake = [p \in ProposalId |-> 0]
  /\ timesPassed = [p \in ProposalId |-> 0]
  /\ timesExecuted = [p \in ProposalId |-> 0]

Proposed(p) == proposals[p] # NoProposal

CreateProposal(p, stake) ==
  /\ p.at = now /\ stake >= MinProposalStake
  /\ proposals' = [proposals EXCEPT
       ![p] = [votesFor |-> 0, votesAgainst |-> 0, voters |-> {}, status |-> "Active",
               votingEndsAt |-> now + VotingPeriod]]
  /\ castVotes' = [castVotes EXCEPT ![p] = NoVotes]
  /\ UNCHANGED <<talliedStake, timesPassed, timesExecuted>>

\* The status decides nothing here; only a later tally can see the vote.
Vote(p, voter, weight, support) ==
  /\ Proposed(p) /\ now <= proposals[p].votingEndsAt
  /\ voter \notin proposals[p].voters /\ weight > 0
  /\ proposals' = [proposals EXCEPT
       ![p].votesFor = IF support THEN @ + weight ELSE @,
       ![p].votesAgainst = IF support THEN @ ELSE @ + weight,
       ![p].voters = @ \cup {voter}]
  /\ castVotes' = [castVotes EXCEPT ![p][voter] = @ + weight]
  /\ UNCHANGED <<talliedStake, timesPassed, timesExecuted>>

TotalVotes(p) == proposals[p].votesFor + proposals[p].votesAgainst

Passes(p, stake) ==
  /\ stake > 0 /\ TotalVotes(p) * Whole >= QuorumShare * stake
  /\ TotalVotes(p) > 0 /\ proposals[p].votesFor * Whole >= ThresholdShare * TotalVotes(p)

\* What a tally writes.
Record(p, stake) ==
  /\ proposals' = [proposals EXCEPT
       ![p].status = IF Passes(p, stake) THEN "Passed" ELSE "Rejected"]
  /\ talliedStake' = [talliedStake EXCEPT ![p] = stake]
  /\ timesPassed' = [timesPassed EXCEPT ![p] = IF Passes(p, stake) THEN @ + 1 ELSE @]
  /\ UNCHANGED <<castVotes, timesExecuted>>

Tally(p, stake) ==
  /\ Proposed(p) /\ now > proposals[p].votingEndsAt /\ timesPassed[p] < MaxTallies
  /\ Record(p, stake)

Execute(p) ==
  /\ Proposed(p) /\ proposals[p].status = "Passed"
  /\ proposals' = [proposals EXCEPT ![p].status = "Executed"]
  /\ timesExecuted' = [timesExecuted EXCEPT ![p] = @ + 1]
  /\ UNCHANGED <<castVotes, talliedStake, timesPassed>>

ExpireProposals ==
  LET late == {p \in ProposalId : /\ Proposed(p) /\ proposals[p].status = "Active"
                                  /\ now > proposals[p].votingEndsAt}
  IN
  /\ late # {}
  /\ proposals' = [p \in ProposalId |->
       IF p \in late THEN [proposals[p] EXCEPT !.status = "Expired"] ELSE proposals[p]]
  /\ UNCHANGED <<castVotes, talliedStake, timesPassed, timesExecuted>>

GovernorNext ==
  \/ \E p \in ProposalId :
       \/ \E stake \in ProposerStakes : CreateProposal(p, stake)
       \/ \E voter \in GovernanceVoter, weight \in VoteWeights, support \in BOOLEAN :
            Vote(p, voter, weight, support)
       \/ \E stake \in SubnetStakes : Tally(p, stake)
       \/ Execute(p)
  \/ ExpireProposals

----------------------------------------------------------------------------
(* Properties *)

\* Types of the governor's state.
GovernorTypeOK ==
  /\ proposals \in [ProposalId -> Proposal \cup {NoProposal}]
  /\ castVotes \in [ProposalId -> [GovernanceVoter -> Nat]]
  /\ {talliedStake, timesPassed, timesExecuted} \subseteq [ProposalId -> Nat]

\* What is ready to be executed, or was, has the votes for it, each voter's weight counted
\* once; votes, replacements and tallies cannot come in an order that makes it pass without
\* (governance/governor.rs:131, 175).  It is executed once for each tally that it passed, so
\* twice only if it was tallied again (governance/governor.rs:164).
ExecutedByVote ==
  \A p \in ProposalId :
    /\ timesExecuted[p] <= timesPassed[p]
    /\ Proposed(p) =>
         /\ TotalVotes(p) = SumOver(LAMBDA v : castVotes[p][v], GovernanceVoter)
         /\ proposals[p].status \in {"Passed", "Executed"} => Passes(p, talliedStake[p])
         /\ proposals[p].status = "Passed" => timesExecuted[p] < timesPassed[p]
=============================================================================

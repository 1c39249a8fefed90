---------------------------- MODULE EconomyProofs ----------------------------
(***************************************************************************)
(* Theorems about the managers that decide on tokens: proposals and locked *)
(* votes, supply, fees and stakes.                                         *)
(***************************************************************************)
EXTENDS Governor, VoteEscrow, TokenSupply, Fees, SubnetStaking, Delegations, Sums

----------------------------------------------------------------------------
(* Proposals *)

\* A tally comes after the end of the vote, so what it found cannot change any more.
TalliedAfterVote ==
  \A p \in ProposalId :
    Proposed(p) /\ proposals[p].status \in {"Passed", "Executed"} => now > proposals[p].votingEndsAt

GovernorInv == GovernorTypeOK /\ TalliedAfterVote /\ ExecutedByVote

\* What the property says of one proposal, by its parts.
ProposalInv(p) ==
  /\ timesExecuted[p] <= timesPassed[p]
  /\ Proposed(p) =>
       /\ TotalVotes(p) = SumOver(LAMBDA v : castVotes[p][v], GovernanceVoter)
       /\ proposals[p].status \in {"Passed", "Executed"} =>
            Passes(p, talliedStake[p]) /\ now > proposals[p].votingEndsAt
       /\ proposals[p].status = "Passed" => timesExecuted[p] < timesPassed[p]

LEMMA ProposalByProposal ==
  GovernorInv <=> GovernorTypeOK /\ \A p \in ProposalId : ProposalInv(p)
  BY DEF GovernorInv, TalliedAfterVote, ExecutedByVote, ProposalInv

LEMMA ProposalByProposalNext ==
  ASSUME GovernorTypeOK', \A p \in ProposalId : ProposalInv(p)'
  PROVE  GovernorInv'
  BY DEF GovernorInv, TalliedAfterVote, ExecutedByVote, ProposalInv

LEMMA ProposalFields ==
  ASSUME GovernorTypeOK, NEW p \in ProposalId, Proposed(p)
  PROVE  /\ proposals[p] \in Proposal
         /\ proposals[p].votesFor \in Nat /\ proposals[p].votesAgainst \in Nat
         /\ proposals[p].votingEndsAt \in Nat
  BY DEF GovernorTypeOK, Proposed, Proposal

\* Whether a proposal passes is a matter of its votes.
LEMMA SameVotesPass ==
  ASSUME NEW p \in ProposalId, proposals'[p].votesFor = proposals[p].votesFor,
         proposals'[p].votesAgainst = proposals[p].votesAgainst
  PROVE  /\ TotalVotes(p)' = TotalVotes(p)
         /\ \A stake : Passes(p, stake)' <=> Passes(p, stake)
  BY DEF TotalVotes, Passes

LEMMA CreateKeepsInv ==
  ASSUME now \in Nat, UNCHANGED now, GovernorInv, NEW p \in ProposalId,
         NEW stake \in ProposerStakes, CreateProposal(p, stake)
  PROVE  GovernorInv'
  <1> DEFINE new == [votesFor |-> 0, votesAgainst |-> 0, voters |-> {}, status |-> "Active",
                     votingEndsAt |-> now + VotingPeriod]
  <1>1. new \in Proposal
    BY GovernorTyped DEF Proposal, ProposalStatus
  <1>2. GovernorTypeOK /\ \A q \in ProposalId : ProposalInv(q)
    BY ProposalByProposal
  <1>3. NoVotes \in [GovernanceVoter -> Nat]
    BY DEF NoVotes
  <1>4. GovernorTypeOK'
    BY <1>1, <1>2, <1>3 DEF CreateProposal, GovernorTypeOK
  <1>5. ASSUME NEW q \in ProposalId \ {p}
        PROVE  ProposalInv(q)'
    <2>1. proposals'[q] = proposals[q] /\ castVotes'[q] = castVotes[q]
      BY <1>2 DEF CreateProposal, GovernorTypeOK
    <2> QED BY <1>2, <2>1
            DEF CreateProposal, ProposalInv, Proposed, TotalVotes, Passes, SumOver
  <1>6. ProposalInv(p)'
    <2>1. proposals'[p] = new /\ castVotes'[p] = NoVotes
      BY <1>2 DEF CreateProposal, GovernorTypeOK
    <2> DEFINE f == [v \in GovernanceVoter |-> castVotes'[p][v]]
    <2>2. DOMAIN f = GovernanceVoter /\ \A v \in GovernanceVoter : f[v] = 0
      BY <2>1 DEF NoVotes
    <2>3. SumFunction(f) = 0
      <3> HIDE DEF f
      <3> QED BY <2>2, GovernorTyped, SumZero
    <2>4. TotalVotes(p)' = 0
      BY <2>1 DEF TotalVotes
    <2>5. TotalVotes(p)' = SumFunction([v \in GovernanceVoter |-> castVotes'[p][v]])
      BY <2>3, <2>4
    <2>6. proposals'[p].status = "Active"
      BY <2>1
    <2> HIDE DEF f, new
    <2> QED BY <1>2, <2>5, <2>6 DEF CreateProposal, ProposalInv, SumOver
  <1> QED BY <1>4, <1>5, <1>6, ProposalByProposalNext

LEMMA VoteKeepsInv ==
  ASSUME now \in Nat, UNCHANGED now, GovernorInv, NEW p \in ProposalId,
         NEW voter \in GovernanceVoter, NEW weight \in VoteWeights, NEW support \in BOOLEAN,
         Vote(p, voter, weight, support)
  PROVE  GovernorInv'
  <1> DEFINE old == proposals[p]
             for == IF support THEN old.votesFor + weight ELSE old.votesFor
             against == IF support THEN old.votesAgainst ELSE old.votesAgainst + weight
             voters == old.voters \cup {voter}
             new == [old EXCEPT !.votesFor = for, !.votesAgainst = against, !.voters = voters]
             f == [v \in GovernanceVoter |-> castVotes[p][v]]
             g == [v \in GovernanceVoter |-> castVotes'[p][v]]
  <1>1. GovernorTypeOK /\ \A q \in ProposalId : ProposalInv(q)
    BY ProposalByProposal
  <1>2. /\ old \in Proposal /\ old.votesFor \in Nat /\ old.votesAgainst \in Nat
        /\ old.votingEndsAt \in Nat /\ weight \in Nat /\ now <= old.votingEndsAt
        /\ old # NoProposal
    BY <1>1, ProposalFields, GovernorTyped DEF Vote, Proposed
  <1>3. proposals' = [proposals EXCEPT ![p] = new]
    BY <1>1 DEF Vote, GovernorTypeOK
  <1>4. castVotes' = [castVotes EXCEPT ![p][voter] = @ + weight]
    BY DEF Vote
  <1>5. for \in Nat /\ against \in Nat /\ for + against = old.votesFor + old.votesAgainst + weight
    BY <1>2
  <1> HIDE DEF for, against
  <1>6. /\ new \in Proposal /\ new.votesFor = for /\ new.votesAgainst = against
        /\ new.status = old.status /\ new.votingEndsAt = old.votingEndsAt
    <2>1. voters \in SUBSET GovernanceVoter
      BY <1>2 DEF Proposal
    <2> HIDE DEF old, voters
    <2> QED BY <1>2, <1>5, <2>1 DEF Proposal
  <1> HIDE DEF new
  <1>7. /\ proposals'[p] = new
        /\ \A q \in ProposalId \ {p} : /\ proposals'[q] = proposals[q]
                                       /\ castVotes'[q] = castVotes[q]
    BY <1>1, <1>3, <1>4 DEF GovernorTypeOK
  <1>8. /\ castVotes[p] \in [GovernanceVoter -> Nat]
        /\ castVotes'[p] = [castVotes[p] EXCEPT ![voter] = castVotes[p][voter] + weight]
    BY <1>1, <1>4 DEF GovernorTypeOK
  <1>9. castVotes'[p] \in [GovernanceVoter -> Nat]
    BY <1>2, <1>8
  <1>10. GovernorTypeOK'
    <2>1. castVotes' = [castVotes EXCEPT ![p] = castVotes'[p]]
      BY <1>1, <1>4 DEF GovernorTypeOK
    <2>2. proposals' \in [ProposalId -> Proposal \cup {NoProposal}]
      BY <1>1, <1>3, <1>6 DEF GovernorTypeOK
    <2>3. castVotes' \in [ProposalId -> [GovernanceVoter -> Nat]]
      BY <1>1, <1>9, <2>1 DEF GovernorTypeOK
    <2> QED BY <1>1, <2>2, <2>3 DEF Vote, GovernorTypeOK
  <1>11. ASSUME NEW q \in ProposalId \ {p}
         PROVE  ProposalInv(q)'
    BY <1>1, <1>7 DEF Vote, ProposalInv, Proposed, TotalVotes, Passes, SumOver
  <1>12. SumFunction(g) = SumFunction(f) + weight
    <2>1. f \in [GovernanceVoter -> Nat] /\ g \in [GovernanceVoter -> Nat]
      BY <1>8, <1>9
    <2>2. /\ g[voter] = f[voter] + weight
          /\ \A v \in GovernanceVoter \ {voter} : g[v] = f[v]
      BY <1>8
    <2> HIDE DEF f, g
    <2>3. SumFunction(f) \in Nat /\ f[voter] \in Nat
      BY <2>1, GovernorTyped, SumNat
    <2>4. SumFunction(g) = SumFunction(f) - f[voter] + g[voter]
      <3>1. PICK F \in [GovernanceVoter -> Int], G \in [GovernanceVoter -> Int] : F = f /\ G = g
        BY <2>1
      <3>2. SumFunction(G) = SumFunction(F) - F[voter] + G[voter]
        BY <2>2, <3>1, GovernorTyped, SumUpdate
      <3> QED BY <3>1, <3>2
    <2> QED BY <1>2, <2>2, <2>3, <2>4
  <1>13. ProposalInv(p)'
    <2>1. TotalVotes(p) = SumFunction(f) /\ TotalVotes(p) = old.votesFor + old.votesAgainst
      BY <1>1 DEF ProposalInv, Vote, SumOver, TotalVotes
    <2>2. TotalVotes(p)' = SumFunction(g)
      <3>1. TotalVotes(p)' = for + against
        BY <1>6, <1>7 DEF TotalVotes
      <3> HIDE DEF f, g
      <3> QED BY <1>5, <1>12, <2>1, <3>1
    <2>3. ~(now > old.votingEndsAt)
      BY <1>2
    <2>4. old.status \notin {"Passed", "Executed"}
      BY <1>1, <2>3 DEF ProposalInv, Vote
    <2> QED BY <1>1, <1>6, <1>7, <2>2, <2>4 DEF Vote, ProposalInv, SumOver
  <1> QED BY <1>10, <1>11, <1>13, ProposalByProposalNext

\* What a step on p's status leaves of the proposals.
LEMMA StatusSet ==
  ASSUME GovernorTypeOK, NEW p \in ProposalId, Proposed(p), NEW status \in ProposalStatus,
         proposals' = [proposals EXCEPT ![p].status = status]
  PROVE  /\ proposals' \in [ProposalId -> Proposal \cup {NoProposal}]
         /\ \A q \in ProposalId \ {p} : proposals'[q] = proposals[q]
         /\ proposals'[p] # NoProposal /\ proposals'[p].status = status
         /\ proposals'[p].votesFor = proposals[p].votesFor
         /\ proposals'[p].votesAgainst = proposals[p].votesAgainst
         /\ proposals'[p].votingEndsAt = proposals[p].votingEndsAt
  <1> DEFINE old == proposals[p]
             new == [old EXCEPT !.status = status]
  <1>1. old \in Proposal
    BY ProposalFields
  <1>2. proposals' = [proposals EXCEPT ![p] = new]
    OBVIOUS
  <1>3. /\ new \in Proposal /\ new.status = status /\ new.votesFor = old.votesFor
        /\ new.votesAgainst = old.votesAgainst /\ new.votingEndsAt = old.votingEndsAt
    <2> HIDE DEF old
    <2> QED BY <1>1 DEF Proposal
  <1> HIDE DEF new
  <1> QED BY <1>2, <1>3, GovernorTyped DEF GovernorTypeOK

LEMMA TallyKeepsInv ==
  ASSUME now \in Nat, UNCHANGED now, GovernorInv, NEW p \in ProposalId,
         NEW stake \in SubnetStakes, Tally(p, stake)
  PROVE  GovernorInv'
  <1> DEFINE status == IF Passes(p, stake) THEN "Passed" ELSE "Rejected"
  <1>1. GovernorTypeOK /\ \A q \in ProposalId : ProposalInv(q)
    BY ProposalByProposal
  <1>2. /\ status \in ProposalStatus /\ proposals' = [proposals EXCEPT ![p].status = status]
        /\ talliedStake' = [talliedStake EXCEPT ![p] = stake]
        /\ timesPassed' = [timesPassed EXCEPT ![p] = IF Passes(p, stake) THEN @ + 1 ELSE @]
        /\ UNCHANGED <<castVotes, timesExecuted>> /\ stake \in Nat
        /\ Proposed(p) /\ now > proposals[p].votingEndsAt
    BY GovernorTyped DEF Tally, Record, ProposalStatus
  <1>3. status = "Passed" => Passes(p, stake)
    OBVIOUS
  <1>4. status # "Executed" /\ (status = "Passed" \/ status = "Rejected")
    OBVIOUS
  <1> HIDE DEF status
  <1>5. /\ proposals' \in [ProposalId -> Proposal \cup {NoProposal}]
        /\ \A q \in ProposalId \ {p} : proposals'[q] = proposals[q]
        /\ proposals'[p] # NoProposal /\ proposals'[p].status = status
        /\ proposals'[p].votesFor = proposals[p].votesFor
        /\ proposals'[p].votesAgainst = proposals[p].votesAgainst
        /\ proposals'[p].votingEndsAt = proposals[p].votingEndsAt
    BY <1>1, <1>2, StatusSet
  <1>6. /\ talliedStake'[p] = stake /\ timesPassed[p] \in Nat /\ timesExecuted[p] \in Nat
        /\ \A q \in ProposalId \ {p} : /\ talliedStake'[q] = talliedStake[q]
                                       /\ timesPassed'[q] = timesPassed[q]
    BY <1>1, <1>2 DEF GovernorTypeOK
  <1>7. PICK times \in Nat :
          /\ timesPassed'[p] = times /\ times >= timesPassed[p]
          /\ Passes(p, stake) => times = timesPassed[p] + 1
    BY <1>1, <1>2, <1>6 DEF GovernorTypeOK
  <1>8. GovernorTypeOK'
    <2>1. timesPassed' = [timesPassed EXCEPT ![p] = times]
      BY <1>1, <1>2, <1>7 DEF GovernorTypeOK
    <2>2. timesPassed' \in [ProposalId -> Nat] /\ talliedStake' \in [ProposalId -> Nat]
      BY <1>1, <1>2, <1>7, <2>1 DEF GovernorTypeOK
    <2> QED BY <1>1, <1>2, <1>5, <2>2 DEF GovernorTypeOK
  <1>9. ASSUME NEW q \in ProposalId \ {p}
        PROVE  ProposalInv(q)'
    BY <1>1, <1>2, <1>5, <1>6 DEF ProposalInv, Proposed, TotalVotes, Passes, SumOver
  <1>10. ProposalInv(p)'
    <2>1. TotalVotes(p)' = TotalVotes(p) /\ (Passes(p, stake)' <=> Passes(p, stake))
      BY <1>5, SameVotesPass
    <2>2. TotalVotes(p) = SumFunction([v \in GovernanceVoter |-> castVotes[p][v]])
      BY <1>1, <1>2 DEF ProposalInv, SumOver
    <2>3. TotalVotes(p)' = SumFunction([v \in GovernanceVoter |-> castVotes'[p][v]])
      BY <1>2, <2>1, <2>2
    <2>4. timesExecuted[p] <= timesPassed[p]
      BY <1>1 DEF ProposalInv
    <2>5. timesExecuted'[p] <= timesPassed'[p]
      BY <1>2, <1>6, <1>7, <2>4
    <2>6. Passes(p, stake) => timesExecuted'[p] < timesPassed'[p]
      BY <1>2, <1>6, <1>7, <2>4
    <2>7. Passes(p, stake) => Passes(p, talliedStake[p])'
      BY <1>5, <1>6 DEF Passes, TotalVotes
    <2> QED BY <1>2, <1>3, <1>4, <1>5, <2>3, <2>5, <2>6, <2>7 DEF ProposalInv, SumOver
  <1> QED BY <1>8, <1>9, <1>10, ProposalByProposalNext

LEMMA ExecuteKeepsInv ==
  ASSUME now \in Nat, UNCHANGED now, GovernorInv, NEW p \in ProposalId, Execute(p)
  PROVE  GovernorInv'
  <1>1. GovernorTypeOK /\ \A q \in ProposalId : ProposalInv(q)
    BY ProposalByProposal
  <1>2. /\ "Executed" \in ProposalStatus /\ Proposed(p) /\ proposals[p].status = "Passed"
        /\ proposals' = [proposals EXCEPT ![p].status = "Executed"]
        /\ timesExecuted' = [timesExecuted EXCEPT ![p] = @ + 1]
        /\ UNCHANGED <<castVotes, talliedStake, timesPassed>>
    BY DEF Execute, ProposalStatus
  <1>5. /\ proposals' \in [ProposalId -> Proposal \cup {NoProposal}]
        /\ \A q \in ProposalId \ {p} : proposals'[q] = proposals[q]
        /\ proposals'[p] # NoProposal /\ proposals'[p].status = "Executed"
        /\ proposals'[p].votesFor = proposals[p].votesFor
        /\ proposals'[p].votesAgainst = proposals[p].votesAgainst
        /\ proposals'[p].votingEndsAt = proposals[p].votingEndsAt
    BY <1>1, <1>2, StatusSet
  <1>6. PICK times \in Nat, passed \in Nat :
          timesExecuted[p] = times /\ timesPassed[p] = passed
    BY <1>1 DEF GovernorTypeOK
  <1>7. /\ timesExecuted' = [timesExecuted EXCEPT ![p] = times + 1]
        /\ timesExecuted'[p] = times + 1
        /\ \A q \in ProposalId \ {p} : timesExecuted'[q] = timesExecuted[q]
    BY <1>1, <1>2, <1>6 DEF GovernorTypeOK
  <1>8. GovernorTypeOK'
    <2>1. timesExecuted' \in [ProposalId -> Nat]
      BY <1>1, <1>7 DEF GovernorTypeOK
    <2> QED BY <1>1, <1>2, <1>5, <2>1 DEF GovernorTypeOK
  <1>9. ASSUME NEW q \in ProposalId \ {p}
        PROVE  ProposalInv(q)'
    BY <1>1, <1>2, <1>5, <1>7 DEF ProposalInv, Proposed, TotalVotes, Passes, SumOver
  <1>10. ProposalInv(p)'
    <2>1. TotalVotes(p)' = TotalVotes(p)
      BY <1>5, SameVotesPass
    <2>2. TotalVotes(p) = SumFunction([v \in GovernanceVoter |-> castVotes[p][v]])
      BY <1>1, <1>2 DEF ProposalInv, SumOver
    <2>3. TotalVotes(p)' = SumFunction([v \in GovernanceVoter |-> castVotes'[p][v]])
      BY <1>2, <2>1, <2>2
    <2>4. times + 1 <= passed
      <3>1. timesExecuted[p] < timesPassed[p]
        BY <1>1, <1>2 DEF ProposalInv
      <3> QED BY <1>6, <3>1
    <2>5. timesExecuted'[p] <= timesPassed'[p]
      BY <1>2, <1>6, <1>7, <2>4
    <2>6. Passes(p, talliedStake[p]) /\ now > proposals[p].votingEndsAt
      BY <1>1, <1>2 DEF ProposalInv
    <2>7. Passes(p, talliedStake[p])'
      BY <1>2, <1>5, <2>6 DEF Passes, TotalVotes
    <2> QED BY <1>2, <1>5, <2>3, <2>5, <2>6, <2>7 DEF ProposalInv, SumOver
  <1> QED BY <1>8, <1>9, <1>10, ProposalByProposalNext

LEMMA ExpireKeepsInv ==
  ASSUME now \in Nat, UNCHANGED now, GovernorInv, ExpireProposals
  PROVE  GovernorInv'
  <1>1. GovernorTypeOK /\ \A q \in ProposalId : ProposalInv(q)
    BY ProposalByProposal
  <1> DEFINE late == {p \in ProposalId : /\ Proposed(p) /\ proposals[p].status = "Active"
                                         /\ now > proposals[p].votingEndsAt}
             new(p) == IF p \in late THEN [proposals[p] EXCEPT !.status = "Expired"]
                       ELSE proposals[p]
  <1>2. /\ proposals' = [p \in ProposalId |-> new(p)]
        /\ UNCHANGED <<castVotes, talliedStake, timesPassed, timesExecuted>>
    BY DEF ExpireProposals
  <1>3. ASSUME NEW p \in ProposalId
        PROVE  /\ new(p) \in Proposal \cup {NoProposal}
               /\ new(p) = NoProposal <=> proposals[p] = NoProposal
               /\ new(p) # NoProposal =>
                    /\ new(p).votesFor = proposals[p].votesFor
                    /\ new(p).votesAgainst = proposals[p].votesAgainst
                    /\ new(p).votingEndsAt = proposals[p].votingEndsAt
                    /\ new(p).status \in {proposals[p].status, "Expired"}
    <2>1. CASE p \notin late
      BY <1>1, <2>1 DEF GovernorTypeOK
    <2>2. CASE p \in late
      <3> DEFINE old == proposals[p]
      <3>1. old \in Proposal
        BY <1>1, <2>2, ProposalFields
      <3>2. new(p) = [old EXCEPT !.status = "Expired"]
        BY <2>2
      <3> HIDE DEF old, new
      <3>3. /\ new(p) \in Proposal /\ new(p).votesFor = old.votesFor
            /\ new(p).votesAgainst = old.votesAgainst /\ new(p).votingEndsAt = old.votingEndsAt
            /\ new(p).status = "Expired"
        BY <3>1, <3>2 DEF Proposal, ProposalStatus
      <3> QED BY <3>1, <3>3, GovernorTyped DEF old
    <2> QED BY <2>1, <2>2
  <1> HIDE DEF new, late
  <1>4. GovernorTypeOK'
    BY <1>1, <1>2, <1>3 DEF GovernorTypeOK
  <1>5. ASSUME NEW p \in ProposalId
        PROVE  ProposalInv(p)'
    <2>1. proposals'[p] = new(p)
      BY <1>2
    <2>2. CASE proposals[p] = NoProposal
      BY <1>1, <1>2, <1>3, <2>1, <2>2 DEF ProposalInv, Proposed
    <2>3. CASE proposals[p] # NoProposal
      <3>1. TotalVotes(p)' = TotalVotes(p) /\ \A s : Passes(p, s)' <=> Passes(p, s)
        BY <1>3, <2>1, <2>3, SameVotesPass
      <3>2. TotalVotes(p) = SumFunction([v \in GovernanceVoter |-> castVotes[p][v]])
        BY <1>1, <2>3 DEF ProposalInv, Proposed, SumOver
      <3>3. TotalVotes(p)' = SumFunction([v \in GovernanceVoter |-> castVotes'[p][v]])
        BY <1>2, <3>1, <3>2
      <3>4. Passes(p, talliedStake[p])' <=> Passes(p, talliedStake[p])
        BY <1>2, <1>3, <2>1, <2>3 DEF Passes, TotalVotes
      <3> QED BY <1>1, <1>2, <1>3, <2>1, <2>3, <3>3, <3>4 DEF ProposalInv, Proposed, SumOver
    <2> QED BY <2>2, <2>3
  <1> QED BY <1>4, <1>5, ProposalByProposalNext

LEMMA GovernorInvInit == GovernorInit => GovernorInv
  BY DEF GovernorInit, GovernorInv, GovernorTypeOK, TalliedAfterVote, ExecutedByVote, NoVotes,
         Proposed

\* In no order of votes, tallies, replacements and heights is a proposal executed without the
\* votes for it, or more often than a tally passed it.
LEMMA GovernorInvStep ==
  ASSUME now \in Nat, now' \in Nat, GovernorInv,
         \/ GovernorNext /\ UNCHANGED now
         \/ UNCHANGED governorVars /\ now' >= now
  PROVE  GovernorInv'
  <1>1. CASE UNCHANGED governorVars /\ now' >= now
    <2>1. GovernorTypeOK /\ \A q \in ProposalId : ProposalInv(q)
      BY ProposalByProposal
    <2>2. UNCHANGED <<proposals, castVotes, talliedStake, timesPassed, timesExecuted>>
      BY <1>1 DEF governorVars
    <2>3. GovernorTypeOK'
      BY <2>1, <2>2 DEF GovernorTypeOK
    <2>4. ASSUME NEW p \in ProposalId
          PROVE  ProposalInv(p)'
      <3>1. Proposed(p) /\ now > proposals[p].votingEndsAt => now' > proposals[p].votingEndsAt
        BY <1>1, <2>1, ProposalFields
      <3> QED BY <2>1, <2>2, <3>1 DEF ProposalInv, Proposed, Passes, TotalVotes, SumOver
    <2> QED BY <2>3, <2>4, ProposalByProposalNext
  <1>2. CASE GovernorNext /\ UNCHANGED now
    BY <1>2, CreateKeepsInv, VoteKeepsInv, TallyKeepsInv, ExecuteKeepsInv, ExpireKeepsInv
    DEF GovernorNext
  <1> QED BY <1>1, <1>2

----------------------------------------------------------------------------
(* Locked votes *)

\* What an owner's entry counts for in the totals.
AmountAt(entry) == IF entry = NoLock THEN 0 ELSE entry.amount
PowerAt(entry) == IF entry = NoLock THEN 0 ELSE entry.votingPower

\* The power on a lock is what it had when the lock was last touched.
PowerRecorded(entry) ==
  entry # NoLock =>
    /\ entry.votingPower = VotingPower(entry.amount, Monus(entry.lockEnd, entry.lastCalculated))
    /\ entry.lastCalculated <= now

VoteEscrowInv ==
  /\ VoteEscrowTypeOK
  /\ \A o \in LockOwner : PowerRecorded(locks[o])
  /\ totalLockedIsa = SumFunction([o \in LockOwner |-> AmountAt(locks[o])])
  /\ totalVotingPower = SumFunction([o \in LockOwner |-> PowerAt(locks[o])]) + decayed

\* Less time left gives no more power.
LEMMA PowerDecays ==
  ASSUME NEW amount \in Nat, NEW less \in Nat, NEW more \in Nat, less <= more
  PROVE  /\ VotingPower(amount, less) \in Nat /\ VotingPower(amount, more) \in Nat
         /\ VotingPower(amount, less) <= VotingPower(amount, more)
  <1>1. /\ amount * less \in Nat /\ amount * more \in Nat
        /\ amount * less <= amount * more
    BY ProductGrows
  <1>2. MaxLockDuration \in Nat \ {0}
    BY VoteEscrowTyped DEF VoteEscrowTyped
  <1> QED BY <1>1, <1>2, QuotientGrows DEF VotingPower

LEMMA PowerNat ==
  ASSUME NEW amount \in Nat, NEW remaining \in Nat
  PROVE  VotingPower(amount, remaining) \in Nat
  <1>1. remaining <= remaining
    OBVIOUS
  <1> QED BY <1>1, PowerDecays

LEMMA LockFields ==
  ASSUME VoteEscrowTypeOK, NEW o \in LockOwner
  PROVE  /\ locks[o] \in VeISALock \cup {NoLock}
         /\ AmountAt(locks[o]) \in Nat /\ PowerAt(locks[o]) \in Nat
         /\ Locked(o) =>
              /\ locks[o] \in VeISALock
              /\ locks[o].amount \in Nat /\ locks[o].lockEnd \in Nat
              /\ locks[o].votingPower \in Nat /\ locks[o].lastCalculated \in Nat
              /\ AmountAt(locks[o]) = locks[o].amount
              /\ PowerAt(locks[o]) = locks[o].votingPower
  BY DEF VoteEscrowTypeOK, Locked, AmountAt, PowerAt, VeISALock

\* The totals move with the entry that does.
LEMMA EntryMoves ==
  ASSUME VoteEscrowInv, NEW o \in LockOwner, NEW entry \in VeISALock \cup {NoLock},
         locks' = [locks EXCEPT ![o] = entry], PowerRecorded(entry)',
         UNCHANGED now, NEW gone \in Nat, decayed' = decayed + gone,
         totalLockedIsa' = totalLockedIsa - AmountAt(locks[o]) + AmountAt(entry),
         totalVotingPower' = totalVotingPower - PowerAt(locks[o]) + PowerAt(entry) + gone
  PROVE  VoteEscrowInv'
  <1> DEFINE A == SumFunction([q \in LockOwner |-> AmountAt(locks[q])])
             P == SumFunction([q \in LockOwner |-> PowerAt(locks[q])])
             A1 == SumFunction([q \in LockOwner |-> AmountAt(locks'[q])])
             P1 == SumFunction([q \in LockOwner |-> PowerAt(locks'[q])])
  <1>1. /\ VoteEscrowTypeOK /\ totalLockedIsa = A /\ totalVotingPower = P + decayed
        /\ totalLockedIsa \in Nat /\ totalVotingPower \in Nat /\ decayed \in Nat
        /\ \A q \in LockOwner : PowerRecorded(locks[q])
    BY DEF VoteEscrowInv, VoteEscrowTypeOK
  <1>2. IsFiniteSet(LockOwner) /\ NoLock \notin VeISALock
    BY VoteEscrowTyped DEF VoteEscrowTyped
  <1>3. \A e \in VeISALock \cup {NoLock} : AmountAt(e) \in Nat /\ PowerAt(e) \in Nat
    BY DEF AmountAt, PowerAt, VeISALock
  <1>4. locks' \in [LockOwner -> VeISALock \cup {NoLock}] /\ locks'[o] = entry
        /\ \A q \in LockOwner \ {o} : locks'[q] = locks[q]
    BY <1>1 DEF VoteEscrowTypeOK
  <1>5. locks \in [LockOwner -> VeISALock \cup {NoLock}]
    BY <1>1 DEF VoteEscrowTypeOK
  <1>6. A \in Nat /\ P \in Nat /\ A1 \in Nat /\ P1 \in Nat
    <2>1. /\ [q \in LockOwner |-> AmountAt(locks[q])] \in [LockOwner -> Nat]
          /\ [q \in LockOwner |-> PowerAt(locks[q])] \in [LockOwner -> Nat]
          /\ [q \in LockOwner |-> AmountAt(locks'[q])] \in [LockOwner -> Nat]
          /\ [q \in LockOwner |-> PowerAt(locks'[q])] \in [LockOwner -> Nat]
      BY <1>3, <1>4, <1>5
    <2> QED BY <1>2, <2>1, SumNat
  <1>7. A1 = A - AmountAt(locks[o]) + AmountAt(entry)
    <2> DEFINE f == [q \in LockOwner |-> AmountAt(locks[q])]
               g == [q \in LockOwner |-> AmountAt(locks'[q])]
    <2>1. f \in [LockOwner -> Int] /\ g \in [LockOwner -> Int]
      BY <1>3, <1>4, <1>5
    <2>2. \A q \in LockOwner \ {o} : g[q] = f[q]
      BY <1>4
    <2>3. f[o] = AmountAt(locks[o]) /\ g[o] = AmountAt(entry)
      BY <1>4
    <2> HIDE DEF f, g
    <2>4. SumFunction(g) = SumFunction(f) - f[o] + g[o]
      BY <1>2, <2>1, <2>2, SumUpdate
    <2> QED BY <2>3, <2>4 DEF f, g
  <1>8. P1 = P - PowerAt(locks[o]) + PowerAt(entry)
    <2> DEFINE f == [q \in LockOwner |-> PowerAt(locks[q])]
               g == [q \in LockOwner |-> PowerAt(locks'[q])]
    <2>1. f \in [LockOwner -> Int] /\ g \in [LockOwner -> Int]
      BY <1>3, <1>4, <1>5
    <2>2. \A q \in LockOwner \ {o} : g[q] = f[q]
      BY <1>4
    <2>3. f[o] = PowerAt(locks[o]) /\ g[o] = PowerAt(entry)
      BY <1>4
    <2> HIDE DEF f, g
    <2>4. SumFunction(g) = SumFunction(f) - f[o] + g[o]
      BY <1>2, <2>1, <2>2, SumUpdate
    <2> QED BY <2>3, <2>4 DEF f, g
  <1> HIDE DEF A, P, A1, P1
  <1>9. AmountAt(locks[o]) \in Nat /\ PowerAt(locks[o]) \in Nat
        /\ AmountAt(entry) \in Nat /\ PowerAt(entry) \in Nat
    BY <1>3, <1>5
  <1>10. PICK a \in Nat, p \in Nat, b \in Nat, r \in Nat :
           /\ a = AmountAt(locks[o]) /\ p = PowerAt(locks[o])
           /\ b = AmountAt(entry) /\ r = PowerAt(entry)
    BY <1>9
  <1>11. totalLockedIsa' = A1
    BY <1>1, <1>7
  <1>12. totalVotingPower' = P1 + decayed'
    BY <1>1, <1>6, <1>8, <1>10
  <1>13. VoteEscrowTypeOK'
    BY <1>1, <1>4, <1>6, <1>11, <1>12 DEF VoteEscrowTypeOK
  <1>14. ASSUME NEW q \in LockOwner
         PROVE  PowerRecorded(locks[q])'
    <2>1. CASE q = o
      BY <1>4, <2>1
    <2>2. CASE q # o
      BY <1>1, <1>4, <2>2 DEF PowerRecorded
    <2> QED BY <2>1, <2>2
  <1> QED BY <1>11, <1>12, <1>13, <1>14 DEF VoteEscrowInv, A1, P1

LEMMA EntryPartOfTotals ==
  ASSUME VoteEscrowInv, NEW o \in LockOwner
  PROVE  /\ AmountAt(locks[o]) <= totalLockedIsa
         /\ PowerAt(locks[o]) <= totalVotingPower
  <1> DEFINE f == [q \in LockOwner |-> AmountAt(locks[q])]
             g == [q \in LockOwner |-> PowerAt(locks[q])]
  <1>1. IsFiniteSet(LockOwner)
    BY VoteEscrowTyped DEF VoteEscrowTyped
  <1>2. f \in [LockOwner -> Nat] /\ g \in [LockOwner -> Nat]
    BY LockFields DEF VoteEscrowInv
  <1>3. f[o] = AmountAt(locks[o]) /\ g[o] = PowerAt(locks[o])
    OBVIOUS
  <1>4. totalLockedIsa = SumFunction(f) /\ totalVotingPower = SumFunction(g) + decayed
        /\ decayed \in Nat
    BY DEF VoteEscrowInv, VoteEscrowTypeOK
  <1> HIDE DEF f, g
  <1>5. f[o] <= SumFunction(f) /\ g[o] <= SumFunction(g)
        /\ SumFunction(g) \in Nat /\ f[o] \in Nat /\ g[o] \in Nat
    BY <1>1, <1>2, SumAtLeast, SumNat
  <1> QED BY <1>3, <1>4, <1>5

LEMMA LockKeepsInv ==
  ASSUME now \in Nat, UNCHANGED now, VoteEscrowInv, NEW o \in LockOwner,
         NEW amount \in LockAmounts, NEW duration \in LockDurations, Lock(o, amount, duration)
  PROVE  VoteEscrowInv'
  <1> DEFINE power == VotingPower(amount, duration)
             entry == [amount |-> amount, lockEnd |-> now + duration, votingPower |-> power,
                       lastCalculated |-> now]
  <1>1. amount \in Nat /\ duration \in Nat /\ NoLock \notin VeISALock
    BY VoteEscrowTyped DEF VoteEscrowTyped
  <1>2. power \in Nat
    BY <1>1, PowerDecays
  <1>3. /\ locks' = [locks EXCEPT ![o] = entry] /\ locks[o] = NoLock
        /\ totalVotingPower' = totalVotingPower + power
        /\ totalLockedIsa' = totalLockedIsa + amount /\ decayed' = decayed
    BY DEF Lock, Locked
  <1>4. power = VotingPower(amount, Monus(now + duration, now))
    <2>1. Monus(now + duration, now) = duration
      BY <1>1 DEF Monus
    <2> QED BY <2>1
  <1> HIDE DEF power
  <1>5. /\ entry \in VeISALock /\ entry.votingPower = power /\ entry.amount = amount
        /\ entry.lockEnd = now + duration /\ entry.lastCalculated = now
    BY <1>1, <1>2 DEF VeISALock
  <1> HIDE DEF entry
  <1>e. PICK e : e = entry
    OBVIOUS
  <1>6. AmountAt(e) = amount /\ PowerAt(e) = power
        /\ AmountAt(locks[o]) = 0 /\ PowerAt(locks[o]) = 0
    BY <1>1, <1>3, <1>5, <1>e DEF AmountAt, PowerAt
  <1>7. PowerRecorded(e)'
    BY <1>4, <1>5, <1>e DEF PowerRecorded
  <1>8. totalVotingPower \in Nat /\ totalLockedIsa \in Nat /\ decayed \in Nat
    BY DEF VoteEscrowInv, VoteEscrowTypeOK
  <1>9. /\ totalLockedIsa' = totalLockedIsa - AmountAt(locks[o]) + AmountAt(e)
        /\ totalVotingPower' = totalVotingPower - PowerAt(locks[o]) + PowerAt(e) + 0
        /\ decayed' = decayed + 0
    BY <1>1, <1>2, <1>3, <1>6, <1>8
  <1> QED BY <1>3, <1>5, <1>7, <1>9, <1>e, EntryMoves

LEMMA ExtendKeepsInv ==
  ASSUME now \in Nat, UNCHANGED now, VoteEscrowInv, NEW o \in LockOwner,
         NEW newEnd \in Nat, ExtendLock(o, newEnd)
  PROVE  VoteEscrowInv'
  <1> DEFINE lock == locks[o]
             old == VotingPower(lock.amount, Monus(lock.lockEnd, now))
             new == VotingPower(lock.amount, Monus(newEnd, now))
             entry == [lock EXCEPT !.lockEnd = newEnd, !.votingPower = new,
                                   !.lastCalculated = now]
  <1>1. VoteEscrowTypeOK /\ Locked(o) /\ PowerRecorded(lock)
    BY DEF ExtendLock, VoteEscrowInv
  <1>2. /\ lock \in VeISALock /\ lock.amount \in Nat /\ lock.lockEnd \in Nat
        /\ lock.votingPower \in Nat /\ lock.lastCalculated \in Nat
        /\ AmountAt(lock) = lock.amount /\ PowerAt(lock) = lock.votingPower
        /\ NoLock \notin VeISALock
    BY <1>1, LockFields, VoteEscrowTyped DEF VoteEscrowTyped
  <1>3. /\ locks' = [locks EXCEPT ![o] = entry]
        /\ totalVotingPower' = Monus(totalVotingPower, old) + new
        /\ decayed' = decayed + (lock.votingPower - old)
        /\ totalLockedIsa' = totalLockedIsa
    BY DEF ExtendLock
  <1>4. old \in Nat /\ new \in Nat /\ old <= lock.votingPower
    <2>1. /\ Monus(lock.lockEnd, now) \in Nat /\ Monus(newEnd, now) \in Nat
          /\ Monus(lock.lockEnd, lock.lastCalculated) \in Nat
          /\ Monus(lock.lockEnd, now) <= Monus(lock.lockEnd, lock.lastCalculated)
      BY <1>1, <1>2 DEF Monus, PowerRecorded, Locked
    <2>2. new \in Nat
      BY <1>2, <2>1, PowerNat
    <2>3. lock.votingPower
            = VotingPower(lock.amount, Monus(lock.lockEnd, lock.lastCalculated))
      BY <1>1 DEF PowerRecorded, Locked
    <2>4. old \in Nat
            /\ old <= VotingPower(lock.amount, Monus(lock.lockEnd, lock.lastCalculated))
      BY <1>2, <2>1, PowerDecays
    <2> QED BY <2>2, <2>3, <2>4
  <1>5. AmountAt(lock) <= totalLockedIsa /\ PowerAt(lock) <= totalVotingPower
    BY EntryPartOfTotals
  <1>6. totalVotingPower \in Nat /\ totalLockedIsa \in Nat /\ decayed \in Nat
    BY <1>1 DEF VoteEscrowTypeOK
  <1>7. new = VotingPower(lock.amount, Monus(newEnd, now))
    OBVIOUS
  <1> HIDE DEF old, new, lock
  <1>8. /\ entry \in VeISALock /\ entry.votingPower = new /\ entry.amount = lock.amount
        /\ entry.lockEnd = newEnd /\ entry.lastCalculated = now
    BY <1>2, <1>4 DEF VeISALock
  <1> HIDE DEF entry
  <1>e. PICK e : e = entry
    OBVIOUS
  <1>9. AmountAt(e) = lock.amount /\ PowerAt(e) = new
    BY <1>2, <1>8, <1>e DEF AmountAt, PowerAt
  <1>10. PowerRecorded(e)'
    BY <1>7, <1>8, <1>e DEF PowerRecorded
  <1>11. PICK gone \in Nat : gone = lock.votingPower - old
    BY <1>2, <1>4
  <1>12. /\ totalLockedIsa' = totalLockedIsa - AmountAt(lock) + AmountAt(e)
         /\ totalVotingPower' = totalVotingPower - PowerAt(lock) + PowerAt(e) + gone
         /\ decayed' = decayed + gone
    BY <1>2, <1>3, <1>4, <1>5, <1>6, <1>9, <1>11 DEF Monus
  <1> QED BY <1>3, <1>8, <1>10, <1>12, <1>e, EntryMoves DEF lock

LEMMA IncreaseKeepsInv ==
  ASSUME now \in Nat, UNCHANGED now, VoteEscrowInv, NEW o \in LockOwner,
         NEW additional \in LockAmounts, IncreaseAmount(o, additional)
  PROVE  VoteEscrowInv'
  <1> DEFINE lock == locks[o]
             remaining == Monus(lock.lockEnd, lock.lastCalculated)
             old == VotingPower(lock.amount, remaining)
             sum == lock.amount + additional
             new == VotingPower(sum, remaining)
             entry == [lock EXCEPT !.amount = sum, !.votingPower = new]
  <1>1. VoteEscrowTypeOK /\ Locked(o) /\ PowerRecorded(lock) /\ additional \in Nat
    BY VoteEscrowTyped DEF IncreaseAmount, VoteEscrowInv, VoteEscrowTyped
  <1>2. /\ lock \in VeISALock /\ lock.amount \in Nat /\ lock.lockEnd \in Nat
        /\ lock.votingPower \in Nat /\ lock.lastCalculated \in Nat
        /\ AmountAt(lock) = lock.amount /\ PowerAt(lock) = lock.votingPower
        /\ NoLock \notin VeISALock
    BY <1>1, LockFields, VoteEscrowTyped DEF VoteEscrowTyped
  <1>3. /\ locks' = [locks EXCEPT ![o] = entry]
        /\ totalVotingPower' = Monus(totalVotingPower, old) + new
        /\ totalLockedIsa' = Monus(totalLockedIsa, lock.amount) + lock.amount + additional
        /\ decayed' = decayed
    BY DEF IncreaseAmount
  <1>4. remaining \in Nat /\ sum \in Nat /\ new \in Nat /\ old = lock.votingPower
        /\ lock.lastCalculated <= now
    <2>1. remaining \in Nat /\ sum \in Nat
      BY <1>1, <1>2 DEF Monus
    <2>2. new \in Nat
      BY <2>1, PowerNat
    <2> QED BY <1>1, <2>1, <2>2 DEF PowerRecorded, Locked
  <1>5. AmountAt(lock) <= totalLockedIsa /\ PowerAt(lock) <= totalVotingPower
    BY EntryPartOfTotals
  <1>6. totalVotingPower \in Nat /\ totalLockedIsa \in Nat /\ decayed \in Nat
    BY <1>1 DEF VoteEscrowTypeOK
  <1>7. sum = lock.amount + additional
        /\ new = VotingPower(sum, Monus(lock.lockEnd, lock.lastCalculated))
    OBVIOUS
  <1> HIDE DEF old, new, lock, remaining, sum
  <1>8. /\ entry \in VeISALock /\ entry.votingPower = new /\ entry.amount = sum
        /\ entry.lockEnd = lock.lockEnd /\ entry.lastCalculated = lock.lastCalculated
    BY <1>2, <1>4 DEF VeISALock
  <1> HIDE DEF entry
  <1>e. PICK e : e = entry
    OBVIOUS
  <1>9. AmountAt(e) = sum /\ PowerAt(e) = new
    BY <1>2, <1>8, <1>e DEF AmountAt, PowerAt
  <1>10. PowerRecorded(e)'
    BY <1>4, <1>7, <1>8, <1>e DEF PowerRecorded
  <1>11. /\ totalLockedIsa' = totalLockedIsa - AmountAt(lock) + AmountAt(e)
         /\ totalVotingPower' = totalVotingPower - PowerAt(lock) + PowerAt(e) + 0
         /\ decayed' = decayed + 0
    BY <1>1, <1>2, <1>3, <1>4, <1>5, <1>6, <1>7, <1>9 DEF Monus
  <1> QED BY <1>3, <1>8, <1>10, <1>11, <1>e, EntryMoves DEF lock

LEMMA WithdrawLockKeepsInv ==
  ASSUME now \in Nat, UNCHANGED now, VoteEscrowInv, NEW o \in LockOwner, WithdrawLock(o)
  PROVE  VoteEscrowInv'
  <1> DEFINE lock == locks[o]
  <1>1. VoteEscrowTypeOK /\ Locked(o)
    BY DEF WithdrawLock, VoteEscrowInv
  <1>2. /\ lock.amount \in Nat /\ lock.votingPower \in Nat
        /\ AmountAt(lock) = lock.amount /\ PowerAt(lock) = lock.votingPower
    BY <1>1, LockFields
  <1>3. /\ locks' = [locks EXCEPT ![o] = NoLock] /\ decayed' = decayed
        /\ totalVotingPower' = Monus(totalVotingPower, lock.votingPower)
        /\ totalLockedIsa' = Monus(totalLockedIsa, lock.amount)
    BY DEF WithdrawLock
  <1>4. AmountAt(lock) <= totalLockedIsa /\ PowerAt(lock) <= totalVotingPower
    BY EntryPartOfTotals
  <1>5. totalVotingPower \in Nat /\ totalLockedIsa \in Nat /\ decayed \in Nat
    BY <1>1 DEF VoteEscrowTypeOK
  <1>6. AmountAt(NoLock) = 0 /\ PowerAt(NoLock) = 0 /\ PowerRecorded(NoLock)'
    BY DEF AmountAt, PowerAt, PowerRecorded
  <1> HIDE DEF lock
  <1>7. /\ totalLockedIsa' = totalLockedIsa - AmountAt(lock) + AmountAt(NoLock)
        /\ totalVotingPower' = totalVotingPower - PowerAt(lock) + PowerAt(NoLock) + 0
        /\ decayed' = decayed + 0
    BY <1>2, <1>3, <1>4, <1>5, <1>6 DEF Monus
  <1> QED BY <1>3, <1>6, <1>7, EntryMoves DEF lock

LEMMA VoteEscrowInvInit == VoteEscrowInit => VoteEscrowInv
  <1> SUFFICES ASSUME VoteEscrowInit PROVE VoteEscrowInv
    OBVIOUS
  <1>1. VoteEscrowTypeOK /\ decayed = 0 /\ totalLockedIsa = 0 /\ totalVotingPower = 0
    BY DEF VoteEscrowInit, VoteEscrowTypeOK
  <1>2. \A o \in LockOwner : locks[o] = NoLock
    BY DEF VoteEscrowInit
  <1>3. \A o \in LockOwner :
          PowerRecorded(locks[o]) /\ AmountAt(locks[o]) = 0 /\ PowerAt(locks[o]) = 0
    BY <1>2 DEF PowerRecorded, AmountAt, PowerAt
  <1>4. IsFiniteSet(LockOwner)
    BY VoteEscrowTyped DEF VoteEscrowTyped
  <1>5. SumFunction([o \in LockOwner |-> AmountAt(locks[o])]) = 0
    BY <1>3, <1>4, SumZero
  <1>6. SumFunction([o \in LockOwner |-> PowerAt(locks[o])]) = 0
    BY <1>3, <1>4, SumZero
  <1> QED BY <1>1, <1>3, <1>5, <1>6 DEF VoteEscrowInv

\* The height moves on, and what is recorded stays what it was.
LEMMA VoteEscrowInvStep ==
  ASSUME now \in Nat, now' \in Nat, VoteEscrowInv,
         \/ VoteEscrowNext /\ UNCHANGED now
         \/ UNCHANGED voteEscrowVars /\ now' >= now
  PROVE  VoteEscrowInv'
  <1>1. CASE UNCHANGED voteEscrowVars /\ now' >= now
    <2>1. UNCHANGED <<locks, totalLockedIsa, totalVotingPower, decayed>>
      BY <1>1 DEF voteEscrowVars
    <2>2. VoteEscrowTypeOK'
      BY <2>1 DEF VoteEscrowInv, VoteEscrowTypeOK
    <2>3. ASSUME NEW o \in LockOwner
          PROVE  PowerRecorded(locks[o])'
      BY <1>1, <2>1, LockFields DEF PowerRecorded, VoteEscrowInv, Locked
    <2> QED BY <2>1, <2>2, <2>3 DEF VoteEscrowInv
  <1>2. CASE VoteEscrowNext /\ UNCHANGED now
    <2>1. PICK o \in LockOwner :
            \/ \E amount \in LockAmounts :
                 \/ IncreaseAmount(o, amount)
                 \/ \E duration \in LockDurations : Lock(o, amount, duration)
            \/ \E newEnd \in 0 .. MaxNow + MaxLockDuration : ExtendLock(o, newEnd)
            \/ WithdrawLock(o)
      BY <1>2 DEF VoteEscrowNext
    <2>2. ASSUME NEW newEnd \in 0 .. MaxNow + MaxLockDuration, ExtendLock(o, newEnd)
          PROVE  VoteEscrowInv'
      BY <1>2, <2>2, ExtendKeepsInv
    <2> QED BY <1>2, <2>1, <2>2, LockKeepsInv, IncreaseKeepsInv, WithdrawLockKeepsInv
  <1> QED BY <1>1, <1>2

\* No lock is worth more now than when it was last touched, so no sum of them is.
LEMMA VoteEscrowInvImplies ==
  ASSUME now \in Nat, VoteEscrowInv
  PROVE  TotalCoversPower
  <1> DEFINE owners == {o \in LockOwner : Locked(o)}
             amountOf == [o \in LockOwner |-> AmountAt(locks[o])]
             powerOf == [o \in LockOwner |-> PowerAt(locks[o])]
             amounts == [o \in owners |-> locks[o].amount]
             powers == [o \in owners |-> locks[o].votingPower]
             current == [o \in owners |-> PowerNow(o)]
  <1>1. IsFiniteSet(LockOwner) /\ owners \in SUBSET LockOwner
    BY VoteEscrowTyped DEF VoteEscrowTyped
  <1>2. IsFiniteSet(owners)
    BY <1>1, FS_Subset
  <1>3. /\ amountOf \in [LockOwner -> Int] /\ powerOf \in [LockOwner -> Int]
        /\ amounts \in [owners -> Int] /\ powers \in [owners -> Nat]
        /\ \A o \in owners : amountOf[o] = amounts[o] /\ powerOf[o] = powers[o]
        /\ \A o \in LockOwner \ owners : amountOf[o] = 0 /\ powerOf[o] = 0
    BY LockFields DEF VoteEscrowInv, Locked, AmountAt, PowerAt
  <1>4. ASSUME NEW o \in owners
        PROVE  current[o] \in Nat /\ current[o] <= powers[o]
    <2>1. /\ Locked(o) /\ locks[o].amount \in Nat /\ locks[o].lockEnd \in Nat
          /\ locks[o].lastCalculated \in Nat /\ PowerRecorded(locks[o])
      BY LockFields DEF VoteEscrowInv
    <2>2. /\ Monus(locks[o].lockEnd, now) \in Nat
          /\ Monus(locks[o].lockEnd, locks[o].lastCalculated) \in Nat
          /\ Monus(locks[o].lockEnd, now)
               <= Monus(locks[o].lockEnd, locks[o].lastCalculated)
      BY <2>1 DEF PowerRecorded, Locked, Monus
    <2>3. powers[o]
            = VotingPower(locks[o].amount, Monus(locks[o].lockEnd, locks[o].lastCalculated))
      BY <2>1 DEF PowerRecorded, Locked
    <2>4. current[o] = VotingPower(locks[o].amount, Monus(locks[o].lockEnd, now))
      BY <2>1 DEF PowerNow
    <2> HIDE DEF current, powers
    <2>5. /\ VotingPower(locks[o].amount, Monus(locks[o].lockEnd, now)) \in Nat
          /\ VotingPower(locks[o].amount, Monus(locks[o].lockEnd, now))
               <= VotingPower(locks[o].amount,
                              Monus(locks[o].lockEnd, locks[o].lastCalculated))
      BY <2>1, <2>2, PowerDecays
    <2> QED BY <2>3, <2>4, <2>5
  <1>5. /\ totalLockedIsa = SumFunction(amountOf)
        /\ totalVotingPower = SumFunction(powerOf) + decayed
        /\ decayed \in Nat
    BY DEF VoteEscrowInv, VoteEscrowTypeOK
  <1>6. /\ SumOver(LAMBDA o : locks[o].amount, owners) = SumFunction(amounts)
        /\ SumOver(LAMBDA o : locks[o].votingPower, owners) = SumFunction(powers)
        /\ SumOver(PowerNow, owners) = SumFunction(current)
    BY DEF SumOver
  <1>7. current \in [owners -> Nat]
    BY <1>4
  <1> HIDE DEF amountOf, powerOf, amounts, powers, current, owners
  <1>8. SumFunction(amountOf) = SumFunction(amounts)
    BY <1>1, <1>3, SumOfPart
  <1>9. SumFunction(powerOf) = SumFunction(powers)
    BY <1>1, <1>3, SumOfPart
  <1>10. SumFunction(current) <= SumFunction(powers)
    BY <1>2, <1>3, <1>4, <1>7, SumMonotone
  <1>11. SumFunction(current) \in Nat /\ SumFunction(powers) \in Nat
    BY <1>2, <1>3, <1>7, SumNat
  <1>12. totalVotingPower >= SumFunction(current)
    BY <1>5, <1>9, <1>10, <1>11
  <1> QED BY <1>5, <1>6, <1>8, <1>9, <1>12 DEF TotalCoversPower, owners

----------------------------------------------------------------------------
(* Supply *)

\* Nothing is scheduled that there is not, unless the sum of it leaves its width, and what has
\* vested is part of a schedule.
VestingInv ==
  /\ schedules \in [Beneficiary -> VestingSchedules \cup {NoSchedule}]
  /\ released \in [Beneficiary -> Nat]
  /\ \A b \in Beneficiary :
       IF b \in Scheduled THEN released[b] <= Vested(schedules[b], now) ELSE released[b] = 0
  /\ Allocated < SupplyModulus => Allocated <= InitialSupply

SupplyInv ==
  /\ totalSupply \in Nat /\ totalMinted \in Nat /\ totalBurned \in Nat /\ burnedByFailure \in Nat
  /\ totalSupply + totalBurned + burnedByFailure = InitialSupply + totalMinted
  /\ VestingInv

LEMMA SmallerGrows ==
  ASSUME NEW k \in Nat, NEW n \in Nat, NEW m \in Nat, n <= m
  PROVE  /\ Smaller(k, n) \in Nat /\ Smaller(k, m) \in Nat
         /\ Smaller(k, n) <= Smaller(k, m) /\ Smaller(k, m) <= m
  BY DEF Smaller

LEMMA StartOfVesting ==
  ASSUME NEW s, s.start \in Nat, s.cliff \in Nat
  PROVE  VestingStart(s) \in Nat /\ VestingStart(s) >= s.cliff /\ VestingStart(s) >= s.start
  <1> DEFINE S == {s.start, s.cliff}
             m == IF s.start >= s.cliff THEN s.start ELSE s.cliff
  <1>1. m \in S /\ \A x \in S : m >= x
    OBVIOUS
  <1>2. Max(S) \in S /\ \A x \in S : Max(S) >= x
    BY <1>1 DEF Max
  <1> QED BY <1>2 DEF VestingStart

\* What has vested is part of what was scheduled, and never becomes less.
LEMMA VestedGrows ==
  ASSUME NEW s \in VestingSchedules, NEW h \in Nat, NEW k \in Nat, h <= k
  PROVE  /\ Vested(s, h) \in Nat /\ Vested(s, k) \in Nat
         /\ Vested(s, h) <= Vested(s, k) /\ Vested(s, k) <= s.total
  <1> DEFINE from == VestingStart(s)
             most == SupplyModulus - 1
             part1(n) == Smaller(most, s.total * Monus(n, from)) \div (s.end - from)
  <1>1. /\ s.total \in Nat /\ s.start \in Nat /\ s.cliff \in Nat /\ s.end \in Nat
        /\ most \in Nat
    BY SupplyTyped DEF SupplyTyped
  <1>2. from \in Nat
    BY <1>1, StartOfVesting
  <1> HIDE DEF from, most
  <1>3. ASSUME NEW n \in Nat, NEW m \in Nat, n <= m, s.end > from
        PROVE  /\ part1(n) \in Nat /\ part1(m) \in Nat /\ part1(n) <= part1(m)
               /\ m <= s.end => part1(m) <= s.total
    <2> DEFINE d == s.end - from
               x == Monus(n, from)
               y == Monus(m, from)
    <2>1. d \in Nat \ {0} /\ x \in Nat /\ y \in Nat /\ x <= y /\ (m <= s.end => y <= d)
      BY <1>1, <1>2, <1>3 DEF Monus
    <2> HIDE DEF d, x, y
    <2>2. /\ s.total * x \in Nat /\ s.total * y \in Nat /\ s.total * x <= s.total * y
      BY <1>1, <2>1, ProductGrows
    <2> DEFINE u == Smaller(most, s.total * x)
               v == Smaller(most, s.total * y)
    <2>3. u \in Nat /\ v \in Nat /\ u <= v /\ v <= s.total * y
      BY <1>1, <2>2, SmallerGrows
    <2> HIDE DEF u, v
    <2>4. u \div d \in Nat /\ v \div d \in Nat /\ u \div d <= v \div d
      BY <2>1, <2>3, QuotientGrows
    <2>5. m <= s.end => v \div d <= s.total
      <3> SUFFICES ASSUME y <= d PROVE v \div d <= s.total
        BY <2>1
      <3>1. s.total * y <= s.total * d /\ s.total * d \in Nat
        BY <1>1, <2>1, ProductGrows
      <3>2. v <= s.total * d
        <4>1. PICK i \in Nat, k1 \in Nat : i = s.total * y /\ k1 = s.total * d
          BY <2>2, <3>1
        <4>2. v <= i /\ i <= k1
          BY <2>3, <3>1, <4>1
        <4>3. v <= k1
          BY <2>3, <4>2
        <4> QED BY <4>1, <4>3
      <3>3. v \div d <= (s.total * d) \div d
        BY <2>1, <2>3, <3>1, <3>2, QuotientGrows
      <3>4. (d * s.total) \div (d * 1) = s.total \div 1 /\ s.total \div 1 = s.total
        BY <1>1, <2>1, QuotientCancels
      <3>5. d * s.total = s.total * d /\ d * 1 = d
        BY <1>1, <2>1
      <3> QED BY <3>3, <3>4, <3>5
    <2> QED BY <2>4, <2>5 DEF d, x, y, u, v
  <1>4. ASSUME NEW n \in Nat
        PROVE  Vested(s, n) \in Nat /\ Vested(s, n) <= s.total
    <2>1. CASE n < s.cliff \/ n >= s.end \/ s.end <= from
      BY <1>1, <2>1 DEF Vested, from
    <2>2. CASE ~(n < s.cliff \/ n >= s.end \/ s.end <= from)
      <3>1. Vested(s, n) = part1(n)
        BY <2>2 DEF Vested, from, most
      <3>2. n <= n /\ n <= s.end /\ s.end > from
        BY <1>1, <1>2, <2>2
      <3> QED BY <1>3, <3>1, <3>2
    <2> QED BY <2>1, <2>2
  <1>5. Vested(s, h) <= Vested(s, k)
    <2>1. CASE k >= s.end \/ s.end <= from
      <3>1. Vested(s, k) = s.total \/ Vested(s, h) = 0
        BY <1>1, <2>1 DEF Vested, from
      <3> QED BY <1>4, <3>1
    <2>2. CASE h < s.cliff
      BY <1>4, <2>2 DEF Vested
    <2>3. CASE ~(k >= s.end \/ s.end <= from) /\ ~(h < s.cliff)
      <3>1. Vested(s, k) = part1(k) /\ Vested(s, h) = part1(h) /\ s.end > from
        BY <1>1, <1>2, <2>3 DEF Vested, from, most
      <3> QED BY <1>3, <3>1
    <2> QED BY <2>1, <2>2, <2>3
  <1> QED BY <1>4, <1>5

LEMMA StartKeepsVesting ==
  ASSUME now \in Nat, UNCHANGED now, VestingInv,
         NEW config \in [Beneficiary -> VestingSchedules \cup {NoSchedule}], StartVesting(config)
  PROVE  VestingInv'
  <1>1. /\ schedules' = config /\ released' = released /\ Scheduled = {}
        /\ released \in [Beneficiary -> Nat] /\ Allocated' % SupplyModulus <= InitialSupply
        /\ \A b \in Beneficiary : released[b] = 0
    BY DEF VestingInv, StartVesting
  <1>2. /\ IsFiniteSet(Beneficiary) /\ NoSchedule \notin VestingSchedules
        /\ \A x \in VestingSchedules : x.total \in Nat
        /\ SupplyModulus \in Nat \ {0} /\ InitialSupply \in Nat
    BY SupplyTyped DEF SupplyTyped
  <1>3. Scheduled' \in SUBSET Beneficiary /\ \A b \in Scheduled' : config[b] \in VestingSchedules
    BY <1>1 DEF Scheduled
  <1> DEFINE f == [b \in Scheduled' |-> schedules'[b].total]
  <1>4. Allocated' = SumFunction(f)
    BY DEF Allocated, SumOver
  <1>5. SumFunction(f) \in Nat
    <2>1. IsFiniteSet(Scheduled') /\ f \in [Scheduled' -> Nat]
      BY <1>1, <1>2, <1>3, FS_Subset
    <2> HIDE DEF f
    <2> QED BY <2>1, SumNat
  <1>6. Allocated' < SupplyModulus => Allocated' <= InitialSupply
    <2>1. PICK n \in Nat : n = Allocated'
      BY <1>4, <1>5
    <2>2. n < SupplyModulus => n % SupplyModulus = n
      BY <1>2, ModSmall
    <2> QED BY <1>1, <2>1, <2>2
  <1>7. ASSUME NEW b \in Beneficiary
        PROVE  IF b \in Scheduled' THEN released'[b] <= Vested(schedules'[b], now')
               ELSE released'[b] = 0
    <2>1. CASE b \in Scheduled'
      <3>1. Vested(config[b], now) \in Nat
        <4>1. now <= now /\ config[b] \in VestingSchedules
          BY <1>3, <2>1
        <4> QED BY <4>1, VestedGrows
      <3>2. Vested(schedules'[b], now') = Vested(config[b], now)
        BY <1>1
      <3> QED BY <1>1, <2>1, <3>1, <3>2
    <2>2. CASE b \notin Scheduled'
      BY <1>1, <2>2
    <2> QED BY <2>1, <2>2
  <1> QED BY <1>1, <1>6, <1>7 DEF VestingInv

LEMMA ReleaseKeepsVesting ==
  ASSUME now \in Nat, UNCHANGED now, VestingInv, NEW b \in Beneficiary, Release(b)
  PROVE  VestingInv'
  <1>1. /\ schedules \in [Beneficiary -> VestingSchedules \cup {NoSchedule}]
        /\ released \in [Beneficiary -> Nat] /\ b \in Scheduled /\ schedules' = schedules
        /\ released' = [released EXCEPT ![b] = @ + Releasable(b, now)]
    BY DEF VestingInv, Release
  <1>2. schedules[b] \in VestingSchedules /\ released[b] <= Vested(schedules[b], now)
    BY <1>1 DEF Scheduled, VestingInv
  <1>3. Vested(schedules[b], now) \in Nat
    <2>1. now <= now
      OBVIOUS
    <2> QED BY <1>2, <2>1, VestedGrows
  <1>4. /\ Releasable(b, now) \in Nat
        /\ released[b] + Releasable(b, now) = Vested(schedules[b], now)
    BY <1>1, <1>2, <1>3 DEF Releasable, Monus
  <1>5. /\ released' \in [Beneficiary -> Nat]
        /\ released'[b] = Vested(schedules[b], now)
        /\ \A c \in Beneficiary \ {b} : released'[c] = released[c]
    BY <1>1, <1>3, <1>4
  <1>6. ASSUME NEW c \in Beneficiary
        PROVE  IF c \in Scheduled' THEN released'[c] <= Vested(schedules'[c], now')
               ELSE released'[c] = 0
    <2>1. Scheduled' = Scheduled /\ Vested(schedules'[c], now') = Vested(schedules[c], now)
      BY <1>1 DEF Scheduled
    <2>2. CASE c = b
      BY <1>1, <1>3, <1>5, <2>1, <2>2
    <2>3. CASE c # b
      BY <1>5, <2>1, <2>3 DEF VestingInv
    <2> QED BY <2>2, <2>3
  <1>7. Allocated' = Allocated
    BY <1>1 DEF Allocated, SumOver, Scheduled
  <1> QED BY <1>1, <1>5, <1>6, <1>7 DEF VestingInv

\* The height moves on, and no less has vested.
LEMMA TimeKeepsVesting ==
  ASSUME now \in Nat, now' \in Nat, now' >= now, VestingInv, UNCHANGED vestingVars
  PROVE  VestingInv'
  <1>1. /\ schedules \in [Beneficiary -> VestingSchedules \cup {NoSchedule}]
        /\ released \in [Beneficiary -> Nat] /\ schedules' = schedules /\ released' = released
    BY DEF VestingInv, vestingVars
  <1>2. ASSUME NEW c \in Beneficiary
        PROVE  IF c \in Scheduled' THEN released'[c] <= Vested(schedules'[c], now')
               ELSE released'[c] = 0
    <2>1. Scheduled' = Scheduled
      BY <1>1 DEF Scheduled
    <2>2. CASE c \in Scheduled
      <3>1. schedules[c] \in VestingSchedules /\ released[c] <= Vested(schedules[c], now)
        BY <1>1, <2>2 DEF Scheduled, VestingInv
      <3>2. /\ Vested(schedules[c], now) \in Nat /\ Vested(schedules[c], now') \in Nat
            /\ Vested(schedules[c], now) <= Vested(schedules[c], now')
        BY <3>1, VestedGrows
      <3>3. released[c] \in Nat
        BY <1>1
      <3>4. released[c] <= Vested(schedules[c], now')
        BY <3>1, <3>2, <3>3
      <3>5. released'[c] = released[c] /\ Vested(schedules'[c], now') = Vested(schedules[c], now')
        BY <1>1
      <3> QED BY <2>1, <2>2, <3>4, <3>5
    <2>3. CASE c \notin Scheduled
      BY <1>1, <2>1, <2>3 DEF VestingInv
    <2> QED BY <2>2, <2>3
  <1>3. Allocated' = Allocated
    BY <1>1 DEF Allocated, SumOver, Scheduled
  <1> QED BY <1>1, <1>2, <1>3 DEF VestingInv

\* What callers mint and burn, whether or not a burn's last check fails.
LEMMA TokenKeepsSupply ==
  ASSUME SupplyInv, TokenNext
  PROVE  /\ totalSupply' \in Nat /\ totalMinted' \in Nat
         /\ totalBurned' \in Nat /\ burnedByFailure' \in Nat
         /\ totalSupply' + totalBurned' + burnedByFailure' = InitialSupply + totalMinted'
  <1>1. /\ totalSupply \in Nat /\ totalMinted \in Nat /\ totalBurned \in Nat
        /\ burnedByFailure \in Nat /\ InitialSupply \in Nat /\ TokenAmounts \subseteq Nat
        /\ totalSupply + totalBurned + burnedByFailure = InitialSupply + totalMinted
    BY SupplyTyped DEF SupplyInv, SupplyTyped
  <1>2. ASSUME NEW n \in TokenAmounts, NEW a, Mint(n, a) \/ Burn(n, a)
        PROVE  /\ totalSupply' \in Nat /\ totalMinted' \in Nat
               /\ totalBurned' \in Nat /\ burnedByFailure' \in Nat
               /\ totalSupply' + totalBurned' + burnedByFailure' = InitialSupply + totalMinted'
    <2>1. n \in Nat
      BY <1>1
    <2>2. \/ /\ totalSupply' = totalSupply + n /\ totalMinted' = totalMinted + n
             /\ totalBurned' = totalBurned /\ burnedByFailure' = burnedByFailure
          \/ /\ totalSupply' = totalSupply - n /\ totalBurned' = totalBurned + n
             /\ totalSupply >= n
             /\ totalMinted' = totalMinted /\ burnedByFailure' = burnedByFailure
          \/ /\ totalSupply' = totalSupply - n /\ burnedByFailure' = burnedByFailure + n
             /\ totalSupply >= n
             /\ totalMinted' = totalMinted /\ totalBurned' = totalBurned
      BY <1>2 DEF Mint, Burn
    <2> QED BY <1>1, <2>1, <2>2
  <1>3. ASSUME UNCHANGED <<totalSupply, totalMinted, totalBurned, burnedByFailure>>
        PROVE  /\ totalSupply' \in Nat /\ totalMinted' \in Nat
               /\ totalBurned' \in Nat /\ burnedByFailure' \in Nat
               /\ totalSupply' + totalBurned' + burnedByFailure' = InitialSupply + totalMinted'
    BY <1>1, <1>3
  <1> QED BY <1>2, <1>3
          DEF TokenNext, AuthorizeMinter, RevokeMinter, AuthorizeBurner, RevokeBurner

LEMMA SupplyInvInit == now \in Nat /\ SupplyInit => SupplyInv
  <1> SUFFICES ASSUME now \in Nat, SupplyInit PROVE SupplyInv
    OBVIOUS
  <1>1. InitialSupply \in Nat /\ IsFiniteSet(Beneficiary)
    BY SupplyTyped DEF SupplyTyped
  <1>2. Scheduled = {}
    BY DEF SupplyInit, Scheduled
  <1> DEFINE f == [b \in Scheduled |-> schedules[b].total]
  <1>3. DOMAIN f = {} /\ IsFiniteSet({})
    BY <1>2, FS_EmptySet
  <1>4. Allocated = 0
    <2>1. Allocated = SumFunction(f)
      BY DEF Allocated, SumOver
    <2> HIDE DEF f
    <2>2. SumFunction(f) = 0
      BY <1>3, SumZero
    <2> QED BY <2>1, <2>2
  <1>5. VestingInv
    BY <1>1, <1>2, <1>4 DEF SupplyInit, VestingInv
  <1> QED BY <1>1, <1>5 DEF SupplyInit, SupplyInv

LEMMA SupplyInvStep ==
  ASSUME now \in Nat, now' \in Nat, SupplyInv,
         \/ (TokenNext \/ UNCHANGED tokenVars) /\ (VestingNext \/ UNCHANGED vestingVars)
              /\ UNCHANGED now
         \/ UNCHANGED supplyVars /\ now' >= now
  PROVE  SupplyInv'
  <1>1. VestingInv'
    <2>1. CASE VestingNext /\ UNCHANGED now
      BY <2>1, StartKeepsVesting, ReleaseKeepsVesting DEF VestingNext, SupplyInv
    <2>2. CASE UNCHANGED vestingVars /\ now' >= now
      BY <2>2, TimeKeepsVesting DEF SupplyInv
    <2>3. UNCHANGED now => now' >= now
      OBVIOUS
    <2> QED BY <2>1, <2>2, <2>3 DEF supplyVars
  <1>2. CASE TokenNext
    BY <1>1, <1>2, TokenKeepsSupply DEF SupplyInv
  <1>3. CASE UNCHANGED tokenVars
    BY <1>1, <1>3 DEF SupplyInv, tokenVars
  <1> QED BY <1>2, <1>3 DEF supplyVars

LEMMA SupplyInvImplies ==
  ASSUME now \in Nat, SupplyInv
  PROVE  SupplyAccounted
  <1> DEFINE total == [b \in Scheduled |-> schedules[b].total]
             out == [b \in Scheduled |-> released[b]]
  <1>1. /\ IsFiniteSet(Beneficiary) /\ InitialSupply \in Nat
        /\ \A x \in VestingSchedules : x.total \in Nat
    BY SupplyTyped DEF SupplyTyped
  <1>2. VestingInv /\ Scheduled \in SUBSET Beneficiary
    BY DEF SupplyInv, Scheduled
  <1>3. ASSUME NEW b \in Scheduled
        PROVE  /\ out[b] \in Nat /\ total[b] \in Nat /\ out[b] <= total[b]
               /\ released[b] <= Vested(schedules[b], now)
    <2>1. /\ schedules[b] \in VestingSchedules /\ released[b] <= Vested(schedules[b], now)
          /\ released[b] \in Nat
      BY <1>2 DEF Scheduled, VestingInv
    <2>2. now <= now
      OBVIOUS
    <2>3. Vested(schedules[b], now) \in Nat /\ Vested(schedules[b], now) <= schedules[b].total
      BY <2>1, <2>2, VestedGrows
    <2>4. schedules[b].total \in Nat /\ released[b] <= schedules[b].total
      BY <1>1, <2>1, <2>3
    <2> QED BY <2>1, <2>4
  <1>4. /\ total \in [Scheduled -> Nat] /\ out \in [Scheduled -> Nat] /\ IsFiniteSet(Scheduled)
    BY <1>1, <1>2, <1>3, FS_Subset
  <1>5. /\ SumOver(LAMBDA b : released[b], Scheduled) = SumFunction(out)
        /\ Allocated = SumFunction(total)
    BY DEF SumOver, Allocated
  <1>6. \A b \in Scheduled : released[b] <= Vested(schedules[b], now)
    BY <1>3
  <1>7. \A b \in Scheduled : out[b] <= total[b]
    BY <1>3
  <1> HIDE DEF total, out
  <1>8. SumFunction(out) <= SumFunction(total)
    BY <1>4, <1>7, SumMonotone
  <1>9. SumFunction(out) \in Nat /\ SumFunction(total) \in Nat
    BY <1>4, SumNat
  <1>10. Allocated < SupplyModulus => SumFunction(out) <= InitialSupply
    <2>1. Allocated < SupplyModulus => Allocated <= InitialSupply
      BY <1>2 DEF VestingInv
    <2> QED BY <1>1, <1>5, <1>8, <1>9, <2>1
  <1>11. /\ burnedByFailure = 0 => totalSupply + totalBurned = InitialSupply + totalMinted
         /\ totalSupply + totalBurned <= InitialSupply + totalMinted
    BY <1>1 DEF SupplyInv
  <1> QED BY <1>5, <1>6, <1>10, <1>11 DEF SupplyAccounted

----------------------------------------------------------------------------
(* Fees *)

\* Amounts wrap at their width, and keep their value below it.
LEMMA WrappedAmount ==
  ASSUME NEW n \in Int
  PROVE  /\ Wrapped(n) \in Int /\ Wrapped(n) \in 0 .. FeeModulus - 1
         /\ n \in Nat => Wrapped(n) <= n
         /\ n \in Nat /\ n < FeeModulus => Wrapped(n) = n
  <1>1. FeeModulus \in Nat \ {0}
    BY FeesTyped DEF FeesTyped
  <1>2. n % FeeModulus \in 0 .. FeeModulus - 1
    BY <1>1, DivMod
  <1>3. n \in Nat /\ n < FeeModulus => n % FeeModulus = n
    BY <1>1, ModSmall
  <1> QED BY <1>1, <1>2, <1>3 DEF Wrapped

LEMMA WrappedNat ==
  ASSUME NEW n \in Int
  PROVE  Wrapped(n) \in Nat
  BY WrappedAmount, FeesTyped DEF FeesTyped

\* What is added before wrapping can be added after it.
LEMMA WrappedPlus ==
  ASSUME NEW n \in Int, NEW k \in Int
  PROVE  Wrapped(Wrapped(n) + k) = Wrapped(n + k)
  <1>1. FeeModulus \in Nat \ {0}
    BY FeesTyped DEF FeesTyped
  <1> QED BY <1>1, ModPlus DEF Wrapped

\* What a pool has been given: what it has and what it paid.
HeldIn(pool) == IF pool = NoPool THEN 0 ELSE pool.balance + pool.distributed

TreasuryInv ==
  /\ treasuryBalance \in 0 .. FeeModulus - 1 /\ totalCollected \in 0 .. FeeModulus - 1
  /\ totalDistributed \in 0 .. FeeModulus - 1
  /\ treasuryFeeRate \in 0 .. FullRate /\ treasuryCalls \in Nat /\ treasuryExact \in BOOLEAN
  /\ distributions \in Seq([Payee -> Nat])
  /\ Wrapped(treasuryBalance + totalDistributed) = totalCollected
  /\ treasuryExact =>
       /\ treasuryBalance + totalDistributed = totalCollected
       /\ totalDistributed = SumFunction([i \in DOMAIN distributions |-> SumOf(distributions[i])])

PoolsTyped ==
  /\ feePools \in [FeeSubnet -> SubnetFeePool \cup {NoPool}]
  /\ totalRouted \in 0 .. FeeModulus - 1 /\ protocolCut \in Nat /\ providerCut \in Nat
  /\ handedOut \in [FeeSubnet -> Nat] /\ routerCalls \in Nat /\ routerExact \in BOOLEAN

PoolsExact ==
  /\ totalRouted = protocolCut + providerCut
       + SumFunction([s \in FeeSubnet |-> HeldIn(feePools[s])])
  /\ \A s \in FeeSubnet :
       IF feePools[s] = NoPool THEN handedOut[s] = 0
       ELSE /\ feePools[s].collected = feePools[s].balance + feePools[s].distributed
            /\ feePools[s].distributed = handedOut[s]

PoolsInv == PoolsTyped /\ (routerExact => PoolsExact)

FeesInv == TreasuryInv /\ PoolsInv

LEMMA SumOfList ==
  ASSUME NEW list \in [Payee -> Nat]
  PROVE  SumOf(list) \in Nat /\ SumOf(list) = SumFunction(list)
  <1>1. IsFiniteSet(Payee)
    BY FeesTyped DEF FeesTyped
  <1>2. SumOf(list) = SumFunction([a \in Payee |-> list[a]])
    BY DEF SumOf, SumOver
  <1>3. [a \in Payee |-> list[a]] = list
    OBVIOUS
  <1> QED BY <1>1, <1>2, <1>3, SumNat

LEMMA PaidNat ==
  ASSUME NEW list \in [Payee -> Nat]
  PROVE  /\ Paid(list) \in Nat /\ Paid(list) < FeeModulus /\ SumOf(list) \in Nat
         /\ SumOf(list) < FeeModulus => Paid(list) = SumOf(list)
  <1>1. PICK n \in Nat : n = SumOf(list)
    BY SumOfList
  <1>2. n \in Int /\ FeeModulus \in Nat
    BY <1>1, FeesTyped DEF FeesTyped
  <1>3. /\ Wrapped(n) \in 0 .. FeeModulus - 1
        /\ n < FeeModulus => Wrapped(n) = n
    BY <1>1, <1>2, WrappedAmount
  <1> QED BY <1>1, <1>2, <1>3 DEF Paid

\* What is split by stakes whose sum fits is not exceeded by the shares.
LEMMA SharesNat ==
  ASSUME NEW amount \in Nat, NEW stakes \in [Payee -> Nat], Paid(stakes) > 0
  PROVE  /\ Shares(amount, stakes) \in [Payee -> Nat]
         /\ SumOf(stakes) < FeeModulus => SumOf(Shares(amount, stakes)) <= amount
  <1> DEFINE total == Paid(stakes)
             shares == Shares(amount, stakes)
  <1>1. IsFiniteSet(Payee) /\ total \in Nat /\ total # 0
    BY PaidNat, FeesTyped DEF FeesTyped
  <1>2. shares = [a \in Payee |-> Wrapped(amount * stakes[a]) \div total]
    BY DEF Shares
  <1>3. ASSUME NEW a \in Payee
        PROVE  /\ Wrapped(amount * stakes[a]) \div total \in Nat
               /\ total * (Wrapped(amount * stakes[a]) \div total) <= amount * stakes[a]
    <2> DEFINE n == amount * stakes[a]
               w == Wrapped(n)
    <2>1. n \in Nat /\ n \in Int
      OBVIOUS
    <2> HIDE DEF n, total
    <2>2. w \in Nat /\ w <= n
      BY <2>1, WrappedAmount
    <2> HIDE DEF w
    <2>3. w \div total \in Nat /\ total * (w \div total) \in Nat /\ total * (w \div total) <= w
      BY <1>1, <2>2, QuotientTimes
    <2>4. total * (w \div total) <= n
      <3>1. PICK k \in Nat : k = total * (w \div total)
        BY <2>3
      <3> QED BY <2>1, <2>2, <2>3, <3>1
    <2> QED BY <2>3, <2>4 DEF n, w
  <1>4. shares \in [Payee -> Nat]
    BY <1>2, <1>3
  <1>5. \A a \in Payee : total * shares[a] <= amount * stakes[a]
    BY <1>2, <1>3
  <1> HIDE DEF shares, total
  <1>6. ASSUME SumOf(stakes) < FeeModulus
        PROVE  SumOf(shares) <= amount
    <2>1. total = SumFunction(stakes)
      BY <1>6, PaidNat, SumOfList DEF total
    <2>2. SumFunction(stakes) # 0
          /\ \A a \in Payee : SumFunction(stakes) * shares[a] <= amount * stakes[a]
      BY <1>1, <1>5, <2>1
    <2>3. SumFunction(shares) <= amount
      BY <1>1, <1>4, <2>2, SharesWithin
    <2> QED BY <1>4, <2>3, SumOfList
  <1> QED BY <1>4, <1>6 DEF shares

\* What two rates take off an amount, which are at most all of it together.
LEMMA RatesWithin ==
  ASSUME NEW amount \in Nat, NEW p \in Nat, NEW q \in Nat, p + q <= FullRate
  PROVE  /\ Bps(amount, p) \in Nat /\ Bps(amount, q) \in Nat
         /\ Bps(amount, p) + Bps(amount, q) <= amount
  <1> DEFINE x == Bps(amount, p)
             y == Bps(amount, q)
             n == amount * p
             m == amount * q
             most == amount * FullRate
  <1>1. n \in Nat /\ m \in Nat /\ n + m = amount * (p + q) /\ FullRate \in Nat /\ FullRate # 0
    BY DistributePlus, FeesTyped DEF FeesTyped
  <1>2. x = Wrapped(n) \div FullRate /\ y = Wrapped(m) \div FullRate
    BY DEF Bps
  <1>3. amount * (p + q) <= most /\ most \in Nat
    BY <1>1, ProductGrows
  <1> HIDE DEF x, y, n, m, most
  <1>4. PICK u \in Nat, v \in Nat : u = Wrapped(n) /\ v = Wrapped(m) /\ u <= n /\ v <= m
    <2>1. n \in Int /\ m \in Int
      BY <1>1
    <2> QED BY <1>1, <2>1, WrappedAmount
  <1>5. /\ x \in Nat /\ FullRate * x \in Nat /\ FullRate * x <= u
        /\ y \in Nat /\ FullRate * y \in Nat /\ FullRate * y <= v
    BY <1>1, <1>2, <1>4, QuotientTimes
  <1>6. FullRate * (x + y) = FullRate * x + FullRate * y
    BY <1>1, <1>5, DistributePlus
  <1>7. FullRate * (x + y) <= most
    <2>1. PICK i \in Nat, j \in Nat : i = FullRate * x /\ j = FullRate * y
      BY <1>5
    <2>2. i + j <= n + m /\ n + m <= most
      BY <1>1, <1>3, <1>4, <1>5, <2>1
    <2>3. i + j <= most
      BY <1>1, <1>3, <2>2
    <2> QED BY <1>6, <2>1, <2>3
  <1>8. most = FullRate * amount
    BY <1>1 DEF most
  <1>9. x + y <= amount
    <2>1. x + y \in Nat /\ FullRate * (x + y) <= FullRate * amount
      BY <1>5, <1>7, <1>8
    <2> QED BY <1>1, <2>1, ProductCancels
  <1> QED BY <1>5, <1>9 DEF x, y

LEMMA RateWithin ==
  ASSUME NEW amount \in Nat, NEW p \in Nat, p <= FullRate
  PROVE  Bps(amount, p) \in Nat /\ Bps(amount, p) <= amount
  <1>1. Bps(amount, p) \in Nat /\ Bps(amount, 0) \in Nat
        /\ Bps(amount, p) + Bps(amount, 0) <= amount
    <2>1. p \in Nat /\ 0 \in Nat /\ p + 0 <= FullRate
      OBVIOUS
    <2> QED BY <2>1, RatesWithin
  <1> QED BY <1>1

\* As much in, and as much out, on both sides of the books.
LEMMA BooksAgree ==
  ASSUME NEW b \in Int, NEW d \in Int, NEW k \in Int
  PROVE  /\ Wrapped(Wrapped(b + k) + d) = Wrapped(Wrapped(b + d) + k)
         /\ Wrapped(Wrapped(b - k) + Wrapped(d + k)) = Wrapped(b + d)
  <1>1. /\ Wrapped(Wrapped(b + k) + d) = Wrapped((b + k) + d)
        /\ Wrapped(Wrapped(b + d) + k) = Wrapped((b + d) + k)
    <2>1. b + k \in Int /\ b + d \in Int
      OBVIOUS
    <2> QED BY <2>1, WrappedPlus
  <1>2. (b + k) + d = (b + d) + k
    OBVIOUS
  <1>3. Wrapped(Wrapped(b - k) + Wrapped(d + k)) = Wrapped((b - k) + Wrapped(d + k))
    <2>1. PICK x \in Int, y \in Int : x = b - k /\ y = Wrapped(d + k)
      <3>1. b - k \in Int /\ d + k \in Int
        OBVIOUS
      <3>2. Wrapped(d + k) \in Int
        BY <3>1, WrappedAmount
      <3> QED BY <3>1, <3>2
    <2>2. Wrapped(Wrapped(x) + y) = Wrapped(x + y)
      BY WrappedPlus
    <2> QED BY <2>1, <2>2
  <1>4. Wrapped((b - k) + Wrapped(d + k)) = Wrapped((d + k) + (b - k))
    <2>1. PICK x \in Int, z \in Int, y \in Int : x = b - k /\ z = d + k /\ y = Wrapped(z)
      <3>1. b - k \in Int /\ d + k \in Int
        OBVIOUS
      <3>2. Wrapped(d + k) \in Int
        BY <3>1, WrappedAmount
      <3> QED BY <3>1, <3>2
    <2>2. Wrapped(y + x) = Wrapped(z + x)
      BY <2>1, WrappedPlus
    <2>3. y + x = x + y
      OBVIOUS
    <2> QED BY <2>1, <2>2, <2>3
  <1>5. (d + k) + (b - k) = b + d
    OBVIOUS
  <1> QED BY <1>1, <1>2, <1>3, <1>4, <1>5

LEMMA CollectKeepsTreasury ==
  ASSUME TreasuryInv, NEW amount \in Nat, Collect(amount)
  PROVE  TreasuryInv'
  <1>1. PICK b \in Nat, c \in Nat, d \in Nat, e \in BOOLEAN :
          /\ b = treasuryBalance /\ c = totalCollected /\ d = totalDistributed
          /\ e = treasuryExact
    BY FeesTyped DEF TreasuryInv, FeesTyped
  <1>2. /\ Wrapped(b + d) = c /\ (e => b + d = c)
        /\ b < FeeModulus /\ c < FeeModulus /\ d < FeeModulus /\ FeeModulus \in Nat
    BY <1>1, FeesTyped DEF TreasuryInv, FeesTyped
  <1>3. PICK x, y : x = Wrapped(b + amount) /\ y = Wrapped(c + amount)
    OBVIOUS
  <1>4. /\ x \in 0 .. FeeModulus - 1 /\ y \in 0 .. FeeModulus - 1
        /\ b + amount < FeeModulus => x = b + amount
        /\ c + amount < FeeModulus => y = c + amount
    <2>1. b + amount \in Nat /\ b + amount \in Int /\ c + amount \in Nat /\ c + amount \in Int
      OBVIOUS
    <2> QED BY <1>3, <2>1, WrappedAmount
  <1>5. Wrapped(x + d) = y
    <2>1. b \in Int /\ d \in Int /\ amount \in Int
      OBVIOUS
    <2> QED BY <1>2, <1>3, <2>1, BooksAgree
  <1>6. e /\ c + amount < FeeModulus => x + d = y
    BY <1>2, <1>4
  <1>7. /\ treasuryBalance' = x /\ totalCollected' = y /\ totalDistributed' = d
        /\ treasuryExact' = (e /\ c + amount < FeeModulus) /\ treasuryCalls' = treasuryCalls + 1
        /\ UNCHANGED <<treasuryFeeRate, distributions, totalDistributed>>
    BY <1>1, <1>3 DEF Collect
  <1>8. /\ treasuryFeeRate' \in 0 .. FullRate /\ treasuryCalls' \in Nat
        /\ distributions' \in Seq([Payee -> Nat])
        /\ (e => totalDistributed'
              = SumFunction([i \in DOMAIN distributions' |-> SumOf(distributions'[i])]))
    BY <1>1, <1>7 DEF TreasuryInv
  <1>9. totalDistributed' \in 0 .. FeeModulus - 1
    BY <1>2, <1>7
  <1>10. treasuryExact' \in BOOLEAN
    BY <1>7
  <1>11. treasuryExact' => e /\ c + amount < FeeModulus
    BY <1>7
  <1> QED BY <1>4, <1>5, <1>6, <1>7, <1>8, <1>9, <1>10, <1>11 DEF TreasuryInv

\* Whatever a list of recipients gets is on record, and was there if the sums behind it fitted.
LEMMA PayOutKeepsTreasury ==
  ASSUME TreasuryInv, NEW list \in [Payee -> Nat], NEW stakes \in [Payee -> Nat],
         SumOf(stakes) < FeeModulus => SumOf(list) <= treasuryBalance,
         PayOutOf(list, SumOf(stakes) < FeeModulus)
  PROVE  TreasuryInv'
  <1> DEFINE n == Len(distributions)
             f == [i \in DOMAIN distributions |-> SumOf(distributions[i])]
             g == [i \in DOMAIN distributions' |-> SumOf(distributions'[i])]
             exact == SumOf(stakes) < FeeModulus
  <1>a. PICK b \in Nat, c \in Nat, d \in Nat, e \in BOOLEAN :
          /\ b = treasuryBalance /\ c = totalCollected /\ d = totalDistributed
          /\ e = treasuryExact
    BY FeesTyped DEF TreasuryInv, FeesTyped
  <1>b. PICK paid \in Nat, sum \in Nat : paid = Paid(list) /\ sum = SumOf(list)
    BY PaidNat
  <1>1. /\ b = treasuryBalance /\ c = totalCollected /\ d = totalDistributed
        /\ e = treasuryExact /\ paid = Paid(list) /\ sum = SumOf(list)
    BY <1>a, <1>b
  <1>2. /\ Wrapped(b + d) = c /\ (e => b + d = c /\ d = SumFunction(f))
        /\ b < FeeModulus /\ c < FeeModulus /\ d < FeeModulus /\ FeeModulus \in Nat
        /\ distributions \in Seq([Payee -> Nat])
        /\ sum < FeeModulus => paid = sum
        /\ exact => sum <= b
    BY <1>1, PaidNat, FeesTyped DEF TreasuryInv, FeesTyped
  <1>3. /\ treasuryBalance' = Wrapped(b - paid) /\ totalDistributed' = Wrapped(d + paid)
        /\ distributions' = Append(distributions, list) /\ totalCollected' = c
        /\ treasuryCalls' = treasuryCalls + 1 /\ treasuryExact' = (e /\ exact)
        /\ treasuryFeeRate' = treasuryFeeRate
    BY <1>1 DEF PayOutOf
  <1>4. n \in Nat /\ DOMAIN distributions = 1 .. n
    BY <1>2
  <1>5. /\ distributions' \in Seq([Payee -> Nat]) /\ DOMAIN distributions' = 1 .. n + 1
        /\ \A i \in 1 .. n : distributions'[i] = distributions[i]
        /\ distributions'[n + 1] = list
    BY <1>2, <1>3
  <1>6. g[n + 1] = sum /\ \A i \in 1 .. n : g[i] = f[i]
    BY <1>1, <1>4, <1>5
  <1>7. \A i \in 1 .. n : distributions[i] \in [Payee -> Nat]
    BY <1>2, <1>4
  <1> HIDE DEF n
  <1>8. f \in [1 .. n -> Int]
    BY <1>4, <1>7, PaidNat
  <1>9. g \in [1 .. n + 1 -> Int]
    <2>1. \A i \in 1 .. n + 1 : g[i] \in Int
      <3> HIDE DEF f, g
      <3>1. \A i \in 1 .. n : g[i] \in Int
        BY <1>6, <1>8
      <3>2. g[n + 1] \in Int
        BY <1>1, <1>6
      <3>3. \A i \in 1 .. n + 1 : i \in 1 .. n \/ i = n + 1
        BY <1>4
      <3> QED BY <3>1, <3>2, <3>3
    <2> QED BY <1>5, <2>1
  <1> HIDE DEF f, g
  <1>10. SumFunction(g) = SumFunction(f) + sum
    <2>1. Summands(f, n) /\ Summands(g, n + 1)
      BY <1>8, <1>9 DEF Summands
    <2> QED BY <1>4, <1>6, <2>1, SumAppend
  <1>11. PICK x, y : x = Wrapped(b - paid) /\ y = Wrapped(d + paid)
    OBVIOUS
  <1>12. /\ x \in 0 .. FeeModulus - 1 /\ y \in 0 .. FeeModulus - 1
         /\ Wrapped(x + y) = c
         /\ b >= paid => x = b - paid
         /\ d + paid < FeeModulus => y = d + paid
    <2>1. b - paid \in Int /\ d + paid \in Int /\ d + paid \in Nat
          /\ b \in Int /\ d \in Int /\ paid \in Int
      OBVIOUS
    <2>2. b >= paid => b - paid \in Nat /\ b - paid < FeeModulus
      BY <1>2
    <2>3. Wrapped(x + y) = Wrapped(b + d)
      BY <1>11, <2>1, BooksAgree
    <2> QED BY <1>2, <1>11, <2>1, <2>2, <2>3, WrappedAmount
  <1>13. ASSUME e, exact
         PROVE  x + y = c /\ y = SumFunction(g)
    <2>1. b + d = c /\ d = SumFunction(f) /\ sum <= b
      BY <1>2, <1>13
    <2>2. paid = sum
      BY <1>2, <2>1
    <2>3. b >= paid /\ d + paid < FeeModulus
      BY <1>2, <2>1, <2>2
    <2>4. x = b - paid /\ y = d + paid
      BY <1>12, <2>3
    <2> QED BY <1>10, <2>1, <2>2, <2>4
  <1>14. /\ treasuryFeeRate' \in 0 .. FullRate /\ treasuryCalls' \in Nat
         /\ treasuryExact' \in BOOLEAN /\ totalCollected' \in 0 .. FeeModulus - 1
    <2>1. SumOf(stakes) \in Nat
      BY PaidNat
    <2> QED BY <1>1, <1>2, <1>3, <2>1 DEF TreasuryInv
  <1>15. /\ treasuryBalance' = x /\ totalDistributed' = y /\ totalCollected' = c
         /\ (treasuryExact' => e /\ exact)
    BY <1>3, <1>11
  <1> QED BY <1>5, <1>12, <1>13, <1>14, <1>15 DEF TreasuryInv, g

LEMMA TreasuryInvStep ==
  ASSUME TreasuryInv, [TreasuryNext]_treasuryVars
  PROVE  TreasuryInv'
  <1>a. /\ FeeModulus \in Nat /\ FeeAmounts \subseteq 0 .. FeeModulus - 1
        /\ FeeRates \subseteq Nat /\ FullRate \in Nat /\ StakerShareBps \in 0 .. FullRate
    BY FeesTyped DEF FeesTyped
  <1>b. FeeAmounts \subseteq Nat /\ StakerShareBps \in Nat /\ StakerShareBps <= FullRate
    BY <1>a
  <1>1. FeeAmounts \subseteq Nat /\ Lists \subseteq [Payee -> Nat] /\ FeeRates \subseteq Nat
        /\ StakerShareBps \in Nat /\ StakerShareBps <= FullRate /\ FullRate \in Nat
    BY <1>a, <1>b DEF Lists
  <1>2. ASSUME UNCHANGED treasuryVars
        PROVE  TreasuryInv'
    BY <1>2 DEF treasuryVars, TreasuryInv
  <1>3. ASSUME NEW n \in FeeAmounts, CollectFee(n) \/ Collect(n)
        PROVE  TreasuryInv'
    <2>1. Bps(n, treasuryFeeRate) \in Nat
      <3>1. n \in Nat /\ treasuryFeeRate \in Nat /\ treasuryFeeRate <= FullRate
        BY <1>1 DEF TreasuryInv
      <3> QED BY <3>1, RateWithin
    <2> QED BY <1>1, <1>3, <2>1, CollectKeepsTreasury DEF CollectFee
  <1>4. ASSUME NEW list \in Lists, NEW caller, Distribute(list, caller)
        PROVE  TreasuryInv'
    <2>1. list \in [Payee -> Nat] /\ treasuryBalance \in Nat
      BY <1>1, FeesTyped DEF TreasuryInv, FeesTyped
    <2>2. /\ PayOutOf(list, SumOf(list) < FeeModulus)
          /\ SumOf(list) < FeeModulus => SumOf(list) <= treasuryBalance
      BY <1>4, <2>1, PaidNat DEF Distribute
    <2> QED BY <2>1, <2>2, PayOutKeepsTreasury
  <1>5. ASSUME NEW list \in Lists, NEW amount \in Nat, amount <= treasuryBalance,
               DistributeShares(amount, list)
        PROVE  TreasuryInv'
    <2>1. list \in [Payee -> Nat] /\ treasuryBalance \in Nat /\ Paid(list) > 0
      BY <1>1, <1>5, FeesTyped DEF TreasuryInv, FeesTyped, DistributeShares
    <2>3. PICK shares \in [Payee -> Nat] :
            /\ shares = Shares(amount, list)
            /\ SumOf(list) < FeeModulus => SumOf(shares) <= amount
      BY <2>1, SharesNat
    <2>4. PayOutOf(shares, SumOf(list) < FeeModulus)
      BY <1>5, <2>3 DEF DistributeShares
    <2>5. SumOf(list) < FeeModulus => SumOf(shares) <= treasuryBalance
      <3>1. PICK k \in Nat : k = SumOf(shares)
        BY <2>3, SumOfList
      <3> QED BY <1>5, <2>1, <2>3, <3>1
    <2> QED BY <2>1, <2>3, <2>4, <2>5, PayOutKeepsTreasury
  <1>6. ASSUME NEW list \in Lists, NEW caller, DistributeWithSplit(list, caller)
        PROVE  TreasuryInv'
    <2>1. /\ Bps(treasuryBalance, StakerShareBps) \in Nat
          /\ Bps(treasuryBalance, StakerShareBps) <= treasuryBalance
      <3>1. treasuryBalance \in Nat
        BY FeesTyped DEF TreasuryInv, FeesTyped
      <3> QED BY <1>1, <3>1, RateWithin
    <2> QED BY <1>5, <1>6, <2>1 DEF DistributeWithSplit
  <1>7. ASSUME NEW list \in Lists, NEW n \in FeeAmounts, NEW caller,
               DistributeProportional(list, n, caller)
        PROVE  TreasuryInv'
    BY <1>1, <1>5, <1>7 DEF DistributeProportional
  <1>8. ASSUME NEW rate \in FeeRates, NEW caller, SetFeeRate(rate, caller)
        PROVE  TreasuryInv'
    BY <1>1, <1>8 DEF SetFeeRate, TreasuryInv
  <1> QED BY <1>2, <1>3, <1>4, <1>6, <1>7, <1>8 DEF TreasuryNext

LEMMA PoolFields ==
  ASSUME NEW pool \in SubnetFeePool \cup {NoPool}
  PROVE  /\ HeldIn(pool) \in Nat
         /\ pool # NoPool =>
              /\ pool \in SubnetFeePool
              /\ pool.balance \in Nat /\ pool.collected \in Nat /\ pool.distributed \in Nat
              /\ HeldIn(pool) = pool.balance + pool.distributed
  BY DEF HeldIn, SubnetFeePool

\* As long as nothing wraps, no pool has been given more than was routed.
LEMMA HeldWasRouted ==
  ASSUME PoolsTyped, PoolsExact, NEW s \in FeeSubnet
  PROVE  HeldIn(feePools[s]) \in Nat /\ HeldIn(feePools[s]) <= totalRouted
  <1> DEFINE f == [q \in FeeSubnet |-> HeldIn(feePools[q])]
  <1>1. /\ f \in [FeeSubnet -> Nat] /\ f[s] = HeldIn(feePools[s])
        /\ totalRouted = protocolCut + providerCut + SumFunction(f)
        /\ protocolCut \in Nat /\ providerCut \in Nat /\ IsFiniteSet(FeeSubnet)
    BY PoolFields, FeesTyped DEF PoolsTyped, PoolsExact, FeesTyped
  <1> HIDE DEF f
  <1>2. PICK n \in Nat, k \in Nat : n = SumFunction(f) /\ k = f[s] /\ k <= n
    BY <1>1, SumNat, SumAtLeast
  <1> QED BY <1>1, <1>2

\* A pool changes, and the total with what was routed to it.
LEMMA PoolMoves ==
  ASSUME PoolsTyped, PoolsExact, NEW s \in FeeSubnet, NEW pool \in SubnetFeePool,
         feePools' = [feePools EXCEPT ![s] = pool],
         pool.collected = pool.balance + pool.distributed,
         handedOut' = [handedOut EXCEPT ![s] = pool.distributed],
         NEW more \in Nat, HeldIn(pool) = HeldIn(feePools[s]) + more,
         NEW cut \in Nat, NEW left \in Nat,
         totalRouted' = totalRouted + cut + left + more,
         protocolCut' = protocolCut + cut, providerCut' = providerCut + left
  PROVE  PoolsExact'
  <1> DEFINE f == [q \in FeeSubnet |-> HeldIn(feePools[q])]
             g == [q \in FeeSubnet |-> HeldIn(feePools'[q])]
  <1>1. /\ feePools \in [FeeSubnet -> SubnetFeePool \cup {NoPool}]
        /\ totalRouted \in Nat /\ protocolCut \in Nat /\ providerCut \in Nat
        /\ handedOut \in [FeeSubnet -> Nat] /\ NoPool \notin SubnetFeePool
        /\ totalRouted = protocolCut + providerCut + SumFunction(f)
    BY FeesTyped DEF PoolsTyped, PoolsExact, FeesTyped
  <1>2. /\ feePools' \in [FeeSubnet -> SubnetFeePool \cup {NoPool}]
        /\ feePools'[s] = pool /\ \A q \in FeeSubnet \ {s} : feePools'[q] = feePools[q]
        /\ handedOut'[s] = pool.distributed
        /\ \A q \in FeeSubnet \ {s} : handedOut'[q] = handedOut[q]
    BY <1>1
  <1>3. f \in [FeeSubnet -> Nat] /\ g \in [FeeSubnet -> Nat]
    BY <1>1, <1>2, PoolFields
  <1>4. g[s] = f[s] + more /\ \A q \in FeeSubnet \ {s} : g[q] = f[q]
    BY <1>2
  <1>5. IsFiniteSet(FeeSubnet)
    BY FeesTyped DEF FeesTyped
  <1> HIDE DEF f, g
  <1>6. SumFunction(g) = SumFunction(f) - f[s] + g[s] /\ SumFunction(f) \in Nat
        /\ f[s] \in Nat
    BY <1>3, <1>4, <1>5, SumUpdate, SumNat
  <1>7. SumFunction(g) = SumFunction(f) + more
    BY <1>4, <1>6
  <1>8. totalRouted' = protocolCut' + providerCut' + SumFunction(g)
    BY <1>1, <1>6, <1>7
  <1>9. ASSUME NEW q \in FeeSubnet
        PROVE  IF feePools'[q] = NoPool THEN handedOut'[q] = 0
               ELSE /\ feePools'[q].collected = feePools'[q].balance + feePools'[q].distributed
                    /\ feePools'[q].distributed = handedOut'[q]
    <2>1. CASE q = s
      BY <1>1, <1>2, <2>1
    <2>2. CASE q # s
      BY <1>2, <2>2 DEF PoolsExact
    <2> QED BY <2>1, <2>2
  <1> QED BY <1>8, <1>9 DEF PoolsExact, g

LEMMA RouteKeepsPools ==
  ASSUME PoolsInv, NEW s \in FeeSubnet, NEW gross \in FeeAmounts, RouteFee(s, gross)
  PROVE  PoolsInv'
  <1> DEFINE old == feePools[s]
  <1>1. /\ gross \in Nat /\ ProtocolFeeBps \in Nat /\ SubnetFeeBps \in Nat
        /\ NoPool \notin SubnetFeePool /\ FeeModulus \in Nat
    BY FeesTyped DEF FeesTyped
  <1>2. PICK fee \in Nat, cut \in Nat :
          /\ fee = Bps(gross, SubnetFeeBps) /\ cut = Bps(gross, ProtocolFeeBps)
          /\ cut + fee <= gross
    BY <1>1, RatesWithin DEF RouteFee
  <1>3. /\ old # NoPool
        /\ feePools' = [feePools EXCEPT ![s].balance = Wrapped(@ + fee),
                                        ![s].collected = Wrapped(@ + fee)]
        /\ totalRouted' = Wrapped(totalRouted + gross)
        /\ protocolCut' = protocolCut + cut /\ providerCut' = providerCut + (gross - cut - fee)
        /\ routerCalls' = routerCalls + 1
        /\ routerExact' = (routerExact /\ totalRouted + gross < FeeModulus)
        /\ handedOut' = handedOut
    BY <1>2 DEF RouteFee
  <1>4. /\ feePools \in [FeeSubnet -> SubnetFeePool \cup {NoPool}] /\ totalRouted \in Nat
        /\ protocolCut \in Nat /\ providerCut \in Nat /\ routerCalls \in Nat
        /\ handedOut \in [FeeSubnet -> Nat] /\ routerExact \in BOOLEAN
    BY FeesTyped DEF PoolsInv, PoolsTyped, FeesTyped
  <1>5. /\ old \in SubnetFeePool /\ HeldIn(old) = old.balance + old.distributed
        /\ old.balance \in Nat /\ old.collected \in Nat /\ old.distributed \in Nat
    BY <1>3, <1>4, PoolFields
  <1>6. PICK b, c : b = Wrapped(old.balance + fee) /\ c = Wrapped(old.collected + fee)
    OBVIOUS
  <1>7. PICK p : p = [old EXCEPT !.balance = b, !.collected = c]
    OBVIOUS
  <1>8. feePools' = [feePools EXCEPT ![s] = p]
    BY <1>3, <1>4, <1>6, <1>7
  <1>9. PICK r : r = Wrapped(totalRouted + gross)
    OBVIOUS
  <1>10. PICK left \in Nat : left = gross - cut - fee
    BY <1>1, <1>2
  <1> HIDE DEF old
  <1>11. /\ b \in Nat /\ c \in Nat
         /\ old.balance + fee < FeeModulus => b = old.balance + fee
         /\ old.collected + fee < FeeModulus => c = old.collected + fee
    <2>1. PICK i \in Nat, j \in Nat : i = old.balance + fee /\ j = old.collected + fee
      BY <1>5
    <2>2. i \in Int /\ j \in Int /\ b = Wrapped(i) /\ c = Wrapped(j)
      BY <1>6, <2>1
    <2>3. /\ Wrapped(i) \in 0 .. FeeModulus - 1 /\ Wrapped(j) \in 0 .. FeeModulus - 1
          /\ i < FeeModulus => Wrapped(i) = i
          /\ j < FeeModulus => Wrapped(j) = j
      BY <2>2, WrappedAmount
    <2> QED BY <1>1, <2>1, <2>2, <2>3
  <1>12. /\ r \in 0 .. FeeModulus - 1
         /\ totalRouted + gross < FeeModulus => r = totalRouted + gross
    <2>1. PICK i \in Nat : i = totalRouted + gross
      BY <1>1, <1>4
    <2>2. i \in Int /\ r = Wrapped(i)
      BY <1>9, <2>1
    <2>3. /\ Wrapped(i) \in 0 .. FeeModulus - 1
          /\ i < FeeModulus => Wrapped(i) = i
      BY <2>2, WrappedAmount
    <2> QED BY <2>1, <2>2, <2>3
  <1>13. p \in SubnetFeePool /\ p.balance = b /\ p.collected = c
         /\ p.distributed = old.distributed
    BY <1>5, <1>7, <1>11 DEF SubnetFeePool
  <1>14. PoolsTyped'
    <2>1. feePools' \in [FeeSubnet -> SubnetFeePool \cup {NoPool}]
      BY <1>4, <1>8, <1>13
    <2>2. protocolCut' \in Nat /\ providerCut' \in Nat /\ routerCalls' \in Nat
      BY <1>2, <1>3, <1>4, <1>10
    <2>3. totalRouted' \in 0 .. FeeModulus - 1 /\ handedOut' \in [FeeSubnet -> Nat]
          /\ routerExact' \in BOOLEAN
      BY <1>3, <1>4, <1>9, <1>12
    <2> QED BY <2>1, <2>2, <2>3 DEF PoolsTyped
  <1>15. ASSUME routerExact, totalRouted + gross < FeeModulus
         PROVE  PoolsExact'
    <2>1. PoolsTyped /\ PoolsExact
      BY <1>15 DEF PoolsInv
    <2>2. /\ old.collected = old.balance + old.distributed /\ old.distributed = handedOut[s]
          /\ HeldIn(old) <= totalRouted
      BY <1>3, <2>1, HeldWasRouted DEF PoolsExact, old
    <2>3. PICK i \in Nat, j \in Nat, k \in Nat :
            i = old.balance /\ j = old.distributed /\ k = old.collected
      BY <1>5
    <2>4. i + j <= totalRouted /\ k = i + j
      BY <1>5, <2>2, <2>3
    <2>5. i + fee < FeeModulus /\ k + fee < FeeModulus
      BY <1>1, <1>2, <1>4, <1>15, <2>4
    <2>6. b = i + fee /\ c = k + fee
      BY <1>11, <2>3, <2>5
    <2>7. HeldIn(p) = HeldIn(old) + fee /\ p.collected = p.balance + p.distributed
      <3>1. HeldIn(p) = p.balance + p.distributed
        BY <1>1, <1>13 DEF HeldIn
      <3>2. HeldIn(p) = b + j /\ HeldIn(old) = i + j
        BY <1>5, <1>13, <2>3, <3>1
      <3> QED BY <1>13, <2>3, <2>4, <2>6, <3>2
    <2>8. totalRouted' = totalRouted + cut + left + fee
      BY <1>1, <1>2, <1>3, <1>4, <1>9, <1>10, <1>12, <1>15
    <2>9. handedOut' = [handedOut EXCEPT ![s] = p.distributed]
      BY <1>3, <1>4, <1>13, <2>2
    <2>10. /\ protocolCut' = protocolCut + cut /\ providerCut' = providerCut + left
           /\ HeldIn(p) = HeldIn(feePools[s]) + fee
      BY <1>3, <1>10, <2>7 DEF old
    <2> QED BY <1>8, <1>13, <2>1, <2>7, <2>8, <2>9, <2>10, PoolMoves
  <1> QED BY <1>3, <1>14, <1>15 DEF PoolsInv

LEMMA DistributeKeepsPools ==
  ASSUME PoolsInv, NEW s \in FeeSubnet, NEW list \in [Payee -> Nat], DistributePool(s, list)
  PROVE  PoolsInv'
  <1> DEFINE old == feePools[s]
  <1>1. PICK paid \in Nat, sum \in Nat :
          /\ paid = Paid(list) /\ sum = SumOf(list)
          /\ sum < FeeModulus => paid = sum
    BY PaidNat
  <1>2. /\ old # NoPool /\ paid <= old.balance
        /\ feePools' = [feePools EXCEPT ![s].balance = @ - paid,
                                        ![s].distributed = Wrapped(@ + paid)]
        /\ handedOut' = [handedOut EXCEPT ![s] = @ + sum]
        /\ routerCalls' = routerCalls + 1
        /\ routerExact' = (routerExact /\ sum < FeeModulus)
        /\ UNCHANGED <<totalRouted, protocolCut, providerCut>>
    BY <1>1 DEF DistributePool
  <1>3. /\ feePools \in [FeeSubnet -> SubnetFeePool \cup {NoPool}] /\ totalRouted \in Nat
        /\ totalRouted < FeeModulus /\ FeeModulus \in Nat /\ NoPool \notin SubnetFeePool
        /\ protocolCut \in Nat /\ providerCut \in Nat /\ routerCalls \in Nat
        /\ handedOut \in [FeeSubnet -> Nat] /\ routerExact \in BOOLEAN
    BY FeesTyped DEF PoolsInv, PoolsTyped, FeesTyped
  <1>4. /\ old \in SubnetFeePool /\ HeldIn(old) = old.balance + old.distributed
        /\ old.balance \in Nat /\ old.collected \in Nat /\ old.distributed \in Nat
    BY <1>2, <1>3, PoolFields
  <1>5. PICK b, d : b = old.balance - paid /\ d = Wrapped(old.distributed + paid)
    OBVIOUS
  <1>6. PICK p : p = [old EXCEPT !.balance = b, !.distributed = d]
    OBVIOUS
  <1>7. feePools' = [feePools EXCEPT ![s] = p]
    BY <1>2, <1>3, <1>5, <1>6
  <1> HIDE DEF old
  <1>8. /\ b \in Nat /\ d \in Nat
        /\ old.distributed + paid < FeeModulus => d = old.distributed + paid
    <2>1. PICK i \in Nat : i = old.distributed + paid
      BY <1>4
    <2>2. i \in Int /\ d = Wrapped(i)
      BY <1>5, <2>1
    <2>3. Wrapped(i) \in 0 .. FeeModulus - 1 /\ (i < FeeModulus => Wrapped(i) = i)
      BY <2>2, WrappedAmount
    <2> QED BY <1>2, <1>3, <1>4, <1>5, <2>1, <2>2, <2>3
  <1>9. p \in SubnetFeePool /\ p.balance = b /\ p.collected = old.collected
        /\ p.distributed = d
    BY <1>4, <1>6, <1>8 DEF SubnetFeePool
  <1>10. PoolsTyped'
    <2>1. feePools' \in [FeeSubnet -> SubnetFeePool \cup {NoPool}]
      BY <1>3, <1>7, <1>9
    <2>2. handedOut' \in [FeeSubnet -> Nat]
      BY <1>2, <1>3
    <2>3. routerCalls' \in Nat /\ routerExact' \in BOOLEAN
      BY <1>2, <1>3
    <2>4. totalRouted' \in 0 .. FeeModulus - 1 /\ protocolCut' \in Nat /\ providerCut' \in Nat
      BY <1>2 DEF PoolsInv, PoolsTyped
    <2> QED BY <2>1, <2>2, <2>3, <2>4 DEF PoolsTyped
  <1>11. ASSUME routerExact, sum < FeeModulus
         PROVE  PoolsExact'
    <2>1. PoolsTyped /\ PoolsExact
      BY <1>11 DEF PoolsInv
    <2>2. /\ old.collected = old.balance + old.distributed /\ old.distributed = handedOut[s]
          /\ HeldIn(old) <= totalRouted
      BY <1>2, <2>1, HeldWasRouted DEF PoolsExact, old
    <2>3. PICK i \in Nat, j \in Nat, k \in Nat :
            i = old.balance /\ j = old.distributed /\ k = old.collected
      BY <1>4
    <2>4. i + j <= totalRouted /\ k = i + j /\ paid <= i /\ paid = sum
      BY <1>1, <1>2, <1>4, <1>11, <2>2, <2>3
    <2>5. j + paid < FeeModulus
      BY <1>3, <2>4
    <2>6. b = i - paid /\ d = j + paid
      BY <1>5, <1>8, <2>3, <2>5
    <2>7. HeldIn(p) = HeldIn(old) + 0 /\ p.collected = p.balance + p.distributed
      <3>1. HeldIn(p) = p.balance + p.distributed
        BY <1>3, <1>9 DEF HeldIn
      <3>2. HeldIn(p) = b + d /\ HeldIn(old) = i + j
        BY <1>4, <1>9, <2>3, <3>1
      <3> QED BY <1>9, <2>3, <2>4, <2>6, <3>2
    <2>8. handedOut' = [handedOut EXCEPT ![s] = p.distributed]
      BY <1>2, <1>3, <1>9, <2>2, <2>3, <2>4, <2>6
    <2>9. /\ totalRouted' = totalRouted + 0 + 0 + 0
          /\ protocolCut' = protocolCut + 0 /\ providerCut' = providerCut + 0
          /\ HeldIn(p) = HeldIn(feePools[s]) + 0
      BY <1>2, <1>3, <2>7 DEF old
    <2> QED BY <1>7, <1>9, <2>1, <2>7, <2>8, <2>9, PoolMoves
  <1> QED BY <1>2, <1>10, <1>11 DEF PoolsInv

LEMMA InitializeKeepsPools ==
  ASSUME PoolsInv, NEW new \in SUBSET FeeSubnet, InitializePools(new)
  PROVE  PoolsInv'
  <1> DEFINE empty == [balance |-> 0, collected |-> 0, distributed |-> 0]
             f == [q \in FeeSubnet |-> HeldIn(feePools[q])]
             g == [q \in FeeSubnet |-> HeldIn(feePools'[q])]
  <1>1. /\ feePools \in [FeeSubnet -> SubnetFeePool \cup {NoPool}]
        /\ NoPool \notin SubnetFeePool
    BY FeesTyped DEF PoolsInv, PoolsTyped, FeesTyped
  <1>2. /\ feePools' = [q \in FeeSubnet |->
             IF q \in new /\ feePools[q] = NoPool THEN empty ELSE feePools[q]]
        /\ UNCHANGED <<totalRouted, protocolCut, providerCut, handedOut, routerCalls,
                       routerExact>>
    BY DEF InitializePools
  <1>3. /\ empty \in SubnetFeePool /\ HeldIn(empty) = 0 /\ HeldIn(NoPool) = 0
        /\ empty.collected = empty.balance + empty.distributed /\ empty.distributed = 0
    BY <1>1 DEF SubnetFeePool, HeldIn
  <1> HIDE DEF empty
  <1>4. feePools' \in [FeeSubnet -> SubnetFeePool \cup {NoPool}]
    BY <1>1, <1>2, <1>3
  <1>5. PoolsTyped'
    BY <1>2, <1>4 DEF PoolsInv, PoolsTyped
  <1>6. ASSUME PoolsExact
        PROVE  PoolsExact'
    <2>1. \A q \in FeeSubnet : HeldIn(feePools'[q]) = HeldIn(feePools[q])
      BY <1>1, <1>2, <1>3
    <2>2. g = f
      BY <2>1
    <2>3. ASSUME NEW q \in FeeSubnet
          PROVE  IF feePools'[q] = NoPool THEN handedOut'[q] = 0
                 ELSE /\ feePools'[q].collected = feePools'[q].balance + feePools'[q].distributed
                      /\ feePools'[q].distributed = handedOut'[q]
      <3>1. CASE q \in new /\ feePools[q] = NoPool
        BY <1>1, <1>2, <1>3, <1>6, <3>1 DEF PoolsExact
      <3>2. CASE ~(q \in new /\ feePools[q] = NoPool)
        BY <1>2, <1>6, <3>2 DEF PoolsExact
      <3> QED BY <3>1, <3>2
    <2> QED BY <1>2, <1>6, <2>2, <2>3 DEF PoolsExact
  <1> QED BY <1>2, <1>5, <1>6 DEF PoolsInv

LEMMA PoolsInvStep ==
  ASSUME PoolsInv, [FeePoolsNext]_feePoolVars
  PROVE  PoolsInv'
  <1>a. FeeAmounts \subseteq Nat
    BY FeesTyped DEF FeesTyped
  <1>1. Lists \subseteq [Payee -> Nat]
    BY <1>a DEF Lists
  <1>2. CASE UNCHANGED feePoolVars
    BY <1>2 DEF feePoolVars, PoolsInv, PoolsTyped, PoolsExact
  <1>3. CASE FeePoolsNext
    BY <1>1, <1>3, InitializeKeepsPools, RouteKeepsPools, DistributeKeepsPools
    DEF FeePoolsNext
  <1> QED BY <1>2, <1>3

LEMMA FeesInvInit == FeesInit => FeesInv
  <1> SUFFICES ASSUME FeesInit PROVE FeesInv
    OBVIOUS
  <1> DEFINE f == [s \in FeeSubnet |-> HeldIn(feePools[s])]
             g == [i \in DOMAIN distributions |-> SumOf(distributions[i])]
  <1>1. IsFiniteSet(FeeSubnet) /\ InitialFeeRate \in 0 .. FullRate /\ FeeModulus \in Nat \ {0}
    BY FeesTyped DEF FeesTyped
  <1>2. \A s \in FeeSubnet : f[s] = 0
    BY DEF FeesInit, HeldIn
  <1>3. SumFunction(f) = 0
    <2>1. DOMAIN f = FeeSubnet
      OBVIOUS
    <2> HIDE DEF f
    <2> QED BY <1>1, <1>2, <2>1, SumZero
  <1>4. SumFunction(g) = 0
    <2>1. DOMAIN g = {} /\ IsFiniteSet({})
      BY FS_EmptySet DEF FeesInit
    <2> HIDE DEF g
    <2> QED BY <2>1, SumZero
  <1>5. Wrapped(0 + 0) = 0 /\ 0 \in 0 .. FeeModulus - 1
    <2>1. 0 \in Int /\ 0 \in Nat /\ 0 < FeeModulus /\ 0 + 0 = 0
      BY <1>1
    <2> QED BY <1>1, <2>1, WrappedAmount
  <1>6. TreasuryInv
    <2>1. distributions \in Seq([Payee -> Nat])
      BY DEF FeesInit
    <2> QED BY <1>1, <1>4, <1>5, <2>1 DEF FeesInit, TreasuryInv
  <1>7. PoolsTyped
    BY <1>5 DEF FeesInit, PoolsTyped
  <1>8. PoolsExact
    BY <1>3 DEF FeesInit, PoolsExact
  <1> QED BY <1>6, <1>7, <1>8 DEF FeesInv, PoolsInv

LEMMA FeesInvStep ==
  ASSUME FeesInv, [TreasuryNext]_treasuryVars, [FeePoolsNext]_feePoolVars
  PROVE  FeesInv'
  BY TreasuryInvStep, PoolsInvStep DEF FeesInv

LEMMA FeesInvImplies == FeesInv => FeesAccounted
  <1> SUFFICES ASSUME FeesInv PROVE FeesAccounted
    OBVIOUS
  <1> DEFINE open == {s \in FeeSubnet : feePools[s] # NoPool}
             f == [s \in FeeSubnet |-> HeldIn(feePools[s])]
             g == [s \in open |-> feePools[s].balance + feePools[s].distributed]
  <1>1. feePools \in [FeeSubnet -> SubnetFeePool \cup {NoPool}] /\ IsFiniteSet(FeeSubnet)
    BY FeesTyped DEF FeesInv, PoolsInv, PoolsTyped, FeesTyped
  <1>2. /\ f \in [FeeSubnet -> Int] /\ g \in [open -> Int] /\ open \in SUBSET FeeSubnet
        /\ \A s \in open : f[s] = g[s]
        /\ \A s \in FeeSubnet \ open : f[s] = 0
    BY <1>1, PoolFields DEF HeldIn
  <1>3. SumOver(LAMBDA s : feePools[s].balance + feePools[s].distributed, open) = SumFunction(g)
    BY DEF SumOver
  <1>4. SumFunction(f) = SumFunction(g)
    <2>1. PICK F, G, T : F = f /\ G = g /\ T = open
      OBVIOUS
    <2>2. /\ F \in [FeeSubnet -> Int] /\ G \in [T -> Int] /\ T \in SUBSET FeeSubnet
          /\ \A s \in T : F[s] = G[s]
          /\ \A s \in FeeSubnet \ T : F[s] = 0
      BY <1>2, <2>1
    <2> HIDE DEF open, f, g
    <2>3. SumFunction(F) = SumFunction(G)
      BY <1>1, <2>2, SumOfPart
    <2> QED BY <2>1, <2>3
  <1>5. routerExact => PoolsExact
    BY DEF FeesInv, PoolsInv
  <1>6. PoolsExact => totalRouted = protocolCut + providerCut + SumFunction(f)
    BY DEF PoolsExact
  <1>7. routerExact => totalRouted = protocolCut + providerCut
          + SumOver(LAMBDA s : feePools[s].balance + feePools[s].distributed, open)
    BY <1>3, <1>4, <1>5, <1>6
  <1>8. routerExact => \A s \in open :
          /\ feePools[s].collected = feePools[s].balance + feePools[s].distributed
          /\ feePools[s].distributed = handedOut[s]
    BY <1>5 DEF PoolsExact
  <1>9. treasuryExact =>
          /\ treasuryBalance + totalDistributed = totalCollected
          /\ totalDistributed
               = SumOver(LAMBDA i : SumOf(distributions[i]), DOMAIN distributions)
    BY DEF FeesInv, TreasuryInv, SumOver
  <1>10. Wrapped(treasuryBalance + totalDistributed) = totalCollected
    BY DEF FeesInv, TreasuryInv
  <1> QED BY <1>7, <1>8, <1>9, <1>10 DEF FeesAccounted

----------------------------------------------------------------------------
(* Block rewards *)

\* A bounded set of numbers has a greatest one.
LEMMA GreatestNat ==
  ASSUME NEW n \in Nat, NEW T \in SUBSET (0 .. n), T # {}
  PROVE  \E d \in T : \A e \in T : e <= d
  <1> DEFINE below == {n - d : d \in T}
  <1>1. below \in SUBSET Nat /\ below # {}
    <2>1. \A d \in T : d \in Nat /\ d <= n /\ n - d \in Nat
      OBVIOUS
    <2>2. PICK d : d \in T
      OBVIOUS
    <2>3. n - d \in below
      BY <2>2
    <2> QED BY <2>1, <2>3
  <1>2. PICK k \in below : \A m \in below : k <= m
    <2> HIDE DEF below
    <2> QED BY <1>1, LeastNat
  <1>3. PICK d \in T : k = n - d
    BY <1>2
  <1>4. ASSUME NEW e \in T
        PROVE  e <= d
    <2>1. n - d <= n - e
      BY <1>2, <1>3
    <2>2. d \in Nat /\ e \in Nat
      OBVIOUS
    <2> QED BY <2>1, <2>2
  <1> QED BY <1>4

LEMMA NoRest ==
  ASSUME NEW n \in Nat, NEW g \in Nat, g # 0, n % g = 0
  PROVE  n \div g \in Nat /\ n = g * (n \div g)
  <1>1. n \div g \in Nat /\ n = (n \div g) * g + (n % g)
    BY QuotientAndRest
  <1> DEFINE q == n \div g
  <1>2. (q * g) + 0 = g * q
    BY <1>1
  <1> QED BY <1>1, <1>2

\* Of two numbers the common divisor divides both.
Divides(g, a, b, x, y) ==
  /\ g = Gcd(a, b) /\ g # 0 /\ a = g * x /\ b = g * y
  /\ a \div g = x /\ b \div g = y

LEMMA GcdDivides ==
  \A a \in Nat, b \in Nat : \E g \in Nat, x \in Nat, y \in Nat : Divides(g, a, b, x, y)
  <1> SUFFICES ASSUME NEW a \in Nat, NEW b \in Nat
               PROVE  \E g \in Nat, x \in Nat, y \in Nat : Divides(g, a, b, x, y)
    OBVIOUS
  <1>1. CASE a = 0 \/ b = 0
    <2> DEFINE g == Larger(1, a + b)
    <2>1. Gcd(a, b) = g
      BY <1>1 DEF Gcd
    <2>2. g \in Nat /\ g # 0 /\ a % g = 0 /\ b % g = 0
      <3>1. g = (IF a = 0 /\ b = 0 THEN 1 ELSE a + b) /\ g \in Nat /\ g # 0
        BY <1>1 DEF Larger
      <3>2. 0 % g = 0 /\ g % g = 0
        <4>1. 0 < g /\ g * 0 + 0 = 0 /\ g * 1 + 0 = g
          BY <3>1
        <4>2. (g * 0 + 0) % g = 0 /\ (g * 1 + 0) % g = 0
          BY <3>1, <4>1, ModUnique
        <4> QED BY <4>1, <4>2
      <3>3. a = 0 \/ a = g
        BY <1>1, <3>1
      <3>4. b = 0 \/ b = g
        BY <1>1, <3>1
      <3> QED BY <3>1, <3>2, <3>3, <3>4
    <2> HIDE DEF g
    <2>3. a \div g \in Nat /\ a = g * (a \div g) /\ b \div g \in Nat /\ b = g * (b \div g)
      BY <2>2, NoRest
    <2> QED BY <2>1, <2>2, <2>3 DEF Divides
  <1>2. CASE ~(a = 0 \/ b = 0)
    <2> DEFINE Common(d) == a % d = 0 /\ b % d = 0
               T == {d \in 1 .. a : Common(d)}
    <2>1. Common(1)
      OBVIOUS
    <2>2. T \in SUBSET (0 .. a) /\ T # {}
      BY <1>2, <2>1
    <2>3. PICK d \in T : \A e \in T : e <= d
      <3> HIDE DEF T
      <3> QED BY <2>2, GreatestNat
    <2>4. \E c \in 1 .. a :
            /\ a % c = 0 /\ b % c = 0
            /\ \A n \in 1 .. a : a % n = 0 /\ b % n = 0 => n <= c
      <3>1. d \in 1 .. a /\ a % d = 0 /\ b % d = 0
        BY <2>3
      <3>2. \A n \in 1 .. a : a % n = 0 /\ b % n = 0 => n <= d
        BY <2>3
      <3> QED BY <3>1, <3>2
    <2>5. Gcd(a, b) = CHOOSE c \in 1 .. a :
            /\ a % c = 0 /\ b % c = 0
            /\ \A n \in 1 .. a : a % n = 0 /\ b % n = 0 => n <= c
      BY <1>2 DEF Gcd
    <2>6. Gcd(a, b) \in 1 .. a /\ a % Gcd(a, b) = 0 /\ b % Gcd(a, b) = 0
      BY <2>4, <2>5
    <2>7. PICK g : g = Gcd(a, b)
      OBVIOUS
    <2>8. g \in Nat /\ g # 0 /\ a % g = 0 /\ b % g = 0
      BY <2>6, <2>7
    <2>9. a \div g \in Nat /\ a = g * (a \div g) /\ b \div g \in Nat /\ b = g * (b \div g)
      BY <2>8, NoRest
    <2> QED BY <2>7, <2>8, <2>9 DEF Divides
  <1> QED BY <1>1, <1>2

\* A share is at most its part of the total, and is that part if the product that is left
\* after the two reductions fits.
LEMMA ShareIsPart ==
  ASSUME NEW total \in Nat, NEW stake \in Nat, NEW sum \in Nat, sum # 0
  PROVE  /\ ShareOf(total, stake, sum) \in Nat
         /\ sum * ShareOf(total, stake, sum) <= total * stake
         /\ Reduced(total, stake, sum).product < FeeModulus =>
              ShareOf(total, stake, sum) = (total * stake) \div sum
  <1>a. PICK g \in Nat, t \in Nat, u \in Nat : Divides(g, total, sum, t, u)
    BY GcdDivides
  <1>1. /\ g = Gcd(total, sum) /\ g # 0 /\ total = g * t /\ sum = g * u
        /\ total \div g = t /\ sum \div g = u
    BY <1>a DEF Divides
  <1>b. PICK h \in Nat, q \in Nat, s \in Nat : Divides(h, stake, u, q, s)
    BY GcdDivides
  <1>2. /\ h = Gcd(stake, u) /\ h # 0 /\ stake = h * q /\ u = h * s
        /\ stake \div h = q /\ u \div h = s
    BY <1>b DEF Divides
  <1>c. PICK f \in Nat, n \in Nat : f = g * h /\ n = t * q
    OBVIOUS
  <1>3. Reduced(total, stake, sum).product = n /\ Reduced(total, stake, sum).divisor = s
    BY <1>1, <1>2, <1>c DEF Reduced
  <1>4. ShareOf(total, stake, sum) = Wrapped(n) \div s
    BY <1>3 DEF ShareOf
  <1>5. s # 0
    <2>1. s = 0 => u = 0
      BY <1>2
    <2>2. u = 0 => sum = 0
      BY <1>1
    <2> QED BY <2>1, <2>2
  <1>6. f # 0
    <2>1. g * h # 0
      BY <1>1, <1>2
    <2> QED BY <1>c, <2>1
  <1>7. total * stake = f * n
    <2>1. (g * t) * (h * q) = (g * h) * (t * q)
      OBVIOUS
    <2> QED BY <1>1, <1>2, <1>c, <2>1
  <1>8. sum = f * s
    <2>1. g * (h * s) = (g * h) * s
      OBVIOUS
    <2> QED BY <1>1, <1>2, <1>c, <2>1
  <1>9. PICK w \in Nat : w = Wrapped(n) /\ w <= n /\ (n < FeeModulus => w = n)
    <2>1. n \in Int
      OBVIOUS
    <2> QED BY <2>1, WrappedAmount
  <1>10. (f * n) \div (f * s) = n \div s
    BY <1>5, <1>6, QuotientCancels
  <1>11. PICK d \in Nat : d = w \div s /\ s * d \in Nat /\ s * d <= w
    BY <1>5, QuotientTimes
  <1>12. sum * d <= total * stake
    <2>1. PICK i \in Nat : i = s * d
      BY <1>11
    <2>2. i <= n
      BY <1>9, <1>11, <2>1
    <2>3. f * i <= f * n
      BY <2>2, ProductGrows
    <2>4. (f * s) * d = f * (s * d)
      OBVIOUS
    <2> QED BY <1>7, <1>8, <2>1, <2>3, <2>4
  <1>13. n < FeeModulus => d = (total * stake) \div sum
    BY <1>7, <1>8, <1>9, <1>10, <1>11
  <1> QED BY <1>3, <1>4, <1>9, <1>11, <1>12, <1>13

\* What a set of emissions adds up to.
Amounts(S) == SumFunction([e \in S |-> e.amount])

Counted(S) == IsFiniteSet(S) /\ \A e \in S : e.amount \in Nat

LEMMA AmountsOnSet ==
  ASSUME NEW S, Counted(S)
  PROVE  \A f : (\A e \in S : f[e] = e.amount) => Amounts(S) = SumFunctionOnSet(f, S)
  <1> SUFFICES ASSUME NEW f, \A e \in S : f[e] = e.amount
               PROVE  Amounts(S) = SumFunctionOnSet(f, S)
    OBVIOUS
  <1> DEFINE g == [e \in S |-> e.amount]
  <1>1. Amounts(S) = SumFunctionOnSet(g, S)
    BY DEF Amounts, SumFunction
  <1>2. IsFiniteSet(S) /\ \A e \in S : g[e] = f[e]
    BY DEF Counted
  <1> HIDE DEF g
  <1>3. SumFunctionOnSet(g, S) = SumFunctionOnSet(f, S)
    BY <1>2, SumOnAgree
  <1> QED BY <1>1, <1>3

LEMMA AmountsPlus ==
  ASSUME NEW S, NEW T, Counted(S), Counted(T), S \cap T = {}
  PROVE  Counted(S \cup T) /\ Amounts(S \cup T) = Amounts(S) + Amounts(T)
  <1> DEFINE f == [e \in S \cup T |-> e.amount]
  <1>1. Counted(S \cup T)
    BY FS_Union DEF Counted
  <1>2. /\ \A e \in S \cup T : f[e] = e.amount
        /\ \A e \in S \cup T : f[e] \in Int
        /\ \A e \in S : f[e] = e.amount
        /\ \A e \in T : f[e] = e.amount
    BY DEF Counted
  <1> HIDE DEF f
  <1>3. /\ Amounts(S) = SumFunctionOnSet(f, S)
        /\ Amounts(T) = SumFunctionOnSet(f, T)
        /\ Amounts(S \cup T) = SumFunctionOnSet(f, S \cup T)
    BY <1>1, <1>2, AmountsOnSet
  <1>4. SumFunctionOnSet(f, S \cup T) = SumFunctionOnSet(f, S) + SumFunctionOnSet(f, T)
    BY <1>2, SumOnDisjoint DEF Counted
  <1> QED BY <1>1, <1>3, <1>4

LEMMA AmountsOfOne ==
  ASSUME NEW e, e.amount \in Nat
  PROVE  Counted({e}) /\ Amounts({e}) = e.amount
  <1> DEFINE f == [x \in {e} |-> x.amount]
  <1>1. Counted({e})
    BY FS_Singleton DEF Counted
  <1>2. IsFiniteSet({e}) /\ (\A x \in {e} : f[x] = x.amount) /\ \A x \in {e} : f[x] \in Int
    BY <1>1 DEF Counted
  <1>3. f[e] = e.amount /\ {e} \ {e} = {}
    OBVIOUS
  <1> HIDE DEF f
  <1>4. SumFunctionOnSet(f, {e}) = f[e] + SumFunctionOnSet(f, {e} \ {e})
    BY <1>2, SumOnTakeOut
  <1>5. SumFunctionOnSet(f, {e}) = f[e] + 0
    BY <1>3, <1>4, SumOnEmpty
  <1>6. Amounts({e}) = SumFunctionOnSet(f, {e})
    BY <1>1, <1>2, AmountsOnSet
  <1> QED BY <1>1, <1>3, <1>5, <1>6

LEMMA AmountsNat ==
  ASSUME NEW S, Counted(S)
  PROVE  Amounts(S) \in Nat
  <1> DEFINE f == [e \in S |-> e.amount]
  <1>1. f \in [S -> Nat] /\ IsFiniteSet(S)
    BY DEF Counted
  <1> HIDE DEF f
  <1>2. SumFunction(f) \in Nat
    BY <1>1, SumNat
  <1> QED BY <1>2 DEF Amounts, f

LEMMA CountedPart ==
  ASSUME NEW S, Counted(S), NEW T \in SUBSET S
  PROVE  Counted(T)
  BY FS_Subset DEF Counted

\* What the shares of a record are, if the sum of the stakes fits.
SharesFollow(total, stakes, shares) ==
  StakeSum(stakes) < FeeModulus =>
    /\ SumFunction(shares) <= total
    /\ \A a \in DOMAIN shares :
         Reduced(total, stakes[a], StakeSum(stakes)).product < FeeModulus =>
           shares[a] = (total * stakes[a]) \div StakeSum(stakes)

\* The schedule, over the sums of sets of emissions.
EmissionInv ==
  /\ EmissionTypeOK /\ Counted(emissionHistory)
  /\ \A e \in emissionHistory :
       /\ WeightSum(e.weights) < WeightModulus =>
            Amounts({f \in emissionHistory : f.height = e.height}) <= RewardAt(e.height)
       /\ SharesFollow(e.amount, e.stakes, e.shares)
  /\ totalEmitted = Wrapped(Amounts(emissionHistory))
  /\ \A s \in EmissionSubnet :
       subnetTotals[s] = Wrapped(Amounts({e \in emissionHistory : e.subnet = s}))

LEMMA EmissionInvImplies == EmissionInv => EmissionTypeOK /\ EmissionOnSchedule
  BY DEF EmissionInv, EmissionOnSchedule, SharesFollow, Amounts, SumOver

LEMMA EmissionInvInit == EmissionInit => EmissionInv
  <1> SUFFICES ASSUME EmissionInit PROVE EmissionInv
    OBVIOUS
  <1>1. Amounts({}) = 0
    <2> DEFINE f == [e \in {} |-> e.amount]
    <2>1. DOMAIN f = {}
      OBVIOUS
    <2> HIDE DEF f
    <2>2. SumFunction(f) = 0
      BY <2>1, SumOnEmpty DEF SumFunction
    <2> QED BY <2>2 DEF f, Amounts
  <1>2. Counted({})
    BY FS_EmptySet DEF Counted
  <1>3. /\ emissionHistory = {}
        /\ \A s \in EmissionSubnet : {e \in emissionHistory : e.subnet = s} = {}
    BY DEF EmissionInit
  <1>4. Wrapped(0) = 0
    <2>1. 0 \in Int /\ 0 \in Nat /\ 0 < FeeModulus
      BY FeesTyped DEF FeesTyped
    <2> QED BY <2>1, WrappedAmount
  <1> QED BY <1>1, <1>2, <1>3, <1>4 DEF EmissionInit, EmissionInv, EmissionTypeOK

\* The records of one emission: each subnet's part of the reward, together within it if the
\* sum of the weights fits.
LEMMA PartsOfReward ==
  ASSUME NEW D, IsFiniteSet(D), NEW weights \in [D -> Nat], NEW reward \in Nat,
         NEW sum \in Nat, sum # 0, NEW parts, DOMAIN parts = D,
         \A s \in D : parts[s] = Wrapped(reward * weights[s]) \div sum
  PROVE  /\ \A s \in D : parts[s] \in Nat
         /\ SumFunction(parts) \in Nat
         /\ SumFunction(weights) = sum => SumFunction(parts) <= reward
  <1> DEFINE made == [s \in D |-> Wrapped(reward * weights[s]) \div sum]
  <1>1. ASSUME NEW s \in D
        PROVE  /\ made[s] \in Nat /\ parts[s] = made[s]
               /\ sum * made[s] <= reward * weights[s]
    <2> DEFINE n == reward * weights[s]
               w == Wrapped(n)
    <2>1. n \in Nat /\ n \in Int /\ made[s] = w \div sum /\ parts[s] = made[s]
      OBVIOUS
    <2> HIDE DEF n, made
    <2>2. w \in Nat /\ w <= n
      BY <2>1, WrappedAmount
    <2> HIDE DEF w
    <2>3. w \div sum \in Nat /\ sum * (w \div sum) \in Nat /\ sum * (w \div sum) <= w
      BY <2>2, QuotientTimes
    <2>4. sum * (w \div sum) <= n
      <3>1. PICK k \in Nat : k = sum * (w \div sum)
        BY <2>3
      <3> QED BY <2>1, <2>2, <2>3, <3>1
    <2> QED BY <2>1, <2>3, <2>4 DEF n
  <1>2. made \in [D -> Nat] /\ DOMAIN made = D
    BY <1>1
  <1>3. \A s \in D : parts[s] = made[s] /\ sum * made[s] <= reward * weights[s]
    BY <1>1
  <1> HIDE DEF made
  <1>4. SumFunction(parts) = SumFunction(made)
    BY <1>2, <1>3, SumOnAgree DEF SumFunction
  <1>5. SumFunction(made) \in Nat
    BY <1>2, SumNat
  <1>6. ASSUME SumFunction(weights) = sum
        PROVE  SumFunction(made) <= reward
    <2>1. SumFunction(weights) # 0
          /\ \A s \in D : SumFunction(weights) * made[s] <= reward * weights[s]
      BY <1>3, <1>6
    <2> QED BY <1>2, <2>1, SharesWithin
  <1> QED BY <1>1, <1>4, <1>5, <1>6

LEMMA SplitIsPart ==
  ASSUME NEW total \in Nat, NEW stakes, \A a \in EmissionProvider : stakes[a] \in Nat
  PROVE  /\ \A a \in DOMAIN SplitByStake(total, stakes) :
              SplitByStake(total, stakes)[a] \in Nat
         /\ SharesFollow(total, stakes, SplitByStake(total, stakes))
  <1> DEFINE f == [a \in EmissionProvider |-> stakes[a]]
             split == SplitByStake(total, stakes)
  <1>1. f \in [EmissionProvider -> Nat] /\ IsFiniteSet(EmissionProvider)
    BY EmissionTyped
  <1>2. SumFunction(f) = StakeSum(stakes)
    BY DEF StakeSum, SumOver
  <1>3. PICK sum \in Nat : /\ sum = Wrapped(StakeSum(stakes))
                           /\ StakeSum(stakes) < FeeModulus => sum = StakeSum(stakes)
    <2> HIDE DEF f
    <2>1. PICK n \in Nat : n = StakeSum(stakes)
      BY <1>1, <1>2, SumNat
    <2>2. n \in Int
      OBVIOUS
    <2>3. Wrapped(n) \in 0 .. FeeModulus - 1 /\ (n < FeeModulus => Wrapped(n) = n)
      BY <2>2, WrappedAmount
    <2>4. Wrapped(n) \in Nat
      BY <2>3, FeesTyped DEF FeesTyped
    <2> QED BY <2>1, <2>3, <2>4
  <1> DEFINE T == {b \in EmissionProvider : stakes[b] > 0 /\ sum > 0}
             whole == [a \in EmissionProvider |-> IF a \in T THEN split[a] ELSE 0]
  <1>4. split = [a \in T |-> ShareOf(total, stakes[a], sum)]
    BY <1>3 DEF SplitByStake
  <1>5. ASSUME NEW a \in T
        PROVE  /\ split[a] \in Nat /\ sum * split[a] <= total * stakes[a]
               /\ Reduced(total, stakes[a], sum).product < FeeModulus =>
                    split[a] = (total * stakes[a]) \div sum
    <2>1. stakes[a] \in Nat /\ sum # 0 /\ split[a] = ShareOf(total, stakes[a], sum)
      BY <1>4
    <2> HIDE DEF split, T
    <2> QED BY <2>1, ShareIsPart
  <1>6. /\ T \in SUBSET EmissionProvider /\ DOMAIN split = T
        /\ split \in [T -> Int] /\ whole \in [EmissionProvider -> Nat]
        /\ \A a \in T : whole[a] = split[a]
        /\ \A a \in EmissionProvider \ T : whole[a] = 0
    <2>1. DOMAIN split = T /\ split \in [T -> Nat]
      BY <1>4, <1>5
    <2> HIDE DEF split
    <2> QED BY <2>1
  <1>7. \A a \in EmissionProvider : whole[a] \in Int
    BY <1>6
  <1>8. SumFunction(whole) = SumFunction(split)
    <2> HIDE DEF whole, split, T, f
    <2>1. whole \in [EmissionProvider -> Int]
      BY <1>6
    <2> QED BY <1>1, <1>6, <2>1, SumOfPart
  <1>9. ASSUME sum = StakeSum(stakes)
        PROVE  SumFunction(whole) <= total
    <2>1. CASE sum = 0
      <3>1. DOMAIN whole = EmissionProvider /\ \A a \in EmissionProvider : whole[a] = 0
        BY <2>1
      <3> HIDE DEF whole
      <3>2. SumFunction(whole) = 0
        BY <1>1, <3>1, SumZero
      <3> QED BY <3>2
    <2>2. CASE sum # 0
      <3>1. ASSUME NEW a \in EmissionProvider
            PROVE  sum * whole[a] <= total * f[a]
        <4>1. f[a] = stakes[a] /\ stakes[a] \in Nat
          OBVIOUS
        <4>2. CASE a \in T
          BY <1>5, <4>1, <4>2
        <4>3. CASE a \notin T
          <5>1. whole[a] = 0 /\ sum * 0 = 0 /\ total * f[a] \in Nat
            BY <1>6, <4>1, <4>3
          <5> QED BY <5>1
        <4> QED BY <4>2, <4>3
      <3>2. SumFunction(f) # 0
            /\ \A a \in EmissionProvider : SumFunction(f) * whole[a] <= total * f[a]
        <4>1. SumFunction(f) = sum
          BY <1>2, <1>9
        <4> HIDE DEF f, whole
        <4> QED BY <2>2, <3>1, <4>1
      <3> HIDE DEF f, whole
      <3> QED BY <1>1, <1>6, <3>2, SharesWithin
    <2> QED BY <2>1, <2>2
  <1>10. SharesFollow(total, stakes, split)
    <2>1. StakeSum(stakes) < FeeModulus => SumFunction(split) <= total
      BY <1>3, <1>8, <1>9
    <2>2. ASSUME StakeSum(stakes) < FeeModulus, NEW a \in DOMAIN split,
                 Reduced(total, stakes[a], StakeSum(stakes)).product < FeeModulus
          PROVE  split[a] = (total * stakes[a]) \div StakeSum(stakes)
      <3>1. a \in T /\ sum = StakeSum(stakes)
        BY <1>3, <1>6, <2>2
      <3> HIDE DEF split, T
      <3> QED BY <1>5, <2>2, <3>1
    <2> HIDE DEF split
    <2> QED BY <2>1, <2>2 DEF SharesFollow
  <1>11. \A a \in DOMAIN split : split[a] \in Nat
    BY <1>5, <1>6
  <1> QED BY <1>10, <1>11

LEMMA EmissionInvStep ==
  ASSUME EmissionInv, [EmissionNext]_emissionVars
  PROVE  EmissionInv'
  <1>1. CASE UNCHANGED emissionVars
    BY <1>1 DEF emissionVars, EmissionInv, EmissionTypeOK, Counted, Amounts
  <1>2. ASSUME NEW height \in EmissionHeights, NEW weights \in SubnetWeights,
               NEW stakes \in ProviderStakes, Emit(height, weights, stakes)
        PROVE  EmissionInv'
    <2> DEFINE reward == RewardAt(height)
               D == DOMAIN weights
               W == [s \in D |-> weights[s]]
               sum == WeightSum(weights) % WeightModulus
               amount(s) == Wrapped(reward * weights[s]) \div sum
               rec(s) == [subnet |-> s, amount |-> amount(s), height |-> height,
                          weights |-> weights, stakes |-> stakes[s],
                          shares |-> SplitByStake(amount(s), stakes[s])]
               new == {rec(s) : s \in D}
               old == emissionHistory
               parts == [s \in D |-> amount(s)]
    <2>1. /\ \A e \in old : e.height # height
          /\ sum > 0 /\ reward > 0
          /\ emissionHistory' = old \cup new
          /\ subnetTotals' = [s \in EmissionSubnet |->
               IF s \in D THEN Wrapped(subnetTotals[s] + amount(s)) ELSE subnetTotals[s]]
          /\ totalEmitted' = Wrapped(totalEmitted + SumFunction(parts))
          /\ lastEmissionHeight' = height
      BY <1>2 DEF Emit, SumOver
    <2>2. /\ reward \in Nat /\ height \in Nat
          /\ D \in SUBSET EmissionSubnet /\ IsFiniteSet(D)
          /\ W \in [D -> Nat] /\ WeightSum(weights) = SumFunction(W)
          /\ WeightModulus \in Nat \ {0}
          /\ \A s \in D, a \in EmissionProvider : stakes[s][a] \in Nat
      BY RewardsTyped, EmissionTyped, FS_Subset DEF WeightSum, SumOver
    <2>a. /\ sum \in Nat /\ sum # 0 /\ WeightSum(weights) \in Nat
          /\ WeightSum(weights) < WeightModulus => SumFunction(W) = sum
      <3>1. PICK n \in Nat : n = WeightSum(weights)
        BY <2>2, SumNat
      <3>a. n \in Int /\ WeightModulus \in Nat \ {0}
        BY <2>2
      <3>2. n % WeightModulus \in 0 .. WeightModulus - 1
            /\ (n < WeightModulus => n % WeightModulus = n)
        BY <3>a, DivMod, ModSmall
      <3> QED BY <2>1, <2>2, <3>1, <3>2
    <2>3. /\ \A s \in D : parts[s] \in Nat
          /\ SumFunction(parts) \in Nat
          /\ WeightSum(weights) < WeightModulus => SumFunction(parts) <= reward
      <3>1. DOMAIN parts = D /\ \A s \in D : parts[s] = Wrapped(reward * W[s]) \div sum
        OBVIOUS
      <3> HIDE DEF parts, W, reward, sum
      <3>2. /\ \A s \in D : parts[s] \in Nat
            /\ SumFunction(parts) \in Nat
            /\ SumFunction(W) = sum => SumFunction(parts) <= reward
        BY <2>2, <2>a, <3>1, PartsOfReward
      <3> QED BY <2>a, <3>2
    <2>4. \A s \in D : amount(s) \in Nat
      BY <2>3
    <2>5. \A s \in D : /\ rec(s).subnet = s /\ rec(s).amount = amount(s)
                       /\ rec(s).height = height /\ rec(s).weights = weights
                       /\ rec(s).stakes = stakes[s]
                       /\ rec(s).shares = SplitByStake(amount(s), stakes[s])
      OBVIOUS
    <2>6. ASSUME NEW s \in D
          PROVE  /\ \A a \in DOMAIN rec(s).shares : rec(s).shares[a] \in Nat
                 /\ SharesFollow(rec(s).amount, rec(s).stakes, rec(s).shares)
      <3>a. PICK n \in Nat : n = amount(s)
        BY <2>4
      <3>b. PICK k : k = stakes[s]
        OBVIOUS
      <3>1. n = amount(s) /\ k = stakes[s] /\ \A a \in EmissionProvider : k[a] \in Nat
        BY <2>2, <3>a, <3>b
      <3>2. rec(s).amount = n /\ rec(s).stakes = k /\ rec(s).shares = SplitByStake(n, k)
        BY <2>5, <3>1
      <3> HIDE DEF amount, rec
      <3> QED BY <3>1, <3>2, SplitIsPart
    <2> HIDE DEF amount, W, reward, sum
    <2>7. Counted(new) /\ Amounts(new) = SumFunction(parts)
      <3> DEFINE e == [s \in D |-> rec(s)]
                 g == [x \in new |-> x.amount]
      <3>1. new = {e[s] : s \in D}
        OBVIOUS
      <3>2. IsFiniteSet(new)
        <4> HIDE DEF e, new
        <4> QED BY <2>2, <3>1, FiniteImage
      <3>3. \A x \in new : x.amount \in Nat
        BY <2>4, <2>5
      <3>4. parts \in [D -> Int] /\ g \in [new -> Int]
        BY <2>4, <3>3
      <3>5. \A s \in D, t \in D : e[s] = e[t] => s = t
        BY <2>5
      <3>6. \A s \in D : g[e[s]] = parts[s]
        BY <2>5
      <3>7. Amounts(new) = SumFunction(g)
        BY DEF Amounts
      <3> HIDE DEF e, g, new, parts
      <3>8. SumFunction(g) = SumFunction(parts)
        BY <2>2, <3>1, <3>4, <3>5, <3>6, SumOfImage
      <3> QED BY <3>2, <3>3, <3>7, <3>8 DEF Counted
    <2>8. /\ new \cap old = {} /\ Counted(old)
          /\ \A e \in new : e.height = height /\ e.weights = weights
      BY <2>1, <2>5 DEF EmissionInv
    <2>9. Counted(old \cup new) /\ Amounts(old \cup new) = Amounts(old) + Amounts(new)
      BY <2>7, <2>8, AmountsPlus
    <2> HIDE DEF parts
    <2>10. totalEmitted' = Wrapped(Amounts(old \cup new))
      <3>1. PICK n \in Int, k \in Int : n = Amounts(old) /\ k = SumFunction(parts)
        BY <2>3, <2>8, AmountsNat
      <3>2. Wrapped(Wrapped(n) + k) = Wrapped(n + k)
        BY WrappedPlus
      <3> QED BY <2>1, <2>7, <2>9, <3>1, <3>2 DEF EmissionInv
    <2>11. \A e \in old \cup new : WeightSum(e.weights) < WeightModulus =>
             Amounts({f \in old \cup new : f.height = e.height}) <= RewardAt(e.height)
      <3>1. ASSUME NEW e \in old, WeightSum(e.weights) < WeightModulus
            PROVE  Amounts({f \in old \cup new : f.height = e.height}) <= RewardAt(e.height)
        <4>1. {f \in old \cup new : f.height = e.height} = {f \in old : f.height = e.height}
          BY <2>1, <2>8
        <4> QED BY <3>1, <4>1 DEF EmissionInv
      <3>2. ASSUME NEW e \in new, WeightSum(e.weights) < WeightModulus
            PROVE  Amounts({f \in old \cup new : f.height = e.height}) <= RewardAt(e.height)
        <4>1. {f \in old \cup new : f.height = e.height} = new /\ e.height = height
          BY <2>1, <2>8
        <4>2. Amounts(new) <= RewardAt(height)
          BY <2>3, <2>7, <2>8, <3>2 DEF reward
        <4> QED BY <4>1, <4>2
      <3> QED BY <3>1, <3>2
    <2>12. \A s \in EmissionSubnet :
             subnetTotals'[s] = Wrapped(Amounts({e \in old \cup new : e.subnet = s}))
      <3> SUFFICES ASSUME NEW s \in EmissionSubnet
                   PROVE  subnetTotals'[s] = Wrapped(Amounts({e \in old \cup new : e.subnet = s}))
        OBVIOUS
      <3> DEFINE was == {e \in old : e.subnet = s}
      <3>1. subnetTotals[s] = Wrapped(Amounts(was))
        BY DEF EmissionInv
      <3>2. CASE s \in D
        <4>1. {e \in old \cup new : e.subnet = s} = was \cup {rec(s)}
          BY <2>5, <3>2
        <4>2. rec(s).amount \in Nat /\ rec(s).amount = amount(s) /\ rec(s) \notin old
          BY <2>4, <2>5, <2>8, <3>2
        <4>3. subnetTotals'[s] = Wrapped(subnetTotals[s] + amount(s))
          BY <2>1, <3>2
        <4>4. Counted(was) /\ was \cap {rec(s)} = {}
          BY <2>8, <4>2, CountedPart
        <4> HIDE DEF rec, was
        <4>5. PICK r : r = rec(s)
          OBVIOUS
        <4>6. Counted({r}) /\ Amounts({r}) = r.amount
          BY <4>2, <4>5, AmountsOfOne
        <4>7. Amounts(was \cup {r}) = Amounts(was) + Amounts({r})
          BY <4>4, <4>5, <4>6, AmountsPlus
        <4>8. PICK n \in Int, k \in Int : n = Amounts(was) /\ k = amount(s)
          BY <4>2, <4>4, AmountsNat
        <4>9. Wrapped(Wrapped(n) + k) = Wrapped(n + k)
          BY WrappedPlus
        <4> QED BY <3>1, <4>1, <4>2, <4>3, <4>5, <4>6, <4>7, <4>8, <4>9
      <3>3. CASE s \notin D
        <4>1. {e \in old \cup new : e.subnet = s} = was
          BY <2>5, <3>3
        <4>2. subnetTotals'[s] = subnetTotals[s]
          BY <2>1, <3>3
        <4> QED BY <3>1, <4>1, <4>2
      <3> QED BY <3>2, <3>3
    <2>13. \A e \in old \cup new : SharesFollow(e.amount, e.stakes, e.shares)
      <3>1. \A e \in old : SharesFollow(e.amount, e.stakes, e.shares)
        BY DEF EmissionInv
      <3>2. \A s \in D : SharesFollow(rec(s).amount, rec(s).stakes, rec(s).shares)
        BY <2>6
      <3> HIDE DEF rec
      <3> QED BY <3>1, <3>2
    <2>14. EmissionTypeOK'
      <3>1. \A s \in D : /\ rec(s).subnet \in EmissionSubnet /\ rec(s).amount \in Nat
                         /\ rec(s).height \in Nat
                         /\ \A a \in DOMAIN rec(s).shares : rec(s).shares[a] \in Nat
        BY <2>2, <2>4, <2>5, <2>6
      <3>2. subnetTotals' \in [EmissionSubnet -> Nat]
        <4> SUFFICES ASSUME NEW s \in EmissionSubnet
                     PROVE  subnetTotals'[s] \in Nat
          BY <2>1
        <4>1. subnetTotals[s] \in Nat
          BY DEF EmissionInv, EmissionTypeOK
        <4>2. CASE s \in D
          <5>1. PICK n \in Int : n = subnetTotals[s] + amount(s)
            BY <2>4, <4>1, <4>2
          <5>2. subnetTotals'[s] = Wrapped(n)
            BY <2>1, <4>2, <5>1
          <5> QED BY <5>2, WrappedNat
        <4>3. CASE s \notin D
          BY <2>1, <4>1, <4>3
        <4> QED BY <4>2, <4>3
      <3>3. totalEmitted' \in Nat /\ lastEmissionHeight' \in Nat
        <4>1. PICK n \in Int : n = totalEmitted + SumFunction(parts)
          BY <2>3 DEF EmissionInv, EmissionTypeOK
        <4>2. totalEmitted' = Wrapped(n)
          BY <2>1, <4>1
        <4> QED BY <2>1, <2>2, <4>2, WrappedNat
      <3> HIDE DEF rec
      <3>4. \A e \in old \cup new :
              /\ e.subnet \in EmissionSubnet /\ e.amount \in Nat /\ e.height \in Nat
              /\ \A a \in DOMAIN e.shares : e.shares[a] \in Nat
        BY <3>1 DEF EmissionInv, EmissionTypeOK
      <3> HIDE DEF new
      <3> QED BY <2>1, <3>2, <3>3, <3>4 DEF EmissionTypeOK
    <2> HIDE DEF new
    <2> QED BY <2>1, <2>9, <2>10, <2>11, <2>12, <2>13, <2>14
            DEF EmissionInv, Counted, Amounts
  <1> QED BY <1>1, <1>2 DEF EmissionNext


----------------------------------------------------------------------------
(* Stakes in subnets *)

ActiveIn(x) == IF x = NoStake THEN 0 ELSE x.amount

UnbondingIn(x) == IF x = NoStake THEN 0 ELSE SumFunction(x.unbonding)

ReleaseHeights == 0 .. MaxNow + SubnetUnbondingPeriod

ActiveOf(s) == [a \in StakingProvider |-> ActiveIn(subnetStakes[<<s, a>>])]

\* One subnet's and one provider's stake, over what it is made of; and a subnet's total.
SubnetStakingInv ==
  /\ SubnetStakingTypeOK
  /\ \A k \in Staking :
       stakedIn[k] = ActiveIn(subnetStakes[k]) + UnbondingIn(subnetStakes[k])
                       + stakeReleased[k] + stakeSlashed[k]
  /\ \A s \in StakingSubnet : totalBySubnet[s] = SumFunction(ActiveOf(s))

LEMMA SubnetStakeFields ==
  \A x \in SubnetStake : /\ x # NoStake /\ x.amount \in Nat
                         /\ x.unbonding \in [ReleaseHeights -> Nat]
  BY SubnetStakingTyped DEF SubnetStakingTyped, SubnetStake, ReleaseHeights

LEMMA HeightsOfRelease ==
  IsFiniteSet(ReleaseHeights) /\ \A h \in 0 .. MaxNow : h + SubnetUnbondingPeriod \in ReleaseHeights
  <1>1. MaxNow + SubnetUnbondingPeriod \in Nat /\ SubnetUnbondingPeriod \in Nat /\ MaxNow \in Nat
    BY SubnetStakingTyped, HeightsTyped DEF SubnetStakingTyped
  <1>2. IsFiniteSet(ReleaseHeights)
    BY <1>1, FS_Interval DEF ReleaseHeights
  <1> QED BY <1>1, <1>2 DEF ReleaseHeights

LEMMA PartsOfStake ==
  \A x \in SubnetStake \cup {NoStake} : ActiveIn(x) \in Nat /\ UnbondingIn(x) \in Nat
  <1> SUFFICES ASSUME NEW x \in SubnetStake
               PROVE  x.amount \in Nat /\ SumFunction(x.unbonding) \in Nat
    BY DEF ActiveIn, UnbondingIn
  <1> QED BY SubnetStakeFields, HeightsOfRelease, SumNat

LEMMA SubnetStakingInvImplies == SubnetStakingInv => SubnetStakeAccounted
  <1> SUFFICES ASSUME SubnetStakingInv PROVE SubnetStakeAccounted
    OBVIOUS
  <1>1. ASSUME NEW k \in Staking
        PROVE  /\ ActiveStake(k) = ActiveIn(subnetStakes[k])
               /\ UnbondingStake(k) = UnbondingIn(subnetStakes[k])
    <2>1. subnetStakes[k] \in SubnetStake \cup {NoStake}
      BY DEF SubnetStakingInv, SubnetStakingTypeOK
    <2>2. CASE subnetStakes[k] = NoStake
      BY <2>2 DEF ActiveStake, ActiveIn, UnbondingStake, UnbondingIn
    <2>3. CASE subnetStakes[k] \in SubnetStake
      <3> DEFINE u == subnetStakes[k].unbonding
      <3>1. subnetStakes[k] # NoStake /\ u \in [ReleaseHeights -> Nat]
        BY <2>3, SubnetStakeFields
      <3>2. [h \in DOMAIN u |-> u[h]] = u
        BY <3>1
      <3> QED BY <3>1, <3>2 DEF ActiveStake, ActiveIn, UnbondingStake, UnbondingIn, SumOver
    <2> QED BY <2>1, <2>2, <2>3
  <1>2. ASSUME NEW s \in StakingSubnet
        PROVE  SumOver(LAMBDA a : ActiveStake(<<s, a>>), StakingProvider) = SumFunction(ActiveOf(s))
    <2>1. \A a \in StakingProvider : <<s, a>> \in Staking
      BY DEF Staking
    <2>2. [a \in StakingProvider |-> ActiveStake(<<s, a>>)] = ActiveOf(s)
      BY <1>1, <2>1 DEF ActiveOf
    <2> QED BY <2>2 DEF SumOver
  <1> QED BY <1>1, <1>2 DEF SubnetStakingInv, SubnetStakeAccounted

\* One stake becomes another, and what differs came in, was released or was slashed.
LEMMA StakeMoves ==
  ASSUME SubnetStakingInv, NEW s \in StakingSubnet, NEW a \in StakingProvider,
         NEW new \in SubnetStake, subnetStakes' = [subnetStakes EXCEPT ![<<s, a>>] = new],
         NEW i \in Nat, NEW r \in Nat, NEW x \in Nat,
         stakedIn' = [stakedIn EXCEPT ![<<s, a>>] = @ + i],
         stakeReleased' = [stakeReleased EXCEPT ![<<s, a>>] = @ + r],
         stakeSlashed' = [stakeSlashed EXCEPT ![<<s, a>>] = @ + x],
         ActiveIn(subnetStakes[<<s, a>>]) + UnbondingIn(subnetStakes[<<s, a>>]) + i
           = ActiveIn(new) + UnbondingIn(new) + r + x,
         NEW total \in Nat, totalBySubnet' = [totalBySubnet EXCEPT ![s] = total],
         total = totalBySubnet[s] - ActiveIn(subnetStakes[<<s, a>>]) + ActiveIn(new),
         UNCHANGED discountTiers
  PROVE  SubnetStakingInv'
  <1> DEFINE k == <<s, a>>
             old == subnetStakes[k]
             f == ActiveOf(s)
             g == ActiveOf(s)'
  <1>1. k \in Staking
    BY DEF Staking
  <1>2. SubnetStakingTypeOK
    BY DEF SubnetStakingInv
  <1>3. /\ subnetStakes' \in [Staking -> SubnetStake \cup {NoStake}]
        /\ subnetStakes'[k] = new /\ \A l \in Staking \ {k} : subnetStakes'[l] = subnetStakes[l]
    BY <1>1, <1>2 DEF SubnetStakingTypeOK
  <1>4. SubnetStakingTypeOK'
    BY <1>1, <1>2, <1>3 DEF SubnetStakingTypeOK
  <1>5. ASSUME NEW l \in Staking
        PROVE  stakedIn'[l] = ActiveIn(subnetStakes'[l]) + UnbondingIn(subnetStakes'[l])
                                + stakeReleased'[l] + stakeSlashed'[l]
    <2>1. stakedIn[l] = ActiveIn(subnetStakes[l]) + UnbondingIn(subnetStakes[l])
                          + stakeReleased[l] + stakeSlashed[l]
      BY DEF SubnetStakingInv
    <2>2. CASE l # k
      BY <1>1, <1>2, <1>3, <2>1, <2>2 DEF SubnetStakingTypeOK
    <2>3. CASE l = k
      <3>1. /\ stakedIn'[k] = stakedIn[k] + i /\ stakeReleased'[k] = stakeReleased[k] + r
            /\ stakeSlashed'[k] = stakeSlashed[k] + x
            /\ stakedIn[k] \in Nat /\ stakeReleased[k] \in Nat /\ stakeSlashed[k] \in Nat
        BY <1>1, <1>2 DEF SubnetStakingTypeOK
      <3>2. /\ ActiveIn(old) \in Nat /\ UnbondingIn(old) \in Nat
            /\ ActiveIn(new) \in Nat /\ UnbondingIn(new) \in Nat
        BY <1>1, <1>2, PartsOfStake DEF SubnetStakingTypeOK
      <3>3. subnetStakes'[l] = new
        BY <1>3, <2>3
      <3>4. PICK e \in Nat, t \in Nat, u \in Nat : e = stakedIn[k] /\ t = stakeReleased[k]
                                                  /\ u = stakeSlashed[k]
        BY <3>1
      <3>5. e + i = ActiveIn(new) + UnbondingIn(new) + (t + r) + (u + x)
        BY <2>1, <2>3, <3>2, <3>4
      <3> QED BY <2>3, <3>1, <3>3, <3>4, <3>5
    <2> QED BY <2>2, <2>3
  <1>6. ASSUME NEW q \in StakingSubnet
        PROVE  totalBySubnet'[q] = SumFunction(ActiveOf(q)')
    <2>1. totalBySubnet[q] = SumFunction(ActiveOf(q))
      BY DEF SubnetStakingInv
    <2>2. CASE q # s
      <3>1. \A b \in StakingProvider : <<q, b>> \in Staking \ {k}
        BY <2>2 DEF Staking
      <3>2. ActiveOf(q)' = ActiveOf(q)
        BY <1>3, <3>1 DEF ActiveOf
      <3>3. totalBySubnet'[q] = totalBySubnet[q]
        BY <1>2, <2>2 DEF SubnetStakingTypeOK
      <3> QED BY <2>1, <3>2, <3>3
    <2>3. CASE q = s
      <3>1. \A b \in StakingProvider \ {a} : <<s, b>> \in Staking \ {k}
        BY DEF Staking
      <3>2. \A b \in StakingProvider : <<s, b>> \in Staking
        BY DEF Staking
      <3>3. f \in [StakingProvider -> Nat] /\ g \in [StakingProvider -> Nat]
        BY <1>2, <1>3, <3>2, PartsOfStake DEF ActiveOf, SubnetStakingTypeOK
      <3>4. f[a] = ActiveIn(old) /\ g[a] = ActiveIn(new)
            /\ \A b \in StakingProvider \ {a} : g[b] = f[b]
        BY <1>3, <3>1 DEF ActiveOf
      <3>5. IsFiniteSet(StakingProvider)
        BY SubnetStakingTyped DEF SubnetStakingTyped
      <3>6. totalBySubnet'[s] = total /\ totalBySubnet[s] = SumFunction(f)
        BY <1>2, <2>1, <2>3 DEF SubnetStakingTypeOK
      <3>7. PICK F, G : F = f /\ G = g
        OBVIOUS
      <3> HIDE DEF f, g
      <3>8. SumFunction(G) = SumFunction(F) - F[a] + G[a] /\ SumFunction(F) \in Nat
        BY <3>3, <3>4, <3>5, <3>7, SumUpdate, SumNat
      <3>9. SumFunction(g) = total
        BY <3>4, <3>6, <3>7, <3>8
      <3> QED BY <2>3, <3>6, <3>9 DEF g
    <2> QED BY <2>2, <2>3
  <1> QED BY <1>4, <1>5, <1>6 DEF SubnetStakingInv


\* The entry a call is about: its types, its part of the subnet's total, and the histories
\* that stay as they are.
LEMMA EntryOfStake ==
  ASSUME SubnetStakingInv, NEW s \in StakingSubnet, NEW a \in StakingProvider
  PROVE  /\ <<s, a>> \in Staking
         /\ subnetStakes[<<s, a>>] \in SubnetStake \cup {NoStake}
         /\ totalBySubnet[s] \in Nat /\ totalBySubnet \in [StakingSubnet -> Nat]
         /\ ActiveIn(subnetStakes[<<s, a>>]) \in Nat
         /\ ActiveIn(subnetStakes[<<s, a>>]) <= totalBySubnet[s]
         /\ \A h \in {stakedIn, stakeReleased, stakeSlashed} :
              h \in [Staking -> Nat] /\ h = [h EXCEPT ![<<s, a>>] = @ + 0]
  <1>1. <<s, a>> \in Staking
    BY DEF Staking
  <1>2. SubnetStakingTypeOK
    BY DEF SubnetStakingInv
  <1> DEFINE f == ActiveOf(s)
  <1>3. f \in [StakingProvider -> Nat] /\ f[a] = ActiveIn(subnetStakes[<<s, a>>])
    BY <1>2, PartsOfStake DEF ActiveOf, SubnetStakingTypeOK, Staking
  <1>4. totalBySubnet[s] = SumFunction(f)
    BY DEF SubnetStakingInv
  <1> HIDE DEF f
  <1>5. f[a] <= SumFunction(f) /\ f[a] \in Nat
    BY <1>3, SumAtLeast, SubnetStakingTyped DEF SubnetStakingTyped
  <1>6. ASSUME NEW h \in [Staking -> Nat]
        PROVE  h = [h EXCEPT ![<<s, a>>] = @ + 0]
    BY <1>1
  <1> QED BY <1>1, <1>2, <1>3, <1>4, <1>5, <1>6 DEF SubnetStakingTypeOK

LEMMA StakeKeepsInv ==
  ASSUME SubnetStakingInv, NEW s \in StakingSubnet, NEW a \in StakingProvider,
         NEW amount \in SubnetStakeAmounts, NEW reputation \in Reputations,
         StakeInSubnet(s, a, amount, reputation)
  PROVE  SubnetStakingInv'
  <1> DEFINE zero == [h \in ReleaseHeights |-> 0]
             new == [amount |-> amount, unbonding |-> zero]
             total == totalBySubnet[s] + amount
  <1>1. amount \in Nat
    BY SubnetStakingTyped DEF SubnetStakingTyped
  <1>2. SumFunction(zero) = 0
    <2>1. DOMAIN zero = ReleaseHeights /\ \A h \in ReleaseHeights : zero[h] = 0
      OBVIOUS
    <2> HIDE DEF zero
    <2> QED BY <2>1, HeightsOfRelease, SumZero
  <1>3. new \in SubnetStake /\ new.amount = amount /\ new.unbonding = zero
    BY <1>1 DEF SubnetStake, ReleaseHeights
  <1>4. ActiveIn(new) = amount /\ UnbondingIn(new) = 0
    BY <1>2, <1>3, SubnetStakeFields DEF ActiveIn, UnbondingIn
  <1>5. /\ subnetStakes[<<s, a>>] = NoStake
        /\ subnetStakes' = [subnetStakes EXCEPT ![<<s, a>>] = new]
        /\ stakedIn' = [stakedIn EXCEPT ![<<s, a>>] = @ + amount]
        /\ UNCHANGED <<discountTiers, stakeReleased, stakeSlashed>>
        /\ totalBySubnet' = [totalBySubnet EXCEPT ![s] = total]
    BY EntryOfStake DEF StakeInSubnet, AddTotal, ReleaseHeights
  <1>6. ActiveIn(subnetStakes[<<s, a>>]) = 0 /\ UnbondingIn(subnetStakes[<<s, a>>]) = 0
    BY <1>5 DEF ActiveIn, UnbondingIn
  <1>7. total \in Nat /\ total = totalBySubnet[s] - ActiveIn(subnetStakes[<<s, a>>]) + ActiveIn(new)
    <2>1. totalBySubnet[s] \in Nat
      BY EntryOfStake
    <2> QED BY <1>1, <1>4, <1>6, <2>1
  <1>8. /\ stakeReleased' = [stakeReleased EXCEPT ![<<s, a>>] = @ + 0]
        /\ stakeSlashed' = [stakeSlashed EXCEPT ![<<s, a>>] = @ + 0]
    BY <1>5, EntryOfStake
  <1> HIDE DEF new, total
  <1>9. ActiveIn(subnetStakes[<<s, a>>]) + UnbondingIn(subnetStakes[<<s, a>>]) + amount
          = ActiveIn(new) + UnbondingIn(new) + 0 + 0
    BY <1>1, <1>4, <1>6
  <1>10. UNCHANGED discountTiers /\ 0 \in Nat
    BY <1>5
  <1> QED BY <1>1, <1>3, <1>5, <1>7, <1>8, <1>9, <1>10, StakeMoves

LEMMA AddStakeKeepsInv ==
  ASSUME SubnetStakingInv, NEW s \in StakingSubnet, NEW a \in StakingProvider,
         NEW amount \in SubnetStakeAmounts, AddStake(s, a, amount)
  PROVE  SubnetStakingInv'
  <1> DEFINE old == subnetStakes[<<s, a>>]
             n == old.amount + amount
             new == [old EXCEPT !.amount = n]
             total == totalBySubnet[s] + amount
  <1>1. amount \in Nat
    BY SubnetStakingTyped DEF SubnetStakingTyped
  <1>2. /\ old # NoStake /\ old \in SubnetStake
        /\ subnetStakes' = [subnetStakes EXCEPT ![<<s, a>>] = new]
        /\ stakedIn' = [stakedIn EXCEPT ![<<s, a>>] = @ + amount]
        /\ UNCHANGED <<discountTiers, stakeReleased, stakeSlashed>>
        /\ totalBySubnet' = [totalBySubnet EXCEPT ![s] = total]
    BY EntryOfStake DEF AddStake, AddTotal
  <1>3. old.amount \in Nat /\ n \in Nat /\ old.unbonding \in [ReleaseHeights -> Nat]
    BY <1>1, <1>2, SubnetStakeFields
  <1>4. new \in SubnetStake /\ new.amount = n /\ new.unbonding = old.unbonding
    BY <1>2, <1>3 DEF SubnetStake, ReleaseHeights
  <1>5. /\ ActiveIn(new) = old.amount + amount /\ UnbondingIn(new) = UnbondingIn(old)
        /\ ActiveIn(old) = old.amount /\ UnbondingIn(old) \in Nat
    BY <1>2, <1>4, SubnetStakeFields, PartsOfStake DEF ActiveIn, UnbondingIn
  <1>6. total \in Nat /\ total = totalBySubnet[s] - ActiveIn(old) + ActiveIn(new)
    <2>1. totalBySubnet[s] \in Nat
      BY EntryOfStake
    <2> QED BY <1>1, <1>3, <1>5, <2>1
  <1>7. /\ stakeReleased' = [stakeReleased EXCEPT ![<<s, a>>] = @ + 0]
        /\ stakeSlashed' = [stakeSlashed EXCEPT ![<<s, a>>] = @ + 0]
    BY <1>2, EntryOfStake
  <1> HIDE DEF new, total
  <1>8. ActiveIn(old) + UnbondingIn(old) + amount = ActiveIn(new) + UnbondingIn(new) + 0 + 0
    BY <1>1, <1>3, <1>5
  <1>9. UNCHANGED discountTiers /\ 0 \in Nat
    BY <1>2
  <1> QED BY <1>1, <1>2, <1>4, <1>6, <1>7, <1>8, <1>9, StakeMoves

LEMMA BeginUnstakeKeepsInv ==
  ASSUME SubnetStakingInv, now \in 0 .. MaxNow,
         NEW s \in StakingSubnet, NEW a \in StakingProvider,
         NEW amount \in SubnetStakeAmounts, BeginUnstake(s, a, amount)
  PROVE  SubnetStakingInv'
  <1> DEFINE old == subnetStakes[<<s, a>>]
             n == old.amount - amount
             h == now + SubnetUnbondingPeriod
             u == old.unbonding
             w == [u EXCEPT ![h] = @ + amount]
             new == [old EXCEPT !.amount = n, !.unbonding = w]
             total == Monus(totalBySubnet[s], amount)
  <1>1. amount \in Nat
    BY SubnetStakingTyped DEF SubnetStakingTyped
  <1>2. /\ old # NoStake /\ old \in SubnetStake /\ amount <= old.amount
        /\ subnetStakes' = [subnetStakes EXCEPT ![<<s, a>>] = new]
        /\ UNCHANGED <<discountTiers, stakedIn, stakeReleased, stakeSlashed>>
        /\ totalBySubnet' = [totalBySubnet EXCEPT ![s] = total]
    <2>1. /\ old # NoStake /\ amount <= old.amount
          /\ UNCHANGED <<discountTiers, stakedIn, stakeReleased, stakeSlashed>>
          /\ totalBySubnet' = [totalBySubnet EXCEPT ![s] = total]
          /\ subnetStakes' = [subnetStakes EXCEPT ![<<s, a>>].amount = @ - amount,
                                                 ![<<s, a>>].unbonding[h] = @ + amount]
      BY DEF BeginUnstake, stakingHistory
    <2>2. old \in SubnetStake
      BY <2>1, EntryOfStake
    <2>3. new = [[old EXCEPT !.amount = old.amount - amount]
                   EXCEPT !.unbonding = [old.unbonding EXCEPT ![h] = @ + amount]]
      BY <2>2 DEF SubnetStake
    <2>4. <<s, a>> \in DOMAIN subnetStakes
      BY EntryOfStake DEF SubnetStakingInv, SubnetStakingTypeOK
    <2>5. subnetStakes' = [subnetStakes EXCEPT ![<<s, a>>] = new]
      <3> HIDE DEF h
      <3> QED BY <2>1, <2>2, <2>4 DEF SubnetStake
    <2> QED BY <2>1, <2>2, <2>5
  <1>3. old.amount \in Nat /\ u \in [ReleaseHeights -> Nat] /\ n \in Nat
    BY <1>1, <1>2, SubnetStakeFields
  <1>4. h \in ReleaseHeights
    BY HeightsOfRelease
  <1>5. w \in [ReleaseHeights -> Nat] /\ w[h] = u[h] + amount
        /\ \A k \in ReleaseHeights \ {h} : w[k] = u[k]
    BY <1>1, <1>3, <1>4
  <1> HIDE DEF w
  <1>6. new \in SubnetStake /\ new.amount = n /\ new.unbonding = w
    BY <1>2, <1>3, <1>5 DEF SubnetStake, ReleaseHeights
  <1>7. /\ ActiveIn(new) = n /\ UnbondingIn(new) = SumFunction(w)
        /\ ActiveIn(old) = old.amount /\ UnbondingIn(old) = SumFunction(u)
    BY <1>2, <1>6, SubnetStakeFields DEF ActiveIn, UnbondingIn
  <1>8. SumFunction(w) = SumFunction(u) + amount /\ SumFunction(u) \in Nat
    <2> HIDE DEF u, h
    <2>1. SumFunction(w) = SumFunction(u) - u[h] + w[h] /\ SumFunction(u) \in Nat /\ u[h] \in Nat
      BY <1>3, <1>4, <1>5, HeightsOfRelease, SumUpdate, SumNat
    <2> QED BY <1>1, <1>5, <2>1
  <1>9. total \in Nat /\ total = totalBySubnet[s] - ActiveIn(old) + ActiveIn(new)
    <2>1. ActiveIn(old) <= totalBySubnet[s] /\ totalBySubnet[s] \in Nat
      BY EntryOfStake
    <2> QED BY <1>1, <1>2, <1>3, <1>7, <2>1 DEF Monus
  <1>10. /\ stakedIn' = [stakedIn EXCEPT ![<<s, a>>] = @ + 0]
         /\ stakeReleased' = [stakeReleased EXCEPT ![<<s, a>>] = @ + 0]
         /\ stakeSlashed' = [stakeSlashed EXCEPT ![<<s, a>>] = @ + 0]
    BY <1>2, EntryOfStake
  <1> HIDE DEF new, total, u
  <1>11. ActiveIn(old) + UnbondingIn(old) + 0 = ActiveIn(new) + UnbondingIn(new) + 0 + 0
    BY <1>1, <1>2, <1>3, <1>7, <1>8
  <1>12. UNCHANGED discountTiers /\ 0 \in Nat
    BY <1>2
  <1> QED BY <1>2, <1>6, <1>9, <1>10, <1>11, <1>12, StakeMoves


\* What is taken out of a function and what is left add up.
LEMMA SumTakenOut ==
  ASSUME NEW S, IsFiniteSet(S), NEW T \in SUBSET S, NEW f \in [S -> Nat], NEW g \in [S -> Nat],
         NEW c \in [T -> Nat], \A x \in T : g[x] = 0 /\ c[x] = f[x],
         \A x \in S \ T : g[x] = f[x]
  PROVE  /\ SumFunction(c) \in Nat /\ SumFunction(g) \in Nat
         /\ SumFunction(f) = SumFunction(g) + SumFunction(c)
  <1> DEFINE e == [x \in S |-> IF x \in T THEN f[x] ELSE 0]
  <1>1. /\ e \in [S -> Nat] /\ \A x \in S : f[x] = g[x] + e[x]
        /\ \A x \in T : e[x] = c[x]
        /\ \A x \in S \ T : e[x] = 0
    OBVIOUS
  <1> HIDE DEF e
  <1>2. f \in [S -> Int] /\ g \in [S -> Int] /\ e \in [S -> Int] /\ c \in [T -> Int]
    BY <1>1
  <1>3. SumFunction(f) = SumFunction(g) + SumFunction(e)
    BY <1>1, <1>2, SumPlus
  <1>4. SumFunction(e) = SumFunction(c)
    BY <1>1, <1>2, SumOfPart
  <1>5. SumFunction(c) \in Nat /\ SumFunction(g) \in Nat
    BY FS_Subset, SumNat
  <1> QED BY <1>3, <1>4, <1>5

LEMMA CompleteKeepsInv ==
  ASSUME SubnetStakingInv, NEW s \in StakingSubnet, NEW a \in StakingProvider,
         CompleteUnbonding(s, a)
  PROVE  SubnetStakingInv'
  <1> DEFINE old == subnetStakes[<<s, a>>]
             u == old.unbonding
             due == {h \in DOMAIN u : h <= now}
             w == [h \in DOMAIN u |-> IF h \in due THEN 0 ELSE u[h]]
             freed == [h \in due |-> u[h]]
             new == [old EXCEPT !.unbonding = w]
             r == SumFunction(freed)
  <1>1. /\ old # NoStake /\ old \in SubnetStake
        /\ subnetStakes' = [subnetStakes EXCEPT ![<<s, a>>] = new]
        /\ stakeReleased' = [stakeReleased EXCEPT ![<<s, a>>] = @ + r]
        /\ UNCHANGED <<totalBySubnet, discountTiers, stakedIn, stakeSlashed>>
    BY EntryOfStake DEF CompleteUnbonding, SumOver
  <1>2. old.amount \in Nat /\ u \in [ReleaseHeights -> Nat] /\ DOMAIN u = ReleaseHeights
    BY <1>1, SubnetStakeFields
  <1>3. /\ due \in SUBSET ReleaseHeights
        /\ w \in [ReleaseHeights -> Nat] /\ freed \in [due -> Nat]
        /\ \A h \in due : w[h] = 0 /\ freed[h] = u[h]
        /\ \A h \in ReleaseHeights \ due : w[h] = u[h]
    BY <1>2
  <1> HIDE DEF w, freed, due
  <1>4. new \in SubnetStake /\ new.amount = old.amount /\ new.unbonding = w
    BY <1>1, <1>3 DEF SubnetStake, ReleaseHeights
  <1>5. /\ ActiveIn(new) = old.amount /\ UnbondingIn(new) = SumFunction(w)
        /\ ActiveIn(old) = old.amount /\ UnbondingIn(old) = SumFunction(u)
    BY <1>1, <1>4, SubnetStakeFields DEF ActiveIn, UnbondingIn
  <1>6. r \in Nat /\ SumFunction(w) \in Nat /\ SumFunction(u) = SumFunction(w) + r
    <2> HIDE DEF u
    <2>1. PICK f, g, c, T : f = u /\ g = w /\ c = freed /\ T = due
      OBVIOUS
    <2>2. /\ IsFiniteSet(ReleaseHeights) /\ T \in SUBSET ReleaseHeights
          /\ f \in [ReleaseHeights -> Nat] /\ g \in [ReleaseHeights -> Nat]
          /\ c \in [T -> Nat]
      BY <1>2, <1>3, <2>1, HeightsOfRelease
    <2>3. \A x \in T : g[x] = 0 /\ c[x] = f[x]
      BY <1>3, <2>1
    <2>4. \A x \in ReleaseHeights \ T : g[x] = f[x]
      BY <1>3, <2>1
    <2>5. /\ SumFunction(c) \in Nat /\ SumFunction(g) \in Nat
          /\ SumFunction(f) = SumFunction(g) + SumFunction(c)
      BY <2>2, <2>3, <2>4, SumTakenOut
    <2> QED BY <2>1, <2>5
  <1> DEFINE total == totalBySubnet[s]
  <1>7. /\ total \in Nat /\ total = totalBySubnet[s] - ActiveIn(old) + ActiveIn(new)
        /\ totalBySubnet' = [totalBySubnet EXCEPT ![s] = total]
    <2>1. total \in Nat /\ totalBySubnet \in [StakingSubnet -> Nat]
      BY EntryOfStake
    <2> QED BY <1>1, <1>2, <1>5, <2>1
  <1>8. /\ stakedIn' = [stakedIn EXCEPT ![<<s, a>>] = @ + 0]
        /\ stakeSlashed' = [stakeSlashed EXCEPT ![<<s, a>>] = @ + 0]
    BY <1>1, EntryOfStake
  <1> HIDE DEF new, total, u, r
  <1>9. ActiveIn(old) + UnbondingIn(old) + 0 = ActiveIn(new) + UnbondingIn(new) + r + 0
    BY <1>2, <1>5, <1>6
  <1>10. UNCHANGED discountTiers /\ 0 \in Nat
    BY <1>1
  <1>11. r \in Nat
    BY <1>6
  <1>12. /\ subnetStakes' = [subnetStakes EXCEPT ![<<s, a>>] = new]
         /\ stakeReleased' = [stakeReleased EXCEPT ![<<s, a>>] = @ + r]
    BY <1>1
  <1>13. new \in SubnetStake
    BY <1>4
  <1> QED BY <1>7, <1>8, <1>9, <1>10, <1>11, <1>12, <1>13, StakeMoves

LEMMA SlashKeepsInv ==
  ASSUME SubnetStakingInv, NEW s \in StakingSubnet, NEW a \in StakingProvider,
         NEW bps \in SubnetSlashBps, SlashInSubnet(s, a, bps)
  PROVE  SubnetStakingInv'
  <1> DEFINE old == subnetStakes[<<s, a>>]
             rate == Min({bps, SubnetMaxSlashBps})
             product == old.amount * rate
             x == Smaller(StakeModulus - 1, product) \div 10000
             n == old.amount - x
             new == [old EXCEPT !.amount = n]
             total == Monus(totalBySubnet[s], x)
  <1>1. rate \in Nat /\ rate <= 10000
    <2>1. bps \in Nat /\ SubnetMaxSlashBps \in Nat /\ SubnetMaxSlashBps <= 10000
      BY SubnetStakingTyped DEF SubnetStakingTyped
    <2>2. \E y \in {bps, SubnetMaxSlashBps} : \A z \in {bps, SubnetMaxSlashBps} : y <= z
      BY <2>1
    <2>3. /\ rate \in {bps, SubnetMaxSlashBps}
          /\ \A z \in {bps, SubnetMaxSlashBps} : rate <= z
      BY <2>2 DEF Min
    <2> QED BY <2>1, <2>3
  <1>2. /\ old # NoStake /\ old \in SubnetStake
        /\ subnetStakes' = [subnetStakes EXCEPT ![<<s, a>>] = new]
        /\ totalBySubnet' = [totalBySubnet EXCEPT ![s] = total]
        /\ stakeSlashed' = [stakeSlashed EXCEPT ![<<s, a>>] = @ + x]
        /\ UNCHANGED <<discountTiers, stakedIn, stakeReleased>>
    BY EntryOfStake DEF SlashInSubnet
  <1> HIDE DEF rate
  <1>3. x \in Nat /\ x <= old.amount /\ old.amount \in Nat
    <2>1. old.amount \in Nat
      BY <1>2, SubnetStakeFields
    <2>2. PICK k \in Nat : k = Smaller(StakeModulus - 1, product) /\ k <= product
      <3>1. product \in Nat /\ StakeModulus - 1 \in Nat
        <4>1. old.amount * rate \in Nat
          BY <1>1, <2>1
        <4>2. StakeModulus \in Nat /\ 10000 * BaseStake < StakeModulus /\ BaseStake \in Nat
          BY SubnetStakingTyped DEF SubnetStakingTyped
        <4> QED BY <4>1, <4>2
      <3> HIDE DEF product
      <3> QED BY <3>1 DEF Smaller
    <2>3. k \div 10000 \in Nat /\ k \div 10000 <= old.amount
      <3>1. 10000 \in Nat /\ 10000 # 0 /\ k <= old.amount * rate
        BY <2>2
      <3> QED BY <1>1, <2>1, <3>1, PartIsWithin
    <2> QED BY <2>1, <2>2, <2>3
  <1> HIDE DEF x
  <1>4. n \in Nat /\ old.unbonding \in [ReleaseHeights -> Nat]
    BY <1>2, <1>3, SubnetStakeFields
  <1>5. new \in SubnetStake /\ new.amount = n /\ new.unbonding = old.unbonding
    BY <1>2, <1>4 DEF SubnetStake, ReleaseHeights
  <1>6. /\ ActiveIn(new) = n /\ UnbondingIn(new) = UnbondingIn(old)
        /\ ActiveIn(old) = old.amount /\ UnbondingIn(old) \in Nat
    BY <1>2, <1>5, SubnetStakeFields, PartsOfStake DEF ActiveIn, UnbondingIn
  <1>7. total \in Nat /\ total = totalBySubnet[s] - ActiveIn(old) + ActiveIn(new)
    <2>1. ActiveIn(old) <= totalBySubnet[s] /\ totalBySubnet[s] \in Nat
      BY EntryOfStake
    <2> QED BY <1>3, <1>6, <2>1 DEF Monus
  <1>8. /\ stakedIn' = [stakedIn EXCEPT ![<<s, a>>] = @ + 0]
        /\ stakeReleased' = [stakeReleased EXCEPT ![<<s, a>>] = @ + 0]
    BY <1>2, EntryOfStake
  <1> HIDE DEF new, total
  <1>9. ActiveIn(old) + UnbondingIn(old) + 0 = ActiveIn(new) + UnbondingIn(new) + 0 + x
    BY <1>3, <1>6
  <1>10. UNCHANGED discountTiers /\ 0 \in Nat
    BY <1>2
  <1> QED BY <1>2, <1>3, <1>5, <1>7, <1>8, <1>9, <1>10, StakeMoves

LEMMA SubnetStakingInvInit == SubnetStakingInit => SubnetStakingInv
  <1> SUFFICES ASSUME SubnetStakingInit PROVE SubnetStakingInv
    OBVIOUS
  <1>1. SubnetStakingTypeOK
    BY DEF SubnetStakingInit, SubnetStakingTypeOK
  <1>2. \A k \in Staking : subnetStakes[k] = NoStake
    BY DEF SubnetStakingInit
  <1>3. ASSUME NEW s \in StakingSubnet
        PROVE  SumFunction(ActiveOf(s)) = 0
    <2> DEFINE f == ActiveOf(s)
    <2>1. DOMAIN f = StakingProvider /\ \A a \in StakingProvider : f[a] = 0
      BY <1>2 DEF ActiveOf, Staking, ActiveIn
    <2> HIDE DEF f
    <2>2. SumFunction(f) = 0
      BY <2>1, SumZero, SubnetStakingTyped DEF SubnetStakingTyped
    <2> QED BY <2>2 DEF f
  <1> QED BY <1>1, <1>2, <1>3 DEF SubnetStakingInit, SubnetStakingInv, ActiveIn, UnbondingIn

LEMMA SubnetStakingInvStep ==
  ASSUME SubnetStakingInv, now \in 0 .. MaxNow, [SubnetStakingNext]_subnetStakingVars
  PROVE  SubnetStakingInv'
  <1>1. CASE UNCHANGED subnetStakingVars
    BY <1>1 DEF subnetStakingVars, stakingHistory, SubnetStakingInv, SubnetStakingTypeOK, ActiveOf
  <1>2. ASSUME NEW tier \in DiscountTiers, AddTier(tier)
        PROVE  SubnetStakingInv'
    BY <1>2 DEF AddTier, stakingHistory, SubnetStakingInv, SubnetStakingTypeOK, ActiveOf
  <1>3. ASSUME NEW s \in StakingSubnet, NEW a \in StakingProvider,
               \/ \E n \in SubnetStakeAmounts :
                    \/ \E r \in Reputations : StakeInSubnet(s, a, n, r)
                    \/ AddStake(s, a, n) \/ BeginUnstake(s, a, n)
               \/ CompleteUnbonding(s, a)
               \/ \E bps \in SubnetSlashBps : SlashInSubnet(s, a, bps)
        PROVE  SubnetStakingInv'
    BY <1>3, StakeKeepsInv, AddStakeKeepsInv, BeginUnstakeKeepsInv, CompleteKeepsInv,
       SlashKeepsInv
  <1> QED BY <1>1, <1>2, <1>3 DEF SubnetStakingNext


----------------------------------------------------------------------------
(* Account stakes and the validator set *)

DelegatedIn(x) == [d \in Delegatee |-> AmountOf(x.delegated[d])]

\* One account: its total, and what it took out, which waits for its height or came back.
AccountKept(x, taken, height) ==
  /\ x.total = AmountOf(x.self) + SumFunction(DelegatedIn(x))
  /\ \A h \in CompletionHeights :
       x.unbonding[h] <= taken[h] /\ (h > height => x.unbonding[h] = taken[h])
  /\ x.gained + SumFunction(x.unbonding) = SumFunction(taken)

AccountsInv ==
  /\ stakings \in [StakingAccount -> AccountStake]
  /\ undelegated \in [StakingAccount -> [CompletionHeights -> Nat]]
  /\ \A a \in StakingAccount : AccountKept(stakings[a], undelegated[a], now)

PowerOf == [d \in Delegatee |-> AmountOf(validatorSet[d])]

ValidatorSetInv ==
  /\ validatorSet \in [Delegatee -> Nat \cup {NoEntry}]
  /\ totalPower \in Nat /\ replacedPower \in Nat
  /\ totalPower = (replacedPower + SumFunction(PowerOf)) % PowerModulus

LEMMA AmountOfNat ==
  \A entry \in Nat \cup {NoEntry} : AmountOf(entry) \in Nat
  BY DEF AmountOf

LEMMA AccountFields ==
  \A x \in AccountStake :
    /\ x.gained \in Nat /\ x.total \in Nat /\ x.self \in Nat \cup {NoEntry}
    /\ x.delegated \in [Delegatee -> Nat \cup {NoEntry}]
    /\ x.unbonding \in [CompletionHeights -> Nat]
    /\ DelegatedIn(x) \in [Delegatee -> Nat]
    /\ AmountOf(x.self) \in Nat
  BY AmountOfNat DEF AccountStake, DelegatedIn

LEMMA HeightsOfCompletion ==
  /\ IsFiniteSet(CompletionHeights) /\ CompletionHeights \in SUBSET Nat
  /\ \A h \in 0 .. MaxNow : h + DelegationPeriod \in CompletionHeights
                            /\ (DelegationPeriod > 0 => h + DelegationPeriod > h)
  <1>1. MaxNow + DelegationPeriod \in Nat /\ DelegationPeriod \in Nat /\ MaxNow \in Nat
    BY DelegationsTyped, HeightsTyped DEF DelegationsTyped
  <1>2. IsFiniteSet(CompletionHeights)
    BY <1>1, FS_Interval DEF CompletionHeights
  <1> QED BY <1>1, <1>2 DEF CompletionHeights

LEMMA FiniteDelegatees == IsFiniteSet(Delegatee) /\ NoEntry \notin Nat
  BY DelegationsTyped DEF DelegationsTyped

\* What came back was due.
LEMMA GainedWasDue ==
  ASSUME NEW x \in AccountStake, NEW taken \in [CompletionHeights -> Nat], NEW height \in Nat,
         AccountKept(x, taken, height)
  PROVE  x.gained <= SumFunction([h \in {k \in CompletionHeights : k <= height} |-> taken[h]])
  <1> DEFINE H == CompletionHeights
             due == {k \in H : k <= height}
             whole == [h \in due |-> taken[h]]
  <1>1. /\ x.unbonding \in [H -> Nat] /\ x.gained \in Nat
        /\ IsFiniteSet(H) /\ H \in SUBSET Nat
        /\ x.gained + SumFunction(x.unbonding) = SumFunction(taken)
        /\ \A h \in H : x.unbonding[h] <= taken[h] /\ (h > height => x.unbonding[h] = taken[h])
    BY AccountFields, HeightsOfCompletion DEF AccountKept
  <1>2. PICK t, u : t = taken /\ u = x.unbonding
    OBVIOUS
  <1>3. /\ t \in [H -> Nat] /\ u \in [H -> Nat]
        /\ \A h \in H : u[h] <= t[h] /\ (h > height => u[h] = t[h])
        /\ whole = [h \in due |-> t[h]]
    BY <1>1, <1>2
  <1> HIDE DEF H, whole
  <1> DEFINE back == [h \in H |-> t[h] - u[h]]
             returned == [h \in due |-> t[h] - u[h]]
             all == [h \in due |-> t[h]]
  <1>4. IsFiniteSet(due) /\ due \in SUBSET H
    BY <1>1, FS_Subset
  <1>5. \A h \in H : t[h] - u[h] \in Nat /\ t[h] - u[h] <= t[h] /\ t[h] \in Nat
                    /\ u[h] + (t[h] - u[h]) = t[h]
    BY <1>3
  <1>6. \A h \in H \ due : t[h] - u[h] = 0
    <2>1. \A h \in H \ due : h > height
      BY <1>1
    <2> QED BY <1>3, <2>1
  <1>7. back \in [H -> Nat] /\ returned \in [due -> Nat] /\ all \in [due -> Nat]
    BY <1>4, <1>5
  <1>8. /\ \A h \in H : t[h] = u[h] + back[h]
        /\ \A h \in due : back[h] = returned[h] /\ returned[h] <= all[h]
        /\ \A h \in H \ due : back[h] = 0
    BY <1>4, <1>5, <1>6
  <1> HIDE DEF back, returned, all, due
  <1>9. /\ t \in [H -> Int] /\ u \in [H -> Int] /\ back \in [H -> Int]
        /\ returned \in [due -> Int]
    BY <1>3, <1>7
  <1>10. SumFunction(t) = SumFunction(u) + SumFunction(back)
    <2>1. IsFiniteSet(H) /\ t \in [H -> Int] /\ u \in [H -> Int] /\ back \in [H -> Int]
      BY <1>1, <1>9
    <2>2. \A h \in H : t[h] = u[h] + back[h]
      BY <1>8
    <2> QED BY <2>1, <2>2, SumPlus
  <1>11. SumFunction(back) = SumFunction(returned)
    <2>1. IsFiniteSet(H) /\ due \in SUBSET H /\ back \in [H -> Int] /\ returned \in [due -> Int]
      BY <1>1, <1>4, <1>9
    <2>2. \A h \in due : back[h] = returned[h]
      BY <1>8
    <2>3. \A h \in H \ due : back[h] = 0
      BY <1>8
    <2> QED BY <2>1, <2>2, <2>3, SumOfPart
  <1>12. SumFunction(returned) <= SumFunction(all)
    BY <1>4, <1>7, <1>8, SumMonotone
  <1>13. SumFunction(u) \in Nat /\ SumFunction(back) \in Nat
    BY <1>1, <1>3, <1>7, SumNat
  <1>14. x.gained = SumFunction(back)
    BY <1>1, <1>2, <1>10, <1>13
  <1>15. x.gained <= SumFunction(whole)
    BY <1>3, <1>11, <1>12, <1>14 DEF all
  <1> QED BY <1>15 DEF whole, due, H

LEMMA DelegationsInvImplies ==
  ASSUME now \in Nat, AccountsInv, ValidatorSetInv
  PROVE  DelegationsTypeOK /\ DelegationsAccounted
  <1>1. ASSUME NEW a \in StakingAccount
        PROVE  LET account == stakings[a]
                   takenOut(H) == SumOver(LAMBDA h : undelegated[a][h], H)
               IN
               /\ account.total = AmountOf(account.self)
                    + SumOver(LAMBDA d : AmountOf(account.delegated[d]), Delegatee)
               /\ account.gained + SumOver(LAMBDA h : account.unbonding[h], CompletionHeights)
                    = takenOut(CompletionHeights)
               /\ account.gained <= takenOut({h \in CompletionHeights : h <= now})
    <2> DEFINE x == stakings[a]
               taken == undelegated[a]
    <2>1. /\ x \in AccountStake /\ taken \in [CompletionHeights -> Nat]
          /\ AccountKept(x, taken, now)
      BY DEF AccountsInv
    <2>2. x.unbonding = [h \in CompletionHeights |-> x.unbonding[h]]
          /\ taken = [h \in CompletionHeights |-> taken[h]]
      BY <2>1, AccountFields
    <2>3. x.gained <= SumFunction([h \in {k \in CompletionHeights : k <= now} |-> taken[h]])
      <3> HIDE DEF x, taken
      <3> QED BY <2>1, GainedWasDue
    <2> QED BY <2>1, <2>2, <2>3 DEF AccountKept, SumOver, DelegatedIn
  <1>2. totalPower = (replacedPower
          + SumOver(LAMBDA d : AmountOf(validatorSet[d]), Delegatee)) % PowerModulus
    BY DEF ValidatorSetInv, PowerOf, SumOver
  <1> QED BY <1>1, <1>2 DEF DelegationsTypeOK, DelegationsAccounted, AccountsInv, ValidatorSetInv

LEMMA DelegationsInvInit ==
  ASSUME now \in Nat, DelegationsInit
  PROVE  AccountsInv /\ ValidatorSetInv
  <1> DEFINE zero == [h \in CompletionHeights |-> 0]
             none == [d \in Delegatee |-> 0]
             empty == [gained |-> 0, self |-> NoEntry, delegated |-> [d \in Delegatee |-> NoEntry],
                       total |-> 0, unbonding |-> zero]
  <1>1. SumFunction(zero) = 0 /\ SumFunction(none) = 0
    <2>1. /\ DOMAIN zero = CompletionHeights /\ \A h \in CompletionHeights : zero[h] = 0
          /\ DOMAIN none = Delegatee
          /\ \A d \in Delegatee : none[d] = 0
      OBVIOUS
    <2> HIDE DEF zero, none
    <2> QED BY <2>1, HeightsOfCompletion, FiniteDelegatees, SumZero
  <1>2. empty \in AccountStake /\ zero \in [CompletionHeights -> Nat]
    BY DEF AccountStake
  <1>3. AccountKept(empty, zero, now)
    <2>1. DelegatedIn(empty) = none /\ AmountOf(NoEntry) = 0
      BY DEF DelegatedIn, AmountOf
    <2>2. \A h \in CompletionHeights : zero[h] = 0
      OBVIOUS
    <2> HIDE DEF zero, none
    <2> QED BY <1>1, <2>1, <2>2 DEF AccountKept
  <1>4. \A a \in StakingAccount : stakings[a] = empty /\ undelegated[a] = zero
    BY DEF DelegationsInit
  <1>5. AccountsInv
    BY <1>2, <1>3, <1>4 DEF AccountsInv, DelegationsInit
  <1>6. PowerOf = none
    BY DEF DelegationsInit, PowerOf, AmountOf
  <1>7. ValidatorSetInv
    <2>1. (0 + 0) % PowerModulus = 0
      <3>1. 0 \in Nat /\ PowerModulus \in Nat \ {0} /\ 0 < PowerModulus
        BY DelegationsTyped DEF DelegationsTyped
      <3>2. 0 % PowerModulus = 0
        BY <3>1, ModSmall
      <3> QED BY <3>2
    <2> QED BY <1>1, <1>6, <2>1 DEF ValidatorSetInv, DelegationsInit
  <1> QED BY <1>5, <1>7


LEMMA AccountMoves ==
  ASSUME AccountsInv, UNCHANGED now, NEW a \in StakingAccount,
         NEW new \in AccountStake, NEW taken \in [CompletionHeights -> Nat],
         AccountKept(new, taken, now),
         stakings' = [stakings EXCEPT ![a] = new],
         undelegated' = [undelegated EXCEPT ![a] = taken]
  PROVE  AccountsInv'
  <1>1. /\ stakings' \in [StakingAccount -> AccountStake]
        /\ undelegated' \in [StakingAccount -> [CompletionHeights -> Nat]]
    BY DEF AccountsInv
  <1>2. ASSUME NEW b \in StakingAccount
        PROVE  AccountKept(stakings'[b], undelegated'[b], now')
    <2>1. CASE b = a
      BY <2>1 DEF AccountsInv
    <2>2. CASE b # a
      BY <2>2 DEF AccountsInv
    <2> QED BY <2>1, <2>2
  <1> QED BY <1>1, <1>2 DEF AccountsInv

\* One delegation changes, and what is delegated by as much.
LEMMA DelegatedMoves ==
  ASSUME NEW x \in AccountStake, NEW new \in AccountStake, NEW d \in Delegatee,
         NEW entry \in Nat \cup {NoEntry},
         new.delegated = [x.delegated EXCEPT ![d] = entry]
  PROVE  /\ SumFunction(DelegatedIn(x)) \in Nat /\ AmountOf(x.delegated[d]) \in Nat
         /\ AmountOf(x.delegated[d]) <= SumFunction(DelegatedIn(x))
         /\ SumFunction(DelegatedIn(new))
              = SumFunction(DelegatedIn(x)) - AmountOf(x.delegated[d]) + AmountOf(entry)
  <1> DEFINE f == DelegatedIn(x)
             g == DelegatedIn(new)
  <1>1. f \in [Delegatee -> Nat] /\ g \in [Delegatee -> Nat]
    BY AccountFields
  <1>2. /\ f[d] = AmountOf(x.delegated[d]) /\ g[d] = AmountOf(entry)
        /\ \A e \in Delegatee \ {d} : g[e] = f[e]
    BY AccountFields DEF DelegatedIn
  <1> HIDE DEF f, g
  <1>3. SumFunction(g) = SumFunction(f) - f[d] + g[d]
    <2>1. f \in [Delegatee -> Int] /\ g \in [Delegatee -> Int]
      BY <1>1
    <2> QED BY <1>2, <2>1, FiniteDelegatees, SumUpdate
  <1>4. SumFunction(f) \in Nat /\ f[d] <= SumFunction(f) /\ f[d] \in Nat
    BY <1>1, FiniteDelegatees, SumNat, SumAtLeast
  <1> QED BY <1>2, <1>3, <1>4 DEF f, g

LEMMA AccountOf ==
  ASSUME AccountsInv, NEW a \in StakingAccount
  PROVE  /\ stakings[a] \in AccountStake /\ undelegated[a] \in [CompletionHeights -> Nat]
         /\ AccountKept(stakings[a], undelegated[a], now)
         /\ a \in DOMAIN stakings /\ a \in DOMAIN undelegated
         /\ undelegated = [undelegated EXCEPT ![a] = undelegated[a]]
  BY DEF AccountsInv

LEMMA BecomeKeepsAccounts ==
  ASSUME AccountsInv, UNCHANGED now, NEW a \in StakingAccount, NEW amount \in DelegatedAmounts,
         BecomeValidator(a, amount)
  PROVE  AccountsInv'
  <1> DEFINE x == stakings[a]
             n == x.total + amount
             new == [x EXCEPT !.self = amount, !.total = n]
  <1>1. amount \in Nat /\ NoEntry \notin Nat
    BY DelegationsTyped DEF DelegationsTyped
  <1>2. /\ x.self = NoEntry /\ x \in AccountStake
        /\ stakings' = [stakings EXCEPT ![a] = new]
        /\ undelegated' = [undelegated EXCEPT ![a] = undelegated[a]]
    BY AccountOf DEF BecomeValidator
  <1>3. n \in Nat /\ x.total \in Nat
    BY <1>1, <1>2, AccountFields
  <1>4. /\ new \in AccountStake /\ new.self = amount /\ new.total = n
        /\ new.gained = x.gained /\ new.delegated = x.delegated /\ new.unbonding = x.unbonding
    <2> HIDE DEF x, n
    <2> QED BY <1>1, <1>2, <1>3 DEF AccountStake
  <1>5. AccountKept(x, undelegated[a], now)
    BY AccountOf
  <1>6. AccountKept(new, undelegated[a], now)
    <2>1. DelegatedIn(new) = DelegatedIn(x) /\ SumFunction(DelegatedIn(x)) \in Nat
      BY <1>2, <1>4, AccountFields, FiniteDelegatees, SumNat DEF DelegatedIn
    <2>2. AmountOf(x.self) = 0 /\ AmountOf(new.self) = amount
      BY <1>1, <1>2, <1>4 DEF AmountOf
    <2>3. x.total = 0 + SumFunction(DelegatedIn(x))
      BY <1>5, <2>2 DEF AccountKept
    <2>4. new.total = AmountOf(new.self) + SumFunction(DelegatedIn(new))
      BY <1>1, <1>3, <1>4, <2>1, <2>2, <2>3
    <2> HIDE DEF new, x
    <2> QED BY <1>4, <1>5, <2>4 DEF AccountKept
  <1> HIDE DEF new
  <1> QED BY <1>2, <1>4, <1>6, AccountOf, AccountMoves

LEMMA DelegateKeepsAccounts ==
  ASSUME AccountsInv, UNCHANGED now, NEW a \in StakingAccount, NEW d \in Delegatee,
         NEW amount \in DelegatedAmounts, DelegateTo(a, d, amount)
  PROVE  AccountsInv'
  <1> DEFINE x == stakings[a]
             n == x.total + amount
             entry == AmountOf(x.delegated[d]) + amount
             list == [x.delegated EXCEPT ![d] = entry]
             new == [x EXCEPT !.delegated = list, !.total = n]
  <1>1. amount \in Nat /\ NoEntry \notin Nat
    BY DelegationsTyped DEF DelegationsTyped
  <1>2. /\ x \in AccountStake
        /\ stakings' = [stakings EXCEPT ![a] = new]
        /\ undelegated' = [undelegated EXCEPT ![a] = undelegated[a]]
    <2>1. /\ stakings' = [stakings EXCEPT ![a].delegated[d] = AmountOf(@) + amount,
                                        ![a].total = @ + amount]
          /\ undelegated' = undelegated
      BY DEF DelegateTo
    <2>2. x \in AccountStake /\ a \in DOMAIN stakings
      BY AccountOf
    <2>3. stakings' = [stakings EXCEPT ![a] = new]
      BY <2>1, <2>2 DEF AccountStake
    <2> QED BY <2>1, <2>2, <2>3, AccountOf
  <1>3. /\ n \in Nat /\ x.total \in Nat /\ AmountOf(x.delegated[d]) \in Nat /\ entry \in Nat
        /\ x.delegated \in [Delegatee -> Nat \cup {NoEntry}]
    BY <1>1, <1>2, AccountFields, AmountOfNat
  <1>4. list \in [Delegatee -> Nat \cup {NoEntry}]
    BY <1>3
  <1>5. /\ new \in AccountStake /\ new.self = x.self /\ new.total = n
        /\ new.gained = x.gained /\ new.delegated = list /\ new.unbonding = x.unbonding
    <2> HIDE DEF x, n, list
    <2> QED BY <1>2, <1>3, <1>4 DEF AccountStake
  <1>6. AccountKept(x, undelegated[a], now)
    BY AccountOf
  <1>7. AccountKept(new, undelegated[a], now)
    <2>1. PICK y : y = new
      OBVIOUS
    <2>2. entry \in Nat \cup {NoEntry} /\ y \in AccountStake
          /\ y.delegated = [x.delegated EXCEPT ![d] = entry]
      BY <1>3, <1>5, <2>1
    <2>3. AmountOf(entry) = AmountOf(x.delegated[d]) + amount
      BY <1>1, <1>3 DEF AmountOf
    <2> HIDE DEF x, entry, new
    <2>4. /\ SumFunction(DelegatedIn(x)) \in Nat
          /\ SumFunction(DelegatedIn(y))
               = SumFunction(DelegatedIn(x)) - AmountOf(x.delegated[d]) + AmountOf(entry)
      BY <1>2, <2>2, DelegatedMoves
    <2>5. x.total = AmountOf(x.self) + SumFunction(DelegatedIn(x)) /\ AmountOf(x.self) \in Nat
      BY <1>2, <1>6, AccountFields DEF AccountKept
    <2>6. y.total = AmountOf(y.self) + SumFunction(DelegatedIn(y))
      BY <1>1, <1>3, <1>5, <2>1, <2>3, <2>4, <2>5
    <2> QED BY <1>5, <1>6, <2>1, <2>6 DEF AccountKept
  <1> HIDE DEF new
  <1> QED BY <1>2, <1>5, <1>7, AccountOf, AccountMoves


LEMMA UndelegateKeepsAccounts ==
  ASSUME AccountsInv, now \in 0 .. MaxNow, UNCHANGED now, NEW a \in StakingAccount,
         NEW d \in Delegatee, NEW amount \in DelegatedAmounts, UndelegateFrom(a, d, amount)
  PROVE  AccountsInv'
  <1> DEFINE x == stakings[a]
             was == undelegated[a]
             due == now + DelegationPeriod
             n == x.total - amount
             entry == IF x.delegated[d] = amount THEN NoEntry ELSE x.delegated[d] - amount
             list == [x.delegated EXCEPT ![d] = entry]
             back == [x.unbonding EXCEPT ![due] = @ + amount]
             taken == [was EXCEPT ![due] = @ + amount]
             new == [x EXCEPT !.delegated = list, !.total = n, !.unbonding = back]
  <1>1. amount \in Nat /\ NoEntry \notin Nat /\ due \in CompletionHeights
    BY DelegationsTyped, HeightsOfCompletion DEF DelegationsTyped
  <1>2. /\ x \in AccountStake /\ was \in [CompletionHeights -> Nat]
        /\ x.delegated[d] # NoEntry /\ amount <= AmountOf(x.delegated[d])
        /\ stakings' = [stakings EXCEPT ![a] = new]
        /\ undelegated' = [undelegated EXCEPT ![a] = taken]
    <2>1. /\ x.delegated[d] # NoEntry /\ amount <= AmountOf(x.delegated[d])
          /\ stakings' = [stakings EXCEPT
               ![a].delegated[d] = IF @ = amount THEN NoEntry ELSE @ - amount,
               ![a].total = @ - amount,
               ![a].unbonding[due] = @ + amount]
          /\ undelegated' = [undelegated EXCEPT ![a][due] = @ + amount]
      BY DEF UndelegateFrom
    <2>2. x \in AccountStake /\ was \in [CompletionHeights -> Nat]
          /\ a \in DOMAIN stakings /\ a \in DOMAIN undelegated
      BY AccountOf
    <2>3. stakings' = [stakings EXCEPT ![a] = new]
      <3> HIDE DEF due
      <3> QED BY <2>1, <2>2 DEF AccountStake
    <2>4. undelegated' = [undelegated EXCEPT ![a] = taken]
      <3> HIDE DEF due
      <3> QED BY <2>1, <2>2
    <2> QED BY <2>1, <2>2, <2>3, <2>4
  <1>3. /\ x.total \in Nat /\ x.gained \in Nat /\ x.delegated[d] \in Nat
        /\ x.delegated \in [Delegatee -> Nat \cup {NoEntry}]
        /\ x.unbonding \in [CompletionHeights -> Nat]
        /\ AmountOf(x.self) \in Nat /\ x.self \in Nat \cup {NoEntry}
    BY <1>2, AccountFields
  <1>4. /\ entry \in Nat \cup {NoEntry}
        /\ AmountOf(entry) = x.delegated[d] - amount
        /\ AmountOf(x.delegated[d]) = x.delegated[d]
    <2> HIDE DEF x
    <2> QED BY <1>1, <1>2, <1>3 DEF AmountOf
  <1>5. AccountKept(x, was, now)
    BY AccountOf
  <1> HIDE DEF due, entry
  <1>6. /\ list \in [Delegatee -> Nat \cup {NoEntry}]
        /\ back \in [CompletionHeights -> Nat] /\ back[due] = x.unbonding[due] + amount
        /\ \A h \in CompletionHeights \ {due} : back[h] = x.unbonding[h]
        /\ taken \in [CompletionHeights -> Nat] /\ taken[due] = was[due] + amount
        /\ \A h \in CompletionHeights \ {due} : taken[h] = was[h]
    <2> HIDE DEF x, was
    <2> QED BY <1>1, <1>2, <1>3, <1>4
  <1> HIDE DEF x, was, back, taken
  <1>7. /\ SumFunction(DelegatedIn(x)) \in Nat
        /\ x.total = AmountOf(x.self) + SumFunction(DelegatedIn(x))
        /\ x.delegated[d] <= SumFunction(DelegatedIn(x))
    <2>1. PICK y : y = [x EXCEPT !.delegated = list]
      OBVIOUS
    <2>2. y \in AccountStake /\ y.delegated = [x.delegated EXCEPT ![d] = entry]
      BY <1>2, <1>6, <2>1 DEF AccountStake
    <2>3. /\ SumFunction(DelegatedIn(x)) \in Nat
          /\ AmountOf(x.delegated[d]) <= SumFunction(DelegatedIn(x))
      <3> HIDE DEF list
      <3> QED BY <1>2, <1>4, <2>2, DelegatedMoves
    <2> QED BY <1>4, <1>5, <2>3 DEF AccountKept
  <1>8. n \in Nat
    BY <1>1, <1>2, <1>3, <1>4, <1>7
  <1>9. /\ new \in AccountStake /\ new.self = x.self /\ new.total = n /\ new.gained = x.gained
        /\ new.delegated = list /\ new.unbonding = back
    <2> HIDE DEF n, list
    <2> QED BY <1>2, <1>3, <1>6, <1>8 DEF AccountStake
  <1>10. AccountKept(new, taken, now)
    <2>1. PICK y : y = new
      OBVIOUS
    <2> HIDE DEF new
    <2>2. y \in AccountStake /\ y.delegated = [x.delegated EXCEPT ![d] = entry]
      BY <1>9, <2>1
    <2> HIDE DEF list
    <2>3. SumFunction(DelegatedIn(y))
            = SumFunction(DelegatedIn(x)) - AmountOf(x.delegated[d]) + AmountOf(entry)
      BY <1>2, <1>4, <2>2, DelegatedMoves
    <2>4. y.total = AmountOf(y.self) + SumFunction(DelegatedIn(y))
      BY <1>1, <1>3, <1>4, <1>7, <1>9, <2>1, <2>3
    <2>5. ASSUME NEW h \in CompletionHeights
          PROVE  back[h] <= taken[h] /\ (h > now => back[h] = taken[h])
      <3>1. /\ x.unbonding[h] <= was[h] /\ (h > now => x.unbonding[h] = was[h])
            /\ x.unbonding[h] \in Nat /\ was[h] \in Nat
        BY <1>2, <1>3, <1>5 DEF AccountKept
      <3>2. CASE h = due
        BY <1>1, <1>6, <3>1, <3>2
      <3>3. CASE h # due
        BY <1>6, <3>1, <3>3
      <3> QED BY <3>2, <3>3
    <2>6. SumFunction(back) = SumFunction(x.unbonding) + amount
          /\ SumFunction(x.unbonding) \in Nat
      <3>1. PICK u : u = x.unbonding
        OBVIOUS
      <3>2. /\ u \in [CompletionHeights -> Int] /\ back \in [CompletionHeights -> Int]
            /\ u \in [CompletionHeights -> Nat]
            /\ \A h \in CompletionHeights \ {due} : back[h] = u[h]
        BY <1>3, <1>6, <3>1
      <3>3. SumFunction(back) = SumFunction(u) - u[due] + back[due] /\ SumFunction(u) \in Nat
        <4>1. IsFiniteSet(CompletionHeights) /\ due \in CompletionHeights
          BY <1>1, HeightsOfCompletion
        <4>2. SumFunction(u) \in Nat
          BY <3>2, <4>1, SumNat
        <4> QED BY <3>2, <4>1, <4>2, SumUpdate
      <3>4. u[due] \in Nat /\ back[due] = u[due] + amount
        BY <1>1, <1>6, <3>1, <3>2
      <3> QED BY <1>1, <3>1, <3>3, <3>4
    <2>7. SumFunction(taken) = SumFunction(was) + amount /\ SumFunction(was) \in Nat
      <3>1. /\ was \in [CompletionHeights -> Int] /\ taken \in [CompletionHeights -> Int]
            /\ was \in [CompletionHeights -> Nat]
            /\ \A h \in CompletionHeights \ {due} : taken[h] = was[h]
        BY <1>2, <1>6
      <3>2. /\ SumFunction(taken) = SumFunction(was) - was[due] + taken[due]
            /\ SumFunction(was) \in Nat
        <4>1. IsFiniteSet(CompletionHeights) /\ due \in CompletionHeights
          BY <1>1, HeightsOfCompletion
        <4>2. SumFunction(was) \in Nat
          BY <3>1, <4>1, SumNat
        <4> QED BY <3>1, <4>1, <4>2, SumUpdate
      <3>3. was[due] \in Nat /\ taken[due] = was[due] + amount
        BY <1>1, <1>6, <3>1
      <3> QED BY <1>1, <3>2, <3>3
    <2>8. y.gained + SumFunction(y.unbonding) = SumFunction(taken)
      <3>1. x.gained + SumFunction(x.unbonding) = SumFunction(was)
        BY <1>5 DEF AccountKept
      <3> QED BY <1>1, <1>3, <1>9, <2>1, <2>6, <2>7, <3>1
    <2> QED BY <1>9, <2>1, <2>4, <2>5, <2>8 DEF AccountKept
  <1> HIDE DEF new
  <1> QED BY <1>2, <1>6, <1>9, <1>10, AccountMoves

LEMMA ProcessKeepsAccounts ==
  ASSUME AccountsInv, now \in Nat, UNCHANGED now, NEW a \in StakingAccount, ProcessUnbonding(a)
  PROVE  AccountsInv'
  <1> DEFINE x == stakings[a]
             u == x.unbonding
             H == CompletionHeights
             done == {h \in H : now >= h}
             left == [h \in H |-> IF h \in done THEN 0 ELSE u[h]]
             back == [h \in done |-> u[h]]
             n == x.gained + SumFunction(back)
             new == [x EXCEPT !.unbonding = left, !.gained = n]
  <1>1. /\ x \in AccountStake
        /\ stakings' = [stakings EXCEPT ![a] = new]
        /\ undelegated' = [undelegated EXCEPT ![a] = undelegated[a]]
    <2>1. /\ stakings' = [stakings EXCEPT
               ![a].unbonding = left, ![a].gained = @ + SumFunction(back)]
          /\ undelegated' = undelegated
      BY DEF ProcessUnbonding, SumOver
    <2>2. x \in AccountStake /\ a \in DOMAIN stakings
      BY AccountOf
    <2>3. stakings' = [stakings EXCEPT ![a] = new]
      <3> HIDE DEF left, back
      <3> QED BY <2>1, <2>2 DEF AccountStake
    <2> QED BY <2>1, <2>2, <2>3, AccountOf
  <1>2. /\ u \in [H -> Nat] /\ x.gained \in Nat /\ IsFiniteSet(H) /\ H \in SUBSET Nat
    BY <1>1, AccountFields, HeightsOfCompletion
  <1>3. /\ done \in SUBSET H /\ left \in [H -> Nat] /\ back \in [done -> Nat]
        /\ \A h \in done : left[h] = 0 /\ back[h] = u[h]
        /\ \A h \in H \ done : left[h] = u[h]
    BY <1>2
  <1>4. \A h \in H : h > now => h \notin done
    BY <1>2
  <1> HIDE DEF left, back, done
  <1>5. /\ SumFunction(back) \in Nat /\ SumFunction(left) \in Nat
        /\ SumFunction(u) = SumFunction(left) + SumFunction(back)
    <2> HIDE DEF u, H
    <2>1. PICK f, g, c, T : f = u /\ g = left /\ c = back /\ T = done
      OBVIOUS
    <2>2. /\ IsFiniteSet(H) /\ T \in SUBSET H /\ f \in [H -> Nat] /\ g \in [H -> Nat]
          /\ c \in [T -> Nat]
      BY <1>2, <1>3, <2>1
    <2>3. \A h \in T : g[h] = 0 /\ c[h] = f[h]
      BY <1>3, <2>1
    <2>4. \A h \in H \ T : g[h] = f[h]
      BY <1>3, <2>1
    <2>5. /\ SumFunction(c) \in Nat /\ SumFunction(g) \in Nat
          /\ SumFunction(f) = SumFunction(g) + SumFunction(c)
      BY <2>2, <2>3, <2>4, SumTakenOut
    <2> QED BY <2>1, <2>5
  <1>6. n \in Nat
    BY <1>2, <1>5
  <1>7. /\ new \in AccountStake /\ new.self = x.self /\ new.total = x.total /\ new.gained = n
        /\ new.delegated = x.delegated /\ new.unbonding = left
    <2> HIDE DEF x, n, u
    <2> QED BY <1>1, <1>3, <1>6 DEF AccountStake
  <1>8. AccountKept(x, undelegated[a], now) /\ undelegated[a] \in [H -> Nat]
    BY AccountOf
  <1>9. AccountKept(new, undelegated[a], now)
    <2>1. PICK y, taken : y = new /\ taken = undelegated[a]
      OBVIOUS
    <2>2. y.total = AmountOf(y.self) + SumFunction(DelegatedIn(y))
      BY <1>7, <1>8, <2>1 DEF AccountKept, DelegatedIn
    <2>3. ASSUME NEW h \in H
          PROVE  left[h] <= taken[h] /\ (h > now => left[h] = taken[h])
      <3>1. /\ u[h] <= taken[h] /\ (h > now => u[h] = taken[h])
            /\ u[h] \in Nat /\ taken[h] \in Nat
        BY <1>2, <1>8, <2>1 DEF AccountKept
      <3>2. CASE h \in done
        BY <1>3, <1>4, <3>1, <3>2
      <3>3. CASE h \notin done
        BY <1>3, <3>1, <3>3
      <3> QED BY <3>2, <3>3
    <2>4. y.gained + SumFunction(y.unbonding) = SumFunction(taken)
      <3>1. x.gained + SumFunction(u) = SumFunction(taken)
        BY <1>8, <2>1 DEF AccountKept
      <3>2. y.gained = x.gained + SumFunction(back) /\ y.unbonding = left
        BY <1>7, <2>1
      <3> HIDE DEF new, x, u
      <3> QED BY <1>2, <1>5, <3>1, <3>2
    <2> HIDE DEF new
    <2> QED BY <1>7, <2>1, <2>2, <2>3, <2>4 DEF AccountKept
  <1> HIDE DEF new
  <1> QED BY <1>1, <1>7, <1>8, <1>9, AccountMoves


LEMMA AccountsInvStep ==
  ASSUME AccountsInv, now \in 0 .. MaxNow,
         \/ [AccountsNext]_accountVars /\ UNCHANGED now
         \/ UNCHANGED accountVars /\ now' \in Nat /\ now' >= now
  PROVE  AccountsInv'
  <1>1. CASE UNCHANGED accountVars /\ now' \in Nat /\ now' >= now
    <2>1. \A h \in CompletionHeights : h > now' => h > now
      BY <1>1, HeightsOfCompletion
    <2>2. stakings' = stakings /\ undelegated' = undelegated
      BY <1>1 DEF accountVars
    <2> QED BY <2>1, <2>2 DEF AccountsInv, AccountKept, DelegatedIn
  <1>2. CASE UNCHANGED accountVars /\ UNCHANGED now
    BY <1>2 DEF accountVars, AccountsInv
  <1>3. CASE AccountsNext /\ UNCHANGED now
    BY <1>3, BecomeKeepsAccounts, DelegateKeepsAccounts, UndelegateKeepsAccounts,
       ProcessKeepsAccounts DEF AccountsNext
  <1> QED BY <1>1, <1>2, <1>3

\* One power changes, and the sum of powers by as much.
LEMMA PowersChange ==
  ASSUME ValidatorSetInv, NEW d \in Delegatee, NEW entry \in Nat \cup {NoEntry},
         validatorSet' = [validatorSet EXCEPT ![d] = entry]
  PROVE  /\ validatorSet' \in [Delegatee -> Nat \cup {NoEntry}]
         /\ SumFunction(PowerOf) \in Nat /\ AmountOf(validatorSet[d]) \in Nat
         /\ AmountOf(validatorSet[d]) <= SumFunction(PowerOf)
         /\ SumFunction(PowerOf')
              = SumFunction(PowerOf) - AmountOf(validatorSet[d]) + AmountOf(entry)
  <1>1. /\ validatorSet \in [Delegatee -> Nat \cup {NoEntry}]
        /\ validatorSet' \in [Delegatee -> Nat \cup {NoEntry}]
        /\ validatorSet'[d] = entry
        /\ \A e \in Delegatee \ {d} : validatorSet'[e] = validatorSet[e]
    BY DEF ValidatorSetInv
  <1>2. PICK f, g : f = PowerOf /\ g = PowerOf'
    OBVIOUS
  <1>3. f \in [Delegatee -> Nat] /\ g \in [Delegatee -> Nat]
    BY <1>1, <1>2, AmountOfNat DEF PowerOf
  <1>4. /\ f[d] = AmountOf(validatorSet[d]) /\ g[d] = AmountOf(entry)
        /\ \A e \in Delegatee \ {d} : g[e] = f[e]
    BY <1>1, <1>2 DEF PowerOf
  <1>5. SumFunction(g) = SumFunction(f) - f[d] + g[d]
    <2>1. f \in [Delegatee -> Int] /\ g \in [Delegatee -> Int] /\ IsFiniteSet(Delegatee)
      BY <1>3, FiniteDelegatees
    <2> QED BY <1>4, <2>1, SumUpdate
  <1>6. SumFunction(f) \in Nat /\ f[d] <= SumFunction(f) /\ f[d] \in Nat
    BY <1>3, FiniteDelegatees, SumNat, SumAtLeast
  <1> QED BY <1>1, <1>2, <1>4, <1>5, <1>6

LEMMA ValidatorSetInvStep ==
  ASSUME ValidatorSetInv, [ValidatorSetNext]_validatorSetVars
  PROVE  ValidatorSetInv'
  <1>a. PowerModulus \in Nat \ {0}
    BY DelegationsTyped DEF DelegationsTyped
  <1>b. ASSUME NEW n \in Int
        PROVE  n % PowerModulus \in Nat
    BY <1>a, DivMod
  <1>1. CASE UNCHANGED validatorSetVars
    BY <1>1 DEF validatorSetVars, ValidatorSetInv, PowerOf
  <1>2. ASSUME NEW d \in Delegatee, NEW active \in BOOLEAN, NEW power \in Powers,
               AddValidator(d, active, power)
        PROVE  ValidatorSetInv'
    <2>1. power \in Nat /\ NoEntry \notin Nat
      BY DelegationsTyped DEF DelegationsTyped
    <2>2. /\ replacedPower' = replacedPower + AmountOf(validatorSet[d])
          /\ validatorSet' = [validatorSet EXCEPT ![d] = power]
          /\ totalPower' = (totalPower + power) % PowerModulus
      BY <1>2 DEF AddValidator
    <2>3. AmountOf(power) = power
      BY <2>1 DEF AmountOf
    <2>4. /\ validatorSet' \in [Delegatee -> Nat \cup {NoEntry}]
          /\ SumFunction(PowerOf) \in Nat /\ AmountOf(validatorSet[d]) \in Nat
          /\ SumFunction(PowerOf') = SumFunction(PowerOf) - AmountOf(validatorSet[d]) + power
      BY <2>1, <2>2, <2>3, PowersChange
    <2>5. PICK p \in Nat, m \in Nat, k \in Nat :
            /\ p = SumFunction(PowerOf) /\ m = AmountOf(validatorSet[d]) /\ k = replacedPower
            /\ totalPower = (k + p) % PowerModulus
      BY <2>4 DEF ValidatorSetInv
    <2>6. SumFunction(PowerOf') = p - m + power /\ replacedPower' = k + m
      BY <2>2, <2>4, <2>5
    <2>7. totalPower' = (k + p + power) % PowerModulus
      <3>1. PICK i \in Int, n \in Int : i = k + p /\ n = power
        BY <2>1
      <3>2. ((i % PowerModulus) + n) % PowerModulus = (i + n) % PowerModulus
        BY <1>a, ModPlus
      <3>3. totalPower' = ((i % PowerModulus) + n) % PowerModulus
        BY <2>2, <2>5, <3>1
      <3>4. i + n = k + p + power
        BY <2>1, <3>1
      <3> QED BY <3>2, <3>3, <3>4
    <2>8. (k + m) + (p - m + power) = k + p + power
      BY <2>1
    <2>9. totalPower' = (replacedPower' + SumFunction(PowerOf')) % PowerModulus
      BY <2>6, <2>7, <2>8
    <2>10. replacedPower' \in Nat
      BY <2>6
    <2>11. totalPower' \in Nat
      <3>1. PICK i \in Int : i = k + p + power
        BY <2>1
      <3> QED BY <1>b, <2>7, <3>1
    <2> QED BY <2>4, <2>9, <2>10, <2>11 DEF ValidatorSetInv
  <1>3. ASSUME NEW d \in Delegatee, RemoveFromSet(d)
        PROVE  ValidatorSetInv'
    <2>1. /\ validatorSet[d] # NoEntry
          /\ validatorSet' = [validatorSet EXCEPT ![d] = NoEntry]
          /\ totalPower' = (totalPower - validatorSet[d]) % PowerModulus
          /\ replacedPower' = replacedPower
      BY <1>3 DEF RemoveFromSet
    <2>2. AmountOf(NoEntry) = 0 /\ AmountOf(validatorSet[d]) = validatorSet[d]
      BY <2>1 DEF AmountOf
    <2>3. NoEntry \in Nat \cup {NoEntry}
      OBVIOUS
    <2>4. /\ validatorSet' \in [Delegatee -> Nat \cup {NoEntry}]
          /\ SumFunction(PowerOf) \in Nat /\ validatorSet[d] \in Nat
          /\ SumFunction(PowerOf') = SumFunction(PowerOf) - validatorSet[d] + 0
      BY <2>1, <2>2, <2>3, PowersChange
    <2>5. PICK p \in Nat, m \in Nat, k \in Nat, n \in Int :
            /\ p = SumFunction(PowerOf) /\ m = validatorSet[d] /\ k = replacedPower /\ n = -m
            /\ totalPower = (k + p) % PowerModulus
      BY <2>4 DEF ValidatorSetInv
    <2>6. SumFunction(PowerOf') = p + n
      BY <2>4, <2>5
    <2>7. totalPower' = (((k + p) % PowerModulus) + n) % PowerModulus
      <3>1. PICK t \in Int : t = (k + p) % PowerModulus
        BY <1>a, DivMod
      <3>2. t - m = t + n
        BY <2>5
      <3> QED BY <2>1, <2>5, <3>1, <3>2
    <2>8. totalPower' = (k + p + n) % PowerModulus
      <3>1. PICK i \in Int : i = k + p
        OBVIOUS
      <3>2. ((i % PowerModulus) + n) % PowerModulus = (i + n) % PowerModulus
        BY <1>a, ModPlus
      <3>3. totalPower' = ((i % PowerModulus) + n) % PowerModulus
        BY <2>7, <3>1
      <3> QED BY <3>1, <3>2, <3>3
    <2>9. k + p + n = k + (p + n)
      OBVIOUS
    <2>10. totalPower' \in Nat
      <3>1. PICK i \in Int : i = k + p + n
        OBVIOUS
      <3> QED BY <1>b, <2>8, <3>1
    <2>11. totalPower' = (replacedPower' + SumFunction(PowerOf')) % PowerModulus
      BY <2>1, <2>5, <2>6, <2>8, <2>9
    <2> QED BY <2>1, <2>4, <2>5, <2>10, <2>11 DEF ValidatorSetInv
  <1> QED BY <1>1, <1>2, <1>3 DEF ValidatorSetNext
=============================================================================

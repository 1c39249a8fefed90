------------------------------ MODULE Finality ------------------------------
(***************************************************************************)
(* Finality votes (finality/tracker.rs): validators' votes are added up    *)
(* per block until they reach a quorum of the total power; a caller        *)
(* finalizes blocks, and old records are pruned.                           *)
(*                                                                         *)
(* Every operation is one &mut self call on FinalityTracker, so it is one  *)
(* action.  A block's hash stands for the block, so it has one height.     *)
(* The tracker sees no signatures, parents or validators: the caller says  *)
(* what power a voter has, and here a voter has one power throughout.      *)
(***************************************************************************)
EXTENDS Integers, FiniteSets, Functions

CONSTANTS
  Block,           \* [height, fork] of the blocks that exist
  Voter,
  Power,           \* the power of each voter
  TotalPowers,     \* what set_total_power may be called with
  QuorumBps,       \* quorum_threshold_bps
  NoBlock          \* Hash::ZERO, and a missing map entry

FinalityStatus == {"Pending", "Justified", "Finalized"}   \* Orphaned is never set

BlockFinality == [votes : SUBSET Voter, votePower : Nat, status : FinalityStatus]

ASSUME BlocksTyped ==
  /\ \A b \in Block : b.height \in Nat
  /\ NoBlock \notin Block /\ NoBlock \notin BlockFinality
ASSUME PowersTyped ==
  /\ Power \in [Voter -> Nat] /\ IsFiniteSet(Voter)
  /\ TotalPowers \subseteq Nat /\ QuorumBps \in 0 .. 10000

\* The power of a set of voters.
PowerOf(voters) == SumFunctionOnSet(Power, voters)

VARIABLES
  finality,              \* BlockFinality by block
  finalizedHeight,       \* finalized_height
  finalizedHash,         \* finalized_hash
  totalValidatorPower    \* total_validator_power

\* History, which the code does not keep.
VARIABLES
  everFinalized,         \* blocks that finalize was called for
  justifiedUnder         \* the total power at which a block was justified, 0 before that

finalityHistory == <<everFinalized, justifiedUnder>>
finalityVars ==
  <<finality, finalizedHeight, finalizedHash, totalValidatorPower, finalityHistory>>

FinalityInit ==
  /\ finality = [b \in Block |-> NoBlock]
  /\ finalizedHeight = 0 /\ finalizedHash = NoBlock
  /\ totalValidatorPower = 0
  /\ everFinalized = {}
  /\ justifiedUnder = [b \in Block |-> 0]

\* A block that is known already keeps its record.
RegisterBlock(b) ==
  /\ finality[b] = NoBlock
  /\ finality' = [finality EXCEPT ![b] = [votes |-> {}, votePower |-> 0, status |-> "Pending"]]
  /\ UNCHANGED <<finalizedHeight, finalizedHash, totalValidatorPower, finalityHistory>>

\* vote_power * 10000 / total >= quorum, where the division rounds down.
Quorum(power) ==
  totalValidatorPower # 0 /\ (power * 10000) \div totalValidatorPower >= QuorumBps

\* What counting one more vote makes of a record.
Voted(record, v) ==
  LET power == record.votePower + Power[v]
  IN  [votes |-> record.votes \cup {v}, votePower |-> power,
       status |-> IF record.status = "Pending" /\ Quorum(power) THEN "Justified"
                  ELSE record.status]

\* Mutant: a voter may vote for a block again.
AddVoteTwice(b, v) ==
  /\ finality[b] # NoBlock
  /\ finality[b].status # "Finalized"
  /\ finality' = [finality EXCEPT ![b] = Voted(@, v)]
  /\ justifiedUnder' = [justifiedUnder EXCEPT ![b] =
       IF finality[b].status = "Pending" /\ finality'[b].status = "Justified"
         THEN totalValidatorPower ELSE @]
  /\ UNCHANGED <<finalizedHeight, finalizedHash, totalValidatorPower, everFinalized>>

\* add_vote asks whether the voter voted for this block, not whether for its height.
AddVote(b, v) ==
  /\ finality[b] # NoBlock
  /\ finality[b].status # "Finalized" /\ v \notin finality[b].votes
  /\ finality' = [finality EXCEPT ![b] = Voted(@, v)]
  /\ justifiedUnder' = [justifiedUnder EXCEPT ![b] =
       IF finality[b].status = "Pending" /\ finality'[b].status = "Justified"
         THEN totalValidatorPower ELSE @]
  /\ UNCHANGED <<finalizedHeight, finalizedHash, totalValidatorPower, everFinalized>>

SetTotalPower(power) ==
  /\ totalValidatorPower' = power
  /\ UNCHANGED <<finality, finalizedHeight, finalizedHash, finalityHistory>>

\* Mutant: the last block finalized is taken for the highest.
FinalizeLast(b) ==
  /\ finality[b] # NoBlock /\ finality[b].status # "Finalized"
  /\ finality' = [finality EXCEPT ![b].status = "Finalized"]
  /\ finalizedHeight' = b.height /\ finalizedHash' = b
  /\ everFinalized' = everFinalized \cup {b}
  /\ UNCHANGED <<totalValidatorPower, justifiedUnder>>

\* finalize does not ask for a justified block.
Finalize(b) ==
  /\ finality[b] # NoBlock /\ finality[b].status # "Finalized"
  /\ finality' = [finality EXCEPT ![b].status = "Finalized"]
  /\ IF b.height >= finalizedHeight
       THEN finalizedHeight' = b.height /\ finalizedHash' = b
       ELSE UNCHANGED <<finalizedHeight, finalizedHash>>
  /\ everFinalized' = everFinalized \cup {b}
  /\ UNCHANGED <<totalValidatorPower, justifiedUnder>>

\* A pruned block may be registered again, without its votes.
PruneBelow(height) ==
  /\ finality' = [b \in Block |-> IF b.height >= height THEN finality[b] ELSE NoBlock]
  /\ justifiedUnder' = [b \in Block |-> IF b.height >= height THEN justifiedUnder[b] ELSE 0]
  /\ UNCHANGED <<finalizedHeight, finalizedHash, totalValidatorPower, everFinalized>>

FinalityNext ==
  \/ \E b \in Block :
       RegisterBlock(b) \/ Finalize(b) \/ \E v \in Voter : AddVote(b, v)
  \/ \E power \in TotalPowers : SetTotalPower(power)
  \/ \E b \in Block : PruneBelow(b.height)

FinalitySpec == FinalityInit /\ [][FinalityNext]_finalityVars

----------------------------------------------------------------------------
(* Properties *)

\* Types of the tracker's state.
FinalityTypeOK ==
  /\ finality \in [Block -> BlockFinality \cup {NoBlock}]
  /\ finalizedHeight \in Nat /\ finalizedHash \in Block \cup {NoBlock}
  /\ totalValidatorPower \in Nat
  /\ everFinalized \subseteq Block
  /\ justifiedUnder \in [Block -> Nat]

\* Two blocks of one height are justified only if voters with a third of the power voted for
\* both, in whatever order votes, registrations and prunings come, as long as the tracker
\* was told the power of all voters when each got its quorum (tracker.rs:74-86, 138-148).
AccountableSafety ==
  \A b1, b2 \in Block :
    b1 # b2 /\ b1.height = b2.height /\ PowerOf(Voter) # 0
      /\ justifiedUnder[b1] = PowerOf(Voter) /\ justifiedUnder[b2] = PowerOf(Voter) =>
    10000 * PowerOf(finality[b1].votes \cap finality[b2].votes)
      >= (2 * QuorumBps - 10000) * PowerOf(Voter)

\* finalized_height is the highest that was finalized, also when blocks are finalized out of
\* order, pruned, and registered and finalized again; finalized_hash is such a block
\* (tracker.rs:167).
HighestFinalized ==
  /\ \A b \in everFinalized : b.height <= finalizedHeight
  /\ IF everFinalized = {} THEN finalizedHash = NoBlock
     ELSE finalizedHash \in everFinalized /\ finalizedHash.height = finalizedHeight
=============================================================================

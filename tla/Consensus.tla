----------------------------- MODULE Consensus -----------------------------
(***************************************************************************)
(* The parts that a network of nodes needs to agree on blocks: finality    *)
(* votes, block sync and proof of stake.  In the repository they share no  *)
(* state and do not call each other, so in a behavior of this module one   *)
(* of them moves, whichever.                                               *)
(***************************************************************************)
EXTENDS Finality, BlockSync, ProofOfStake

VARIABLE part    \* the part that moves

consensusVars == <<finalityVars, syncVars, stakingVars, part>>

ConsensusInit ==
  /\ FinalityInit /\ SyncInit /\ StakingInit
  /\ part \in {"finality", "sync", "staking"}

ConsensusNext ==
  \/ part = "finality" /\ FinalityNext /\ UNCHANGED <<syncVars, stakingVars, part>>
  \/ part = "sync" /\ SyncNext /\ UNCHANGED <<finalityVars, stakingVars, part>>
  \/ part = "staking" /\ StakingNext /\ UNCHANGED <<finalityVars, syncVars, part>>

ConsensusSpec == ConsensusInit /\ [][ConsensusNext]_consensusVars /\ SyncFairness

\* Types of all three parts' state.
ConsensusTypeOK == FinalityTypeOK /\ SyncTypeOK /\ StakingTypeOK
=============================================================================

---------------------------- MODULE ProofOfStake ----------------------------
(***************************************************************************)
(* Proof of stake: the vault that holds stakes (staking.rs) and the engine *)
(* over it, which keeps the validators and picks proposers (pos/engine.rs).*)
(*                                                                         *)
(* Every operation is one &mut self call.  The engine's vault is a public  *)
(* field, so stakes also change behind the engine's back.  Callers pass    *)
(* the chain's height, which only grows.  An unbonding queue is the amount *)
(* that completes at each height.  Left out: when a stake was made, the    *)
(* counts of proposed and missed blocks, and epochs.                       *)
(***************************************************************************)
EXTENDS Integers, Sequences, FiniteSets, Functions

CONSTANTS
  Staker,             \* addresses
  None,               \* a missing map entry, and no proposer
  StakeAmounts,       \* amounts staked, added and unstaked
  SlashBps,           \* percentages that callers slash
  MinStake,           \* VALIDATOR_MIN_STAKE
  MaxSlashBps,        \* MAX_SLASH_PERCENT
  UnbondingPeriod,    \* unbonding_period
  MinValidators       \* min_validators

\* Bounds of the exploration, which the code does not have.
CONSTANTS
  MaxChainHeight,     \* the height of the chain
  MaxPutIn            \* all stakes together

CompletionHeight == 0 .. MaxChainHeight + UnbondingPeriod
StakeEntry == [amount : Nat, unbonding : [CompletionHeight -> Nat]]
ValidatorInfo == [address : Staker, stake : Nat, weight : Nat]

ASSUME StakeInputsTyped ==
  /\ StakeAmounts \subseteq Nat /\ SlashBps \subseteq Nat
  /\ MinStake \in Nat \ {0} /\ MaxSlashBps \in 0 .. 10000
  /\ UnbondingPeriod \in Nat /\ MinValidators \in Nat \ {0} /\ MaxChainHeight \in Nat
ASSUME StakersFinite == IsFiniteSet(Staker)
ASSUME NoneIsNothing == None \notin Staker /\ None \notin StakeEntry

VARIABLES
  stakes,             \* StakeEntry by address
  totalStaked,        \* total_staked
  validators,         \* the validators, in the engine's order
  currentProposer,    \* current_proposer
  chainHeight         \* the height of the chain

\* History, which the code does not keep.
VARIABLES
  putIn,              \* tokens staked
  released,           \* tokens that complete_unbonding returned
  slashed,            \* tokens that slash returned
  movedDirectly       \* stakers whose stake a call to the vault changed

stakeHistory == <<putIn, released, slashed, movedDirectly>>
engineVars == <<validators, currentProposer>>
stakingVars == <<stakes, totalStaked, engineVars, chainHeight, stakeHistory>>

StakingInit ==
  /\ stakes = [a \in Staker |-> None] /\ totalStaked = 0
  /\ validators = <<>> /\ currentProposer = None
  /\ chainHeight = 0
  /\ putIn = 0 /\ released = 0 /\ slashed = 0 /\ movedDirectly = {}

ChainGrows ==
  /\ chainHeight < MaxChainHeight
  /\ chainHeight' = chainHeight + 1
  /\ UNCHANGED <<stakes, totalStaked, engineVars, stakeHistory>>

----------------------------------------------------------------------------
(* The vault *)

\* The vault's part of stake.
Locked(a, amount) ==
  /\ amount >= MinStake /\ stakes[a] = None /\ putIn + amount <= MaxPutIn
  /\ stakes' = [stakes EXCEPT ![a] =
       [amount |-> amount, unbonding |-> [h \in CompletionHeight |-> 0]]]
  /\ totalStaked' = totalStaked + amount
  /\ putIn' = putIn + amount
  /\ UNCHANGED <<chainHeight, released, slashed>>

Stake(a, amount) ==
  /\ Locked(a, amount)
  /\ movedDirectly' = movedDirectly \cup {a}
  /\ UNCHANGED engineVars

AddStake(a, amount) ==
  /\ stakes[a] # None /\ putIn + amount <= MaxPutIn
  /\ stakes' = [stakes EXCEPT ![a].amount = @ + amount]
  /\ totalStaked' = totalStaked + amount
  /\ putIn' = putIn + amount
  /\ movedDirectly' = movedDirectly \cup {a}
  /\ UNCHANGED <<engineVars, chainHeight, released, slashed>>

\* Mutant: the total keeps what is unbonding.
UnstakeKeepsTotal(a, amount) ==
  /\ stakes[a] # None /\ amount <= stakes[a].amount
  /\ stakes' = [stakes EXCEPT ![a].amount = @ - amount,
                               ![a].unbonding[chainHeight + UnbondingPeriod] = @ + amount]
  /\ movedDirectly' = movedDirectly \cup {a}
  /\ UNCHANGED <<totalStaked, engineVars, chainHeight, putIn, released, slashed>>

BeginUnstake(a, amount) ==
  /\ stakes[a] # None /\ amount <= stakes[a].amount
  /\ stakes' = [stakes EXCEPT ![a].amount = @ - amount,
                               ![a].unbonding[chainHeight + UnbondingPeriod] = @ + amount]
  /\ totalStaked' = totalStaked - amount
  /\ movedDirectly' = movedDirectly \cup {a}
  /\ UNCHANGED <<engineVars, chainHeight, putIn, released, slashed>>

\* The part of a queue that is due, and the part that waits.
Due(unbonding) ==
  [h \in CompletionHeight |-> IF h <= chainHeight THEN unbonding[h] ELSE 0]
Waiting(unbonding) ==
  [h \in CompletionHeight |-> IF h <= chainHeight THEN 0 ELSE unbonding[h]]

\* complete_unbonding; the record stays, also when nothing is left in it.
CompleteUnbonding(a) ==
  /\ stakes[a] # None
  /\ released' = released + SumFunction(Due(stakes[a].unbonding))
  /\ stakes' = [stakes EXCEPT ![a].unbonding = Waiting(@)]
  /\ UNCHANGED <<totalStaked, engineVars, chainHeight, putIn, slashed, movedDirectly>>

\* What a slash takes of the active stake, with the percentage capped, rounded down.
SlashAmount(a, bps) ==
  LET effective == IF bps <= MaxSlashBps THEN bps ELSE MaxSlashBps
  IN  (stakes[a].amount * effective) \div 10000

\* The vault's part of a slash.
Slashed(a, bps) ==
  /\ stakes[a] # None
  /\ stakes' = [stakes EXCEPT ![a].amount = @ - SlashAmount(a, bps)]
  /\ totalStaked' = totalStaked - SlashAmount(a, bps)
  /\ slashed' = slashed + SlashAmount(a, bps)
  /\ UNCHANGED <<chainHeight, putIn, released>>

Slash(a, bps) ==
  /\ Slashed(a, bps)
  /\ movedDirectly' = movedDirectly \cup {a}
  /\ UNCHANGED engineVars

----------------------------------------------------------------------------
(* The engine *)

Weight(stake) == stake \div MinStake     \* stake_to_weight

Validator(a, stake) == [address |-> a, stake |-> stake, weight |-> Weight(stake)]

Position(a) == {i \in DOMAIN validators : validators[i].address = a}

RegisterValidator(a, amount) ==
  /\ Position(a) = {}
  /\ Locked(a, amount)
  /\ validators' = Append(validators, Validator(a, amount))
  /\ UNCHANGED <<currentProposer, movedDirectly>>

\* The last validator takes the place of the removed one (swap_remove).
WithoutPosition(i) ==
  [k \in 1 .. Len(validators) - 1 |->
     IF k = i THEN validators[Len(validators)] ELSE validators[k]]

\* Mutant: the removed validator stays the current proposer.
RemoveKeepsProposer(a) ==
  \E i \in Position(a) :
    /\ validators' = WithoutPosition(i)
    /\ UNCHANGED <<currentProposer, stakes, totalStaked, chainHeight, stakeHistory>>

\* remove_validator; the stake stays in the vault.
RemoveValidator(a) ==
  \E i \in Position(a) :
    /\ validators' = WithoutPosition(i)
    /\ currentProposer' = IF currentProposer = a THEN None ELSE currentProposer
    /\ UNCHANGED <<stakes, totalStaked, chainHeight, stakeHistory>>

\* The weight of the first i validators.
Cumulative(i) == SumFunction([k \in 1 .. i |-> validators[k].weight])

TotalVotingPower == Cumulative(Len(validators))

\* Mutant: a validator's last slot is one too late.
ProposerOneLate(height) ==
  LET slot == height % TotalVotingPower
      Ahead == {i \in DOMAIN validators : slot <= Cumulative(i)}
  IN  validators[CHOOSE i \in Ahead : \A k \in Ahead : i <= k].address

\* Weighted round-robin by height: the first validator whose slots go beyond the height's, or
\* the last one.
ProposerAt(height) ==
  LET slot == height % TotalVotingPower
      Ahead == {i \in DOMAIN validators : slot < Cumulative(i)}
      First == {i \in Ahead : \A k \in Ahead : i <= k}
  IN  IF First = {} THEN validators[Len(validators)].address
      ELSE validators[CHOOSE i \in First : TRUE].address

CanPropose == Len(validators) >= MinValidators /\ TotalVotingPower > 0

\* select_proposer, by the producer for the next block or in validate_block for any.
SelectProposer(height) ==
  /\ CanPropose
  /\ currentProposer' = ProposerAt(height)
  /\ UNCHANGED <<stakes, totalStaked, validators, chainHeight, stakeHistory>>

\* Mutant: the weight stays.
SlashKeepsWeight(a, bps) ==
  /\ Slashed(a, bps)
  /\ validators' = [i \in DOMAIN validators |->
       IF validators[i].address = a
         THEN [validators[i] EXCEPT !.stake = @ - SlashAmount(a, bps)]
         ELSE validators[i]]
  /\ UNCHANGED <<currentProposer, movedDirectly>>

\* Mutant: what the engine knows of goes below zero.
SlashUnsaturated(a, bps) ==
  /\ Slashed(a, bps)
  /\ validators' = [i \in DOMAIN validators |->
       IF validators[i].address = a
         THEN Validator(a, validators[i].stake - SlashAmount(a, bps))
         ELSE validators[i]]
  /\ UNCHANGED <<currentProposer, movedDirectly>>

\* The engine's copy of the stake is lowered too, as far as it goes (saturating_sub), and its
\* weight follows.
Lowered(stake, amount) == IF stake >= amount THEN stake - amount ELSE 0

SlashValidator(a, bps) ==
  /\ Slashed(a, bps)
  /\ validators' = [i \in DOMAIN validators |->
       IF validators[i].address = a
         THEN Validator(a, Lowered(validators[i].stake, SlashAmount(a, bps)))
         ELSE validators[i]]
  /\ UNCHANGED <<currentProposer, movedDirectly>>

StakingNext ==
  \/ ChainGrows
  \/ \E a \in Staker, amount \in StakeAmounts :
       \/ Stake(a, amount) \/ AddStake(a, amount) \/ BeginUnstake(a, amount)
       \/ RegisterValidator(a, amount)
  \/ \E a \in Staker : CompleteUnbonding(a) \/ RemoveValidator(a)
  \/ \E a \in Staker, bps \in SlashBps : Slash(a, bps) \/ SlashValidator(a, bps)
  \/ \E height \in 0 .. MaxChainHeight + 1 : SelectProposer(height)

StakingSpec == StakingInit /\ [][StakingNext]_stakingVars

----------------------------------------------------------------------------
(* Properties *)

\* Types of the vault's and the engine's state.
StakingTypeOK ==
  /\ stakes \in [Staker -> StakeEntry \cup {None}] /\ totalStaked \in Nat
  /\ validators \in Seq(ValidatorInfo) /\ currentProposer \in Staker \cup {None}
  /\ chainHeight \in Nat
  /\ putIn \in Nat /\ released \in Nat /\ slashed \in Nat
  /\ movedDirectly \subseteq Staker

StakeOf(a) == IF stakes[a] = None THEN 0 ELSE stakes[a].amount
UnbondingOf(a) == IF stakes[a] = None THEN 0 ELSE SumFunction(stakes[a].unbonding)

\* Every token staked is in somebody's stake, on its way out, released once or slashed, and
\* total_staked is the sum of the stakes (staking.rs:117, 170, 195, 240).
StakeConserved ==
  /\ totalStaked = SumFunction([a \in Staker |-> StakeOf(a)])
  /\ putIn = totalStaked + SumFunction([a \in Staker |-> UnbondingOf(a)]) + released + slashed

\* What the engine holds of a validator is what the vault holds, after any slashes and
\* removals, unless somebody went to the vault directly (pos/engine.rs:226).
EngineFollowsVault ==
  \A i \in DOMAIN validators :
    LET v == validators[i]
    IN  /\ v.address \notin movedDirectly => v.stake = StakeOf(v.address)
        /\ v.weight = Weight(v.stake)
        /\ \A k \in DOMAIN validators \ {i} : validators[k].address # v.address

\* The current proposer is a validator, whatever happened to the set since it was picked
\* (pos/engine.rs:84).
ProposerIsValidator == currentProposer # None => Position(currentProposer) # {}

\* As long as the set stays the same, each validator proposes its weight's worth of any
\* total-weight blocks in a row (pos/engine.rs:117-126).
RoundRobinIsFair ==
  CanPropose => \A i \in DOMAIN validators, first \in 0 .. TotalVotingPower :
    Cardinality({h \in first .. first + TotalVotingPower - 1 :
      ProposerAt(h) = validators[i].address}) = validators[i].weight
=============================================================================

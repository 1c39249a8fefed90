--------------------------- MODULE SubnetStaking ---------------------------
(***************************************************************************)
(* Stakes of providers in subnets (subnet_staking/manager.rs), and the     *)
(* discounts on the stake that a reputation earns (staking_discount.rs).   *)
(* The caller passes the least stake; here it is what the discount manager *)
(* requires of the reputation that the caller has for the provider.        *)
(* The product of a slash saturates; that the stakes of a subnet fit into  *)
(* u128 together is assumed, as nothing checks their sum.  Left out: the   *)
(* index by provider, which decides nothing.                               *)
(***************************************************************************)
EXTENDS Common

CONSTANTS
  StakingSubnet, StakingProvider,
  NoStake,                         \* a missing map entry
  SubnetStakeAmounts, Reputations,   \* what callers pass
  SubnetSlashBps, SubnetMaxSlashBps, \* percentages, and MAX_SLASH_PERCENT
  SubnetUnbondingPeriod,           \* parameter of the manager
  BaseStake, DiscountTiers,        \* [reputation, discount] that callers add
  MaxDiscountBps,                  \* max_discount_bps
  StakeModulus,                    \* 2^128
  MaxStakedIn                      \* bound of the exploration: what a provider stakes in all

\* Chunks of one height are released together, so their amounts are added up.
SubnetStake == [amount : Nat, unbonding : [0 .. MaxNow + SubnetUnbondingPeriod -> Nat]]

ASSUME SubnetStakingTyped ==
  /\ IsFiniteSet(StakingProvider) /\ NoStake \notin SubnetStake
  /\ SubnetStakeAmounts \cup Reputations \cup SubnetSlashBps \subseteq Nat
  /\ SubnetMaxSlashBps \in 0 .. 10000 /\ MaxDiscountBps \in 0 .. 10000
  /\ SubnetUnbondingPeriod \in Nat /\ MaxNow + SubnetUnbondingPeriod < HeightModulus
  /\ StakeModulus \in Nat /\ MaxStakedIn * Cardinality(StakingProvider) < StakeModulus
  /\ BaseStake \in Nat /\ 10000 * BaseStake < StakeModulus
  /\ \A t \in DiscountTiers : t.reputation \in Nat /\ t.discount \in Nat

VARIABLES
  subnetStakes,        \* SubnetStake by subnet and provider
  totalBySubnet,       \* total_by_subnet
  discountTiers        \* tiers, a set for the sorted vector

\* History, by subnet and provider: what was staked, released and slashed.
VARIABLES stakedIn, stakeReleased, stakeSlashed

stakingHistory == <<stakedIn, stakeReleased, stakeSlashed>>
subnetStakingVars == <<subnetStakes, totalBySubnet, discountTiers, stakingHistory>>

Staking == StakingSubnet \X StakingProvider

SubnetStakingInit ==
  /\ subnetStakes = [k \in Staking |-> NoStake]
  /\ totalBySubnet = [s \in StakingSubnet |-> 0]
  /\ discountTiers = {}
  /\ stakedIn = [k \in Staking |-> 0]
  /\ stakeReleased = [k \in Staking |-> 0] /\ stakeSlashed = [k \in Staking |-> 0]

\* add_tier refuses a second tier of the same reputation.
AddTier(tier) ==
  /\ \A t \in discountTiers : t.reputation # tier.reputation
  /\ discountTiers' = discountTiers \cup {tier}
  /\ UNCHANGED <<subnetStakes, totalBySubnet, stakingHistory>>

\* get_discount: the highest tier that is met, capped.
Discount(reputation) ==
  LET met == {t \in discountTiers : reputation >= t.reputation} IN
  IF met = {} THEN 0
  ELSE Min({(CHOOSE t \in met : \A x \in met : x.reputation <= t.reputation).discount,
            MaxDiscountBps})

RequiredStake(reputation) == (BaseStake * (10000 - Discount(reputation))) \div 10000

AddTotal(s, amount) == totalBySubnet' = [totalBySubnet EXCEPT ![s] = @ + amount]

StakeInSubnet(s, a, amount, reputation) ==
  /\ amount >= RequiredStake(reputation) /\ subnetStakes[<<s, a>>] = NoStake
  /\ stakedIn[<<s, a>>] + amount <= MaxStakedIn
  /\ subnetStakes' = [subnetStakes EXCEPT ![<<s, a>>] =
       [amount |-> amount, unbonding |-> [h \in 0 .. MaxNow + SubnetUnbondingPeriod |-> 0]]]
  /\ AddTotal(s, amount)
  /\ stakedIn' = [stakedIn EXCEPT ![<<s, a>>] = @ + amount]
  /\ UNCHANGED <<discountTiers, stakeReleased, stakeSlashed>>

AddStake(s, a, amount) ==
  /\ subnetStakes[<<s, a>>] # NoStake
  /\ stakedIn[<<s, a>>] + amount <= MaxStakedIn
  /\ subnetStakes' = [subnetStakes EXCEPT ![<<s, a>>].amount = @ + amount]
  /\ AddTotal(s, amount)
  /\ stakedIn' = [stakedIn EXCEPT ![<<s, a>>] = @ + amount]
  /\ UNCHANGED <<discountTiers, stakeReleased, stakeSlashed>>

BeginUnstake(s, a, amount) ==
  /\ subnetStakes[<<s, a>>] # NoStake /\ amount <= subnetStakes[<<s, a>>].amount
  /\ subnetStakes' = [subnetStakes EXCEPT
       ![<<s, a>>].amount = @ - amount,
       ![<<s, a>>].unbonding[now + SubnetUnbondingPeriod] = @ + amount]
  /\ totalBySubnet' = [totalBySubnet EXCEPT ![s] = Monus(@, amount)]
  /\ UNCHANGED <<discountTiers, stakingHistory>>

CompleteUnbonding(s, a) ==
  /\ subnetStakes[<<s, a>>] # NoStake
  /\ LET unbonding == subnetStakes[<<s, a>>].unbonding
         due == {h \in DOMAIN unbonding : h <= now}
     IN
       /\ subnetStakes' = [subnetStakes EXCEPT
            ![<<s, a>>].unbonding = [h \in DOMAIN @ |-> IF h \in due THEN 0 ELSE @[h]]]
       /\ stakeReleased' = [stakeReleased EXCEPT
            ![<<s, a>>] = @ + SumOver(LAMBDA h : unbonding[h], due)]
  /\ UNCHANGED <<totalBySubnet, discountTiers, stakedIn, stakeSlashed>>

SlashInSubnet(s, a, bps) ==
  /\ subnetStakes[<<s, a>>] # NoStake
  /\ LET product == subnetStakes[<<s, a>>].amount * Min({bps, SubnetMaxSlashBps})
         amount == Smaller(StakeModulus - 1, product) \div 10000
     IN
       /\ subnetStakes' = [subnetStakes EXCEPT ![<<s, a>>].amount = @ - amount]
       /\ totalBySubnet' = [totalBySubnet EXCEPT ![s] = Monus(@, amount)]
       /\ stakeSlashed' = [stakeSlashed EXCEPT ![<<s, a>>] = @ + amount]
  /\ UNCHANGED <<discountTiers, stakedIn, stakeReleased>>

SubnetStakingNext ==
  \/ \E tier \in DiscountTiers : AddTier(tier)
  \/ \E s \in StakingSubnet, a \in StakingProvider :
       \/ \E n \in SubnetStakeAmounts :
            \/ \E r \in Reputations : StakeInSubnet(s, a, n, r)
            \/ AddStake(s, a, n) \/ BeginUnstake(s, a, n)
       \/ CompleteUnbonding(s, a)
       \/ \E bps \in SubnetSlashBps : SlashInSubnet(s, a, bps)

----------------------------------------------------------------------------
(* Properties *)

\* Types of the stakes and tiers.
SubnetStakingTypeOK ==
  /\ subnetStakes \in [Staking -> SubnetStake \cup {NoStake}]
  /\ totalBySubnet \in [StakingSubnet -> Nat]
  /\ discountTiers \subseteq DiscountTiers
  /\ {stakedIn, stakeReleased, stakeSlashed} \subseteq [Staking -> Nat]

ActiveStake(k) == IF subnetStakes[k] = NoStake THEN 0 ELSE subnetStakes[k].amount

UnbondingStake(k) ==
  IF subnetStakes[k] = NoStake THEN 0
  ELSE SumOver(LAMBDA h : subnetStakes[k].unbonding[h], DOMAIN subnetStakes[k].unbonding)

\* Every staked token is active, unbonding, released or slashed, and a subnet's total is
\* that of its active stakes (subnet_staking/manager.rs:136, 164, 206).
SubnetStakeAccounted ==
  /\ \A k \in Staking :
       stakedIn[k] = ActiveStake(k) + UnbondingStake(k) + stakeReleased[k] + stakeSlashed[k]
  /\ \A s \in StakingSubnet :
       totalBySubnet[s] = SumOver(LAMBDA a : ActiveStake(<<s, a>>), StakingProvider)
=============================================================================

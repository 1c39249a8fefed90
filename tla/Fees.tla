-------------------------------- MODULE Fees --------------------------------
(***************************************************************************)
(* Where fees go: the protocol's treasury (treasury/treasury.rs) and the   *)
(* subnets' pools (fee_routing.rs).  Rates are parts of FullRate, and      *)
(* every division rounds down.  Sums and products are those of u128, which *)
(* nothing checks: the product of an amount and a stake in wei leaves it   *)
(* soon.  A list of recipients names each of them once; the heights that   *)
(* are recorded decide nothing.                                            *)
(***************************************************************************)
EXTENDS Common, Sequences

CONSTANTS
  FeeModulus,                 \* 2^128
  FullRate,                   \* 10_000, the whole in basis points
  Payee, TreasuryAdmin,       \* addresses, and the admin among them
  InitialFeeRate,             \* fee_rate_bps of new
  FeeRates, FeeAmounts,       \* what callers pass
  StakerShareBps,             \* staker_share_bps
  FeeSubnet, NoPool,          \* subnets, and a missing map entry
  ProtocolFeeBps, SubnetFeeBps,   \* parameters of the router, whose sum fits into u32
  MaxFeeCalls                 \* bound of the exploration

SubnetFeePool == [balance : Nat, collected : Nat, distributed : Nat]

ASSUME FeesTyped ==
  /\ IsFiniteSet(Payee) /\ IsFiniteSet(FeeSubnet)
  /\ TreasuryAdmin \in Payee /\ NoPool \notin SubnetFeePool
  /\ FeeModulus \in Nat \ {0} /\ FullRate \in Nat \ {0}
  /\ FeeRates \subseteq Nat /\ FeeAmounts \subseteq 0 .. FeeModulus - 1
  /\ InitialFeeRate \in 0 .. FullRate /\ StakerShareBps \in 0 .. FullRate
  /\ ProtocolFeeBps \in Nat /\ SubnetFeeBps \in Nat

VARIABLES
  treasuryBalance,       \* balance
  totalCollected,        \* total_collected
  totalDistributed,      \* total_distributed
  treasuryFeeRate,       \* fee_rate_bps
  distributions,         \* distributions: what each one paid to whom
  feePools,              \* SubnetFeePool by subnet
  totalRouted            \* total_routed

\* History: what the routes leave to the protocol and to providers, what the recipients of
\* each pool were given, how many calls there were of the treasury and of the router, and
\* whether a sum of amounts or of stakes left its width there.
VARIABLES protocolCut, providerCut, handedOut, treasuryCalls, routerCalls, treasuryExact,
          routerExact

treasuryVars ==
  <<treasuryBalance, totalCollected, totalDistributed, treasuryFeeRate, distributions,
    treasuryCalls, treasuryExact>>
feePoolVars ==
  <<feePools, totalRouted, protocolCut, providerCut, handedOut, routerCalls, routerExact>>
feeVars == <<treasuryVars, feePoolVars>>

FeesInit ==
  /\ treasuryBalance = 0 /\ totalCollected = 0 /\ totalDistributed = 0
  /\ treasuryFeeRate = InitialFeeRate /\ distributions = <<>>
  /\ feePools = [s \in FeeSubnet |-> NoPool]
  /\ totalRouted = 0 /\ protocolCut = 0 /\ providerCut = 0
  /\ handedOut = [s \in FeeSubnet |-> 0]
  /\ treasuryCalls = 0 /\ routerCalls = 0
  /\ treasuryExact = TRUE /\ routerExact = TRUE

Wrapped(n) == n % FeeModulus

Bps(amount, rate) == Wrapped(amount * rate) \div FullRate

\* What a list sums up to, and what the code finds it does.
SumOf(list) == SumOver(LAMBDA a : list[a], Payee)
Paid(list) == Wrapped(SumOf(list))

----------------------------------------------------------------------------
(* The treasury *)

\* What collect_fee and deposit put in.
Collect(amount) ==
  /\ amount > 0 /\ treasuryCalls < MaxFeeCalls
  /\ treasuryBalance' = Wrapped(treasuryBalance + amount)
  /\ totalCollected' = Wrapped(totalCollected + amount)
  /\ treasuryCalls' = treasuryCalls + 1
  /\ treasuryExact' = (treasuryExact /\ totalCollected + amount < FeeModulus)
  /\ UNCHANGED <<totalDistributed, treasuryFeeRate, distributions>>

CollectFee(gross) == Collect(Bps(gross, treasuryFeeRate))

\* Takes out what the recipients get; exact says whether the sum behind it fitted.
PayOutOf(recipients, exact) ==
  /\ treasuryCalls < MaxFeeCalls
  /\ treasuryBalance' = Wrapped(treasuryBalance - Paid(recipients))
  /\ totalDistributed' = Wrapped(totalDistributed + Paid(recipients))
  /\ distributions' = Append(distributions, recipients)
  /\ treasuryCalls' = treasuryCalls + 1
  /\ treasuryExact' = (treasuryExact /\ exact)
  /\ UNCHANGED <<totalCollected, treasuryFeeRate>>

Distribute(recipients, caller) ==
  /\ caller = TreasuryAdmin
  /\ Paid(recipients) > 0 /\ Paid(recipients) <= treasuryBalance
  /\ PayOutOf(recipients, SumOf(recipients) < FeeModulus)

\* An amount split by stake; those whose share is 0 get nothing.
Shares(amount, stakes) == [a \in Payee |-> Wrapped(amount * stakes[a]) \div Paid(stakes)]

\* What the shares sum up to is not compared with what there is.
DistributeShares(amount, stakes) ==
  /\ Paid(stakes) > 0 /\ \E a \in Payee : Shares(amount, stakes)[a] > 0
  /\ PayOutOf(Shares(amount, stakes), SumOf(stakes) < FeeModulus)

DistributeProportional(stakes, amount, caller) ==
  /\ caller = TreasuryAdmin
  /\ amount > 0 /\ amount <= treasuryBalance
  /\ DistributeShares(amount, stakes)

DistributeWithSplit(stakes, caller) ==
  LET share == Bps(treasuryBalance, StakerShareBps) IN
  /\ caller = TreasuryAdmin /\ share > 0
  /\ DistributeShares(share, stakes)

SetFeeRate(rate, caller) ==
  /\ caller = TreasuryAdmin /\ rate <= FullRate
  /\ treasuryFeeRate' = rate
  /\ UNCHANGED <<treasuryBalance, totalCollected, totalDistributed, distributions,
                 treasuryCalls, treasuryExact>>

----------------------------------------------------------------------------
(* The pools *)

InitializePools(subnets) ==
  /\ feePools' = [s \in FeeSubnet |->
       IF s \in subnets /\ feePools[s] = NoPool
       THEN [balance |-> 0, collected |-> 0, distributed |-> 0] ELSE feePools[s]]
  /\ UNCHANGED <<totalRouted, protocolCut, providerCut, handedOut, routerCalls, routerExact>>

RouteFee(s, gross) ==
  LET fee == Bps(gross, SubnetFeeBps)  cut == Bps(gross, ProtocolFeeBps) IN
  /\ gross > 0 /\ ProtocolFeeBps + SubnetFeeBps <= FullRate /\ feePools[s] # NoPool
  /\ routerCalls < MaxFeeCalls
  /\ feePools' = [feePools EXCEPT ![s].balance = Wrapped(@ + fee),
                                  ![s].collected = Wrapped(@ + fee)]
  /\ totalRouted' = Wrapped(totalRouted + gross)
  /\ protocolCut' = protocolCut + cut
  /\ providerCut' = providerCut + (gross - cut - fee)
  /\ routerCalls' = routerCalls + 1
  /\ routerExact' = (routerExact /\ totalRouted + gross < FeeModulus)
  /\ UNCHANGED handedOut

DistributePool(s, recipients) ==
  /\ feePools[s] # NoPool /\ Paid(recipients) <= feePools[s].balance
  /\ routerCalls < MaxFeeCalls
  /\ feePools' = [feePools EXCEPT ![s].balance = @ - Paid(recipients),
                                  ![s].distributed = Wrapped(@ + Paid(recipients))]
  /\ handedOut' = [handedOut EXCEPT ![s] = @ + SumOf(recipients)]
  /\ routerCalls' = routerCalls + 1
  /\ routerExact' = (routerExact /\ SumOf(recipients) < FeeModulus)
  /\ UNCHANGED <<totalRouted, protocolCut, providerCut>>

Lists == [Payee -> FeeAmounts]

TreasuryNext ==
  \/ \E n \in FeeAmounts : CollectFee(n) \/ Collect(n)
  \/ \E caller \in Payee :
       \/ \E list \in Lists :
            \/ Distribute(list, caller) \/ DistributeWithSplit(list, caller)
            \/ \E n \in FeeAmounts : DistributeProportional(list, n, caller)
       \/ \E rate \in FeeRates : SetFeeRate(rate, caller)

FeePoolsNext ==
  \/ \E subnets \in SUBSET FeeSubnet : InitializePools(subnets)
  \/ \E s \in FeeSubnet :
       \/ \E n \in FeeAmounts : RouteFee(s, n)
       \/ \E list \in Lists : DistributePool(s, list)

----------------------------------------------------------------------------
(* Properties *)

\* Types of the treasury's and the pools' state.
FeesTypeOK ==
  /\ {treasuryBalance, totalCollected, totalDistributed, totalRouted}
       \subseteq 0 .. FeeModulus - 1
  /\ {protocolCut, providerCut, treasuryCalls, routerCalls} \subseteq Nat
  /\ handedOut \in [FeeSubnet -> Nat]
  /\ treasuryExact \in BOOLEAN /\ routerExact \in BOOLEAN
  /\ treasuryFeeRate \in 0 .. FullRate
  /\ distributions \in Seq([Payee -> Nat])
  /\ feePools \in [FeeSubnet -> SubnetFeePool \cup {NoPool}]

\* The treasury's books agree modulo their width.  While no sum of amounts or of stakes has
\* left it, what was collected is in the treasury or with the recipients of a distribution,
\* and every routed amount is with the protocol, a pool, its recipients or the provider.
\* That a product of a rate or of a stake leaves its width, and a fee or a share is less than
\* it should be, loses nothing (treasury/treasury.rs:117, 187, 253; fee_routing.rs:155, 192).
FeesAccounted ==
  LET open == {s \in FeeSubnet : feePools[s] # NoPool} IN
  /\ Wrapped(treasuryBalance + totalDistributed) = totalCollected
  /\ treasuryExact =>
       /\ treasuryBalance + totalDistributed = totalCollected
       /\ totalDistributed = SumOver(LAMBDA i : SumOf(distributions[i]), DOMAIN distributions)
  /\ routerExact =>
       /\ totalRouted = protocolCut + providerCut
            + SumOver(LAMBDA s : feePools[s].balance + feePools[s].distributed, open)
       /\ \A s \in open :
            /\ feePools[s].collected = feePools[s].balance + feePools[s].distributed
            /\ feePools[s].distributed = handedOut[s]

----------------------------------------------------------------------------
(***************************************************************************)
(* Block rewards (emission/controller.rs): the reward of a height, halved  *)
(* every so many blocks, is split over subnets by weight and over a        *)
(* subnet's providers by stake.  Heights, weights and stakes are what the  *)
(* caller says, in any order.                                              *)
(***************************************************************************)

CONSTANTS
  EmissionSubnet, EmissionProvider,
  WeightModulus,      \* 2^32
  SubnetWeights,      \* maps of subnets to weights that callers pass, not all subnets in each
  ProviderStakes,     \* maps of subnets and providers to stakes that callers pass
  BaseReward, HalvingInterval, MinReward,   \* parameters of the schedule
  EmissionHeights,    \* heights that callers pass
  MaxEmissions        \* bound of the exploration

ASSUME EmissionTyped ==
  /\ IsFiniteSet(EmissionSubnet) /\ IsFiniteSet(EmissionProvider)
  /\ WeightModulus \in Nat \ {0}
  /\ {BaseReward, MinReward} \subseteq 0 .. FeeModulus - 1
  /\ HalvingInterval \in Nat /\ EmissionHeights \subseteq Nat
  /\ \A w \in SubnetWeights :
       DOMAIN w \subseteq EmissionSubnet /\ \A s \in DOMAIN w : w[s] \in Nat
  /\ \A k \in ProviderStakes :
       \A s \in EmissionSubnet, a \in EmissionProvider : k[s][a] \in Nat

VARIABLES
  emissionHistory,      \* emission_history, with the weights and stakes of each split
  subnetTotals,         \* subnet_totals
  totalEmitted,         \* total_emitted
  lastEmissionHeight    \* last_emission_height

emissionVars == <<emissionHistory, subnetTotals, totalEmitted, lastEmissionHeight>>

EmissionInit ==
  /\ emissionHistory = {}
  /\ subnetTotals = [s \in EmissionSubnet |-> 0]
  /\ totalEmitted = 0 /\ lastEmissionHeight = 0

\* calculate_reward, whose shift stops at 127.
RewardAt(height) ==
  LET halvings == IF HalvingInterval = 0 THEN 0 ELSE height \div HalvingInterval IN
  Larger(MinReward, BaseReward \div 2^(IF halvings > 127 THEN 127 ELSE halvings))

\* Rewards are amounts.
ASSUME RewardsTyped == \A height \in EmissionHeights : RewardAt(height) \in Nat

\* gcd, 1 where both are 0
Gcd(a, b) ==
  IF a = 0 \/ b = 0 THEN Larger(1, a + b)
  ELSE CHOOSE d \in 1 .. a :
         /\ a % d = 0 /\ b % d = 0
         /\ \A n \in 1 .. a : a % n = 0 /\ b % n = 0 => n <= d

\* The fraction total * stake / totalStake, reduced twice; its product may still wrap.
Reduced(total, stake, totalStake) ==
  LET g == Gcd(total, totalStake)
      h == Gcd(stake, totalStake \div g)
  IN [product |-> (total \div g) * (stake \div h), divisor |-> (totalStake \div g) \div h]

ShareOf(total, stake, totalStake) ==
  LET r == Reduced(total, stake, totalStake) IN Wrapped(r.product) \div r.divisor

\* What stakes and weights sum up to; the code has the sums modulo their widths.
StakeSum(stakes) == SumOver(LAMBDA a : stakes[a], EmissionProvider)
WeightSum(weights) == SumOver(LAMBDA s : weights[s], DOMAIN weights)

SplitByStake(total, stakes) ==
  [a \in {b \in EmissionProvider : stakes[b] > 0 /\ Wrapped(StakeSum(stakes)) > 0}
     |-> ShareOf(total, stakes[a], Wrapped(StakeSum(stakes)))]

Emit(height, weights, stakes) ==
  LET weightSum == WeightSum(weights) % WeightModulus
      amount(s) == Wrapped(RewardAt(height) * weights[s]) \div weightSum
  IN
  /\ Cardinality({e.height : e \in emissionHistory}) < MaxEmissions
  /\ \A e \in emissionHistory : e.height # height
  /\ ~(height = lastEmissionHeight /\ emissionHistory # {})
  /\ DOMAIN weights # {} /\ weightSum > 0 /\ RewardAt(height) > 0
  /\ emissionHistory' = emissionHistory \cup
       {[subnet |-> s, amount |-> amount(s), height |-> height, weights |-> weights,
         stakes |-> stakes[s], shares |-> SplitByStake(amount(s), stakes[s])]
         : s \in DOMAIN weights}
  /\ subnetTotals' = [s \in EmissionSubnet |->
       IF s \in DOMAIN weights THEN Wrapped(subnetTotals[s] + amount(s)) ELSE subnetTotals[s]]
  /\ totalEmitted' = Wrapped(totalEmitted + SumOver(amount, DOMAIN weights))
  /\ lastEmissionHeight' = height

EmissionNext ==
  \E height \in EmissionHeights, weights \in SubnetWeights, stakes \in ProviderStakes :
    Emit(height, weights, stakes)

----------------------------------------------------------------------------
(* Properties *)

\* Types of the controller's state.
EmissionTypeOK ==
  /\ subnetTotals \in [EmissionSubnet -> Nat]
  /\ totalEmitted \in Nat /\ lastEmissionHeight \in Nat
  /\ \A e \in emissionHistory :
       /\ e.subnet \in EmissionSubnet /\ e.amount \in Nat /\ e.height \in Nat
       /\ \A a \in DOMAIN e.shares : e.shares[a] \in Nat

\* The totals are those of the records, modulo their width.  A height whose weights have a
\* sum that fits emits at most its reward, whatever the order of heights and also when the
\* reward times a weight leaves its width.  Where the sum of the stakes fits, a provider's
\* share is at most the part of the amount that is its part of the stake, so that the shares
\* give out no more than there is; it is that part, rounded down, as long as the product that
\* the code has left after its two reductions fits too, which the comment at
\* emission/controller.rs:199 takes for granted (emission/controller.rs:75, 91, 109, 211).
EmissionOnSchedule ==
  LET amounts(S) == SumOver(LAMBDA e : e.amount, S) IN
  /\ \A e \in emissionHistory :
       /\ WeightSum(e.weights) < WeightModulus =>
            amounts({f \in emissionHistory : f.height = e.height}) <= RewardAt(e.height)
       /\ StakeSum(e.stakes) < FeeModulus =>
            /\ SumFunction(e.shares) <= e.amount
            /\ \A a \in DOMAIN e.shares :
                 Reduced(e.amount, e.stakes[a], StakeSum(e.stakes)).product < FeeModulus =>
                   e.shares[a] = (e.amount * e.stakes[a]) \div StakeSum(e.stakes)
  /\ totalEmitted = Wrapped(amounts(emissionHistory))
  /\ \A s \in EmissionSubnet :
       subnetTotals[s] = Wrapped(amounts({e \in emissionHistory : e.subnet = s}))
=============================================================================

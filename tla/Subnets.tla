------------------------------ MODULE Subnets ------------------------------
(***************************************************************************)
(* The registry of subnets and of the providers in them                    *)
(* (subnet/registry.rs), with the index of a provider's subnets.  The      *)
(* stake of a provider is what the caller says (SubnetStaking keeps the    *)
(* stakes).  Left out: names, fees, jobs and revenues, which nothing       *)
(* changes, and heights, which decide nothing.                             *)
(***************************************************************************)
EXTENDS Common, Sequences, Functions

CONSTANTS
  SubnetId, SubnetProvider,        \* subnets and addresses of providers
  NoSubnet, NoProvider,            \* missing map entries
  SubnetCaller, SubnetAdmin,       \* who calls, and the admin among them
  SubnetConfigs,                   \* configurations that an admin registers
  DefaultSubnets,                  \* the default subnets in their order: [id, config]
  EmissionWeights, JoinStakes, QualityScores,   \* what callers pass
  InitialQuality, MaxQuality       \* 5000 and 10000

SubnetConfig ==
  [minStake : Nat, maxProviders : Nat, weight : Nat, status : {"Active", "Paused", "Deprecated"}]

ASSUME SubnetsTyped ==
  /\ NoSubnet \notin SubnetConfig /\ NoProvider \notin [stake : Nat, quality : Nat]
  /\ IsFiniteSet(SubnetProvider) /\ InitialQuality <= MaxQuality
  /\ SubnetAdmin \in SubnetCaller /\ SubnetConfigs \subseteq SubnetConfig
  /\ DefaultSubnets \in Seq([id : SubnetId, config : SubnetConfig])
  /\ EmissionWeights \cup JoinStakes \cup QualityScores \cup {InitialQuality, MaxQuality}
       \subseteq Nat

VARIABLES
  subnets,            \* SubnetConfig by id
  subnetProviders,    \* providers, by subnet and address
  providerSubnets     \* provider_subnets: the subnets of an address, in order

subnetsVars == <<subnets, subnetProviders, providerSubnets>>

SubnetsInit ==
  /\ subnets = [s \in SubnetId |-> NoSubnet]
  /\ subnetProviders = [k \in SubnetId \X SubnetProvider |-> NoProvider]
  /\ providerSubnets = [a \in SubnetProvider |-> <<>>]

InRegistry(s) == subnets[s] # NoSubnet
Joined(s, a) == subnetProviders[<<s, a>>] # NoProvider
ProvidersOf(s) == {a \in SubnetProvider : Joined(s, a)}

\* The default subnets up to the first that is registered already, which ends the call with
\* an error: those before it stay.
InitializeDefaultSubnets ==
  LET known == {i \in DOMAIN DefaultSubnets : InRegistry(DefaultSubnets[i].id)}
      new == {i \in DOMAIN DefaultSubnets : \A k \in known : i < k}
  IN
  /\ subnets' = [s \in SubnetId |->
       IF \E i \in new : DefaultSubnets[i].id = s
       THEN (CHOOSE d \in {DefaultSubnets[i] : i \in new} : d.id = s).config ELSE subnets[s]]
  /\ UNCHANGED <<subnetProviders, providerSubnets>>

RegisterSubnet(s, config, caller) ==
  /\ caller = SubnetAdmin /\ ~InRegistry(s)
  /\ subnets' = [subnets EXCEPT ![s] = config]
  /\ UNCHANGED <<subnetProviders, providerSubnets>>

JoinSubnet(s, a, stake) ==
  /\ InRegistry(s) /\ subnets[s].status = "Active"
  /\ stake >= subnets[s].minStake
  /\ Cardinality(ProvidersOf(s)) < subnets[s].maxProviders
  /\ ~Joined(s, a)
  /\ subnetProviders' = [subnetProviders EXCEPT ![<<s, a>>] =
       [stake |-> stake, quality |-> InitialQuality]]
  /\ providerSubnets' = [providerSubnets EXCEPT ![a] = Append(@, s)]
  /\ UNCHANGED subnets

\* retain: what differs from x, in its order.
Without(q, x) ==
  LET kept == {i \in DOMAIN q : q[i] # x}
      place == CHOOSE p \in [1 .. Cardinality(kept) -> kept] :
                 \A i, j \in DOMAIN p : i < j => p[i] < p[j]
  IN [i \in DOMAIN place |-> q[place[i]]]

LeaveSubnet(s, a) ==
  /\ Joined(s, a)
  /\ subnetProviders' = [subnetProviders EXCEPT ![<<s, a>>] = NoProvider]
  /\ providerSubnets' = [providerSubnets EXCEPT ![a] = Without(@, s)]
  /\ UNCHANGED subnets

\* Mutant: a score above the best is taken.
UpdateUncapped(s, a, score) ==
  /\ Joined(s, a)
  /\ subnetProviders' = [subnetProviders EXCEPT ![<<s, a>>].quality = score]
  /\ UNCHANGED <<subnets, providerSubnets>>

UpdateQuality(s, a, score) ==
  /\ Joined(s, a)
  /\ subnetProviders' = [subnetProviders EXCEPT ![<<s, a>>].quality = Min({score, MaxQuality})]
  /\ UNCHANGED <<subnets, providerSubnets>>

\* The weights are not summed up.
SetEmissionWeight(s, weight, caller) ==
  /\ caller = SubnetAdmin /\ InRegistry(s)
  /\ subnets' = [subnets EXCEPT ![s].weight = weight]
  /\ UNCHANGED <<subnetProviders, providerSubnets>>

\* pause_subnet and resume_subnet, which also bring a deprecated subnet back.
SetSubnetStatus(s, status, caller) ==
  /\ caller = SubnetAdmin /\ InRegistry(s)
  /\ subnets' = [subnets EXCEPT ![s].status = status]
  /\ UNCHANGED <<subnetProviders, providerSubnets>>

SubnetsNext ==
  \/ InitializeDefaultSubnets
  \/ \E s \in SubnetId, caller \in SubnetCaller :
       \/ \E config \in SubnetConfigs : RegisterSubnet(s, config, caller)
       \/ \E weight \in EmissionWeights : SetEmissionWeight(s, weight, caller)
       \/ \E status \in {"Active", "Paused"} : SetSubnetStatus(s, status, caller)
  \/ \E s \in SubnetId, a \in SubnetProvider :
       \/ \E stake \in JoinStakes : JoinSubnet(s, a, stake)
       \/ LeaveSubnet(s, a)
       \/ \E score \in QualityScores : UpdateQuality(s, a, score)

----------------------------------------------------------------------------
(* Properties *)

\* Types of the registry's state.
SubnetsTypeOK ==
  /\ subnets \in [SubnetId -> SubnetConfig \cup {NoSubnet}]
  /\ subnetProviders \in
       [SubnetId \X SubnetProvider -> [stake : Nat, quality : 0 .. MaxQuality] \cup {NoProvider}]
  /\ providerSubnets \in [SubnetProvider -> Seq(SubnetId)]

\* In whatever order providers join, leave and join again while subnets are paused and
\* resumed, the index names the subnets that an address is in, each once, and no subnet has
\* more providers than it takes, or one below its stake (subnet/registry.rs:167, 198, 215).
SubnetsIndexed ==
  /\ \A a \in SubnetProvider :
       /\ Range(providerSubnets[a]) = {s \in SubnetId : Joined(s, a)}
       /\ IsInjective(providerSubnets[a])
  /\ \A s \in SubnetId : ProvidersOf(s) # {} =>
       /\ InRegistry(s) /\ Cardinality(ProvidersOf(s)) <= subnets[s].maxProviders
       /\ \A a \in ProvidersOf(s) : subnetProviders[<<s, a>>].stake >= subnets[s].minStake

----------------------------------------------------------------------------
(***************************************************************************)
(* Two oracles: the price of ISA, whose feeders may move it only so far at *)
(* a time (oracle/oracle.rs), and the quality of providers, the average of *)
(* what reporters say of them (quality/oracle.rs).  A feeder or reporter   *)
(* that is revoked leaves what it said.  Staleness and conversions are     *)
(* queries for callers.                                                    *)
(***************************************************************************)

CONSTANTS
  Feeder, OracleCaller, OracleAdmin,     \* addresses, and the admin of both
  InitialPrice, MaxDeviationBps,         \* parameters of the price oracle
  SubmittedPrices,
  Rated, Reporter,                       \* providers in their subnets, and reporters
  ReportScores, MaxReportScore,          \* what reporters say, and 10000
  MinReports,                            \* min_reports_for_aggregate
  NoScore,                               \* a missing map entry
  MaxPrices, MaxReports                  \* bounds of the exploration

ASSUME OraclesTyped ==
  /\ OracleAdmin \in OracleCaller /\ NoScore \notin Nat
  /\ SubmittedPrices \cup ReportScores
       \cup {InitialPrice, MaxDeviationBps, MaxReportScore, MinReports} \subseteq Nat

VARIABLES
  prices,              \* prices: of each point the price and the height
  currentPrice, feeders,
  lastUpdateHeight,    \* last_update_height, -1 if there is none
  reports,             \* reports: the scores, by provider
  aggregatedScores,    \* aggregated_scores
  reporters            \* authorized_reporters

priceVars == <<prices, currentPrice, feeders, lastUpdateHeight>>
qualityVars == <<reports, aggregatedScores, reporters>>
oracleVars == <<priceVars, qualityVars>>

OraclesInit ==
  /\ prices = <<>> /\ currentPrice = InitialPrice /\ feeders = {} /\ lastUpdateHeight = -1
  /\ reports = [k \in Rated |-> <<>>] /\ aggregatedScores = [k \in Rated |-> NoScore]
  /\ reporters = {}

----------------------------------------------------------------------------
(* Prices *)

\* check_deviation; from a price of 0 any price may follow.
SmallMove(from, to) ==
  from > 0 => ((IF to > from THEN to - from ELSE from - to) * 10000) \div from <= MaxDeviationBps

SubmitPrice(price, feeder) ==
  /\ Len(prices) < MaxPrices
  /\ feeder \in feeders /\ price > 0 /\ SmallMove(currentPrice, price)
  /\ prices' = Append(prices, [price |-> price, height |-> now])
  /\ currentPrice' = price
  /\ lastUpdateHeight' = now
  /\ UNCHANGED feeders

AuthorizeFeeder(feeder, caller) ==
  /\ caller = OracleAdmin /\ feeders' = feeders \cup {feeder}
  /\ UNCHANGED <<prices, currentPrice, lastUpdateHeight>>

RevokeFeeder(feeder, caller) ==
  /\ caller = OracleAdmin /\ feeders' = feeders \ {feeder}
  /\ UNCHANGED <<prices, currentPrice, lastUpdateHeight>>

\* get_price_at: the newest point that is not above the height.
PointsUpTo(height) == {i \in DOMAIN prices : prices[i].height <= height}

\* get_twap: the mean of the newest points, whenever they were submitted.
Twap(count) ==
  LET newest == {i \in DOMAIN prices : i > Len(prices) - count} IN
  SumOver(LAMBDA i : prices[i].price, newest) \div Cardinality(newest)

----------------------------------------------------------------------------
(* Quality *)

\* aggregate_score
Average(scores) == SumOver(LAMBDA i : scores[i], DOMAIN scores) \div Len(scores)

\* With too few reports the aggregate stays as it is.
Aggregated(k, scores) ==
  IF Len(scores) >= MinReports THEN Average(scores) ELSE aggregatedScores[k]

SubmitReport(k, reporter, score) ==
  /\ Len(reports[k]) < MaxReports
  /\ reporter \in reporters /\ score <= MaxReportScore
  /\ reports' = [reports EXCEPT ![k] = Append(@, score)]
  /\ aggregatedScores' = [aggregatedScores EXCEPT ![k] = Aggregated(k, reports'[k])]
  /\ UNCHANGED reporters

AuthorizeReporter(reporter, caller) ==
  /\ caller = OracleAdmin /\ reporters' = reporters \cup {reporter}
  /\ UNCHANGED <<reports, aggregatedScores>>

RevokeReporter(reporter, caller) ==
  /\ caller = OracleAdmin /\ reporters' = reporters \ {reporter}
  /\ UNCHANGED <<reports, aggregatedScores>>

PriceNext ==
  \E f \in Feeder :
    \/ \E price \in SubmittedPrices : SubmitPrice(price, f)
    \/ \E caller \in OracleCaller : AuthorizeFeeder(f, caller) \/ RevokeFeeder(f, caller)

QualityNext ==
  \E r \in Reporter :
    \/ \E k \in Rated, score \in ReportScores : SubmitReport(k, r, score)
    \/ \E caller \in OracleCaller : AuthorizeReporter(r, caller) \/ RevokeReporter(r, caller)

----------------------------------------------------------------------------
(* Properties *)

\* Types of both oracles' state.
OraclesTypeOK ==
  /\ prices \in Seq([price : Nat \ {0}, height : 0 .. MaxNow])
  /\ currentPrice \in Nat /\ feeders \subseteq Feeder /\ lastUpdateHeight \in -1 .. MaxNow
  /\ reports \in [Rated -> Seq(0 .. MaxReportScore)]
  /\ aggregatedScores \in [Rated -> 0 .. MaxReportScore \cup {NoScore}]
  /\ reporters \subseteq Reporter

\* However feeders take turns and come and go, every price is within the deviation of the
\* one before it, downwards as upwards, so that no sequence of them reaches 0; the current
\* price is the one for its height, and a mean is between the prices it is the mean of
\* (oracle/oracle.rs:85, 124, 213).
PricesContinuous ==
  LET at(i) == IF i = 0 THEN InitialPrice ELSE prices[i].price IN
  /\ \A i \in DOMAIN prices : at(i) > 0 /\ SmallMove(at(i - 1), at(i))
  /\ currentPrice = at(Len(prices))
  /\ prices # <<>> =>
       /\ at(Max(PointsUpTo(lastUpdateHeight))) = currentPrice
       /\ \A n \in DOMAIN prices :
            LET newest == {at(i) : i \in Len(prices) - n + 1 .. Len(prices)}
            IN Twap(n) \in Min(newest) .. Max(newest)

\* A provider has a score once enough was reported of it, and the score is the mean of all
\* reports, of reporters that were revoked too (quality/oracle.rs:90, 132).
ScoresAverage ==
  \A k \in Rated :
    aggregatedScores[k] =
      IF Len(reports[k]) < Larger(MinReports, 1) THEN NoScore ELSE Average(reports[k])
=============================================================================

------------------------------ MODULE Managers ------------------------------
(***************************************************************************)
(* The managers around the ledger.  They share nothing but the height that *)
(* their callers pass, so a behavior of this module moves one of them,     *)
(* part, and any behavior of all of them is an interleaving of such ones.  *)
(***************************************************************************)
EXTENDS Deposits, Withdrawals, Credits, CrossChain,
        SettlementPipeline, SettlementFallback, BalanceSync, Governor, VoteEscrow,
        TokenSupply, Fees, SubnetStaking, Delegations,
        AgentWallets, Budgets, CreditBilling, Incentives, AgentTokens, AgentRecords,
        Subnets, PeerTable

CONSTANT Parts    \* the managers that a run is about

\* The managers that do not ask for the height.
Timeless ==
  {"credits", "credit bridge", "cross chain", "token", "emission", "treasury", "fee pools",
   "agent tokens", "registry", "validator set", "subnets", "quality", "peers"}

custodyVars == <<depositVars, withdrawalVars, creditVars, creditBridgeVars, bridgeVars>>
settlementVars == <<pipelineVars, fallbackVars, syncVars>>
governanceVars == <<governorVars, voteEscrowVars>>
economyVars == <<supplyVars, emissionVars, feeVars, subnetStakingVars, delegationVars>>
spendingVars == <<walletVars, budgetVars, billingVars, incentiveVars>>
agentVars == <<spendingVars, agentTokenVars, recordVars>>
networkVars == <<subnetsVars, oracleVars, peerVars>>
managersVars ==
  <<now, part, custodyVars, settlementVars, governanceVars, economyVars, agentVars, networkVars>>

ManagersInit ==
  /\ ClockInit /\ part \in Parts
  /\ DepositsInit /\ WithdrawalsInit /\ CreditsInit /\ CreditBridgeInit /\ CrossChainInit
  /\ PipelineInit /\ FallbackInit /\ BalanceSyncInit
  /\ GovernorInit /\ VoteEscrowInit
  /\ SupplyInit /\ EmissionInit /\ FeesInit /\ SubnetStakingInit /\ DelegationsInit
  /\ WalletsInit /\ BudgetsInit /\ BillingInit /\ IncentivesInit
  /\ AgentTokensInit /\ RecordsInit
  /\ SubnetsInit /\ OraclesInit /\ PeersInit

\* Those that hold what users put in until it is paid out or given back.
CustodyNext ==
  \/ /\ part = "deposits" /\ DepositsNext
     /\ UNCHANGED <<withdrawalVars, creditVars, creditBridgeVars, bridgeVars>>
  \/ /\ part = "withdrawals" /\ WithdrawalsNext
     /\ UNCHANGED <<depositVars, creditVars, creditBridgeVars, bridgeVars>>
  \/ /\ part = "credits" /\ CreditsNext
     /\ UNCHANGED <<depositVars, withdrawalVars, creditBridgeVars, bridgeVars>>
  \/ /\ part = "credit bridge" /\ CreditBridgeNext
     /\ UNCHANGED <<depositVars, withdrawalVars, creditVars, bridgeVars>>
  \/ /\ part = "cross chain" /\ CrossChainNext
     /\ UNCHANGED <<depositVars, withdrawalVars, creditVars, creditBridgeVars>>

SettlementNext ==
  \/ part = "pipeline" /\ PipelineNext /\ UNCHANGED <<fallbackVars, syncVars>>
  \/ part = "fallback" /\ FallbackNext /\ UNCHANGED <<pipelineVars, syncVars>>
  \/ part = "balance sync" /\ BalanceSyncNext /\ UNCHANGED <<pipelineVars, fallbackVars>>

GovernanceNext ==
  \/ part = "governor" /\ GovernorNext /\ UNCHANGED voteEscrowVars
  \/ part = "vote escrow" /\ VoteEscrowNext /\ UNCHANGED governorVars

\* Where tokens come from and go: supply and vesting, block rewards, fees, stakes.
EconomyNext ==
  \/ /\ part = "token" /\ TokenNext
     /\ UNCHANGED <<vestingVars, emissionVars, feeVars, subnetStakingVars, delegationVars>>
  \/ /\ part = "vesting" /\ VestingNext
     /\ UNCHANGED <<tokenVars, emissionVars, feeVars, subnetStakingVars, delegationVars>>
  \/ /\ part = "emission" /\ EmissionNext
     /\ UNCHANGED <<supplyVars, feeVars, subnetStakingVars, delegationVars>>
  \/ /\ part = "treasury" /\ TreasuryNext
     /\ UNCHANGED <<supplyVars, emissionVars, feePoolVars, subnetStakingVars, delegationVars>>
  \/ /\ part = "fee pools" /\ FeePoolsNext
     /\ UNCHANGED <<supplyVars, emissionVars, treasuryVars, subnetStakingVars, delegationVars>>
  \/ /\ part = "subnet staking" /\ SubnetStakingNext
     /\ UNCHANGED <<supplyVars, emissionVars, feeVars, delegationVars>>
  \/ /\ part = "delegations" /\ AccountsNext
     /\ UNCHANGED <<supplyVars, emissionVars, feeVars, subnetStakingVars, validatorSetVars>>
  \/ /\ part = "validator set" /\ ValidatorSetNext
     /\ UNCHANGED <<supplyVars, emissionVars, feeVars, subnetStakingVars, accountVars>>

\* What agents may spend, and what is known of them.  A budget that is spent from, or a
\* charge, moves nothing in a wallet.
AgentsNext ==
  \/ /\ part = "wallets" /\ WalletsNext
     /\ UNCHANGED <<budgetVars, billingVars, incentiveVars, agentTokenVars, recordVars>>
  \/ /\ part = "budgets" /\ BudgetsNext
     /\ UNCHANGED <<walletVars, billingVars, incentiveVars, agentTokenVars, recordVars>>
  \/ /\ part = "billing" /\ BillingNext
     /\ UNCHANGED <<walletVars, budgetVars, incentiveVars, agentTokenVars, recordVars>>
  \/ /\ part = "incentives" /\ IncentivesNext
     /\ UNCHANGED <<walletVars, budgetVars, billingVars, agentTokenVars, recordVars>>
  \/ part = "agent tokens" /\ AgentTokensNext /\ UNCHANGED <<spendingVars, recordVars>>
  \/ /\ part = "registry" /\ RegistryNext
     /\ UNCHANGED <<spendingVars, agentTokenVars, reputationVars>>
  \/ /\ part = "reputation" /\ ReputationNext
     /\ UNCHANGED <<spendingVars, agentTokenVars, registryVars>>

\* Subnets, what oracles say, and peers.
NetworkNext ==
  \/ part = "subnets" /\ SubnetsNext /\ UNCHANGED <<oracleVars, peerVars>>
  \/ part = "prices" /\ PriceNext /\ UNCHANGED <<qualityVars, subnetsVars, peerVars>>
  \/ part = "quality" /\ QualityNext /\ UNCHANGED <<priceVars, subnetsVars, peerVars>>
  \/ part = "peers" /\ PeersNext /\ UNCHANGED <<subnetsVars, oracleVars>>

CallNext ==
  \/ /\ CustodyNext
     /\ UNCHANGED <<settlementVars, governanceVars, economyVars, agentVars, networkVars>>
  \/ /\ SettlementNext
     /\ UNCHANGED <<custodyVars, governanceVars, economyVars, agentVars, networkVars>>
  \/ /\ GovernanceNext
     /\ UNCHANGED <<custodyVars, settlementVars, economyVars, agentVars, networkVars>>
  \/ /\ EconomyNext
     /\ UNCHANGED <<custodyVars, settlementVars, governanceVars, agentVars, networkVars>>
  \/ /\ AgentsNext
     /\ UNCHANGED <<custodyVars, settlementVars, governanceVars, economyVars, networkVars>>
  \/ /\ NetworkNext
     /\ UNCHANGED <<custodyVars, settlementVars, governanceVars, economyVars, agentVars>>

ManagersNext ==
  \/ CallNext /\ UNCHANGED <<now, part>>
  \/ /\ Tick /\ part \notin Timeless
     /\ UNCHANGED <<custodyVars, settlementVars, governanceVars, economyVars, agentVars,
                    networkVars>>

ManagersSpec == ManagersInit /\ [][ManagersNext]_managersVars

----------------------------------------------------------------------------
(* Properties *)

\* Types of all managers' state.
ManagersTypeOK ==
  /\ DepositsTypeOK /\ WithdrawalsTypeOK /\ CreditsTypeOK /\ CreditBridgeTypeOK
  /\ CrossChainTypeOK /\ PipelineTypeOK /\ FallbackTypeOK /\ BalanceSyncTypeOK
  /\ GovernorTypeOK /\ VoteEscrowTypeOK
  /\ SupplyTypeOK /\ EmissionTypeOK /\ FeesTypeOK /\ SubnetStakingTypeOK /\ DelegationsTypeOK
  /\ WalletsTypeOK /\ BudgetsTypeOK /\ BillingTypeOK /\ IncentivesTypeOK
  /\ AgentTokensTypeOK /\ RecordsTypeOK /\ SubnetsTypeOK /\ OraclesTypeOK /\ PeersTypeOK

\* What came in is held, went out or was given back, and the totals beside the records say
\* so (credits/system.rs:103, credit_bridge/bridge.rs:141, cross_chain/bridge.rs:202,
\* withdrawal/manager.rs:107).
CustodyAccounted == CreditsAccounted /\ EventsAccounted /\ BridgeAccounted /\ OpenWithinLimit

\* Every billing event is accounted for from the queue to the proof, twice only outside the
\* window, every shortfall is resolved or reported, and every discrepancy known
\* (settlement_bridge/bridge.rs:94, settlement_proof/store.rs:82,
\* settlement_fallback/manager.rs:203, balance_sync/engine.rs:156).
SettlementAccounted ==
  /\ EventsAccountedFor /\ DuplicatesOutsideWindow /\ ProofsOfSettlements
  /\ ChargesAccounted /\ DiscrepanciesKnown

\* A proposal is executed on a vote that passed it, whatever was tallied since, and a voter's
\* power is covered by the total, whenever the locks were made, extended and increased
\* (governance/governor.rs:164, veisa/system.rs:152).
GovernanceAccounted == ExecutedByVote /\ TotalCoversPower

\* Every token is where the records say, once (token.rs:176, emission/controller.rs:115,
\* treasury/treasury.rs:187, fee_routing.rs:155, subnet_staking/manager.rs:206,
\* account/account.rs:256).
EconomyAccounted ==
  /\ SupplyAccounted /\ EmissionOnSchedule /\ FeesAccounted
  /\ SubnetStakeAccounted /\ DelegationsAccounted

\* Nobody spends more than was allowed, or after the height until which it was allowed
\* (agent_wallet/factory.rs:172, budget/manager.rs:95, credit_billing/engine.rs:240,
\* incentives/manager.rs:106).
SpendingWithinLimits ==
  WalletsWithinLimits /\ BudgetsKept /\ BillingAccounted /\ IncentivesKept

\* What is recorded agrees with what happened: scores with events, indexes with entries,
\* reserves with trades, prices with the ones before them, and nobody is connected who was
\* banned (reputation/system.rs:302, agent_registry/registry.rs:61,
\* agent_token/factory.rs:103, subnet/registry.rs:198, oracle/oracle.rs:85,
\* quality/oracle.rs:90, p2p/network.rs:65).
RecordsAgree ==
  /\ RecordsExplained /\ ReservesTrackCurve /\ BannedStayOut
  /\ SubnetsIndexed /\ PricesContinuous /\ ScoresAverage

\* What is put in a manager's care is held under its key until it is paid out or given
\* back, once: deposits and withdrawals are escrows (deposit/manager.rs:120,
\* withdrawal/manager.rs:164).
EscrowsKept == DepositEscrow!EscrowSpec /\ WithdrawalEscrow!EscrowSpec
=============================================================================

\* Every manager around the ledger, one at a time.
SPECIFICATION ManagersSpec
CONSTANTS
  u = u
  v = v
  s = s
  t = t
  Parts = {"deposits", "withdrawals", "credits", "credit bridge", "cross chain", "pipeline",
    "fallback",
    "governor", "vote escrow", "token", "vesting", "emission", "treasury", "fee pools",
    "subnet staking",
    "wallets", "budgets", "billing", "incentives", "agent tokens", "registry", "reputation",
    "balance sync", "delegations", "validator set", "subnets", "prices", "quality", "peers"}
  MaxNow = 2
  HeightModulus = 8
  DepositId <- MCDepositId
  NoDeposit = None
  IsaPrices = {0, 3}
  CreditUnit = 2
  MaxDepositCalls = 3
  WithdrawalId <- MCWithdrawalId
  NoWithdrawal = None
  WithdrawalPrices = {0, 1}
  WithdrawalFee <- Half
  CooldownBlocks = 1
  MinWithdrawal = 2
  DailyLimit = 6
  WithdrawalUnit = 1
  MaxWithdrawalCalls = 3
  CreditHolder = {u, v}
  CreditAdmin = u
  NoAccount = None
  IsaAmounts = {0, 1, 3}
  CreditIsaPrices = {2, 3}
  InitialCreditPrice = 2
  CreditPrices = {0, 1, 2}
  CreditAmounts = {1, 3}
  MinPurchase = 2
  CreditModulus = 8
  MaxCreditCalls = 2
  EventAmounts = {0, 1, 2}
  MaxBridgeEvents = 2
  BridgeUser = {u, v}
  BridgeAdmin = u
  DestChain = {"ISAChain", "Ethereum"}
  HomeChain = "ISAChain"
  BridgeAmounts = {1, 2, 3, 4}
  BridgeFee <- Half
  MinTransfer = 2
  MaxTransfer = 3
  MaxTransfers = 3
  BillingEvent <- MCBillingEvent
  Timestamps = {0}
  DedupWindow = 1
  SettlementFee <- Half
  ConfirmationsRequired = 1
  FinalizationDepth = 2
  MaxIngested = 3
  FallbackAmounts = {0, 1, 3}
  MaxDeferBlocks = 1
  AutoCreditThreshold = 1
  MaxShortfalls = 2
  ProposalId <- MCProposalId
  NoProposal = None
  GovernanceVoter = {u, v}
  VoteWeights = {0, 1, 2}
  ProposerStakes = {0, 1}
  SubnetStakes = {0, 3, 10}
  VotingPeriod = 1
  MinProposalStake = 1
  QuorumShare = 30
  ThresholdShare = 60
  Whole = 100
  MaxTallies = 2
  LockOwner = {u, v}
  NoLock = None
  LockAmounts = {0, 2, 3}
  LockDurations = {0, 2, 3, 5}
  MinLockDuration = 2
  MaxLockDuration = 4
  MinLockAmount = 1
  MaxLockedTotal = 6
  TokenParty = {u, v}
  TokenAdmin = u
  TokenAmounts = {0, 3, 5}
  InitialSupply = 5
  SupplyModulus = 8
  Beneficiary = {u, v}
  NoSchedule = None
  VestingSchedules <- MCVestingSchedules
  MaxTokenCalls = 4
  EmissionSubnet = {s, t}
  EmissionProvider = {u, v}
  SubnetWeights <- MCSubnetWeights
  ProviderStakes <- MCProviderStakes
  WeightModulus = 8
  BaseReward = 12
  HalvingInterval = 2
  MinReward = 1
  EmissionHeights = {0, 1, 2, 9}
  MaxEmissions = 2
  Payee = {u, v}
  TreasuryAdmin = u
  FeeModulus = 32
  FullRate = 10
  InitialFeeRate = 5
  FeeRates = {0, 10, 11}
  FeeAmounts = {0, 3, 30}
  StakerShareBps = 7
  FeeSubnet = {s, t}
  NoPool = None
  ProtocolFeeBps = 2
  SubnetFeeBps = 5
  MaxFeeCalls = 4
  StakingSubnet = {s}
  StakingProvider = {u, v}
  NoStake = None
  SubnetStakeAmounts = {1, 2}
  Reputations = {1, 2}
  SubnetSlashBps = {4000, 9000}
  SubnetMaxSlashBps = 5000
  SubnetUnbondingPeriod = 1
  BaseStake = 2
  DiscountTiers <- MCDiscountTiers
  MaxDiscountBps = 7500
  StakeModulus = 20001
  MaxStakedIn = 2
  Agent = {u}
  WalletOwner = {u, v}
  NoWallet = None
  WalletAmounts = {1, 2}
  SpendingLimits = {1}
  WalletTerms <- MCWalletTerms
  WalletSubnet = {s}
  AllSubnets = All
  SubnetLists = {All, {}}
  DailyBlocks = 1
  MonthlyBlocks = 2
  MaxWalletDeposits = 3
  DelegationId <- MCDelegationId
  NoDelegation = None
  BudgetCaller = {u, v}
  Budgets = {0, 2}
  TxLimits = {1, 2}
  Expiries = {0, 1}
  BudgetAmounts = {0, 1, 2}
  BudgetService = {s, t}
  BudgetMax = 3
  MaxBudget = 4
  BilledUser = {u, v}
  BilledService = {s}
  NoWindow = None
  Charges = {0, 1, 2}
  BilledBalances = {1, 2}
  MaxRequests = 1
  BillingPeriod = 2
  MaxCharges = 3
  ProgramId <- MCProgramId
  NoProgram = None
  IncentiveCaller = {u, v}
  GlobalAdmin = v
  ProgramBudgets = {0, 2}
  ProgramExpiries = {0, 1}
  RewardAmounts = {0, 1, 2}
  MaxRewards = 4
  TokenAgent = {s}
  TokenHolder = {u, v}
  NoToken = None
  Curves <- MCCurves
  Scale = 2
  TradeAmounts = {0, 1, 2, 3}
  MaxTrades = 4
  RecordAgent = {s}
  NoRecord = None
  RecordCaller = {u, v}
  RegistryAdmin = u
  Capability = {"code", "data"}
  CapabilityLists <- MCCapabilityLists
  Scores = {3, 11}
  Points = {0, 3, 8, 13}
  MaxScore = 10
  ScoreModulus = 16
  SuccessDelta = 1
  FailureDelta <- MCFailureDelta
  DisputeWinDelta = 2
  DisputeLossDelta <- MCDisputeLossDelta
  InitialScore = 5
  DecayRate = 2
  InactivityThreshold = 1
  MaxEvents = 2
  SyncAccount = {u, v}
  NoDiscrepancy = None
  ChainBalances = {3}
  CreditBalances = {1, 4}
  SyncPrices = {0, 1}
  IsaUnit = 2
  AutoFixThreshold = 1
  MaxSyncs = 2
  Peer = {s, t}
  NoPeer = None
  Stamps = {0, 1, 3}
  BanDurations = {0, 1}
  PeerHeights = {0, 1}
  MaxPeers = 1
  SubnetId = {s, t}
  SubnetProvider = {u, v}
  NoSubnet = None
  NoProvider = None
  SubnetCaller = {u, v}
  SubnetAdmin = u
  SubnetConfigs <- MCSubnetConfigs
  DefaultSubnets <- MCDefaultSubnets
  EmissionWeights = {1}
  JoinStakes = {1, 2}
  QualityScores = {11}
  InitialQuality = 5
  MaxQuality = 10
  StakingAccount = {u}
  Delegatee = {s, t}
  NoEntry = None
  DelegatedAmounts = {0, 1}
  MinSelfDelegation = 1
  DelegationPeriod = 1
  Powers = {1, 2}
  MaxDelegated = 2
  PowerModulus = 8
  MaxPower = 7
  Feeder = {u, v}
  OracleCaller = {u, v}
  OracleAdmin = u
  InitialPrice = 4
  MaxDeviationBps = 5000
  SubmittedPrices = {0, 1, 2, 3, 4, 6, 9}
  Rated = {s, t}
  Reporter = {u, v}
  ReportScores = {0, 3, 10, 11}
  MaxReportScore = 10
  MinReports = 2
  NoScore = None
  MaxPrices = 3
  MaxReports = 3
INVARIANTS
  ManagersTypeOK
  CustodyAccounted
  SettlementAccounted
  EconomyAccounted
  GovernanceAccounted
  SpendingWithinLimits
  RecordsAgree
PROPERTY
  EscrowsKept
CHECK_DEADLOCK FALSE

\* Finality votes, block sync and proof of stake, one at a time.
SPECIFICATION ConsensusSpec
CONSTANTS
  v1 = v1
  v2 = v2
  v3 = v3
  Block <- MCBlock
  Voter = {v1, v2, v3}
  Power <- MCPower
  TotalPowers = {1, 4}
  QuorumBps = 6667
  NoBlock = NoBlock
  BatchSizes = {1, 2}
  MaxConcurrentRequests = 2
  MaxPeerHeight = 5
  MaxLost = 1
  a = a
  b = b
  c = c
  Staker = {a, b, c}
  None = None
  StakeAmounts = {2, 4}
  SlashBps = {9000}
  MinStake = 2
  MaxSlashBps = 5000
  UnbondingPeriod = 1
  MinValidators = 1
  MaxChainHeight = 1
  MaxPutIn = 6
INVARIANTS
  ConsensusTypeOK
  AccountableSafety
  HighestFinalized
  StakeConserved
  EngineFollowsVault
  ProposerIsValidator
  RoundRobinIsFair
PROPERTY
  CatchesUp
CHECK_DEADLOCK FALSE

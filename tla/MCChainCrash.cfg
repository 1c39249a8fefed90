\* A node with RocksDB that crashes at any point, between any two puts.
SPECIFICATION Spec
CONSTANTS
  a = a
  b = b
  Zero = Zero
  Faucet = Faucet
  Address <- MCAddress
  Transactions <- CompetingTransactions
  NoAccount = NoAccount
  NoBlock = NoBlock
  StorageModes = {TRUE}
  ProduceEmpty = TRUE
  GenesisAccounts <- FaucetOnly
  InitialSupply = 12
  MinStake = 1
  MaxMempool = 3
  MaxTxs = 2
  AmountModulus = 64
  DripAmounts = {4}
  MaxBlocks = 3
  MaxDrips = 2
  MaxRestarts = 2
  MaxIOErrors = 0
INVARIANTS
  ChainLinked
  RestartFindsChain
  AckedBlocksDurable
  CrashLosesAtMostOneBlock
PROPERTIES
  AckedMeansSaved

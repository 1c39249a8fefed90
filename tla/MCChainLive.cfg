\* One life of a node, with and without RocksDB: RPC writes race the block
\* producer, and a put may fail.
SPECIFICATION FairSpec
CONSTANTS
  a = a
  b = b
  Zero = Zero
  Faucet = Faucet
  Address <- MCAddress
  Transactions <- WalletTransactions
  NoAccount = NoAccount
  NoBlock = NoBlock
  StorageModes = {TRUE, FALSE}
  ProduceEmpty = FALSE
  GenesisAccounts <- FaucetOnly
  InitialSupply = 8
  MinStake = 1
  MaxMempool = 3
  MaxTxs = 2
  AmountModulus = 64
  DripAmounts = {3}
  MaxBlocks = 4
  MaxDrips = 3
  MaxRestarts = 0
  MaxIOErrors = 1
INVARIANTS
  TypeOK
  NoReplay
  NonceCountsExecutions
  SupplyConserved
  SoleTransferExecutes
PROPERTIES
  PendingSettles

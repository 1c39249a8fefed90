\* A block put fails once; the node restarts later.
SPECIFICATION Spec
CONSTANTS
  a = a
  b = b
  Zero = Zero
  Faucet = Faucet
  Address <- MCAddress
  Transactions <- CompetingTransactions
  NoAccount = NoAccount
  NoBlock = NoBlock
  StorageModes = {TRUE}
  ProduceEmpty = TRUE
  GenesisAccounts <- FaucetOnly
  InitialSupply = 12
  MinStake = 1
  MaxMempool = 3
  MaxTxs = 2
  AmountModulus = 64
  DripAmounts = {4}
  MaxBlocks = 3
  MaxDrips = 2
  MaxRestarts = 1
  MaxIOErrors = 1
INVARIANT
  RestartFindsChain

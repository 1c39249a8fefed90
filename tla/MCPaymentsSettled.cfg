\* Does any order of creating and processing batches settle a channel twice?
SPECIFICATION PaymentsSpec
CONSTANTS
  a = a
  b = b
  Address = {a, b}
  ChannelId <- MCChannelId
  None = None
  Deposits = {1}
  Balances = {0, 1, 2}
  Nonces = {1, 2}
  AmountModulus = 3
  DisputePeriod = 1
  Expiry = 1
  MaxHeight = 3
  MaxDeposited = 3
  Amounts = {0, 2}
  MaxBatchSize = 2
  MaxBatches = 3
  MaxProcessed = 3
INVARIANT
  DoubleSettlementPrevented
CHECK_DEADLOCK FALSE

\* Two channels of one pair, and batches that settle them.
SPECIFICATION PaymentsSpec
CONSTANTS
  a = a
  b = b
  Address = {a, b}
  ChannelId <- MCChannelId
  None = None
  Deposits = {1}
  Balances = {0, 1, 2}
  Nonces = {1, 2}
  AmountModulus = 3
  DisputePeriod = 1
  Expiry = 1
  MaxHeight = 3
  MaxDeposited = 3
  Amounts = {0, 2}
  MaxBatchSize = 2
  MaxBatches = 3
  MaxProcessed = 3
INVARIANTS
  PaymentsTypeOK
  BalancesSplitDeposit
  DepositsAccounted
  SettledOnceInOrder
PROPERTIES
  EndedStaysEnded
  PeriodAfterLastChange
CHECK_DEADLOCK FALSE

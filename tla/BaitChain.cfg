SPECIFICATION ServiceSpec
CONSTANTS
  t1 = t1
  t2 = t2
  t3 = t3
  Txs = {t1, t2, t3}
  WellFormed = {t1, t2, t3}
  Spends <- MCSpends
  FeeRate <- MCFeeRate
  Agent <- MCAgent
  Nonce <- MCNonce
  BlockSize = 2
  MaxOrphans = 4
  MaxBlocks = 4
  Unsound = {2, 3}
  Clients = {c1}
  MaxRequests = 2
  Window = 2
  TTL = 3
  Shares = {s1}
  MaxTemplates = 1
  MaxTime = 3
INVARIANTS
  WorkTypeOK
  RestartFindsTheChain
  UtxoIsReplay
  
  OrphanPoolSound
  
PROPERTIES
  TransactionsAreKept
CHECK_DEADLOCK FALSE

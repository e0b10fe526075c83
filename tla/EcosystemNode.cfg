SPECIFICATION Spec
CONSTANTS
  a1 = a1
  a2 = a2
  l1 = l1
  p1 = p1
  p2 = p2
  x1 = x1
  o1 = o1
  o2 = o2
  hodl = hodl
  lend = lend
  t1 = t1
  t2 = t2
  t3 = t3
  None = None
  Nobody = Nobody
  Agents = {a1, a2}
  Amounts = {1}
  TotalSupply = 2
  FaucetAmount = 1
  MaxTotal = 2
  Cooldown = 2
  Window = 1
  RateLimit = 1
  MaxTime = 2
  Stakers = {a1, a2}
  Stakes = {20}
  MinStake = 20
  Percents = {5, 100}
  Rewards = {10}
  MaxRewards = 20
  Offers = {o1, o2}
  OfferAmount <- MCOfferAmount
  Collaterals = {3, 5, 9}
  Repayments = {1, 5}
  Owners = {a1}
  Strategies = {hodl, lend}
  Apy <- MCApy
  Year = 2
  VaultAmounts = {3, 4}
  AnyStrategy = AnyStrategy
  MaxHistory = 3
  Members = {a1, a2}
  Deltas <- MCDeltas
  MaxAgents = 1
  MaxEvents = 3
  Sources = {a1, a2}
  Weights = {0, 1}
  Prices = {1, 2}
  MinSources = 2
  MaxAge = 2
  MaxPoints = 2
  Listings = {l1}
  Purchases = {p1, p2}
  Txids = {x1}
  Price <- MCPrice
  Txs = {t1, t2, t3}
  Spends <- MCSpends
  Fee <- MCFee
  Sender <- MCSender
  MaxSize = 2
  MaxHeight = 2
  MaxRestarts = 1
INVARIANTS
  NodeTypeOK
  
  
  FaucetCapped
  PaidOutOnce
  PoolInOrder
  NoDoubleSpend

SPECIFICATION Spec
CONSTANTS
  Orders = {o1}
  Workers = {w1}
  Outpoints = {1}
  PaysTo <- Shared
  Coins = {1, 2}
  Funds = {2}
  ShortCoins = {}
  Faults = TRUE
  NoDeposit = NoDeposit
  NoTx = NoTx
INVARIANT OnePaymentPerOrder

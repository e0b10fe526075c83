SPECIFICATION Spec
CONSTANTS
  Orders = {o1}
  Workers = {w1, w2}
  Outpoints = {1, 2}
  PaysTo <- Shared
  Coins = {1, 2, 3}
  Funds = {3}
  ShortCoins = {1}
  Faults = FALSE
  NoDeposit = NoDeposit
  NoTx = NoTx
SYMMETRY Symmetry
INVARIANTS
  OnePaymentPerOrder
  SettledIsPaid
